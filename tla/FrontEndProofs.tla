--------------------------- MODULE FrontEndProofs ---------------------------
(***************************************************************************)
(* Proofs of the safety properties of FrontEndChannels, for every number   *)
(* of channels, boards, processes and gates, whatever chains of boards     *)
(* there are and whatever hardware files ask for.  The inductive invariant *)
(* is TypeOK with                                                          *)
(*                                                                         *)
(*   StatusType   the status bits the CROC-E of this model sets;           *)
(*   Counters     how far the loops over boards and channels are;          *)
(*   Sequencers   which sequencers can be on at each point;                *)
(*   Exchange     what the memory holds between a question and its answer; *)
(*   Found        AvailableMeansPresent, and what is set up so far;        *)
(*   Blocks       BlocksMatchBoards, and what the memory holds in a gate;  *)
(*   Splitting    how far a block is split, and that no frame is empty.    *)
(***************************************************************************)
EXTENDS FrontEndChannels, WellFoundedInduction, TLAPS

StatusBits ==
  {"ReceiveMemoryFrameReceived", "ReceiveMemoryFrameTimeout", "ReceiveMemoryCRCError",
   "ReceiveMemoryFrameHeaderError", "SequencerError", "SendMemoryRDFEDone"}

StatusType == status \in [Channels -> SUBSET StatusBits]

\* The points of the exchange with one board, of the search for boards, and of
\* the read-out of gates.
ExchangePoints == {"clear", "writeMessage", "sendMessage", "waitForMessage", "isAvailable"}
SearchPoints   == {"setup", "setConfig"} \cup ExchangePoints
GatePoints     == {"sequencers", "readBlock", "process"}
ReadoutPoints  == {"waitForGate"} \cup GatePoints

\* The board the search is at, ...
BoardLoop ==
  /\ pc \in ExchangePoints => feb \in 1..nFEBs[chan]
  /\ pc = "setConfig" => feb = nFEBs[chan] + 1 /\ nFEBs[chan] > 0

\* ... the address in the message, ...
Addressed ==
  /\ \A c \in Channels : sending[c] => asked[c] \in Boards
  /\ pc \in {"sendMessage", "waitForMessage"} => asked[chan] = feb

\* ... and the channels that are left, of which the read-out is at one.
KeptChannels ==
  /\ pc \in {"initialize"} \cup ReadoutPoints =>
       kept # {} /\ kept = {c \in Channels : vector[c] # <<>>}
  /\ pc \in {"initialize"} \cup GatePoints => chan \in kept

Counters == BoardLoop /\ Addressed /\ KeptChannels

Sequencers ==
  /\ pc = "disable" => \A c \in Channels : c < chan => ~sequencer[c]
  /\ pc \in SearchPoints \cup {"clearEmpty"} => \A c \in Channels : ~sequencer[c]
  /\ pc \in ExchangePoints \cup {"setConfig"} => ~config
  /\ pc = "initialize" => \A c \in Channels : sequencer[c] <=> c \in kept /\ c < chan
  /\ pc \in ReadoutPoints => \A c \in Channels : sequencer[c] <=> c \in kept

Answered == memory[chan] # <<>> /\ Head(memory[chan]).firmware = chain[chan][feb]

Exchange ==
  /\ pc \in {"writeMessage", "sendMessage"} =>
       memory[chan] = <<>> /\ status[chan] = {} /\ ~sending[chan]
  /\ pc = "waitForMessage" =>
       \/ sending[chan] /\ memory[chan] = <<>> /\ status[chan] = {}
       \/ ~sending[chan] /\ status[chan] \cap FrameErrors # {}
       \/ ~sending[chan] /\ Answered
  /\ pc = "isAvailable" => ~sending[chan] /\ Answered

\* SetupNFrontEndBoards is through with channel c.
SetUp(c) ==
  /\ Len(vector[c]) = nFEBs[c]
  /\ nFEBs[c] > 0 => nfebsField[c] = nFEBs[c] /\ headerFirmware[c] = chain[c][1]

Found ==
  /\ AvailableMeansPresent
  /\ pc \in {"clearStatus", "disable"} => \A c \in Channels : vector[c] = <<>>
  /\ pc \in SearchPoints => \A c \in Channels : /\ c < chan => SetUp(c)
                                                /\ c > chan => vector[c] = <<>>
  /\ pc = "setup" => vector[chan] = <<>>
  /\ pc \in ExchangePoints \cup {"setConfig"} =>
       Len(vector[chan]) = feb - 1 /\ (feb > 1 => febFirmware = chain[chan][1])
  /\ pc \in {"clearEmpty", "initialize"} \cup ReadoutPoints => \A c \in Channels : SetUp(c)

\* The memory of channel c holds this gate's frames of the boards found.
GateInMemory(c) ==
  /\ Len(memory[c]) = Len(vector[c])
  /\ \A k \in DOMAIN memory[c] : memory[c][k].feb = k /\ memory[c][k].gate = gate

\* Until gates are read no block is; a channel that is being read out, or is
\* ready for it, has no message under way; and while a gate is read out it is
\* in the memories.
NoneYet ==
  pc \in {"clearStatus", "disable", "clearEmpty", "initialize"} \cup SearchPoints =>
    readouts = <<>>
Silent ==
  /\ pc = "initialize" => \A c \in kept : c < chan => ~sending[c]
  /\ pc \in ReadoutPoints => \A c \in kept : ~sending[c]
Held == pc \in GatePoints => \A c \in kept : GateInMemory(c)

Blocks == BlocksMatchBoards /\ NoneYet /\ Silent /\ Held

\* No frame is empty.
Solid(fs) == \A k \in DOMAIN fs : fs[k].length > 0

SolidFrames == (\A c \in Channels : Solid(memory[c])) /\ Solid(block.data)

\* The first frames of the block have been split off, as far as index says.
SplitSoFar ==
  pc = "process" /\ Offset(block.data, Len(block.data)) < UShort =>
    /\ block.dataLength = Offset(block.data, Len(block.data))
    /\ \E j \in 0..Len(block.data) :
         frames = SubSeq(block.data, 1, j) /\ index = Offset(block.data, j)

Splitting == SolidFrames /\ SplitSoFar

IInv ==
  /\ TypeOK /\ StatusType /\ Counters /\ Sequencers /\ Exchange /\ Found /\ Blocks
  /\ Splitting

-----------------------------------------------------------------------------
(* Numbers, loops over channels, and lengths of frames.                    *)

\* Every set of numbers has a least one: what the proofs by smallest
\* counterexample below rest on.
LEMMA LeastNumber ==
  ASSUME NEW S \in SUBSET Nat, S # {}
  PROVE  \E x \in S : \A y \in S : x <= y
<1> DEFINE R == OpToRel(<, Nat)
<1>1. R = {q \in Nat \X Nat : q[1] < q[2]}
  BY DEF OpToRel
<1>2. IsWellFoundedOn(R, Nat)
  BY NatLessThanWellFounded
<1> HIDE DEF R
<1>3. PICK x \in S : \A y \in S : ~(<<y, x>> \in R)
  BY <1>2, WFMin
<1>4. ASSUME NEW y \in S PROVE x <= y
  <2>1. x \in Nat /\ y \in Nat
    OBVIOUS
  <2>2. y < x => <<y, x>> \in R
    BY <1>1, <2>1
  <2> QED
    BY <1>3, <2>1, <2>2
<1> QED
  BY <1>4

\* The smallest number of a set, which the loops over channels start with.
LEMMA MinIsLeast ==
  ASSUME NEW S \in SUBSET Nat, S # {}
  PROVE  Min(S) \in S /\ \A y \in S : Min(S) <= y
<1>1. \E x \in S : \A y \in S : x <= y
  BY LeastNumber
<1> QED
  BY <1>1, Zenon DEF Min

\* A loop over all channels: the next channel, or back to the first one.
LEMMA NextOfAll ==
  ASSUME chan \in Channels, NEW next, NextChannel(Channels, next)
  PROVE  \/ chan < NChannels /\ chan' = chan + 1 /\ pc' = pc
         \/ chan = NChannels /\ chan' = 1 /\ pc' = next
<1>1. NChannels \in Nat \ {0}
  BY ChannelAssumption
<1>2. CASE chan < NChannels
  <2> DEFINE S == {d \in Channels : d > chan}
  <2>1. chan + 1 \in S /\ S \subseteq Nat /\ \A d \in S : d >= chan + 1
    BY <1>1, <1>2 DEF Channels
  <2>2. chan' = Min(S) /\ pc' = pc
    BY <2>1, Zenon DEF NextChannel
  <2>3. Min(S) \in S /\ \A y \in S : Min(S) <= y
    BY <2>1, MinIsLeast
  <2>a. chan \in Nat
    BY <1>1 DEF Channels
  <2> HIDE DEF S
  <2>b. Min(S) \in Nat /\ Min(S) <= chan + 1 /\ Min(S) >= chan + 1
    BY <2>1, <2>3
  <2>4. Min(S) = chan + 1
    BY <2>a, <2>b
  <2> QED
    BY <2>2, <2>4, <1>2
<1>3. CASE chan = NChannels
  <2>1. ~ \E d \in Channels : d > chan
    BY <1>1, <1>3 DEF Channels
  <2>2. Channels \cup {NChannels} = Channels /\ 1 \in Channels /\ Channels \subseteq Nat
    BY <1>1 DEF Channels
  <2>3. chan' = Min(Channels) /\ pc' = next
    BY <2>1, <2>2, Zenon DEF NextChannel
  <2>4. Min(Channels) \in Channels /\ \A y \in Channels : Min(Channels) <= y
    BY <2>2, MinIsLeast
  <2>5. Min(Channels) = 1
    BY <2>2, <2>4, <1>1 DEF Channels
  <2> QED
    BY <1>3, <2>3, <2>5
<1> QED
  BY <1>1, <1>2, <1>3 DEF Channels

\* A loop over the channels that are kept: the next of them, with none in
\* between, or back to the first after the last one.
LEMMA NextOfKept ==
  ASSUME chan \in Channels, NEW cs \in SUBSET Channels, cs # {}, NEW next,
         NextChannel(cs, next)
  PROVE  /\ chan' \in cs
         /\ \/ /\ chan' > chan /\ pc' = pc
               /\ \A d \in cs : d < chan' => d <= chan
            \/ pc' = next /\ \A d \in cs : d <= chan
<1>1. NChannels \in Nat \ {0} /\ Channels \subseteq Nat
  BY ChannelAssumption DEF Channels
<1>2. CASE \E d \in cs : d > chan
  <2> DEFINE S == {d \in cs : d > chan}
  <2>1. S # {} /\ S \subseteq Nat
    BY <1>1, <1>2
  <2>2. chan' = Min(S) /\ pc' = pc
    BY <1>2, Zenon DEF NextChannel
  <2>3. Min(S) \in S /\ \A y \in S : Min(S) <= y
    BY <2>1, MinIsLeast
  <2>4. chan' \in cs /\ chan' > chan /\ \A d \in cs : d > chan => chan' <= d
    BY <2>2, <2>3
  <2>5. \A d \in cs : d < chan' => d <= chan
    BY <2>4, <1>1
  <2> QED
    BY <2>2, <2>4, <2>5
<1>3. CASE ~ \E d \in cs : d > chan
  <2> DEFINE S == cs \cup {NChannels}
  <2>1. chan' = Min(S) /\ pc' = next
    BY <1>3, Zenon DEF NextChannel
  <2>2. S # {} /\ S \subseteq Nat
    BY <1>1
  <2>3. Min(S) \in S /\ \A y \in S : Min(S) <= y
    BY <2>2, MinIsLeast
  <2>4. PICK d \in cs : TRUE
    OBVIOUS
  <2>a. d \in Nat /\ d <= NChannels
    BY <1>1 DEF Channels
  <2>b. d \in S
    OBVIOUS
  <2> HIDE DEF S
  <2>5. d \in Nat /\ d <= NChannels /\ Min(S) <= d
    BY <2>3, <2>a, <2>b
  <2>6. Min(S) \in cs
    BY <2>3, <2>5, <1>1 DEF S
  <2>7. \A e \in cs : e <= chan
    BY <1>3, <1>1
  <2> QED
    BY <2>1, <2>6, <2>7
<1> QED
  BY <1>2, <1>3

\* g holds the bytes before each of the first m frames of fs.
Bytes(fs, m, g) == g = [n \in 0..m |-> IF n = 0 THEN 0 ELSE g[n - 1] + fs[n].length]

\* There is such a g, so Offset is what its recursive definition says.
LEMMA BytesExist ==
  ASSUME NEW fs, NEW m \in Nat
  PROVE  \E g : Bytes(fs, m, g)
<1> DEFINE Missing == {k \in Nat : ~ \E g : Bytes(fs, k, g)}
<1>1. ASSUME Missing # {} PROVE FALSE
  <2>1. PICK k \in Missing : \A i \in Missing : k <= i
    BY <1>1, LeastNumber
  <2>2. CASE k = 0
    <3>1. Bytes(fs, 0, [n \in 0..0 |-> 0])
      BY DEF Bytes
    <3> QED
      BY <2>2, <3>1, <2>1
  <2>3. CASE k # 0
    <3>1. k \in Nat /\ k - 1 \in Nat /\ ~(k <= k - 1)
      BY <2>3
    <3>2. k - 1 \notin Missing
      BY <3>1, <2>1
    <3>3. PICK g : Bytes(fs, k - 1, g)
      BY <3>1, <3>2
    <3> DEFINE h == [n \in 0..k |-> IF n = k THEN g[k - 1] + fs[k].length ELSE g[n]]
    <3>4. ASSUME NEW n \in 0..k
          PROVE  h[n] = IF n = 0 THEN 0 ELSE h[n - 1] + fs[n].length
      <4>1. CASE n = k
        BY <4>1, <3>1
      <4>2. CASE n # k
        <5>1. n \in 0..(k - 1) /\ h[n] = g[n] /\ (n # 0 => h[n - 1] = g[n - 1])
          BY <4>2, <3>1
        <5>2. g[n] = IF n = 0 THEN 0 ELSE g[n - 1] + fs[n].length
          BY <3>3, <5>1 DEF Bytes
        <5> QED
          BY <5>1, <5>2
      <4> QED
        BY <4>1, <4>2
    <3>5. Bytes(fs, k, h)
      BY <3>4 DEF Bytes
    <3> QED
      BY <3>5, <2>1
  <2> QED
    BY <2>2, <2>3
<1> QED
  BY <1>1

\* The frames of a sequence of frames, and their fields.
LEMMA FrameOf ==
  ASSUME NEW fs \in Seq(Frame)
  PROVE  /\ Len(fs) \in Nat /\ DOMAIN fs = 1..Len(fs)
         /\ \A n \in 1..Len(fs) :
              /\ fs[n] \in Frame
              /\ fs[n].feb \in Nat /\ fs[n].firmware \in Nat /\ fs[n].length \in Nat
<1>1. Len(fs) \in Nat /\ DOMAIN fs = 1..Len(fs) /\ \A n \in 1..Len(fs) : fs[n] \in Frame
  OBVIOUS
<1>2. ASSUME NEW f \in Frame
      PROVE  f.feb \in Nat /\ f.firmware \in Nat /\ f.length \in Nat
  BY DEF Frame
<1> QED
  BY <1>1, <1>2

\* The bytes before a frame: none before the first, and each frame adds its
\* length.
LEMMA OffsetDef ==
  ASSUME NEW fs \in Seq(Frame)
  PROVE  /\ Offset(fs, 0) = 0
         /\ \A n \in 1..Len(fs) : Offset(fs, n) = Offset(fs, n - 1) + fs[n].length
         /\ \A n \in 0..Len(fs) : Offset(fs, n) \in Nat
<1> DEFINE b == CHOOSE g : Bytes(fs, Len(fs), g)
<1>1. Len(fs) \in Nat /\ \A n \in 1..Len(fs) : fs[n].length \in Nat
  BY FrameOf
<1>2. Bytes(fs, Len(fs), b)
  BY <1>1, BytesExist
<1>3. \A k : Offset(fs, k) = b[k]
  BY DEF Offset, Bytes
<1> HIDE DEF b
<1>4. b[0] = 0 /\ \A n \in 1..Len(fs) : b[n] = b[n - 1] + fs[n].length
  BY <1>1, <1>2 DEF Bytes
<1> DEFINE Bad == {n \in 0..Len(fs) : b[n] \notin Nat}
<1>5. ASSUME Bad # {} PROVE FALSE
  <2>a. Bad \in SUBSET Nat
    BY <1>1
  <2>1. PICK k \in Bad : \A i \in Bad : k <= i
    BY <2>a, <1>5, LeastNumber, Zenon
  <2>2. k \in 1..Len(fs)
    BY <2>1, <1>4, <1>1
  <2>3. k - 1 \notin Bad /\ k - 1 \in 0..Len(fs)
    BY <2>1, <2>2, <1>1
  <2>4. b[k - 1] \in Nat
    BY <2>3
  <2>5. b[k] \in Nat
    BY <2>2, <2>4, <1>4, <1>1, SMTT(30)
  <2> QED
    BY <2>5, <2>1
<1>6. \A n \in 0..Len(fs) : b[n] \in Nat
  BY <1>5
<1>7. Offset(fs, 0) = 0
  BY <1>3, <1>4
<1>8. \A n \in 1..Len(fs) : Offset(fs, n) = Offset(fs, n - 1) + fs[n].length
  BY <1>3, <1>4
<1>9. \A n \in 0..Len(fs) : Offset(fs, n) \in Nat
  BY <1>3, <1>6
<1> QED
  BY <1>7, <1>8, <1>9

\* Where no frame is empty, no two frames start at the same byte.
LEMMA OffsetIncreases ==
  ASSUME NEW fs \in Seq(Frame), Solid(fs), NEW i \in 0..Len(fs), NEW k \in 0..Len(fs), i < k
  PROVE  Offset(fs, i) < Offset(fs, k)
<1>1. Len(fs) \in Nat /\ \A n \in 1..Len(fs) : fs[n].length \in Nat /\ fs[n].length > 0
  BY FrameOf DEF Solid
<1>2. /\ \A n \in 1..Len(fs) : Offset(fs, n) = Offset(fs, n - 1) + fs[n].length
      /\ \A n \in 0..Len(fs) : Offset(fs, n) \in Nat
  BY OffsetDef
<1> DEFINE Bad == {n \in 0..Len(fs) : i < n /\ ~(Offset(fs, i) < Offset(fs, n))}
<1>3. ASSUME Bad # {} PROVE FALSE
  <2>a. Bad \in SUBSET Nat
    BY <1>1
  <2>1. PICK n \in Bad : \A m \in Bad : n <= m
    BY <2>a, <1>3, LeastNumber, Zenon
  <2>2. n \in 1..Len(fs) /\ n - 1 \in 0..Len(fs) /\ i <= n - 1
    BY <2>1, <1>1
  <2>3. n - 1 \notin Bad
    BY <2>1, <2>2, <1>1
  <2>4. i = n - 1 \/ Offset(fs, i) < Offset(fs, n - 1)
    BY <2>2, <2>3
  <2>6. Offset(fs, i) \in Nat /\ Offset(fs, n - 1) \in Nat /\ Offset(fs, n) \in Nat
    BY <1>2, <2>2
  <2>b. /\ Offset(fs, n) = Offset(fs, n - 1) + fs[n].length
        /\ fs[n].length \in Nat /\ fs[n].length > 0
    BY <1>1, <1>2, <2>2
  <2>5. Offset(fs, n - 1) < Offset(fs, n)
    BY <2>6, <2>b
  <2>7. Offset(fs, i) < Offset(fs, n)
    BY <2>4, <2>5, <2>6
  <2> QED
    BY <2>7, <2>1
<1> QED
  BY <1>3

\* Offsets are numbers.
LEMMA OffsetsAreNumbers ==
  ASSUME NEW fs \in Seq(Frame), NEW n \in 0..Len(fs)
  PROVE  Offset(fs, n) \in Nat
  BY OffsetDef

\* A number that fits is not cut.
LEMMA Remainder ==
  ASSUME NEW n \in Nat, NEW m \in Nat \ {0}, n < m
  PROVE  n % m = n
  BY SMT

-----------------------------------------------------------------------------
(* Types.                                                                  *)

\* Channels are numbers, from 1.
LEMMA ChannelNumbers ==
  NChannels \in Nat \ {0} /\ Channels \subseteq Nat /\ 1 \in Channels
  BY ChannelAssumption DEF Channels

\* The loops over the channels that are kept, as the process makes them.
LEMMA KeptLoop ==
  ASSUME TypeOK, Counters, pc \in {"initialize"} \cup ReadoutPoints, NEW next,
         NextChannel(kept, next)
  PROVE  /\ chan' \in kept
         /\ \/ /\ chan' > chan /\ pc' = pc
               /\ \A d \in kept : d < chan' => d <= chan
            \/ pc' = next /\ \A d \in kept : d <= chan
<1>1. chan \in Channels /\ kept \in SUBSET Channels /\ kept # {}
  BY Zenon DEF TypeOK, SetupTypes, Counters, KeptChannels
<1> QED
  BY <1>1, NextOfKept

\* The first of the channels that are kept.
LEMMA FirstKept ==
  ASSUME TypeOK, Counters, pc \in {"initialize"} \cup ReadoutPoints
  PROVE  Min(kept) \in kept
<1>1. kept \in SUBSET Channels /\ kept # {} /\ Channels \subseteq Nat
  BY ChannelNumbers, Zenon DEF TypeOK, SetupTypes, Counters, KeptChannels
<1>2. kept \in SUBSET Nat
  BY <1>1
<1> QED
  BY <1>1, <1>2, MinIsLeast

\* The rest of DissolveDataBlock goes on with a channel that is kept.
LEMMA DissolveMoves ==
  ASSUME TypeOK, Counters, ProcessDataIntoFrames
  PROVE  \/ /\ pc' = pc /\ chan' = chan
            /\ index < block.dataLength
            /\ \E k \in DOMAIN block.data :
                 /\ Offset(block.data, k - 1) = index
                 /\ frames' = Append(frames, block.data[k])
                 /\ index' = (index + block.data[k].length) % UShort
         \/ /\ pc' \in {"readBlock", "waitForGate"} /\ chan' \in kept
            /\ index' = index /\ frames' = frames
<1>a. kept \in SUBSET Channels /\ Channels \subseteq Nat
  BY ChannelNumbers, Zenon DEF TypeOK, SetupTypes
<1> DEFINE S == {d \in kept : d > chan}
<1>1. CASE /\ chan' = Min(S) /\ pc' = "readBlock"
           /\ \E d \in kept : d > chan
           /\ index' = index /\ frames' = frames
  <2>1. S \in SUBSET Nat
    BY <1>a, Zenon
  <2>2. S # {}
    BY <1>1, Zenon
  <2>3. Min(S) \in S
    BY <2>1, <2>2, MinIsLeast
  <2> QED
    BY <1>1, <2>3, Zenon
<1>2. CASE chan' = Min(kept) /\ pc' = "waitForGate" /\ index' = index /\ frames' = frames
  <2>1. Min(kept) \in kept
    BY FirstKept, Zenon DEF ProcessDataIntoFrames, ReadoutPoints, GatePoints
  <2> QED
    BY <1>2, <2>1, Zenon
<1> QED
  BY <1>1, <1>2, Zenon DEF ProcessDataIntoFrames

\* The loops over the channels stay within them, and end at a known point.
LEMMA ControlTypes ==
  ASSUME TypeOK, Counters, [Next]_vars
  PROVE  pc' \in Points /\ chan' \in Channels
<1>0. /\ pc \in Points /\ chan \in Channels /\ kept \in SUBSET Channels
      /\ NChannels \in Nat \ {0} /\ Channels = 1..NChannels /\ 1 \in Channels
  BY ChannelAssumption, SMT DEF TypeOK, SetupTypes, Channels
<1>a. \A c \in kept : c \in Channels
  BY <1>0, Zenon
<1> USE <1>0, <1>a DEF Points
<1>1. CASE AddECROC
  BY <1>1, SMT DEF AddECROC
<1>2. CASE ClearAndResetStatusRegisters
  BY <1>2, NextOfAll, SMT DEF ClearAndResetStatusRegisters, ClearAndReset
<1>3. CASE DisableSequencerReadout
  BY <1>3, NextOfAll, SMT DEF DisableSequencerReadout
<1>4. CASE SetupNFrontEndBoards
  BY <1>4, NextOfAll, SMT DEF SetupNFrontEndBoards
<1>5. CASE ClearAndResetStatusRegister
  BY <1>5, SMT DEF ClearAndResetStatusRegister, ClearAndReset
<1>6. CASE WriteMessageToMemory
  BY <1>6, SMT DEF WriteMessageToMemory
<1>7. CASE SendMessage
  BY <1>7, SMT DEF SendMessage
<1>8. CASE WaitForMessageReceived
  BY <1>8, SMT DEF WaitForMessageReceived, Throw
<1>9. CASE IsAvailable
  BY <1>9, SMT DEF IsAvailable, Throw
<1>10. CASE SetChannelConfiguration
  BY <1>10, SMT DEF SetChannelConfiguration
<1>11. CASE ClearEmptyChannels
  <2>1. kept' \subseteq Nat /\ kept' \subseteq Channels
    BY <1>11, SMT DEF ClearEmptyChannels
  <2>2. kept' # {} => Min(kept') \in kept'
    BY <2>1, MinIsLeast
  <2> QED
    BY <1>11, <2>1, <2>2, Zenon DEF ClearEmptyChannels, Throw
<1>12. CASE Initialize
  <2>1. pc \in {"initialize"} \cup ReadoutPoints
    BY <1>12, SMT DEF Initialize, ReadoutPoints, GatePoints
  <2>2. NextChannel(kept, "waitForGate") => chan' \in kept /\ pc' \in {pc, "waitForGate"}
    BY <2>1, KeptLoop, Zenon
  <2> QED
    BY <1>12, <2>2, Zenon DEF Initialize, ClearAndReset
<1>13. CASE WaitForGate
  <2>1. Min(kept) \in kept
    BY <1>13, FirstKept, Zenon DEF WaitForGate, ReadoutPoints
  <2> QED
    BY <1>13, <2>1, Zenon DEF WaitForGate
<1>14. CASE WaitForSequencerReadoutCompletion
  <2>1. pc \in {"initialize"} \cup ReadoutPoints
    BY <1>14, SMT DEF WaitForSequencerReadoutCompletion, ReadoutPoints, GatePoints
  <2>2. NextChannel(kept, "readBlock") => chan' \in kept /\ pc' \in {pc, "readBlock"}
    BY <2>1, KeptLoop, Zenon
  <2> QED
    BY <1>14, <2>2, Zenon DEF WaitForSequencerReadoutCompletion, Throw
<1>15. CASE ReadBlock
  <2>1. pc \in {"initialize"} \cup ReadoutPoints
    BY <1>15, SMT DEF ReadBlock, ReadoutPoints, GatePoints
  <2>2. NextChannel(kept, "waitForGate") => chan' \in kept /\ pc' \in {pc, "waitForGate"}
    BY <2>1, KeptLoop, Zenon
  <2> QED
    BY <1>15, <2>2, Zenon DEF ReadBlock
<1>16. CASE ProcessDataIntoFrames
  BY <1>16, DissolveMoves, Zenon
<1>17. CASE CleanupHardware
  BY <1>17, SMT DEF CleanupHardware, Throw
<1>18. CASE Dies
  BY <1>18, SMT DEF Dies, Throw
<1>19. CASE Spill
  BY <1>19, SMT DEF Spill, daqVars
<1>20. CASE \E c \in Channels : Reply(c)
  BY <1>20, SMT DEF Reply, daqVars
<1>21. CASE UNCHANGED vars
  BY <1>21, SMT DEF vars, daqVars
<1> QED
  BY <1>1, <1>2, <1>3, <1>4, <1>5, <1>6, <1>7, <1>8, <1>9, <1>10, <1>11, <1>12, <1>13,
     <1>14, <1>15, <1>16, <1>17, <1>18, <1>19, <1>20, <1>21 DEF Next, SetupStep,
     ReadoutStep, AllRunsOver

\* Boards are numbers, and so is the firmware of each.
LEMMA BoardNumbers ==
  ASSUME CrocTypes, NEW c \in Channels, NEW a \in Boards
  PROVE  a \in Nat /\ chain[c][a] \in Nat
<1>1. chain[c] \in Chains /\ Chains \subseteq [Boards -> Nat]
  BY ChannelAssumption, Zenon DEF CrocTypes
<1>2. chain[c] \in [Boards -> Nat]
  BY <1>1, Zenon
<1> QED
  BY <1>2, ChannelAssumption, SMT DEF Boards

\* The answer to a message is a frame, with the firmware of the board asked.
LEMMA AnswerFrame ==
  ASSUME NEW a \in Nat, NEW fw \in Nat, NEW length \in Nat, NEW bytes \in StatusBytes
  PROVE  /\ Answer(a, fw, length, bytes) \in Frame
         /\ Answer(a, fw, length, bytes).firmware = fw
         /\ Answer(a, fw, length, bytes).length = length
<1>1. bytes.DeviceStatus \subseteq 0..7 /\ bytes.FrameStatus \subseteq 0..7
  BY SMT DEF StatusBytes, OKBits
<1>2. FPGA \cup bytes.DeviceStatus \in SUBSET (0..7) /\ bytes.FrameStatus \in SUBSET (0..7)
  BY <1>1, SMT DEF FPGA
<1> QED
  BY <1>2, SMT DEF Answer, Frame

\* A frame of a gate has the address of its board and the number of the gate.
LEMMA DataFrameOf ==
  ASSUME NEW a \in Nat, NEW fw \in Nat, NEW length \in Nat, gate \in Nat
  PROVE  /\ DataFrame(a, fw, length) \in Frame
         /\ DataFrame(a, fw, length).feb = a
         /\ DataFrame(a, fw, length).gate = gate + 1
         /\ DataFrame(a, fw, length).length = length
<1>1. FPGA \cup OKBits.DeviceStatus \in SUBSET (0..7) /\ OKBits.FrameStatus \in SUBSET (0..7)
  BY SMT DEF FPGA, OKBits
<1> QED
  BY <1>1, SMT DEF DataFrame, Answer, Frame

\* What the sequencer of a channel puts into its memory at a gate: one frame of
\* each board it is set for, in the order of the addresses.
LEMMA SequencerData ==
  ASSUME TypeOK, NEW c \in Channels, NEW lengths \in [Boards -> FrameLengths]
  PROVE  /\ SequencerReads(c, lengths) \in Seq(Frame)
         /\ Len(SequencerReads(c, lengths)) = nfebsField[c]
         /\ \A k \in 1..nfebsField[c] :
              /\ SequencerReads(c, lengths)[k].feb = k
              /\ SequencerReads(c, lengths)[k].gate = gate + 1
              /\ SequencerReads(c, lengths)[k].length > 0
<1>1. nfebsField[c] \in 0..MaxFEBs /\ MaxFEBs \in Nat /\ gate \in Nat
  BY ChannelAssumption, SMT DEF TypeOK, CrocTypes
<1>b. chain[c] \in Chains /\ Chains \subseteq [Boards -> Nat]
  BY ChannelAssumption, Zenon DEF TypeOK, CrocTypes
<1>c. FrameLengths \subseteq Nat \ {0} /\ \A i \in Boards : lengths[i] \in FrameLengths
  BY ChannelAssumption, Zenon
<1>2. chain[c] \in [Boards -> Nat] /\ \A i \in Boards : lengths[i] \in Nat /\ lengths[i] > 0
  <2>1. chain[c] \in [Boards -> Nat]
    BY <1>b, Zenon
  <2>2. \A l \in FrameLengths : l \in Nat /\ l > 0
    BY <1>c, SMT
  <2> QED
    BY <1>c, <2>1, <2>2, Zenon
<1>3. ASSUME NEW k \in 1..nfebsField[c]
      PROVE  /\ SequencerReads(c, lengths)[k] \in Frame
             /\ SequencerReads(c, lengths)[k].feb = k
             /\ SequencerReads(c, lengths)[k].gate = gate + 1
             /\ SequencerReads(c, lengths)[k].length > 0
  <2> DEFINE fw == IF k \in Boards THEN chain[c][k] ELSE 0
             length == IF k = 1 THEN FPGAFrameMaxSize ELSE lengths[k]
  <2>1. k \in Nat /\ k \in Boards
    BY <1>1, SMT DEF Boards
  <2>2. fw \in Nat /\ length \in Nat /\ length > 0
    BY <1>2, <2>1, SMT DEF FPGAFrameMaxSize
  <2>3. SequencerReads(c, lengths)[k] = DataFrame(k, fw, length)
    BY Zenon DEF SequencerReads
  <2> HIDE DEF fw, length
  <2>4. /\ DataFrame(k, fw, length) \in Frame
        /\ DataFrame(k, fw, length).feb = k
        /\ DataFrame(k, fw, length).gate = gate + 1
        /\ DataFrame(k, fw, length).length = length
    BY <1>1, <2>1, <2>2, DataFrameOf
  <2> QED
    BY <2>2, <2>3, <2>4
<1>4. \E n \in Nat : DOMAIN SequencerReads(c, lengths) = 1..n
  BY <1>1, SMT DEF SequencerReads
<1>a. SequencerReads(c, lengths) = [i \in 1..nfebsField[c] |-> SequencerReads(c, lengths)[i]]
  BY Zenon DEF SequencerReads
<1>5. /\ SequencerReads(c, lengths) \in Seq(Frame)
      /\ Len(SequencerReads(c, lengths)) = nfebsField[c]
  <2> DEFINE f == SequencerReads(c, lengths)
             n == nfebsField[c]
  <2> HIDE DEF f, n
  <2>1. n \in Nat /\ f = [i \in 1..n |-> f[i]] /\ \A i \in 1..n : f[i] \in Frame
    <3>1. n \in Nat
      BY <1>1, SMT DEF n
    <3>2. f = [i \in 1..n |-> f[i]]
      BY <1>a, Zenon DEF f, n
    <3>3. \A i \in 1..n : f[i] \in Frame
      BY <1>3, Zenon DEF f, n
    <3> QED
      BY <3>1, <3>2, <3>3
  <2>2. f \in [1..n -> Frame]
    BY <2>1, Zenon
  <2>3. f \in Seq(Frame) /\ Len(f) = n
    BY <2>1, <2>2, SMT
  <2> QED
    BY <2>3 DEF f, n
<1> QED
  BY <1>3, <1>5

\* The process that looks for boards keeps its variables within their types.
\* An answer it accepts is a frame, because the memory is not empty then.
LEMMA SetupTypesStep ==
  ASSUME IInv, [Next]_vars
  PROVE  SetupTypes'
<1>0. SetupTypes /\ CrocTypes /\ pc' \in Points /\ chan' \in Channels
  BY ControlTypes, Zenon DEF IInv, TypeOK
<1>a. /\ MaxFEBs \in Nat \ {0} /\ MaxRuns \in Nat /\ Boards = 1..MaxFEBs
      /\ Requests \subseteq [Channels -> Int]
  BY ChannelAssumption DEF Boards
<1> USE <1>0 DEF SetupTypes
<1>1. CASE AddECROC
  BY <1>1, <1>a, SMT DEF AddECROC
<1>2. CASE ClearAndResetStatusRegisters
  BY <1>2, SMT DEF ClearAndResetStatusRegisters, ClearAndReset
<1>3. CASE DisableSequencerReadout
  BY <1>3, SMT DEF DisableSequencerReadout
<1>4. CASE SetupNFrontEndBoards
  <2>1. config' \in BOOLEAN
    BY <1>4, Zenon DEF SetupNFrontEndBoards, CrocTypes
  <2> QED
    BY <1>4, <2>1, <1>a, SMT DEF SetupNFrontEndBoards
<1>5. CASE ClearAndResetStatusRegister
  BY <1>5, SMT DEF ClearAndResetStatusRegister, ClearAndReset
<1>6. CASE WriteMessageToMemory
  BY <1>6, SMT DEF WriteMessageToMemory
<1>7. CASE SendMessage
  BY <1>7, SMT DEF SendMessage
<1>8. CASE WaitForMessageReceived
  BY <1>8, SMT DEF WaitForMessageReceived, Throw
<1>9. CASE IsAvailable
  <2>1. feb \in 1..nFEBs[chan] /\ nFEBs[chan] \in 0..MaxFEBs /\ Answered
    BY <1>9, Zenon DEF IsAvailable, IInv, Counters, BoardLoop, Exchange, ExchangePoints
  <2>2. memory[chan] \in Seq(Frame) /\ memory[chan] # <<>>
    BY <2>1, Zenon DEF Answered, CrocTypes
  <2>3. Head(memory[chan]) \in Frame
    BY <2>2
  <2>4. Head(memory[chan]).firmware \in Nat
    BY <2>3 DEF Frame
  <2>5. feb \in Boards /\ feb + 1 \in 0..(MaxFEBs + 1)
    BY <2>1, <1>a, SMT
  <2>6. feb' \in 0..(MaxFEBs + 1) /\ febFirmware' \in Nat
    BY <1>9, <2>4, <2>5, Zenon DEF IsAvailable
  <2>a. Append(vector[chan], feb) \in Seq(Boards)
    BY <2>5, SMT
  <2>b. Append(answers[chan], Head(memory[chan])) \in Seq(Frame)
    BY <2>3, SMT
  <2>7. vector' \in [Channels -> Seq(Boards)]
    BY <1>9, <2>a, Zenon DEF IsAvailable
  <2>8. answers' \in [Channels -> Seq(Frame)]
    BY <1>9, <2>b, Zenon DEF IsAvailable
  <2> QED
    BY <1>9, <2>6, <2>7, <2>8, Zenon DEF IsAvailable
<1>10. CASE SetChannelConfiguration
  BY <1>10, SMT DEF SetChannelConfiguration
<1>11. CASE ClearEmptyChannels
  BY <1>11, SMT DEF ClearEmptyChannels
<1>12. CASE Initialize
  BY <1>12, SMT DEF Initialize, ClearAndReset
<1>13. CASE WaitForGate
  BY <1>13, SMT DEF WaitForGate, OpenGate
<1>14. CASE WaitForSequencerReadoutCompletion
  BY <1>14, SMT DEF WaitForSequencerReadoutCompletion, Throw
<1>15. CASE ReadBlock
  BY <1>15, SMT DEF ReadBlock
<1>16. CASE ProcessDataIntoFrames
  BY <1>16, SMT DEF ProcessDataIntoFrames
<1>17. CASE CleanupHardware
  BY <1>17, SMT DEF CleanupHardware, Throw
<1>18. CASE Dies
  BY <1>18, SMT DEF Dies, Throw
<1>19. CASE Spill
  BY <1>19, SMT DEF Spill, daqVars
<1>20. CASE \E c \in Channels : Reply(c)
  BY <1>20, SMT DEF Reply, daqVars
<1>21. CASE UNCHANGED vars
  BY <1>21, SMT DEF vars, daqVars
<1> QED
  BY <1>1, <1>2, <1>3, <1>4, <1>5, <1>6, <1>7, <1>8, <1>9, <1>10, <1>11, <1>12, <1>13,
     <1>14, <1>15, <1>16, <1>17, <1>18, <1>19, <1>20, <1>21 DEF Next, SetupStep,
     ReadoutStep, AllRunsOver

\* Blocks and the frames they are split into keep their types: the length of a
\* block and the index into it are cut to 16 bits.
LEMMA ReadoutTypesStep ==
  ASSUME IInv, [Next]_vars
  PROVE  ReadoutTypes'
<1>0. ReadoutTypes /\ SetupTypes /\ CrocTypes
  BY DEF IInv, TypeOK
<1>a. UShort \in Nat \ {0} /\ \A n \in Nat : n % UShort \in 0..(UShort - 1)
  BY ChannelAssumption, SMT
<1> DEFINE Row == [chan : Channels, gate : Nat, data : Seq(Frame)]
<1> USE <1>0 DEF ReadoutTypes
<1>1. CASE AddECROC
  BY <1>1, SMT DEF AddECROC
<1>2. CASE ClearAndResetStatusRegisters
  BY <1>2, SMT DEF ClearAndResetStatusRegisters, ClearAndReset
<1>3. CASE DisableSequencerReadout
  BY <1>3, SMT DEF DisableSequencerReadout
<1>4. CASE SetupNFrontEndBoards
  BY <1>4, SMT DEF SetupNFrontEndBoards
<1>5. CASE ClearAndResetStatusRegister
  BY <1>5, SMT DEF ClearAndResetStatusRegister, ClearAndReset
<1>6. CASE WriteMessageToMemory
  BY <1>6, SMT DEF WriteMessageToMemory
<1>7. CASE SendMessage
  BY <1>7, SMT DEF SendMessage
<1>8. CASE WaitForMessageReceived
  BY <1>8, SMT DEF WaitForMessageReceived, Throw
<1>9. CASE IsAvailable
  BY <1>9, SMT DEF IsAvailable, Throw
<1>10. CASE SetChannelConfiguration
  BY <1>10, SMT DEF SetChannelConfiguration
<1>11. CASE ClearEmptyChannels
  BY <1>11, SMT DEF ClearEmptyChannels, Throw
<1>12. CASE Initialize
  BY <1>12, SMT DEF Initialize, ClearAndReset
<1>13. CASE WaitForGate
  BY <1>13, SMT DEF WaitForGate, OpenGate
<1>14. CASE WaitForSequencerReadoutCompletion
  BY <1>14, SMT DEF WaitForSequencerReadoutCompletion, Throw
<1>15. CASE ReadBlock
  <2>1. memory[chan] \in Seq(Frame) /\ chan \in Channels /\ gate \in Nat
    BY ChannelAssumption, SMT DEF CrocTypes, SetupTypes
  <2>2. Offset(memory[chan], Len(memory[chan])) \in Nat
    BY <2>1, OffsetDef, FrameOf, SMT
  <2>3. block' \in [data : Seq(Frame), dataLength : 0..(UShort - 1)]
    <3>1. Offset(memory[chan], Len(memory[chan])) % UShort \in 0..(UShort - 1)
      BY <2>2, <1>a, Zenon
    <3> QED
      BY <1>15, <2>1, <3>1, Zenon DEF ReadBlock
  <2>4. [chan |-> chan, gate |-> gate, data |-> memory[chan]] \in Row
    BY <2>1
  <2>5. readouts \in Seq(Row)
    OBVIOUS
  <2> HIDE DEF Row
  <2>6. readouts' \in Seq(Row)
    BY <1>15, <2>4, <2>5, SMT DEF ReadBlock
  <2>7. index' \in 0..(UShort - 1) /\ frames' \in Seq(Frame)
    BY <1>15, <1>a, SMT DEF ReadBlock
  <2> QED
    BY <2>3, <2>6, <2>7, Zenon DEF Row
<1>16. CASE ProcessDataIntoFrames
  <2>1. block' = block /\ readouts' = readouts
    BY <1>16, Zenon DEF ProcessDataIntoFrames
  <2>2. block.data \in Seq(Frame)
    OBVIOUS
  <2>3. CASE index' = index /\ frames' = frames
    BY <2>1, <2>3, Zenon
  <2>4. CASE \E k \in DOMAIN block.data :
               /\ frames' = Append(frames, block.data[k])
               /\ index' = (index + block.data[k].length) % UShort
    <3>1. PICK k \in DOMAIN block.data :
               /\ frames' = Append(frames, block.data[k])
               /\ index' = (index + block.data[k].length) % UShort
      BY <2>4, Zenon
    <3>2. block.data[k] \in Frame /\ block.data[k].length \in Nat
      BY <2>2, FrameOf, Zenon
    <3>3. frames' \in Seq(Frame)
      BY <3>1, <3>2, SMT
    <3>a. index \in Nat
      BY <1>a, SMT
    <3>4. index + block.data[k].length \in Nat
      <4> DEFINE l == block.data[k].length
      <4>1. l \in Nat
        BY <3>2
      <4> HIDE DEF l
      <4>2. index + l \in Nat
        BY <3>a, <4>1, SMT
      <4> QED
        BY <4>2 DEF l
    <3>5. index' \in 0..(UShort - 1)
      BY <3>1, <3>4, <1>a, Zenon
    <3> QED
      BY <2>1, <3>3, <3>5, Zenon
  <2> QED
    BY <1>16, <2>3, <2>4, Zenon DEF ProcessDataIntoFrames
<1>17. CASE CleanupHardware
  BY <1>17, SMT DEF CleanupHardware, Throw
<1>18. CASE Dies
  BY <1>18, SMT DEF Dies, Throw
<1>19. CASE Spill
  BY <1>19, SMT DEF Spill, daqVars
<1>20. CASE \E c \in Channels : Reply(c)
  BY <1>20, SMT DEF Reply, daqVars
<1>21. CASE UNCHANGED vars
  BY <1>21, SMT DEF vars, daqVars
<1> QED
  BY <1>1, <1>2, <1>3, <1>4, <1>5, <1>6, <1>7, <1>8, <1>9, <1>10, <1>11, <1>12, <1>13,
     <1>14, <1>15, <1>16, <1>17, <1>18, <1>19, <1>20, <1>21 DEF Next, SetupStep,
     ReadoutStep, AllRunsOver

\* A gate leaves every register but the memory, the status and its own number
\* alone; what it puts into a memory are frames that are not empty.
LEMMA GateEffect ==
  ASSUME IInv, OpenGate
  PROVE  /\ gate' = gate + 1 /\ gate' \in 0..MaxGates
         /\ memory' \in [Channels -> Seq(Frame)]
         /\ \A c \in Channels : ~sequencer[c] => memory'[c] = memory[c] /\ status'[c] = status[c]
         /\ \A c \in Channels :
              sequencer[c] /\ nfebsField[c] > 0 =>
                /\ Len(memory'[c]) = nfebsField[c]
                /\ \A k \in 1..nfebsField[c] :
                     memory'[c][k].feb = k /\ memory'[c][k].gate = gate'
         /\ \A c \in Channels : Solid(memory'[c])
         /\ status' \in [Channels -> SUBSET StatusBits]
         /\ \A c \in Channels : status[c] \subseteq status'[c]
<1>0. TypeOK /\ CrocTypes /\ StatusType /\ \A c \in Channels : Solid(memory[c])
  BY DEF IInv, TypeOK, Splitting, SolidFrames
<1>1. gate' = gate + 1 /\ gate' \in 0..MaxGates
  BY <1>0, ChannelAssumption, SMT DEF OpenGate, CrocTypes
<1>2. PICK lengths \in [Boards -> FrameLengths] :
        memory' = [c \in Channels |->
          IF sequencer[c] /\ nfebsField[c] > 0 THEN SequencerReads(c, lengths)
                                               ELSE memory[c]]
  BY Zenon DEF OpenGate
<1>3. ASSUME NEW c \in Channels
      PROVE  /\ memory'[c] \in Seq(Frame) /\ Solid(memory'[c])
             /\ ~sequencer[c] => memory'[c] = memory[c]
             /\ sequencer[c] /\ nfebsField[c] > 0 =>
                  /\ Len(memory'[c]) = nfebsField[c]
                  /\ \A k \in 1..nfebsField[c] :
                       memory'[c][k].feb = k /\ memory'[c][k].gate = gate'
  <2>1. CASE sequencer[c] /\ nfebsField[c] > 0
    <3>1. memory'[c] = SequencerReads(c, lengths)
      BY <1>2, <2>1, Zenon
    <3>2. /\ SequencerReads(c, lengths) \in Seq(Frame)
          /\ Len(SequencerReads(c, lengths)) = nfebsField[c]
          /\ \A k \in 1..nfebsField[c] :
               /\ SequencerReads(c, lengths)[k].feb = k
               /\ SequencerReads(c, lengths)[k].gate = gate + 1
               /\ SequencerReads(c, lengths)[k].length > 0
      BY <1>0, SequencerData
    <3>3. DOMAIN memory'[c] = 1..nfebsField[c]
      BY <3>1, <3>2, FrameOf
    <3>4. Solid(memory'[c])
      BY <3>1, <3>2, <3>3, Zenon DEF Solid
    <3> QED
      BY <1>1, <2>1, <3>1, <3>2, <3>4, Zenon
  <2>2. CASE ~(sequencer[c] /\ nfebsField[c] > 0)
    <3>1. memory'[c] = memory[c] /\ memory[c] \in Seq(Frame)
      BY <1>0, <1>2, <2>2, Zenon DEF CrocTypes
    <3> QED
      BY <1>0, <2>2, <3>1, Zenon
  <2> QED
    BY <2>1, <2>2
<1>4. memory' \in [Channels -> Seq(Frame)]
  <2>1. DOMAIN memory' = Channels /\ memory' = [c \in Channels |-> memory'[c]]
    BY <1>2, Zenon
  <2> QED
    BY <1>3, <2>1, Zenon
<1>5. /\ status' \in [Channels -> SUBSET StatusBits]
      /\ \A c \in Channels : status[c] \subseteq status'[c]
      /\ \A c \in Channels : ~sequencer[c] => status'[c] = status[c]
  <2> DEFINE new(c) ==
        (IF ~sequencer[c] THEN {}
         ELSE IF \E i \in 1..nfebsField[c] : chain[c][i] = 0 THEN {"SequencerError"}
         ELSE {"SendMemoryRDFEDone"} \cup
              (IF nfebsField[c] > 0 THEN {"ReceiveMemoryFrameReceived"} ELSE {}))
  <2>1. status' = [c \in Channels |-> status[c] \cup new(c)]
    BY Zenon DEF OpenGate
  <2>2. \A c \in Channels : new(c) \subseteq StatusBits /\ (~sequencer[c] => new(c) = {})
    BY SMT DEF StatusBits
  <2> HIDE DEF new
  <2>3. \A c \in Channels : status[c] \subseteq StatusBits
    BY <1>0, Zenon DEF StatusType
  <2> QED
    BY <2>1, <2>2, <2>3, SMT
<1> QED
  BY <1>1, <1>3, <1>4, <1>5, Zenon

\* What an answer, or the lack of one, changes: the memory and the status of
\* the one channel.
LEMMA ReplyEffect ==
  ASSUME IInv, NEW c \in Channels, Reply(c)
  PROVE  /\ sending[c] /\ sending' = [sending EXCEPT ![c] = FALSE]
         /\ memory' \in [Channels -> Seq(Frame)]
         /\ status' \in [Channels -> SUBSET StatusBits]
         /\ \A d \in Channels : d # c => memory'[d] = memory[d] /\ status'[d] = status[d]
         /\ \/ /\ status'[c] \cap FrameErrors # {} /\ memory' = memory
            \/ /\ memory'[c] # <<>>
               /\ memory[c] = <<>> => Head(memory'[c]).firmware = chain[c][asked[c]]
         /\ Solid(memory'[c])
<1>0. CrocTypes /\ StatusType /\ Solid(memory[c])
  BY DEF IInv, TypeOK, Splitting, SolidFrames
<1>1. sending[c] /\ sending' = [sending EXCEPT ![c] = FALSE]
  BY Zenon DEF Reply
<1>2. memory[c] \in Seq(Frame) /\ memory \in [Channels -> Seq(Frame)]
  BY <1>0, Zenon DEF CrocTypes
<1>3. CASE /\ \E e \in {"ReceiveMemoryFrameTimeout", "ReceiveMemoryCRCError",
                        "ReceiveMemoryFrameHeaderError"} :
                status' = [status EXCEPT ![c] = @ \cup {e}]
           /\ memory' = memory
  <2>1. PICK e \in {"ReceiveMemoryFrameTimeout", "ReceiveMemoryCRCError",
                    "ReceiveMemoryFrameHeaderError"} :
               status' = [status EXCEPT ![c] = @ \cup {e}]
    BY <1>3
  <2>2. e \in StatusBits /\ e \in FrameErrors
    BY <2>1 DEF StatusBits, FrameErrors
  <2>3. status[c] \cup {e} \subseteq StatusBits
    BY <1>0, <2>2, Zenon DEF StatusType
  <2>4. /\ status' \in [Channels -> SUBSET StatusBits]
        /\ status'[c] \cap FrameErrors # {}
        /\ \A d \in Channels : d # c => status'[d] = status[d]
    BY <1>0, <2>1, <2>2, <2>3, SMT DEF StatusType
  <2> QED
    BY <1>0, <1>1, <1>2, <1>3, <2>4, Zenon
<1>4. CASE /\ \E bytes \in StatusBytes, length \in {FPGAFrameMaxSize, FPGAFrameMaxSize - 4} :
                memory' = [memory EXCEPT ![c] =
                   Append(@, Answer(asked[c], chain[c][asked[c]], length, bytes))]
           /\ status' = [status EXCEPT ![c] = @ \cup {"ReceiveMemoryFrameReceived"}]
  <2>1. PICK bytes \in StatusBytes, length \in {FPGAFrameMaxSize, FPGAFrameMaxSize - 4} :
               memory' = [memory EXCEPT ![c] =
                  Append(@, Answer(asked[c], chain[c][asked[c]], length, bytes))]
    BY <1>4
  <2> DEFINE answer == Answer(asked[c], chain[c][asked[c]], length, bytes)
  <2>2. asked[c] \in Boards
    BY <1>1, Zenon DEF IInv, Counters, Addressed
  <2>3. chain[c][asked[c]] \in Nat /\ asked[c] \in Nat
    BY <1>0, <2>2, BoardNumbers
  <2>4. length \in Nat /\ length > 0
    BY SMT DEF FPGAFrameMaxSize
  <2>5. answer \in Frame /\ answer.firmware = chain[c][asked[c]] /\ answer.length = length
    BY <2>3, <2>4, AnswerFrame, SMTT(40)
  <2> HIDE DEF answer
  <2>6. memory' = [memory EXCEPT ![c] = Append(memory[c], answer)]
    BY <2>1, Zenon DEF answer
  <2>7. memory'[c] = Append(memory[c],
     answer) /\ \A d \in Channels : d # c => memory'[d] = memory[d]
    BY <2>6, <1>2, Zenon
  <2>8. /\ Append(memory[c], answer) \in Seq(Frame) /\ Append(memory[c], answer) # <<>>
        /\ memory[c] = <<>> => Head(Append(memory[c], answer)) = answer
    <3>1. Append(memory[c], answer) \in Seq(Frame) /\ Append(memory[c], answer) # <<>>
      BY <1>2, <2>5, SMTT(40)
    <3>2. Head(Append(<<>>, answer)) = answer
      BY SMT
    <3> QED
      BY <3>1, <3>2, Zenon
  <2>9. Solid(Append(memory[c], answer))
    <3>1. ASSUME NEW k \in DOMAIN Append(memory[c], answer)
          PROVE  Append(memory[c], answer)[k] = answer
                 \/ /\ k \in DOMAIN memory[c]
                    /\ Append(memory[c], answer)[k] = memory[c][k]
      BY <1>2, <2>5, SMT
    <3>2. answer.length > 0
      BY <2>4, <2>5, SMT
    <3> QED
      BY <3>1, <3>2, <1>0, Zenon DEF Solid
  <2>a. memory' \in [Channels -> Seq(Frame)]
    BY <1>2, <2>6, <2>8, Zenon
  <2>b. "ReceiveMemoryFrameReceived" \in StatusBits
    BY DEF StatusBits
  <2>c. status[c] \cup {"ReceiveMemoryFrameReceived"} \subseteq StatusBits
    BY <1>0, <2>b, Zenon DEF StatusType
  <2>d. /\ status' \in [Channels -> SUBSET StatusBits]
        /\ \A d \in Channels : d # c => status'[d] = status[d]
    BY <1>0, <1>4, <2>c, SMT DEF StatusType
  <2> QED
    BY <1>1, <2>5, <2>7, <2>8, <2>9, <2>a, <2>d, Zenon
<1> QED
  BY <1>3, <1>4, Zenon DEF Reply

\* The registers of the CROC-E keep their types: only addresses of boards are
\* ever asked for, and no channel is set for more boards than it can have.
LEMMA CrocTypesStep ==
  ASSUME IInv, [Next]_vars
  PROVE  CrocTypes' /\ StatusType'
<1>0. CrocTypes /\ StatusType /\ SetupTypes /\ chan \in Channels /\ nFEBs[chan] \in 0..MaxFEBs
  BY DEF IInv, TypeOK, SetupTypes
<1>b. 0 \in 0..MaxFEBs /\ MaxFEBs \in Nat
  BY ChannelAssumption, SMT
<1> USE <1>0 DEF CrocTypes, StatusType, crocVars
<1>1. CASE AddECROC
  BY <1>1, SMT DEF AddECROC
<1>2. CASE ClearAndResetStatusRegisters
  <2>1. /\ status' = [status EXCEPT ![chan] = {}] /\ memory' = [memory EXCEPT ![chan] = <<>>]
        /\ asked' = [asked EXCEPT ![chan] = 0] /\ sending' = [sending EXCEPT ![chan] = FALSE]
    BY <1>2, Zenon DEF ClearAndResetStatusRegisters, ClearAndReset
  <2>2. status' \in [Channels -> SUBSET StatusBits] /\ memory' \in [Channels -> Seq(Frame)]
    BY <2>1, SMT
  <2>3. asked' \in [Channels -> 0..MaxFEBs] /\ sending' \in [Channels -> BOOLEAN]
    BY <2>1, <1>b, SMT
  <2> QED
    BY <1>2, <2>2, <2>3, SMT DEF ClearAndResetStatusRegisters, ClearAndReset
<1>3. CASE DisableSequencerReadout
  BY <1>3, SMT DEF DisableSequencerReadout
<1>4. CASE SetupNFrontEndBoards
  BY <1>4, SMT DEF SetupNFrontEndBoards
<1>5. CASE ClearAndResetStatusRegister
  <2>1. /\ status' = [status EXCEPT ![chan] = {}] /\ memory' = [memory EXCEPT ![chan] = <<>>]
        /\ asked' = [asked EXCEPT ![chan] = 0] /\ sending' = [sending EXCEPT ![chan] = FALSE]
    BY <1>5, Zenon DEF ClearAndResetStatusRegister, ClearAndReset
  <2>2. status' \in [Channels -> SUBSET StatusBits] /\ memory' \in [Channels -> Seq(Frame)]
    BY <2>1, SMT
  <2>3. asked' \in [Channels -> 0..MaxFEBs] /\ sending' \in [Channels -> BOOLEAN]
    BY <2>1, <1>b, SMT
  <2> QED
    BY <1>5, <2>2, <2>3, SMT DEF ClearAndResetStatusRegister, ClearAndReset
<1>6. CASE WriteMessageToMemory
  <2>1. feb \in 1..nFEBs[chan]
    BY <1>6, Zenon DEF WriteMessageToMemory, IInv, Counters, BoardLoop, ExchangePoints
  <2>2. feb \in 0..MaxFEBs
    BY <2>1, <1>b, SMT
  <2> QED
    BY <1>6, <2>2, SMT DEF WriteMessageToMemory
<1>7. CASE SendMessage
  BY <1>7, SMT DEF SendMessage
<1>8. CASE WaitForMessageReceived
  BY <1>8, SMT DEF WaitForMessageReceived, Throw
<1>9. CASE IsAvailable
  BY <1>9, SMT DEF IsAvailable, Throw
<1>10. CASE SetChannelConfiguration
  <2>1. sequencer' \in [Channels -> BOOLEAN]
    <3>1. config \in BOOLEAN
      BY DEF SetupTypes
    <3> QED
      BY <1>10, <3>1, Zenon DEF SetChannelConfiguration
  <2>2. nfebsField' \in [Channels -> 0..MaxFEBs] /\ headerFirmware' \in [Channels -> Nat]
    BY <1>10, SMT DEF SetChannelConfiguration, SetupTypes
  <2> QED
    BY <1>10, <2>1, <2>2, SMT DEF SetChannelConfiguration
<1>11. CASE ClearEmptyChannels
  BY <1>11, SMT DEF ClearEmptyChannels, Throw
<1>12. CASE Initialize
  <2>1. /\ status' = [status EXCEPT ![chan] = {}] /\ memory' = [memory EXCEPT ![chan] = <<>>]
        /\ asked' = [asked EXCEPT ![chan] = 0] /\ sending' = [sending EXCEPT ![chan] = FALSE]
        /\ sequencer' = [sequencer EXCEPT ![chan] = TRUE]
    BY <1>12, Zenon DEF Initialize, ClearAndReset
  <2>2. status' \in [Channels -> SUBSET StatusBits] /\ memory' \in [Channels -> Seq(Frame)]
    BY <2>1, SMT
  <2>3. /\ asked' \in [Channels -> 0..MaxFEBs] /\ sending' \in [Channels -> BOOLEAN]
        /\ sequencer' \in [Channels -> BOOLEAN]
    BY <2>1, <1>b, SMT
  <2> QED
    BY <1>12, <2>2, <2>3, SMT DEF Initialize, ClearAndReset
<1>13. CASE WaitForGate
  BY <1>13, GateEffect, SMT DEF WaitForGate, OpenGate
<1>14. CASE WaitForSequencerReadoutCompletion
  BY <1>14, SMT DEF WaitForSequencerReadoutCompletion, Throw
<1>15. CASE ReadBlock
  BY <1>15, SMT DEF ReadBlock
<1>16. CASE ProcessDataIntoFrames
  BY <1>16, SMT DEF ProcessDataIntoFrames
<1>17. CASE CleanupHardware
  <2>1. sequencer' \in [Channels -> BOOLEAN]
    BY <1>17, Zenon DEF CleanupHardware
  <2> QED
    BY <1>17, <2>1, SMT DEF CleanupHardware
<1>18. CASE Dies
  BY <1>18, SMT DEF Dies, Throw
<1>19. CASE Spill
  BY <1>19, GateEffect, SMTT(30) DEF Spill, OpenGate
<1>20. CASE \E c \in Channels : Reply(c)
  <2>1. PICK c \in Channels : Reply(c)
    BY <1>20
  <2>2. memory' \in [Channels -> Seq(Frame)] /\ status' \in [Channels -> SUBSET StatusBits]
    BY <2>1, ReplyEffect
  <2>3. sending' \in [Channels -> BOOLEAN]
    BY <2>1, ReplyEffect, Zenon
  <2> QED
    BY <2>1, <2>2, <2>3, SMT DEF Reply
<1>21. CASE UNCHANGED vars
  BY <1>21, SMT DEF vars
<1> QED
  BY <1>1, <1>2, <1>3, <1>4, <1>5, <1>6, <1>7, <1>8, <1>9, <1>10, <1>11, <1>12, <1>13,
     <1>14, <1>15, <1>16, <1>17, <1>18, <1>19, <1>20, <1>21 DEF Next, SetupStep,
     ReadoutStep, AllRunsOver

-----------------------------------------------------------------------------
(* The search for boards.                                                  *)

\* The loop of SetupNFrontEndBoards goes over the boards asked for and no more.
LEMMA BoardLoopStep ==
  ASSUME IInv, [Next]_vars
  PROVE  BoardLoop'
<1>0. SetupTypes /\ BoardLoop /\ chan \in Channels /\ nFEBs[chan] \in 0..MaxFEBs /\ MaxFEBs \in Nat
  BY ChannelAssumption DEF IInv, TypeOK, SetupTypes, Counters
<1> USE <1>0 DEF BoardLoop, ExchangePoints
<1>1. CASE AddECROC
  BY <1>1, SMT DEF AddECROC
<1>2. CASE ClearAndResetStatusRegisters
  BY <1>2, NextOfAll, SMT DEF ClearAndResetStatusRegisters
<1>3. CASE DisableSequencerReadout
  BY <1>3, NextOfAll, SMT DEF DisableSequencerReadout
<1>4. CASE SetupNFrontEndBoards
  BY <1>4, NextOfAll, SMT DEF SetupNFrontEndBoards
<1>5. CASE ClearAndResetStatusRegister
  BY <1>5, SMT DEF ClearAndResetStatusRegister, ClearAndReset
<1>6. CASE WriteMessageToMemory
  BY <1>6, SMT DEF WriteMessageToMemory
<1>7. CASE SendMessage
  BY <1>7, SMT DEF SendMessage
<1>8. CASE WaitForMessageReceived
  BY <1>8, SMT DEF WaitForMessageReceived, Throw
<1>9. CASE IsAvailable
  <2>1. CASE pc' = "off"
    BY <2>1
  <2>2. CASE feb' = feb + 1 /\ pc' = IF feb = nFEBs[chan] THEN "setConfig" ELSE "clear"
    BY <1>9, <2>2, SMT DEF IsAvailable
  <2> QED
    BY <1>9, <2>1, <2>2, Zenon DEF IsAvailable, Throw
<1>10. CASE SetChannelConfiguration
  BY <1>10, SMT DEF SetChannelConfiguration
<1>11. CASE ClearEmptyChannels
  BY <1>11, SMT DEF ClearEmptyChannels, Throw
<1>12. CASE Initialize
  <2>1. pc' \in {"initialize", "waitForGate"}
    BY <1>12, Zenon DEF Initialize, NextChannel
  <2> QED
    BY <2>1
<1>13. CASE WaitForGate
  BY <1>13, SMT DEF WaitForGate, OpenGate
<1>14. CASE WaitForSequencerReadoutCompletion
  <2>1. pc' \in {"off", "sequencers", "readBlock"}
    BY <1>14, Zenon DEF WaitForSequencerReadoutCompletion, NextChannel, Throw
  <2> QED
    BY <2>1
<1>15. CASE ReadBlock
  <2>1. pc' \in {"readBlock", "waitForGate", "process"}
    BY <1>15, Zenon DEF ReadBlock, NextChannel
  <2> QED
    BY <2>1
<1>16. CASE ProcessDataIntoFrames
  <2>1. pc' \in {"readBlock", "waitForGate", "process"}
    BY <1>16, Zenon DEF ProcessDataIntoFrames
  <2> QED
    BY <2>1
<1>17. CASE CleanupHardware
  BY <1>17, SMT DEF CleanupHardware, Throw
<1>18. CASE Dies
  BY <1>18, SMT DEF Dies, Throw
<1>19. CASE Spill
  BY <1>19, SMT DEF Spill, OpenGate, daqVars
<1>20. CASE \E c \in Channels : Reply(c)
  BY <1>20, SMT DEF Reply, daqVars
<1>21. CASE UNCHANGED vars
  BY <1>21, SMT DEF vars, daqVars, crocVars
<1> QED
  BY <1>1, <1>2, <1>3, <1>4, <1>5, <1>6, <1>7, <1>8, <1>9, <1>10, <1>11, <1>12, <1>13,
     <1>14, <1>15, <1>16, <1>17, <1>18, <1>19, <1>20, <1>21 DEF Next, SetupStep,
     ReadoutStep, AllRunsOver

\* A message that is on its way is for a board, the one the search is at.
LEMMA AddressedStep ==
  ASSUME IInv, [Next]_vars
  PROVE  Addressed'
<1>0. /\ Addressed /\ BoardLoop /\ chan \in Channels
      /\ asked \in [Channels -> 0..MaxFEBs] /\ sending \in [Channels -> BOOLEAN]
  BY DEF IInv, TypeOK, SetupTypes, CrocTypes, Counters
<1>a. nFEBs[chan] \in 0..MaxFEBs /\ MaxFEBs \in Nat /\ Boards = 1..MaxFEBs
  BY <1>0, ChannelAssumption DEF IInv, TypeOK, SetupTypes, Boards
<1> USE DEF Addressed
<1>1. CASE AddECROC
  <2>1. asked' = asked /\ sending' = sending
    BY <1>1, SMT DEF AddECROC, crocVars
  <2>2. pc' \notin {"sendMessage", "waitForMessage"}
    BY <1>1, SMT DEF AddECROC, NextChannel
  <2> QED
    BY <1>0, <2>1, <2>2, Zenon
<1>2. CASE ClearAndResetStatusRegisters
  <2>1. asked' = [asked EXCEPT ![chan] = 0] /\ sending' = [sending EXCEPT ![chan] = FALSE]
    BY <1>2, Zenon DEF ClearAndResetStatusRegisters, ClearAndReset
  <2>2. \A c \in Channels : sending'[c] => asked'[c] \in Boards
    BY <1>0, <2>1, SMT
  <2>3. pc' \in {"clearStatus", "disable", "writeMessage", "initialize", "waitForGate"}
    BY <1>2, Zenon DEF ClearAndResetStatusRegisters, ClearAndReset, NextChannel
  <2> QED
    BY <2>2, <2>3
<1>3. CASE DisableSequencerReadout
  <2>1. asked' = asked /\ sending' = sending
    BY <1>3, SMT DEF DisableSequencerReadout, crocVars
  <2>2. pc' \notin {"sendMessage", "waitForMessage"}
    BY <1>3, SMT DEF DisableSequencerReadout, NextChannel
  <2> QED
    BY <1>0, <2>1, <2>2, Zenon
<1>4. CASE SetupNFrontEndBoards
  <2>1. asked' = asked /\ sending' = sending
    BY <1>4, SMT DEF SetupNFrontEndBoards, crocVars
  <2>2. pc' \notin {"sendMessage", "waitForMessage"}
    BY <1>4, SMT DEF SetupNFrontEndBoards, NextChannel
  <2> QED
    BY <1>0, <2>1, <2>2, Zenon
<1>5. CASE ClearAndResetStatusRegister
  <2>1. asked' = [asked EXCEPT ![chan] = 0] /\ sending' = [sending EXCEPT ![chan] = FALSE]
    BY <1>5, Zenon DEF ClearAndResetStatusRegister, ClearAndReset
  <2>2. \A c \in Channels : sending'[c] => asked'[c] \in Boards
    BY <1>0, <2>1, SMT
  <2>3. pc' \in {"clearStatus", "disable", "writeMessage", "initialize", "waitForGate"}
    BY <1>5, Zenon DEF ClearAndResetStatusRegister, ClearAndReset, NextChannel
  <2> QED
    BY <2>2, <2>3
<1>6. CASE WriteMessageToMemory
  <2>1. feb \in 1..nFEBs[chan]
    BY <1>6, <1>0, SMT DEF WriteMessageToMemory, BoardLoop, ExchangePoints
  <2>2. feb \in Boards
    BY <1>a, <2>1, SMT
  <2>3. asked' = [asked EXCEPT ![chan] = feb] /\ sending' = sending /\ UNCHANGED <<feb, chan>>
    BY <1>6, SMT DEF WriteMessageToMemory
  <2>4. \A c \in Channels : asked'[c] = IF c = chan THEN feb ELSE asked[c]
    BY <1>0, <2>3, Zenon
  <2> QED
    BY <1>0, <2>2, <2>3, <2>4, Zenon
<1>7. CASE SendMessage
  <2>1. asked[chan] = feb /\ feb \in 1..nFEBs[chan]
    BY <1>7, <1>0, SMT DEF SendMessage, BoardLoop, ExchangePoints
  <2>2. feb \in Boards
    BY <1>a, <2>1, SMT
  <2>3. asked' = asked /\ sending' = [sending EXCEPT ![chan] = TRUE] /\ UNCHANGED <<feb, chan>>
    BY <1>7, SMT DEF SendMessage
  <2>4. \A c \in Channels : c # chan => sending'[c] = sending[c]
    BY <1>0, <2>3, Zenon
  <2> QED
    BY <1>0, <2>1, <2>2, <2>3, <2>4, Zenon
<1>8. CASE WaitForMessageReceived
  <2>1. asked' = asked /\ sending' = sending
    BY <1>8, SMT DEF WaitForMessageReceived, crocVars
  <2>2. pc' \notin {"sendMessage", "waitForMessage"}
    BY <1>8, SMT DEF WaitForMessageReceived, Throw, NextChannel
  <2> QED
    BY <1>0, <2>1, <2>2, Zenon
<1>9. CASE IsAvailable
  <2>1. asked' = asked /\ sending' = sending
    BY <1>9, SMT DEF IsAvailable, crocVars
  <2>2. pc' \notin {"sendMessage", "waitForMessage"}
    BY <1>9, SMT DEF IsAvailable, Throw, NextChannel
  <2> QED
    BY <1>0, <2>1, <2>2, Zenon
<1>10. CASE SetChannelConfiguration
  <2>1. asked' = asked /\ sending' = sending
    BY <1>10, SMT DEF SetChannelConfiguration, crocVars
  <2>2. pc' \notin {"sendMessage", "waitForMessage"}
    BY <1>10, SMT DEF SetChannelConfiguration, NextChannel
  <2> QED
    BY <1>0, <2>1, <2>2, Zenon
<1>11. CASE ClearEmptyChannels
  <2>1. asked' = asked /\ sending' = sending
    BY <1>11, SMT DEF ClearEmptyChannels, crocVars
  <2>2. pc' \notin {"sendMessage", "waitForMessage"}
    BY <1>11, SMT DEF ClearEmptyChannels, Throw, NextChannel
  <2> QED
    BY <1>0, <2>1, <2>2, Zenon
<1>12. CASE Initialize
  <2>1. asked' = [asked EXCEPT ![chan] = 0] /\ sending' = [sending EXCEPT ![chan] = FALSE]
    BY <1>12, Zenon DEF Initialize, ClearAndReset
  <2>2. \A c \in Channels : sending'[c] => asked'[c] \in Boards
    BY <1>0, <2>1, SMT
  <2>3. pc' \in {"clearStatus", "disable", "writeMessage", "initialize", "waitForGate"}
    BY <1>12, Zenon DEF Initialize, ClearAndReset, NextChannel
  <2> QED
    BY <2>2, <2>3
<1>13. CASE WaitForGate
  <2>1. asked' = asked /\ sending' = sending /\ pc' = "sequencers"
    BY <1>13, SMT DEF WaitForGate, OpenGate
  <2> QED
    BY <1>0, <2>1, Zenon
<1>14. CASE WaitForSequencerReadoutCompletion
  <2>1. asked' = asked /\ sending' = sending
    BY <1>14, SMT DEF WaitForSequencerReadoutCompletion, crocVars
  <2>2. pc' \notin {"sendMessage", "waitForMessage"}
    BY <1>14, SMT DEF WaitForSequencerReadoutCompletion, Throw, NextChannel
  <2> QED
    BY <1>0, <2>1, <2>2, Zenon
<1>15. CASE ReadBlock
  <2>1. asked' = asked /\ sending' = sending
    BY <1>15, SMT DEF ReadBlock, crocVars
  <2>2. pc' \notin {"sendMessage", "waitForMessage"}
    BY <1>15, SMT DEF ReadBlock, NextChannel
  <2> QED
    BY <1>0, <2>1, <2>2, Zenon
<1>16. CASE ProcessDataIntoFrames
  <2>1. asked' = asked /\ sending' = sending
    BY <1>16, SMT DEF ProcessDataIntoFrames, crocVars
  <2>2. pc' \notin {"sendMessage", "waitForMessage"}
    BY <1>16, SMT DEF ProcessDataIntoFrames, NextChannel
  <2> QED
    BY <1>0, <2>1, <2>2, Zenon
<1>17. CASE CleanupHardware
  <2>1. asked' = asked /\ sending' = sending
    BY <1>17, SMT DEF CleanupHardware, crocVars
  <2>2. pc' \notin {"sendMessage", "waitForMessage"}
    BY <1>17, SMT DEF CleanupHardware, Throw, NextChannel
  <2> QED
    BY <1>0, <2>1, <2>2, Zenon
<1>18. CASE Dies
  <2>1. asked' = asked /\ sending' = sending
    BY <1>18, SMT DEF Dies, crocVars
  <2>2. pc' \notin {"sendMessage", "waitForMessage"}
    BY <1>18, SMT DEF Dies, Throw, NextChannel
  <2> QED
    BY <1>0, <2>1, <2>2, Zenon
<1>19. CASE Spill
  <2>1. asked' = asked /\ sending' = sending /\ UNCHANGED <<pc, feb, chan>>
    BY <1>19, SMT DEF Spill, OpenGate, daqVars
  <2> QED
    BY <1>0, <2>1, Zenon
<1>20. CASE \E c \in Channels : Reply(c)
  <2>1. PICK c \in Channels : Reply(c)
    BY <1>20
  <2>2. /\ asked' = asked /\ sending' = [sending EXCEPT ![c] = FALSE]
        /\ UNCHANGED <<pc, feb, chan>>
    BY <2>1, Zenon DEF Reply, daqVars
  <2>3. \A d \in Channels : sending'[d] => sending[d]
    BY <1>0, <2>2, Zenon
  <2> QED
    BY <1>0, <2>2, <2>3, Zenon
<1>21. CASE UNCHANGED vars
  <2>1. asked' = asked /\ sending' = sending /\ UNCHANGED <<pc, feb, chan>>
    BY <1>21, SMT DEF vars, daqVars, crocVars
  <2> QED
    BY <1>0, <2>1, Zenon
<1> QED
  BY <1>1, <1>2, <1>3, <1>4, <1>5, <1>6, <1>7, <1>8, <1>9, <1>10, <1>11, <1>12, <1>13,
     <1>14, <1>15, <1>16, <1>17, <1>18, <1>19, <1>20, <1>21 DEF Next, SetupStep,
     ReadoutStep, AllRunsOver

\* After ClearEmptyChannels the loops are over the channels where boards were
\* found, and over no other.
LEMMA KeptChannelsStep ==
  ASSUME IInv, [Next]_vars
  PROVE  KeptChannels'
<1>0. KeptChannels /\ TypeOK /\ Counters
  BY DEF IInv, Counters
<1> USE DEF KeptChannels
<1>1. CASE AddECROC
  <2>1. pc' \notin {"initialize"} \cup ReadoutPoints
    BY <1>1, SMT DEF AddECROC, NextChannel, ReadoutPoints, GatePoints
  <2> QED
    BY <2>1, Zenon DEF ReadoutPoints
<1>2. CASE ClearAndResetStatusRegisters
  <2>1. pc' \notin {"initialize"} \cup ReadoutPoints
    BY <1>2, SMT DEF ClearAndResetStatusRegisters, ClearAndReset, NextChannel,
       ReadoutPoints, GatePoints
  <2> QED
    BY <2>1, Zenon DEF ReadoutPoints
<1>3. CASE DisableSequencerReadout
  <2>1. pc' \notin {"initialize"} \cup ReadoutPoints
    BY <1>3, SMT DEF DisableSequencerReadout, NextChannel, ReadoutPoints, GatePoints
  <2> QED
    BY <2>1, Zenon DEF ReadoutPoints
<1>4. CASE SetupNFrontEndBoards
  <2>1. pc' \notin {"initialize"} \cup ReadoutPoints
    BY <1>4, SMT DEF SetupNFrontEndBoards, NextChannel, ReadoutPoints, GatePoints
  <2> QED
    BY <2>1, Zenon DEF ReadoutPoints
<1>5. CASE ClearAndResetStatusRegister
  <2>1. pc' \notin {"initialize"} \cup ReadoutPoints
    BY <1>5, SMT DEF ClearAndResetStatusRegister, ClearAndReset, NextChannel,
       ReadoutPoints, GatePoints
  <2> QED
    BY <2>1, Zenon DEF ReadoutPoints
<1>6. CASE WriteMessageToMemory
  <2>1. pc' \notin {"initialize"} \cup ReadoutPoints
    BY <1>6, SMT DEF WriteMessageToMemory, NextChannel, ReadoutPoints, GatePoints
  <2> QED
    BY <2>1, Zenon DEF ReadoutPoints
<1>7. CASE SendMessage
  <2>1. pc' \notin {"initialize"} \cup ReadoutPoints
    BY <1>7, SMT DEF SendMessage, NextChannel, ReadoutPoints, GatePoints
  <2> QED
    BY <2>1, Zenon DEF ReadoutPoints
<1>8. CASE WaitForMessageReceived
  <2>1. pc' \notin {"initialize"} \cup ReadoutPoints
    BY <1>8, SMT DEF WaitForMessageReceived, Throw, NextChannel, ReadoutPoints, GatePoints
  <2> QED
    BY <2>1, Zenon DEF ReadoutPoints
<1>9. CASE IsAvailable
  <2>1. pc' \notin {"initialize"} \cup ReadoutPoints
    BY <1>9, SMT DEF IsAvailable, Throw, NextChannel, ReadoutPoints, GatePoints
  <2> QED
    BY <2>1, Zenon DEF ReadoutPoints
<1>10. CASE SetChannelConfiguration
  <2>1. pc' \notin {"initialize"} \cup ReadoutPoints
    BY <1>10, SMT DEF SetChannelConfiguration, NextChannel, ReadoutPoints, GatePoints
  <2> QED
    BY <2>1, Zenon DEF ReadoutPoints
<1>11. CASE ClearEmptyChannels
  <2>1. kept' = {c \in Channels : vector[c] # <<>>} /\ vector' = vector
    BY <1>11, Zenon DEF ClearEmptyChannels
  <2>2. CASE kept' = {}
    <3>1. pc' = "off"
      BY <1>11, <2>2, Zenon DEF ClearEmptyChannels, Throw
    <3> QED
      BY <3>1 DEF ReadoutPoints, GatePoints
  <2>3. CASE kept' # {}
    <3>1. kept' \in SUBSET Nat
      BY <2>1, ChannelNumbers, Zenon
    <3>2. Min(kept') \in kept'
      BY <2>3, <3>1, MinIsLeast
    <3> QED
      BY <1>11, <2>1, <2>3, <3>2, Zenon DEF ClearEmptyChannels
  <2> QED
    BY <2>2, <2>3
<1>12. CASE Initialize
  <2>1. pc \in {"initialize"} \cup ReadoutPoints
    BY <1>12, Zenon DEF Initialize, ReadoutPoints, GatePoints
  <2>2. NextChannel(kept, "waitForGate") => chan' \in kept
    BY <2>1, KeptLoop, Zenon DEF IInv
  <2>3. kept' = kept /\ vector' = vector
    BY <1>12, Zenon DEF Initialize
  <2>4. pc' \in {"initialize", "waitForGate"}
    BY <1>12, Zenon DEF Initialize, ClearAndReset, NextChannel
  <2>5. chan \in kept
    BY <1>12, <1>0, Zenon DEF Initialize, GatePoints
  <2> QED
    BY <1>12, <1>0, <2>1, <2>2, <2>3, <2>4, <2>5, Zenon DEF Initialize, ClearAndReset,
       ReadoutPoints, GatePoints
<1>13. CASE WaitForGate
  <2>1. pc = "waitForGate" /\ chan' = Min(kept) /\ kept' = kept /\ vector' = vector
    BY <1>13, Zenon DEF WaitForGate
  <2>2. Min(kept) \in kept
    BY <1>0, <2>1, FirstKept, Zenon DEF ReadoutPoints
  <2> QED
    BY <1>0, <2>1, <2>2, Zenon DEF ReadoutPoints
<1>14. CASE WaitForSequencerReadoutCompletion
  <2>1. pc \in {"initialize"} \cup ReadoutPoints
    BY <1>14, Zenon DEF WaitForSequencerReadoutCompletion, ReadoutPoints, GatePoints
  <2>2. NextChannel(kept, "readBlock") => chan' \in kept
    BY <2>1, KeptLoop, Zenon DEF IInv
  <2>3. kept' = kept /\ vector' = vector
    BY <1>14, Zenon DEF WaitForSequencerReadoutCompletion
  <2>4. pc' \in {"off", "sequencers", "readBlock"}
    BY <1>14, Zenon DEF WaitForSequencerReadoutCompletion, Throw, NextChannel
  <2>5. chan \in kept
    BY <1>14, <1>0, Zenon DEF WaitForSequencerReadoutCompletion, GatePoints
  <2> QED
    BY <1>14, <1>0, <2>1, <2>2, <2>3, <2>4, <2>5, Zenon
       DEF WaitForSequencerReadoutCompletion, Throw, ReadoutPoints, GatePoints
<1>15. CASE ReadBlock
  <2>1. pc \in {"initialize"} \cup ReadoutPoints
    BY <1>15, Zenon DEF ReadBlock, ReadoutPoints, GatePoints
  <2>2. NextChannel(kept, "waitForGate") => chan' \in kept
    BY <2>1, KeptLoop, Zenon DEF IInv
  <2>3. kept' = kept /\ vector' = vector
    BY <1>15, Zenon DEF ReadBlock
  <2>4. pc' \in {"readBlock", "waitForGate", "process"}
    BY <1>15, Zenon DEF ReadBlock, NextChannel
  <2>5. chan \in kept
    BY <1>15, <1>0, Zenon DEF ReadBlock, GatePoints
  <2> QED
    BY <1>15, <1>0, <2>1, <2>2, <2>3, <2>4, <2>5, Zenon DEF ReadBlock, ReadoutPoints, GatePoints
<1>16. CASE ProcessDataIntoFrames
  <2>1. kept' = kept /\ vector' = vector /\ pc = "process"
    BY <1>16, Zenon DEF ProcessDataIntoFrames
  <2>2. chan' \in kept
    BY <1>16, <1>0, <2>1, DissolveMoves, Zenon DEF GatePoints
  <2> QED
    BY <1>0, <2>1, <2>2, Zenon DEF ReadoutPoints, GatePoints
<1>17. CASE CleanupHardware
  <2>1. pc' \notin {"initialize"} \cup ReadoutPoints
    BY <1>17, SMT DEF CleanupHardware, Throw, NextChannel, ReadoutPoints, GatePoints
  <2> QED
    BY <2>1, Zenon DEF ReadoutPoints
<1>18. CASE Dies
  <2>1. pc' \notin {"initialize"} \cup ReadoutPoints
    BY <1>18, SMT DEF Dies, Throw, NextChannel, ReadoutPoints, GatePoints
  <2> QED
    BY <2>1, Zenon DEF ReadoutPoints
<1>19. CASE Spill
  <2>1. UNCHANGED <<pc, chan, kept, vector>>
    BY <1>19, SMT DEF Spill, daqVars
  <2> QED
    BY <1>0, <2>1, Zenon
<1>20. CASE \E c \in Channels : Reply(c)
  <2>1. UNCHANGED <<pc, chan, kept, vector>>
    BY <1>20, SMT DEF Reply, daqVars
  <2> QED
    BY <1>0, <2>1, Zenon
<1>21. CASE UNCHANGED vars
  <2>1. UNCHANGED <<pc, chan, kept, vector>>
    BY <1>21, SMT DEF vars, daqVars
  <2> QED
    BY <1>0, <2>1, Zenon
<1> QED
  BY <1>1, <1>2, <1>3, <1>4, <1>5, <1>6, <1>7, <1>8, <1>9, <1>10, <1>11, <1>12, <1>13,
     <1>14, <1>15, <1>16, <1>17, <1>18, <1>19, <1>20, <1>21 DEF Next, SetupStep,
     ReadoutStep, AllRunsOver

\* The sequencers are off while boards are looked for, whatever the last
\* process left, and on in the channels that are kept while gates are read.
LEMMA SequencersStep ==
  ASSUME IInv, [Next]_vars
  PROVE  Sequencers'
<1>0. Sequencers /\ chan \in Channels /\ sequencer \in [Channels -> BOOLEAN]
  BY DEF IInv, TypeOK, SetupTypes, CrocTypes
<1>a. Channels \subseteq Nat /\ NChannels \in Nat /\ Channels = 1..NChannels
  BY ChannelAssumption DEF Channels
<1> USE DEF Sequencers
<1>1. CASE AddECROC
  <2>1. pc' = "clearStatus"
    BY <1>1, Zenon DEF AddECROC
  <2> QED
    BY <2>1, Zenon DEF SearchPoints, ExchangePoints, ReadoutPoints, GatePoints
<1>2. CASE ClearAndResetStatusRegisters
  <2>1. /\ pc = "clearStatus"
        /\ \/ chan < NChannels /\ chan' = chan + 1 /\ pc' = pc
           \/ chan = NChannels /\ chan' = 1 /\ pc' = "disable"
    BY <1>2, <1>0, NextOfAll, Zenon DEF ClearAndResetStatusRegisters
  <2>2. \A c \in Channels : ~(c < 1)
    BY <1>a, SMT
  <2> QED
    BY <2>1, <2>2, Zenon DEF SearchPoints, ExchangePoints, ReadoutPoints, GatePoints
<1>3. CASE DisableSequencerReadout
  <2>1. /\ pc = "disable" /\ sequencer' = [sequencer EXCEPT ![chan] = FALSE]
        /\ \/ chan < NChannels /\ chan' = chan + 1 /\ pc' = pc
           \/ chan = NChannels /\ chan' = 1 /\ pc' = "setup"
    BY <1>3, <1>0, NextOfAll, Zenon DEF DisableSequencerReadout
  <2>2. \A c \in Channels : sequencer'[c] => c # chan /\ ~(c < chan)
    BY <1>0, <2>1, Zenon
  <2>3. \A c \in Channels : ~(c < chan) /\ c # chan => ~(c < chan + 1) /\ chan # NChannels
    BY <1>0, <1>a, SMT
  <2> QED
    BY <2>1, <2>2, <2>3, Zenon DEF SearchPoints, ExchangePoints, ReadoutPoints, GatePoints
<1>4. CASE SetupNFrontEndBoards
  <2>1. sequencer' = sequencer /\ pc = "setup"
    BY <1>4, Zenon DEF SetupNFrontEndBoards, crocVars
  <2>2. \A c \in Channels : ~sequencer[c]
    BY <1>0, <2>1, Zenon DEF SearchPoints
  <2>3. \/ pc' \in {"setup", "clearEmpty"}
        \/ pc' = "clear" /\ config' = sequencer[chan]
    BY <1>4, Zenon DEF SetupNFrontEndBoards, NextChannel
  <2> QED
    BY <1>0, <2>1, <2>2, <2>3, Zenon DEF SearchPoints, ExchangePoints, ReadoutPoints, GatePoints
<1>5. CASE ClearAndResetStatusRegister
  <2>1. UNCHANGED <<config, sequencer>> /\ pc \in ExchangePoints
    BY <1>5, SMT DEF ClearAndResetStatusRegister, crocVars, ExchangePoints
  <2>2. pc' \in {"writeMessage"}
    BY <1>5, Zenon DEF ClearAndResetStatusRegister, ClearAndReset
  <2> QED
    BY <1>0, <2>1, <2>2, Zenon DEF SearchPoints, ExchangePoints, ReadoutPoints, GatePoints
<1>6. CASE WriteMessageToMemory
  <2>1. UNCHANGED <<config, sequencer>> /\ pc \in ExchangePoints
    BY <1>6, SMT DEF WriteMessageToMemory, crocVars, ExchangePoints
  <2>2. pc' \in {"sendMessage"}
    BY <1>6, Zenon DEF WriteMessageToMemory
  <2> QED
    BY <1>0, <2>1, <2>2, Zenon DEF SearchPoints, ExchangePoints, ReadoutPoints, GatePoints
<1>7. CASE SendMessage
  <2>1. UNCHANGED <<config, sequencer>> /\ pc \in ExchangePoints
    BY <1>7, SMT DEF SendMessage, crocVars, ExchangePoints
  <2>2. pc' \in {"waitForMessage"}
    BY <1>7, Zenon DEF SendMessage
  <2> QED
    BY <1>0, <2>1, <2>2, Zenon DEF SearchPoints, ExchangePoints, ReadoutPoints, GatePoints
<1>8. CASE WaitForMessageReceived
  <2>1. UNCHANGED <<config, sequencer>> /\ pc \in ExchangePoints
    BY <1>8, SMT DEF WaitForMessageReceived, crocVars, ExchangePoints
  <2>2. pc' \in {"off", "isAvailable"}
    BY <1>8, Zenon DEF WaitForMessageReceived, Throw
  <2> QED
    BY <1>0, <2>1, <2>2, Zenon DEF SearchPoints, ExchangePoints, ReadoutPoints, GatePoints
<1>9. CASE IsAvailable
  <2>1. UNCHANGED <<config, sequencer>> /\ pc \in ExchangePoints
    BY <1>9, SMT DEF IsAvailable, crocVars, ExchangePoints
  <2>2. pc' \in {"off", "setConfig", "clear"}
    BY <1>9, Zenon DEF IsAvailable, Throw
  <2> QED
    BY <1>0, <2>1, <2>2, Zenon DEF SearchPoints, ExchangePoints, ReadoutPoints, GatePoints
<1>10. CASE SetChannelConfiguration
  <2>1. pc = "setConfig" /\ sequencer' = [sequencer EXCEPT ![chan] = config]
    BY <1>10, Zenon DEF SetChannelConfiguration
  <2>2. ~config /\ \A c \in Channels : ~sequencer[c]
    BY <1>0, <2>1, Zenon DEF SearchPoints
  <2>3. \A c \in Channels : ~sequencer'[c]
    BY <1>0, <2>1, <2>2, Zenon
  <2>4. pc' \in {"setup", "clearEmpty"}
    BY <1>10, Zenon DEF SetChannelConfiguration
  <2> QED
    BY <2>3, <2>4, Zenon DEF SearchPoints, ExchangePoints, ReadoutPoints, GatePoints
<1>11. CASE ClearEmptyChannels
  <2>1. sequencer' = sequencer /\ pc = "clearEmpty"
    BY <1>11, Zenon DEF ClearEmptyChannels, crocVars
  <2>2. \A c \in Channels : ~sequencer'[c]
    BY <1>0, <2>1, Zenon
  <2>3. CASE pc' = "off"
    BY <2>3, Zenon DEF SearchPoints, ExchangePoints, ReadoutPoints, GatePoints
  <2>4. CASE kept' # {} /\ chan' = Min(kept') /\ pc' = "initialize"
    <3>1. kept' \in SUBSET Channels
      BY <1>11, Zenon DEF ClearEmptyChannels
    <3>2. kept' \in SUBSET Nat
      BY <3>1, <1>a, Zenon
    <3>3. Min(kept') \in kept' /\ \A c \in kept' : Min(kept') <= c
      BY <2>4, <3>2, MinIsLeast
    <3>4. \A c \in kept' : ~(c < chan')
      <4> DEFINE S == kept'
                 m == Min(kept')
      <4>1. m \in S /\ S \subseteq Nat /\ \A c \in S : m <= c
        BY <3>2, <3>3, Zenon
      <4> HIDE DEF S, m
      <4>2. \A c \in S : ~(c < m)
        BY <4>1, SMT
      <4> QED
        BY <2>4, <4>2, Zenon DEF S, m
    <3> QED
      BY <2>2, <2>4, <3>4, Zenon DEF SearchPoints, ExchangePoints, ReadoutPoints, GatePoints
  <2> QED
    BY <1>11, <2>3, <2>4, Zenon DEF ClearEmptyChannels, Throw
<1>12. CASE Initialize
  <2>1. /\ pc = "initialize" /\ kept' = kept /\ sequencer' = [sequencer EXCEPT ![chan] = TRUE]
        /\ NextChannel(kept, "waitForGate")
    BY <1>12, Zenon DEF Initialize
  <2>2. /\ chan' \in kept /\ chan \in kept /\ kept \in SUBSET Channels
        /\ \/ /\ chan' > chan /\ pc' = pc
              /\ \A d \in kept : d < chan' => d <= chan
           \/ pc' = "waitForGate" /\ \A d \in kept : d <= chan
    BY <2>1, KeptLoop, Zenon DEF IInv, TypeOK, SetupTypes, Counters, KeptChannels
  <2>3. \A c \in Channels : sequencer'[c] <=> c = chan \/ (c \in kept /\ c < chan)
    BY <1>0, <2>1, Zenon
  <2>4. \A c \in kept : c <= chan <=> c = chan \/ c < chan
    BY <1>0, <1>a, <2>2, SMT
  <2>5. CASE chan' > chan /\ pc' = pc /\ \A d \in kept : d < chan' => d <= chan
    <3>1. \A c \in kept : c < chan' <=> c <= chan
      <4> DEFINE n == chan'
      <4>1. n \in Nat /\ chan \in Nat /\ n > chan /\ kept \subseteq Nat
        BY <1>0, <1>a, <2>2, <2>5, Zenon
      <4>2. \A d \in kept : d < n => d <= chan
        BY <2>5
      <4> HIDE DEF n
      <4>3. \A c \in kept : c < n <=> c <= chan
        BY <4>1, <4>2, SMT
      <4> QED
        BY <4>3 DEF n
    <3>2. \A c \in Channels : sequencer'[c] <=> c \in kept /\ c < chan'
      BY <2>2, <2>3, <2>4, <3>1, Zenon
    <3> QED
      BY <2>1, <2>5, <3>2, Zenon DEF SearchPoints, ExchangePoints, ReadoutPoints, GatePoints
  <2>6. CASE pc' = "waitForGate" /\ \A d \in kept : d <= chan
    <3>1. \A c \in Channels : sequencer'[c] <=> c \in kept
      BY <2>2, <2>3, <2>4, <2>6, Zenon
    <3> QED
      BY <2>1, <2>6, <3>1, Zenon DEF SearchPoints, ExchangePoints, ReadoutPoints, GatePoints
  <2> QED
    BY <2>2, <2>5, <2>6, Zenon
<1>13. CASE WaitForGate
  <2>1. UNCHANGED <<kept, sequencer>> /\ pc \in ReadoutPoints
    BY <1>13, SMT DEF WaitForGate, crocVars, OpenGate, ReadoutPoints, GatePoints
  <2>2. pc' \in {"sequencers"}
    BY <1>13, Zenon DEF WaitForGate, OpenGate, NextChannel
  <2> QED
    BY <1>0, <2>1, <2>2, Zenon DEF SearchPoints, ExchangePoints, ReadoutPoints, GatePoints
<1>14. CASE WaitForSequencerReadoutCompletion
  <2>1. UNCHANGED <<kept, sequencer>> /\ pc \in ReadoutPoints
    BY <1>14, SMT DEF WaitForSequencerReadoutCompletion, crocVars, OpenGate,
       ReadoutPoints, GatePoints
  <2>2. pc' \in {"off", "sequencers", "readBlock"}
    BY <1>14, Zenon DEF WaitForSequencerReadoutCompletion, Throw, NextChannel
  <2> QED
    BY <1>0, <2>1, <2>2, Zenon DEF SearchPoints, ExchangePoints, ReadoutPoints, GatePoints
<1>15. CASE ReadBlock
  <2>1. UNCHANGED <<kept, sequencer>> /\ pc \in ReadoutPoints
    BY <1>15, SMT DEF ReadBlock, crocVars, OpenGate, ReadoutPoints, GatePoints
  <2>2. pc' \in {"readBlock", "waitForGate", "process"}
    BY <1>15, Zenon DEF ReadBlock, NextChannel
  <2> QED
    BY <1>0, <2>1, <2>2, Zenon DEF SearchPoints, ExchangePoints, ReadoutPoints, GatePoints
<1>16. CASE ProcessDataIntoFrames
  <2>1. UNCHANGED <<kept, sequencer>> /\ pc \in ReadoutPoints
    BY <1>16, SMT DEF ProcessDataIntoFrames, crocVars, OpenGate, ReadoutPoints, GatePoints
  <2>2. pc' \in {"readBlock", "waitForGate", "process"}
    BY <1>16, Zenon DEF ProcessDataIntoFrames, NextChannel
  <2> QED
    BY <1>0, <2>1, <2>2, Zenon DEF SearchPoints, ExchangePoints, ReadoutPoints, GatePoints
<1>17. CASE CleanupHardware
  <2>1. pc' = "off"
    BY <1>17, Zenon DEF CleanupHardware, Throw
  <2> QED
    BY <2>1, Zenon DEF SearchPoints, ExchangePoints, ReadoutPoints, GatePoints
<1>18. CASE Dies
  <2>1. pc' = "off"
    BY <1>18, Zenon DEF Dies, Throw
  <2> QED
    BY <2>1, Zenon DEF SearchPoints, ExchangePoints, ReadoutPoints, GatePoints
<1>19. CASE Spill
  <2>1. UNCHANGED <<pc, chan, kept, config, sequencer>>
    BY <1>19, SMT DEF Spill, OpenGate, daqVars, crocVars
  <2> QED
    BY <1>0, <2>1, Zenon
<1>20. CASE \E c \in Channels : Reply(c)
  <2>1. UNCHANGED <<pc, chan, kept, config, sequencer>>
    BY <1>20, SMT DEF Reply, daqVars, crocVars
  <2> QED
    BY <1>0, <2>1, Zenon
<1>21. CASE UNCHANGED vars
  <2>1. UNCHANGED <<pc, chan, kept, config, sequencer>>
    BY <1>21, SMT DEF vars, daqVars, crocVars
  <2> QED
    BY <1>0, <2>1, Zenon
<1> QED
  BY <1>1, <1>2, <1>3, <1>4, <1>5, <1>6, <1>7, <1>8, <1>9, <1>10, <1>11, <1>12, <1>13,
     <1>14, <1>15, <1>16, <1>17, <1>18, <1>19, <1>20, <1>21 DEF Next, SetupStep,
     ReadoutStep, AllRunsOver

\* Between the clearing of a channel and the next one, its memory holds nothing
\* but the answer to the message: the sequencer is off, and an answer comes at
\* most once.
LEMMA ExchangeStep ==
  ASSUME IInv, [Next]_vars
  PROVE  Exchange'
<1>0. /\ Exchange /\ chan \in Channels
      /\ memory \in [Channels -> Seq(Frame)] /\ status \in [Channels -> SUBSET StatusBits]
      /\ sending \in [Channels -> BOOLEAN]
  BY DEF IInv, TypeOK, SetupTypes, CrocTypes, StatusType
<1> USE DEF Exchange
<1>1. CASE AddECROC
  <2>1. pc' \notin {"writeMessage", "sendMessage", "waitForMessage", "isAvailable"}
    BY <1>1, SMT DEF AddECROC, NextChannel
  <2> QED
    BY <2>1, Zenon
<1>2. CASE ClearAndResetStatusRegisters
  <2>1. pc' \notin {"writeMessage", "sendMessage", "waitForMessage", "isAvailable"}
    BY <1>2, SMT DEF ClearAndResetStatusRegisters, ClearAndReset, NextChannel
  <2> QED
    BY <2>1, Zenon
<1>3. CASE DisableSequencerReadout
  <2>1. pc' \notin {"writeMessage", "sendMessage", "waitForMessage", "isAvailable"}
    BY <1>3, SMT DEF DisableSequencerReadout, NextChannel
  <2> QED
    BY <2>1, Zenon
<1>4. CASE SetupNFrontEndBoards
  <2>1. pc' \notin {"writeMessage", "sendMessage", "waitForMessage", "isAvailable"}
    BY <1>4, SMT DEF SetupNFrontEndBoards, NextChannel
  <2> QED
    BY <2>1, Zenon
<1>5. CASE ClearAndResetStatusRegister
  <2>1. /\ status' = [status EXCEPT ![chan] = {}] /\ memory' = [memory EXCEPT ![chan] = <<>>]
        /\ sending' = [sending EXCEPT ![chan] = FALSE]
        /\ pc' = "writeMessage" /\ chan' = chan
    BY <1>5, Zenon DEF ClearAndResetStatusRegister, ClearAndReset
  <2>2. status'[chan] = {} /\ memory'[chan] = <<>> /\ ~sending'[chan]
    BY <1>0, <2>1, Zenon
  <2> QED
    BY <2>1, <2>2, Zenon
<1>6. CASE WriteMessageToMemory
  <2>1. UNCHANGED <<memory, status, sending,
     chan>> /\ pc = "writeMessage" /\ pc' = "sendMessage"
    BY <1>6, SMT DEF WriteMessageToMemory
  <2> QED
    BY <1>0, <2>1, Zenon
<1>7. CASE SendMessage
  <2>1. /\ sending' = [sending EXCEPT ![chan] = TRUE] /\ UNCHANGED <<memory, status, chan>>
        /\ pc = "sendMessage" /\ pc' = "waitForMessage"
    BY <1>7, SMT DEF SendMessage
  <2>2. sending'[chan]
    BY <1>0, <2>1, Zenon
  <2> QED
    BY <1>0, <2>1, <2>2, Zenon
<1>8. CASE WaitForMessageReceived
  <2>1. /\ pc = "waitForMessage" /\ status[chan] # {}
        /\ status[chan] \cap FrameErrors # {} => pc' = "off"
        /\ status[chan] \cap FrameErrors = {} => pc' = "isAvailable"
        /\ UNCHANGED <<memory, status, sending, chan, chain, feb>>
    BY <1>8, SMT DEF WaitForMessageReceived, Throw, crocVars
  <2>2. CASE pc' = "off"
    BY <2>2
  <2>3. CASE status[chan] \cap FrameErrors = {}
    <3>1. ~sending[chan] /\ Answered
      BY <1>0, <2>1, <2>3, Zenon
    <3>2. Answered'
      BY <2>1, <3>1, Zenon DEF Answered
    <3> QED
      BY <2>1, <2>3, <3>1, <3>2, Zenon
  <2> QED
    BY <2>1, <2>2, <2>3, Zenon
<1>9. CASE IsAvailable
  <2>1. pc' \notin {"writeMessage", "sendMessage", "waitForMessage", "isAvailable"}
    BY <1>9, SMT DEF IsAvailable, Throw, NextChannel
  <2> QED
    BY <2>1, Zenon
<1>10. CASE SetChannelConfiguration
  <2>1. pc' \notin {"writeMessage", "sendMessage", "waitForMessage", "isAvailable"}
    BY <1>10, SMT DEF SetChannelConfiguration, NextChannel
  <2> QED
    BY <2>1, Zenon
<1>11. CASE ClearEmptyChannels
  <2>1. pc' \notin {"writeMessage", "sendMessage", "waitForMessage", "isAvailable"}
    BY <1>11, SMT DEF ClearEmptyChannels, Throw, NextChannel
  <2> QED
    BY <2>1, Zenon
<1>12. CASE Initialize
  <2>1. pc' \notin {"writeMessage", "sendMessage", "waitForMessage", "isAvailable"}
    BY <1>12, SMT DEF Initialize, ClearAndReset, NextChannel
  <2> QED
    BY <2>1, Zenon
<1>13. CASE WaitForGate
  <2>1. pc' \notin {"writeMessage", "sendMessage", "waitForMessage", "isAvailable"}
    BY <1>13, SMT DEF WaitForGate, OpenGate, NextChannel
  <2> QED
    BY <2>1, Zenon
<1>14. CASE WaitForSequencerReadoutCompletion
  <2>1. pc' \notin {"writeMessage", "sendMessage", "waitForMessage", "isAvailable"}
    BY <1>14, SMT DEF WaitForSequencerReadoutCompletion, Throw, NextChannel
  <2> QED
    BY <2>1, Zenon
<1>15. CASE ReadBlock
  <2>1. pc' \notin {"writeMessage", "sendMessage", "waitForMessage", "isAvailable"}
    BY <1>15, SMT DEF ReadBlock, NextChannel
  <2> QED
    BY <2>1, Zenon
<1>16. CASE ProcessDataIntoFrames
  <2>1. pc' \notin {"writeMessage", "sendMessage", "waitForMessage", "isAvailable"}
    BY <1>16, SMT DEF ProcessDataIntoFrames, NextChannel
  <2> QED
    BY <2>1, Zenon
<1>17. CASE CleanupHardware
  <2>1. pc' \notin {"writeMessage", "sendMessage", "waitForMessage", "isAvailable"}
    BY <1>17, SMT DEF CleanupHardware, Throw, NextChannel
  <2> QED
    BY <2>1, Zenon
<1>18. CASE Dies
  <2>1. pc' \notin {"writeMessage", "sendMessage", "waitForMessage", "isAvailable"}
    BY <1>18, SMT DEF Dies, Throw, NextChannel
  <2> QED
    BY <2>1, Zenon
<1>19. CASE Spill
  <2>1. OpenGate /\ UNCHANGED <<pc, chan, feb, chain, sending>>
    BY <1>19, Zenon DEF Spill, OpenGate, daqVars
  <2>2. CASE pc \in ExchangePoints
    <3>1. ~sequencer[chan]
      BY <1>0, <2>2, Zenon DEF IInv, Sequencers, SearchPoints
    <3>2. memory'[chan] = memory[chan] /\ status'[chan] = status[chan]
      BY <1>0, <2>1, <3>1, GateEffect, Zenon
    <3>3. Answered' <=> Answered
      BY <2>1, <3>2, Zenon DEF Answered
    <3> QED
      BY <1>0, <2>1, <3>2, <3>3, Zenon
  <2>3. CASE pc \notin ExchangePoints
    BY <2>1, <2>3, Zenon DEF ExchangePoints
  <2> QED
    BY <2>2, <2>3
<1>20. CASE \E c \in Channels : Reply(c)
  <2>1. PICK c \in Channels : Reply(c)
    BY <1>20
  <2>2. UNCHANGED <<pc, chan, feb, chain>>
    BY <2>1, Zenon DEF Reply, daqVars
  <2>3. /\ sending[c] /\ sending' = [sending EXCEPT ![c] = FALSE]
        /\ \A d \in Channels : d # c => memory'[d] = memory[d] /\ status'[d] = status[d]
        /\ \/ /\ status'[c] \cap FrameErrors # {} /\ memory' = memory
           \/ /\ memory'[c] # <<>>
              /\ memory[c] = <<>> => Head(memory'[c]).firmware = chain[c][asked[c]]
    BY <2>1, ReplyEffect
  <2>4. CASE c # chan
    <3>1. /\ memory'[chan] = memory[chan] /\ status'[chan] = status[chan]
          /\ sending'[chan] = sending[chan]
      BY <1>0, <2>3, <2>4, Zenon
    <3>2. Answered' <=> Answered
      BY <2>2, <3>1, Zenon DEF Answered
    <3> QED
      BY <1>0, <2>2, <3>1, <3>2, Zenon
  <2>5. CASE c = chan
    <3>1. ~sending'[chan]
      BY <1>0, <2>3, <2>5, Zenon
    <3>2. pc \notin {"writeMessage", "sendMessage", "isAvailable"}
      BY <1>0, <2>3, <2>5, Zenon
    <3>3. ASSUME pc = "waitForMessage" PROVE status'[chan] \cap FrameErrors # {} \/ Answered'
      <4>1. memory[chan] = <<>> /\ asked[chan] = feb
        BY <1>0, <2>3, <2>5, <3>3, Zenon DEF IInv, Counters, Addressed
      <4> QED
        BY <2>2, <2>3, <2>5, <4>1, Zenon DEF Answered
    <3> QED
      BY <2>2, <3>1, <3>2, <3>3, Zenon
  <2> QED
    BY <2>4, <2>5
<1>21. CASE UNCHANGED vars
  <2>1. UNCHANGED <<pc, chan, feb, chain, memory, status, sending>>
    BY <1>21, SMT DEF vars, daqVars, crocVars
  <2>2. Answered' <=> Answered
    BY <2>1, Zenon DEF Answered
  <2> QED
    BY <1>0, <2>1, <2>2, Zenon
<1> QED
  BY <1>1, <1>2, <1>3, <1>4, <1>5, <1>6, <1>7, <1>8, <1>9, <1>10, <1>11, <1>12, <1>13,
     <1>14, <1>15, <1>16, <1>17, <1>18, <1>19, <1>20, <1>21 DEF Next, SetupStep,
     ReadoutStep, AllRunsOver

\* What is known of the boards does not change while the registers and the
\* vectors of boards stay as they are.
LEMMA FoundStays ==
  ASSUME UNCHANGED <<vector, nFEBs, nfebsField, headerFirmware, chain>>
  PROVE  /\ AvailableMeansPresent' <=> AvailableMeansPresent
         /\ \A c \in Channels : SetUp(c)' <=> SetUp(c)
<1>1. /\ vector' = vector /\ nFEBs' = nFEBs /\ nfebsField' = nfebsField
      /\ headerFirmware' = headerFirmware /\ chain' = chain
  BY Zenon
<1>2. AvailableMeansPresent' <=> AvailableMeansPresent
  BY <1>1, SMT DEF AvailableMeansPresent
<1>3. ASSUME NEW c \in Channels PROVE SetUp(c)' <=> SetUp(c)
  BY <1>1, Zenon DEF SetUp
<1> QED
  BY <1>2, <1>3

\* The channel after chan, when chan is through: those before it are set up,
\* those behind it still have no boards.
LEMMA NextSetUp ==
  ASSUME chan \in Channels
  PROVE  /\ \A c \in Channels : c < chan + 1 => c < chan \/ c = chan
         /\ \A c \in Channels : c > chan + 1 => c > chan
         /\ chan < NChannels => chan + 1 \in Channels /\ chan + 1 > chan
         /\ chan = NChannels => \A c \in Channels : c < chan \/ c = chan
  BY ChannelAssumption, SMT DEF Channels

\* A board is taken for present because the firmware of the one answer in the
\* memory is that of the board asked; a channel is set for the boards found.
LEMMA FoundStep ==
  ASSUME IInv, [Next]_vars
  PROVE  Found'
<1>0. /\ Found /\ chan \in Channels /\ vector \in [Channels -> Seq(Boards)]
      /\ nFEBs \in [Channels -> 0..MaxFEBs] /\ MaxFEBs \in Nat
      /\ nfebsField \in [Channels -> 0..MaxFEBs] /\ headerFirmware \in [Channels -> Nat]
  BY ChannelAssumption DEF IInv, TypeOK, SetupTypes, CrocTypes
<1>a. Channels \subseteq Nat /\ NChannels \in Nat /\ Channels = 1..NChannels
  BY ChannelAssumption DEF Channels
<1> USE DEF Found
<1>1. CASE AddECROC
  <2>1. pc' = "clearStatus" /\ vector' = [c \in Channels |-> <<>>]
    BY <1>1, Zenon DEF AddECROC
  <2>2. \A c \in Channels : vector'[c] = <<>>
    BY <2>1, Zenon
  <2>3. \A c \in Channels : DOMAIN vector'[c] = {}
    BY <2>2, SMT
  <2>4. AvailableMeansPresent'
    BY <2>3, Zenon DEF AvailableMeansPresent
  <2> QED
    BY <2>1, <2>2, <2>4, Zenon DEF SearchPoints, ExchangePoints, ReadoutPoints, GatePoints
<1>2. CASE ClearAndResetStatusRegisters
  <2>1. UNCHANGED <<vector, nFEBs, nfebsField, headerFirmware, chain>> /\ pc = "clearStatus"
    BY <1>2, SMT DEF ClearAndResetStatusRegisters
  <2>2. pc' \in {"clearStatus", "disable"}
    BY <1>2, Zenon DEF ClearAndResetStatusRegisters, NextChannel
  <2>3. AvailableMeansPresent' <=> AvailableMeansPresent
    BY <2>1, FoundStays
  <2> QED
    BY <1>0, <2>1, <2>2, <2>3, Zenon DEF SearchPoints, ExchangePoints, ReadoutPoints, GatePoints
<1>3. CASE DisableSequencerReadout
  <2>1. UNCHANGED <<vector, nFEBs, nfebsField, headerFirmware, chain>> /\ pc = "disable"
    BY <1>3, SMT DEF DisableSequencerReadout
  <2>2. \/ chan < NChannels /\ chan' = chan + 1 /\ pc' = pc
        \/ chan = NChannels /\ chan' = 1 /\ pc' = "setup"
    BY <1>3, <1>0, NextOfAll, Zenon DEF DisableSequencerReadout
  <2>3. AvailableMeansPresent' <=> AvailableMeansPresent
    BY <2>1, FoundStays
  <2>4. 1 \in Channels /\ \A c \in Channels : ~(c < 1)
    BY <1>0, <1>a, SMT
  <2> QED
    BY <1>0, <2>1, <2>2, <2>3, <2>4, Zenon DEF SearchPoints, ExchangePoints,
       ReadoutPoints, GatePoints
<1>4. CASE SetupNFrontEndBoards
  <2>1. UNCHANGED <<vector, nFEBs, nfebsField, headerFirmware, chain>> /\ pc = "setup"
    BY <1>4, SMT DEF SetupNFrontEndBoards, crocVars
  <2>2. \/ /\ nFEBs[chan] = 0
           /\ \/ chan < NChannels /\ chan' = chan + 1 /\ pc' = pc
              \/ chan = NChannels /\ chan' = 1 /\ pc' = "clearEmpty"
        \/ feb' = 1 /\ pc' = "clear" /\ chan' = chan
    BY <1>4, <1>0, NextOfAll, Zenon DEF SetupNFrontEndBoards
  <2>3. /\ AvailableMeansPresent' <=> AvailableMeansPresent
        /\ \A c \in Channels : SetUp(c)' <=> SetUp(c)
    BY <2>1, FoundStays
  <2>e. \A c \in Channels : c > chan => vector'[c] = <<>>
    BY <1>0, <2>1, Zenon DEF SearchPoints, ExchangePoints, ReadoutPoints, GatePoints
  <2>5. CASE feb' = 1 /\ pc' = "clear" /\ chan' = chan
    <3>1. vector'[chan] = <<>>
      BY <1>0, <2>1, Zenon
    <3>2. Len(vector'[chan]) = feb' - 1 /\ ~(feb' > 1)
      BY <2>5, <3>1, SMT
    <3> QED
      BY <1>0, <2>1, <2>3, <2>5, <2>e, <3>2, Zenon DEF SearchPoints, ExchangePoints,
         ReadoutPoints, GatePoints
  <2>6. CASE /\ nFEBs[chan] = 0
             /\ \/ chan < NChannels /\ chan' = chan + 1 /\ pc' = pc
                \/ chan = NChannels /\ chan' = 1 /\ pc' = "clearEmpty"
    <3>1. vector[chan] = <<>>
      BY <1>0, <2>1, Zenon
    <3>2. Len(vector[chan]) = nFEBs[chan] /\ ~(nFEBs[chan] > 0)
      BY <2>6, <3>1, SMT
    <3>3. SetUp(chan)
      BY <3>2, Zenon DEF SetUp
    <3>4. \A c \in Channels : c < chan \/ c = chan => SetUp(c)'
      BY <1>0, <2>1, <2>3, <3>3, Zenon DEF SearchPoints, ExchangePoints, ReadoutPoints,
         GatePoints
    <3>5. AvailableMeansPresent'
      BY <1>0, <2>3
    <3> QED
      BY <1>0, <2>1, <2>6, <2>e, <3>4, <3>5, NextSetUp, Zenon DEF SearchPoints,
         ExchangePoints, ReadoutPoints, GatePoints
  <2> QED
    BY <2>2, <2>5, <2>6, Zenon
<1>5. CASE ClearAndResetStatusRegister
  <2>1. UNCHANGED <<vector, nFEBs, nfebsField, headerFirmware, chain>>
    BY <1>5, SMT DEF ClearAndResetStatusRegister, crocVars
  <2>2. UNCHANGED <<chan, feb, febFirmware>> /\ pc \in ExchangePoints
    BY <1>5, SMT DEF ClearAndResetStatusRegister, ExchangePoints
  <2>3. /\ AvailableMeansPresent' <=> AvailableMeansPresent
        /\ \A c \in Channels : SetUp(c)' <=> SetUp(c)
    BY <2>1, FoundStays
  <2>4. pc' \in {"writeMessage"}
    BY <1>5, Zenon DEF ClearAndResetStatusRegister, ClearAndReset
  <2> QED
    BY <1>0, <2>1, <2>2, <2>3, <2>4, Zenon DEF SearchPoints, ExchangePoints,
       ReadoutPoints, GatePoints
<1>6. CASE WriteMessageToMemory
  <2>1. UNCHANGED <<vector, nFEBs, nfebsField, headerFirmware, chain>>
    BY <1>6, SMT DEF WriteMessageToMemory, crocVars
  <2>2. UNCHANGED <<chan, feb, febFirmware>> /\ pc \in ExchangePoints
    BY <1>6, SMT DEF WriteMessageToMemory, ExchangePoints
  <2>3. /\ AvailableMeansPresent' <=> AvailableMeansPresent
        /\ \A c \in Channels : SetUp(c)' <=> SetUp(c)
    BY <2>1, FoundStays
  <2>4. pc' \in {"sendMessage"}
    BY <1>6, Zenon DEF WriteMessageToMemory
  <2> QED
    BY <1>0, <2>1, <2>2, <2>3, <2>4, Zenon DEF SearchPoints, ExchangePoints,
       ReadoutPoints, GatePoints
<1>7. CASE SendMessage
  <2>1. UNCHANGED <<vector, nFEBs, nfebsField, headerFirmware, chain>>
    BY <1>7, SMT DEF SendMessage, crocVars
  <2>2. UNCHANGED <<chan, feb, febFirmware>> /\ pc \in ExchangePoints
    BY <1>7, SMT DEF SendMessage, ExchangePoints
  <2>3. /\ AvailableMeansPresent' <=> AvailableMeansPresent
        /\ \A c \in Channels : SetUp(c)' <=> SetUp(c)
    BY <2>1, FoundStays
  <2>4. pc' \in {"waitForMessage"}
    BY <1>7, Zenon DEF SendMessage
  <2> QED
    BY <1>0, <2>1, <2>2, <2>3, <2>4, Zenon DEF SearchPoints, ExchangePoints,
       ReadoutPoints, GatePoints
<1>8. CASE WaitForMessageReceived
  <2>1. UNCHANGED <<vector, nFEBs, nfebsField, headerFirmware, chain>>
    BY <1>8, SMT DEF WaitForMessageReceived, crocVars
  <2>2. UNCHANGED <<chan, feb, febFirmware>> /\ pc \in ExchangePoints
    BY <1>8, SMT DEF WaitForMessageReceived, ExchangePoints
  <2>3. /\ AvailableMeansPresent' <=> AvailableMeansPresent
        /\ \A c \in Channels : SetUp(c)' <=> SetUp(c)
    BY <2>1, FoundStays
  <2>4. pc' \in {"off", "isAvailable"}
    BY <1>8, Zenon DEF WaitForMessageReceived, Throw
  <2> QED
    BY <1>0, <2>1, <2>2, <2>3, <2>4, Zenon DEF SearchPoints, ExchangePoints,
       ReadoutPoints, GatePoints
<1>9. CASE IsAvailable
  <2>0. pc = "isAvailable" /\ UNCHANGED <<chan, nFEBs, nfebsField, headerFirmware, chain>>
    BY <1>9, SMT DEF IsAvailable, crocVars
  <2>1. CASE pc' = "off" /\ vector' = vector
    <3>1. UNCHANGED <<vector, nFEBs, nfebsField, headerFirmware, chain>>
      BY <2>0, <2>1, Zenon
    <3>2. AvailableMeansPresent' <=> AvailableMeansPresent
      BY <3>1, FoundStays
    <3> QED
      BY <1>0, <2>1, <3>2, Zenon DEF SearchPoints, ExchangePoints, ReadoutPoints, GatePoints
  <2> DEFINE firmware == Head(memory[chan]).firmware
  <2>2. CASE /\ firmware # 0 /\ (feb > 1 => firmware = febFirmware)
             /\ febFirmware' = firmware /\ feb' = feb + 1
             /\ vector' = [vector EXCEPT ![chan] = Append(vector[chan], feb)]
             /\ pc' \in {"setConfig", "clear"}
    <3>1. firmware = chain[chan][feb] /\ feb \in 1..nFEBs[chan] /\ Len(vector[chan]) = feb - 1
      BY <1>0, <2>0, Zenon DEF IInv, Exchange, Answered, Counters, BoardLoop, ExchangePoints
    <3>2. firmware = chain[chan][1] /\ feb \in Nat /\ feb >= 1
      <4>1. feb > 1 => febFirmware = chain[chan][1]
        BY <1>0, <2>0, Zenon DEF ExchangePoints
      <4>2. feb \in Nat /\ feb >= 1 /\ (feb > 1 \/ feb = 1)
        BY <1>0, <3>1, SMT
      <4> QED
        BY <2>2, <3>1, <4>1, <4>2, Zenon
    <3> HIDE DEF firmware
    <3>3. vector[chan] \in Seq(Boards) /\ \A c \in Channels : c # chan => vector'[c] = vector[c]
      BY <1>0, <2>2, Zenon
    <3>4. vector'[chan] = Append(vector[chan], feb)
      BY <1>0, <2>2, Zenon
    <3>a. Len(vector[chan]) \in Nat /\ feb = Len(vector[chan]) + 1
      BY <3>1, <3>2, <3>3, SMT
    <3>5. Len(vector'[chan]) = feb /\ vector'[chan][feb] = feb
      <4> DEFINE v == vector[chan]
      <4>1. v \in Seq(Boards) /\ feb = Len(v) + 1
        BY <3>3, <3>a
      <4> HIDE DEF v
      <4>2. Len(Append(v, feb)) = feb /\ Append(v, feb)[feb] = feb
        BY <4>1, <3>2, SMT
      <4> QED
        BY <3>4, <4>2, Zenon DEF v
    <3>6. \A k \in DOMAIN vector'[chan] :
            k # feb => k \in DOMAIN vector[chan] /\ vector'[chan][k] = vector[chan][k]
      <4> DEFINE v == vector[chan]
      <4>1. v \in Seq(Boards) /\ feb = Len(v) + 1
        BY <3>3, <3>a
      <4> HIDE DEF v
      <4>2. \A k \in DOMAIN Append(v, feb) :
              k # feb => k \in DOMAIN v /\ Append(v, feb)[k] = v[k]
        BY <4>1, <3>2, SMT
      <4> QED
        BY <3>4, <4>2, Zenon DEF v
    <3>7. AvailableMeansPresent'
      <4>1. ASSUME NEW c \in Channels, NEW k \in DOMAIN vector'[c]
            PROVE  vector'[c][k] = k /\ chain[c][k] # 0 /\ chain[c][k] = chain[c][1]
        <5>1. CASE c # chan
          <6>1. vector'[c] = vector[c]
            BY <3>3, <5>1, Zenon
          <6>2. k \in DOMAIN vector[c] /\ vector'[c][k] = vector[c][k]
            BY <6>1, Zenon
          <6> QED
            BY <1>0, <6>2, Zenon DEF AvailableMeansPresent
        <5>2. CASE c = chan /\ k # feb
          BY <1>0, <3>6, <5>2, Zenon DEF AvailableMeansPresent
        <5>3. CASE c = chan /\ k = feb
          BY <2>2, <3>1, <3>2, <3>5, <5>3, Zenon
        <5> QED
          BY <5>1, <5>2, <5>3
      <4> QED
        BY <2>0, <4>1, Zenon DEF AvailableMeansPresent
    <3>8. \A c \in Channels : c < chan => SetUp(c)'
      <4>1. ASSUME NEW c \in Channels, c < chan PROVE SetUp(c)'
        <5>1. SetUp(c) /\ c # chan
          BY <1>0, <1>a, <2>0, <4>1, SMT DEF SearchPoints, ExchangePoints,
             ReadoutPoints, GatePoints
        <5> QED
          BY <2>0, <3>3, <5>1, Zenon DEF SetUp
      <4> QED
        BY <4>1
    <3>9. \A c \in Channels : c > chan => vector'[c] = <<>>
      <4>1. \A c \in Channels : c > chan => c # chan
        BY <1>0, <1>a, SMT
      <4> QED
        BY <1>0, <2>0, <3>3, <4>1, Zenon DEF SearchPoints, ExchangePoints,
           ReadoutPoints, GatePoints
    <3>b. Len(vector'[chan]) = feb' - 1
      BY <2>2, <3>2, <3>5, SMT
    <3> QED
      BY <2>0, <2>2, <3>2, <3>7, <3>8, <3>9, <3>b, Zenon DEF SearchPoints,
         ExchangePoints, ReadoutPoints, GatePoints
  <2> QED
    BY <1>9, <2>1, <2>2, Zenon DEF IsAvailable, Throw
<1>10. CASE SetChannelConfiguration
  <2>1. /\ pc = "setConfig" /\ UNCHANGED <<vector, nFEBs, chain>>
        /\ nfebsField' = [nfebsField EXCEPT ![chan] = nFEBs[chan]]
        /\ headerFirmware' = [headerFirmware EXCEPT ![chan] = febFirmware]
    BY <1>10, SMT DEF SetChannelConfiguration
  <2>2. \/ chan < NChannels /\ chan' = chan + 1 /\ pc' = "setup"
        \/ chan = NChannels /\ chan' = 1 /\ pc' = "clearEmpty"
    BY <1>10, <1>0, <1>a, SMTT(30) DEF SetChannelConfiguration
  <2>3. /\ nfebsField'[chan] = nFEBs[chan] /\ headerFirmware'[chan] = febFirmware
        /\ \A c \in Channels : c # chan => /\ nfebsField'[c] = nfebsField[c]
                                           /\ headerFirmware'[c] = headerFirmware[c]
    BY <1>0, <2>1, Zenon
  <2>4. /\ feb = nFEBs[chan] + 1 /\ nFEBs[chan] > 0 /\ Len(vector[chan]) = feb - 1
        /\ feb > 1 => febFirmware = chain[chan][1]
    BY <1>0, <2>1, Zenon DEF IInv, Counters, BoardLoop
  <2>5. Len(vector[chan]) = nFEBs[chan] /\ febFirmware = chain[chan][1]
    <3>1. nFEBs[chan] \in Nat
      BY <1>0, SMT
    <3>2. nFEBs[chan] = feb - 1 /\ feb > 1
      BY <2>4, <3>1, SMT
    <3> QED
      BY <2>4, <3>2, Zenon
  <2>6. ASSUME NEW c \in Channels, c = chan PROVE SetUp(c)'
    BY <2>1, <2>3, <2>5, <2>6, Zenon DEF SetUp
  <2>7. \A c \in Channels : c < chan \/ c = chan => SetUp(c)'
    <3>1. ASSUME NEW c \in Channels, c < chan PROVE SetUp(c)'
      <4>1. SetUp(c) /\ c # chan
        BY <1>0, <1>a, <2>1, <3>1, SMT DEF SearchPoints, ExchangePoints, ReadoutPoints,
           GatePoints
      <4> QED
        BY <2>1, <2>3, <4>1, Zenon DEF SetUp
    <3> QED
      BY <2>6, <3>1, Zenon
  <2>8. AvailableMeansPresent'
    BY <1>0, <2>1, Zenon DEF AvailableMeansPresent
  <2>e. \A c \in Channels : c > chan => vector'[c] = <<>>
    BY <1>0, <2>1, Zenon DEF SearchPoints, ExchangePoints, ReadoutPoints, GatePoints
  <2> QED
    BY <1>0, <2>2, <2>7, <2>8, <2>e, NextSetUp, Zenon DEF SearchPoints, ExchangePoints,
       ReadoutPoints, GatePoints
<1>11. CASE ClearEmptyChannels
  <2>1. UNCHANGED <<vector, nFEBs, nfebsField, headerFirmware, chain>>
    BY <1>11, SMT DEF ClearEmptyChannels, crocVars, OpenGate
  <2>2. pc = "clearEmpty"
    BY <1>11, SMT DEF ClearEmptyChannels, ReadoutPoints, GatePoints
  <2>3. /\ AvailableMeansPresent' <=> AvailableMeansPresent
        /\ \A c \in Channels : SetUp(c)' <=> SetUp(c)
    BY <2>1, FoundStays
  <2>4. pc' \in {"off", "initialize"}
    BY <1>11, Zenon DEF ClearEmptyChannels, Throw, NextChannel
  <2> QED
    BY <1>0, <2>2, <2>3, <2>4, Zenon DEF SearchPoints, ExchangePoints, ReadoutPoints, GatePoints
<1>12. CASE Initialize
  <2>1. UNCHANGED <<vector, nFEBs, nfebsField, headerFirmware, chain>>
    BY <1>12, SMT DEF Initialize, crocVars, OpenGate
  <2>2. pc \in {"initialize"} \cup ReadoutPoints
    BY <1>12, SMT DEF Initialize, ReadoutPoints, GatePoints
  <2>3. /\ AvailableMeansPresent' <=> AvailableMeansPresent
        /\ \A c \in Channels : SetUp(c)' <=> SetUp(c)
    BY <2>1, FoundStays
  <2>4. pc' \in {"initialize", "waitForGate"}
    BY <1>12, Zenon DEF Initialize, ClearAndReset, NextChannel
  <2> QED
    BY <1>0, <2>2, <2>3, <2>4, Zenon DEF SearchPoints, ExchangePoints, ReadoutPoints, GatePoints
<1>13. CASE WaitForGate
  <2>1. UNCHANGED <<vector, nFEBs, nfebsField, headerFirmware, chain>>
    BY <1>13, SMT DEF WaitForGate, crocVars, OpenGate
  <2>2. pc \in {"initialize"} \cup ReadoutPoints
    BY <1>13, SMT DEF WaitForGate, ReadoutPoints, GatePoints
  <2>3. /\ AvailableMeansPresent' <=> AvailableMeansPresent
        /\ \A c \in Channels : SetUp(c)' <=> SetUp(c)
    BY <2>1, FoundStays
  <2>4. pc' \in {"sequencers"}
    BY <1>13, Zenon DEF WaitForGate, OpenGate, NextChannel
  <2> QED
    BY <1>0, <2>2, <2>3, <2>4, Zenon DEF SearchPoints, ExchangePoints, ReadoutPoints, GatePoints
<1>14. CASE WaitForSequencerReadoutCompletion
  <2>1. UNCHANGED <<vector, nFEBs, nfebsField, headerFirmware, chain>>
    BY <1>14, SMT DEF WaitForSequencerReadoutCompletion, crocVars, OpenGate
  <2>2. pc \in {"initialize"} \cup ReadoutPoints
    BY <1>14, SMT DEF WaitForSequencerReadoutCompletion, ReadoutPoints, GatePoints
  <2>3. /\ AvailableMeansPresent' <=> AvailableMeansPresent
        /\ \A c \in Channels : SetUp(c)' <=> SetUp(c)
    BY <2>1, FoundStays
  <2>4. pc' \in {"off", "sequencers", "readBlock"}
    BY <1>14, Zenon DEF WaitForSequencerReadoutCompletion, Throw, NextChannel
  <2> QED
    BY <1>0, <2>2, <2>3, <2>4, Zenon DEF SearchPoints, ExchangePoints, ReadoutPoints, GatePoints
<1>15. CASE ReadBlock
  <2>1. UNCHANGED <<vector, nFEBs, nfebsField, headerFirmware, chain>>
    BY <1>15, SMT DEF ReadBlock, crocVars, OpenGate
  <2>2. pc \in {"initialize"} \cup ReadoutPoints
    BY <1>15, SMT DEF ReadBlock, ReadoutPoints, GatePoints
  <2>3. /\ AvailableMeansPresent' <=> AvailableMeansPresent
        /\ \A c \in Channels : SetUp(c)' <=> SetUp(c)
    BY <2>1, FoundStays
  <2>4. pc' \in {"readBlock", "waitForGate", "process"}
    BY <1>15, Zenon DEF ReadBlock, NextChannel
  <2> QED
    BY <1>0, <2>2, <2>3, <2>4, Zenon DEF SearchPoints, ExchangePoints, ReadoutPoints, GatePoints
<1>16. CASE ProcessDataIntoFrames
  <2>1. UNCHANGED <<vector, nFEBs, nfebsField, headerFirmware, chain>>
    BY <1>16, SMT DEF ProcessDataIntoFrames, crocVars, OpenGate
  <2>2. pc \in {"initialize"} \cup ReadoutPoints
    BY <1>16, SMT DEF ProcessDataIntoFrames, ReadoutPoints, GatePoints
  <2>3. /\ AvailableMeansPresent' <=> AvailableMeansPresent
        /\ \A c \in Channels : SetUp(c)' <=> SetUp(c)
    BY <2>1, FoundStays
  <2>4. pc' \in {"readBlock", "waitForGate", "process"}
    BY <1>16, Zenon DEF ProcessDataIntoFrames, NextChannel
  <2> QED
    BY <1>0, <2>2, <2>3, <2>4, Zenon DEF SearchPoints, ExchangePoints, ReadoutPoints, GatePoints
<1>17. CASE CleanupHardware
  <2>1. UNCHANGED <<vector, nFEBs, nfebsField, headerFirmware, chain>>
    BY <1>17, SMT DEF CleanupHardware, crocVars, OpenGate
  <2>2. pc \in {"initialize"} \cup ReadoutPoints
    BY <1>17, SMT DEF CleanupHardware, ReadoutPoints, GatePoints
  <2>3. /\ AvailableMeansPresent' <=> AvailableMeansPresent
        /\ \A c \in Channels : SetUp(c)' <=> SetUp(c)
    BY <2>1, FoundStays
  <2>4. pc' \in {"off"}
    BY <1>17, Zenon DEF CleanupHardware, Throw, NextChannel
  <2> QED
    BY <1>0, <2>2, <2>3, <2>4, Zenon DEF SearchPoints, ExchangePoints, ReadoutPoints, GatePoints
<1>18. CASE Dies
  <2>1. UNCHANGED <<vector, nFEBs, nfebsField, headerFirmware, chain>>
    BY <1>18, SMT DEF Dies, crocVars, OpenGate
  <2>2. TRUE
    BY <1>18, SMT DEF Dies, ReadoutPoints, GatePoints
  <2>3. /\ AvailableMeansPresent' <=> AvailableMeansPresent
        /\ \A c \in Channels : SetUp(c)' <=> SetUp(c)
    BY <2>1, FoundStays
  <2>4. pc' \in {"off"}
    BY <1>18, Zenon DEF Dies, Throw, NextChannel
  <2> QED
    BY <1>0, <2>2, <2>3, <2>4, Zenon DEF SearchPoints, ExchangePoints, ReadoutPoints, GatePoints
<1>19. CASE Spill
  <2>1. UNCHANGED <<vector, nFEBs, nfebsField, headerFirmware, chain>>
    BY <1>19, SMT DEF Spill, OpenGate, daqVars, crocVars
  <2>2. UNCHANGED <<pc, chan, feb, febFirmware>>
    BY <1>19, SMT DEF Spill, OpenGate, daqVars
  <2>3. /\ AvailableMeansPresent' <=> AvailableMeansPresent
        /\ \A c \in Channels : SetUp(c)' <=> SetUp(c)
    BY <2>1, FoundStays
  <2> QED
    BY <1>0, <2>1, <2>2, <2>3, Zenon
<1>20. CASE \E c \in Channels : Reply(c)
  <2>1. UNCHANGED <<vector, nFEBs, nfebsField, headerFirmware, chain>>
    BY <1>20, SMT DEF Reply, daqVars, crocVars
  <2>2. UNCHANGED <<pc, chan, feb, febFirmware>>
    BY <1>20, SMT DEF Reply, daqVars
  <2>3. /\ AvailableMeansPresent' <=> AvailableMeansPresent
        /\ \A c \in Channels : SetUp(c)' <=> SetUp(c)
    BY <2>1, FoundStays
  <2> QED
    BY <1>0, <2>1, <2>2, <2>3, Zenon
<1>21. CASE UNCHANGED vars
  <2>1. UNCHANGED <<vector, nFEBs, nfebsField, headerFirmware, chain>>
    BY <1>21, SMT DEF vars, daqVars, crocVars
  <2>2. UNCHANGED <<pc, chan, feb, febFirmware>>
    BY <1>21, SMT DEF vars, daqVars
  <2>3. /\ AvailableMeansPresent' <=> AvailableMeansPresent
        /\ \A c \in Channels : SetUp(c)' <=> SetUp(c)
    BY <2>1, FoundStays
  <2> QED
    BY <1>0, <2>1, <2>2, <2>3, Zenon
<1> QED
  BY <1>1, <1>2, <1>3, <1>4, <1>5, <1>6, <1>7, <1>8, <1>9, <1>10, <1>11, <1>12, <1>13,
     <1>14, <1>15, <1>16, <1>17, <1>18, <1>19, <1>20, <1>21 DEF Next, SetupStep,
     ReadoutStep, AllRunsOver

-----------------------------------------------------------------------------
(* The read-out of gates.                                                  *)

\* The blocks read so far match the boards as long as neither changes.
LEMMA BlocksStay ==
  ASSUME BlocksMatchBoards, UNCHANGED <<readouts, vector>>
  PROVE  BlocksMatchBoards'
<1>1. readouts' = readouts /\ vector' = vector
  BY Zenon
<1> QED
  BY <1>1, SMT DEF BlocksMatchBoards

\* No block is read yet.
LEMMA BlocksNone ==
  ASSUME readouts' = <<>>
  PROVE  BlocksMatchBoards'
<1>1. DOMAIN readouts' = {}
  BY SMT
<1> QED
  BY <1>1, Zenon DEF BlocksMatchBoards

\* A block is read from a memory that holds the gate, and the boards of its
\* channel stay the same until the process ends.
LEMMA BlocksStep ==
  ASSUME IInv, [Next]_vars
  PROVE  BlocksMatchBoards' /\ NoneYet'
<1>0. BlocksMatchBoards /\ NoneYet
  BY DEF IInv, Blocks
<1> USE DEF NoneYet
<1>1. CASE AddECROC
  <2>1. readouts' = <<>>
    BY <1>1, <1>0, SMT DEF AddECROC, SearchPoints, ExchangePoints, ReadoutPoints, GatePoints
  <2>2. BlocksMatchBoards'
    BY <2>1, BlocksNone
  <2> QED
    BY <2>1, <2>2
<1>2. CASE ClearAndResetStatusRegisters
  <2>1. readouts' = <<>>
    BY <1>2, <1>0, SMT DEF ClearAndResetStatusRegisters, SearchPoints, ExchangePoints,
       ReadoutPoints, GatePoints
  <2>2. BlocksMatchBoards'
    BY <2>1, BlocksNone
  <2> QED
    BY <2>1, <2>2
<1>3. CASE DisableSequencerReadout
  <2>1. readouts' = <<>>
    BY <1>3, <1>0, SMT DEF DisableSequencerReadout, SearchPoints, ExchangePoints,
       ReadoutPoints, GatePoints
  <2>2. BlocksMatchBoards'
    BY <2>1, BlocksNone
  <2> QED
    BY <2>1, <2>2
<1>4. CASE SetupNFrontEndBoards
  <2>1. readouts' = <<>>
    BY <1>4, <1>0, SMT DEF SetupNFrontEndBoards, SearchPoints, ExchangePoints,
       ReadoutPoints, GatePoints
  <2>2. BlocksMatchBoards'
    BY <2>1, BlocksNone
  <2> QED
    BY <2>1, <2>2
<1>5. CASE ClearAndResetStatusRegister
  <2>1. readouts' = <<>>
    BY <1>5, <1>0, SMT DEF ClearAndResetStatusRegister, SearchPoints, ExchangePoints,
       ReadoutPoints, GatePoints
  <2>2. BlocksMatchBoards'
    BY <2>1, BlocksNone
  <2> QED
    BY <2>1, <2>2
<1>6. CASE WriteMessageToMemory
  <2>1. readouts' = <<>>
    BY <1>6, <1>0, SMT DEF WriteMessageToMemory, SearchPoints, ExchangePoints,
       ReadoutPoints, GatePoints
  <2>2. BlocksMatchBoards'
    BY <2>1, BlocksNone
  <2> QED
    BY <2>1, <2>2
<1>7. CASE SendMessage
  <2>1. readouts' = <<>>
    BY <1>7, <1>0, SMT DEF SendMessage, SearchPoints, ExchangePoints, ReadoutPoints, GatePoints
  <2>2. BlocksMatchBoards'
    BY <2>1, BlocksNone
  <2> QED
    BY <2>1, <2>2
<1>8. CASE WaitForMessageReceived
  <2>1. readouts' = <<>>
    BY <1>8, <1>0, SMT DEF WaitForMessageReceived, SearchPoints, ExchangePoints,
       ReadoutPoints, GatePoints
  <2>2. BlocksMatchBoards'
    BY <2>1, BlocksNone
  <2> QED
    BY <2>1, <2>2
<1>9. CASE IsAvailable
  <2>1. readouts' = <<>>
    BY <1>9, <1>0, SMT DEF IsAvailable, SearchPoints, ExchangePoints, ReadoutPoints, GatePoints
  <2>2. BlocksMatchBoards'
    BY <2>1, BlocksNone
  <2> QED
    BY <2>1, <2>2
<1>10. CASE SetChannelConfiguration
  <2>1. readouts' = <<>>
    BY <1>10, <1>0, SMT DEF SetChannelConfiguration, SearchPoints, ExchangePoints,
       ReadoutPoints, GatePoints
  <2>2. BlocksMatchBoards'
    BY <2>1, BlocksNone
  <2> QED
    BY <2>1, <2>2
<1>11. CASE ClearEmptyChannels
  <2>1. readouts' = <<>>
    BY <1>11, <1>0, SMT DEF ClearEmptyChannels, SearchPoints, ExchangePoints,
       ReadoutPoints, GatePoints
  <2>2. BlocksMatchBoards'
    BY <2>1, BlocksNone
  <2> QED
    BY <2>1, <2>2
<1>12. CASE Initialize
  <2>1. readouts' = <<>>
    BY <1>12, <1>0, SMT DEF Initialize, SearchPoints, ExchangePoints, ReadoutPoints, GatePoints
  <2>2. BlocksMatchBoards'
    BY <2>1, BlocksNone
  <2> QED
    BY <2>1, <2>2
<1>13. CASE WaitForGate
  <2>1. UNCHANGED <<readouts, vector>>
    BY <1>13, SMT DEF WaitForGate
  <2>2. BlocksMatchBoards'
    BY <1>0, <2>1, BlocksStay
  <2>3. pc' \in {"sequencers"}
    BY <1>13, Zenon DEF WaitForGate, OpenGate, NextChannel
  <2> QED
    BY <2>2, <2>3, Zenon DEF SearchPoints, ExchangePoints, ReadoutPoints, GatePoints
<1>14. CASE WaitForSequencerReadoutCompletion
  <2>1. UNCHANGED <<readouts, vector>>
    BY <1>14, SMT DEF WaitForSequencerReadoutCompletion
  <2>2. BlocksMatchBoards'
    BY <1>0, <2>1, BlocksStay
  <2>3. pc' \in {"off", "sequencers", "readBlock"}
    BY <1>14, Zenon DEF WaitForSequencerReadoutCompletion, Throw, NextChannel
  <2> QED
    BY <2>2, <2>3, Zenon DEF SearchPoints, ExchangePoints, ReadoutPoints, GatePoints
<1>15. CASE ReadBlock
  <2>1. /\ pc = "readBlock" /\ vector' = vector
        /\ readouts' = Append(readouts, [chan |-> chan, gate |-> gate, data |-> memory[chan]])
    BY <1>15, Zenon DEF ReadBlock
  <2>2. pc' \in {"readBlock", "waitForGate", "process"}
    BY <1>15, Zenon DEF ReadBlock, NextChannel
  <2>3. GateInMemory(chan)
    <3>1. chan \in kept
      BY <2>1, Zenon DEF IInv, Counters, KeptChannels, GatePoints
    <3> QED
      BY <2>1, <3>1, Zenon DEF IInv, Blocks, Held, GatePoints
  <2> DEFINE Row == [chan : Channels, gate : Nat, data : Seq(Frame)]
             row == [chan |-> chan, gate |-> gate, data |-> memory[chan]]
  <2>4. readouts \in Seq(Row)
    BY DEF IInv, TypeOK, ReadoutTypes
  <2>5. row.chan = chan /\ row.gate = gate /\ row.data = memory[chan]
    OBVIOUS
  <2>a. readouts' = Append(readouts, row)
    BY <2>1
  <2> HIDE DEF Row, row
  <2>6. \A i \in DOMAIN readouts' :
          \/ i \in DOMAIN readouts /\ readouts'[i] = readouts[i]
          \/ readouts'[i] = row
    <3>1. \A i \in DOMAIN Append(readouts, row) :
            \/ i \in DOMAIN readouts /\ Append(readouts, row)[i] = readouts[i]
            \/ Append(readouts, row)[i] = row
      BY <2>4, SMT
    <3> QED
      BY <2>a, <3>1, Zenon
  <2>7. ASSUME NEW i \in DOMAIN readouts'
        PROVE  LET r == readouts'[i]
               IN  /\ Len(r.data) = Len(vector[r.chan])
                   /\ \A k \in DOMAIN r.data : r.data[k].feb = k /\ r.data[k].gate = r.gate
    <3>1. CASE readouts'[i] = row
      BY <2>3, <2>5, <3>1, Zenon DEF GateInMemory
    <3>2. CASE i \in DOMAIN readouts /\ readouts'[i] = readouts[i]
      BY <1>0, <3>2, ZenonT(60) DEF BlocksMatchBoards
    <3> QED
      BY <2>6, <3>1, <3>2
  <2>8. BlocksMatchBoards'
    BY <2>1, <2>7, Zenon DEF BlocksMatchBoards
  <2> QED
    BY <2>2, <2>8, Zenon DEF SearchPoints, ExchangePoints, ReadoutPoints, GatePoints
<1>16. CASE ProcessDataIntoFrames
  <2>1. UNCHANGED <<readouts, vector>>
    BY <1>16, SMT DEF ProcessDataIntoFrames
  <2>2. BlocksMatchBoards'
    BY <1>0, <2>1, BlocksStay
  <2>3. pc' \in {"readBlock", "waitForGate", "process"}
    BY <1>16, Zenon DEF ProcessDataIntoFrames, NextChannel
  <2> QED
    BY <2>2, <2>3, Zenon DEF SearchPoints, ExchangePoints, ReadoutPoints, GatePoints
<1>17. CASE CleanupHardware
  <2>1. UNCHANGED <<readouts, vector>>
    BY <1>17, SMT DEF CleanupHardware
  <2>2. BlocksMatchBoards'
    BY <1>0, <2>1, BlocksStay
  <2>3. pc' \in {"off"}
    BY <1>17, Zenon DEF CleanupHardware, Throw, NextChannel
  <2> QED
    BY <2>2, <2>3, Zenon DEF SearchPoints, ExchangePoints, ReadoutPoints, GatePoints
<1>18. CASE Dies
  <2>1. UNCHANGED <<readouts, vector>>
    BY <1>18, SMT DEF Dies
  <2>2. BlocksMatchBoards'
    BY <1>0, <2>1, BlocksStay
  <2>3. pc' \in {"off"}
    BY <1>18, Zenon DEF Dies, Throw, NextChannel
  <2> QED
    BY <2>2, <2>3, Zenon DEF SearchPoints, ExchangePoints, ReadoutPoints, GatePoints
<1>19. CASE Spill
  <2>1. UNCHANGED <<readouts, vector>>
    BY <1>19, SMT DEF Spill, daqVars
  <2>2. BlocksMatchBoards'
    BY <1>0, <2>1, BlocksStay
  <2>3. UNCHANGED pc
    BY <1>19, SMT DEF Spill, daqVars
  <2> QED
    BY <1>0, <2>1, <2>2, <2>3, Zenon
<1>20. CASE \E c \in Channels : Reply(c)
  <2>1. UNCHANGED <<readouts, vector>>
    BY <1>20, SMT DEF Reply, daqVars
  <2>2. BlocksMatchBoards'
    BY <1>0, <2>1, BlocksStay
  <2>3. UNCHANGED pc
    BY <1>20, SMT DEF Reply, daqVars
  <2> QED
    BY <1>0, <2>1, <2>2, <2>3, Zenon
<1>21. CASE UNCHANGED vars
  <2>1. UNCHANGED <<readouts, vector>>
    BY <1>21, SMT DEF vars, daqVars
  <2>2. BlocksMatchBoards'
    BY <1>0, <2>1, BlocksStay
  <2>3. UNCHANGED pc
    BY <1>21, SMT DEF vars, daqVars
  <2> QED
    BY <1>0, <2>1, <2>2, <2>3, Zenon
<1> QED
  BY <1>1, <1>2, <1>3, <1>4, <1>5, <1>6, <1>7, <1>8, <1>9, <1>10, <1>11, <1>12, <1>13,
     <1>14, <1>15, <1>16, <1>17, <1>18, <1>19, <1>20, <1>21 DEF Next, SetupStep,
     ReadoutStep, AllRunsOver

\* ECROC::Initialize clears what the search for boards, or an earlier process,
\* left under way in a channel; nothing is sent after it.
LEMMA SilentStep ==
  ASSUME IInv, [Next]_vars
  PROVE  Silent'
<1>0. /\ Silent /\ chan \in Channels /\ kept \subseteq Channels
      /\ sending \in [Channels -> BOOLEAN]
  BY DEF IInv, Blocks, TypeOK, SetupTypes, CrocTypes
<1> USE DEF Silent
<1>1. CASE AddECROC
  <2>1. pc' \notin {"initialize"} \cup ReadoutPoints
    BY <1>1, SMT DEF AddECROC, NextChannel, ReadoutPoints, GatePoints
  <2> QED
    BY <2>1, Zenon DEF ReadoutPoints
<1>2. CASE ClearAndResetStatusRegisters
  <2>1. pc' \notin {"initialize"} \cup ReadoutPoints
    BY <1>2, SMT DEF ClearAndResetStatusRegisters, ClearAndReset, NextChannel,
       ReadoutPoints, GatePoints
  <2> QED
    BY <2>1, Zenon DEF ReadoutPoints
<1>3. CASE DisableSequencerReadout
  <2>1. pc' \notin {"initialize"} \cup ReadoutPoints
    BY <1>3, SMT DEF DisableSequencerReadout, NextChannel, ReadoutPoints, GatePoints
  <2> QED
    BY <2>1, Zenon DEF ReadoutPoints
<1>4. CASE SetupNFrontEndBoards
  <2>1. pc' \notin {"initialize"} \cup ReadoutPoints
    BY <1>4, SMT DEF SetupNFrontEndBoards, NextChannel, ReadoutPoints, GatePoints
  <2> QED
    BY <2>1, Zenon DEF ReadoutPoints
<1>5. CASE ClearAndResetStatusRegister
  <2>1. pc' \notin {"initialize"} \cup ReadoutPoints
    BY <1>5, SMT DEF ClearAndResetStatusRegister, ClearAndReset, NextChannel,
       ReadoutPoints, GatePoints
  <2> QED
    BY <2>1, Zenon DEF ReadoutPoints
<1>6. CASE WriteMessageToMemory
  <2>1. pc' \notin {"initialize"} \cup ReadoutPoints
    BY <1>6, SMT DEF WriteMessageToMemory, NextChannel, ReadoutPoints, GatePoints
  <2> QED
    BY <2>1, Zenon DEF ReadoutPoints
<1>7. CASE SendMessage
  <2>1. pc' \notin {"initialize"} \cup ReadoutPoints
    BY <1>7, SMT DEF SendMessage, NextChannel, ReadoutPoints, GatePoints
  <2> QED
    BY <2>1, Zenon DEF ReadoutPoints
<1>8. CASE WaitForMessageReceived
  <2>1. pc' \notin {"initialize"} \cup ReadoutPoints
    BY <1>8, SMT DEF WaitForMessageReceived, Throw, NextChannel, ReadoutPoints, GatePoints
  <2> QED
    BY <2>1, Zenon DEF ReadoutPoints
<1>9. CASE IsAvailable
  <2>1. pc' \notin {"initialize"} \cup ReadoutPoints
    BY <1>9, SMT DEF IsAvailable, Throw, NextChannel, ReadoutPoints, GatePoints
  <2> QED
    BY <2>1, Zenon DEF ReadoutPoints
<1>10. CASE SetChannelConfiguration
  <2>1. pc' \notin {"initialize"} \cup ReadoutPoints
    BY <1>10, SMT DEF SetChannelConfiguration, NextChannel, ReadoutPoints, GatePoints
  <2> QED
    BY <2>1, Zenon DEF ReadoutPoints
<1>11. CASE ClearEmptyChannels
  <2>1. CASE pc' = "off"
    BY <2>1 DEF ReadoutPoints, GatePoints
  <2>2. CASE kept' # {} /\ chan' = Min(kept') /\ pc' = "initialize"
    <3>1. kept' \in SUBSET Nat
      BY <1>11, ChannelNumbers, Zenon DEF ClearEmptyChannels
    <3>2. Min(kept') \in kept' /\ \A c \in kept' : Min(kept') <= c
      BY <2>2, <3>1, MinIsLeast
    <3>3. \A c \in kept' : ~(c < chan')
      <4> DEFINE S == kept'
                 m == Min(kept')
      <4>1. m \in S /\ S \subseteq Nat /\ \A c \in S : m <= c
        BY <3>1, <3>2, Zenon
      <4> HIDE DEF S, m
      <4>2. \A c \in S : ~(c < m)
        BY <4>1, SMT
      <4> QED
        BY <2>2, <4>2, Zenon DEF S, m
    <3> QED
      BY <2>2, <3>3, Zenon DEF ReadoutPoints, GatePoints
  <2> QED
    BY <1>11, <2>1, <2>2, Zenon DEF ClearEmptyChannels, Throw
<1>12. CASE Initialize
  <2>1. /\ pc = "initialize" /\ kept' = kept /\ sending' = [sending EXCEPT ![chan] = FALSE]
        /\ NextChannel(kept, "waitForGate")
    BY <1>12, Zenon DEF Initialize, ClearAndReset
  <2>2. /\ chan' \in kept /\ kept \in SUBSET Channels
        /\ \/ /\ chan' > chan /\ pc' = pc
              /\ \A d \in kept : d < chan' => d <= chan
           \/ pc' = "waitForGate" /\ \A d \in kept : d <= chan
    BY <2>1, KeptLoop, Zenon DEF IInv, TypeOK, SetupTypes
  <2>3. \A c \in kept : c <= chan => c = chan \/ c < chan
    BY <1>0, <2>2, ChannelNumbers, SMT
  <2>4. \A c \in kept : c <= chan => ~sending'[c]
    BY <1>0, <2>1, <2>2, <2>3, Zenon
  <2> QED
    BY <2>1, <2>2, <2>4, Zenon DEF ReadoutPoints, GatePoints
<1>13. CASE WaitForGate
  <2>1. UNCHANGED <<kept, sending>> /\ pc \in ReadoutPoints
    BY <1>13, SMT DEF WaitForGate, OpenGate, crocVars, ReadoutPoints, GatePoints
  <2>2. pc' \in {"sequencers"}
    BY <1>13, Zenon DEF WaitForGate, OpenGate, NextChannel
  <2> QED
    BY <1>0, <2>1, <2>2, Zenon DEF ReadoutPoints, GatePoints
<1>14. CASE WaitForSequencerReadoutCompletion
  <2>1. UNCHANGED <<kept, sending>> /\ pc \in ReadoutPoints
    BY <1>14, SMT DEF WaitForSequencerReadoutCompletion, OpenGate, crocVars,
       ReadoutPoints, GatePoints
  <2>2. pc' \in {"off", "sequencers", "readBlock"}
    BY <1>14, Zenon DEF WaitForSequencerReadoutCompletion, Throw, NextChannel
  <2> QED
    BY <1>0, <2>1, <2>2, Zenon DEF ReadoutPoints, GatePoints
<1>15. CASE ReadBlock
  <2>1. UNCHANGED <<kept, sending>> /\ pc \in ReadoutPoints
    BY <1>15, SMT DEF ReadBlock, OpenGate, crocVars, ReadoutPoints, GatePoints
  <2>2. pc' \in {"readBlock", "waitForGate", "process"}
    BY <1>15, Zenon DEF ReadBlock, NextChannel
  <2> QED
    BY <1>0, <2>1, <2>2, Zenon DEF ReadoutPoints, GatePoints
<1>16. CASE ProcessDataIntoFrames
  <2>1. UNCHANGED <<kept, sending>> /\ pc \in ReadoutPoints
    BY <1>16, SMT DEF ProcessDataIntoFrames, OpenGate, crocVars, ReadoutPoints, GatePoints
  <2>2. pc' \in {"readBlock", "waitForGate", "process"}
    BY <1>16, Zenon DEF ProcessDataIntoFrames, NextChannel
  <2> QED
    BY <1>0, <2>1, <2>2, Zenon DEF ReadoutPoints, GatePoints
<1>17. CASE CleanupHardware
  <2>1. pc' \notin {"initialize"} \cup ReadoutPoints
    BY <1>17, SMT DEF CleanupHardware, Throw, NextChannel, ReadoutPoints, GatePoints
  <2> QED
    BY <2>1, Zenon DEF ReadoutPoints
<1>18. CASE Dies
  <2>1. pc' \notin {"initialize"} \cup ReadoutPoints
    BY <1>18, SMT DEF Dies, Throw, NextChannel, ReadoutPoints, GatePoints
  <2> QED
    BY <2>1, Zenon DEF ReadoutPoints
<1>19. CASE Spill
  <2>1. UNCHANGED <<pc, chan, kept, sending>>
    BY <1>19, SMT DEF Spill, OpenGate, daqVars, crocVars
  <2> QED
    BY <1>0, <2>1, Zenon
<1>20. CASE \E c \in Channels : Reply(c)
  <2>1. PICK c \in Channels : Reply(c)
    BY <1>20
  <2>2. UNCHANGED <<pc, chan, kept>> /\ sending' = [sending EXCEPT ![c] = FALSE]
    BY <2>1, Zenon DEF Reply, daqVars
  <2>3. \A d \in Channels : sending'[d] => sending[d]
    BY <1>0, <2>2, Zenon
  <2> QED
    BY <1>0, <2>2, <2>3, Zenon
<1>21. CASE UNCHANGED vars
  <2>1. UNCHANGED <<pc, chan, kept, sending>>
    BY <1>21, SMT DEF vars, daqVars, crocVars
  <2> QED
    BY <1>0, <2>1, Zenon
<1> QED
  BY <1>1, <1>2, <1>3, <1>4, <1>5, <1>6, <1>7, <1>8, <1>9, <1>10, <1>11, <1>12, <1>13,
     <1>14, <1>15, <1>16, <1>17, <1>18, <1>19, <1>20, <1>21 DEF Next, SetupStep,
     ReadoutStep, AllRunsOver

\* A gate fills the memories of the channels that are kept, whose sequencers
\* are on and set for the boards found, and nothing else writes to them until
\* the gate has been read out.
LEMMA HeldStep ==
  ASSUME IInv, [Next]_vars
  PROVE  Held'
<1>0. Held /\ Silent /\ kept \subseteq Channels
  BY DEF IInv, Blocks, TypeOK, SetupTypes
<1> USE DEF Held
<1>1. CASE AddECROC
  <2>1. pc' \notin GatePoints
    BY <1>1, SMT DEF AddECROC, NextChannel, GatePoints
  <2> QED
    BY <2>1
<1>2. CASE ClearAndResetStatusRegisters
  <2>1. pc' \notin GatePoints
    BY <1>2, SMT DEF ClearAndResetStatusRegisters, ClearAndReset, NextChannel, GatePoints
  <2> QED
    BY <2>1
<1>3. CASE DisableSequencerReadout
  <2>1. pc' \notin GatePoints
    BY <1>3, SMT DEF DisableSequencerReadout, NextChannel, GatePoints
  <2> QED
    BY <2>1
<1>4. CASE SetupNFrontEndBoards
  <2>1. pc' \notin GatePoints
    BY <1>4, SMT DEF SetupNFrontEndBoards, NextChannel, GatePoints
  <2> QED
    BY <2>1
<1>5. CASE ClearAndResetStatusRegister
  <2>1. pc' \notin GatePoints
    BY <1>5, SMT DEF ClearAndResetStatusRegister, ClearAndReset, NextChannel, GatePoints
  <2> QED
    BY <2>1
<1>6. CASE WriteMessageToMemory
  <2>1. pc' \notin GatePoints
    BY <1>6, SMT DEF WriteMessageToMemory, NextChannel, GatePoints
  <2> QED
    BY <2>1
<1>7. CASE SendMessage
  <2>1. pc' \notin GatePoints
    BY <1>7, SMT DEF SendMessage, NextChannel, GatePoints
  <2> QED
    BY <2>1
<1>8. CASE WaitForMessageReceived
  <2>1. pc' \notin GatePoints
    BY <1>8, SMT DEF WaitForMessageReceived, Throw, NextChannel, GatePoints
  <2> QED
    BY <2>1
<1>9. CASE IsAvailable
  <2>1. pc' \notin GatePoints
    BY <1>9, SMT DEF IsAvailable, Throw, NextChannel, GatePoints
  <2> QED
    BY <2>1
<1>10. CASE SetChannelConfiguration
  <2>1. pc' \notin GatePoints
    BY <1>10, SMT DEF SetChannelConfiguration, NextChannel, GatePoints
  <2> QED
    BY <2>1
<1>11. CASE ClearEmptyChannels
  <2>1. pc' \notin GatePoints
    BY <1>11, SMT DEF ClearEmptyChannels, Throw, NextChannel, GatePoints
  <2> QED
    BY <2>1
<1>12. CASE Initialize
  <2>1. pc' \notin GatePoints
    BY <1>12, SMT DEF Initialize, ClearAndReset, NextChannel, GatePoints
  <2> QED
    BY <2>1
<1>13. CASE WaitForGate
  <2>1. OpenGate /\ UNCHANGED <<kept, vector>> /\ pc = "waitForGate"
    BY <1>13, Zenon DEF WaitForGate
  <2>2. ASSUME NEW c \in kept PROVE GateInMemory(c)'
    <3>1. sequencer[c] /\ SetUp(c) /\ vector[c] # <<>> /\ c \in Channels
      BY <1>0, <2>1, Zenon
         DEF IInv, Sequencers, Found, Counters, KeptChannels, ReadoutPoints
    <3>2. vector[c] \in Seq(Boards) /\ nFEBs[c] \in Nat
      BY <3>1, ChannelAssumption, SMT DEF IInv, TypeOK, SetupTypes
    <3>3. Len(vector[c]) > 0
      BY <3>1, <3>2, SMT
    <3>4. nfebsField[c] = Len(vector[c]) /\ nfebsField[c] > 0
      BY <3>1, <3>2, <3>3, SMT DEF SetUp
    <3>5. /\ Len(memory'[c]) = nfebsField[c] /\ memory'[c] \in Seq(Frame)
          /\ \A k \in 1..nfebsField[c] : memory'[c][k].feb = k /\ memory'[c][k].gate = gate'
      BY <2>1, <3>1, <3>4, GateEffect, Zenon
    <3>6. DOMAIN memory'[c] = 1..nfebsField[c]
      BY <3>5, FrameOf, Zenon
    <3> QED
      BY <2>1, <3>4, <3>5, <3>6, Zenon DEF GateInMemory
  <2> QED
    BY <2>1, <2>2, Zenon
<1>14. CASE WaitForSequencerReadoutCompletion
  <2>1. UNCHANGED <<kept, memory, vector, gate>> /\ pc \in GatePoints
    BY <1>14, SMT DEF WaitForSequencerReadoutCompletion, crocVars, GatePoints
  <2>2. \A c \in kept : GateInMemory(c)' <=> GateInMemory(c)
    BY <2>1, SMT DEF GateInMemory
  <2> QED
    BY <1>0, <2>1, <2>2, Zenon
<1>15. CASE ReadBlock
  <2>1. UNCHANGED <<kept, memory, vector, gate>> /\ pc \in GatePoints
    BY <1>15, SMT DEF ReadBlock, crocVars, GatePoints
  <2>2. \A c \in kept : GateInMemory(c)' <=> GateInMemory(c)
    BY <2>1, SMT DEF GateInMemory
  <2> QED
    BY <1>0, <2>1, <2>2, Zenon
<1>16. CASE ProcessDataIntoFrames
  <2>1. UNCHANGED <<kept, memory, vector, gate>> /\ pc \in GatePoints
    BY <1>16, SMT DEF ProcessDataIntoFrames, crocVars, GatePoints
  <2>2. \A c \in kept : GateInMemory(c)' <=> GateInMemory(c)
    BY <2>1, SMT DEF GateInMemory
  <2> QED
    BY <1>0, <2>1, <2>2, Zenon
<1>17. CASE CleanupHardware
  <2>1. pc' \notin GatePoints
    BY <1>17, SMT DEF CleanupHardware, Throw, NextChannel, GatePoints
  <2> QED
    BY <2>1
<1>18. CASE Dies
  <2>1. pc' \notin GatePoints
    BY <1>18, SMT DEF Dies, Throw, NextChannel, GatePoints
  <2> QED
    BY <2>1
<1>19. CASE Spill
  <2>1. pc' = pc /\ pc \notin GatePoints
    BY <1>19, SMT DEF Spill, daqVars, GatePoints
  <2> QED
    BY <2>1
<1>20. CASE \E c \in Channels : Reply(c)
  <2>1. PICK c \in Channels : Reply(c)
    BY <1>20
  <2>2. UNCHANGED <<pc, kept, vector, gate>>
    BY <2>1, Zenon DEF Reply, daqVars
  <2>3. sending[c] /\ \A d \in Channels : d # c => memory'[d] = memory[d]
    BY <2>1, ReplyEffect, Zenon
  <2>4. ASSUME pc \in GatePoints, NEW d \in kept PROVE GateInMemory(d)'
    <3>1. d # c
      BY <1>0, <2>3, <2>4, Zenon DEF Silent, ReadoutPoints
    <3>2. memory'[d] = memory[d] /\ GateInMemory(d)
      BY <1>0, <2>3, <2>4, <3>1, Zenon
    <3> QED
      BY <2>2, <3>2, SMT DEF GateInMemory
  <2> QED
    BY <2>2, <2>4, Zenon
<1>21. CASE UNCHANGED vars
  <2>1. UNCHANGED <<pc, kept, memory, vector, gate>>
    BY <1>21, SMT DEF vars, daqVars, crocVars
  <2>2. \A c \in kept : GateInMemory(c)' <=> GateInMemory(c)
    BY <2>1, SMT DEF GateInMemory
  <2> QED
    BY <1>0, <2>1, <2>2, Zenon
<1> QED
  BY <1>1, <1>2, <1>3, <1>4, <1>5, <1>6, <1>7, <1>8, <1>9, <1>10, <1>11, <1>12, <1>13,
     <1>14, <1>15, <1>16, <1>17, <1>18, <1>19, <1>20, <1>21 DEF Next, SetupStep,
     ReadoutStep, AllRunsOver

\* No frame is empty, neither in the memories nor in the block.
LEMMA SolidStep ==
  ASSUME IInv, [Next]_vars
  PROVE  SolidFrames'
<1>0. SolidFrames /\ chan \in Channels /\ memory \in [Channels -> Seq(Frame)]
  BY DEF IInv, Splitting, TypeOK, SetupTypes, CrocTypes
<1> USE DEF SolidFrames
<1>1. CASE AddECROC
  <2>1. UNCHANGED <<memory, block>>
    BY <1>1, SMT DEF AddECROC, daqVars, crocVars
  <2> QED
    BY <1>0, <2>1, Zenon
<1>2. CASE ClearAndResetStatusRegisters
  <2>1. memory' = [memory EXCEPT ![chan] = <<>>] /\ block' = block
    BY <1>2, Zenon DEF ClearAndResetStatusRegisters, ClearAndReset
  <2>2. \A c \in Channels : memory'[c] = memory[c] \/ memory'[c] = <<>>
    BY <1>0, <2>1, Zenon
  <2>3. Solid(<<>>)
    BY SMT DEF Solid
  <2> QED
    BY <1>0, <2>1, <2>2, <2>3, Zenon
<1>3. CASE DisableSequencerReadout
  <2>1. UNCHANGED <<memory, block>>
    BY <1>3, SMT DEF DisableSequencerReadout, daqVars, crocVars
  <2> QED
    BY <1>0, <2>1, Zenon
<1>4. CASE SetupNFrontEndBoards
  <2>1. UNCHANGED <<memory, block>>
    BY <1>4, SMT DEF SetupNFrontEndBoards, daqVars, crocVars
  <2> QED
    BY <1>0, <2>1, Zenon
<1>5. CASE ClearAndResetStatusRegister
  <2>1. memory' = [memory EXCEPT ![chan] = <<>>] /\ block' = block
    BY <1>5, Zenon DEF ClearAndResetStatusRegister, ClearAndReset
  <2>2. \A c \in Channels : memory'[c] = memory[c] \/ memory'[c] = <<>>
    BY <1>0, <2>1, Zenon
  <2>3. Solid(<<>>)
    BY SMT DEF Solid
  <2> QED
    BY <1>0, <2>1, <2>2, <2>3, Zenon
<1>6. CASE WriteMessageToMemory
  <2>1. UNCHANGED <<memory, block>>
    BY <1>6, SMT DEF WriteMessageToMemory, daqVars, crocVars
  <2> QED
    BY <1>0, <2>1, Zenon
<1>7. CASE SendMessage
  <2>1. UNCHANGED <<memory, block>>
    BY <1>7, SMT DEF SendMessage, daqVars, crocVars
  <2> QED
    BY <1>0, <2>1, Zenon
<1>8. CASE WaitForMessageReceived
  <2>1. UNCHANGED <<memory, block>>
    BY <1>8, SMT DEF WaitForMessageReceived, daqVars, crocVars
  <2> QED
    BY <1>0, <2>1, Zenon
<1>9. CASE IsAvailable
  <2>1. UNCHANGED <<memory, block>>
    BY <1>9, SMT DEF IsAvailable, daqVars, crocVars
  <2> QED
    BY <1>0, <2>1, Zenon
<1>10. CASE SetChannelConfiguration
  <2>1. UNCHANGED <<memory, block>>
    BY <1>10, SMT DEF SetChannelConfiguration, daqVars, crocVars
  <2> QED
    BY <1>0, <2>1, Zenon
<1>11. CASE ClearEmptyChannels
  <2>1. UNCHANGED <<memory, block>>
    BY <1>11, SMT DEF ClearEmptyChannels, daqVars, crocVars
  <2> QED
    BY <1>0, <2>1, Zenon
<1>12. CASE Initialize
  <2>1. memory' = [memory EXCEPT ![chan] = <<>>] /\ block' = block
    BY <1>12, Zenon DEF Initialize, ClearAndReset
  <2>2. \A c \in Channels : memory'[c] = memory[c] \/ memory'[c] = <<>>
    BY <1>0, <2>1, Zenon
  <2>3. Solid(<<>>)
    BY SMT DEF Solid
  <2> QED
    BY <1>0, <2>1, <2>2, <2>3, Zenon
<1>13. CASE WaitForGate
  <2>1. OpenGate /\ block' = block
    BY <1>13, Zenon DEF WaitForGate
  <2> QED
    BY <1>0, <2>1, GateEffect, Zenon
<1>14. CASE WaitForSequencerReadoutCompletion
  <2>1. UNCHANGED <<memory, block>>
    BY <1>14, SMT DEF WaitForSequencerReadoutCompletion, daqVars, crocVars
  <2> QED
    BY <1>0, <2>1, Zenon
<1>15. CASE ReadBlock
  <2>1. memory' = memory /\ block'.data = memory[chan]
    BY <1>15, SMT DEF ReadBlock, crocVars
  <2> QED
    BY <1>0, <2>1, Zenon
<1>16. CASE ProcessDataIntoFrames
  <2>1. UNCHANGED <<memory, block>>
    BY <1>16, SMT DEF ProcessDataIntoFrames, daqVars, crocVars
  <2> QED
    BY <1>0, <2>1, Zenon
<1>17. CASE CleanupHardware
  <2>1. UNCHANGED <<memory, block>>
    BY <1>17, SMT DEF CleanupHardware, daqVars, crocVars
  <2> QED
    BY <1>0, <2>1, Zenon
<1>18. CASE Dies
  <2>1. UNCHANGED <<memory, block>>
    BY <1>18, SMT DEF Dies, daqVars, crocVars
  <2> QED
    BY <1>0, <2>1, Zenon
<1>19. CASE Spill
  <2>1. OpenGate /\ block' = block
    BY <1>19, Zenon DEF Spill, daqVars
  <2> QED
    BY <1>0, <2>1, GateEffect, Zenon
<1>20. CASE \E c \in Channels : Reply(c)
  <2>1. PICK c \in Channels : Reply(c)
    BY <1>20
  <2>2. block' = block
    BY <2>1, Zenon DEF Reply, daqVars
  <2>3. Solid(memory'[c]) /\ \A d \in Channels : d # c => memory'[d] = memory[d]
    BY <2>1, ReplyEffect, Zenon
  <2> QED
    BY <1>0, <2>2, <2>3, Zenon
<1>21. CASE UNCHANGED vars
  <2>1. UNCHANGED <<memory, block>>
    BY <1>21, SMT DEF vars, daqVars, crocVars
  <2> QED
    BY <1>0, <2>1, Zenon
<1> QED
  BY <1>1, <1>2, <1>3, <1>4, <1>5, <1>6, <1>7, <1>8, <1>9, <1>10, <1>11, <1>12, <1>13,
     <1>14, <1>15, <1>16, <1>17, <1>18, <1>19, <1>20, <1>21 DEF Next, SetupStep,
     ReadoutStep, AllRunsOver

\* One more frame split off: the frame that starts at the index is the next
\* one, and no length is cut where the whole block fits.
LEMMA SplitOne ==
  ASSUME NEW data \in Seq(Frame), Solid(data), Offset(data, Len(data)) < UShort,
         NEW j \in 0..Len(data), NEW k \in 1..Len(data), Offset(data, k - 1) = Offset(data, j)
  PROVE  /\ k = j + 1
         /\ Append(SubSeq(data, 1, j), data[k]) = SubSeq(data, 1, k)
         /\ (Offset(data, j) + data[k].length) % UShort = Offset(data, k)
<1>0. Len(data) \in Nat /\ j \in Nat /\ k \in Nat /\ k - 1 \in 0..Len(data) /\ k \in 0..Len(data)
  BY FrameOf, SMT
<1>1. k - 1 = j
  <2>1. ~(k - 1 < j)
    <3>1. SUFFICES ASSUME k - 1 < j PROVE FALSE
      OBVIOUS
    <3>2. Offset(data, k - 1) < Offset(data, j)
      BY <1>0, <3>1, OffsetIncreases
    <3> QED
      BY <3>2, OffsetsAreNumbers, SMT
  <2>2. ~(j < k - 1)
    <3>1. SUFFICES ASSUME j < k - 1 PROVE FALSE
      OBVIOUS
    <3>2. Offset(data, j) < Offset(data, k - 1)
      BY <1>0, <3>1, OffsetIncreases
    <3> QED
      BY <3>2, OffsetsAreNumbers, SMT
  <2> QED
    BY <1>0, <2>1, <2>2, SMT
<1>2. k = j + 1
  BY <1>0, <1>1, SMT
<1>3. Append(SubSeq(data, 1, j), data[k]) = SubSeq(data, 1, k)
  BY <1>0, <1>2, SMT
<1>4. Offset(data, k) = Offset(data, j) + data[k].length
  BY <1>0, <1>1, OffsetDef, Zenon
<1>5. Offset(data, k) \in Nat /\ Offset(data, Len(data)) \in Nat
  BY <1>0, OffsetsAreNumbers, SMT
<1>6. k = Len(data) \/ Offset(data, k) < Offset(data, Len(data))
  <2>1. CASE k < Len(data)
    <3>1. Len(data) \in 0..Len(data)
      BY <1>0, SMT
    <3> QED
      BY <1>0, <2>1, <3>1, OffsetIncreases
  <2> QED
    BY <1>0, <2>1, SMT
<1>7. Offset(data, k) < UShort
  BY <1>5, <1>6, ChannelAssumption, SMT
<1>8. Offset(data, k) % UShort = Offset(data, k)
  BY <1>5, <1>7, ChannelAssumption, Remainder
<1> QED
  BY <1>2, <1>3, <1>4, <1>8, Zenon

\* ProcessDataIntoFrames takes the frames of the block in their order.
LEMMA SplitStep ==
  ASSUME IInv, [Next]_vars
  PROVE  SplitSoFar'
<1>0. SplitSoFar
  BY DEF IInv, Splitting
<1> USE DEF SplitSoFar
<1>1. CASE AddECROC
  <2>1. pc' # "process"
    BY <1>1, SMT DEF AddECROC, NextChannel
  <2> QED
    BY <2>1
<1>2. CASE ClearAndResetStatusRegisters
  <2>1. pc' # "process"
    BY <1>2, SMT DEF ClearAndResetStatusRegisters, ClearAndReset, NextChannel
  <2> QED
    BY <2>1
<1>3. CASE DisableSequencerReadout
  <2>1. pc' # "process"
    BY <1>3, SMT DEF DisableSequencerReadout, NextChannel
  <2> QED
    BY <2>1
<1>4. CASE SetupNFrontEndBoards
  <2>1. pc' # "process"
    BY <1>4, SMT DEF SetupNFrontEndBoards, NextChannel
  <2> QED
    BY <2>1
<1>5. CASE ClearAndResetStatusRegister
  <2>1. pc' # "process"
    BY <1>5, SMT DEF ClearAndResetStatusRegister, ClearAndReset, NextChannel
  <2> QED
    BY <2>1
<1>6. CASE WriteMessageToMemory
  <2>1. pc' # "process"
    BY <1>6, SMT DEF WriteMessageToMemory, NextChannel
  <2> QED
    BY <2>1
<1>7. CASE SendMessage
  <2>1. pc' # "process"
    BY <1>7, SMT DEF SendMessage, NextChannel
  <2> QED
    BY <2>1
<1>8. CASE WaitForMessageReceived
  <2>1. pc' # "process"
    BY <1>8, SMT DEF WaitForMessageReceived, Throw, NextChannel
  <2> QED
    BY <2>1
<1>9. CASE IsAvailable
  <2>1. pc' # "process"
    BY <1>9, SMT DEF IsAvailable, Throw, NextChannel
  <2> QED
    BY <2>1
<1>10. CASE SetChannelConfiguration
  <2>1. pc' # "process"
    BY <1>10, SMT DEF SetChannelConfiguration, NextChannel
  <2> QED
    BY <2>1
<1>11. CASE ClearEmptyChannels
  <2>1. pc' # "process"
    BY <1>11, SMT DEF ClearEmptyChannels, Throw, NextChannel
  <2> QED
    BY <2>1
<1>12. CASE Initialize
  <2>1. pc' # "process"
    BY <1>12, SMT DEF Initialize, ClearAndReset, NextChannel
  <2> QED
    BY <2>1
<1>13. CASE WaitForGate
  <2>1. pc' # "process"
    BY <1>13, SMT DEF WaitForGate, OpenGate, NextChannel
  <2> QED
    BY <2>1
<1>14. CASE WaitForSequencerReadoutCompletion
  <2>1. pc' # "process"
    BY <1>14, SMT DEF WaitForSequencerReadoutCompletion, Throw, NextChannel
  <2> QED
    BY <2>1
<1>15. CASE ReadBlock
  <2> DEFINE data == memory[chan]
  <2>1. data \in Seq(Frame)
    BY DEF IInv, TypeOK, SetupTypes, CrocTypes
  <2>2. /\ block' = [data |-> data, dataLength |-> Offset(data, Len(data)) % UShort]
        /\ index' = 0 /\ frames' = <<>>
    BY <1>15, Zenon DEF ReadBlock
  <2> HIDE DEF data
  <2>3. block'.data = data /\ block'.dataLength = Offset(data, Len(data)) % UShort
    BY <2>2
  <2>4. Offset(data, Len(data)) \in Nat /\ 0 \in 0..Len(data) /\ Offset(data, 0) = 0
    <3>1. Len(data) \in Nat
      BY <2>1, FrameOf
    <3>2. Len(data) \in 0..Len(data) /\ 0 \in 0..Len(data)
      BY <3>1, SMT
    <3> QED
      BY <2>1, <3>2, OffsetDef
  <2>5. Offset(data, Len(data)) < UShort =>
          Offset(data, Len(data)) % UShort = Offset(data, Len(data))
    BY <2>4, ChannelAssumption, Remainder
  <2>6. SubSeq(data, 1, 0) = <<>>
    BY <2>1, SMT
  <2> QED
    BY <2>2, <2>3, <2>4, <2>5, <2>6, Zenon
<1>16. CASE ProcessDataIntoFrames
  <2>1. block' = block /\ pc = "process"
    BY <1>16, Zenon DEF ProcessDataIntoFrames
  <2>2. CASE pc' \in {"readBlock", "waitForGate"}
    BY <2>2
  <2>3. CASE \E k \in DOMAIN block.data :
               /\ Offset(block.data, k - 1) = index
               /\ frames' = Append(frames, block.data[k])
               /\ index' = (index + block.data[k].length) % UShort
    <3>1. SUFFICES ASSUME Offset(block.data, Len(block.data)) < UShort
                   PROVE  /\ block.dataLength = Offset(block.data, Len(block.data))
                          /\ \E j \in 0..Len(block.data) :
                               /\ frames' = SubSeq(block.data, 1, j)
                               /\ index' = Offset(block.data, j)
      BY <2>1, Zenon
    <3>2. block.data \in Seq(Frame) /\ Solid(block.data)
      BY DEF IInv, TypeOK, ReadoutTypes, Splitting, SolidFrames
    <3>3. PICK k \in 1..Len(block.data) :
               /\ Offset(block.data, k - 1) = index
               /\ frames' = Append(frames, block.data[k])
               /\ index' = (index + block.data[k].length) % UShort
      BY <2>3, <3>2, FrameOf, Zenon
    <3>4. PICK j \in 0..Len(block.data) :
                 frames = SubSeq(block.data, 1, j) /\ index = Offset(block.data, j)
      BY <1>0, <2>1, <3>1, Zenon
    <3>5. /\ Append(SubSeq(block.data, 1, j), block.data[k]) = SubSeq(block.data, 1, k)
          /\ (Offset(block.data, j) + block.data[k].length) % UShort = Offset(block.data, k)
      <4>1. Offset(block.data, k - 1) = Offset(block.data, j)
        BY <3>3, <3>4, Zenon
      <4> QED
        BY <3>1, <3>2, <4>1, SplitOne
    <3>6. k \in 0..Len(block.data)
      BY SMT
    <3>7. block.dataLength = Offset(block.data, Len(block.data))
      BY <1>0, <2>1, <3>1, Zenon
    <3> QED
      BY <3>3, <3>4, <3>5, <3>6, <3>7, Zenon
  <2> QED
    BY <1>16, <2>2, <2>3, DissolveMoves, Zenon DEF IInv
<1>17. CASE CleanupHardware
  <2>1. pc' # "process"
    BY <1>17, SMT DEF CleanupHardware, Throw, NextChannel
  <2> QED
    BY <2>1
<1>18. CASE Dies
  <2>1. pc' # "process"
    BY <1>18, SMT DEF Dies, Throw, NextChannel
  <2> QED
    BY <2>1
<1>19. CASE Spill
  <2>1. UNCHANGED <<pc, block, frames, index>>
    BY <1>19, SMT DEF Spill, daqVars
  <2> QED
    BY <1>0, <2>1, Zenon
<1>20. CASE \E c \in Channels : Reply(c)
  <2>1. UNCHANGED <<pc, block, frames, index>>
    BY <1>20, SMT DEF Reply, daqVars
  <2> QED
    BY <1>0, <2>1, Zenon
<1>21. CASE UNCHANGED vars
  <2>1. UNCHANGED <<pc, block, frames, index>>
    BY <1>21, SMT DEF vars, daqVars
  <2> QED
    BY <1>0, <2>1, Zenon
<1> QED
  BY <1>1, <1>2, <1>3, <1>4, <1>5, <1>6, <1>7, <1>8, <1>9, <1>10, <1>11, <1>12, <1>13,
     <1>14, <1>15, <1>16, <1>17, <1>18, <1>19, <1>20, <1>21 DEF Next, SetupStep,
     ReadoutStep, AllRunsOver

-----------------------------------------------------------------------------
(* The theorems.                                                           *)

\* The registers an earlier process left satisfy the invariant.
LEMMA InitInvariant == Init => IInv
<1> SUFFICES ASSUME Init PROVE IInv
  OBVIOUS
<1>0. /\ NChannels \in Nat \ {0} /\ MaxFEBs \in Nat \ {0} /\ UShort \in Nat \ {0}
      /\ MaxRuns \in Nat /\ MaxGates \in Nat
  BY ChannelAssumption
<1>1. SetupTypes
  <2>1. config \in BOOLEAN /\ pc \in Points
    BY Zenon DEF Init, Points
  <2>2. 1 \in Channels /\ 0 \in 0..MaxFEBs /\ 0 \in 0..(MaxFEBs + 1) /\ 0 \in 0..MaxRuns
    BY <1>0, SMT DEF Channels
  <2>3. \A T : <<>> \in Seq(T)
    BY SMT
  <2>4. vector \in [Channels -> Seq(Boards)] /\ answers \in [Channels -> Seq(Frame)]
    BY <2>3, Zenon DEF Init
  <2> QED
    BY <2>1, <2>2, <2>4, SMT DEF Init, SetupTypes
<1>2. ReadoutTypes
  BY <1>0, SMT DEF Init, ReadoutTypes
<1>3. CrocTypes
  <2>1. sequencer \in [Channels -> BOOLEAN] /\ sending \in [Channels -> BOOLEAN]
    BY Zenon DEF Init
  <2> QED
    BY <1>0, <2>1, SMT DEF Init, CrocTypes
<1>4. StatusType
  BY SMT DEF Init, StatusType
<1>5. Counters
  BY SMT DEF Init, Counters, BoardLoop, Addressed, KeptChannels, ExchangePoints,
             ReadoutPoints, GatePoints
<1>6. Sequencers /\ Exchange
  BY Zenon DEF Init, Sequencers, Exchange, SearchPoints, ExchangePoints, ReadoutPoints,
               GatePoints
<1>7. Found
  <2>1. \A c \in Channels : DOMAIN vector[c] = {}
    BY SMT DEF Init
  <2>2. AvailableMeansPresent
    BY <2>1, Zenon DEF AvailableMeansPresent
  <2> QED
    BY <2>2, Zenon DEF Init, Found, SearchPoints, ExchangePoints, ReadoutPoints, GatePoints
<1>8. Blocks
  <2>1. DOMAIN readouts = {}
    BY SMT DEF Init
  <2>2. BlocksMatchBoards
    BY <2>1, Zenon DEF BlocksMatchBoards
  <2> QED
    BY <2>2, Zenon DEF Init, Blocks, NoneYet, Silent, Held, SearchPoints, ExchangePoints,
                       ReadoutPoints, GatePoints
<1>9. Splitting
  <2>1. Solid(<<>>)
    BY SMT DEF Solid
  <2>2. (\A c \in Channels : memory[c] = <<>>) /\ block.data = <<>> /\ pc = "off"
    BY SMT DEF Init
  <2>3. SolidFrames
    BY <2>1, <2>2, Zenon DEF SolidFrames
  <2>4. SplitSoFar
    BY <2>2, Zenon DEF SplitSoFar
  <2> QED
    BY <2>3, <2>4 DEF Splitting
<1> QED
  BY <1>1, <1>2, <1>3, <1>4, <1>5, <1>6, <1>7, <1>8, <1>9 DEF IInv, TypeOK

\* Every step of the process, the boards and the gates keeps it.
LEMMA NextInvariant == IInv /\ [Next]_vars => IInv'
<1> SUFFICES ASSUME IInv, [Next]_vars PROVE IInv'
  OBVIOUS
<1>1. TypeOK' /\ StatusType'
  BY SetupTypesStep, ReadoutTypesStep, CrocTypesStep DEF TypeOK
<1>2. Counters'
  BY BoardLoopStep, AddressedStep, KeptChannelsStep DEF Counters
<1>3. Sequencers' /\ Exchange' /\ Found'
  BY SequencersStep, ExchangeStep, FoundStep
<1>4. Blocks'
  BY BlocksStep, SilentStep, HeldStep DEF Blocks
<1>5. Splitting'
  BY SolidStep, SplitStep DEF Splitting
<1> QED
  BY <1>1, <1>2, <1>3, <1>4, <1>5 DEF IInv

\* IInv is an inductive invariant of the channels of a CROC-E.
THEOREM Invariance == Spec => []IInv
  BY InitInvariant, NextInvariant, PTL DEF Spec

\* Every variable keeps its type; the loops over channels and boards stay
\* within them for every number of either.
THEOREM TypeCorrect == Spec => []TypeOK
<1>1. IInv => TypeOK
  BY DEF IInv
<1> QED
  BY <1>1, Invariance, PTL

\* A board that SetupNFrontEndBoards accepts is on the chain under that
\* address and has the firmware its channel goes by, although isAvailable does
\* not look at the address in the answer: the answer can be to no other
\* question, and the sequencers of an earlier process cannot fake it.
THEOREM BoardsPresent == Spec => []AvailableMeansPresent
<1>1. IInv => AvailableMeansPresent
  BY DEF IInv, Found
<1> QED
  BY <1>1, Invariance, PTL

\* While gates are read the sequencers run in exactly the channels with
\* boards, set for the boards found there and for their firmware, whatever
\* earlier processes left in the configuration registers.
THEOREM SequencersMatch == Spec => []SequencersMatchBoards
<1>1. IInv => SequencersMatchBoards
  <2>1. SUFFICES ASSUME IInv, pc \in ReadoutPoints, NEW c \in Channels
                 PROVE  /\ sequencer[c] <=> vector[c] # <<>>
                        /\ sequencer[c] => /\ nfebsField[c] = Len(vector[c])
                                           /\ headerFirmware[c] = chain[c][1]
    BY Zenon DEF SequencersMatchBoards, ReadoutPoints, GatePoints
  <2>2. sequencer[c] <=> vector[c] # <<>>
    BY <2>1, Zenon DEF IInv, Sequencers, Counters, KeptChannels
  <2>3. SetUp(c)
    BY <2>1, Zenon DEF IInv, Found
  <2>4. vector[c] # <<>> => nFEBs[c] > 0
    <3>1. vector[c] \in Seq(Boards)
      BY <2>1 DEF IInv, TypeOK, SetupTypes
    <3> QED
      BY <2>3, <3>1, SMT DEF SetUp
  <2> QED
    BY <2>2, <2>3, <2>4, Zenon DEF SetUp
<1> QED
  BY <1>1, Invariance, PTL

\* A block that is read holds one frame of each board found on its channel, in
\* the order of the addresses, and all of the gate it is read for.
THEOREM BlocksMatch == Spec => []BlocksMatchBoards
<1>1. IInv => BlocksMatchBoards
  BY DEF IInv, Blocks
<1> QED
  BY <1>1, Invariance, PTL

\* ProcessDataIntoFrames gives back the frames of every block whose length
\* fits its 16 bits, however many frames it has and however long they are.
THEOREM FramesCorrect == Spec => []FramesRecovered
<1>1. IInv => FramesRecovered
  <2>1. SUFFICES ASSUME IInv, pc = "process", index >= block.dataLength,
                        Offset(block.data, Len(block.data)) < UShort
                 PROVE  frames = block.data
    BY Zenon DEF FramesRecovered
  <2> DEFINE data == block.data
  <2>2. data \in Seq(Frame) /\ Solid(data)
    BY <2>1 DEF IInv, TypeOK, ReadoutTypes, Splitting, SolidFrames
  <2>3. /\ index >= Offset(data, Len(data))
        /\ \E j \in 0..Len(data) : frames = SubSeq(data, 1, j) /\ index = Offset(data, j)
    BY <2>1, Zenon DEF IInv, Splitting, SplitSoFar
  <2> HIDE DEF data
  <2>4. PICK j \in 0..Len(data) : frames = SubSeq(data, 1, j) /\ index = Offset(data, j)
    BY <2>3
  <2>5. Len(data) \in Nat /\ Len(data) \in 0..Len(data)
    BY <2>2, FrameOf, SMT
  <2>6. j < Len(data) => Offset(data, j) < Offset(data, Len(data))
    BY <2>2, <2>5, OffsetIncreases
  <2>7. Offset(data, j) \in Nat /\ Offset(data, Len(data)) \in Nat
    BY <2>2, <2>5, OffsetDef
  <2>8. ~(j < Len(data))
    BY <2>3, <2>4, <2>6, <2>7, SMT
  <2>9. j = Len(data)
    BY <2>5, <2>8, SMT
  <2>10. SubSeq(data, 1, Len(data)) = data
    BY <2>2, <2>5, SMT
  <2> QED
    BY <2>4, <2>9, <2>10, Zenon DEF data
<1> QED
  BY <1>1, Invariance, PTL

=============================================================================
