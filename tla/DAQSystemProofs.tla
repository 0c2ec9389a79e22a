-------------------------- MODULE DAQSystemProofs --------------------------
(***************************************************************************)
(* Proofs about DAQSystem, for every number of events, gates, channels and *)
(* runs and every combination of faults.  The inductive invariant has one  *)
(* conjunct per concern:                                                   *)
(*                                                                         *)
(*   Control      where the two processes can be, together with the few    *)
(*                values that depend on nothing else;                      *)
(*   Pool         PoolConserved and who holds events;                      *)
(*   Stream       the blocks put into ET are those in the file, in the     *)
(*                event builder's hand and in the station's queue;         *)
(*   OneSentinel  a sentinel put into ET is the last block put into ET.    *)
(***************************************************************************)
EXTENDS DAQSystem, TLAPS

\* minervadaq is at point p, or will be there after et_wait_for_alive.
At(p) == pc = p \/ (pc = "waitForAlive" /\ resume = p)

\* Where the event builder is attached to CHICAGO_UNION.
AttachedPoints == {"loop", "getAsync", "getTimed", "write", "putBack", "detach"}

\* Where minervadaq may be once it has sent the sentinel.
FinalPoints == {"down", "closeDownET", "cleanupHardware", "catch", "writeRunData", "exited"}

Control ==
  /\ pc = "waitForAlive" =>
       resume \in {"beginGate", "readChannel", "finishGate", "closeDownET", "writeRunData"}
  /\ pc \in {"waitForIRQ", "waitForSequencer"} => channel = 1
  /\ At("readChannel") => channel <= NChannels
  /\ sentSentinel => \E p \in FinalPoints : At(p)
  /\ pc = "down" => sent = <<>> /\ declared = <<>>
  /\ WaitForReady /\ ebPc \in {"off", "starting"} => pc = "down"

Pool ==
  /\ PoolConserved
  /\ Len(hand) = IF ebPc \in {"write", "putBack"} THEN 1 ELSE 0
  /\ attached <=> ebPc \in AttachedPoints
  /\ ~attached => station = <<>> /\ kept = 0

\* Blocks taken from the station: those in the file, and the one to be written.
Taken == Len(raw) + (IF ebPc = "write" THEN 1 ELSE 0)

Stream ==
  /\ Len(raw) <= Len(sent)
  /\ \A i \in 1..Len(raw) : raw[i] = sent[i]
  /\ ebPc \in {"off", "starting"} => raw = <<>>
  /\ attached =>
       /\ Len(sent) = Taken + Len(station)
       /\ ebPc = "write" => hand[1] = sent[Len(raw) + 1]
       /\ \A i \in 1..Len(station) : station[i] = sent[Taken + i]

OneSentinel ==
  \A i \in 1..Len(sent) :
    sent[i].bank = "Sentinel" => sentSentinel /\ i = Len(sent)

IInv == TypeOK /\ Control /\ Pool /\ OneSentinel /\ (WaitForReady => Stream)

\* The global gate in use against the one in the file, at each point of a run.
Numbering ==
  ~fileFault =>
    /\ \A i, j \in 1..Len(headers) : i < j => headers[i] < headers[j]
    /\ \A i \in 1..Len(headers) : headers[i] <= ggFile
    /\ \A p \in {"setUpET", "initializeHardware", "runHeader", "beginGate",
                 "waitForIRQ", "waitForSequencer"} : At(p) => globalGate = ggFile
    /\ \A p \in {"readChannel", "finishGate"} : At(p) => globalGate = ggFile + 1
    /\ pc \in {"writeMetadata", "daqHeader"} =>
         /\ globalGate = ggFile
         /\ \A i \in 1..Len(headers) : headers[i] < ggFile

\* What was declared last, at each point of a run.
Last == declared[Len(declared)]

EndsGate(b, g) == (b.bank = "Run" /\ g = 0) \/ (b.bank = "DAQ" /\ b.gate = g)

Order ==
  /\ StreamInOrder
  /\ \A p \in {"setUpET", "initializeHardware", "runHeader"} : At(p) => declared = <<>> /\ gate = 0
  /\ \A p \in {"beginGate", "waitForIRQ", "waitForSequencer"} :
       At(p) => declared # <<>> /\ EndsGate(Last, gate)
  /\ At("readChannel") =>
       /\ declared # <<>>
       /\ gate > 0
       /\ IF channel = 1 THEN EndsGate(Last, gate - 1)
          ELSE Last.bank = "Data" /\ Last.gate = gate /\ Last.ch = channel - 1
  /\ \A p \in {"finishGate", "writeMetadata", "daqHeader"} :
       At(p) => declared # <<>> /\ Last.bank = "Data" /\ Last.gate = gate /\ Last.ch = NChannels
  /\ declared # <<>> /\ Last.bank = "Sentinel" => sentSentinel

\* With a working ET every declared block is put into ET.
NothingRefused == etAlive /\ sent = declared /\ pc # "waitForAlive"

-----------------------------------------------------------------------------
(* Facts about the operators.                                              *)

\* A header built from well-typed counters is a block of its bank.
LEMMA HeaderBlock ==
  ASSUME TypeOK, NEW bank \in Banks
  PROVE  /\ Header(bank) \in Block
         /\ Header(bank).bank = bank /\ Header(bank).gate = gate
  BY DEF TypeOK, FlagsOK, ValuesOK, Header, Block, Banks

\* Whatever length the DPM pointer gives, CreateEventHandler builds a data
\* block of the current gate and channel.
LEMMA DataBlock ==
  ASSUME TypeOK, NEW e \in DataBlocks
  PROVE  /\ e \in Block
         /\ e.bank = "Data" /\ e.gate = gate /\ e.ch = channel
<1>1. PICK len \in BlockLengths : \E lead \in LeadBanks(DataLength(len)) :
        e = [bank |-> "Data", gate |-> gate, gg |-> globalGate, ch |-> channel,
             len |-> len, dataLength |-> DataLength(len), lead |-> lead]
  BY DEF DataBlocks
<1>2. PICK lead \in LeadBanks(DataLength(len)) :
        e = [bank |-> "Data", gate |-> gate, gg |-> globalGate, ch |-> channel,
             len |-> len, dataLength |-> DataLength(len), lead |-> lead]
  BY <1>1
<1>3. len \in Nat /\ DataLength(len) \in Nat
  BY DAQAssumption DEF DataLength
<1>4. lead \in Banks
  BY <1>2 DEF LeadBanks, Banks
<1> QED
  BY <1>2, <1>3, <1>4, DAQAssumption DEF TypeOK, FlagsOK, ValuesOK, Block, Banks

\* The first digit of a positive number has a weight, and larger numbers do
\* not have smaller weights.
LEMMA LeadWeightMonotone ==
  ASSUME NEW m \in Nat, NEW n \in Nat, m <= n
  PROVE  /\ LeadWeight(m) \in Tens
         /\ LeadWeight(m) <= LeadWeight(n)
<1> DEFINE Leads(k, t) == t <= k /\ \A u \in Tens : u <= k => u <= t
<1>1. ASSUME NEW k \in Nat \ {0}
      PROVE  LeadWeight(k) \in Tens /\ Leads(k, LeadWeight(k))
  <2>1. \E t \in Tens : Leads(k, t)
    BY DEF Tens
  <2>2. LeadWeight(k) = CHOOSE t \in Tens : Leads(k, t)
    BY DEF LeadWeight
  <2> QED
    BY <2>1, <2>2
<1>2. LeadWeight(0) = 1
  BY DEF LeadWeight
<1> QED
  BY <1>1, <1>2 DEF Tens

\* Writing a number into the global gate file leaves a number in it, and leaves
\* exactly the one written if it is not smaller than the old one.
LEMMA OverwriteNumber ==
  ASSUME NEW old \in Nat, NEW new \in Nat
  PROVE  /\ Overwrite(old, new) \in Nat
         /\ old <= new => Overwrite(old, new) = new
<1>1. LeadWeight(old) \in Tens /\ LeadWeight(new) \in Tens
  BY LeadWeightMonotone
<1>2. old <= new => LeadWeight(old) <= LeadWeight(new)
  BY LeadWeightMonotone
<1>3. CASE LeadWeight(old) <= LeadWeight(new)
  BY <1>3 DEF Overwrite
<1>4. CASE ~(LeadWeight(old) <= LeadWeight(new))
  <2> DEFINE w == LeadWeight(old) \div LeadWeight(new)
  <2>1. w \in Nat \ {0}
    BY <1>1, <1>4 DEF Tens
  <2>2. Overwrite(old, new) = new * w + (old % w)
    BY <1>4 DEF Overwrite
  <2> HIDE DEF w
  <2>3. new * w \in Nat /\ old % w \in Nat
    BY <2>1
  <2> QED
    BY <1>2, <1>4, <2>2, <2>3
<1> QED
  BY <1>3, <1>4

-----------------------------------------------------------------------------
(* What DeclareDataBlock does.                                             *)

\* The outcomes of Declare in one statement: the block is recorded as declared;
\* it is put, and then queued if the event builder is attached, or it is
\* dropped; no event leaves or enters the pool unaccounted for; control goes to
\* next, perhaps after a wait.
Declares(e, next) ==
  /\ declared' = Append(declared, e) /\ declared' \in Seq(Block)
  /\ \/ pc' = next /\ resume' = resume
     \/ pc' = "waitForAlive" /\ resume' = next
  /\ \/ sent' = sent /\ station' = station
     \/ /\ sent' = Append(sent, e)
        /\ station' = IF attached THEN Append(station, e) ELSE station
  /\ sent' \in Seq(Block) /\ station' \in Seq(Block)
  /\ attached' = attached /\ kept' = kept
  /\ etAlive' \in BOOLEAN
  /\ \/ etFree' = etFree /\ held' = held /\ station' = station
     \/ etFree > 0 /\ etFree' = etFree - 1 /\ held' = held /\ station' = Append(station, e)
     \/ etFree > 0 /\ etFree' = etFree - 1 /\ held' = held + 1 /\ station' = station
  /\ etAlive /\ "ET" \notin Faults =>
       etAlive' /\ sent' = Append(sent, e) /\ pc' = next

\* What a call of Declare does, in the terms of Declares.
LEMMA DeclareEffect ==
  ASSUME TypeOK, NEW e \in Block, NEW next, Declare(e, next)
  PROVE  Declares(e, next)
<1>0. /\ station \in Seq(Block) /\ sent \in Seq(Block) /\ declared \in Seq(Block)
      /\ etFree \in Nat /\ held \in Nat
      /\ attached \in BOOLEAN /\ etAlive \in BOOLEAN
  BY NEventsAssumption DEF TypeOK, FlagsOK, ValuesOK
<1>1. declared' = Append(declared, e) /\ declared' \in Seq(Block)
  BY <1>0 DEF Declare
<1> USE DEF Declares
<1>2. CASE etAlive /\ ETPut(e) /\ sent' = Append(sent, e) /\ UNCHANGED attached
             /\ \/ pc' = next /\ UNCHANGED <<resume, etAlive>>
                \/ "ET" \in Faults /\ etAlive' = FALSE /\ pc' = "waitForAlive" /\ resume' = next
  <2>1. /\ station' = IF attached THEN Append(station, e) ELSE station
        /\ etFree' = IF attached THEN etFree - 1 ELSE etFree
        /\ etFree > 0
        /\ held' = held /\ kept' = kept
    BY <1>2 DEF ETPut
  <2>2. /\ station' \in Seq(Block) /\ sent' \in Seq(Block)
    BY <1>0, <1>2, <2>1
  <2>3. etAlive' \in BOOLEAN /\ (etAlive /\ "ET" \notin Faults => etAlive' /\ pc' = next)
    BY <1>0, <1>2, Zenon
  <2> QED
    BY <1>1, <1>2, <2>1, <2>2, <2>3
<1>3. CASE (~etAlive \/ "ET" \in Faults) /\ pc' = next /\ UNCHANGED <<resume, sent, etVars>>
  BY <1>0, <1>1, <1>3 DEF etVars
<1>4. CASE "ET" \in Faults /\ etAlive /\ ETPutFails /\ pc' = next
             /\ UNCHANGED <<resume, sent, etAlive, attached>>
  BY <1>0, <1>1, <1>4 DEF ETPutFails
<1> QED
  BY <1>2, <1>3, <1>4 DEF Declare

\* The five actions that declare a block.
LEMMA DeclareActions ==
  ASSUME IInv
  PROVE  /\ DeclareRunHeaderToET =>
              \/ Throw /\ UNCHANGED <<resume, declared, sent, etVars>>
              \/ Declares(Header("Run"), "beginGate")
         /\ ReadChannel =>
              \/ Throw /\ UNCHANGED <<resume, channel, declared, sent, etVars>>
              \/ /\ channel' = channel + 1
                 /\ \E e \in DataBlocks :
                      Declares(e, IF MoveToNextChannel THEN "readChannel" ELSE "finishGate")
         /\ DeclareDAQHeaderToET => Declares(Header("DAQ"), "beginGate")
         /\ SendSentinel => Declares(Header("Sentinel"), "closeDownET")
         /\ CatchException =>
              \/ sentSentinel /\ pc' = "writeRunData" /\ UNCHANGED <<resume, declared, sent, etVars>>
              \/ ~sentSentinel /\ Declares(Header("Sentinel"), "writeRunData")
<1>1. TypeOK
  BY DEF IInv
<1>2. \A bank \in Banks : Header(bank) \in Block
  BY <1>1, HeaderBlock
<1>3. "Run" \in Banks /\ "DAQ" \in Banks /\ "Sentinel" \in Banks
  BY DEF Banks
<1>4. \A e \in DataBlocks : e \in Block
  BY <1>1, DataBlock
<1>5. \A e \in Block : \A next : Declare(e, next) => Declares(e, next)
  BY <1>1, DeclareEffect
<1>6. ReadChannel =>
        \/ Throw /\ UNCHANGED <<resume, channel, declared, sent, etVars>>
        \/ /\ channel' = channel + 1
           /\ \E e \in DataBlocks :
                Declares(e, IF MoveToNextChannel THEN "readChannel" ELSE "finishGate")
  BY <1>4, <1>5, Zenon DEF ReadChannel
<1>7. CatchException =>
        \/ sentSentinel /\ pc' = "writeRunData" /\ UNCHANGED <<resume, declared, sent, etVars>>
        \/ ~sentSentinel /\ Declares(Header("Sentinel"), "writeRunData")
  BY <1>2, <1>3, <1>5, Zenon DEF CatchException
<1>8. DeclareRunHeaderToET =>
        \/ Throw /\ UNCHANGED <<resume, declared, sent, etVars>>
        \/ Declares(Header("Run"), "beginGate")
  BY <1>2, <1>3, <1>5, Zenon DEF DeclareRunHeaderToET
<1> QED
  BY <1>2, <1>3, <1>5, <1>6, <1>7, <1>8, Zenon DEF DeclareDAQHeaderToET, SendSentinel

-----------------------------------------------------------------------------
(* Type correctness is preserved.                                          *)

\* Every step leaves the flags Boolean.
LEMMA FlagsStep ==
  ASSUME IInv, [Next]_vars
  PROVE  FlagsOK'
<1> USE DEF IInv, TypeOK, FlagsOK, ebVars, etVars, recorderVars, dbVars, histVars,
        mainVars, daqVars
<1>1. CASE StartRun
  BY <1>1, Zenon DEF StartRun, StartEB
<1>2. CASE StartDAQ(attached) /\ UNCHANGED <<etVars, ebVars>>
  BY <1>2, Zenon DEF StartDAQ
<1>3. CASE QuitSignal /\ UNCHANGED ebVars
  BY <1>3, Zenon DEF QuitSignal
<1>4. CASE CrashDAQ /\ UNCHANGED ebVars
  BY <1>4, Zenon DEF CrashDAQ, ETReleaseProducer
<1>5. CASE EBSignal /\ UNCHANGED daqVars
  BY <1>5, Zenon DEF EBSignal
<1>6. CASE EBCrash /\ UNCHANGED daqVars
  BY <1>6, Zenon DEF EBCrash, ETDetach
<1>7. CASE ETStall
  BY <1>7, Zenon DEF ETStall
<1>8. CASE ETResume
  BY <1>8, Zenon DEF ETResume
<1>9. CASE EtWaitForAlive /\ UNCHANGED ebVars
  BY <1>9, Zenon DEF EtWaitForAlive
<1>10. CASE SetUpET /\ UNCHANGED ebVars
  BY <1>10, Zenon DEF SetUpET
<1>11. CASE InitializeHardware /\ UNCHANGED ebVars
  BY <1>11, Zenon DEF InitializeHardware
<1>12. CASE BeginNextGate /\ UNCHANGED ebVars
  BY <1>12, Zenon DEF BeginNextGate
<1>13. CASE WaitForIRQ /\ UNCHANGED ebVars
  BY <1>13, Zenon DEF WaitForIRQ
<1>14. CASE WaitForSequencer /\ UNCHANGED ebVars
  BY <1>14, Zenon DEF WaitForSequencer
<1>15. CASE FinishGate /\ UNCHANGED ebVars
  BY <1>15, Zenon DEF FinishGate
<1>16. CASE WriteMetadata /\ UNCHANGED ebVars
  BY <1>16, Zenon DEF WriteMetadata
<1>17. CASE InterruptResetToDefault /\ UNCHANGED ebVars
  BY <1>17, Zenon DEF InterruptResetToDefault
<1>18. CASE CloseDownET /\ UNCHANGED ebVars
  BY <1>18, Zenon DEF CloseDownET, ETReleaseProducer
<1>19. CASE CleanupHardware /\ UNCHANGED ebVars
  BY <1>19, Zenon DEF CleanupHardware
<1>20. CASE WriteRunDataToDB /\ UNCHANGED ebVars
  BY <1>20, Zenon DEF WriteRunDataToDB, ETReleaseProducer
<1>21. CASE DeclareRunHeaderToET /\ UNCHANGED ebVars
  BY <1>21, DeclareActions, Zenon DEF DeclareRunHeaderToET, Declares
<1>22. CASE ReadChannel /\ UNCHANGED ebVars
  BY <1>22, DeclareActions, ZenonT(60) DEF ReadChannel, Declares
<1>23. CASE DeclareDAQHeaderToET /\ UNCHANGED ebVars
  BY <1>23, DeclareActions, Zenon DEF DeclareDAQHeaderToET, Declares
<1>24. CASE SendSentinel /\ UNCHANGED ebVars
  BY <1>24, DeclareActions, Zenon DEF SendSentinel, Declares
<1>25. CASE CatchException /\ UNCHANGED ebVars
  BY <1>25, DeclareActions, ZenonT(40) DEF CatchException, Declares
<1>26. CASE EBAttach /\ UNCHANGED daqVars
  BY <1>26, Zenon DEF EBAttach, ETAttach
<1>27. CASE EBStartupError /\ UNCHANGED daqVars
  BY <1>27, Zenon DEF EBStartupError
<1>28. CASE EBEnterLoop /\ UNCHANGED daqVars
  BY <1>28, Zenon DEF EBEnterLoop
<1>29. CASE EBGet /\ UNCHANGED daqVars
  BY <1>29, Zenon DEF EBGet, ETGet
<1>30. CASE EBEmpty /\ UNCHANGED daqVars
  BY <1>30, Zenon DEF EBEmpty
<1>31. CASE EBTimeout /\ UNCHANGED daqVars
  BY <1>31, Zenon DEF EBTimeout
<1>32. CASE EBGetError /\ UNCHANGED daqVars
  BY <1>32, Zenon DEF EBGetError
<1>33. CASE EBWrite /\ UNCHANGED daqVars
  BY <1>33, Zenon DEF EBWrite
<1>34. CASE EBPutBack /\ UNCHANGED daqVars
  BY <1>34, Zenon DEF EBPutBack, ETReturn
<1>35. CASE EBLeaveLoop /\ UNCHANGED daqVars
  BY <1>35, Zenon DEF EBLeaveLoop
<1>36. CASE EBDetach /\ UNCHANGED daqVars
  BY <1>36, Zenon DEF EBDetach, ETDetach
<1>37. CASE AllRunsOver
  BY <1>37, Zenon DEF AllRunsOver, vars
<1>38. CASE UNCHANGED vars
  BY <1>38, Zenon DEF vars
<1> HIDE DEF IInv, TypeOK, FlagsOK, ebVars, etVars, recorderVars, dbVars, histVars,
        mainVars, daqVars
<1> QED
  BY <1>1, <1>2, <1>3, <1>4, <1>5, <1>6, <1>7, <1>8, <1>9, <1>10, <1>11,
     <1>12, <1>13, <1>14, <1>15, <1>16, <1>17, <1>18, <1>19, <1>20, <1>21,
     <1>22, <1>23, <1>24, <1>25, <1>26, <1>27, <1>28, <1>29, <1>30, <1>31,
     <1>32, <1>33, <1>34, <1>35, <1>36, <1>37, <1>38, Zenon
     DEF Next, Environment, MinervaDAQStep, DAQStep, EventBuilderStep, EBStep

\* The gates that a starting minervadaq takes from the global gate file.
LEMMA StartDAQGates ==
  ASSUME TypeOK, NEW ready, StartDAQ(ready)
  PROVE  globalGate' \in Nat /\ firstGate' \in Nat
<1>1. ggFile \in Nat
  BY DEF TypeOK, ValuesOK
<1>2. globalGate' = ggFile \/ globalGate' = 0
  BY DEF StartDAQ, GlobalGateFromFile
<1>3. firstGate' = ggFile + 1 \/ firstGate' = 0 + 1
  BY <1>2 DEF StartDAQ, FirstGate
<1> QED
  BY <1>1, <1>2, <1>3

\* Releasing the events stuck with minervadaq keeps the pool within its size.
LEMMA ReleaseProducer ==
  ASSUME TypeOK, PoolConserved, ETReleaseProducer \/ UNCHANGED etVars
  PROVE  /\ etFree' \in 0..NEvents /\ held' \in 0..NEvents
         /\ station' = station /\ kept' = kept
<1>1. /\ etFree \in Nat /\ held \in Nat /\ kept \in Nat
      /\ station \in Seq(Block) /\ hand \in Seq(Block)
  BY NEventsAssumption DEF TypeOK, ValuesOK
<1>2. etFree + held <= NEvents
  BY <1>1 DEF PoolConserved
<1>3. (etFree' = etFree /\ held' = held) \/ (etFree' = etFree + held /\ held' = 0)
  BY DEF ETReleaseProducer, etVars
<1>4. station' = station /\ kept' = kept
  BY DEF ETReleaseProducer, etVars
<1> QED
  BY <1>1, <1>2, <1>3, <1>4, NEventsAssumption

\* FinishGate leaves a number in the global gate file.
LEMMA FinishGateFile ==
  ASSUME TypeOK, FinishGate
  PROVE  ggFile' \in Nat
<1>1. ggFile \in Nat /\ globalGate \in Nat
  BY DEF TypeOK, ValuesOK
<1>2. ggFile' = ggFile \/ ggFile' = Overwrite(ggFile, globalGate)
  BY DEF FinishGate
<1> QED
  BY <1>1, <1>2, OverwriteNumber

\* The rows that go into the database are well-formed.
LEMMA DatabaseRows ==
  ASSUME TypeOK
  PROVE  /\ WriteRunDataToDB => dbRuns' \in Seq([run : Nat, first : Nat, last : Nat])
         /\ CatchException => dbErrors' \in Seq([run : Nat, gg : Nat])
<1>1. /\ run \in Nat /\ firstGate \in Nat /\ globalGate \in Nat
      /\ dbRuns \in Seq([run : Nat, first : Nat, last : Nat])
      /\ dbErrors \in Seq([run : Nat, gg : Nat])
  BY DAQAssumption DEF TypeOK, ValuesOK
<1>2. /\ RunData \in [run : Nat, first : Nat, last : Nat]
      /\ [run |-> run, gg |-> globalGate] \in [run : Nat, gg : Nat]
  BY <1>1 DEF RunData
<1>3. /\ Append(dbRuns, RunData) \in Seq([run : Nat, first : Nat, last : Nat])
      /\ Append(dbErrors, [run |-> run, gg |-> globalGate]) \in Seq([run : Nat, gg : Nat])
  BY <1>1, <1>2
<1>4. WriteRunDataToDB => dbRuns' = dbRuns \/ dbRuns' = Append(dbRuns, RunData)
  BY DEF WriteRunDataToDB
<1>5. CatchException =>
        \/ dbErrors' = dbErrors
        \/ dbErrors' = Append(dbErrors, [run |-> run, gg |-> globalGate])
  BY DEF CatchException, AddErrorToDB
<1> QED
  BY <1>1, <1>3, <1>4, <1>5, Zenon

\* The event builder has a block in hand when it writes.
LEMMA HandBlock ==
  ASSUME IInv, ebPc = "write"
  PROVE  hand = <<hand[1]>> /\ hand[1] \in Block
<1>1. hand \in Seq(Block) /\ Len(hand) = 1
  BY DEF IInv, TypeOK, ValuesOK, Pool
<1> QED
  BY <1>1

\* What declaring a block changes keeps its type.
BlockTypes ==
  /\ etFree \in 0..NEvents /\ held \in 0..NEvents /\ kept \in 0..NEvents
  /\ station \in Seq(Block) /\ declared \in Seq(Block) /\ sent \in Seq(Block)
  /\ pc \in DAQPoints /\ resume \in DAQPoints

\* A declared block keeps the types of the queues and of the pool.
LEMMA DeclaresTyped ==
  ASSUME TypeOK, PoolConserved, NEW e, NEW next \in DAQPoints, Declares(e, next)
  PROVE  BlockTypes'
<1>1. /\ etFree \in Nat /\ held \in Nat /\ kept \in 0..NEvents
      /\ station \in Seq(Block) /\ hand \in Seq(Block)
      /\ resume \in DAQPoints
  BY NEventsAssumption DEF TypeOK, ValuesOK
<1>2. etFree + held <= NEvents
  BY <1>1 DEF PoolConserved
<1>3. \/ etFree' = etFree /\ held' = held
      \/ etFree > 0 /\ etFree' = etFree - 1 /\ held' = held
      \/ etFree > 0 /\ etFree' = etFree - 1 /\ held' = held + 1
  BY DEF Declares
<1>4. etFree' \in 0..NEvents /\ held' \in 0..NEvents
  BY <1>1, <1>2, <1>3, NEventsAssumption
<1>5. "waitForAlive" \in DAQPoints
  BY DEF DAQPoints
<1>6. pc' \in DAQPoints /\ resume' \in DAQPoints
  BY <1>1, <1>5, Zenon DEF Declares
<1> QED
  BY <1>1, <1>4, <1>6 DEF Declares, BlockTypes

\* So do the actions of minervadaq that declare a block.
LEMMA DeclareActionsTyped ==
  ASSUME IInv,
         \/ DeclareRunHeaderToET \/ ReadChannel \/ DeclareDAQHeaderToET
         \/ SendSentinel \/ CatchException
  PROVE  BlockTypes'
<1>1. TypeOK /\ PoolConserved
  BY DEF IInv, Pool
<1>2. \A e : \A next \in DAQPoints : Declares(e, next) => BlockTypes'
  BY <1>1, DeclaresTyped
<1>3. {"beginGate", "readChannel", "finishGate", "closeDownET", "writeRunData", "catch"}
        \subseteq DAQPoints
  BY DEF DAQPoints
<1>4. ASSUME pc' \in {"catch", "writeRunData"}, UNCHANGED <<resume, declared, sent, etVars>>
      PROVE  BlockTypes'
  BY <1>1, <1>3, <1>4 DEF TypeOK, ValuesOK, BlockTypes, etVars
<1>5. CASE ReadChannel \/ DeclareRunHeaderToET
  BY <1>2, <1>3, <1>4, <1>5, DeclareActions, Zenon DEF Throw
<1>6. CASE CatchException
  BY <1>2, <1>3, <1>4, <1>6, DeclareActions, Zenon
<1> QED
  BY <1>2, <1>3, <1>5, <1>6, DeclareActions, Zenon

\* Every step leaves the other variables in their types.
LEMMA ValuesStep ==
  ASSUME IInv, [Next]_vars
  PROVE  ValuesOK'
<1>0. ValuesOK
  BY DEF IInv, TypeOK
<1>14. CASE WaitForSequencer /\ UNCHANGED ebVars
  <2>1. /\ UNCHANGED <<etFree, held, kept, station, hand, raw, older, declared, sent, resume, ebPc>>
        /\ UNCHANGED <<firstGate, ggFile, channel, exitCode, run>>
        /\ UNCHANGED <<sam, stale, dbRuns, dbErrors, headers>>
    BY <1>14 DEF WaitForSequencer, dbVars, histVars, etVars, ebVars
  <2>2. gate \in Nat /\ globalGate \in Nat /\ ggFile \in Nat
    BY <1>0 DEF ValuesOK
  <2>3. gate' \in Nat /\ globalGate' \in Nat
    BY <1>14, <2>2, SMT DEF WaitForSequencer, GlobalGateFromFile
  <2>4. pc' \in DAQPoints
    BY <1>14, SMT DEF WaitForSequencer, Throw, DAQPoints
  <2> QED
    BY <1>0, <2>1, <2>3, <2>4, SMT DEF ValuesOK
<1>22. CASE ReadChannel /\ UNCHANGED ebVars
  <2>1. BlockTypes'
    BY <1>22, DeclareActionsTyped
  <2>2. channel \in 1..(NChannels + 1) /\ channel <= NChannels
    BY <1>0, <1>22, SMT DEF ReadChannel, IInv, Control, At, ValuesOK
  <2>3. channel' = channel \/ channel' = channel + 1
    BY <1>22, Zenon DEF ReadChannel
  <2>4. channel' \in 1..(NChannels + 1)
    BY <2>2, <2>3, DAQAssumption, SMT
  <2>5. /\ UNCHANGED <<gate, globalGate, firstGate, ggFile, exitCode, run>>
        /\ UNCHANGED <<sam, stale, dbRuns, dbErrors, headers, ebPc, hand, raw, older>>
    BY <1>22 DEF ReadChannel, recorderVars, dbVars, ebVars
  <2>6. /\ (sam \in [MetadataFiles -> [run : Nat, events : Nat, firstEvent : Nat, lastEvent : Nat]])'
        /\ (stale \subseteq MetadataFiles)'
        /\ (dbRuns \in Seq([run : Nat, first : Nat, last : Nat]))'
        /\ (dbErrors \in Seq([run : Nat, gg : Nat]))'
        /\ (headers \in Seq(Nat))'
    BY <1>0, <2>5, Zenon DEF ValuesOK
  <2>7. /\ (hand \in Seq(Block) /\ raw \in Seq(Block) /\ older \in Seq(Block))'
        /\ (gate \in Nat /\ globalGate \in Nat /\ firstGate \in Nat /\ ggFile \in Nat)'
        /\ (exitCode \in {"none", "EXIT_CLEAN_SENTINEL", "EXIT_CLEAN_NOSENTINEL", "crash"})'
        /\ (run \in 0..MaxRuns /\ ebPc \in EBPoints)'
    BY <1>0, <2>5, Zenon DEF ValuesOK
  <2> QED
    BY <2>1, <2>4, <2>6, <2>7, Zenon DEF ValuesOK, BlockTypes
<1>21. CASE DeclareRunHeaderToET /\ UNCHANGED ebVars
  <2>1. BlockTypes'
    BY <1>21, DeclareActionsTyped
  <2>2. /\ UNCHANGED <<gate, globalGate, firstGate, ggFile, channel, exitCode, run>>
        /\ UNCHANGED <<sam, stale, dbRuns, dbErrors, headers, ebPc, hand, raw, older>>
    BY <1>21 DEF DeclareRunHeaderToET, recorderVars, dbVars, ebVars
  <2> QED
    BY <1>0, <2>1, <2>2, Zenon DEF ValuesOK, BlockTypes
<1>33. CASE EBWrite /\ UNCHANGED daqVars
  <2>1. hand[1] \in Block
    BY <1>33, HandBlock DEF EBWrite
  <2>2. raw' = Append(raw, hand[1]) /\ raw \in Seq(Block)
    BY <1>0, <1>33 DEF EBWrite, ValuesOK
  <2>3. raw' \in Seq(Block)
    BY <2>1, <2>2
  <2>4. ebPc' \in EBPoints
    BY <1>33 DEF EBWrite, EBPoints
  <2>5. /\ UNCHANGED <<etFree, held, kept, station, hand, older, declared, sent, resume, pc>>
        /\ UNCHANGED <<gate, globalGate, firstGate, ggFile, channel, exitCode, run>>
        /\ UNCHANGED <<sam, stale, dbRuns, dbErrors, headers>>
    BY <1>33 DEF EBWrite, etVars, daqVars, mainVars, recorderVars, dbVars, histVars
  <2> QED
    BY <1>0, <2>3, <2>4, <2>5, Zenon DEF ValuesOK
<1>34. CASE EBPutBack /\ UNCHANGED daqVars
  <2>1. /\ etFree \in 0..NEvents /\ held \in 0..NEvents /\ kept \in 0..NEvents
        /\ Len(station) \in Nat /\ Len(hand) = 1 /\ PoolConserved
    BY <1>0, <1>34 DEF EBPutBack, IInv, Pool, ValuesOK
  <2>2. (etFree' = etFree + 1 /\ kept' = kept) \/ (etFree' = etFree /\ kept' = kept + 1)
    BY <1>34, Zenon DEF EBPutBack, ETReturn, ETReturnFails
  <2>3. etFree' \in 0..NEvents /\ kept' \in 0..NEvents
    BY <2>1, <2>2, NEventsAssumption DEF PoolConserved
  <2>4. ebPc' \in EBPoints /\ hand' \in Seq(Block)
    BY <1>34 DEF EBPutBack, EBPoints
  <2>5. /\ UNCHANGED <<held, station, raw, older, declared, sent, resume, pc>>
        /\ UNCHANGED <<gate, globalGate, firstGate, ggFile, channel, exitCode, run>>
        /\ UNCHANGED <<sam, stale, dbRuns, dbErrors, headers>>
    BY <1>34, Zenon DEF EBPutBack, ETReturn, ETReturnFails, daqVars, mainVars,
       recorderVars, dbVars, histVars
  <2> QED
    BY <1>0, <2>3, <2>4, <2>5, Zenon DEF ValuesOK
<1> USE NEventsAssumption, DAQAssumption, EBAssumption
<1> USE DEF IInv, TypeOK, FlagsOK, ValuesOK, DAQPoints, EBPoints, ebVars, etVars,
        recorderVars, dbVars, histVars, mainVars, daqVars
<1>1. CASE StartRun
  BY <1>1, SMT DEF StartRun, StartEB, NewRunFiles, NoMetadata
<1>2. CASE StartDAQ(attached) /\ UNCHANGED <<etVars, ebVars>>
  <2>1. globalGate' \in Nat /\ firstGate' \in Nat
    BY <1>2, StartDAQGates, SMT
  <2>2. run' = run + 1 /\ run < MaxRuns
    BY <1>2, SMT DEF StartDAQ
  <2> QED
    BY <1>2, <2>1, <2>2, SMT DEF StartDAQ
<1>3. CASE QuitSignal /\ UNCHANGED ebVars
  BY <1>3, SMT DEF QuitSignal
<1>4. CASE CrashDAQ /\ UNCHANGED ebVars
  BY <1>4, SMT DEF CrashDAQ, ETReleaseProducer, Pool, PoolConserved
<1>5. CASE EBSignal /\ UNCHANGED daqVars
  BY <1>5, SMT DEF EBSignal
<1>6. CASE EBCrash /\ UNCHANGED daqVars
  BY <1>6, SMT DEF EBCrash, ETDetach, Pool, PoolConserved
<1>7. CASE ETStall
  BY <1>7, SMT DEF ETStall
<1>8. CASE ETResume
  BY <1>8, SMT DEF ETResume
<1>9. CASE EtWaitForAlive /\ UNCHANGED ebVars
  BY <1>9, SMT DEF EtWaitForAlive
<1>10. CASE SetUpET /\ UNCHANGED ebVars
  BY <1>10, SMT DEF SetUpET
<1>11. CASE InitializeHardware /\ UNCHANGED ebVars
  BY <1>11, SMT DEF InitializeHardware, Throw
<1>12. CASE BeginNextGate /\ UNCHANGED ebVars
  BY <1>12, SMT DEF BeginNextGate, MoreGates
<1>13. CASE WaitForIRQ /\ UNCHANGED ebVars
  BY <1>13, SMT DEF WaitForIRQ, Throw
<1>15. CASE FinishGate /\ UNCHANGED ebVars
  <2>1. ggFile' \in Nat
    BY <1>15, FinishGateFile, SMT
  <2> QED
    BY <1>15, <2>1, SMT DEF FinishGate, Throw
<1>16. CASE WriteMetadata /\ UNCHANGED ebVars
  <2>1. Metadata \in [run : Nat, events : Nat, firstEvent : Nat, lastEvent : Nat]
    BY SMT DEF Metadata
  <2>2. /\ sam' \in [MetadataFiles -> [run : Nat, events : Nat, firstEvent : Nat, lastEvent : Nat]]
        /\ stale' \subseteq MetadataFiles
    BY <1>16, <2>1, SMT DEF WriteMetadata
  <2> QED
    BY <1>16, <2>2, SMT DEF WriteMetadata
<1>17. CASE InterruptResetToDefault /\ UNCHANGED ebVars
  BY <1>17, SMT DEF InterruptResetToDefault, Throw
<1>18. CASE CloseDownET /\ UNCHANGED ebVars
  <2>1. /\ etFree' \in 0..NEvents /\ held' \in 0..NEvents
        /\ station' = station /\ kept' = kept
    BY <1>18, ReleaseProducer, SMT DEF CloseDownET, Pool
  <2> QED
    BY <1>18, <2>1, SMT DEF CloseDownET
<1>19. CASE CleanupHardware /\ UNCHANGED ebVars
  BY <1>19, SMT DEF CleanupHardware, Throw
<1>20. CASE WriteRunDataToDB /\ UNCHANGED ebVars
  <2>1. /\ etFree' \in 0..NEvents /\ held' \in 0..NEvents
        /\ station' = station /\ kept' = kept
    BY <1>20, ReleaseProducer, SMT DEF WriteRunDataToDB, Pool
  <2>2. dbRuns' \in Seq([run : Nat, first : Nat, last : Nat])
    BY <1>20, DatabaseRows, SMT
  <2> QED
    BY <1>20, <2>1, <2>2, SMT DEF WriteRunDataToDB
<1>23. CASE DeclareDAQHeaderToET /\ UNCHANGED ebVars
  <2>1. BlockTypes'
    BY <1>23, DeclareActionsTyped, SMT
  <2>2. headers' \in Seq(Nat)
    BY <1>23, SMT DEF DeclareDAQHeaderToET
  <2> QED
    BY <1>23, <2>1, <2>2, SMT DEF DeclareDAQHeaderToET, BlockTypes
<1>24. CASE SendSentinel /\ UNCHANGED ebVars
  BY <1>24, DeclareActionsTyped, SMT DEF SendSentinel, BlockTypes
<1>25. CASE CatchException /\ UNCHANGED ebVars
  <2>1. BlockTypes'
    BY <1>25, DeclareActionsTyped, SMT
  <2>2. dbErrors' \in Seq([run : Nat, gg : Nat])
    BY <1>25, DatabaseRows, SMT
  <2> QED
    BY <1>25, <2>1, <2>2, SMT DEF CatchException, BlockTypes
<1>26. CASE EBAttach /\ UNCHANGED daqVars
  BY <1>26, SMT DEF EBAttach, ETAttach, Pool, PoolConserved
<1>27. CASE EBStartupError /\ UNCHANGED daqVars
  BY <1>27, SMT DEF EBStartupError
<1>28. CASE EBEnterLoop /\ UNCHANGED daqVars
  BY <1>28, SMT DEF EBEnterLoop
<1>29. CASE EBGet /\ UNCHANGED daqVars
  BY <1>29, SMT DEF EBGet, ETGet, Pool, PoolConserved
<1>30. CASE EBEmpty /\ UNCHANGED daqVars
  BY <1>30, SMT DEF EBEmpty
<1>31. CASE EBTimeout /\ UNCHANGED daqVars
  BY <1>31, SMT DEF EBTimeout
<1>32. CASE EBGetError /\ UNCHANGED daqVars
  BY <1>32, SMT DEF EBGetError
<1>35. CASE EBLeaveLoop /\ UNCHANGED daqVars
  BY <1>35, SMT DEF EBLeaveLoop
<1>36. CASE EBDetach /\ UNCHANGED daqVars
  BY <1>36, SMT DEF EBDetach, ETDetach, Pool, PoolConserved
<1>37. CASE AllRunsOver
  BY <1>37, SMT DEF AllRunsOver, vars
<1>38. CASE UNCHANGED vars
  BY <1>38, SMT DEF vars
<1> HIDE NEventsAssumption, DAQAssumption, EBAssumption
<1> HIDE DEF IInv, TypeOK, FlagsOK, ValuesOK, DAQPoints, EBPoints, ebVars, etVars,
        recorderVars, dbVars, histVars, mainVars, daqVars
<1> QED
  BY <1>1, <1>2, <1>3, <1>4, <1>5, <1>6, <1>7, <1>8, <1>9, <1>10, <1>11,
     <1>12, <1>13, <1>14, <1>15, <1>16, <1>17, <1>18, <1>19, <1>20, <1>21,
     <1>22, <1>23, <1>24, <1>25, <1>26, <1>27, <1>28, <1>29, <1>30, <1>31,
     <1>32, <1>33, <1>34, <1>35, <1>36, <1>37, <1>38, Zenon
     DEF Next, Environment, MinervaDAQStep, DAQStep, EventBuilderStep, EBStep

-----------------------------------------------------------------------------
(* The steps that matter to the stream of blocks.                          *)

\* A step that leaves the blocks alone: it moves no event between the pool,
\* the station and the event builder.
Aside ==
  /\ UNCHANGED <<kept, station, attached, sent, hand, raw, older>>
  /\ etFree' + held' = etFree + held
  /\ sent = <<>> \/ (sentSentinel => sentSentinel')
  /\ \/ ebPc' = ebPc
     \/ {ebPc, ebPc'} \subseteq AttachedPoints \ {"write", "putBack"}
     \/ ebPc = "starting" /\ ebPc' = "exited"

\* A step that declares a block, never after the sentinel.
DeclaresBlock ==
  /\ ~sentSentinel
  /\ \E e \in Block : \E next :
       Declares(e, next) /\ (e.bank = "Sentinel" => sentSentinel')
  /\ UNCHANGED ebVars

\* A step that takes place at minervadaq without touching ET's events.
LEMMA AsideOfDAQ ==
  ASSUME IInv, UNCHANGED <<etVars, sent, ebVars>>, sent = <<>> \/ sentSentinel' = sentSentinel
  PROVE  Aside
<1>1. etFree' + held' = etFree + held
  BY DEF etVars
<1>2. sentSentinel' = sentSentinel => (sentSentinel => sentSentinel')
  BY Zenon
<1> QED
  BY <1>1, <1>2, Zenon DEF Aside, etVars, ebVars

\* The end of minervadaq's attachment to GRANDCENTRAL.
LEMMA AsideOfRelease ==
  ASSUME IInv, ETReleaseProducer, UNCHANGED <<sent, sentSentinel, ebVars>>
  PROVE  Aside
<1>1. etFree \in Nat /\ held \in Nat
  BY NEventsAssumption DEF IInv, TypeOK, ValuesOK
<1>2. etFree' + held' = etFree + held
  BY <1>1 DEF ETReleaseProducer
<1> QED
  BY <1>2, Zenon DEF Aside, ETReleaseProducer, ebVars

\* A step of the event builder without an event.
LEMMA AsideOfEB ==
  ASSUME IInv, UNCHANGED <<etVars, hand, raw, older, daqVars>>,
         \/ ebPc' = ebPc
         \/ {ebPc, ebPc'} \subseteq AttachedPoints \ {"write", "putBack"}
         \/ ebPc = "starting" /\ ebPc' = "exited"
  PROVE  Aside
  BY Zenon DEF Aside, etVars, daqVars, histVars, mainVars

\* The five actions that declare a block, or an exception instead of one.
LEMMA DeclareKinds ==
  ASSUME IInv, UNCHANGED ebVars,
         \/ DeclareRunHeaderToET \/ ReadChannel \/ DeclareDAQHeaderToET
         \/ SendSentinel \/ CatchException
  PROVE  Aside \/ DeclaresBlock
<1>1. TypeOK
  BY DEF IInv
<1>2. ASSUME NEW p, pc = p, p \notin FinalPoints, p # "waitForAlive"
      PROVE  ~sentSentinel
  BY <1>2, Zenon DEF IInv, Control, At
<1>3. \A bank \in Banks : Header(bank) \in Block /\ Header(bank).bank = bank
  BY <1>1, HeaderBlock, Zenon
<1>4. "Run" \in Banks /\ "DAQ" \in Banks /\ "Sentinel" \in Banks
  BY DEF Banks
<1>5. CASE DeclareRunHeaderToET
  <2>1. ~sentSentinel
    BY <1>2, <1>5 DEF DeclareRunHeaderToET, FinalPoints
  <2>2. Header("Run") \in Block /\ Header("Run").bank # "Sentinel"
    BY <1>3, <1>4
  <2>3. CASE UNCHANGED <<sent, etVars>>
    BY <1>5, <2>3, AsideOfDAQ, Zenon DEF DeclareRunHeaderToET
  <2> QED
    BY <1>5, <2>1, <2>2, <2>3, DeclareActions, Zenon DEF DeclaresBlock
<1>6. CASE ReadChannel
  <2>1. ~sentSentinel
    BY <1>2, <1>6 DEF ReadChannel, FinalPoints
  <2>2. \A e \in DataBlocks : e \in Block /\ e.bank # "Sentinel"
    BY <1>1, DataBlock
  <2>3. CASE UNCHANGED <<sent, etVars>>
    BY <1>6, <2>3, AsideOfDAQ, Zenon DEF ReadChannel
  <2> QED
    BY <1>6, <2>1, <2>2, <2>3, DeclareActions, Zenon DEF DeclaresBlock
<1>7. CASE DeclareDAQHeaderToET
  <2>1. ~sentSentinel
    BY <1>2, <1>7 DEF DeclareDAQHeaderToET, FinalPoints
  <2>2. Header("DAQ") \in Block /\ Header("DAQ").bank # "Sentinel"
    BY <1>3, <1>4
  <2> QED
    BY <1>7, <2>1, <2>2, DeclareActions, Zenon DEF DeclaresBlock
<1>8. CASE SendSentinel
  <2>1. ~sentSentinel
    BY <1>2, <1>8 DEF SendSentinel, FinalPoints
  <2> QED
    BY <1>3, <1>4, <1>8, <2>1, DeclareActions, Zenon DEF DeclaresBlock, SendSentinel
<1>9. CASE CatchException
  <2>1. CASE sentSentinel /\ UNCHANGED <<sent, etVars>>
    BY <1>9, <2>1, AsideOfDAQ, Zenon DEF CatchException
  <2> QED
    BY <1>3, <1>4, <1>9, <2>1, DeclareActions, Zenon DEF DeclaresBlock, CatchException
<1> QED
  BY <1>5, <1>6, <1>7, <1>8, <1>9

\* Every step is one of these.
StepKind ==
  \/ StartRun
  \/ Aside
  \/ DeclaresBlock
  \/ EBAttach /\ UNCHANGED daqVars
  \/ EBGet /\ UNCHANGED daqVars
  \/ EBWrite /\ UNCHANGED daqVars
  \/ EBPutBack /\ UNCHANGED daqVars
  \/ (EBDetach \/ EBCrash) /\ UNCHANGED daqVars

\* Every step is one of those kinds.
LEMMA StepKinds ==
  ASSUME IInv, [Next]_vars
  PROVE  StepKind
<1> USE DEF StepKind
<1>1. CASE StartDAQ(attached) /\ UNCHANGED <<etVars, ebVars>>
  <2>1. sent = <<>>
    BY <1>1, Zenon DEF StartDAQ, IInv, Control
  <2> QED
    BY <1>1, <2>1, AsideOfDAQ, Zenon DEF StartDAQ, histVars
<1>2. CASE QuitSignal /\ UNCHANGED ebVars
  BY <1>2, AsideOfDAQ, Zenon DEF QuitSignal, recorderVars, dbVars, histVars, mainVars
<1>3. CASE CrashDAQ /\ UNCHANGED ebVars
  BY <1>3, AsideOfRelease, Zenon DEF CrashDAQ, recorderVars, dbVars, histVars, mainVars
<1>4. CASE EBSignal /\ UNCHANGED daqVars
  BY <1>4, AsideOfEB, SMT DEF EBSignal, AttachedPoints
<1>5. CASE ETStall
  BY <1>5, Zenon DEF ETStall, Aside, ebVars, daqVars, mainVars, histVars
<1>6. CASE ETResume
  BY <1>6, Zenon DEF ETResume, Aside, ebVars, daqVars, mainVars, histVars
<1>7. CASE EtWaitForAlive /\ UNCHANGED ebVars
  BY <1>7, AsideOfDAQ, Zenon DEF EtWaitForAlive, recorderVars, dbVars, histVars, mainVars
<1>8. CASE SetUpET /\ UNCHANGED ebVars
  BY <1>8, AsideOfDAQ, Zenon DEF SetUpET, recorderVars, dbVars, histVars, mainVars
<1>9. CASE InitializeHardware /\ UNCHANGED ebVars
  BY <1>9, AsideOfDAQ, Zenon DEF InitializeHardware, recorderVars, dbVars, histVars, mainVars
<1>10. CASE BeginNextGate /\ UNCHANGED ebVars
  BY <1>10, AsideOfDAQ, Zenon DEF BeginNextGate, recorderVars, dbVars, histVars, mainVars
<1>11. CASE WaitForIRQ /\ UNCHANGED ebVars
  BY <1>11, AsideOfDAQ, Zenon DEF WaitForIRQ, recorderVars, dbVars, histVars, mainVars
<1>12. CASE WaitForSequencer /\ UNCHANGED ebVars
  BY <1>12, AsideOfDAQ, Zenon DEF WaitForSequencer, recorderVars, dbVars, histVars, mainVars
<1>13. CASE FinishGate /\ UNCHANGED ebVars
  BY <1>13, AsideOfDAQ, Zenon DEF FinishGate, recorderVars, dbVars, histVars, mainVars
<1>14. CASE WriteMetadata /\ UNCHANGED ebVars
  BY <1>14, AsideOfDAQ, Zenon DEF WriteMetadata, recorderVars, dbVars, histVars, mainVars
<1>15. CASE InterruptResetToDefault /\ UNCHANGED ebVars
  BY <1>15, AsideOfDAQ, Zenon DEF InterruptResetToDefault, recorderVars, dbVars,
     histVars, mainVars
<1>16. CASE CloseDownET /\ UNCHANGED ebVars
  BY <1>16, AsideOfDAQ, AsideOfRelease, Zenon DEF CloseDownET, histVars
<1>17. CASE CleanupHardware /\ UNCHANGED ebVars
  BY <1>17, AsideOfDAQ, Zenon DEF CleanupHardware, recorderVars, dbVars, histVars, mainVars
<1>18. CASE WriteRunDataToDB /\ UNCHANGED ebVars
  BY <1>18, AsideOfRelease, Zenon DEF WriteRunDataToDB, recorderVars, dbVars, histVars, mainVars
<1>19. CASE EBStartupError /\ UNCHANGED daqVars
  BY <1>19, AsideOfEB, SMT DEF EBStartupError, AttachedPoints
<1>20. CASE EBEnterLoop /\ UNCHANGED daqVars
  BY <1>20, AsideOfEB, SMT DEF EBEnterLoop, AttachedPoints
<1>21. CASE EBEmpty /\ UNCHANGED daqVars
  BY <1>21, AsideOfEB, SMT DEF EBEmpty, AttachedPoints
<1>22. CASE EBTimeout /\ UNCHANGED daqVars
  BY <1>22, AsideOfEB, SMT DEF EBTimeout, AttachedPoints
<1>23. CASE EBGetError /\ UNCHANGED daqVars
  BY <1>23, AsideOfEB, SMT DEF EBGetError, AttachedPoints
<1>24. CASE EBLeaveLoop /\ UNCHANGED daqVars
  BY <1>24, AsideOfEB, SMT DEF EBLeaveLoop, AttachedPoints
<1>25. CASE AllRunsOver
  BY <1>25, AsideOfDAQ, Zenon DEF AllRunsOver, vars, daqVars, mainVars, histVars
<1>26. CASE UNCHANGED vars
  BY <1>26, AsideOfDAQ, Zenon DEF vars, daqVars, mainVars, histVars
<1>27. CASE /\ UNCHANGED ebVars
            /\ \/ DeclareRunHeaderToET \/ ReadChannel \/ DeclareDAQHeaderToET
               \/ SendSentinel \/ CatchException
  BY <1>27, DeclareKinds, Zenon
<1> QED
  BY <1>1, <1>2, <1>3, <1>4, <1>5, <1>6, <1>7, <1>8, <1>9, <1>10, <1>11,
     <1>12, <1>13, <1>14, <1>15, <1>16, <1>17, <1>18, <1>19, <1>20, <1>21,
     <1>22, <1>23, <1>24, <1>25, <1>26, <1>27, Zenon
     DEF Next, Environment, MinervaDAQStep, DAQStep, EventBuilderStep, EBStep

-----------------------------------------------------------------------------
(* The rest of the inductive invariant is preserved.                       *)

\* No step leaks an event.
LEMMA PoolStep ==
  ASSUME IInv, [Next]_vars
  PROVE  Pool'
<1>0. /\ etFree \in Nat /\ held \in Nat /\ kept \in Nat /\ attached \in BOOLEAN
      /\ station \in Seq(Block) /\ hand \in Seq(Block) /\ NEvents \in Nat
  BY NEventsAssumption DEF IInv, TypeOK, FlagsOK, ValuesOK
<1>1. Pool
  BY DEF IInv
<1> USE <1>0, <1>1 DEF Pool, PoolConserved, AttachedPoints
<1>2. CASE StartRun
  <2>1. /\ etFree' = NEvents /\ held' = 0 /\ kept' = 0 /\ station' = <<>> /\ hand' = <<>>
        /\ ebPc' = "starting"
    BY <1>2 DEF StartRun, StartEB
  <2>2. ~attached'
    BY <1>2, Zenon DEF StartRun
  <2> QED
    BY <2>1, <2>2
<1>3. CASE Aside
  <2>1. /\ etFree' + held' = etFree + held /\ kept' = kept
        /\ station' = station /\ hand' = hand
    BY <1>3 DEF Aside
  <2>2. PoolConserved'
    BY <2>1
  <2>3. /\ ebPc' \in {"write", "putBack"} <=> ebPc \in {"write", "putBack"}
        /\ ebPc' \in AttachedPoints <=> ebPc \in AttachedPoints
    BY <1>3 DEF Aside
  <2>4. attached' <=> attached
    BY <1>3, Zenon DEF Aside
  <2> QED
    BY <2>1, <2>2, <2>3, <2>4
<1>4. CASE DeclaresBlock
  <2>1. PICK e \in Block : \E next : Declares(e, next)
    BY <1>4 DEF DeclaresBlock
  <2>2. hand' = hand /\ ebPc' = ebPc
    BY <1>4 DEF DeclaresBlock, ebVars
  <2>3. attached' = attached /\ kept' = kept /\ (~attached => station' = station)
    BY <2>1 DEF Declares
  <2>4. attached' <=> attached
    BY <2>3, Zenon
  <2>5. CASE etFree' = etFree /\ held' = held /\ station' = station
    BY <2>2, <2>3, <2>4, <2>5
  <2>6. CASE etFree' = etFree - 1 /\ held' = held /\ station' = Append(station, e)
    <3>1. Len(station') = Len(station) + 1 /\ attached
      BY <2>3, <2>6
    <3>2. (etFree - 1) + held + kept + (Len(station) + 1) + Len(hand) = NEvents
      OBVIOUS
    <3>3. etFree' + held' + kept' + Len(station') + Len(hand') = NEvents
      BY <2>2, <2>3, <2>6, <3>1, <3>2, Zenon
    <3> QED
      BY <2>2, <2>3, <2>4, <3>1, <3>3
  <2>7. CASE etFree' = etFree - 1 /\ held' = held + 1 /\ station' = station
    <3>1. etFree' + held' = etFree + held
      BY <2>7
    <3> QED
      BY <2>2, <2>3, <2>4, <2>7, <3>1
  <2> QED
    BY <2>1, <2>5, <2>6, <2>7, Zenon DEF Declares
<1>5. CASE EBAttach
  <2>1. attached'
    BY <1>5, Zenon DEF EBAttach, ETAttach
  <2> QED
    BY <1>5, <2>1 DEF EBAttach, ETAttach
<1>6. CASE EBGet
  <2>1. attached' <=> attached
    BY <1>6, Zenon DEF EBGet
  <2>2. Len(station') = Len(station) - 1 /\ Len(hand') = 1
    BY <1>6 DEF EBGet, ETGet
  <2>3. etFree' = etFree /\ held' = held /\ kept' = kept /\ Len(hand) = 0 /\ attached /\ ebPc' = "write"
    BY <1>6 DEF EBGet, ETGet
  <2> QED
    BY <2>1, <2>2, <2>3
<1>7. CASE EBWrite
  <2>1. attached' <=> attached
    BY <1>7, Zenon DEF EBWrite, etVars
  <2> QED
    BY <1>7, <2>1 DEF EBWrite, etVars
<1>8. CASE EBPutBack
  <2>1. attached' <=> attached
    BY <1>8, Zenon DEF EBPutBack
  <2>2. CASE ETReturn
    BY <1>8, <2>1, <2>2 DEF EBPutBack, ETReturn
  <2>3. CASE ETReturnFails
    BY <1>8, <2>1, <2>3 DEF EBPutBack, ETReturnFails
  <2> QED
    BY <1>8, <2>2, <2>3, Zenon DEF EBPutBack
<1>9. CASE EBDetach \/ EBCrash
  <2>1. ~attached'
    BY <1>9, Zenon DEF EBDetach, EBCrash, ETDetach
  <2>2. ebPc' = "exited" /\ station' = <<>> /\ held' = held /\ kept' = 0
    BY <1>9 DEF EBDetach, EBCrash, ETDetach
  <2>3. Len(hand') = 0
    BY <1>9 DEF EBDetach, EBCrash
  <2>4. etFree' = etFree + Len(station) + Len(hand) + kept
    BY <1>9 DEF EBDetach, EBCrash, ETDetach
  <2> QED
    BY <2>1, <2>2, <2>3, <2>4
<1> HIDE <1>0, <1>1 DEF Pool, PoolConserved, AttachedPoints
<1> QED
  BY StepKinds, <1>2, <1>3, <1>4, <1>5, <1>6, <1>7, <1>8, <1>9, Zenon DEF StepKind

\* The sentinel is put at most once and nothing is put after it.
LEMMA OneSentinelStep ==
  ASSUME IInv, [Next]_vars
  PROVE  OneSentinel'
<1>0. OneSentinel /\ sent \in Seq(Block)
  BY DEF IInv, TypeOK, ValuesOK
<1>1. CASE StartRun
  BY <1>1 DEF StartRun, NewRunFiles, OneSentinel
<1>2. CASE Aside
  <2>1. sent' = sent
    BY <1>2 DEF Aside
  <2>2. CASE sent = <<>>
    BY <2>1, <2>2 DEF OneSentinel
  <2>3. CASE sentSentinel => sentSentinel'
    BY <1>0, <2>1, <2>3, Zenon DEF OneSentinel
  <2> QED
    BY <1>2, <2>2, <2>3, Zenon DEF Aside
<1>3. CASE DeclaresBlock
  <2>1. PICK e \in Block :
          /\ \E next : Declares(e, next)
          /\ e.bank = "Sentinel" => sentSentinel'
    BY <1>3 DEF DeclaresBlock
  <2>2. \A i \in 1..Len(sent) : sent[i].bank # "Sentinel"
    BY <1>0, <1>3 DEF DeclaresBlock, OneSentinel
  <2>3. sent' = sent \/ sent' = Append(sent, e)
    BY <2>1 DEF Declares
  <2>4. \A i \in 1..Len(sent') :
          sent'[i].bank = "Sentinel" => i = Len(sent') /\ e.bank = "Sentinel"
    <3>1. CASE sent' = sent
      BY <2>2, <3>1
    <3>2. CASE sent' = Append(sent, e)
      BY <1>0, <2>2, <3>2
    <3> QED
      BY <2>3, <3>1, <3>2
  <2> QED
    BY <2>1, <2>4, Zenon DEF OneSentinel
<1>4. CASE UNCHANGED daqVars
  <2>1. sent' = sent /\ sentSentinel' = sentSentinel
    BY <1>4 DEF daqVars, mainVars, histVars
  <2> QED
    BY <1>0, <2>1, Zenon DEF OneSentinel
<1> QED
  BY StepKinds, <1>1, <1>2, <1>3, <1>4, Zenon DEF StepKind

\* The blocks put into ET stay in order on their way into the file.
LEMMA StreamStep ==
  ASSUME IInv, [Next]_vars, WaitForReady
  PROVE  Stream'
<1>0. /\ station \in Seq(Block) /\ hand \in Seq(Block)
      /\ sent \in Seq(Block) /\ raw \in Seq(Block)
  BY DEF IInv, TypeOK, ValuesOK
<1>1. Stream /\ Pool
  BY DEF IInv
<1>2. CASE StartRun
  <2>1. raw' = <<>> /\ sent' = <<>>
    BY <1>2 DEF StartRun, StartEB, NewRunFiles
  <2>2. ~attached'
    BY <1>2, Zenon DEF StartRun
  <2> QED
    BY <2>1, <2>2 DEF Stream
<1>3. CASE Aside
  <2>1. UNCHANGED <<station, sent, hand, raw>>
    BY <1>3 DEF Aside
  <2>2. /\ ebPc' = "write" <=> ebPc = "write"
        /\ ebPc' \in {"off", "starting"} => ebPc \in {"off", "starting"}
    BY <1>3 DEF Aside, AttachedPoints
  <2>3. attached' <=> attached
    BY <1>3, Zenon DEF Aside
  <2>4. Taken' = Taken
    BY <2>1, <2>2 DEF Taken
  <2> QED
    BY <1>1, <2>1, <2>2, <2>3, <2>4 DEF Stream
<1>4. CASE DeclaresBlock
  <2>1. PICK e \in Block : \E next : Declares(e, next)
    BY <1>4 DEF DeclaresBlock
  <2>2. hand' = hand /\ ebPc' = ebPc /\ raw' = raw
    BY <1>4 DEF DeclaresBlock, ebVars
  <2>3. Taken' = Taken
    BY <2>2 DEF Taken
  <2>4. attached' = attached
    BY <2>1 DEF Declares
  <2>5. attached' <=> attached
    BY <2>4, Zenon
  <2>6. CASE sent' = sent /\ station' = station
    BY <1>1, <2>2, <2>3, <2>5, <2>6 DEF Stream
  <2>7. CASE /\ sent' = Append(sent, e)
             /\ station' = IF attached THEN Append(station, e) ELSE station
    <3>1. /\ Len(sent') = Len(sent) + 1
          /\ \A i \in 1..Len(sent) : sent'[i] = sent[i]
          /\ sent'[Len(sent) + 1] = e
      BY <1>0, <2>7
    <3>2. Len(raw) <= Len(sent') /\ \A i \in 1..Len(raw) : raw[i] = sent'[i]
      <4>1. Len(raw) \in Nat /\ Len(sent) \in Nat
        BY <1>0
      <4>2. Len(raw) <= Len(sent) /\ \A i \in 1..Len(raw) : raw[i] = sent[i]
        BY <1>1 DEF Stream
      <4>3. Len(raw) <= Len(sent) + 1
        BY <4>1, <4>2
      <4> QED
        BY <3>1, <4>1, <4>2, <4>3
    <3>3. CASE ~attached
      <4>1. ~attached' /\ raw' = raw /\ (ebPc' \in {"off", "starting"} => raw = <<>>)
        BY <1>1, <2>2, <2>5, <3>3 DEF Stream
      <4> QED
        BY <3>2, <4>1 DEF Stream
    <3>4. CASE attached
      <4>1. /\ Len(station') = Len(station) + 1
            /\ \A i \in 1..Len(station) : station'[i] = station[i]
            /\ station'[Len(station) + 1] = e
        BY <1>0, <2>7, <3>4
      <4>2. Taken \in Nat /\ Len(station) \in Nat /\ Len(raw) \in Nat
        BY <1>0 DEF Taken
      <4>3. /\ Len(sent) = Taken + Len(station)
            /\ ebPc = "write" => hand[1] = sent[Len(raw) + 1]
            /\ \A i \in 1..Len(station) : station[i] = sent[Taken + i]
        BY <1>1, <3>4 DEF Stream
      <4>4. Len(sent') = Taken + Len(station')
        BY <3>1, <4>1, <4>2, <4>3
      <4>5. ebPc = "write" => hand[1] = sent'[Len(raw) + 1]
        BY <3>1, <4>2, <4>3 DEF Taken
      <4>6. \A i \in 1..(Len(station) + 1) : station'[i] = sent'[Taken + i]
        BY <3>1, <4>1, <4>2, <4>3, SMTT(30)
      <4> QED
        BY <1>1, <2>2, <2>3, <3>2, <4>1, <4>4, <4>5, <4>6 DEF Stream
    <3> QED
      BY <3>3, <3>4
  <2> QED
    BY <2>1, <2>6, <2>7, Zenon DEF Declares
<1>5. CASE EBAttach /\ UNCHANGED daqVars
  <2>1. sent = <<>> /\ raw = <<>> /\ station = <<>>
    BY <1>1, <1>5 DEF EBAttach, IInv, Control, Stream, Pool, AttachedPoints
  <2>2. sent' = sent /\ raw' = raw /\ station' = station /\ ebPc' = "loop"
    BY <1>5 DEF EBAttach, ETAttach, daqVars, histVars
  <2>3. Taken' = 0
    BY <2>1, <2>2 DEF Taken
  <2> QED
    BY <2>1, <2>2, <2>3 DEF Stream
<1>6. CASE EBGet /\ UNCHANGED daqVars
  <2>1. /\ sent' = sent /\ raw' = raw /\ station' = Tail(station) /\ station # <<>>
        /\ hand' = <<Head(station)>> /\ ebPc' = "write" /\ ebPc # "write"
    BY <1>6 DEF EBGet, ETGet, daqVars, histVars
  <2>2. attached
    BY <1>1, <1>6 DEF EBGet, Pool, AttachedPoints
  <2>3. Taken = Len(raw) /\ Taken' = Len(raw) + 1 /\ Len(raw) \in Nat
    BY <1>0, <2>1 DEF Taken
  <2>4. /\ Len(sent) = Len(raw) + Len(station)
        /\ \A i \in 1..Len(station) : station[i] = sent[Len(raw) + i]
    BY <1>1, <2>2, <2>3 DEF Stream
  <2>5. /\ Len(Tail(station)) = Len(station) - 1 /\ Len(station) \in Nat \ {0}
        /\ \A i \in 1..(Len(station) - 1) : Tail(station)[i] = station[i + 1]
        /\ Head(station) = station[1]
    BY <1>0, <2>1
  <2>6. Len(sent) = Len(raw) + 1 + Len(Tail(station))
    BY <2>3, <2>4, <2>5
  <2>7. Head(station) = sent[Len(raw) + 1]
    BY <2>3, <2>4, <2>5
  <2>8. \A i \in 1..Len(Tail(station)) : Tail(station)[i] = sent[Len(raw) + 1 + i]
    BY <2>3, <2>4, <2>5
  <2> QED
    BY <1>1, <2>1, <2>3, <2>6, <2>7, <2>8 DEF Stream
<1>7. CASE EBWrite /\ UNCHANGED daqVars
  <2>1. /\ sent' = sent /\ raw' = Append(raw, hand[1]) /\ station' = station
        /\ ebPc' = "putBack" /\ ebPc = "write"
    BY <1>7 DEF EBWrite, etVars, daqVars, histVars
  <2>2. attached /\ hand[1] \in Block
    BY <1>1, <2>1, HandBlock DEF Pool, AttachedPoints
  <2>3. /\ Len(raw') = Len(raw) + 1 /\ Len(raw) \in Nat
        /\ \A i \in 1..Len(raw) : raw'[i] = raw[i]
        /\ raw'[Len(raw) + 1] = hand[1]
    BY <1>0, <2>1, <2>2
  <2>4. Taken = Len(raw) + 1 /\ Taken' = Len(raw) + 1
    BY <2>1, <2>3 DEF Taken
  <2>5. Len(raw') <= Len(sent)
    BY <1>0, <1>1, <2>2, <2>3, <2>4 DEF Stream
  <2>6. \A i \in 1..Len(raw') : raw'[i] = sent[i]
    BY <1>1, <2>1, <2>2, <2>3 DEF Stream
  <2> QED
    BY <1>1, <2>1, <2>2, <2>4, <2>5, <2>6 DEF Stream
<1>8. CASE EBPutBack /\ UNCHANGED daqVars
  <2>1. /\ sent' = sent /\ raw' = raw /\ station' = station
        /\ ebPc' = "loop" /\ ebPc = "putBack"
    BY <1>8 DEF EBPutBack, ETReturn, ETReturnFails, daqVars, histVars
  <2>2. attached
    BY <1>1, <2>1 DEF Pool, AttachedPoints
  <2>3. Taken' = Taken
    BY <2>1 DEF Taken
  <2> QED
    BY <1>1, <2>1, <2>2, <2>3 DEF Stream
<1>9. CASE (EBDetach \/ EBCrash) /\ UNCHANGED daqVars
  <2>1. ~attached'
    BY <1>9, Zenon DEF EBDetach, EBCrash, ETDetach
  <2>2. sent' = sent /\ raw' = raw /\ ebPc' = "exited"
    BY <1>9 DEF EBDetach, EBCrash, daqVars, histVars
  <2> QED
    BY <1>1, <2>1, <2>2 DEF Stream
<1> QED
  BY StepKinds, <1>2, <1>3, <1>4, <1>5, <1>6, <1>7, <1>8, <1>9, Zenon DEF StepKind

\* Where the two processes can be.
LEMMA ControlStep ==
  ASSUME IInv, [Next]_vars
  PROVE  Control'
<1>0. /\ channel \in 1..(NChannels + 1) /\ NChannels \in Nat \ {0}
      /\ sentSentinel \in BOOLEAN /\ attached \in BOOLEAN
  BY DAQAssumption DEF IInv, TypeOK, FlagsOK, ValuesOK
<1> USE <1>0 DEF IInv, Control, At, FinalPoints, ebVars, histVars, mainVars, daqVars
<1>1. CASE StartRun
  BY <1>1, SMT DEF StartRun, StartEB, NewRunFiles
<1>2. CASE StartDAQ(attached) /\ UNCHANGED <<etVars, ebVars>>
  BY <1>2, SMT DEF StartDAQ, Pool, AttachedPoints
<1>3. CASE QuitSignal /\ UNCHANGED ebVars
  BY <1>3, SMT DEF QuitSignal
<1>4. CASE CrashDAQ /\ UNCHANGED ebVars
  BY <1>4, SMT DEF CrashDAQ
<1>5. CASE EBSignal /\ UNCHANGED daqVars
  BY <1>5, SMT DEF EBSignal
<1>6. CASE EBCrash /\ UNCHANGED daqVars
  BY <1>6, SMT DEF EBCrash
<1>7. CASE ETStall
  BY <1>7, SMT DEF ETStall
<1>8. CASE ETResume
  BY <1>8, SMT DEF ETResume
<1>9. CASE EtWaitForAlive /\ UNCHANGED ebVars
  BY <1>9, SMT DEF EtWaitForAlive
<1>10. CASE SetUpET /\ UNCHANGED ebVars
  BY <1>10, SMT DEF SetUpET
<1>11. CASE InitializeHardware /\ UNCHANGED ebVars
  BY <1>11, SMT DEF InitializeHardware, Throw
<1>12. CASE BeginNextGate /\ UNCHANGED ebVars
  BY <1>12, SMT DEF BeginNextGate
<1>13. CASE WaitForIRQ /\ UNCHANGED ebVars
  BY <1>13, SMT DEF WaitForIRQ, Throw
<1>14. CASE WaitForSequencer /\ UNCHANGED ebVars
  BY <1>14, SMT DEF WaitForSequencer, Throw
<1>15. CASE FinishGate /\ UNCHANGED ebVars
  BY <1>15, SMT DEF FinishGate, Throw
<1>16. CASE WriteMetadata /\ UNCHANGED ebVars
  BY <1>16, SMT DEF WriteMetadata
<1>17. CASE InterruptResetToDefault /\ UNCHANGED ebVars
  BY <1>17, SMT DEF InterruptResetToDefault, Throw
<1>18. CASE CloseDownET /\ UNCHANGED ebVars
  BY <1>18, SMT DEF CloseDownET
<1>19. CASE CleanupHardware /\ UNCHANGED ebVars
  BY <1>19, SMT DEF CleanupHardware, Throw
<1>20. CASE WriteRunDataToDB /\ UNCHANGED ebVars
  BY <1>20, SMT DEF WriteRunDataToDB
<1>21. CASE DeclareRunHeaderToET /\ UNCHANGED ebVars
  BY <1>21, DeclareActions, SMT DEF DeclareRunHeaderToET, Declares, MoveToNextChannel, Throw
<1>22. CASE ReadChannel /\ UNCHANGED ebVars
  BY <1>22, DeclareActions, SMT DEF ReadChannel, Declares, MoveToNextChannel, Throw
<1>23. CASE DeclareDAQHeaderToET /\ UNCHANGED ebVars
  BY <1>23, DeclareActions, SMT DEF DeclareDAQHeaderToET, Declares, MoveToNextChannel, Throw
<1>24. CASE SendSentinel /\ UNCHANGED ebVars
  BY <1>24, DeclareActions, SMT DEF SendSentinel, Declares, MoveToNextChannel, Throw
<1>25. CASE CatchException /\ UNCHANGED ebVars
  BY <1>25, DeclareActions, SMT DEF CatchException, Declares, MoveToNextChannel, Throw
<1>26. CASE EBAttach /\ UNCHANGED daqVars
  BY <1>26, SMT DEF EBAttach
<1>27. CASE EBStartupError /\ UNCHANGED daqVars
  BY <1>27, SMT DEF EBStartupError
<1>28. CASE EBEnterLoop /\ UNCHANGED daqVars
  BY <1>28, SMT DEF EBEnterLoop
<1>29. CASE EBGet /\ UNCHANGED daqVars
  BY <1>29, SMT DEF EBGet
<1>30. CASE EBEmpty /\ UNCHANGED daqVars
  BY <1>30, SMT DEF EBEmpty
<1>31. CASE EBTimeout /\ UNCHANGED daqVars
  BY <1>31, SMT DEF EBTimeout
<1>32. CASE EBGetError /\ UNCHANGED daqVars
  BY <1>32, SMT DEF EBGetError
<1>33. CASE EBWrite /\ UNCHANGED daqVars
  BY <1>33, SMT DEF EBWrite
<1>34. CASE EBPutBack /\ UNCHANGED daqVars
  BY <1>34, SMT DEF EBPutBack
<1>35. CASE EBLeaveLoop /\ UNCHANGED daqVars
  BY <1>35, SMT DEF EBLeaveLoop
<1>36. CASE EBDetach /\ UNCHANGED daqVars
  BY <1>36, SMT DEF EBDetach
<1>37. CASE AllRunsOver
  BY <1>37, SMT DEF AllRunsOver, vars
<1>38. CASE UNCHANGED vars
  BY <1>38, SMT DEF vars
<1> HIDE <1>0 DEF IInv, Control, At, FinalPoints, ebVars, histVars, mainVars, daqVars
<1> QED
  BY <1>1, <1>2, <1>3, <1>4, <1>5, <1>6, <1>7, <1>8, <1>9, <1>10, <1>11,
     <1>12, <1>13, <1>14, <1>15, <1>16, <1>17, <1>18, <1>19, <1>20, <1>21,
     <1>22, <1>23, <1>24, <1>25, <1>26, <1>27, <1>28, <1>29, <1>30, <1>31,
     <1>32, <1>33, <1>34, <1>35, <1>36, <1>37, <1>38, Zenon
     DEF Next, Environment, MinervaDAQStep, DAQStep, EventBuilderStep, EBStep

-----------------------------------------------------------------------------
(* The theorems.                                                           *)

\* The invariant holds before the first run.
LEMMA InitInvariant == Init => IInv
<1> SUFFICES ASSUME Init PROVE IInv
  OBVIOUS
<1> USE DEF Init, DAQInit, ETInit, EBInit
<1>1. FlagsOK
  BY Zenon DEF FlagsOK
<1>2. ValuesOK
  BY NEventsAssumption, DAQAssumption DEF ValuesOK, DAQPoints, EBPoints, NoMetadata
<1>3. Control
  BY Zenon DEF Control, At, FinalPoints
<1>4. ~attached
  BY Zenon
<1>5. Pool
  BY <1>4, NEventsAssumption DEF Pool, PoolConserved, AttachedPoints
<1>6. OneSentinel /\ Stream
  BY <1>4 DEF OneSentinel, Stream
<1> QED
  BY <1>1, <1>2, <1>3, <1>5, <1>6 DEF IInv, TypeOK

\* Every step of either process and of ET keeps it.
LEMMA NextInvariant == IInv /\ [Next]_vars => IInv'
  BY FlagsStep, ValuesStep, ControlStep, PoolStep, OneSentinelStep, StreamStep, Zenon
     DEF IInv, TypeOK

\* IInv is an inductive invariant of the two processes over ET.
THEOREM Invariance == Spec => []IInv
  BY InitInvariant, NextInvariant, PTL DEF Spec

\* Every variable keeps its type, for every pool size, number of channels,
\* gates and runs and every combination of faults; the channel iterator never
\* passes the end of readoutChannels by more than one.
THEOREM TypeCorrect == Spec => []TypeOK
<1>1. IInv => TypeOK
  BY DEF IInv
<1> QED
  BY <1>1, Invariance, PTL

\* No event of the ET pool is ever lost, on no path through either process.
THEOREM PoolIsConserved == Spec => []PoolConserved
<1>1. IInv => PoolConserved
  BY DEF IInv, Pool
<1> QED
  BY <1>1, Invariance, PTL

\* When minervadaq is started after the event builder's ready signal, the raw
\* data file is always a prefix of what was put into ET.
THEOREM RawPrefix == Spec => []RawIsPrefix
<1>1. IInv => RawIsPrefix
  BY DEF IInv, Stream, RawIsPrefix
<1> QED
  BY <1>1, Invariance, PTL

\* When minervadaq is started after the event builder's ready signal, a raw
\* data file that ends with the sentinel holds all that was put into ET.
THEOREM CompleteAtSentinel == Spec => []SentinelMeansComplete
<1>1. ASSUME IInv, WaitForReady, raw # <<>>, raw[Len(raw)].bank = "Sentinel"
      PROVE  raw = sent
  <2>1. raw \in Seq(Block) /\ sent \in Seq(Block)
    BY <1>1 DEF IInv, TypeOK, ValuesOK
  <2>2. Len(raw) <= Len(sent) /\ \A i \in 1..Len(raw) : raw[i] = sent[i]
    BY <1>1 DEF IInv, Stream
  <2>3. Len(raw) \in 1..Len(sent) /\ sent[Len(raw)].bank = "Sentinel"
    BY <1>1, <2>1, <2>2
  <2>4. Len(raw) = Len(sent)
    BY <1>1, <2>3 DEF IInv, OneSentinel
  <2> QED
    BY <2>1, <2>2, <2>4
<1>2. IInv => SentinelMeansComplete
  BY <1>1 DEF SentinelMeansComplete
<1> QED
  BY <1>2, Invariance, PTL

-----------------------------------------------------------------------------
(* Global gate numbers.                                                    *)

\* The last block of a run has been read with the global gate one ahead of the
\* file; only FinishGate moves the file, and only StartDAQ and WaitForSequencer
\* take the number from it.
LEMMA NumberingStep ==
  ASSUME IInv, Numbering, [Next]_vars
  PROVE  Numbering'
<1>0. /\ headers \in Seq(Nat) /\ ggFile \in Nat /\ globalGate \in Nat
  BY DEF IInv, TypeOK, ValuesOK
<1>00. pc = "waitForAlive" =>
         resume \in {"beginGate", "readChannel", "finishGate", "closeDownET", "writeRunData"}
  BY DEF IInv, Control
<1> USE <1>0, <1>00 DEF Numbering, At, ebVars, histVars, recorderVars, mainVars, daqVars
<1>1. CASE StartRun
  BY <1>1, SMT DEF StartRun, StartEB, NewRunFiles
<1>2. CASE StartDAQ(attached) /\ UNCHANGED <<etVars, ebVars>>
  <2>1. ~fileFault' => ~fileFault /\ globalGate' = ggFile
    BY <1>2, Zenon DEF StartDAQ
  <2>2. headers' = headers /\ ggFile' = ggFile /\ pc' = "setUpET"
    BY <1>2, SMT DEF StartDAQ
  <2> QED
    BY <2>1, <2>2, SMT
<1>3. CASE QuitSignal /\ UNCHANGED ebVars
  BY <1>3, SMT DEF QuitSignal
<1>4. CASE CrashDAQ /\ UNCHANGED ebVars
  BY <1>4, SMT DEF CrashDAQ
<1>5. CASE EBSignal /\ UNCHANGED daqVars
  BY <1>5, SMT DEF EBSignal
<1>6. CASE EBCrash /\ UNCHANGED daqVars
  BY <1>6, SMT DEF EBCrash
<1>7. CASE ETStall
  BY <1>7, SMT DEF ETStall
<1>8. CASE ETResume
  BY <1>8, SMT DEF ETResume
<1>9. CASE EtWaitForAlive /\ UNCHANGED ebVars
  BY <1>9, SMT DEF EtWaitForAlive
<1>10. CASE SetUpET /\ UNCHANGED ebVars
  BY <1>10, SMT DEF SetUpET
<1>11. CASE InitializeHardware /\ UNCHANGED ebVars
  BY <1>11, SMT DEF InitializeHardware, Throw
<1>12. CASE BeginNextGate /\ UNCHANGED ebVars
  BY <1>12, SMT DEF BeginNextGate
<1>13. CASE WaitForIRQ /\ UNCHANGED ebVars
  BY <1>13, SMT DEF WaitForIRQ, Throw
<1>14. CASE WaitForSequencer /\ UNCHANGED ebVars
  BY <1>14, SMT DEF WaitForSequencer, Throw, GlobalGateFromFile
<1>15. CASE FinishGate /\ UNCHANGED ebVars
  <2>1. headers' = headers /\ globalGate' = globalGate /\ pc = "finishGate"
    BY <1>15, SMT DEF FinishGate
  <2>2. ~fileFault' => ~fileFault
    BY <1>15, Zenon DEF FinishGate
  <2>3. CASE pc' = "writeMetadata" /\ ggFile' = Overwrite(ggFile, globalGate)
    <3>1. ASSUME ~fileFault'
          PROVE  globalGate = ggFile + 1 /\ ggFile' = ggFile + 1
      BY <2>1, <2>2, <2>3, <3>1, OverwriteNumber, SMT
    <3> QED
      BY <2>1, <2>2, <2>3, <3>1, SMT
  <2>4. CASE fileFault'
    BY <2>4, SMT
  <2>5. CASE pc' = "catch" /\ ggFile' = ggFile
    BY <2>1, <2>2, <2>5, SMT
  <2> QED
    BY <1>15, <2>3, <2>4, <2>5, Zenon DEF FinishGate, Throw
<1>16. CASE WriteMetadata /\ UNCHANGED ebVars
  BY <1>16, SMT DEF WriteMetadata
<1>17. CASE InterruptResetToDefault /\ UNCHANGED ebVars
  BY <1>17, SMT DEF InterruptResetToDefault, Throw
<1>18. CASE CloseDownET /\ UNCHANGED ebVars
  BY <1>18, SMT DEF CloseDownET
<1>19. CASE CleanupHardware /\ UNCHANGED ebVars
  BY <1>19, SMT DEF CleanupHardware, Throw
<1>20. CASE WriteRunDataToDB /\ UNCHANGED ebVars
  BY <1>20, SMT DEF WriteRunDataToDB
<1>21. CASE DeclareRunHeaderToET /\ UNCHANGED ebVars
  BY <1>21, DeclareActions, SMT DEF DeclareRunHeaderToET, Declares, MoveToNextChannel, Throw
<1>22. CASE ReadChannel /\ UNCHANGED ebVars
  BY <1>22, DeclareActions, SMT DEF ReadChannel, Declares, MoveToNextChannel, Throw
<1>23. CASE DeclareDAQHeaderToET /\ UNCHANGED ebVars
  BY <1>23, DeclareActions, SMTT(30) DEF DeclareDAQHeaderToET, Declares, MoveToNextChannel, Throw
<1>24. CASE SendSentinel /\ UNCHANGED ebVars
  BY <1>24, DeclareActions, SMT DEF SendSentinel, Declares, MoveToNextChannel, Throw
<1>25. CASE CatchException /\ UNCHANGED ebVars
  BY <1>25, DeclareActions, SMT DEF CatchException, Declares, MoveToNextChannel, Throw
<1>26. CASE EBAttach /\ UNCHANGED daqVars
  BY <1>26, SMT DEF EBAttach
<1>27. CASE EBStartupError /\ UNCHANGED daqVars
  BY <1>27, SMT DEF EBStartupError
<1>28. CASE EBEnterLoop /\ UNCHANGED daqVars
  BY <1>28, SMT DEF EBEnterLoop
<1>29. CASE EBGet /\ UNCHANGED daqVars
  BY <1>29, SMT DEF EBGet
<1>30. CASE EBEmpty /\ UNCHANGED daqVars
  BY <1>30, SMT DEF EBEmpty
<1>31. CASE EBTimeout /\ UNCHANGED daqVars
  BY <1>31, SMT DEF EBTimeout
<1>32. CASE EBGetError /\ UNCHANGED daqVars
  BY <1>32, SMT DEF EBGetError
<1>33. CASE EBWrite /\ UNCHANGED daqVars
  BY <1>33, SMT DEF EBWrite
<1>34. CASE EBPutBack /\ UNCHANGED daqVars
  BY <1>34, SMT DEF EBPutBack
<1>35. CASE EBLeaveLoop /\ UNCHANGED daqVars
  BY <1>35, SMT DEF EBLeaveLoop
<1>36. CASE EBDetach /\ UNCHANGED daqVars
  BY <1>36, SMT DEF EBDetach
<1>37. CASE AllRunsOver
  BY <1>37, SMT DEF AllRunsOver, vars
<1>38. CASE UNCHANGED vars
  BY <1>38, SMT DEF vars
<1> HIDE <1>0, <1>00 DEF Numbering, At, ebVars, histVars, recorderVars, mainVars, daqVars
<1> QED
  BY <1>1, <1>2, <1>3, <1>4, <1>5, <1>6, <1>7, <1>8, <1>9, <1>10, <1>11,
     <1>12, <1>13, <1>14, <1>15, <1>16, <1>17, <1>18, <1>19, <1>20, <1>21,
     <1>22, <1>23, <1>24, <1>25, <1>26, <1>27, <1>28, <1>29, <1>30, <1>31,
     <1>32, <1>33, <1>34, <1>35, <1>36, <1>37, <1>38, Zenon
     DEF Next, Environment, MinervaDAQStep, DAQStep, EventBuilderStep, EBStep

\* For every sequence of gates, runs, exceptions and crashes, global gate
\* numbers in DAQ headers increase as long as the global gate file can be
\* opened at start-up and for writing.
THEOREM GatesIncrease == Spec => []GlobalGatesIncrease
<1>1. Init => Numbering
  BY DEF Init, DAQInit, Numbering, At
<1>2. IInv /\ Numbering /\ [Next]_vars => Numbering'
  BY NumberingStep
<1>3. Numbering => GlobalGatesIncrease
  BY DEF Numbering, GlobalGatesIncrease
<1> QED
  BY <1>1, <1>2, <1>3, Invariance, PTL DEF Spec

-----------------------------------------------------------------------------
(* The order of the blocks.                                                *)

\* Appending a block that may follow the last one.
LEMMA AppendInOrder ==
  ASSUME NEW blocks \in Seq(Block), NEW b \in Block, RR!InOrder(blocks),
         blocks = <<>> => RR!Starts(b),
         blocks # <<>> => RR!Follows(blocks[Len(blocks)], b)
  PROVE  RR!InOrder(Append(blocks, b))
<1> DEFINE longer == Append(blocks, b)
<1>1. /\ Len(longer) = Len(blocks) + 1 /\ Len(blocks) \in Nat
      /\ \A i \in 1..Len(blocks) : longer[i] = blocks[i]
      /\ longer[Len(blocks) + 1] = b
  OBVIOUS
<1> HIDE DEF longer
<1>2. RR!Starts(longer[1])
  <2>1. CASE blocks = <<>>
    BY <1>1, <2>1
  <2>2. CASE blocks # <<>>
    BY <1>1, <2>2 DEF RR!InOrder
  <2> QED
    BY <2>1, <2>2
<1>3. ASSUME NEW i \in 1..(Len(longer) - 1)
      PROVE  RR!Follows(longer[i], longer[i + 1])
  <2>1. i \in 1..Len(blocks)
    BY <1>1
  <2>2. CASE i = Len(blocks)
    BY <1>1, <2>1, <2>2
  <2>3. CASE i # Len(blocks)
    <3>1. i \in 1..(Len(blocks) - 1) /\ i + 1 \in 1..Len(blocks)
      BY <1>1, <2>1, <2>3
    <3> QED
      BY <1>1, <2>1, <3>1 DEF RR!InOrder
  <2> QED
    BY <2>2, <2>3
<1> QED
  BY <1>2, <1>3 DEF RR!InOrder, longer

\* What a block that is declared leaves behind.
LEMMA DeclaresLast ==
  ASSUME IInv, StreamInOrder, NEW e \in Block, NEW next, Declares(e, next),
         declared = <<>> => RR!Starts(e),
         declared # <<>> => RR!Follows(Last, e)
  PROVE  /\ StreamInOrder' /\ declared' # <<>> /\ Last' = e
         /\ pc' = next \/ (pc' = "waitForAlive" /\ resume' = next)
<1>1. declared \in Seq(Block) /\ declared' = Append(declared, e)
  BY DEF IInv, TypeOK, ValuesOK, Declares
<1>2. RR!InOrder(Append(declared, e))
  BY <1>1, AppendInOrder DEF StreamInOrder, Last
<1>3. StreamInOrder'
  BY <1>1, <1>2, Zenon DEF StreamInOrder, RR!InOrder
<1>4. Last' = e /\ declared' # <<>>
  BY <1>1 DEF Last
<1> QED
  BY <1>3, <1>4, Zenon DEF Declares

\* Blocks are declared in the order RunRecord asks for.
LEMMA OrderStep ==
  ASSUME IInv, Order, [Next]_vars
  PROVE  Order'
<1>0. /\ channel \in 1..(NChannels + 1) /\ NChannels \in Nat \ {0} /\ gate \in Nat
      /\ sentSentinel \in BOOLEAN /\ TypeOK
  BY DAQAssumption DEF IInv, TypeOK, FlagsOK, ValuesOK
<1>a. /\ pc = "waitForAlive" =>
           resume \in {"beginGate", "readChannel", "finishGate", "closeDownET", "writeRunData"}
      /\ pc \in {"waitForIRQ", "waitForSequencer"} => channel = 1
      /\ pc = "readChannel" => channel <= NChannels
      /\ pc \in {"runHeader", "readChannel", "daqHeader", "sentinel"} => ~sentSentinel
      /\ pc = "down" => declared = <<>>
  BY DEF IInv, Control, At, FinalPoints
<1>b. ASSUME UNCHANGED declared PROVE Last' = Last /\ (StreamInOrder => StreamInOrder')
  BY <1>b, Zenon DEF Last, StreamInOrder, RR!InOrder
<1>c. \A e \in Block : \A next :
        /\ Declares(e, next)
        /\ declared = <<>> => RR!Starts(e)
        /\ declared # <<>> => RR!Follows(Last, e)
        => /\ StreamInOrder' /\ declared' # <<>> /\ Last' = e
           /\ pc' = next \/ (pc' = "waitForAlive" /\ resume' = next)
  BY DeclaresLast DEF Order
<1>d. \A bank \in Banks : Header(bank) \in Block /\ Header(bank).bank = bank /\ Header(bank).gate = gate
  BY <1>0, HeaderBlock
<1>e. Order
  OBVIOUS
<1> USE DEF EndsGate, Order, At, ebVars, histVars, recorderVars, mainVars, daqVars
<1>f. ASSUME NEW next, Declares(Header("Sentinel"), next), ~sentSentinel
      PROVE  /\ StreamInOrder' /\ declared' # <<>>
             /\ pc' = next \/ (pc' = "waitForAlive" /\ resume' = next)
  <2>1. Header("Sentinel") \in Block /\ Header("Sentinel").bank = "Sentinel"
    BY <1>d, SMT DEF Banks
  <2>2. /\ declared = <<>> => RR!Starts(Header("Sentinel"))
        /\ declared # <<>> => RR!Follows(Last, Header("Sentinel"))
    BY <1>e, <1>f, <2>1, SMT DEF RR!Starts, RR!Follows
  <2> QED
    BY <1>c, <1>f, <2>1, <2>2, Zenon
<1>1. CASE StartRun
  <2>1. pc' = "down" /\ declared' = <<>>
    BY <1>1, SMT DEF StartRun, NewRunFiles
  <2>2. StreamInOrder'
    BY <2>1, SMT DEF StreamInOrder, RR!InOrder
  <2> QED
    BY <2>1, <2>2, SMT
<1>2. CASE StartDAQ(attached) /\ UNCHANGED <<etVars, ebVars>>
  BY <1>2, <1>0, <1>a, <1>b, <1>e, SMT DEF StartDAQ
<1>3. CASE QuitSignal /\ UNCHANGED ebVars
  BY <1>3, <1>0, <1>a, <1>b, <1>e, SMT DEF QuitSignal
<1>4. CASE CrashDAQ /\ UNCHANGED ebVars
  BY <1>4, <1>0, <1>a, <1>b, <1>e, SMT DEF CrashDAQ
<1>5. CASE EBSignal /\ UNCHANGED daqVars
  BY <1>5, <1>0, <1>a, <1>b, <1>e, SMT DEF EBSignal
<1>6. CASE EBCrash /\ UNCHANGED daqVars
  BY <1>6, <1>0, <1>a, <1>b, <1>e, SMT DEF EBCrash
<1>7. CASE ETStall
  BY <1>7, <1>0, <1>a, <1>b, <1>e, SMT DEF ETStall
<1>8. CASE ETResume
  BY <1>8, <1>0, <1>a, <1>b, <1>e, SMT DEF ETResume
<1>9. CASE EtWaitForAlive /\ UNCHANGED ebVars
  BY <1>9, <1>0, <1>a, <1>b, <1>e, SMT DEF EtWaitForAlive
<1>10. CASE SetUpET /\ UNCHANGED ebVars
  BY <1>10, <1>0, <1>a, <1>b, <1>e, SMT DEF SetUpET
<1>11. CASE InitializeHardware /\ UNCHANGED ebVars
  BY <1>11, <1>0, <1>a, <1>b, <1>e, SMT DEF InitializeHardware, Throw
<1>12. CASE BeginNextGate /\ UNCHANGED ebVars
  BY <1>12, <1>0, <1>a, <1>b, <1>e, SMT DEF BeginNextGate
<1>13. CASE WaitForIRQ /\ UNCHANGED ebVars
  BY <1>13, <1>0, <1>a, <1>b, <1>e, SMT DEF WaitForIRQ, Throw
<1>14. CASE WaitForSequencer /\ UNCHANGED ebVars
  BY <1>14, <1>0, <1>a, <1>b, <1>e, SMT DEF WaitForSequencer, Throw
<1>15. CASE FinishGate /\ UNCHANGED ebVars
  BY <1>15, <1>0, <1>a, <1>b, <1>e, SMT DEF FinishGate, Throw
<1>16. CASE WriteMetadata /\ UNCHANGED ebVars
  BY <1>16, <1>0, <1>a, <1>b, <1>e, SMT DEF WriteMetadata
<1>17. CASE InterruptResetToDefault /\ UNCHANGED ebVars
  BY <1>17, <1>0, <1>a, <1>b, <1>e, SMT DEF InterruptResetToDefault, Throw
<1>18. CASE CloseDownET /\ UNCHANGED ebVars
  BY <1>18, <1>0, <1>a, <1>b, <1>e, SMT DEF CloseDownET
<1>19. CASE CleanupHardware /\ UNCHANGED ebVars
  BY <1>19, <1>0, <1>a, <1>b, <1>e, SMT DEF CleanupHardware, Throw
<1>20. CASE WriteRunDataToDB /\ UNCHANGED ebVars
  BY <1>20, <1>0, <1>a, <1>b, <1>e, SMT DEF WriteRunDataToDB
<1>21. CASE DeclareRunHeaderToET /\ UNCHANGED ebVars
  <2>1. CASE pc' = "catch" /\ UNCHANGED declared
    BY <1>21, <1>b, <1>e, <2>1, SMT DEF DeclareRunHeaderToET
  <2>2. CASE Declares(Header("Run"), "beginGate")
    <3>1. declared = <<>> /\ gate = 0
      BY <1>21, <1>e, SMT DEF DeclareRunHeaderToET
    <3>2. Header("Run") \in Block /\ Header("Run").bank = "Run"
      BY <1>d, SMT DEF Banks
    <3>3. /\ StreamInOrder' /\ declared' # <<>> /\ Last' = Header("Run")
          /\ pc' = "beginGate" \/ (pc' = "waitForAlive" /\ resume' = "beginGate")
      BY <1>c, <2>2, <3>1, <3>2, SMT DEF RR!Starts
    <3>4. gate' = gate
      BY <1>21, SMT DEF DeclareRunHeaderToET
    <3> QED
      BY <3>1, <3>2, <3>3, <3>4, SMT
  <2> QED
    BY <1>21, <2>1, <2>2, DeclareActions, Zenon DEF Throw
<1>22. CASE ReadChannel /\ UNCHANGED ebVars
  <2>1. CASE pc' = "catch" /\ UNCHANGED declared
    BY <1>22, <1>b, <1>e, <2>1, SMT DEF ReadChannel
  <2>2. CASE channel' = channel + 1 /\ \E e \in DataBlocks :
               Declares(e, IF MoveToNextChannel THEN "readChannel" ELSE "finishGate")
    <3> DEFINE next == IF MoveToNextChannel THEN "readChannel" ELSE "finishGate"
    <3>1. PICK e \in DataBlocks : Declares(e, next)
      BY <2>2
    <3>2. e \in Block /\ e.bank = "Data" /\ e.gate = gate /\ e.ch = channel
      BY <1>0, DataBlock
    <3>3. gate' = gate /\ pc = "readChannel" /\ channel <= NChannels
      BY <1>22, <1>a, SMT DEF ReadChannel
    <3>4. declared # <<>> /\ RR!Follows(Last, e)
      BY <1>0, <1>e, <3>2, <3>3, SMT DEF RR!Follows
    <3>5. /\ StreamInOrder' /\ declared' # <<>> /\ Last' = e
          /\ pc' = next \/ (pc' = "waitForAlive" /\ resume' = next)
      BY <1>c, <3>1, <3>2, <3>4, Zenon
    <3>6. gate > 0
      BY <1>e, <3>3
    <3>7. CASE channel < NChannels
      <4>1. next = "readChannel"
        BY <3>7 DEF MoveToNextChannel
      <4> QED
        BY <1>0, <2>2, <3>2, <3>3, <3>5, <3>6, <4>1, SMT
    <3>8. CASE channel = NChannels
      <4>1. next = "finishGate"
        BY <1>0, <3>8 DEF MoveToNextChannel
      <4> QED
        BY <1>0, <2>2, <3>2, <3>3, <3>5, <3>6, <3>8, <4>1, SMT
    <3> QED
      BY <1>0, <3>3, <3>7, <3>8
  <2> QED
    BY <1>22, <2>1, <2>2, DeclareActions, Zenon DEF Throw
<1>23. CASE DeclareDAQHeaderToET /\ UNCHANGED ebVars
  <2>1. Declares(Header("DAQ"), "beginGate") /\ gate' = gate
    BY <1>23, DeclareActions, SMT DEF DeclareDAQHeaderToET
  <2>2. Header("DAQ") \in Block /\ Header("DAQ").bank = "DAQ" /\ Header("DAQ").gate = gate
    BY <1>d, SMT DEF Banks
  <2>3. declared # <<>> /\ RR!Follows(Last, Header("DAQ"))
    BY <1>23, <1>e, <2>2, SMT DEF DeclareDAQHeaderToET, RR!Follows
  <2>4. /\ StreamInOrder' /\ declared' # <<>> /\ Last' = Header("DAQ")
        /\ pc' = "beginGate" \/ (pc' = "waitForAlive" /\ resume' = "beginGate")
    BY <1>c, <2>1, <2>2, <2>3, Zenon
  <2> QED
    BY <2>1, <2>2, <2>4, SMT
<1>24. CASE SendSentinel /\ UNCHANGED ebVars
  <2>1. Declares(Header("Sentinel"), "closeDownET") /\ ~sentSentinel
    BY <1>24, <1>a, DeclareActions, SMT DEF SendSentinel
  <2>2. StreamInOrder' /\ (pc' = "closeDownET" \/ (pc' = "waitForAlive" /\ resume' = "closeDownET"))
    BY <1>f, <2>1
  <2>3. sentSentinel'
    BY <1>24, Zenon DEF SendSentinel
  <2> QED
    BY <2>2, <2>3, SMT
<1>25. CASE CatchException /\ UNCHANGED ebVars
  <2>1. CASE sentSentinel /\ pc' = "writeRunData" /\ UNCHANGED declared
    <3>1. sentSentinel'
      BY <1>25, Zenon DEF CatchException
    <3> QED
      BY <1>b, <1>e, <2>1, <3>1, SMT
  <2>2. CASE ~sentSentinel /\ Declares(Header("Sentinel"), "writeRunData")
    <3>1. StreamInOrder' /\ (pc' = "writeRunData" \/ (pc' = "waitForAlive" /\ resume' = "writeRunData"))
      BY <1>f, <2>2
    <3>2. sentSentinel'
      BY <1>25, Zenon DEF CatchException
    <3> QED
      BY <3>1, <3>2, SMT
  <2> QED
    BY <1>25, <2>1, <2>2, DeclareActions, Zenon
<1>26. CASE EBAttach /\ UNCHANGED daqVars
  BY <1>26, <1>0, <1>a, <1>b, <1>e, SMT DEF EBAttach
<1>27. CASE EBStartupError /\ UNCHANGED daqVars
  BY <1>27, <1>0, <1>a, <1>b, <1>e, SMT DEF EBStartupError
<1>28. CASE EBEnterLoop /\ UNCHANGED daqVars
  BY <1>28, <1>0, <1>a, <1>b, <1>e, SMT DEF EBEnterLoop
<1>29. CASE EBGet /\ UNCHANGED daqVars
  BY <1>29, <1>0, <1>a, <1>b, <1>e, SMT DEF EBGet
<1>30. CASE EBEmpty /\ UNCHANGED daqVars
  BY <1>30, <1>0, <1>a, <1>b, <1>e, SMT DEF EBEmpty
<1>31. CASE EBTimeout /\ UNCHANGED daqVars
  BY <1>31, <1>0, <1>a, <1>b, <1>e, SMT DEF EBTimeout
<1>32. CASE EBGetError /\ UNCHANGED daqVars
  BY <1>32, <1>0, <1>a, <1>b, <1>e, SMT DEF EBGetError
<1>33. CASE EBWrite /\ UNCHANGED daqVars
  BY <1>33, <1>0, <1>a, <1>b, <1>e, SMT DEF EBWrite
<1>34. CASE EBPutBack /\ UNCHANGED daqVars
  BY <1>34, <1>0, <1>a, <1>b, <1>e, SMT DEF EBPutBack
<1>35. CASE EBLeaveLoop /\ UNCHANGED daqVars
  BY <1>35, <1>0, <1>a, <1>b, <1>e, SMT DEF EBLeaveLoop
<1>36. CASE EBDetach /\ UNCHANGED daqVars
  BY <1>36, <1>0, <1>a, <1>b, <1>e, SMT DEF EBDetach
<1>37. CASE AllRunsOver
  BY <1>37, <1>0, <1>a, <1>b, <1>e, SMT DEF AllRunsOver, vars
<1>38. CASE UNCHANGED vars
  BY <1>38, <1>0, <1>a, <1>b, <1>e, SMT DEF vars
<1> HIDE DEF EndsGate, Order, At, ebVars, histVars, recorderVars, mainVars, daqVars
<1> QED
  BY <1>1, <1>2, <1>3, <1>4, <1>5, <1>6, <1>7, <1>8, <1>9, <1>10, <1>11,
     <1>12, <1>13, <1>14, <1>15, <1>16, <1>17, <1>18, <1>19, <1>20, <1>21,
     <1>22, <1>23, <1>24, <1>25, <1>26, <1>27, <1>28, <1>29, <1>30, <1>31,
     <1>32, <1>33, <1>34, <1>35, <1>36, <1>37, <1>38, Zenon
     DEF Next, Environment, MinervaDAQStep, DAQStep, EventBuilderStep, EBStep

\* For every number of channels and gates, and whatever exception, signal or
\* crash cuts a run short, the declared blocks are in RunRecord's order.
THEOREM BlocksInOrder == Spec => []StreamInOrder
<1>1. Init => Order
  BY DEF Init, DAQInit, Order, At, StreamInOrder, RR!InOrder
<1>2. IInv /\ Order /\ [Next]_vars => Order'
  BY OrderStep
<1>3. Order => StreamInOrder
  BY DEF Order
<1> QED
  BY <1>1, <1>2, <1>3, Invariance, PTL DEF Spec

-----------------------------------------------------------------------------
(* The raw data file implements RunRecord.                                 *)

\* A prefix of blocks in order is in order.
LEMMA PrefixInOrder ==
  ASSUME NEW short \in Seq(Block), NEW long \in Seq(Block),
         Len(short) <= Len(long), \A i \in 1..Len(short) : short[i] = long[i],
         RR!InOrder(long)
  PROVE  RR!InOrder(short)
<1>1. short # <<>> => RR!Starts(short[1])
  BY DEF RR!InOrder
<1>2. ASSUME NEW i \in 1..(Len(short) - 1)
      PROVE  RR!Follows(short[i], short[i + 1])
  <2>1. i \in 1..(Len(long) - 1) /\ i \in 1..Len(short) /\ i + 1 \in 1..Len(short)
    OBVIOUS
  <2> QED
    BY <2>1 DEF RR!InOrder
<1> QED
  BY <1>1, <1>2 DEF RR!InOrder

\* Without ET faults every declared block is put into ET.
LEMMA NothingRefusedStep ==
  ASSUME IInv, NothingRefused, [Next]_vars, "ET" \notin Faults
  PROVE  NothingRefused'
<1> USE DEF NothingRefused, etVars, ebVars, histVars, mainVars, daqVars
<1>1. CASE StartRun
  BY <1>1, Zenon DEF StartRun, NewRunFiles
<1>2. CASE StartDAQ(attached) /\ UNCHANGED <<etVars, ebVars>>
  BY <1>2, Zenon DEF StartDAQ
<1>3. CASE QuitSignal /\ UNCHANGED ebVars
  BY <1>3, Zenon DEF QuitSignal
<1>4. CASE CrashDAQ /\ UNCHANGED ebVars
  BY <1>4, Zenon DEF CrashDAQ, ETReleaseProducer
<1>5. CASE EBSignal /\ UNCHANGED daqVars
  BY <1>5, Zenon DEF EBSignal
<1>6. CASE EBCrash /\ UNCHANGED daqVars
  BY <1>6, Zenon DEF EBCrash, ETDetach
<1>7. CASE ETStall
  BY <1>7, Zenon DEF ETStall
<1>8. CASE ETResume
  BY <1>8, Zenon DEF ETResume
<1>9. CASE EtWaitForAlive /\ UNCHANGED ebVars
  BY <1>9, Zenon DEF EtWaitForAlive
<1>10. CASE SetUpET /\ UNCHANGED ebVars
  BY <1>10, Zenon DEF SetUpET
<1>11. CASE InitializeHardware /\ UNCHANGED ebVars
  BY <1>11, Zenon DEF InitializeHardware, Throw
<1>12. CASE BeginNextGate /\ UNCHANGED ebVars
  BY <1>12, Zenon DEF BeginNextGate
<1>13. CASE WaitForIRQ /\ UNCHANGED ebVars
  BY <1>13, Zenon DEF WaitForIRQ, Throw
<1>14. CASE WaitForSequencer /\ UNCHANGED ebVars
  BY <1>14, Zenon DEF WaitForSequencer, Throw
<1>15. CASE FinishGate /\ UNCHANGED ebVars
  BY <1>15, Zenon DEF FinishGate, Throw
<1>16. CASE WriteMetadata /\ UNCHANGED ebVars
  BY <1>16, Zenon DEF WriteMetadata
<1>17. CASE InterruptResetToDefault /\ UNCHANGED ebVars
  BY <1>17, Zenon DEF InterruptResetToDefault, Throw
<1>18. CASE CloseDownET /\ UNCHANGED ebVars
  BY <1>18, Zenon DEF CloseDownET, ETReleaseProducer
<1>19. CASE CleanupHardware /\ UNCHANGED ebVars
  BY <1>19, Zenon DEF CleanupHardware, Throw
<1>20. CASE WriteRunDataToDB /\ UNCHANGED ebVars
  BY <1>20, Zenon DEF WriteRunDataToDB, ETReleaseProducer
<1>21. CASE DeclareRunHeaderToET /\ UNCHANGED ebVars
  BY <1>21, DeclareActions, Zenon DEF DeclareRunHeaderToET, Declares, Throw
<1>22. CASE ReadChannel /\ UNCHANGED ebVars
  BY <1>22, DeclareActions, Zenon DEF ReadChannel, Declares, Throw
<1>23. CASE DeclareDAQHeaderToET /\ UNCHANGED ebVars
  BY <1>23, DeclareActions, Zenon DEF DeclareDAQHeaderToET, Declares, Throw
<1>24. CASE SendSentinel /\ UNCHANGED ebVars
  BY <1>24, DeclareActions, Zenon DEF SendSentinel, Declares, Throw
<1>25. CASE CatchException /\ UNCHANGED ebVars
  BY <1>25, DeclareActions, Zenon DEF CatchException, Declares, Throw
<1>26. CASE EBAttach /\ UNCHANGED daqVars
  BY <1>26, Zenon DEF EBAttach, ETAttach
<1>27. CASE EBStartupError /\ UNCHANGED daqVars
  BY <1>27, Zenon DEF EBStartupError
<1>28. CASE EBEnterLoop /\ UNCHANGED daqVars
  BY <1>28, Zenon DEF EBEnterLoop
<1>29. CASE EBGet /\ UNCHANGED daqVars
  BY <1>29, Zenon DEF EBGet
<1>30. CASE EBEmpty /\ UNCHANGED daqVars
  BY <1>30, Zenon DEF EBEmpty
<1>31. CASE EBTimeout /\ UNCHANGED daqVars
  BY <1>31, Zenon DEF EBTimeout
<1>32. CASE EBGetError /\ UNCHANGED daqVars
  BY <1>32, Zenon DEF EBGetError
<1>33. CASE EBWrite /\ UNCHANGED daqVars
  BY <1>33, Zenon DEF EBWrite
<1>34. CASE EBPutBack /\ UNCHANGED daqVars
  BY <1>34, Zenon DEF EBPutBack
<1>35. CASE EBLeaveLoop /\ UNCHANGED daqVars
  BY <1>35, Zenon DEF EBLeaveLoop
<1>36. CASE EBDetach /\ UNCHANGED daqVars
  BY <1>36, Zenon DEF EBDetach, ETDetach
<1>37. CASE AllRunsOver
  BY <1>37, Zenon DEF AllRunsOver, vars
<1>38. CASE UNCHANGED vars
  BY <1>38, Zenon DEF vars
<1> HIDE DEF NothingRefused, etVars, ebVars, histVars, mainVars, daqVars
<1> QED
  BY <1>1, <1>2, <1>3, <1>4, <1>5, <1>6, <1>7, <1>8, <1>9, <1>10, <1>11,
     <1>12, <1>13, <1>14, <1>15, <1>16, <1>17, <1>18, <1>19, <1>20, <1>21,
     <1>22, <1>23, <1>24, <1>25, <1>26, <1>27, <1>28, <1>29, <1>30, <1>31,
     <1>32, <1>33, <1>34, <1>35, <1>36, <1>37, <1>38, Zenon
     DEF Next, Environment, MinervaDAQStep, DAQStep, EventBuilderStep, EBStep

\* When the event builder is ready before minervadaq is started, and ET accepts
\* what minervadaq puts, the raw data file is a correct record of each run: it is
\* only appended to, also when the run is given the file of an earlier one or when
\* putting events back fails; it holds the blocks of the run in the order offline
\* decoding relies on, and nothing of the run comes after its sentinel.
THEOREM Refinement ==
  ASSUME WaitForReady, "ET" \notin Faults
  PROVE  Spec => RawFileIsRunRecord
<1>1. Init => RR!Init /\ Order /\ NothingRefused
  <2>1. Init => RR!Init
    BY DEF Init, EBInit, RR!Init
  <2>2. Init => Order
    BY DEF Init, DAQInit, Order, At, StreamInOrder, RR!InOrder
  <2>3. Init => NothingRefused
    BY Zenon DEF Init, DAQInit, ETInit, NothingRefused
  <2> QED
    BY <2>1, <2>2, <2>3
<1>2. IInv /\ Order /\ NothingRefused /\ [Next]_vars => Order' /\ NothingRefused'
  BY OrderStep, NothingRefusedStep
<1>3. ASSUME IInv, IInv', Order', NothingRefused', [Next]_vars
      PROVE  [RR!Next]_<<older, raw>>
  <2>1. CASE StartRun
    BY <2>1, Zenon DEF StartRun, StartEB, RR!Next, RR!NewFile, RR!AppendRun
  <2>2. CASE EBWrite
    <3>1. raw \in Seq(Block) /\ raw' \in Seq(Block) /\ sent' \in Seq(Block)
      BY <1>3 DEF IInv, TypeOK, ValuesOK
    <3>2. Len(raw') <= Len(sent') /\ \A i \in 1..Len(raw') : raw'[i] = sent'[i]
      BY <1>3 DEF IInv, Stream
    <3>3. RR!InOrder(declared') /\ declared' = sent'
      BY <1>3, Zenon DEF Order, StreamInOrder, NothingRefused, RR!InOrder
    <3>4. RR!InOrder(raw')
      BY <3>1, <3>2, <3>3, PrefixInOrder
    <3>5. raw' = Append(raw, hand[1])
      BY <2>2 DEF EBWrite
    <3>6. Len(raw') = Len(raw) + 1 /\ \A i \in 1..Len(raw) : raw'[i] = raw[i]
      BY <3>1, <3>5
    <3>7. older' = older
      BY <2>2 DEF EBWrite
    <3> QED
      BY <3>4, <3>6, <3>7, Zenon DEF RR!Next, RR!WriteBlock
  <2>3. CASE UNCHANGED <<older, raw>>
    BY <2>3
  <2>4. StepKind => StartRun \/ EBWrite \/ UNCHANGED <<older, raw>>
    BY Zenon DEF StepKind, Aside, DeclaresBlock, ebVars, EBAttach, EBGet, EBPutBack,
                 EBDetach, EBCrash
  <2> QED
    BY <1>3, <2>1, <2>2, <2>3, <2>4, StepKinds
<1> QED
  BY <1>1, <1>2, <1>3, Invariance, PTL DEF Spec, RawFileIsRunRecord, RR!Spec
=============================================================================
