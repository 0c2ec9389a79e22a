-------------------------- MODULE DAQRecordProofs --------------------------
(***************************************************************************)
(* Proofs about what a run leaves behind: the raw data file when           *)
(* minervadaq does not wait for the event builder, the sentinel, the SAM   *)
(* metadata, and the rows of the run database.  They build on the          *)
(* invariants of DAQSystemProofs; the further conjuncts are                *)
(*                                                                         *)
(*   Skipping     the blocks in the file, in the event builder's hand and  *)
(*                in the station are those put into ET from some point on; *)
(*   RunNumbering the global gate in use during one run, whatever happened *)
(*                to the global gate file in earlier ones;                 *)
(*   Counting     gates and DAQ headers of a run;                          *)
(*   HeaderGates  the global gates in the DAQ headers of a run;            *)
(*   Described    what a SAM file written by the run says of it;           *)
(*   Rows         which run a database row belongs to;                     *)
(*   Ranges       the gate ranges of different rows;                       *)
(*   SentinelPut  a sentinel taken for sent was put into ET;               *)
(*   Quitting     why the event builder leaves its loop.                   *)
(***************************************************************************)
EXTENDS DAQSystemProofs, FiniteSetTheorems

\* The first k blocks put into ET went by before the event builder attached.
Skips(k) ==
  /\ k + Len(raw) <= Len(sent)
  /\ \A i \in 1..Len(raw) : raw[i] = sent[k + i]
  /\ ebPc \in {"off", "starting"} => raw = <<>>
  /\ attached =>
       /\ Len(sent) = k + Taken + Len(station)
       /\ ebPc = "write" => hand[1] = sent[k + Len(raw) + 1]
       /\ \A i \in 1..Len(station) : station[i] = sent[k + Taken + i]

Skipping == \E k \in 0..Len(sent) : Skips(k)

\* Where minervadaq is before ReadoutStateRecorder counts the next gate, and
\* where it is between that and saving the global gate.
BeforeGate == {"setUpET", "initializeHardware", "runHeader", "beginGate",
               "waitForIRQ", "waitForSequencer"}
InGate == {"readChannel", "finishGate"}

Phase(points) == \E p \in points : At(p)

RunNumbering ==
  ~runFault =>
    /\ Phase(BeforeGate) => globalGate = ggFile
    /\ Phase(InGate) => globalGate = ggFile + 1
    /\ pc \in {"writeMetadata", "daqHeader"} => globalGate = ggFile
    /\ pc # "down" => globalGate + 1 = firstGate + gate

HeaderCount == Cardinality(DAQHeaders(declared))

Counting ==
  /\ pc # "down" => HeaderCount = gate \/ HeaderCount + 1 = gate
  /\ Phase(BeforeGate) => HeaderCount = gate
  /\ Phase(InGate) \/ pc \in {"writeMetadata", "daqHeader"} => HeaderCount + 1 = gate

\* The DAQ headers of the run's first n gates.
FirstHeaders(n) == {i \in DAQHeaders(declared) : declared[i].gg < firstGate + n}

HeaderGates ==
  ~runFault =>
    /\ \A i \in DAQHeaders(declared) :
         firstGate <= declared[i].gg /\ declared[i].gg < firstGate + HeaderCount
    /\ \A n \in 0..HeaderCount : Cardinality(FirstHeaders(n)) = n

\* Has the current run written the file?
OfThisRun(f) == pc # "down" /\ sam[f].run = run /\ sam[f].events > 0

Described ==
  \A f \in MetadataFiles :
    /\ sam[f].run <= run
    /\ pc = "daqHeader" /\ f \notin stale => sam[f].run = run /\ sam[f].events = gate
    /\ OfThisRun(f) =>
         /\ sam[f].events <= gate
         /\ f \notin stale => HeaderCount <= sam[f].events
         /\ ~runFault => /\ sam[f].firstEvent = firstGate
                         /\ sam[f].lastEvent + 1 = firstGate + sam[f].events

Rows ==
  \A k \in 1..Len(dbRuns) :
    /\ dbRuns[k].run <= run
    /\ dbRuns[k].run = run => pc \in {"down", "exited"}
    /\ dbRuns[k].run = run /\ pc = "exited" =>
         dbRuns[k].first = firstGate /\ dbRuns[k].last = globalGate

Ranges ==
  ~fileFault =>
    /\ globalGate <= ggFile + 1
    /\ \A i \in 1..Len(dbRuns) :
         /\ dbRuns[i].last <= ggFile + 1
         /\ pc \notin {"down", "exited"} => dbRuns[i].last <= firstGate
    /\ \A i, j \in 1..Len(dbRuns) : i < j => dbRuns[i].last <= dbRuns[j].first

SentinelPut ==
  /\ sentSentinel /\ pc # "down" => \E i \in 1..Len(sent) : sent[i].bank = "Sentinel"
  /\ pc = "exited" /\ exitCode = "EXIT_CLEAN_SENTINEL" => sentSentinel

EndsWithSentinel == raw # <<>> /\ raw[Len(raw)].bank = "Sentinel"

Quitting ==
  /\ \A i \in 1..Len(station) : station[i].lead = station[i].bank
  /\ ebPc = "write" => hand[1].lead = hand[1].bank
  /\ ebPc = "getTimed" => waitingToQuit
  /\ quitNow => waitingToQuit
  /\ ~waitingToQuit =>
       /\ ebPc \in {"detach", "exited"} => ~ebContinue
       /\ ~ebContinue => EndsWithSentinel /\ ebPc \in {"putBack", "loop", "detach", "exited"}

-----------------------------------------------------------------------------
(* The steps that matter to the records of a run.                          *)

\* The step of one process leaves the other's variables alone.
LEMMA WhoMoves ==
  ASSUME [Next]_vars
  PROVE  \/ StartRun
         \/ UNCHANGED daqVars
         \/ UNCHANGED ebVars /\ (StartDAQ(attached) \/ QuitSignal \/ CrashDAQ \/ DAQStep)
  BY Zenon DEF Next, vars, Environment, MinervaDAQStep, EventBuilderStep, AllRunsOver,
               ETStall, ETResume

\* minervadaq moves on, and perhaps declares a block that is no DAQ header,
\* without counting a gate or writing a record.
Moves ==
  /\ UNCHANGED <<run, gate, globalGate, firstGate, ggFile, sam, stale, dbRuns>>
  /\ (fileFault' <=> fileFault) /\ (runFault' <=> runFault)
  /\ \/ declared' = declared
     \/ \E e \in Block : e.bank # "DAQ" /\ declared' = Append(declared, e)
  /\ pc \in {"down", "exited"} => pc' = pc
  /\ pc' = pc \/ pc' \notin {"down", "writeMetadata", "daqHeader"}
  /\ Phase(BeforeGate)' => Phase(BeforeGate)
  /\ Phase(InGate)' => Phase(InGate)

\* Every other step of minervadaq that touches a record.
RecordStep ==
  \/ Moves
  \/ StartRun
  \/ StartDAQ(attached)
  \/ WaitForSequencer
  \/ FinishGate
  \/ WriteMetadata
  \/ DeclareDAQHeaderToET
  \/ WriteRunDataToDB

\* An action of minervadaq that leaves the recorder, the database's runs and
\* the history alone.
LEMMA QuietMoves ==
  ASSUME UNCHANGED <<run, recorderVars, dbRuns>>,
         \/ declared' = declared
         \/ \E e \in Block : e.bank # "DAQ" /\ declared' = Append(declared, e),
         pc \in {"down", "exited"} => pc' = pc,
         pc' = pc \/ pc' \notin {"down", "writeMetadata", "daqHeader"},
         Phase(BeforeGate)' => Phase(BeforeGate),
         Phase(InGate)' => Phase(InGate)
  PROVE  Moves
  BY Zenon DEF Moves, recorderVars

\* Every step is one of these.
LEMMA RecordSteps ==
  ASSUME IInv, [Next]_vars
  PROVE  RecordStep
<1> USE DEF RecordStep
<1>0. pc = "waitForAlive" =>
        resume \in {"beginGate", "readChannel", "finishGate", "closeDownET", "writeRunData"}
  BY DEF IInv, Control
<1>a. ASSUME pc' = pc, resume' = resume
      PROVE  /\ pc \in {"down", "exited"} => pc' = pc
             /\ pc' = pc \/ pc' \notin {"down", "writeMetadata", "daqHeader"}
             /\ Phase(BeforeGate)' => Phase(BeforeGate)
             /\ Phase(InGate)' => Phase(InGate)
  BY <1>a, Zenon DEF Phase, At
<1>c. TypeOK
  BY DEF IInv
<1>d. /\ Header("Run") \in Block /\ Header("Run").bank = "Run"
      /\ Header("Sentinel") \in Block /\ Header("Sentinel").bank = "Sentinel"
  BY <1>c, HeaderBlock DEF Banks
<1>e. \A e \in DataBlocks : e \in Block /\ e.bank = "Data"
  BY <1>c, DataBlock
<1>1. CASE UNCHANGED daqVars
  <2>1. UNCHANGED <<run, recorderVars, dbRuns, declared>> /\ pc' = pc /\ resume' = resume
    BY <1>1, Zenon DEF daqVars, mainVars, dbVars, histVars
  <2> QED
    BY <2>1, <1>a, QuietMoves, Zenon
<1>2. CASE QuitSignal
  <2>1. UNCHANGED <<run, recorderVars, dbRuns, declared>> /\ pc' = pc /\ resume' = resume
    BY <1>2, Zenon DEF QuitSignal, dbVars, histVars
  <2> QED
    BY <2>1, <1>a, QuietMoves, Zenon
<1>3. CASE CrashDAQ
  <2>1. UNCHANGED <<run, recorderVars, dbRuns, declared, resume>>
    BY <1>3, Zenon DEF CrashDAQ, dbVars, histVars
  <2>2. /\ pc \in {"down", "exited"} => pc' = pc
        /\ pc' = pc \/ pc' \notin {"down", "writeMetadata", "daqHeader"}
        /\ Phase(BeforeGate)' => Phase(BeforeGate)
        /\ Phase(InGate)' => Phase(InGate)
    BY <1>3, <1>0, SMT DEF CrashDAQ, Throw, Phase, At, BeforeGate, InGate
  <2> QED
    BY <2>1, <2>2, QuietMoves, Zenon
<1>4. CASE EtWaitForAlive
  <2>1. UNCHANGED <<run, recorderVars, dbRuns, declared, resume>>
    BY <1>4, Zenon DEF EtWaitForAlive, dbVars, histVars
  <2>2. /\ pc \in {"down", "exited"} => pc' = pc
        /\ pc' = pc \/ pc' \notin {"down", "writeMetadata", "daqHeader"}
        /\ Phase(BeforeGate)' => Phase(BeforeGate)
        /\ Phase(InGate)' => Phase(InGate)
    BY <1>4, <1>0, SMT DEF EtWaitForAlive, Throw, Phase, At, BeforeGate, InGate
  <2> QED
    BY <2>1, <2>2, QuietMoves, Zenon
<1>5. CASE SetUpET
  <2>1. UNCHANGED <<run, recorderVars, dbRuns, declared, resume>>
    BY <1>5, Zenon DEF SetUpET, dbVars, histVars
  <2>2. /\ pc \in {"down", "exited"} => pc' = pc
        /\ pc' = pc \/ pc' \notin {"down", "writeMetadata", "daqHeader"}
        /\ Phase(BeforeGate)' => Phase(BeforeGate)
        /\ Phase(InGate)' => Phase(InGate)
    BY <1>5, <1>0, SMT DEF SetUpET, Throw, Phase, At, BeforeGate, InGate
  <2> QED
    BY <2>1, <2>2, QuietMoves, Zenon
<1>6. CASE InitializeHardware
  <2>1. UNCHANGED <<run, recorderVars, dbRuns, declared, resume>>
    BY <1>6, Zenon DEF InitializeHardware, dbVars, histVars
  <2>2. /\ pc \in {"down", "exited"} => pc' = pc
        /\ pc' = pc \/ pc' \notin {"down", "writeMetadata", "daqHeader"}
        /\ Phase(BeforeGate)' => Phase(BeforeGate)
        /\ Phase(InGate)' => Phase(InGate)
    BY <1>6, <1>0, SMT DEF InitializeHardware, Throw, Phase, At, BeforeGate, InGate
  <2> QED
    BY <2>1, <2>2, QuietMoves, Zenon
<1>7. CASE BeginNextGate
  <2>1. UNCHANGED <<run, recorderVars, dbRuns, declared, resume>>
    BY <1>7, Zenon DEF BeginNextGate, dbVars, histVars
  <2>2. /\ pc \in {"down", "exited"} => pc' = pc
        /\ pc' = pc \/ pc' \notin {"down", "writeMetadata", "daqHeader"}
        /\ Phase(BeforeGate)' => Phase(BeforeGate)
        /\ Phase(InGate)' => Phase(InGate)
    BY <1>7, <1>0, SMT DEF BeginNextGate, Throw, Phase, At, BeforeGate, InGate
  <2> QED
    BY <2>1, <2>2, QuietMoves, Zenon
<1>8. CASE WaitForIRQ
  <2>1. UNCHANGED <<run, recorderVars, dbRuns, declared, resume>>
    BY <1>8, Zenon DEF WaitForIRQ, dbVars, histVars
  <2>2. /\ pc \in {"down", "exited"} => pc' = pc
        /\ pc' = pc \/ pc' \notin {"down", "writeMetadata", "daqHeader"}
        /\ Phase(BeforeGate)' => Phase(BeforeGate)
        /\ Phase(InGate)' => Phase(InGate)
    BY <1>8, <1>0, SMT DEF WaitForIRQ, Throw, Phase, At, BeforeGate, InGate
  <2> QED
    BY <2>1, <2>2, QuietMoves, Zenon
<1>9. CASE InterruptResetToDefault
  <2>1. UNCHANGED <<run, recorderVars, dbRuns, declared, resume>>
    BY <1>9, Zenon DEF InterruptResetToDefault, dbVars, histVars
  <2>2. /\ pc \in {"down", "exited"} => pc' = pc
        /\ pc' = pc \/ pc' \notin {"down", "writeMetadata", "daqHeader"}
        /\ Phase(BeforeGate)' => Phase(BeforeGate)
        /\ Phase(InGate)' => Phase(InGate)
    BY <1>9, <1>0, SMT DEF InterruptResetToDefault, Throw, Phase, At, BeforeGate, InGate
  <2> QED
    BY <2>1, <2>2, QuietMoves, Zenon
<1>10. CASE CloseDownET
  <2>1. UNCHANGED <<run, recorderVars, dbRuns, declared, resume>>
    BY <1>10, Zenon DEF CloseDownET, dbVars, histVars
  <2>2. /\ pc \in {"down", "exited"} => pc' = pc
        /\ pc' = pc \/ pc' \notin {"down", "writeMetadata", "daqHeader"}
        /\ Phase(BeforeGate)' => Phase(BeforeGate)
        /\ Phase(InGate)' => Phase(InGate)
    BY <1>10, <1>0, SMT DEF CloseDownET, Throw, Phase, At, BeforeGate, InGate
  <2> QED
    BY <2>1, <2>2, QuietMoves, Zenon
<1>11. CASE CleanupHardware
  <2>1. UNCHANGED <<run, recorderVars, dbRuns, declared, resume>>
    BY <1>11, Zenon DEF CleanupHardware, dbVars, histVars
  <2>2. /\ pc \in {"down", "exited"} => pc' = pc
        /\ pc' = pc \/ pc' \notin {"down", "writeMetadata", "daqHeader"}
        /\ Phase(BeforeGate)' => Phase(BeforeGate)
        /\ Phase(InGate)' => Phase(InGate)
    BY <1>11, <1>0, SMT DEF CleanupHardware, Throw, Phase, At, BeforeGate, InGate
  <2> QED
    BY <2>1, <2>2, QuietMoves, Zenon
<1>12. CASE DeclareRunHeaderToET
  <2>1. UNCHANGED <<run, recorderVars, dbRuns>>
    BY <1>12, Zenon DEF DeclareRunHeaderToET, dbVars
  <2>2. \/ pc' = "catch" /\ UNCHANGED <<resume, declared>>
        \/ Declares(Header("Run"), "beginGate")
    BY <1>12, DeclareActions, Zenon DEF Throw
  <2>3. \/ declared' = declared
        \/ \E e \in Block : e.bank # "DAQ" /\ declared' = Append(declared, e)
    BY <1>d, <2>2 DEF Declares
  <2>4. /\ pc \in {"down", "exited"} => pc' = pc
        /\ pc' = pc \/ pc' \notin {"down", "writeMetadata", "daqHeader"}
        /\ Phase(BeforeGate)' => Phase(BeforeGate)
        /\ Phase(InGate)' => Phase(InGate)
    BY <1>12, <2>2, SMT DEF DeclareRunHeaderToET, Declares, Phase, At, BeforeGate, InGate
  <2> QED
    BY <2>1, <2>3, <2>4, QuietMoves, Zenon
<1>13. CASE SendSentinel
  <2>1. UNCHANGED <<run, recorderVars, dbRuns>>
    BY <1>13, Zenon DEF SendSentinel, dbVars
  <2>2. Declares(Header("Sentinel"), "closeDownET")
    BY <1>13, DeclareActions, Zenon
  <2>3. \E e \in Block : e.bank # "DAQ" /\ declared' = Append(declared, e)
    BY <1>d, <2>2 DEF Declares
  <2>4. /\ pc \in {"down", "exited"} => pc' = pc
        /\ pc' = pc \/ pc' \notin {"down", "writeMetadata", "daqHeader"}
        /\ Phase(BeforeGate)' => Phase(BeforeGate)
        /\ Phase(InGate)' => Phase(InGate)
    BY <1>13, <2>2, SMT DEF SendSentinel, Declares, Phase, At, BeforeGate, InGate
  <2> QED
    BY <2>1, <2>3, <2>4, QuietMoves, Zenon
<1>14. CASE CatchException
  <2>1. UNCHANGED <<run, recorderVars, dbRuns>> /\ pc = "catch"
    BY <1>14, Zenon DEF CatchException
  <2>2. \/ pc' = "writeRunData" /\ UNCHANGED <<resume, declared>>
        \/ Declares(Header("Sentinel"), "writeRunData")
    BY <1>14, DeclareActions, Zenon
  <2>3. \/ declared' = declared
        \/ \E e \in Block : e.bank # "DAQ" /\ declared' = Append(declared, e)
    BY <1>d, <2>2 DEF Declares
  <2>4. /\ pc \in {"down", "exited"} => pc' = pc
        /\ pc' = pc \/ pc' \notin {"down", "writeMetadata", "daqHeader"}
        /\ Phase(BeforeGate)' => Phase(BeforeGate)
        /\ Phase(InGate)' => Phase(InGate)
    BY <2>1, <2>2, SMT DEF Declares, Phase, At, BeforeGate, InGate
  <2> QED
    BY <2>1, <2>3, <2>4, QuietMoves, Zenon
<1>15. CASE ReadChannel
  <2>1. UNCHANGED <<run, recorderVars, dbRuns>> /\ pc = "readChannel"
    BY <1>15, Zenon DEF ReadChannel, dbVars
  <2>2. \/ pc' = "catch" /\ UNCHANGED <<resume, declared>>
        \/ \E e \in DataBlocks :
             Declares(e, IF MoveToNextChannel THEN "readChannel" ELSE "finishGate")
    BY <1>15, DeclareActions, Zenon DEF Throw
  <2>3. \/ declared' = declared
        \/ \E e \in Block : e.bank # "DAQ" /\ declared' = Append(declared, e)
    BY <1>e, <2>2 DEF Declares
  <2>4. \/ pc' = "catch" /\ resume' = resume
        \/ \E next \in InGate : \/ pc' = next /\ resume' = resume
                                \/ pc' = "waitForAlive" /\ resume' = next
    BY <2>2 DEF Declares, InGate
  <2>5. /\ pc \in {"down", "exited"} => pc' = pc
        /\ pc' = pc \/ pc' \notin {"down", "writeMetadata", "daqHeader"}
        /\ Phase(BeforeGate)' => Phase(BeforeGate)
        /\ Phase(InGate)' => Phase(InGate)
    BY <2>1, <2>4, SMT DEF Phase, At, BeforeGate, InGate
  <2> QED
    BY <2>1, <2>3, <2>5, QuietMoves, Zenon
<1> QED
  BY <1>1, <1>2, <1>3, <1>4, <1>5, <1>6, <1>7, <1>8, <1>9, <1>10, <1>11, <1>12, <1>13,
     <1>14, <1>15, WhoMoves, Zenon DEF DAQStep

-----------------------------------------------------------------------------
(* Gates, SAM metadata and DAQ headers of one run.                         *)

\* The DAQ headers among the declared blocks are finitely many, and declaring a
\* further block adds its position if it is a DAQ header.
LEMMA HeadersGrow ==
  ASSUME NEW s \in Seq(Block), NEW e \in Block
  PROVE  /\ IsFiniteSet(DAQHeaders(s)) /\ Cardinality(DAQHeaders(s)) \in Nat
         /\ e.bank # "DAQ" => DAQHeaders(Append(s, e)) = DAQHeaders(s)
         /\ e.bank = "DAQ" =>
              /\ DAQHeaders(Append(s, e)) = DAQHeaders(s) \cup {Len(s) + 1}
              /\ Cardinality(DAQHeaders(Append(s, e))) = Cardinality(DAQHeaders(s)) + 1
         /\ \A i \in DAQHeaders(s) : Append(s, e)[i] = s[i]
<1>1. Len(s) \in Nat /\ Append(s, e) \in Seq(Block) /\ Len(Append(s, e)) = Len(s) + 1
      /\ (\A i \in 1..Len(s) : Append(s, e)[i] = s[i]) /\ Append(s, e)[Len(s) + 1] = e
  OBVIOUS
<1>2. DAQHeaders(s) \subseteq 1..Len(s) /\ IsFiniteSet(1..Len(s))
  BY <1>1, FS_Interval DEF DAQHeaders
<1>3. IsFiniteSet(DAQHeaders(s)) /\ Cardinality(DAQHeaders(s)) \in Nat
  BY <1>2, FS_Subset, FS_CardinalityType
<1>4. e.bank # "DAQ" => DAQHeaders(Append(s, e)) = DAQHeaders(s)
  BY <1>1 DEF DAQHeaders
<1>5. e.bank = "DAQ" => DAQHeaders(Append(s, e)) = DAQHeaders(s) \cup {Len(s) + 1}
  BY <1>1 DEF DAQHeaders
<1>6. Len(s) + 1 \notin DAQHeaders(s)
  BY <1>1, <1>2
<1>7. Cardinality(DAQHeaders(s) \cup {Len(s) + 1}) = Cardinality(DAQHeaders(s)) + 1
  BY <1>3, <1>6, FS_AddElement
<1> QED
  BY <1>1, <1>2, <1>3, <1>4, <1>5, <1>7

\* No DAQ header has been declared when nothing has.
LEMMA NoHeaders == DAQHeaders(<<>>) = {} /\ Cardinality(DAQHeaders(<<>>)) = 0
<1>1. DAQHeaders(<<>>) = {}
  BY DEF DAQHeaders
<1> QED
  BY <1>1, FS_EmptySet

\* The number of DAQ headers is a number.
LEMMA HeaderCountType ==
  ASSUME IInv
  PROVE  HeaderCount \in Nat
<1>1. declared \in Seq(Block) /\ TypeOK
  BY DEF IInv, TypeOK, ValuesOK
<1>2. Header("DAQ") \in Block
  BY <1>1, HeaderBlock DEF Banks
<1> QED
  BY <1>1, <1>2, HeadersGrow DEF HeaderCount

\* In a step that declares no DAQ header, the headers stay what they were.
LEMMA MovesKeepHeaders ==
  ASSUME IInv, Moves
  PROVE  /\ HeaderCount' = HeaderCount
         /\ DAQHeaders(declared') = DAQHeaders(declared)
         /\ \A i \in DAQHeaders(declared) : declared'[i] = declared[i]
<1>1. declared \in Seq(Block)
  BY DEF IInv, TypeOK, ValuesOK
<1>2. CASE declared' = declared
  BY <1>2 DEF HeaderCount
<1>3. CASE \E e \in Block : e.bank # "DAQ" /\ declared' = Append(declared, e)
  BY <1>1, <1>3, HeadersGrow DEF HeaderCount
<1> QED
  BY <1>2, <1>3 DEF Moves

\* DeclareDAQHeaderToET adds one header, with the current global gate.
LEMMA HeaderDeclared ==
  ASSUME IInv, DeclareDAQHeaderToET
  PROVE  /\ HeaderCount' = HeaderCount + 1
         /\ \A i \in DAQHeaders(declared') :
              \/ i \in DAQHeaders(declared) /\ declared'[i] = declared[i]
              \/ declared'[i].gg = globalGate
         /\ \/ pc' = "beginGate"
            \/ pc' = "waitForAlive" /\ resume' = "beginGate"
<1>1. declared \in Seq(Block) /\ TypeOK
  BY DEF IInv, TypeOK, ValuesOK
<1>2. Header("DAQ") \in Block /\ Header("DAQ").bank = "DAQ"
  BY <1>1, HeaderBlock DEF Banks
<1>3. Header("DAQ").gg = globalGate
  BY DEF Header
<1>4. Declares(Header("DAQ"), "beginGate")
  BY DeclareActions, Zenon
<1>5. declared' = Append(declared, Header("DAQ"))
  BY <1>4 DEF Declares
<1>6. declared'[Len(declared) + 1] = Header("DAQ")
  BY <1>1, <1>2, <1>5
<1>7. DAQHeaders(declared') = DAQHeaders(declared) \cup {Len(declared) + 1}
  BY <1>1, <1>2, <1>5, HeadersGrow
<1>8. HeaderCount' = HeaderCount + 1
  BY <1>1, <1>2, <1>5, HeadersGrow DEF HeaderCount
<1>9. \A i \in DAQHeaders(declared) : declared'[i] = declared[i]
  BY <1>1, <1>2, <1>5, HeadersGrow
<1>10. \/ pc' = "beginGate"
       \/ pc' = "waitForAlive" /\ resume' = "beginGate"
  BY <1>4 DEF Declares
<1> QED
  BY <1>3, <1>6, <1>7, <1>8, <1>9, <1>10

\* During a run whose global gate file works, the global gate in use is the
\* number in the file, one ahead of it while a gate is under way, and counts
\* the gates from firstGate on.
LEMMA RunNumberingStep ==
  ASSUME IInv, RunNumbering, [Next]_vars
  PROVE  RunNumbering'
<1>0. /\ ggFile \in Nat /\ globalGate \in Nat /\ gate \in Nat /\ firstGate \in Nat
      /\ runFault \in BOOLEAN
  BY DEF IInv, TypeOK, FlagsOK, ValuesOK
<1> USE DEF RunNumbering
<1>1. CASE Moves
  <2>1. /\ UNCHANGED <<globalGate, firstGate, gate, ggFile>>
        /\ runFault' <=> runFault
    BY <1>1, Zenon DEF Moves
  <2> QED
    BY <1>1, <2>1, Zenon DEF Moves
<1>2. CASE StartRun
  BY <1>2, SMT DEF StartRun, Phase, At, BeforeGate, InGate
<1>3. CASE StartDAQ(attached)
  <2>1. ~runFault' => globalGate' = ggFile
    BY <1>3, Zenon DEF StartDAQ
  <2>2. /\ pc' = "setUpET" /\ ggFile' = ggFile /\ gate' = 0 /\ globalGate' \in {0, ggFile}
        /\ firstGate' = globalGate' + 1
    BY <1>3, SMT DEF StartDAQ, FirstGate, GlobalGateFromFile
  <2>3. ~Phase(InGate)'
    BY <2>2 DEF Phase, At, InGate
  <2>4. globalGate' + 1 = firstGate' + gate'
    BY <1>0, <2>2
  <2> QED
    BY <2>1, <2>2, <2>3, <2>4
<1>4. CASE WaitForSequencer
  <2>1. runFault' <=> runFault
    BY <1>4, Zenon DEF WaitForSequencer
  <2>2. pc = "waitForSequencer" /\ ggFile' = ggFile /\ firstGate' = firstGate
    BY <1>4 DEF WaitForSequencer
  <2>3. \/ pc' = "catch" /\ globalGate' = globalGate /\ gate' = gate
        \/ /\ pc' \in {"readChannel", "resetInterrupts"}
           /\ gate' = gate + 1
           /\ globalGate' \in {ggFile + 1, globalGate + 1}
    BY <1>4, SMT DEF WaitForSequencer, Throw, GlobalGateFromFile
  <2>4. ~runFault => globalGate = ggFile /\ globalGate + 1 = firstGate + gate
    BY <2>2 DEF Phase, At, BeforeGate
  <2>5. ~Phase(BeforeGate)'
    BY <2>3 DEF Phase, At, BeforeGate
  <2>6. Phase(InGate)' => pc' = "readChannel"
    BY <2>3 DEF Phase, At, InGate
  <2> QED
    BY <1>0, <2>1, <2>2, <2>3, <2>4, <2>5, <2>6, SMT
<1>5. CASE FinishGate
  <2>1. globalGate' = globalGate /\ firstGate' = firstGate /\ gate' = gate /\ pc = "finishGate"
    BY <1>5 DEF FinishGate
  <2>2. ~runFault' => ~runFault
    BY <1>5, Zenon DEF FinishGate
  <2>3. ~runFault' => \/ pc' = "catch"
                      \/ pc' = "writeMetadata" /\ ggFile' = Overwrite(ggFile, globalGate)
    BY <1>5, Zenon DEF FinishGate, Throw
  <2>4. ~runFault => globalGate = ggFile + 1 /\ globalGate + 1 = firstGate + gate
    BY <2>1 DEF Phase, At, InGate
  <2>5. ggFile <= globalGate => Overwrite(ggFile, globalGate) = globalGate
    BY <1>0, OverwriteNumber
  <2>6. ~runFault' => ~Phase(BeforeGate)' /\ ~Phase(InGate)'
    BY <2>3 DEF Phase, At, BeforeGate, InGate
  <2> QED
    BY <1>0, <2>1, <2>2, <2>3, <2>4, <2>5, <2>6, SMT
<1>6. CASE WriteMetadata
  <2>1. /\ pc = "writeMetadata" /\ pc' = "daqHeader"
        /\ UNCHANGED <<globalGate, firstGate, gate, ggFile>>
    BY <1>6 DEF WriteMetadata
  <2>2. runFault' <=> runFault
    BY <1>6, Zenon DEF WriteMetadata
  <2>3. ~Phase(BeforeGate)' /\ ~Phase(InGate)'
    BY <2>1 DEF Phase, At, BeforeGate, InGate
  <2> QED
    BY <2>1, <2>2, <2>3, SMT
<1>7. CASE DeclareDAQHeaderToET
  <2>1. UNCHANGED <<globalGate, firstGate, gate, ggFile>> /\ pc = "daqHeader"
    BY <1>7 DEF DeclareDAQHeaderToET, recorderVars
  <2>2. runFault' <=> runFault
    BY <1>7, Zenon DEF DeclareDAQHeaderToET, recorderVars
  <2>3. \/ pc' = "beginGate"
        \/ pc' = "waitForAlive" /\ resume' = "beginGate"
    BY <1>7, HeaderDeclared
  <2>4. ~Phase(InGate)'
    BY <2>3 DEF Phase, At, InGate
  <2> QED
    BY <2>1, <2>2, <2>3, <2>4, SMT
<1>8. CASE WriteRunDataToDB
  <2>1. UNCHANGED <<globalGate, firstGate, gate,
     ggFile>> /\ pc = "writeRunData" /\ pc' = "exited"
    BY <1>8 DEF WriteRunDataToDB, recorderVars
  <2>2. runFault' <=> runFault
    BY <1>8, Zenon DEF WriteRunDataToDB, recorderVars
  <2>3. ~Phase(BeforeGate)' /\ ~Phase(InGate)'
    BY <2>1 DEF Phase, At, BeforeGate, InGate
  <2> QED
    BY <2>1, <2>2, <2>3, SMT
<1> HIDE DEF RunNumbering
<1> QED
  BY RecordSteps, <1>1, <1>2, <1>3, <1>4, <1>5, <1>6, <1>7, <1>8, Zenon DEF RecordStep

\* The DAQ headers follow the gates, one behind while a gate is under way.
LEMMA CountingStep ==
  ASSUME IInv, Counting, [Next]_vars
  PROVE  Counting'
<1>0. gate \in Nat
  BY DEF IInv, TypeOK, ValuesOK
<1>00. HeaderCount \in Nat
  BY HeaderCountType
<1> USE DEF Counting
<1>1. CASE Moves
  <2>1. gate' = gate /\ HeaderCount' = HeaderCount
    BY <1>1, MovesKeepHeaders DEF Moves
  <2>2. pc' # "down" => pc # "down"
    BY <1>1 DEF Moves
  <2>3. pc' \in {"writeMetadata", "daqHeader"} => pc' = pc
    BY <1>1 DEF Moves
  <2>4. (Phase(BeforeGate)' => Phase(BeforeGate)) /\ (Phase(InGate)' => Phase(InGate))
    BY <1>1, Zenon DEF Moves
  <2> QED
    BY <2>1, <2>2, <2>3, <2>4, Zenon
<1>2. CASE StartRun
  <2>1. pc' = "down"
    BY <1>2 DEF StartRun
  <2>2. ~Phase(BeforeGate)' /\ ~Phase(InGate)'
    BY <2>1 DEF Phase, At, BeforeGate, InGate
  <2> QED
    BY <2>1, <2>2, SMT
<1>3. CASE StartDAQ(attached)
  <2>1. pc = "down" /\ pc' = "setUpET" /\ gate' = 0 /\ declared' = declared
    BY <1>3 DEF StartDAQ, histVars
  <2>2. HeaderCount' = 0
    BY <2>1, NoHeaders DEF HeaderCount, IInv, Control
  <2>3. ~Phase(InGate)'
    BY <2>1 DEF Phase, At, InGate
  <2> QED
    BY <2>1, <2>2, <2>3, SMT
<1>4. CASE WaitForSequencer
  <2>1. pc = "waitForSequencer" /\ declared' = declared
    BY <1>4 DEF WaitForSequencer, histVars
  <2>2. HeaderCount' = HeaderCount
    BY <2>1 DEF HeaderCount
  <2>3. \/ pc' = "catch" /\ gate' = gate
        \/ pc' \in {"readChannel", "resetInterrupts"} /\ gate' = gate + 1
    BY <1>4, SMT DEF WaitForSequencer, Throw
  <2>4. HeaderCount = gate
    BY <2>1 DEF Phase, At, BeforeGate
  <2>5. ~Phase(BeforeGate)'
    BY <2>3 DEF Phase, At, BeforeGate
  <2>6. Phase(InGate)' => pc' = "readChannel"
    BY <2>3 DEF Phase, At, InGate
  <2> QED
    BY <1>0, <2>2, <2>3, <2>4, <2>5, <2>6, SMT
<1>5. CASE FinishGate
  <2>1. /\ pc = "finishGate" /\ declared' = declared /\ gate' = gate
        /\ pc' \in {"writeMetadata", "catch"}
    BY <1>5 DEF FinishGate, histVars, Throw
  <2>2. HeaderCount' = HeaderCount
    BY <2>1 DEF HeaderCount
  <2>3. HeaderCount + 1 = gate
    BY <2>1 DEF Phase, At, InGate
  <2>4. ~Phase(BeforeGate)' /\ ~Phase(InGate)'
    BY <2>1 DEF Phase, At, BeforeGate, InGate
  <2> QED
    BY <2>1, <2>2, <2>3, <2>4, SMT
<1>6. CASE WriteMetadata
  <2>1. /\ pc = "writeMetadata" /\ pc' = "daqHeader"
        /\ declared' = declared /\ gate' = gate
    BY <1>6 DEF WriteMetadata, histVars
  <2>2. HeaderCount' = HeaderCount
    BY <2>1 DEF HeaderCount
  <2>3. ~Phase(BeforeGate)' /\ ~Phase(InGate)'
    BY <2>1 DEF Phase, At, BeforeGate, InGate
  <2> QED
    BY <2>1, <2>2, <2>3, SMT
<1>7. CASE DeclareDAQHeaderToET
  <2>1. pc = "daqHeader" /\ gate' = gate
    BY <1>7 DEF DeclareDAQHeaderToET, recorderVars
  <2>2. /\ HeaderCount' = HeaderCount + 1
        /\ \/ pc' = "beginGate"
           \/ pc' = "waitForAlive" /\ resume' = "beginGate"
    BY <1>7, HeaderDeclared
  <2>3. ~Phase(InGate)'
    BY <2>2 DEF Phase, At, InGate
  <2> QED
    BY <1>0, <1>00, <2>1, <2>2, <2>3, SMT
<1>8. CASE WriteRunDataToDB
  <2>1. UNCHANGED <<gate, declared>> /\ pc = "writeRunData" /\ pc' = "exited"
    BY <1>8 DEF WriteRunDataToDB, recorderVars, histVars
  <2>2. HeaderCount' = HeaderCount
    BY <2>1 DEF HeaderCount
  <2>3. ~Phase(BeforeGate)' /\ ~Phase(InGate)'
    BY <2>1 DEF Phase, At, BeforeGate, InGate
  <2> QED
    BY <2>1, <2>2, <2>3, SMT
<1> HIDE DEF Counting
<1> QED
  BY RecordSteps, <1>1, <1>2, <1>3, <1>4, <1>5, <1>6, <1>7, <1>8, Zenon DEF RecordStep

\* When no DAQ header has been declared, HeaderGates has nothing to say.
LEMMA NoHeaderGates ==
  ASSUME declared = <<>>
  PROVE  HeaderGates
<1>1. DAQHeaders(declared) = {} /\ HeaderCount = 0
  BY NoHeaders DEF HeaderCount
<1>2. \A n : FirstHeaders(n) = {}
  BY <1>1 DEF FirstHeaders
<1>3. \A n \in 0..HeaderCount : n = 0
  BY <1>1
<1> QED
  BY <1>1, <1>2, <1>3, FS_EmptySet, Zenon DEF HeaderGates

\* A step that leaves the headers and firstGate alone keeps HeaderGates.
LEMMA SameHeaderGates ==
  ASSUME IInv, HeaderGates, firstGate' = firstGate, ~runFault' => ~runFault,
         DAQHeaders(declared') = DAQHeaders(declared),
         \A i \in DAQHeaders(declared) : declared'[i] = declared[i]
  PROVE  HeaderGates'
<1>1. HeaderCount' = HeaderCount
  BY DEF HeaderCount
<1>2. \A n : FirstHeaders(n)' = FirstHeaders(n)
  BY DEF FirstHeaders
<1>3. ASSUME ~runFault'
      PROVE  \A i \in DAQHeaders(declared') :
               firstGate' <= declared'[i].gg /\ declared'[i].gg < firstGate' + HeaderCount'
  BY <1>1, <1>3 DEF HeaderGates
<1>4. ASSUME ~runFault'
      PROVE  \A n \in 0..HeaderCount' : Cardinality(FirstHeaders(n)') = n
  BY <1>1, <1>2, <1>4, Zenon DEF HeaderGates
<1> QED
  BY <1>3, <1>4, Zenon DEF HeaderGates

\* The DAQ header of a gate has the global gate next to the last header's.
LEMMA NextHeaderGate ==
  ASSUME IInv, RunNumbering, Counting, HeaderGates, DeclareDAQHeaderToET, ~runFault
  PROVE  HeaderGates'
<1>0. /\ gate \in Nat /\ globalGate \in Nat /\ firstGate \in Nat /\ declared \in Seq(Block)
      /\ TypeOK
  BY DEF IInv, TypeOK, ValuesOK
<1>1. HeaderCount \in Nat
  BY HeaderCountType
<1>2. pc = "daqHeader" /\ firstGate' = firstGate
  BY DEF DeclareDAQHeaderToET, recorderVars
<1>3. globalGate = firstGate + HeaderCount
  <2>1. globalGate + 1 = firstGate + gate
    BY <1>2 DEF RunNumbering
  <2>2. HeaderCount + 1 = gate
    BY <1>2 DEF Counting
  <2> QED
    BY <1>0, <1>1, <2>1, <2>2
<1>4. Header("DAQ") \in Block /\ Header("DAQ").bank = "DAQ" /\ Header("DAQ").gg = globalGate
  <2>1. Header("DAQ") \in Block /\ Header("DAQ").bank = "DAQ"
    BY <1>0, HeaderBlock DEF Banks
  <2> QED
    BY <2>1 DEF Header
<1>5. declared' = Append(declared, Header("DAQ"))
  BY DeclareActions, Zenon DEF Declares
<1> DEFINE new == Len(declared) + 1
<1>6. /\ declared'[new].gg = globalGate
      /\ DAQHeaders(declared') = DAQHeaders(declared) \cup {new}
      /\ HeaderCount' = HeaderCount + 1
      /\ \A i \in DAQHeaders(declared) : declared'[i] = declared[i]
  <2>1. declared'[new] = Header("DAQ")
    BY <1>0, <1>4, <1>5
  <2> QED
    BY <1>0, <1>4, <1>5, <2>1, HeadersGrow DEF HeaderCount
<1>7. \A i \in DAQHeaders(declared) : declared[i].gg \in Nat
  <2>1. \A i \in DAQHeaders(declared) : declared[i] \in Block
    BY <1>0 DEF DAQHeaders
  <2> QED
    BY <2>1 DEF Block
<1>8. /\ \A i \in DAQHeaders(declared) :
           firstGate <= declared[i].gg /\ declared[i].gg < firstGate + HeaderCount
      /\ \A n \in 0..HeaderCount : Cardinality(FirstHeaders(n)) = n
  BY DEF HeaderGates
<1> HIDE DEF new
<1>9. \A i \in DAQHeaders(declared') :
        firstGate' <= declared'[i].gg /\ declared'[i].gg < firstGate' + HeaderCount'
  <2>1. \A i \in DAQHeaders(declared) :
          firstGate <= declared'[i].gg /\ declared'[i].gg < firstGate + (HeaderCount + 1)
    BY <1>0, <1>1, <1>6, <1>7, <1>8
  <2>2. firstGate <= declared'[new].gg /\ declared'[new].gg < firstGate + (HeaderCount + 1)
    BY <1>0, <1>1, <1>3, <1>6
  <2> QED
    BY <1>2, <1>6, <2>1, <2>2
<1>10. ASSUME NEW n \in 0..HeaderCount'
       PROVE  Cardinality(FirstHeaders(n)') = n
  <2>1. n \in Nat /\ (n <= HeaderCount \/ n = HeaderCount + 1)
    BY <1>1, <1>6
  <2>2. CASE n <= HeaderCount
    <3>1. ~(declared'[new].gg < firstGate + n)
      BY <1>0, <1>1, <1>3, <1>6, <2>1, <2>2
    <3>2. FirstHeaders(n)' = FirstHeaders(n)
      BY <1>2, <1>6, <3>1 DEF FirstHeaders
    <3> QED
      BY <1>1, <1>8, <2>1, <2>2, <3>2
  <2>3. CASE n = HeaderCount + 1
    <3>1. FirstHeaders(n)' = DAQHeaders(declared')
      BY <1>6, <1>9, <2>3 DEF FirstHeaders
    <3> QED
      BY <1>6, <2>3, <3>1 DEF HeaderCount
  <2> QED
    BY <2>1, <2>2, <2>3
<1> QED
  BY <1>9, <1>10, Zenon DEF HeaderGates

\* The DAQ headers of a run number its gates from firstGate on, one each.
LEMMA HeaderGatesStep ==
  ASSUME IInv, RunNumbering, Counting, HeaderGates, [Next]_vars
  PROVE  HeaderGates'
<1>1. CASE Moves
  <2>1. firstGate' = firstGate
    BY <1>1 DEF Moves
  <2>2. ~runFault' => ~runFault
    BY <1>1, Zenon DEF Moves
  <2> QED
    BY <1>1, <2>1, <2>2, MovesKeepHeaders, SameHeaderGates
<1>2. CASE StartRun \/ StartDAQ(attached)
  <2>1. declared' = <<>>
    BY <1>2 DEF StartRun, NewRunFiles, StartDAQ, histVars, IInv, Control
  <2>2. DAQHeaders(declared') = {} /\ HeaderCount' = 0
    BY <2>1, NoHeaders DEF HeaderCount
  <2>3. \A n : FirstHeaders(n)' = {}
    BY <2>2 DEF FirstHeaders
  <2>4. \A n \in 0..HeaderCount' : n = 0
    BY <2>2
  <2> QED
    BY <2>2, <2>3, <2>4, FS_EmptySet, Zenon DEF HeaderGates
<1>3. CASE WaitForSequencer \/ FinishGate \/ WriteMetadata \/ WriteRunDataToDB
  <2>1. firstGate' = firstGate /\ declared' = declared
    BY <1>3 DEF WaitForSequencer, FinishGate, WriteMetadata, WriteRunDataToDB, recorderVars,
                histVars
  <2>2. ~runFault' => ~runFault
    BY <1>3, Zenon DEF WaitForSequencer, FinishGate, WriteMetadata, WriteRunDataToDB,
                       recorderVars
  <2> QED
    BY <2>1, <2>2, SameHeaderGates
<1>4. CASE DeclareDAQHeaderToET
  <2>1. runFault' <=> runFault
    BY <1>4, Zenon DEF DeclareDAQHeaderToET, recorderVars
  <2>2. runFault => HeaderGates'
    BY <2>1, Zenon DEF HeaderGates
  <2> QED
    BY <1>4, <2>2, NextHeaderGate
<1> QED
  BY RecordSteps, <1>1, <1>2, <1>3, <1>4, Zenon DEF RecordStep

\* What the files say, as numbers.
LEMMA SamTypes ==
  ASSUME IInv, NEW f \in MetadataFiles
  PROVE  /\ sam[f].run \in Nat /\ sam[f].events \in Nat
         /\ sam[f].firstEvent \in Nat /\ sam[f].lastEvent \in Nat
<1>1. sam[f] \in [run : Nat, events : Nat, firstEvent : Nat, lastEvent : Nat]
  BY DEF IInv, TypeOK, ValuesOK
<1> QED
  BY <1>1

\* A file that could be opened counts the gates; one that could not still
\* describes the run as it was at an earlier gate, or another run.
LEMMA DescribedStep ==
  ASSUME IInv, RunNumbering, Counting, Described, [Next]_vars
  PROVE  Described'
<1>0. /\ gate \in Nat /\ globalGate \in Nat /\ firstGate \in Nat /\ run \in Nat
  BY DAQAssumption DEF IInv, TypeOK, ValuesOK
<1>00. HeaderCount \in Nat
  BY HeaderCountType
<1> SUFFICES ASSUME NEW f \in MetadataFiles
             PROVE  /\ sam'[f].run <= run'
                    /\ pc' = "daqHeader" /\ f \notin stale' =>
                         sam'[f].run = run' /\ sam'[f].events = gate'
                    /\ OfThisRun(f)' =>
                         /\ sam'[f].events <= gate'
                         /\ f \notin stale' => HeaderCount' <= sam'[f].events
                         /\ ~runFault' => /\ sam'[f].firstEvent = firstGate'
                                          /\ sam'[f].lastEvent + 1 = firstGate' + sam'[f].events
  BY Zenon DEF Described
<1>t. /\ sam[f].run \in Nat /\ sam[f].events \in Nat
      /\ sam[f].firstEvent \in Nat /\ sam[f].lastEvent \in Nat
  BY SamTypes
<1>i. /\ sam[f].run <= run
      /\ pc = "daqHeader" /\ f \notin stale => sam[f].run = run /\ sam[f].events = gate
      /\ OfThisRun(f) =>
           /\ sam[f].events <= gate
           /\ f \notin stale => HeaderCount <= sam[f].events
           /\ ~runFault => /\ sam[f].firstEvent = firstGate
                           /\ sam[f].lastEvent + 1 = firstGate + sam[f].events
  BY DEF Described
<1>1. CASE Moves
  <2>1. /\ UNCHANGED <<firstGate, sam, stale, run, gate>>
        /\ pc' = "daqHeader" => pc = "daqHeader"
        /\ pc' # "down" => pc # "down"
    BY <1>1 DEF Moves
  <2>2. runFault' <=> runFault
    BY <1>1, Zenon DEF Moves
  <2>3. HeaderCount' = HeaderCount
    BY <1>1, MovesKeepHeaders
  <2>4. OfThisRun(f)' => OfThisRun(f)
    BY <2>1 DEF OfThisRun
  <2> QED
    BY <1>i, <2>1, <2>2, <2>3, <2>4, SMT
<1>2. CASE StartRun
  <2>1. pc' = "down" /\ run' = run
    BY <1>2 DEF StartRun
  <2>2. sam'[f].run = sam[f].run \/ sam'[f].run = 0
    BY <1>2 DEF StartRun, NewRunFiles, NoMetadata
  <2> QED
    BY <1>0, <1>i, <2>1, <2>2 DEF OfThisRun
<1>3. CASE StartDAQ(attached)
  <2>1. pc' = "setUpET" /\ sam' = sam /\ run' = run + 1
    BY <1>3 DEF StartDAQ
  <2> QED
    BY <1>0, <1>t, <1>i, <2>1 DEF OfThisRun
<1>4. CASE WaitForSequencer \/ FinishGate
  <2>1. /\ UNCHANGED <<sam, stale, run, firstGate, declared>> /\ pc # "down" /\ pc' # "daqHeader"
        /\ gate' = gate \/ gate' = gate + 1
    BY <1>4 DEF WaitForSequencer, FinishGate, Throw, histVars
  <2>2. ~runFault' => ~runFault
    BY <1>4, Zenon DEF WaitForSequencer, FinishGate
  <2>3. HeaderCount' = HeaderCount
    BY <2>1 DEF HeaderCount
  <2>4. OfThisRun(f)' => OfThisRun(f)
    BY <2>1 DEF OfThisRun
  <2> QED
    BY <1>0, <1>t, <1>i, <2>1, <2>2, <2>3, <2>4, SMT
<1>5. CASE WriteMetadata
  <2>1. /\ UNCHANGED <<run, firstGate, globalGate, gate, declared>>
        /\ pc = "writeMetadata" /\ pc' = "daqHeader"
        /\ \/ sam'[f] = sam[f] /\ f \in stale'
           \/ sam'[f] = Metadata /\ f \notin stale'
    BY <1>5 DEF WriteMetadata, histVars
  <2>2. runFault' <=> runFault
    BY <1>5, Zenon DEF WriteMetadata
  <2>3. HeaderCount' = HeaderCount
    BY <2>1 DEF HeaderCount
  <2>4. HeaderCount + 1 = gate /\ (~runFault => globalGate + 1 = firstGate + gate)
    BY <2>1 DEF Counting, RunNumbering
  <2>5. CASE sam'[f] = sam[f] /\ f \in stale'
    <3>1. OfThisRun(f)' => OfThisRun(f)
      BY <2>1, <2>5 DEF OfThisRun
    <3> QED
      BY <1>i, <2>1, <2>2, <2>5, <3>1, SMT
  <2>6. CASE sam'[f] = Metadata
    <3>1. /\ sam'[f].run = run /\ sam'[f].events = gate
          /\ sam'[f].firstEvent = firstGate /\ sam'[f].lastEvent = globalGate
      BY <2>6 DEF Metadata
    <3> QED
      BY <1>0, <1>00, <2>1, <2>2, <2>3, <2>4, <3>1, SMT
  <2> QED
    BY <2>1, <2>5, <2>6
<1>6. CASE DeclareDAQHeaderToET
  <2>1. UNCHANGED <<sam, stale, run, firstGate, gate>> /\ pc = "daqHeader" /\ pc' # "daqHeader"
    BY <1>6, HeaderDeclared DEF DeclareDAQHeaderToET, recorderVars
  <2>2. runFault' <=> runFault
    BY <1>6, Zenon DEF DeclareDAQHeaderToET, recorderVars
  <2>3. HeaderCount' = gate
    BY <1>6, <2>1, HeaderDeclared DEF Counting
  <2>4. OfThisRun(f)' => OfThisRun(f)
    BY <2>1 DEF OfThisRun
  <2> QED
    BY <1>0, <1>t, <1>i, <2>1, <2>2, <2>3, <2>4, SMT
<1>7. CASE WriteRunDataToDB
  <2>1. UNCHANGED <<sam, stale, run, firstGate, gate, declared>> /\ pc = "writeRunData"
        /\ pc' = "exited"
    BY <1>7 DEF WriteRunDataToDB, recorderVars, histVars
  <2>2. runFault' <=> runFault
    BY <1>7, Zenon DEF WriteRunDataToDB, recorderVars
  <2>3. HeaderCount' = HeaderCount
    BY <2>1 DEF HeaderCount
  <2>4. OfThisRun(f)' => OfThisRun(f)
    BY <2>1 DEF OfThisRun
  <2> QED
    BY <1>i, <2>1, <2>2, <2>3, <2>4, SMT
<1> QED
  BY RecordSteps, <1>1, <1>2, <1>3, <1>4, <1>5, <1>6, <1>7, Zenon DEF RecordStep

\* The invariants about one run hold at the start.
LEMMA RunInvariantsInit ==
  ASSUME Init
  PROVE  RunNumbering /\ Counting /\ HeaderGates /\ Described
<1>1. /\ pc = "down" /\ sam = [f \in MetadataFiles |-> NoMetadata]
      /\ declared = <<>> /\ run = 0
  BY DEF Init, DAQInit
<1>2. ~Phase(BeforeGate) /\ ~Phase(InGate)
  BY <1>1 DEF Phase, At, BeforeGate, InGate
<1>3. HeaderGates
  BY <1>1, NoHeaderGates
<1>4. Described
  BY <1>1 DEF Described, OfThisRun, NoMetadata
<1> QED
  BY <1>1, <1>2, <1>3, <1>4 DEF RunNumbering, Counting

\* The DAQ headers in the range of a file that the run has written: as many as the
\* file counts, or all there are.
LEMMA CoveredHeaders ==
  ASSUME IInv, Counting, HeaderGates, Described, ~runFault,
         NEW f \in MetadataFiles, OfThisRun(f)
  PROVE  LET covered == {i \in DAQHeaders(declared) :
                           declared[i].gg \in sam[f].firstEvent..sam[f].lastEvent}
         IN  /\ sam[f].lastEvent = sam[f].firstEvent + sam[f].events - 1
             /\ Cardinality(covered) \in {sam[f].events - 1, sam[f].events}
             /\ f \notin stale => covered = DAQHeaders(declared)
<1> DEFINE covered == {i \in DAQHeaders(declared) :
                         declared[i].gg \in sam[f].firstEvent..sam[f].lastEvent}
<1>0. firstGate \in Nat /\ gate \in Nat /\ declared \in Seq(Block)
  BY DEF IInv, TypeOK, ValuesOK
<1>1. HeaderCount \in Nat
  BY HeaderCountType
<1>2. /\ sam[f].events \in Nat /\ sam[f].firstEvent \in Nat /\ sam[f].lastEvent \in Nat
  BY SamTypes
<1>3. /\ sam[f].events <= gate
      /\ f \notin stale => HeaderCount <= sam[f].events
      /\ sam[f].firstEvent = firstGate
      /\ sam[f].lastEvent + 1 = firstGate + sam[f].events
  BY DEF Described
<1>4. sam[f].events <= HeaderCount + 1
  BY <1>0, <1>1, <1>2, <1>3 DEF Counting, OfThisRun
<1>5. \A i \in DAQHeaders(declared) : declared[i].gg \in Nat
  <2>1. \A i \in DAQHeaders(declared) : declared[i] \in Block
    BY <1>0 DEF DAQHeaders
  <2> QED
    BY <2>1 DEF Block
<1>6. /\ \A i \in DAQHeaders(declared) :
           firstGate <= declared[i].gg /\ declared[i].gg < firstGate + HeaderCount
      /\ \A n \in 0..HeaderCount : Cardinality(FirstHeaders(n)) = n
  BY DEF HeaderGates
<1>7. covered = FirstHeaders(sam[f].events)
  BY <1>0, <1>2, <1>3, <1>5, <1>6 DEF FirstHeaders
<1>8. HeaderCount <= sam[f].events => covered = DAQHeaders(declared)
  BY <1>0, <1>1, <1>2, <1>5, <1>6, <1>7 DEF FirstHeaders
<1> HIDE DEF covered
<1>9. Cardinality(covered) \in {sam[f].events - 1, sam[f].events}
  <2>1. CASE sam[f].events <= HeaderCount
    <3>1. sam[f].events \in 0..HeaderCount
      BY <1>1, <1>2, <2>1
    <3>2. Cardinality(covered) = sam[f].events
      BY <1>6, <1>7, <3>1, Zenon
    <3> QED
      BY <3>2
  <2>2. CASE sam[f].events = HeaderCount + 1
    <3>1. covered = DAQHeaders(declared)
      BY <1>1, <1>8, <2>2
    <3>2. Cardinality(covered) = HeaderCount
      BY <3>1, Zenon DEF HeaderCount
    <3> QED
      BY <1>1, <2>2, <3>2
  <2> QED
    BY <1>1, <1>2, <1>4, <2>1, <2>2
<1>10. sam[f].lastEvent = sam[f].firstEvent + sam[f].events - 1
  BY <1>0, <1>2, <1>3
<1> QED
  BY <1>3, <1>8, <1>9, <1>10 DEF covered

\* For every number of gates and metadata files, wherever an exception, a signal or
\* a crash ends the run, and whichever files could not be opened at which gates: a
\* metadata file that a run has written spans exactly the gates it counts, with
\* their DAQ headers, and the last one that could be opened covers them all.
THEOREM MetadataCorrect == Spec => []MetadataMatchesHeaders
<1>1. Init => RunNumbering /\ Counting /\ HeaderGates /\ Described
  BY RunInvariantsInit
<1>2. /\ IInv /\ RunNumbering /\ [Next]_vars => RunNumbering'
      /\ IInv /\ Counting /\ [Next]_vars => Counting'
      /\ IInv /\ RunNumbering /\ Counting /\ HeaderGates /\ [Next]_vars => HeaderGates'
      /\ IInv /\ RunNumbering /\ Counting /\ Described /\ [Next]_vars => Described'
  BY RunNumberingStep, CountingStep, HeaderGatesStep, DescribedStep
<1>3. IInv /\ Counting /\ HeaderGates /\ Described => MetadataMatchesHeaders
  BY CoveredHeaders, Zenon DEF MetadataMatchesHeaders, OfThisRun
<1> QED
  BY <1>1, <1>2, <1>3, Invariance, PTL DEF Spec

-----------------------------------------------------------------------------
(* The run database.                                                       *)

\* The columns of a row are numbers.
LEMMA RowTypes ==
  ASSUME IInv
  PROVE  /\ Len(dbRuns) \in Nat
         /\ \A k \in 1..Len(dbRuns) :
              dbRuns[k].run \in Nat /\ dbRuns[k].first \in Nat /\ dbRuns[k].last \in Nat
<1> DEFINE Row == [run : Nat, first : Nat, last : Nat]
<1>1. dbRuns \in Seq(Row)
  BY DEF IInv, TypeOK, ValuesOK
<1>2. \A r \in Row : r.run \in Nat /\ r.first \in Nat /\ r.last \in Nat
  OBVIOUS
<1> HIDE DEF Row
<1>3. Len(dbRuns) \in Nat /\ \A k \in 1..Len(dbRuns) : dbRuns[k] \in Row
  BY <1>1
<1> QED
  BY <1>2, <1>3

\* The row that WriteRunDataToDB adds, if it adds one.
LEMMA RowAdded ==
  ASSUME IInv, WriteRunDataToDB
  PROVE  /\ pc = "writeRunData" /\ pc' = "exited"
         /\ UNCHANGED <<run, gate, globalGate, firstGate, ggFile, sam, declared>>
         /\ (runFault' <=> runFault) /\ (fileFault' <=> fileFault)
         /\ \/ dbRuns' = dbRuns
            \/ /\ Len(dbRuns') = Len(dbRuns) + 1
               /\ \A k \in 1..Len(dbRuns) : dbRuns'[k] = dbRuns[k]
               /\ dbRuns'[Len(dbRuns) + 1].run = run
               /\ dbRuns'[Len(dbRuns) + 1].first = firstGate
               /\ dbRuns'[Len(dbRuns) + 1].last = globalGate
<1>0. /\ dbRuns \in Seq([run : Nat, first : Nat, last : Nat])
      /\ run \in Nat /\ firstGate \in Nat /\ globalGate \in Nat
  BY DAQAssumption DEF IInv, TypeOK, ValuesOK
<1>1. /\ pc = "writeRunData" /\ pc' = "exited"
      /\ UNCHANGED <<run, gate, globalGate, firstGate, ggFile, sam, declared>>
  BY DEF WriteRunDataToDB, recorderVars, histVars
<1>2. (runFault' <=> runFault) /\ (fileFault' <=> fileFault)
  BY Zenon DEF WriteRunDataToDB, recorderVars
<1>3. dbRuns' = dbRuns \/ dbRuns' = Append(dbRuns, RunData)
  BY DEF WriteRunDataToDB
<1>4. /\ RunData \in [run : Nat, first : Nat, last : Nat]
      /\ RunData.run = run /\ RunData.first = firstGate /\ RunData.last = globalGate
  BY <1>0 DEF RunData
<1>5. CASE dbRuns' = Append(dbRuns, RunData)
  <2>1. /\ Len(dbRuns') = Len(dbRuns) + 1
        /\ \A k \in 1..Len(dbRuns) : dbRuns'[k] = dbRuns[k]
        /\ dbRuns'[Len(dbRuns) + 1] = RunData
    BY <1>0, <1>4, <1>5
  <2> QED
    BY <1>1, <1>2, <1>4, <2>1
<1> QED
  BY <1>1, <1>2, <1>3, <1>5

\* A row with the number of the current run is written when minervadaq ends,
\* and nothing changes the recorder afterwards.
LEMMA RowsStep ==
  ASSUME IInv, Rows, [Next]_vars
  PROVE  Rows'
<1>0. /\ dbRuns \in Seq([run : Nat, first : Nat, last : Nat]) /\ run \in Nat
  BY DAQAssumption DEF IInv, TypeOK, ValuesOK
<1>00. Len(dbRuns) \in Nat /\ \A k \in 1..Len(dbRuns) : dbRuns[k].run \in Nat
  BY RowTypes
<1> USE DEF Rows
<1>1. CASE Moves
  <2>1. /\ UNCHANGED <<dbRuns, run, firstGate, globalGate>>
        /\ pc \in {"down", "exited"} => pc' = pc
    BY <1>1 DEF Moves
  <2> QED
    BY <2>1, SMT
<1>2. CASE StartRun
  <2>1. UNCHANGED <<dbRuns, run>> /\ pc' = "down"
    BY <1>2 DEF StartRun, dbVars
  <2> QED
    BY <2>1, SMT
<1>3. CASE StartDAQ(attached)
  <2>1. dbRuns' = dbRuns /\ run' = run + 1
    BY <1>3 DEF StartDAQ, dbVars
  <2>2. ASSUME NEW k \in 1..Len(dbRuns)
        PROVE  dbRuns[k].run <= run + 1 /\ dbRuns[k].run # run + 1
    BY <1>0, <1>00, SMT
  <2> HIDE DEF Rows
  <2>3. \A k \in 1..Len(dbRuns') : dbRuns'[k].run <= run' /\ dbRuns'[k].run # run'
    BY <2>1, <2>2, Zenon
  <2> QED
    BY <2>3, Zenon DEF Rows
<1>4. CASE WaitForSequencer \/ FinishGate \/ WriteMetadata \/ DeclareDAQHeaderToET
  <2>1. UNCHANGED <<dbRuns, run>> /\ pc \notin {"down", "exited"}
    BY <1>4 DEF WaitForSequencer, FinishGate, WriteMetadata, DeclareDAQHeaderToET, dbVars
  <2> QED
    BY <2>1, SMT
<1>5. CASE WriteRunDataToDB
  <2>1. /\ pc = "writeRunData" /\ pc' = "exited" /\ UNCHANGED <<run, firstGate, globalGate>>
    BY <1>5, RowAdded
  <2>2. CASE dbRuns' = dbRuns
    BY <2>1, <2>2, SMT
  <2>3. CASE /\ Len(dbRuns') = Len(dbRuns) + 1
             /\ \A k \in 1..Len(dbRuns) : dbRuns'[k] = dbRuns[k]
             /\ dbRuns'[Len(dbRuns) + 1].run = run
             /\ dbRuns'[Len(dbRuns) + 1].first = firstGate
             /\ dbRuns'[Len(dbRuns) + 1].last = globalGate
    <3> SUFFICES ASSUME NEW k \in 1..Len(dbRuns')
                 PROVE  /\ dbRuns'[k].run <= run
                        /\ dbRuns'[k].run = run =>
                             dbRuns'[k].first = firstGate /\ dbRuns'[k].last = globalGate
      BY <2>1
    <3>1. CASE k \in 1..Len(dbRuns)
      BY <2>1, <2>3, <3>1, SMT
    <3>2. CASE k = Len(dbRuns) + 1
      BY <1>0, <2>3, <3>2, SMT
    <3> QED
      BY <1>00, <2>3, <3>1, <3>2, SMT
  <2> QED
    BY <1>5, <2>2, <2>3, RowAdded
<1> HIDE DEF Rows
<1> QED
  BY RecordSteps, <1>1, <1>2, <1>3, <1>4, <1>5, Zenon DEF RecordStep

\* The row of a run covers every DAQ header of the run, however the run ended,
\* unless the global gate file failed during it.
THEOREM RowCoversHeaders == Spec => []DBRowCoversHeaders
<1>1. Init => RunNumbering /\ Counting /\ HeaderGates /\ Rows
  <2>1. Init => Rows
    BY DEF Init, DAQInit, Rows
  <2> QED
    BY <2>1, RunInvariantsInit
<1>2. /\ IInv /\ RunNumbering /\ [Next]_vars => RunNumbering'
      /\ IInv /\ Counting /\ [Next]_vars => Counting'
      /\ IInv /\ RunNumbering /\ Counting /\ HeaderGates /\ [Next]_vars => HeaderGates'
      /\ IInv /\ Rows /\ [Next]_vars => Rows'
  BY RunNumberingStep, CountingStep, HeaderGatesStep, RowsStep
<1>3. ASSUME IInv, RunNumbering, Counting, HeaderGates, Rows, ~runFault,
             NEW k \in 1..Len(dbRuns), dbRuns[k].run = run,
             NEW i \in DAQHeaders(declared)
      PROVE  declared[i].gg \in dbRuns[k].first..dbRuns[k].last
  <2>1. /\ gate \in Nat /\ globalGate \in Nat
        /\ firstGate \in Nat /\ declared \in Seq(Block)
    BY <1>3 DEF IInv, TypeOK, ValuesOK
  <2>2. declared[i] \in Block
    BY <2>1 DEF DAQHeaders
  <2>3. declared[i].gg \in Nat
    BY <2>2 DEF Block
  <2>4. pc # "down"
    <3>1. pc = "down" => DAQHeaders(declared) = {}
      BY <1>3, NoHeaders DEF IInv, Control
    <3> QED
      BY <3>1
  <2>5. dbRuns[k].first = firstGate /\ dbRuns[k].last = globalGate
    BY <1>3, <2>4 DEF Rows
  <2>6. globalGate + 1 = firstGate + gate
    BY <1>3, <2>4 DEF RunNumbering
  <2>7. firstGate <= declared[i].gg /\ declared[i].gg < firstGate + HeaderCount
    BY <1>3 DEF HeaderGates
  <2>8. HeaderCount \in Nat /\ HeaderCount <= gate
    BY <1>3, <2>1, <2>4, HeaderCountType DEF Counting
  <2> QED
    BY <2>1, <2>3, <2>5, <2>6, <2>7, <2>8
<1>4. IInv /\ RunNumbering /\ Counting /\ HeaderGates /\ Rows => DBRowCoversHeaders
  BY <1>3, Zenon DEF DBRowCoversHeaders
<1> QED
  BY <1>1, <1>2, <1>4, Invariance, PTL DEF Spec

\* A run's range ends at most one gate after the number in the file, which is
\* where the next run's range begins.
LEMMA RangesStep ==
  ASSUME IInv, Numbering, Ranges, [Next]_vars
  PROVE  Ranges'
<1>0. /\ ggFile \in Nat /\ globalGate \in Nat /\ firstGate \in Nat
      /\ Len(dbRuns) \in Nat
      /\ \A k \in 1..Len(dbRuns) : dbRuns[k].first \in Nat /\ dbRuns[k].last \in Nat
  BY RowTypes DEF IInv, TypeOK, ValuesOK
<1> USE DEF Ranges
<1>1. CASE Moves
  <2>1. /\ UNCHANGED <<globalGate, firstGate, ggFile, dbRuns>>
        /\ pc \in {"down", "exited"} => pc' = pc
    BY <1>1 DEF Moves
  <2>2. fileFault' <=> fileFault
    BY <1>1, Zenon DEF Moves
  <2> QED
    BY <2>1, <2>2, SMT
<1>2. CASE StartRun
  <2>1. UNCHANGED <<globalGate, ggFile, dbRuns>> /\ pc' = "down"
    BY <1>2 DEF StartRun, dbVars
  <2>2. fileFault' <=> fileFault
    BY <1>2, Zenon DEF StartRun
  <2> QED
    BY <2>1, <2>2, SMT
<1>3. CASE StartDAQ(attached)
  <2>1. ~fileFault' => ~fileFault /\ globalGate' = ggFile
    BY <1>3, Zenon DEF StartDAQ
  <2>2. /\ dbRuns' = dbRuns /\ ggFile' = ggFile /\ firstGate' = globalGate' + 1
    BY <1>3 DEF StartDAQ, dbVars, FirstGate
  <2> QED
    BY <1>0, <2>1, <2>2, SMT
<1>4. CASE WaitForSequencer
  <2>1. fileFault' <=> fileFault
    BY <1>4, Zenon DEF WaitForSequencer
  <2>2. /\ pc = "waitForSequencer" /\ UNCHANGED <<ggFile, firstGate, dbRuns>>
        /\ globalGate' \in {globalGate, ggFile + 1, globalGate + 1}
    BY <1>4, SMT DEF WaitForSequencer, GlobalGateFromFile, dbVars
  <2>3. ~fileFault => globalGate = ggFile
    BY <2>2 DEF Numbering, At
  <2> QED
    BY <1>0, <2>1, <2>2, <2>3, SMT
<1>5. CASE FinishGate
  <2>1. /\ pc = "finishGate" /\ UNCHANGED <<globalGate, firstGate, dbRuns>>
    BY <1>5 DEF FinishGate, dbVars
  <2>2. ~fileFault' =>
          /\ ~fileFault
          /\ ggFile' = ggFile \/ ggFile' = Overwrite(ggFile, globalGate)
    BY <1>5, Zenon DEF FinishGate
  <2>3. ~fileFault => globalGate = ggFile + 1
    BY <2>1 DEF Numbering, At
  <2>4. ggFile <= globalGate => Overwrite(ggFile, globalGate) = globalGate
    BY <1>0, OverwriteNumber
  <2> QED
    BY <1>0, <2>1, <2>2, <2>3, <2>4, SMT
<1>6. CASE WriteMetadata \/ DeclareDAQHeaderToET
  <2>0. fileFault' = fileFault
    BY <1>6 DEF WriteMetadata, DeclareDAQHeaderToET, recorderVars
  <2>1. fileFault' <=> fileFault
    BY <2>0, Zenon
  <2>2. UNCHANGED <<globalGate, firstGate, ggFile, dbRuns>> /\ pc \notin {"down", "exited"}
    BY <1>6 DEF WriteMetadata, DeclareDAQHeaderToET, recorderVars, dbVars
  <2> QED
    BY <2>1, <2>2, SMT
<1>7. CASE WriteRunDataToDB
  <2>1. /\ pc = "writeRunData" /\ pc' = "exited" /\ UNCHANGED <<globalGate, firstGate, ggFile>>
        /\ fileFault' <=> fileFault
    BY <1>7, RowAdded
  <2>2. CASE dbRuns' = dbRuns
    BY <2>1, <2>2, SMT
  <2>3. CASE /\ Len(dbRuns') = Len(dbRuns) + 1
             /\ \A k \in 1..Len(dbRuns) : dbRuns'[k] = dbRuns[k]
             /\ dbRuns'[Len(dbRuns) + 1].first = firstGate
             /\ dbRuns'[Len(dbRuns) + 1].last = globalGate
    <3> SUFFICES ASSUME ~fileFault
                 PROVE  /\ \A i \in 1..Len(dbRuns') : dbRuns'[i].last <= ggFile + 1
                        /\ \A i, j \in 1..Len(dbRuns') :
                             i < j => dbRuns'[i].last <= dbRuns'[j].first
      BY <2>1, SMT
    <3>1. \A i \in 1..Len(dbRuns') : i \in 1..Len(dbRuns) \/ i = Len(dbRuns) + 1
      BY <1>0, <2>3
    <3>2. /\ globalGate <= ggFile + 1
          /\ \A i \in 1..Len(dbRuns) :
               dbRuns[i].last <= ggFile + 1 /\ dbRuns[i].last <= firstGate
          /\ \A i, j \in 1..Len(dbRuns) : i < j => dbRuns[i].last <= dbRuns[j].first
      BY <2>1
    <3>3. \A i \in 1..Len(dbRuns') : dbRuns'[i].last <= ggFile + 1
      BY <2>3, <3>1, <3>2
    <3>4. \A i, j \in 1..Len(dbRuns') : i < j => dbRuns'[i].last <= dbRuns'[j].first
      BY <1>0, <2>3, <3>1, <3>2
    <3> QED
      BY <3>3, <3>4
  <2> QED
    BY <1>7, <2>2, <2>3, RowAdded
<1> HIDE DEF Ranges
<1> QED
  BY RecordSteps, <1>1, <1>2, <1>3, <1>4, <1>5, <1>6, <1>7, Zenon DEF RecordStep

\* For every number of runs, and however each of them ends, the gate ranges of
\* two rows share at most one gate as long as the global gate file works.
THEOREM RangesMeetAtMostOnce == Spec => []RunRangesMeetAtMostOnce
<1>1. Init => Numbering /\ Ranges
  <2>1. Init => Numbering
    BY DEF Init, DAQInit, Numbering, At
  <2>2. Init => Ranges
    BY DAQAssumption DEF Init, DAQInit, Ranges
  <2> QED
    BY <2>1, <2>2
<1>2. /\ IInv /\ Numbering /\ [Next]_vars => Numbering'
      /\ IInv /\ Numbering /\ Ranges /\ [Next]_vars => Ranges'
  BY NumberingStep, RangesStep
<1>3. Ranges => RunRangesMeetAtMostOnce
  BY DEF Ranges, RunRangesMeetAtMostOnce
<1> QED
  BY <1>1, <1>2, <1>3, Invariance, PTL DEF Spec

-----------------------------------------------------------------------------
(* The raw data file when minervadaq does not wait for the event builder.  *)

\* What reaches the file is what was put into ET from some block on.
LEMMA SkippingStep ==
  ASSUME IInv, Skipping, [Next]_vars
  PROVE  Skipping'
<1>0. /\ station \in Seq(Block) /\ hand \in Seq(Block)
      /\ sent \in Seq(Block) /\ raw \in Seq(Block)
  BY DEF IInv, TypeOK, ValuesOK
<1>1. Pool
  BY DEF IInv
<1>k. PICK k \in 0..Len(sent) : Skips(k)
  BY DEF Skipping
<1>l. ASSUME Skips(k)', Len(sent') \in Nat, Len(raw') \in Nat
      PROVE  Skipping'
  <2>1. k + Len(raw') <= Len(sent')
    BY <1>l DEF Skips
  <2>2. k \in 0..Len(sent')
    BY <1>l, <2>1
  <2> QED
    BY <1>l, <2>2 DEF Skipping
<1>m. /\ Len(station) \in Nat /\ Len(raw) \in Nat /\ Len(sent) \in Nat
      /\ Taken \in Nat /\ k \in Nat
  BY <1>0 DEF Taken
<1>2. CASE StartRun
  <2>1. raw' = <<>> /\ sent' = <<>>
    BY <1>2 DEF StartRun, StartEB, NewRunFiles
  <2>2. ~attached'
    BY <1>2, Zenon DEF StartRun
  <2>3. Skips(0)'
    BY <2>1, <2>2 DEF Skips
  <2> QED
    BY <2>1, <2>3 DEF Skipping
<1>3. CASE Aside
  <2>1. UNCHANGED <<station, sent, hand, raw>>
    BY <1>3 DEF Aside
  <2>2. /\ ebPc' = "write" <=> ebPc = "write"
        /\ ebPc' \in {"off", "starting"} => ebPc \in {"off", "starting"}
    BY <1>3 DEF Aside, AttachedPoints
  <2>3. attached' <=> attached
    BY <1>3, Zenon DEF Aside
  <2>4. Taken' = Taken
    BY <2>1, <2>2 DEF Taken
  <2>5. Skips(k)'
    BY <1>k, <2>1, <2>2, <2>3, <2>4 DEF Skips
  <2> QED
    BY <1>l, <1>m, <2>1, <2>5
<1>4. CASE DeclaresBlock
  <2>1. PICK e \in Block : \E next : Declares(e, next)
    BY <1>4 DEF DeclaresBlock
  <2>2. hand' = hand /\ ebPc' = ebPc /\ raw' = raw
    BY <1>4 DEF DeclaresBlock, ebVars
  <2>3. Taken' = Taken
    BY <2>2 DEF Taken
  <2>4. attached' = attached
    BY <2>1 DEF Declares
  <2>5. attached' <=> attached
    BY <2>4, Zenon
  <2>6. CASE sent' = sent /\ station' = station
    <3>1. Skips(k)'
      BY <1>k, <2>2, <2>3, <2>5, <2>6 DEF Skips
    <3> QED
      BY <1>l, <1>m, <2>2, <2>6, <3>1
  <2>7. CASE /\ sent' = Append(sent, e)
             /\ station' = IF attached THEN Append(station, e) ELSE station
    <3>1. /\ Len(sent') = Len(sent) + 1
          /\ \A i \in 1..Len(sent) : sent'[i] = sent[i]
          /\ sent'[Len(sent) + 1] = e
      BY <1>0, <2>7
    <3>2. k + Len(raw) <= Len(sent') /\ \A i \in 1..Len(raw) : raw[i] = sent'[k + i]
      <4>1. k + Len(raw) <= Len(sent) /\ \A i \in 1..Len(raw) : raw[i] = sent[k + i]
        BY <1>k DEF Skips
      <4>2. \A i \in 1..Len(raw) : k + i \in 1..Len(sent)
        BY <1>m, <4>1
      <4>3. k + Len(raw) <= Len(sent) + 1
        BY <1>m, <4>1
      <4> QED
        BY <3>1, <4>1, <4>2, <4>3
    <3>3. CASE ~attached
      <4>1. ~attached' /\ raw' = raw /\ (ebPc' \in {"off", "starting"} => raw = <<>>)
        BY <1>k, <2>2, <2>5, <3>3 DEF Skips
      <4>2. Skips(k)'
        BY <3>2, <4>1 DEF Skips
      <4> QED
        BY <1>l, <1>m, <2>2, <3>1, <4>2
    <3>4. CASE attached
      <4>1. /\ Len(station') = Len(station) + 1
            /\ \A i \in 1..Len(station) : station'[i] = station[i]
            /\ station'[Len(station) + 1] = e
        BY <1>0, <2>7, <3>4
      <4>2. /\ Len(sent) = k + Taken + Len(station)
            /\ ebPc = "write" => hand[1] = sent[k + Len(raw) + 1]
            /\ \A i \in 1..Len(station) : station[i] = sent[k + Taken + i]
        BY <1>k, <3>4 DEF Skips
      <4>3. Len(sent') = k + Taken + Len(station')
        BY <1>m, <3>1, <4>1, <4>2
      <4>4. ebPc = "write" => hand[1] = sent'[k + Len(raw) + 1]
        BY <1>m, <3>1, <4>2 DEF Taken
      <4>5. \A i \in 1..(Len(station) + 1) : station'[i] = sent'[k + Taken + i]
        <5>1. \A i \in 1..Len(station) : k + Taken + i \in 1..Len(sent)
          BY <1>m, <4>2
        <5>2. k + Taken + (Len(station) + 1) = Len(sent) + 1
          BY <1>m, <4>2
        <5>3. \A i \in 1..(Len(station) + 1) : i \in 1..Len(station) \/ i = Len(station) + 1
          BY <1>m
        <5> QED
          BY <3>1, <4>1, <4>2, <5>1, <5>2, <5>3
      <4>6. Skips(k)'
        BY <1>k, <2>2, <2>3, <3>2, <4>1, <4>3, <4>4, <4>5 DEF Skips
      <4> QED
        BY <1>l, <1>m, <2>2, <3>1, <4>6
    <3> QED
      BY <3>3, <3>4
  <2> QED
    BY <2>1, <2>6, <2>7, Zenon DEF Declares
<1>5. CASE EBAttach /\ UNCHANGED daqVars
  <2>1. raw = <<>>
    BY <1>k, <1>5 DEF EBAttach, Skips
  <2>2. station = <<>>
    BY <1>1, <1>5 DEF EBAttach, Pool, AttachedPoints
  <2>3. sent' = sent /\ raw' = raw /\ station' = station /\ ebPc' = "loop"
    BY <1>5 DEF EBAttach, ETAttach, daqVars, histVars
  <2>4. Taken' = 0 /\ Len(raw') = 0 /\ Len(station') = 0
    BY <2>1, <2>2, <2>3 DEF Taken
  <2>5. Skips(Len(sent))'
    BY <1>m, <2>3, <2>4 DEF Skips
  <2> QED
    BY <1>m, <2>3, <2>5 DEF Skipping
<1>6. CASE EBGet /\ UNCHANGED daqVars
  <2>1. /\ sent' = sent /\ raw' = raw /\ station' = Tail(station) /\ station # <<>>
        /\ hand' = <<Head(station)>> /\ ebPc' = "write" /\ ebPc # "write"
    BY <1>6 DEF EBGet, ETGet, daqVars, histVars
  <2>2. attached
    BY <1>1, <1>6 DEF EBGet, Pool, AttachedPoints
  <2>3. Taken = Len(raw) /\ Taken' = Len(raw) + 1
    BY <1>m, <2>1 DEF Taken
  <2>4. /\ Len(sent) = k + Len(raw) + Len(station)
        /\ \A i \in 1..Len(station) : station[i] = sent[k + Len(raw) + i]
    BY <1>k, <2>2, <2>3 DEF Skips
  <2>5. /\ Len(Tail(station)) = Len(station) - 1 /\ Len(station) \in Nat \ {0}
        /\ \A i \in 1..(Len(station) - 1) : Tail(station)[i] = station[i + 1]
        /\ Head(station) = station[1]
    BY <1>0, <2>1
  <2>6. Len(sent) = k + (Len(raw) + 1) + Len(Tail(station))
    BY <1>m, <2>4, <2>5
  <2>7. Head(station) = sent[k + Len(raw) + 1]
    BY <1>m, <2>4, <2>5
  <2>8. \A i \in 1..Len(Tail(station)) : Tail(station)[i] = sent[k + (Len(raw) + 1) + i]
    <3>1. \A i \in 1..Len(Tail(station)) : i + 1 \in 1..Len(station) /\ i \in 1..(Len(station) - 1)
      BY <2>5
    <3>2. \A i \in 1..Len(Tail(station)) : k + Len(raw) + (i + 1) = k + (Len(raw) + 1) + i
      BY <1>m, <2>5
    <3> QED
      BY <2>4, <2>5, <3>1, <3>2
  <2>9. Skips(k)'
    BY <1>k, <2>1, <2>3, <2>6, <2>7, <2>8 DEF Skips
  <2> QED
    BY <1>l, <1>m, <2>1, <2>9
<1>7. CASE EBWrite /\ UNCHANGED daqVars
  <2>1. /\ sent' = sent /\ raw' = Append(raw, hand[1]) /\ station' = station
        /\ ebPc' = "putBack" /\ ebPc = "write"
    BY <1>7 DEF EBWrite, etVars, daqVars, histVars
  <2>2. attached /\ hand[1] \in Block
    BY <1>1, <2>1, HandBlock DEF Pool, AttachedPoints
  <2>3. /\ Len(raw') = Len(raw) + 1
        /\ \A i \in 1..Len(raw) : raw'[i] = raw[i]
        /\ raw'[Len(raw) + 1] = hand[1]
    BY <1>0, <2>1, <2>2
  <2>4. Taken = Len(raw) + 1 /\ Taken' = Len(raw) + 1
    BY <1>m, <2>1, <2>3 DEF Taken
  <2>5. /\ Len(sent) = k + Taken + Len(station)
        /\ hand[1] = sent[k + Len(raw) + 1]
        /\ \A i \in 1..Len(raw) : raw[i] = sent[k + i]
        /\ \A i \in 1..Len(station) : station[i] = sent[k + Taken + i]
    BY <1>k, <2>1, <2>2 DEF Skips
  <2>6. k + Len(raw') <= Len(sent)
    BY <1>m, <2>3, <2>4, <2>5
  <2>7. \A i \in 1..Len(raw') : raw'[i] = sent[k + i]
    <3>1. \A i \in 1..Len(raw') : i \in 1..Len(raw) \/ (i = Len(raw) + 1 /\ k + i = k + Len(raw) + 1)
      BY <1>m, <2>3
    <3> QED
      BY <2>3, <2>5, <3>1
  <2>8. Skips(k)'
    BY <2>1, <2>4, <2>5, <2>6, <2>7 DEF Skips
  <2> QED
    BY <1>l, <1>m, <2>1, <2>3, <2>8
<1>8. CASE EBPutBack /\ UNCHANGED daqVars
  <2>1. /\ sent' = sent /\ raw' = raw /\ station' = station
        /\ ebPc' = "loop" /\ ebPc = "putBack"
    BY <1>8 DEF EBPutBack, ETReturn, ETReturnFails, daqVars, histVars
  <2>2. attached
    BY <1>1, <2>1 DEF Pool, AttachedPoints
  <2>3. Taken' = Taken
    BY <2>1 DEF Taken
  <2>4. Skips(k)'
    BY <1>k, <2>1, <2>2, <2>3 DEF Skips
  <2> QED
    BY <1>l, <1>m, <2>1, <2>4
<1>9. CASE (EBDetach \/ EBCrash) /\ UNCHANGED daqVars
  <2>1. ~attached'
    BY <1>9, Zenon DEF EBDetach, EBCrash, ETDetach
  <2>2. sent' = sent /\ raw' = raw /\ ebPc' = "exited"
    BY <1>9 DEF EBDetach, EBCrash, daqVars, histVars
  <2>3. Skips(k)'
    BY <1>k, <2>1, <2>2 DEF Skips
  <2> QED
    BY <1>l, <1>m, <2>2, <2>3
<1> QED
  BY StepKinds, <1>2, <1>3, <1>4, <1>5, <1>6, <1>7, <1>8, <1>9, Zenon DEF StepKind

\* Whether or not minervadaq waits for the ready signal, and whatever fails,
\* the raw data file lacks blocks at its beginning and its end only.
THEOREM NoHoles == Spec => []RawHasNoHoles
<1>1. Init => Skipping
  <2> SUFFICES ASSUME Init PROVE Skipping
    OBVIOUS
  <2>1. raw = <<>> /\ sent = <<>>
    BY DEF Init, EBInit, DAQInit
  <2>2. ~attached
    BY Zenon DEF Init, ETInit
  <2>3. Skips(0)
    BY <2>1, <2>2 DEF Skips
  <2> QED
    BY <2>1, <2>3 DEF Skipping
<1>2. IInv /\ Skipping /\ [Next]_vars => Skipping'
  BY SkippingStep
<1>3. ASSUME IInv, Skipping PROVE RawHasNoHoles
  <2>1. raw \in Seq(Block) /\ sent \in Seq(Block)
    BY <1>3 DEF IInv, TypeOK, ValuesOK
  <2>2. PICK k \in 0..Len(sent) : Skips(k)
    BY <1>3 DEF Skipping
  <2>3. k + Len(raw) <= Len(sent) /\ \A i \in 1..Len(raw) : raw[i] = sent[k + i]
    BY <2>2 DEF Skips
  <2>4. k \in 0..(Len(sent) - Len(raw))
    BY <2>1, <2>3
  <2> QED
    BY <2>3, <2>4 DEF RawHasNoHoles
<1> QED
  BY <1>1, <1>2, <1>3, Invariance, PTL DEF Spec

-----------------------------------------------------------------------------
(* The sentinel.                                                           *)

\* With a working ET the sentinel is put into ET when it is taken for sent, and
\* the exit code says so only then.
LEMMA SentinelPutStep ==
  ASSUME IInv, NothingRefused, SentinelPut, [Next]_vars, "ET" \notin Faults
  PROVE  SentinelPut'
<1>0. sent \in Seq(Block) /\ TypeOK
  BY DEF IInv, TypeOK, ValuesOK
<1>a. etAlive
  BY Zenon DEF NothingRefused
<1>b. ASSUME sent' = sent, sentSentinel' = sentSentinel, exitCode' = exitCode,
             pc' = pc \/ (pc' # "exited" /\ pc # "down")
      PROVE  SentinelPut'
  <2>1. sentSentinel' <=> sentSentinel
    BY <1>b, Zenon
  <2> QED
    BY <1>b, <2>1, Zenon DEF SentinelPut
<1>c. ASSUME NEW e \in Block, NEW next, Declares(e, next), next \notin {"down", "exited"},
             sentSentinel' => sentSentinel \/ e.bank = "Sentinel",
             pc # "down"
      PROVE  SentinelPut'
  <2>1. sent' = Append(sent, e) /\ pc' = next
    BY <1>a, <1>c, Zenon DEF Declares
  <2>2. /\ Len(sent') = Len(sent) + 1 /\ Len(sent) \in Nat
        /\ \A i \in 1..Len(sent) : sent'[i] = sent[i]
        /\ sent'[Len(sent) + 1] = e
    BY <1>0, <1>c, <2>1
  <2>3. ASSUME e.bank = "Sentinel"
        PROVE  \E i \in 1..Len(sent') : sent'[i].bank = "Sentinel"
    BY <2>2, <2>3
  <2>4. ASSUME NEW i \in 1..Len(sent), sent[i].bank = "Sentinel"
        PROVE  \E j \in 1..Len(sent') : sent'[j].bank = "Sentinel"
    BY <2>2, <2>4
  <2>5. pc' # "exited"
    BY <1>c, <2>1
  <2> QED
    BY <1>c, <2>3, <2>4, <2>5, Zenon DEF SentinelPut
<1>d. /\ Header("Run") \in Block /\ Header("DAQ") \in Block
      /\ Header("Sentinel") \in Block /\ Header("Sentinel").bank = "Sentinel"
  BY <1>0, HeaderBlock DEF Banks
<1>e. \A e \in DataBlocks : e \in Block
  BY <1>0, DataBlock
<1>1. CASE StartRun
  <2>1. pc' = "down"
    BY <1>1 DEF StartRun
  <2> QED
    BY <2>1, SMT DEF SentinelPut
<1>2. CASE UNCHANGED daqVars
  BY <1>2, <1>b, Zenon DEF daqVars, mainVars, histVars
<1>3. CASE StartDAQ(attached)
  <2>1. ~sentSentinel' /\ pc' = "setUpET"
    BY <1>3, Zenon DEF StartDAQ
  <2> QED
    BY <2>1 DEF SentinelPut
<1>4. CASE CrashDAQ
  <2>1. pc' = "exited" /\ exitCode' = "crash" /\ sent' = sent /\ pc # "down"
    BY <1>4 DEF CrashDAQ, histVars
  <2>2. sentSentinel' <=> sentSentinel
    BY <1>4, Zenon DEF CrashDAQ
  <2> QED
    BY <2>1, <2>2 DEF SentinelPut
<1>5. CASE WriteRunDataToDB
  <2>1. pc = "writeRunData" /\ pc' = "exited" /\ sent' = sent
    BY <1>5 DEF WriteRunDataToDB, histVars
  <2>2. sentSentinel' <=> sentSentinel
    BY <1>5, Zenon DEF WriteRunDataToDB
  <2>3. ~sentSentinel => exitCode' = "EXIT_CLEAN_NOSENTINEL"
    BY <1>5, Zenon DEF WriteRunDataToDB
  <2> QED
    BY <2>1, <2>2, <2>3 DEF SentinelPut
<1>6. CASE QuitSignal
  <2>1. /\ UNCHANGED <<sent, sentSentinel, exitCode>>
        /\ pc' = pc \/ (pc' # "exited" /\ pc # "down")
    BY <1>6 DEF QuitSignal, Throw, histVars
  <2> QED
    BY <1>b, <2>1, Zenon
<1>7. CASE EtWaitForAlive
  BY <1>7 DEF EtWaitForAlive, NothingRefused
<1>8. CASE SetUpET
  <2>1. /\ UNCHANGED <<sent, sentSentinel, exitCode>>
        /\ pc' = pc \/ (pc' # "exited" /\ pc # "down")
    BY <1>8 DEF SetUpET, Throw, histVars
  <2> QED
    BY <1>b, <2>1, Zenon
<1>9. CASE InitializeHardware
  <2>1. /\ UNCHANGED <<sent, sentSentinel, exitCode>>
        /\ pc' = pc \/ (pc' # "exited" /\ pc # "down")
    BY <1>9 DEF InitializeHardware, Throw, histVars
  <2> QED
    BY <1>b, <2>1, Zenon
<1>10. CASE BeginNextGate
  <2>1. /\ UNCHANGED <<sent, sentSentinel, exitCode>>
        /\ pc' = pc \/ (pc' # "exited" /\ pc # "down")
    BY <1>10 DEF BeginNextGate, Throw, histVars
  <2> QED
    BY <1>b, <2>1, Zenon
<1>11. CASE WaitForIRQ
  <2>1. /\ UNCHANGED <<sent, sentSentinel, exitCode>>
        /\ pc' = pc \/ (pc' # "exited" /\ pc # "down")
    BY <1>11 DEF WaitForIRQ, Throw, histVars
  <2> QED
    BY <1>b, <2>1, Zenon
<1>12. CASE WaitForSequencer
  <2>1. /\ UNCHANGED <<sent, sentSentinel, exitCode>>
        /\ pc' = pc \/ (pc' # "exited" /\ pc # "down")
    BY <1>12 DEF WaitForSequencer, Throw, histVars
  <2> QED
    BY <1>b, <2>1, Zenon
<1>13. CASE FinishGate
  <2>1. /\ UNCHANGED <<sent, sentSentinel, exitCode>>
        /\ pc' = pc \/ (pc' # "exited" /\ pc # "down")
    BY <1>13 DEF FinishGate, Throw, histVars
  <2> QED
    BY <1>b, <2>1, Zenon
<1>14. CASE WriteMetadata
  <2>1. /\ UNCHANGED <<sent, sentSentinel, exitCode>>
        /\ pc' = pc \/ (pc' # "exited" /\ pc # "down")
    BY <1>14 DEF WriteMetadata, Throw, histVars
  <2> QED
    BY <1>b, <2>1, Zenon
<1>15. CASE InterruptResetToDefault
  <2>1. /\ UNCHANGED <<sent, sentSentinel, exitCode>>
        /\ pc' = pc \/ (pc' # "exited" /\ pc # "down")
    BY <1>15 DEF InterruptResetToDefault, Throw, histVars
  <2> QED
    BY <1>b, <2>1, Zenon
<1>16. CASE CloseDownET
  <2>1. /\ UNCHANGED <<sent, sentSentinel, exitCode>>
        /\ pc' = pc \/ (pc' # "exited" /\ pc # "down")
    BY <1>16 DEF CloseDownET, Throw, histVars
  <2> QED
    BY <1>b, <2>1, Zenon
<1>17. CASE CleanupHardware
  <2>1. /\ UNCHANGED <<sent, sentSentinel, exitCode>>
        /\ pc' = pc \/ (pc' # "exited" /\ pc # "down")
    BY <1>17 DEF CleanupHardware, Throw, histVars
  <2> QED
    BY <1>b, <2>1, Zenon
<1>18. CASE DeclareRunHeaderToET
  <2>1. \/ Throw /\ sent' = sent
        \/ Declares(Header("Run"), "beginGate")
    BY <1>18, DeclareActions, Zenon
  <2>2. pc # "down" /\ (sentSentinel' => sentSentinel \/ Header("Run").bank = "Sentinel")
    BY <1>18, <1>d, Zenon DEF DeclareRunHeaderToET
  <2>3. Throw => pc' # "exited"
    BY DEF Throw
  <2>4. UNCHANGED <<sentSentinel, exitCode>>
    BY <1>18, Zenon DEF DeclareRunHeaderToET
  <2> QED
    BY <1>b, <1>c, <1>d, <2>1, <2>2, <2>3, <2>4, Zenon
<1>19. CASE DeclareDAQHeaderToET
  <2>1. Declares(Header("DAQ"), "beginGate")
    BY <1>19, DeclareActions, Zenon
  <2>2. pc # "down" /\ (sentSentinel' => sentSentinel \/ Header("DAQ").bank = "Sentinel")
    BY <1>19, <1>d, Zenon DEF DeclareDAQHeaderToET
  <2> QED
    BY <1>c, <1>d, <2>1, <2>2
<1>20. CASE SendSentinel
  <2>1. Declares(Header("Sentinel"), "closeDownET")
    BY <1>20, DeclareActions, Zenon
  <2>2. pc # "down" /\ (sentSentinel' => sentSentinel \/ Header("Sentinel").bank = "Sentinel")
    BY <1>20, <1>d, Zenon DEF SendSentinel
  <2> QED
    BY <1>c, <1>d, <2>1, <2>2
<1>21. CASE ReadChannel
  <2>1. pc = "readChannel" /\ UNCHANGED <<sentSentinel, exitCode>>
    BY <1>21 DEF ReadChannel
  <2>2. CASE pc' = "catch" /\ sent' = sent
    <3>1. pc' # "exited" /\ pc # "down"
      BY <2>1, <2>2
    <3> QED
      BY <1>b, <2>1, <2>2, <3>1, Zenon
  <2>3. CASE \E e \in DataBlocks :
               Declares(e, IF MoveToNextChannel THEN "readChannel" ELSE "finishGate")
    <3>1. PICK e \in DataBlocks :
            Declares(e, IF MoveToNextChannel THEN "readChannel" ELSE "finishGate")
      BY <2>3
    <3>2. PICK next \in {"readChannel", "finishGate"} : Declares(e, next)
      BY <3>1, Zenon
    <3>3. sentSentinel' => sentSentinel \/ e.bank = "Sentinel"
      BY <2>1, Zenon
    <3> QED
      BY <1>c, <1>e, <2>1, <3>2, <3>3
  <2> QED
    BY <1>21, <2>2, <2>3, DeclareActions, Zenon DEF Throw
<1>22. CASE CatchException
  <2>1. pc = "catch" /\ exitCode' = exitCode
    BY <1>22 DEF CatchException
  <2>2. CASE sentSentinel /\ pc' = "writeRunData" /\ sent' = sent
    BY <2>1, <2>2 DEF SentinelPut
  <2>3. CASE Declares(Header("Sentinel"), "writeRunData")
    BY <1>c, <1>d, <2>1, <2>3
  <2> QED
    BY <1>22, <2>2, <2>3, DeclareActions, Zenon
<1> QED
  BY <1>1, <1>2, <1>3, <1>4, <1>5, <1>6, <1>7, <1>8, <1>9, <1>10, <1>11, <1>12, <1>13,
     <1>14, <1>15, <1>16, <1>17, <1>18, <1>19, <1>20, <1>21, <1>22, WhoMoves, Zenon
     DEF DAQStep

\* With a working ET, a minervadaq that exits with EXIT_CLEAN_SENTINEL has put
\* the sentinel into ET, after exceptions and signals too.
THEOREM SentinelComes ==
  ASSUME "ET" \notin Faults
  PROVE  Spec => []SentinelIsComing
<1>1. Init => NothingRefused /\ SentinelPut
  <2>1. Init => NothingRefused
    BY Zenon DEF Init, DAQInit, ETInit, NothingRefused
  <2>2. Init => SentinelPut
    BY Zenon DEF Init, DAQInit, SentinelPut
  <2> QED
    BY <2>1, <2>2
<1>2. /\ IInv /\ NothingRefused /\ [Next]_vars => NothingRefused'
      /\ IInv /\ NothingRefused /\ SentinelPut /\ [Next]_vars => SentinelPut'
  BY NothingRefusedStep, SentinelPutStep
<1>3. SentinelPut => SentinelIsComing
  BY DEF SentinelPut, SentinelIsComing
<1> QED
  BY <1>1, <1>2, <1>3, Invariance, PTL DEF Spec

\* When every block has its bank type at data[5], what minervadaq adds to the
\* station says truly whether it is a sentinel.
Tells == \A len \in BlockLengths : DataLength(len) > 5

\* A step of minervadaq leaves the queue alone or adds such a block.
LEMMA Queues ==
  ASSUME IInv, Tells,
         (StartDAQ(attached) /\ UNCHANGED etVars) \/ QuitSignal \/ CrashDAQ \/ DAQStep
  PROVE  \/ station' = station
         \/ \E e \in Block : e.lead = e.bank /\ station' = Append(station, e)
<1>0. TypeOK
  BY DEF IInv
<1>1. \A bank \in Banks : Header(bank) \in Block /\ Header(bank).lead = Header(bank).bank
  BY <1>0, HeaderBlock DEF Header
<1>2. \A e \in DataBlocks : e \in Block /\ e.lead = e.bank
  <2> SUFFICES ASSUME NEW e \in DataBlocks PROVE e \in Block /\ e.lead = e.bank
    OBVIOUS
  <2>1. PICK len \in BlockLengths : \E lead \in LeadBanks(DataLength(len)) :
          e = [bank |-> "Data", gate |-> gate, gg |-> globalGate, ch |-> channel,
               len |-> len, dataLength |-> DataLength(len), lead |-> lead]
    BY DEF DataBlocks
  <2>2. LeadBanks(DataLength(len)) = {"Data"}
    BY DEF Tells, LeadBanks
  <2> QED
    BY <1>0, <2>1, <2>2, DataBlock
<1>3. "Run" \in Banks /\ "DAQ" \in Banks /\ "Sentinel" \in Banks
  BY DEF Banks
<1>4. ASSUME NEW e \in Block, e.lead = e.bank, NEW next, Declares(e, next)
      PROVE  station' = station \/ station' = Append(station, e)
  BY <1>4 DEF Declares
<1>5. CASE DeclareRunHeaderToET \/ DeclareDAQHeaderToET \/ SendSentinel
  BY <1>1, <1>3, <1>4, <1>5, DeclareActions, Zenon DEF etVars
<1>6. CASE ReadChannel
  BY <1>2, <1>4, <1>6, DeclareActions, Zenon DEF etVars
<1>7. CASE CatchException
  BY <1>1, <1>3, <1>4, <1>7, DeclareActions, Zenon DEF etVars
<1>8. CASE StartDAQ(attached) /\ UNCHANGED etVars
  BY <1>8, Zenon DEF etVars
<1>9. CASE QuitSignal
  BY <1>9, Zenon DEF QuitSignal, etVars
<1>10. CASE CrashDAQ
  BY <1>10, Zenon DEF CrashDAQ, etVars, ETReleaseProducer
<1>11. CASE EtWaitForAlive
  BY <1>11, Zenon DEF EtWaitForAlive, etVars
<1>12. CASE SetUpET
  BY <1>12, Zenon DEF SetUpET, etVars
<1>13. CASE InitializeHardware
  BY <1>13, Zenon DEF InitializeHardware, etVars
<1>14. CASE BeginNextGate
  BY <1>14, Zenon DEF BeginNextGate, etVars
<1>15. CASE WaitForIRQ
  BY <1>15, Zenon DEF WaitForIRQ, etVars
<1>16. CASE WaitForSequencer
  BY <1>16, Zenon DEF WaitForSequencer, etVars
<1>17. CASE FinishGate
  BY <1>17, Zenon DEF FinishGate, etVars
<1>18. CASE WriteMetadata
  BY <1>18, Zenon DEF WriteMetadata, etVars
<1>19. CASE InterruptResetToDefault
  BY <1>19, Zenon DEF InterruptResetToDefault, etVars
<1>20. CASE CloseDownET
  BY <1>20, Zenon DEF CloseDownET, etVars, ETReleaseProducer
<1>21. CASE CleanupHardware
  BY <1>21, Zenon DEF CleanupHardware, etVars
<1>22. CASE WriteRunDataToDB
  BY <1>22, Zenon DEF WriteRunDataToDB, etVars, ETReleaseProducer
<1> QED
  BY <1>5, <1>6, <1>7, <1>8, <1>9, <1>10, <1>11, <1>12, <1>13, <1>14, <1>15, <1>16,
     <1>17, <1>18, <1>19, <1>20, <1>21, <1>22, Zenon DEF DAQStep

\* Without faults of ET or of the event builder's calls, the event builder leaves
\* its loop because it was told to quit or because it has written the sentinel.
LEMMA QuittingStep ==
  ASSUME IInv, NothingRefused, Quitting, [Next]_vars,
         "ET" \notin Faults, ~EBFaults, Tells
  PROVE  Quitting'
<1>0. /\ station \in Seq(Block) /\ raw \in Seq(Block) /\ hand \in Seq(Block)
  BY DEF IInv, TypeOK, ValuesOK
<1>a. etAlive
  BY Zenon DEF NothingRefused
<1>b. ASSUME station' = station
             \/ \E e \in Block : e.lead = e.bank /\ station' = Append(station, e)
      PROVE  \A i \in 1..Len(station') : station'[i].lead = station'[i].bank
  <2>1. CASE station' = station
    BY <2>1 DEF Quitting
  <2>2. ASSUME NEW e \in Block, e.lead = e.bank, station' = Append(station, e)
        PROVE  \A i \in 1..Len(station') : station'[i].lead = station'[i].bank
    <3>1. /\ Len(station') = Len(station) + 1 /\ Len(station) \in Nat
          /\ \A i \in 1..Len(station) : station'[i] = station[i]
          /\ station'[Len(station) + 1] = e
      BY <1>0, <2>2
    <3>2. \A i \in 1..Len(station') : i \in 1..Len(station) \/ i = Len(station) + 1
      BY <3>1
    <3> QED
      BY <2>2, <3>1, <3>2 DEF Quitting
  <2> QED
    BY <1>b, <2>1, <2>2
<1>c. ASSUME UNCHANGED ebVars,
             station' = station
             \/ \E e \in Block : e.lead = e.bank /\ station' = Append(station, e)
      PROVE  Quitting'
  <2>1. UNCHANGED <<ebPc, hand, raw>>
    BY <1>c DEF ebVars
  <2>2. /\ waitingToQuit' <=> waitingToQuit
        /\ quitNow' <=> quitNow
        /\ ebContinue' <=> ebContinue
    BY <1>c, Zenon DEF ebVars
  <2>3. EndsWithSentinel' <=> EndsWithSentinel
    BY <2>1, Zenon DEF EndsWithSentinel
  <2>4. \A i \in 1..Len(station') : station'[i].lead = station'[i].bank
    BY <1>b, <1>c
  <2> QED
    BY <2>1, <2>2, <2>3, <2>4, Zenon DEF Quitting
<1>1. CASE StartRun
  <2>1. station' = <<>> /\ ebPc' = "starting"
    BY <1>1 DEF StartRun, StartEB
  <2>2. ~waitingToQuit' /\ ~quitNow' /\ ebContinue'
    BY <1>1, Zenon DEF StartRun, StartEB
  <2> QED
    BY <2>1, <2>2 DEF Quitting
<1>2. CASE /\ UNCHANGED ebVars
           /\ (StartDAQ(attached) /\ UNCHANGED etVars) \/ QuitSignal \/ CrashDAQ \/ DAQStep
  BY <1>2, <1>c, Queues
<1>3. CASE ETStall \/ ETResume
  BY <1>3, <1>a, Zenon DEF ETStall, ETResume
<1>4. CASE UNCHANGED vars
  BY <1>4, <1>c, Zenon DEF vars, etVars
<1>5. CASE EBStartupError \/ EBGetError \/ EBCrash
  BY <1>5, <1>a, Zenon DEF EBStartupError, EBGetError, EBCrash
<1>6. CASE EBSignal
  <2>1. UNCHANGED <<ebPc, hand, raw, station>>
    BY <1>6 DEF EBSignal, etVars
  <2>2. waitingToQuit'
    BY <1>6, Zenon DEF EBSignal
  <2> QED
    BY <2>1, <2>2 DEF Quitting
<1>7. CASE EBAttach \/ EBEnterLoop \/ EBEmpty \/ EBPutBack
  <2>1. raw' = raw /\ station' = station
    BY <1>7 DEF EBAttach, ETAttach, EBEnterLoop, EBEmpty, EBPutBack, ETReturn,
                ETReturnFails, etVars
  <2>2. EndsWithSentinel' <=> EndsWithSentinel
    BY <2>1, Zenon DEF EndsWithSentinel
  <2>3. /\ waitingToQuit' <=> waitingToQuit
        /\ quitNow' <=> quitNow
        /\ ebContinue' <=> ebContinue
    <3>1. UNCHANGED <<waitingToQuit, quitNow, ebContinue>>
      BY <1>7 DEF EBAttach, EBEnterLoop, EBEmpty, EBPutBack
    <3> QED
      BY <3>1, Zenon
  <2>4. CASE EBAttach \/ EBEmpty \/ EBPutBack
    <3>1. ebPc \in {"starting", "getAsync", "putBack"} /\ ebPc' = "loop"
      BY <2>4 DEF EBAttach, EBEmpty, EBPutBack
    <3> QED
      BY <2>1, <2>2, <2>3, <3>1, SMT DEF Quitting
  <2>5. CASE EBEnterLoop
    <3>1. ebContinue /\ ebPc = "loop"
      BY <2>5, Zenon DEF EBEnterLoop, EBLooping
    <3>2. ebPc' \in {"getTimed", "getAsync"} /\ (ebPc' = "getTimed" => waitingToQuit)
      BY <2>5, Zenon DEF EBEnterLoop
    <3> QED
      BY <2>1, <2>2, <2>3, <3>1, <3>2, SMT DEF Quitting
  <2> QED
    BY <1>7, <2>4, <2>5
<1>8. CASE EBGet
  <2>1. /\ ebPc \in {"getAsync", "getTimed"} /\ ebPc' = "write"
        /\ station # <<>> /\ station' = Tail(station) /\ hand' = <<Head(station)>> /\ raw' = raw
    BY <1>8 DEF EBGet, ETGet
  <2>2. /\ waitingToQuit' <=> waitingToQuit
        /\ quitNow' <=> quitNow
        /\ ebContinue' <=> ebContinue
    BY <1>8, Zenon DEF EBGet
  <2>3. /\ Len(Tail(station)) = Len(station) - 1 /\ Len(station) \in Nat \ {0}
        /\ \A i \in 1..(Len(station) - 1) : Tail(station)[i] = station[i + 1]
        /\ Head(station) = station[1]
    BY <1>0, <2>1
  <2>4. \A i \in 1..Len(station) : station[i].lead = station[i].bank
    BY DEF Quitting
  <2>5. \A i \in 1..Len(station') : station'[i].lead = station'[i].bank
    BY <2>1, <2>3, <2>4
  <2>6. hand'[1].lead = hand'[1].bank
    BY <2>1, <2>3, <2>4
  <2> QED
    BY <2>1, <2>2, <2>5, <2>6, SMT DEF Quitting
<1>9. CASE EBTimeout
  <2>1. ebPc = "getTimed" /\ ebPc' = "loop" /\ UNCHANGED <<station, hand, raw>>
    BY <1>9 DEF EBTimeout, etVars
  <2>2. waitingToQuit' <=> waitingToQuit
    BY <1>9, Zenon DEF EBTimeout
  <2>3. waitingToQuit
    BY <2>1 DEF Quitting
  <2> QED
    BY <2>1, <2>2, <2>3 DEF Quitting
<1>10. CASE EBWrite
  <2>1. /\ ebPc = "write" /\ ebPc' = "putBack" /\ UNCHANGED <<station, hand>>
        /\ raw' = Append(raw, hand[1])
    BY <1>10 DEF EBWrite, etVars
  <2>2. /\ waitingToQuit' <=> waitingToQuit
        /\ quitNow' <=> quitNow
        /\ hand[1].lead # "Sentinel" => (ebContinue' <=> ebContinue)
    BY <1>10, Zenon DEF EBWrite
  <2>3. hand[1].lead = hand[1].bank
    BY <2>1 DEF Quitting
  <2>4. hand[1] \in Block
    BY <2>1, HandBlock DEF IInv
  <2>5. hand[1].bank = "Sentinel" => EndsWithSentinel'
    <3>1. raw' # <<>> /\ raw'[Len(raw')] = hand[1]
      BY <1>0, <2>1, <2>4
    <3> QED
      BY <3>1 DEF EndsWithSentinel
  <2> QED
    BY <2>1, <2>2, <2>3, <2>5, SMT DEF Quitting
<1>11. CASE EBLeaveLoop
  <2>1. ebPc = "loop" /\ ebPc' = "detach" /\ UNCHANGED <<station, hand, raw>>
    BY <1>11 DEF EBLeaveLoop, etVars
  <2>2. /\ waitingToQuit' <=> waitingToQuit
        /\ quitNow' <=> quitNow
        /\ ebContinue' <=> ebContinue
    BY <1>11, Zenon DEF EBLeaveLoop
  <2>3. ~ebContinue \/ waitingToQuit
    BY <1>11, <1>a, Zenon DEF EBLeaveLoop, EBLooping
  <2>4. EndsWithSentinel' <=> EndsWithSentinel
    BY <2>1, Zenon DEF EndsWithSentinel
  <2> QED
    BY <2>1, <2>2, <2>3, <2>4, SMT DEF Quitting
<1>12. CASE EBDetach
  <2>1. ebPc = "detach" /\ ebPc' = "exited" /\ station' = <<>> /\ UNCHANGED <<hand, raw>>
    BY <1>12 DEF EBDetach, ETDetach
  <2>2. /\ waitingToQuit' <=> waitingToQuit
        /\ quitNow' <=> quitNow
        /\ ebContinue' <=> ebContinue
    BY <1>12, Zenon DEF EBDetach
  <2>3. EndsWithSentinel' <=> EndsWithSentinel
    BY <2>1, Zenon DEF EndsWithSentinel
  <2> QED
    BY <2>1, <2>2, <2>3, SMT DEF Quitting
<1> QED
  BY <1>1, <1>2, <1>3, <1>4, <1>5, <1>6, <1>7, <1>8, <1>9, <1>10, <1>11, <1>12, Zenon
     DEF Next, Environment, MinervaDAQStep, EventBuilderStep, EBStep, AllRunsOver

\* When ET works, the event builder's calls do not fail, and no block is shorter
\* than its header, the event builder ends without having been told to only
\* after the sentinel is in the file: exceptions in minervadaq, file and database
\* troubles, and minervadaq's death do not make it give up early.
THEOREM EndsAtSentinel ==
  ASSUME "ET" \notin Faults, ~EBFaults, Tells
  PROVE  Spec => []QuitsAtSentinel
<1>1. Init => NothingRefused /\ Quitting
  <2>1. Init => NothingRefused
    BY Zenon DEF Init, DAQInit, ETInit, NothingRefused
  <2>2. ASSUME Init PROVE Quitting
    <3>1. station = <<>> /\ ebPc = "off"
      BY <2>2 DEF Init, ETInit, EBInit
    <3>2. ~waitingToQuit /\ ~quitNow /\ ebContinue
      BY <2>2, Zenon DEF Init, EBInit
    <3> QED
      BY <3>1, <3>2 DEF Quitting
  <2> QED
    BY <2>1, <2>2
<1>2. /\ IInv /\ NothingRefused /\ [Next]_vars => NothingRefused'
      /\ IInv /\ NothingRefused /\ Quitting /\ [Next]_vars => Quitting'
  BY NothingRefusedStep, QuittingStep
<1>3. Quitting => QuitsAtSentinel
  BY DEF Quitting, QuitsAtSentinel, EndsWithSentinel
<1> QED
  BY <1>1, <1>2, <1>3, Invariance, PTL DEF Spec

=============================================================================
