# TLA+ models of the MINERvA / Mx2 data acquisition

This directory holds TLA+ specifications of `minervadaq` and its event builder,
the TLC configurations that model-check them, and TLAPS proofs. File names
below are relative to `src/minervadaq/`.

## 1. The system

| Part | State | Operations | Talks to |
|---|---|---|---|
| `minervadaq` (`main/daqmain.cpp`, `workers/src/DAQWorker.cpp`) | run loop, quit flag, `sentSentinel` | set up ET, initialise hardware, run header, per gate: trigger, blocks of all channels, DAQ header; sentinel; close down; catch clauses | hardware, ET, database, Run Control (signals, exit codes) |
| `ReadoutStateRecorder` | gate, global gate, first gate; global gate file, SAM and last-trigger files | begin and finish a gate, choose the trigger type | files shared by successive runs |
| ET (`et_9.0/src/libsrc`; see section 5 for the versions) | in shared memory: a fixed pool of events, two linked lists per station, attachments, mutexes, heartbeats | new, put, get, dump, attach, detach; a conductor thread per station; clean-up after dead users | both processes |
| event builder (`event_builder/src/EventBuilder.cpp`) | loop flag, two quit flags, the event in hand, the raw data file | attach and send the ready signal, get (asynchronous or timed), write, put back, detach | ET, the starter (SIGUSR1) |
| `ReadoutWorker`, `VMECrate`, `CRIM` | latches and interrupt of the CRIMs | initialise crates, trigger, poll the interrupt | VME bus, beam |
| `ECROC`, `EChannels`, `FrontEndBoard` | status and configuration registers, receive memory | reset, enable the sequencer, wait for completion, read memory | VME bus |
| `VMECommunicator`, `Controller` | bridge handle | read, write, block transfers | CAEN library |
| `DBWorker` | sqlite tables `RUNSUBRUN`, `HWERRORS` | insert a row per run, a row per error | sqlite |
| `event_structure`, frames, `EChannelsConfigRegParser` | none | pack and decode words | |
| `runthedaq` scripts / Run Control | | start ET, event builder, minervadaq; wait for the ready signal, or sleep | all |

What is hard here:

- *Two processes over ET.* Each can be signalled, can fail or die at any
  point; ET can stall or fail a call of either. The file must still be a faithful,
  ordered record, and no event of the pool may get lost.
- *Ends of runs.* The sentinel is the only mark of a complete file; an exception
  may come before, while or after it is sent.
- *Numbers that outlive a process.* The global gate lives in a file that is
  re-read and rewritten at every gate, apart from the header, metadata and
  database rows that repeat it; each file may fail to open on its own.
- *Files that outlive a run.* The raw data file is opened for appending, and
  `start_daq_singleton` gives every run the same file names unless told otherwise.
- *A beam that does not wait.* Spills come while latches are reset and
  interrupts are cleared, one VME access after the other, and the status bits
  of the last gate are still up when the next one opens.
- *Shared memory that outlives its writer.* ET's lists and mutexes are changed
  by user processes, which can be killed between any two stores, while
  conductors of the ET system move events on.
- *Registers that outlive a process.* A channel's sequencer, status and memory
  are what the last process left, when the next one looks for its boards.
- *Signals in the middle of a call.* `nanosleep` returns early, and nobody looks.
- *Waits without time-out or quit flag*: `et_wait_for_alive`, the sequencer
  completion wait, `WaitForMessageReceived`, the retry loop of `WriteCycle`.

What makes each part correct: the file is an ordered prefix of what was sent
and complete when it ends with the sentinel (event builder, ET); blocks are
declared in the order offline decoding relies on, with exactly one sentinel
(minervadaq); ET delivers in order and once, loses no event, and recovers from
the death of a user; a channel is read out for exactly the boards it has
(channels); global gates only increase, and metadata and database agree with
headers (recorder, database); all blocks of a gate come from one gate, read
once (trigger, channels); everybody stops when told to. `PROJECT.json` lists
the hazards one by one, at the lines where they bite.

## 2. Modules

| Module | Models |
|---|---|
| `ETSystem` | ET as the two programs use it, one step per call: `etFree`, `station`, `held`, `kept`, `attached`, `etAlive` |
| `ETContract` | abstract specification of ET: a pool, a first-in first-out stream, a user that comes and goes |
| `ETTransfer` | ET mutex by mutex: attach, detach, the conductors, the heart monitor; implements `ETContract` |
| `ETRepair` | ET's lists store by store, and their repair |
| `MinervaDAQ` | `main()`, `DAQWorker`, `ReadoutStateRecorder`, the database rows, over successive runs |
| `EventBuilder` | the event builder process |
| `RunRecord` | abstract specification of a raw data file |
| `DAQSystem` | composition of the three over a sequence of runs, and the properties |
| `DAQSystemProofs`, `DAQRecordProofs` | theorems about `DAQSystem`: the stream and the file; metadata, database, sentinel |
| `TriggerSequence` | one gate at the level of VME accesses: latches, interrupt, spills, sequencers |
| `FrontEndChannels` | the channels of a CROC-E: search for boards, sequencers, blocks, frames |
| `TriggerSequenceProofs`, `ETTransferProofs`, `ETRepairProofs`, `FrontEndProofs` | theorems about the module each extends |
| `MCDAQSystem`, `MCTrigger`, `MCETTransfer`, `MCFrontEnds` | modules for TLC |

**MinervaDAQ.** `pc` names the call `main()` and `TakeData` stand at. One action
is one call, with its early returns and error paths as disjuncts. `Declare`
is `ContactEventBuilder` with its four outcomes: put; put and then ET found
dead (`et_wait_for_alive`, point `waitForAlive`); dropped before the put;
dropped by a failed put, which leaves the event with the producer's attachment
(`held`). `Throw` is an `FHWException` out of a hardware call. A block is its
bank, gate, channel and length: `DataLength` keeps 16 bits of the 17-bit
length, and `LeadBanks` is what `leadBankType` finds, anything for a block
shorter than six bytes. The global gate file is a number, and `Overwrite`
leaves the last digits of a longer old number behind, because the file is not
truncated. `WriteMetadata` rewrites each of the `MetadataFiles` (SAM Python and
SAM JSON) that can be opened; one that cannot keeps what it had, and `stale`
remembers it. The two last-trigger files are only for the shifter's display and are
left out. `CrashDAQ` is a kill, or one of the `exit()` calls below
`ReadoutWorker`, between any two steps. `declared`, `sent`, `headers`,
`fileFault`, `runFault`, `stale` are history variables for the properties. The rest of
the program is reduced to outcomes: hardware calls succeed or throw; the wait
for the trigger returns or gives up. `TriggerSequence` shows what is behind the
latter.

**EventBuilder.** `EBEnterLoop` chooses between the asynchronous and the timed
`et_event_get` as the two quit flags say. `EBWrite` writes, flushes and looks
at the leading bank type. `EBPutBack` goes on whatever `et_event_put` returns: an
event that ET does not take back stays with the event builder's attachment (`kept`).
`EBDetach` and `EBCrash` hand everything back to ET. The file is opened for
appending: `older` is what it held, `raw` what this process has added.

**DAQSystem.** `StartRun` is Run Control or a script: a fresh ET, a fresh event
builder, and files that are new or those of the run before (`FileNames`: Run Control
names them after the run, `start_daq_singleton` without `-et` always uses the same).
`WaitForReady` says whether minervadaq is only started after SIGUSR1
(Run Control) or after a fixed sleep (`runthedaq/start_daq_singleton`). Which
faults a run of the model sees is the constant `Faults`.

**TriggerSequence.** One action is one VME access that the outside can tell
from its neighbours; the loops over CRIMs and channels are taken turn by turn
(`idx`). The modules behind the bus are external, modelled from what the code
and its comments say of them: a CRIM lets a gate through while its latch is
reset, and the gate sets the latch (`ReadoutWorker.cpp:240`); the software gate
goes to the master and from it to the others (`ReadoutWorker.cpp:208`); the
master's gate leaves `SGATEFall` pending; a channel's sequencer starts some
time after the gate (`SetSequencerDelayValue`: 511 steps of 2.411 µs) and takes
`RDFEDone` down as it starts, which is why no status reset is needed
(`GINGU_RECOMMENDATION`). `Sleep` uses the one timing fact the code relies on:
4 ms are longer than that delay. `CutSleep` is the exception: a quit signal ends
`nanosleep` at once, and the sequencers are then asked too early (`cutShort`).
A failing read throws, a failing write is
repeated for ever, as `WriteCycle` is written. A new process finds latches,
interrupts and status bits as the last one left them. `CrimOf` is the cabling;
`RunModes` are the modes a run may choose from.

**ETTransfer.** A thread's `pc` is the mutex it is about to take, or the point
of an ET call that another thread or a kill can tell from its neighbours. The
mutexes are those that are held together: `station` (`sys->stat_mutex`),
`system` (`sys->mutex`) and a transfer mutex per station; a list's own mutex is
held for one operation on the list, which is one step here. The attachment of
the event builder is spread, as in the code, over `known`
(`sys->attach[].num`), `ofProc` (`sys->proc[].att[]`), `natt` and `listed` (of
the station), which a kill can leave in disagreement. `big` says that the
blocks are larger than the event size ET was started with, so that each event
needs a temp file. `et_event_make` counts it (`ntemps`) before it has it;
`ProdMakeFails` is the file that cannot be made, whose count stays, and
`ProdMakeTooMany` the refusal at the limit, taken together with the 30 seconds in
which no temp file is given back. Either way the event stays with the producer
(`unmade`) until it detaches. Such an event may still say `ET_EVENT_TEMP` from an
earlier use, and is then taken off the count at detach (`stale`; whether it says so
is left open once any temp file was made). `ProdAgain` is the next minervadaq on the
same ET. `HeartFixMutexes` unlocks
only what nobody alive holds: `et_mutex_locked` tries for two seconds, which is
taken to be longer than a living holder keeps a mutex. `EBKilled` is a kill at
the points in `CrashAt`; one killed in the middle of `et_close` is not noticed
by the heart monitor. `Contract` maps the lists to the stream of `ETContract`.

**ETRepair.** An action is one store to the shared memory: the fields of an
event (`next`, `owner`, `prio`, `age`), of a list (`first`, `last`, `cnt`,
`lasthigh`) or of a list's fix record (`fixCnt` ... `fixCall`), each a function
of its own. `pc` names the store that comes next in the routine the user is in,
`call` the call and its arguments, `k` how many of its events are done, `lock`
the mutexes. The order of the stores is the code's, with the differences between
the single and the multiple forms of read, write and dump (`call.one`). After
`Crash` no store of the user follows; `Repair`, `Flush`, `Collect`, `Restore` and
`Detached` are the heart monitor's clean-up, which makes its stores through the
same routines (`cleanup`). `before` keeps the contents of a list when it was
locked, and `put` the events put since they were last new; only the properties
look at them. Stores are assumed to reach memory in program order (no compiler or
processor reordering), as the code assumes. A conductor's transfer is one step,
since its thread does not die alone and what it carries in between is not in any
list a user sees; how transfers interleave with users is the subject of
`ETTransfer`. Left out are the refusals of a list that is already full, which
`EventsConserved` rules out (the events to be written are in no list),
`et_restore_in`, which this DAQ's stations do not use, and statistics. A user
detaches only when it owns no event: `et_restore_events` gives a user's events up
before they are in a list (`et_readwrite.c:1683`), so one that is killed in its
own detach with events in hand loses them, and that kill is outside the model.
`GiveUp` leaves a read with the list's mutex free. The branch for an error of the
timed wait, which the code expects for "a bad value for the time" only, returns with
the mutex held (`et_readwrite.c:774`, `1007`) and is not modelled.

**FrontEndChannels.** `AddECROC` starts a process; `SetupStep` is what it does
for each channel and board, one register access at a time. `chain`, `status`,
`memory`, `sequencer`, `nfebsField` and `headerFirmware` are the hardware and
outlive the process; `Reply`, `OpenGate` and `Spill` are the hardware's own
steps, modelled from how the code uses them. A board contributes one frame to a
block, where the real one contributes several. `answers`, `readouts` are
history variables. `ReadBlock` narrows the length as `SetData` does, with
`UShort` as the modulus, small in the runs so that blocks pass it.

**How the ET modules relate.** `DAQSystem` uses `ETSystem`, whose steps are
whole calls. Two things are simpler there: events on their way between stations
are already in the queue, and those an event builder leaves behind are already
back in the pool. `ETTransfer` shows the difference: events that conductors
still hold when an event builder leaves reach the next one, if it attaches
before they are handed over. Run Control starts a fresh ET for each run, so
`DAQSystem` never sees this.

## 3. Runs

Runs that pass (bounds in the `.cfg` files):

| Run | Shows |
|---|---|
| `core` | two runs of two gates and two channels, the second with new files or behind the first one's, exceptions, signals, failing puts of the event builder and kills of both processes at every point: what a run adds to the file is a prefix of what was sent, and complete if it ends with the sentinel; blocks are in order; the file implements `RunRecord`; the exit code is true |
| `et_faults` | minervadaq started on a timer instead of the ready signal, ET stalling, coming back or failing calls of either program at any point, kills: pool conserved; the file may lack the first blocks, but has no holes |
| `numbering` | two runs over the same global gate file and database, with file, database and hardware failures and kills: headers and database rows agree; starting at 9, so that the number of digits changes |
| `liveness` | with a working ET a quit signal ends minervadaq, a queued sentinel or a signal ends the event builder, and nothing else does; with a global gate file and a SAM file that may each fail to open at any gate, exceptions and kills, the SAM file describes the run up to the last gate at which it could be opened |
| `trigger` | two runs of two gates, each in a beam, a mixed or a pedestal mode, two CRIMs with a channel each, two spills at any moment, time-outs, signals that may cut the sleep short, failing reads, a bus that comes and goes: the read-out is protected, never repeats a gate, and is coherent but for a gate whose sleep was cut, which ends its run; a quit signal ends the run from every point unless the bus goes down; without beam no software gate is lost |
| `et_transfer` | two event builders one after the other, two minervadaqs likewise, three events through a pool of two, with and without temp files, one of which may fail to be made, so that a later event may be refused; the event builder leaves or is killed at all points but the three windows below: no event is lost, the count of temp files is off by what failures and refusals explain and no more, nothing is stranded at an idle station, a dead user is cleaned up after, ET implements `ETContract`, and the only cycle of waiting threads is the one of `detach_hangs` |
| `et_progress` | the same with one minervadaq, under the fairness below: without temp files `et_event_new` returns, and an event builder that leaves or is killed is gone in the end |
| `et_repair` | from every quiet arrangement of three events over four lists and the user's hands, with both priorities: a call of up to three events, killed between any two stores, the clean-up after it, and the conductors at any moment: sound lists, no event lost or doubled, interrupted calls atomic, events never put stay away from the event builder |
| `front_ends` | two channels, every pair of five chains of boards (missing, mixed firmware), two processes with different hardware files, gates at any moment, message errors, header errors, kills: boards found are there, sequencers and blocks match them, frames are recovered, the loops end |

Runs that are expected to fail; each is a finding in `PROJECT.json`:

| Run | What the counterexample shows |
|---|---|
| `truncation` | a block of 70000 bytes reaches the file with 4464 |
| `bus_error` | a write that meets a bus error is repeated for ever |
| `detach_hangs` | with temp files, the event builder that leaves after the sentinel and the conductor that returns the sentinel wait for each other: AB-BA between `et_station.c:957` and `et_system.c:2158`. `et.txt` shows a system that stopped with these mutexes locked |

Divergences that the models contain and no run of their own is spent on. The first
five show as counterexamples when the run is changed as said:

- ET refuses the sentinel, and the exit code says that it is coming, as `SendSentinel`
  always returns true (`DAQWorker.cpp:417`; `exit_codes.h:14`: "Sentinel frame is coming
  from this node"). `MCDAQSystem.cfg` with `"ET"` among its `Faults` breaks
  `SentinelIsComing`.
- ET dies after a put, and a quit signal goes unnoticed in `et_wait_for_alive`
  (`DAQWorker.cpp:265`; `daqmain.cpp:110`: signals "which should exit the process").
  `MCLiveness.cfg` with `"ET"` among its `Faults` and without its invariant, which
  needs a working ET as well, breaks `QuitLeadsToExit`.
- A quit signal ends `nanosleep` (`ReadoutWorker.cpp:286`; `SA_RESTART`,
  `daqmain.cpp:103`, does not apply to it), and the gate is read out although its
  sequencers have not started: the wait for them finds the status bits of the gate
  before, where `ReadoutWorker.cpp:230` says "to be sure they're finished".
  `MCTrigger.cfg` with the invariant `FinishedWhenRead` shows it.
- A temp file that cannot be made stays counted (`et_event.c:53`, `59`;
  `et_private.h:547`: "current # of temp events existing"); after enough of them no
  block larger than an event gets through. `MCETTransfer.cfg` with the invariant
  `NTempsIsCurrent` shows it.
- `CheckForErrors` uses a logical `!` where a bitwise one is needed, and lets boards
  with a bad CRC or error flags through (`LVDSFrame.cpp:138`, `117`). `MCFrontEnds.cfg`
  with the invariant `AcceptedHeadersOK` shows it.

- A raw data file whose name is used again holds the records of several runs. A
  sentinel at its end may then be an older run's (one that was cut short behind it
  is not told apart), and the SAM files describe the last run only.
- `et_event_put`'s status goes unnoticed in the event builder (`EventBuilder.cpp:330`):
  each failure takes an event out of the pool until it detaches (`kept`), and as many
  as ET has events leave minervadaq in `et_event_new` until the event builder is
  stopped.
- A SAM file that cannot be opened keeps what it had, and neither the exit code nor
  the database says so (`ReadoutStateRecorder.cpp:319`, `431`).
- An event that was refused a temp file may carry `ET_EVENT_TEMP` from an earlier use
  and then takes one off the count for a file it does not have
  (`et_readwrite.c:1754`, `1775`).
- A spill between the reset of a latch and the clearing of old interrupts sets the
  latch and loses its interrupt, so that nothing can trigger any more and the run ends
  with the time-out of an hour (`ReadoutWorker.cpp:205`). `AllGatesRead` is about
  runs without spills.
- In the mixed modes a spill that comes between arming and the software gate is
  recorded as a pedestal (`ReadoutWorker.cpp:211`).
- Three windows in which a killed event builder leaves ET damaged, although
  "Any partially formed attachment will be eradicated from existence"
  (`et_system.c:1361`): between counting the attachment and activating the
  station (`et_station.c:845`), between uncounting it and clearing the process's
  record (`et_station.c:981`), and in `et_close` with the system mutex held
  (`et_local.c:464`). `CrashAt <- AllPoints` in `MCETTransfer.cfg` breaks
  `NoGhostAttachment`.
- `EChannels.cpp:429` compares a board's number with itself; what it is meant
  to exclude is excluded by `ClearAndResetStatusRegister`
  (`AvailableMeansPresent`).

*Bounds.* Two channels, two gates and two runs are the least that tells "next
channel" from "next gate" from "next run"; a pool of one or two events is
smaller than the blocks of one gate, so minervadaq does run into an empty pool.
Two CRIMs are what the `NUMI` configuration has; with one channel each, every
split of a spill over CRIMs is visible. Two spills leave room for a lost or partial
one before the gate that is read. In `liveness` one SAM file is enough, because
the files do not know of each other, and one run, because `MetadataMatchesHeaders` only
speaks of what the current run has written. In `et_transfer` a
pool of two makes the producer wait, three events let one be with each conductor and
one with the user, and a second event builder meets what the first one left; one failure
and one temp file in use reach the limit of two and turn away the next event; that takes a
second minervadaq, because the first keeps the event of the failure until it detaches, and
then no third event is left to ask for. In `et_progress` the second
minervadaq is left out, as it adds nothing to who waits for whom. In
`et_repair` three events are the least for a high priority event to be linked
in between two others, and for a batch to meet an empty list and go on with a
filled one; calls start from every arrangement, and the flush and the restore
after a kill are calls on the repaired list, so that one call of the user is
enough.
In `front_ends` two boards tell the first from the others, and the second
process meets the registers of the first. The proofs
remove the bounds for the results listed below.

*Deadlock* is checked in all runs but those of `ETTransfer`, in which
the threads may all be idle; who waits for whom is the subject of
`OnlyDetachDeadlocks` instead. The only stutter allowed in the others is after
the last run.

*Fairness.* `DAQSystem!FairSpec`: each process takes its steps, since both are
ordinary processes; but the wait for the trigger is only fair once the quit
flag is down, because nothing makes a trigger arrive. `TriggerSequence!FairSpec`:
minervadaq takes its steps; a sequencer that has a gate to read starts and
ends (hardware); nothing makes a spill come, or an hour pass, or a broken bus
recover. `ETTransfer!Spec`: a thread inside an ET call goes on when it can; weak
fairness is enough for the mutexes, because the others take each one finitely
often in the model; nothing makes a program start, call, quit or be killed.
`FrontEndChannels!FairSpec`: minervadaq takes its steps, and a message that was
sent is answered or reported as timed out (the CROC-E); nothing makes a gate
come.

*Mutants.* Each property of a passing run is broken by a mutant of a mapped
definition, kept next to it and marked `Mutant`.

## 4. Proofs

Six modules hold theorems. Every property of a passing run but the liveness ones
is stated by one of them, action properties and refinements included. They hold for every value of the
constants that the named assumptions allow (`NEventsAssumption`,
`DAQAssumption`, `EBAssumption`, `TriggerAssumption`, `ETTransferAssumption`,
`ETRepairAssumption`, `ChannelAssumption`; TLC evaluates them in the runs). A theorem that needs more
says so in its `ASSUME`.

| Module | Theorem | Shows always | If |
|---|---|---|---|
| `DAQSystemProofs` | `TypeCorrect`, `Invariance` | `TypeOK`, `IInv` | |
| | `PoolIsConserved` | `PoolConserved` | |
| | `RawPrefix` | `RawIsPrefix` | |
| | `CompleteAtSentinel` | `SentinelMeansComplete` | |
| | `GatesIncrease` | `GlobalGatesIncrease` | |
| | `BlocksInOrder` | `StreamInOrder` | |
| | `Refinement` | `RawFileIsRunRecord` | minervadaq waits for the ready signal, ET does not fail its calls |
| `DAQRecordProofs` | `NoHoles` | `RawHasNoHoles` | |
| | `MetadataCorrect` | `MetadataMatchesHeaders` | |
| | `RowCoversHeaders` | `DBRowCoversHeaders` | |
| | `RangesMeetAtMostOnce` | `RunRangesMeetAtMostOnce` | |
| | `SentinelComes` | `SentinelIsComing` | ET does not fail |
| | `EndsAtSentinel` | `QuitsAtSentinel` | ET and the event builder do not fail, and no block is shorter than six bytes (`Tells`) |
| `TriggerSequenceProofs` | `TypeCorrect`, `Invariance` | `TypeOK`, `IInv` | |
| | `Latched` | `LatchedWhileReading` | |
| | `Coherent` | `GateCoherent` | |
| | `ReadOnceInOrder` | `GatesReadOnceInOrder` | |
| `ETTransferProofs` | `Invariance` | `IInv` | |
| | `Conserved` | `EventsConserved` | |
| | `TempsCounted` | `TempsAccounted` | |
| | `IdleEmpty` | `IdleStationEmpty` | |
| | `Refinement` | `ImplementsContract` | |
| | `RecordsKept` | `Recorded`, `Releases` | no kill in `Windows` |
| | `NoGhost` | `NoGhostAttachment` | no kill in `Windows` |
| | `DeadlockOnlyInDetach` | `OnlyDetachDeadlocks` | no kill in `Windows` |
| `ETRepairProofs` | `Invariance` | `Inv` | |
| | `Sound` | `ListsSound` | |
| | `Conserved` | `EventsConserved` | |
| | `OnlyPut` | `OnlyPutEventsTravel` | |
| | `Atomic` | `CallsAtomic` | |
| `FrontEndProofs` | `TypeCorrect`, `Invariance` | `TypeOK`, `IInv` | |
| | `BoardsPresent` | `AvailableMeansPresent` | |
| | `SequencersMatch` | `SequencersMatchBoards` | |
| | `BlocksMatch` | `BlocksMatchBoards` | |
| | `FramesCorrect` | `FramesRecovered` | |

The conditions are where the code stops being right, not where the proofs stop:
with a failing ET a refused sentinel is taken for sent (section 3); a block of
less than six bytes makes `leadBankType` read beyond what was copied, and the
event builder may leave at it; and the three `Windows` are the
ones in which a killed event builder leaves ET damaged. What a kill in a window
cannot damage (events, temp files, the idle station, the contract) is proved for
kills at every point.

**The stream and the file** (`DAQSystemProofs`). The file is a prefix of what was
sent because file, event in hand and queue, put together, are what was sent;
that is `Stream`, and it is inductive only together with who holds which event
at which point (`Pool`) and with the fact that the event builder is attached
before minervadaq starts (`Control`). `SentinelMeansComplete` needs that a
sentinel is the last block sent (`OneSentinel`), which in turn needs that
`sentSentinel` is only true at points from which nothing is sent any more
(`Control`, `FinalPoints`). `Invariance` proves the conjunction `IInv`
inductive. The lemma `StepKinds` first sorts all steps into the few kinds that
matter to these invariants (declares a block, takes one, writes one, puts one
back, detaches, leaves all that alone), and the proof for each conjunct goes
over the kinds instead of over all actions. `GatesIncrease` rests on
`Numbering`, which relates the number in use to the one in the file at each
control point, and `BlocksInOrder` on `Order`, which says what was declared last
at each control point. `Refinement` adds `NothingRefused`: with a working ET
what is declared is what is sent; each step then writes one block, starts a new
file, goes on behind an old one, or leaves it.

**What a run leaves behind** (`DAQRecordProofs`). Without the ready signal
`Stream` fails, and `Skipping` takes its place: file, event in hand and queue are
what was sent from some block on, the same block for the whole run. The metadata
and the database row repeat numbers that the headers also have; that they agree
follows from counting (`Counting`: gates begun and DAQ headers differ by at most one,
at known points), from the global gates in the headers of the run (`HeaderGates`: they
are numbered from `firstGate` without a gap) and from the global gate *within* a run
(`RunNumbering`), which does not need the global gate file to be sound, as the one
across runs (`Numbering`) does. `Described` says of each SAM file this run has written
that it describes a beginning of the run, and all of it unless the file is `stale`.
`Rows` says which row belongs to the run in progress, `Ranges` bounds the rows of
earlier runs by the number in the file.
`SentinelComes` needs `SentinelPut` (what is taken for sent was put), and
`EndsAtSentinel` needs `Quitting`, which says for each point of the event
builder why it no longer loops.

**The trigger** (`TriggerSequenceProofs`). The loop resets the master's latch
first, and a gate sets every latch it finds reset. A spill may come in the middle
of the loop, through the CRIMs that are already open; but it goes through the
master as well, and closes it again. So when all latches have been reset, an open
master means that all CRIMs are open (`Armed`), and a gate that leaves an
interrupt behind the clearing of old ones was let through by every CRIM and
found every sequencer on (`Caught`, `SequencersOn`). A sleep that was cut short breaks
the end of this argument (the sequencers may not have started), so `Coherent` excludes
its gate; that it is the last one of its run (`LastGates`) holds because the signal that
cut it also cleared the quit flag. `Numbered` orders the gates
each sequencer has seen, which gives reading once and in order, across runs and
exceptions.

**ET mutex by mutex** (`ETTransferProofs`). `Mutexes` says, for each thread and
point, which mutexes it holds, and what a dead one leaves locked; it is the
backbone: a conductor's list, the station's status and the attachment can only
change under the mutexes that a thread at the point in question is known to
hold. `Attachment` and `Owning` relate the four places that record the
attachment to each other and to the events the event builder owns; `Conducting`
and `Producing` say what the conductors and the producer carry; `Flushing`, that
an idle station's list is empty but between going idle and being flushed.
Conservation is then a sum that every step keeps. So is the count of temp files, but
for `et_event_make`: `Counting` bounds by how much the count is off (`Drift`), from
above by the failures, from below by the refusals, less what events with a stale mark
will still take off it. For
`Refinement` the stream of `ETContract` is cut into pieces (events with the
conductor, in the list, in hand), and each step moves one piece, which is a step
of the contract or none. `NoGhost` rests on `Recorded`, the exact state of the four
records at each point, by which the clean-up always finds what a dead event
builder left counted. `DeadlockOnlyInDetach` adds `Releases` (only a dead event
builder holds a mutex it is not working under) and goes over who can wait for
whom: any set of threads that wait only for each other contains the event
builder in `et_station_detach` and a conductor that returns temp files.

**Lists and their repair** (`ETRepairProofs`). Pointers say nothing by themselves
while a call is half done, so the invariant `Inv` speaks of a sequence `now[l]`
for each list: some such sequences exist (`Good`), and the pointers, the counts and
the fix record are related to them, at each `pc`, by what the stores still to
come will do. For an unlocked list the relation is `Held` (`Free`). For the list
a call works on it is `ReadState` or `WriteState`, and once the user is dead
`DeadRead` or `DeadWrite`, which say only what the repair can tell from the fix
record: `CrashStep` shows that every point of a call implies them, `RepairStep`
that they are enough for the repair to get back to `Held`. `now[l]` changes at one
store of each event written, the one from which on the repair would find it, and
at one store of a read, the one that lowers `cnt`; this choice is the proof's main
idea, and makes `CallsAtomic` follow from what the two states say of `now` and
`before`. `Apart` and `Outside` (an event in no list is owned by the user or in
the heart monitor's array), with `Loose` (the events of the call are in no list
yet, or no longer) and `Leaving` (a detaching user owns only what it flushes),
give conservation; `Travel` gives `OnlyPutEventsTravel`. A conductor's transfer is
shown to be `Merged`, the old sequence with the new one inserted behind its high
priority part, for appending and for `LLInsert` alike. What `Chain` and `Written`
compute is needed for every length (`ChainIs`, `WrittenIs`); it is shown by
smallest counterexample (`SmallestNumber`), and the `CHOOSE` of `Walk`, `Leading`
and `String` by uniqueness of its witness. `Inv` is for any number of calls, so the bound `MaxCalls` of the
run is gone.

**Channels and boards** (`FrontEndProofs`). A board is accepted on what is in
the memory and the status register, both of which outlive messages and
processes. `Exchange` says what they hold between a question and its answer: until
a board is judged the memory is empty, or an error is flagged, or the memory has
the answer to the question just asked; that needs `Sequencers`, since a sequencer left
on by the last process would fill the memory when a gate comes. `Found` (boards accepted, channels kept, firmware in
the header) and `Counters` (how far the loops are) build on it, and `Blocks`
(what the memory of a kept channel holds during a gate) on both. `FramesRecovered`
rests on facts about `Offset`, the sum of the frame lengths, for any number of
frames: that it grows, and bounds its parts. They are shown by smallest
counterexample, from the well-foundedness of `<` in the library (`LeastNumber`).

**Model-checked only.**

- Liveness (`QuitLeadsToExit`, `SentinelStopsBuilder`, `SignalStopsBuilder`,
  `QuitEndsRun`, `AllGatesRead`, `NewReturns`, `BuilderLeaves`, `LoopsEnd`):
  fairness is out of the prover's reach.
- The properties of the runs that are expected to fail.

## 5. Not modelled

- Of minervadaq: the bit layouts of frames, headers and registers, the text of
  metadata and logs, none of which steers anything; the test-beam trigger
  (`TriggerCosmics`) and its interrupts; the sqlite statements; buffers below
  the level of frames (the rounding in `ReadBLT`); the `NEARLINE` and multi-node
  builds. A frame whose length makes the 16-bit index of
  `ProcessDataIntoFrames` wrap in the middle of a block is outside the model.
- Of ET 9.0: parallel, prescaled and conditional stations, stations created or
  removed while events flow, `et_restore_in`, the remote protocol
  (`et_remote.c`, `et_server.c`, `et_network.c`), bridges, Java and monitoring.
  This DAQ uses one serial station; the client's remote calls are served by a
  thread of the ET system, which makes the calls that are modelled.
- The ET of the Mx2 build. `setupdaqenv.sh` selects `et_9.0` for six locales, and
  `et_16.5` for `LabF` (line 128) and `Mx2` (line 140), as do `compiler.sh:36` and
  `README.BUILD`; `et_16.5` is a git submodule whose contents are not in the tree. `ETTransfer` and `ETRepair`, their
  theorems, the finding `detach_hangs` and the count of temp files in section 3 are therefore about the ET
  of the six older locales. `ETSystem`, on which `DAQSystem` rests, is read off `et_9.0`
  as well; it has only what the two programs see of ET's calls, but nothing here checks
  it against `et_16.5`.
- `ReadoutStateRecorder.cpp:144-165` holds an unresolved merge conflict, in the case of
  `GetNextTriggerType` that the beam mode takes. The file does not compile as it stands.
  `GetNextTriggerType` is modelled without the lines between the markers, which hold
  nothing but sleeps.
- Two thirds of the lines in the tree are not part of the running system: a second ET
  (`et_12.0`, which no locale selects), sqlite and its Tcl interface, the CAEN headers,
  tests and utilities. The models cover the part that carries the data, from the
  front-end boards to the raw data file; the share of the whole tree stays small for
  that reason.

## 6. Plan

1. Models: the cosmic and test-beam trigger with the v5 CRIM's rules
   (`CRIM.cpp:560`); the steps of the two database inserts.
