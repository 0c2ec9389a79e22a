----------------------------- MODULE RunRecord -----------------------------
(***************************************************************************)
(* What the DAQ promises about a raw data file, without the machinery that *)
(* produces it: the file is only ever appended to.  It holds the records   *)
(* of one or, when a file name is used again, several runs one after       *)
(* another.  The record of a run starts with the run header; each gate is  *)
(* the block of every channel in readout order and then the DAQ header;    *)
(* the sentinel may come at any point and ends it.                         *)
(***************************************************************************)
EXTENDS Naturals, Sequences

CONSTANT NChannels

VARIABLES
  older,            \* the records of the earlier runs in the file
  record            \* the record of the current run, behind them: blocks with (at
                    \* least) a bank, a gate and a channel

\* May block b come directly after block a?
Follows(a, b) ==
  \/ a.bank # "Sentinel" /\ b.bank = "Sentinel"
  \/ a.bank = "Run"  /\ b.bank = "Data" /\ b.gate = 1          /\ b.ch = 1
  \/ a.bank = "Data" /\ b.bank = "Data" /\ b.gate = a.gate     /\ b.ch = a.ch + 1
                     /\ b.ch <= NChannels
  \/ a.bank = "Data" /\ b.bank = "DAQ"  /\ b.gate = a.gate     /\ a.ch = NChannels
  \/ a.bank = "DAQ"  /\ b.bank = "Data" /\ b.gate = a.gate + 1 /\ b.ch = 1

\* Which block may be the first?
Starts(b) == b.bank \in {"Run", "Sentinel"}

\* Blocks in the order a run produces them.
InOrder(blocks) ==
  /\ blocks # <<>> => Starts(blocks[1])
  /\ \A i \in 1..(Len(blocks) - 1) : Follows(blocks[i], blocks[i + 1])

Init == older = <<>> /\ record = <<>>

\* The event builder writes one more block.
WriteBlock ==
  /\ Len(record') = Len(record) + 1
  /\ \A i \in 1..Len(record) : record'[i] = record[i]
  /\ InOrder(record')
  /\ UNCHANGED older

\* The next run has a file of its own.
NewFile ==
  /\ older' = <<>>
  /\ record' = <<>>

\* The next run's record goes behind what the file holds.
AppendRun ==
  /\ older' = older \o record
  /\ record' = <<>>

Next == WriteBlock \/ NewFile \/ AppendRun

Spec == Init /\ [][Next]_<<older, record>>

=============================================================================
