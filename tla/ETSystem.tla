------------------------------ MODULE ETSystem ------------------------------
(***************************************************************************)
(* The ET (Event Transfer) system between minervadaq and the event builder *)
(* as the two programs use it, one step per ET call.  ETTransfer models    *)
(* the calls lock by lock, with the conductors and the heartbeat monitor;  *)
(* ETRepair models the stores they make.                                   *)
(*                                                                         *)
(*   - GRANDCENTRAL owns a fixed pool of NEvents events.  et_event_new     *)
(*     with ET_SLEEP waits until one is free.                              *)
(*   - et_event_put hands the filled event to CHICAGO_UNION, a blocking,   *)
(*     select-all, single-user station: a FIFO queue.  While nobody is     *)
(*     attached the station is idle and the event goes straight back to    *)
(*     the pool.                                                           *)
(*   - the event builder puts every event back into the pool.              *)
(*   - an et_event_put that fails leaves the event with the attachment of  *)
(*     the caller until that ends.                                         *)
(*   - detaching (station restore mode ET_STATION_RESTORE_OUT) releases    *)
(*     the queued events and those of the user to the pool.                *)
(***************************************************************************)
EXTENDS Naturals, Sequences

CONSTANT NEvents        \* size of the ET event pool (et_start -n)

ASSUME NEventsAssumption == NEvents \in Nat \ {0}

VARIABLES
  etAlive,              \* what et_alive(sys_id) answers
  etFree,               \* free events in GRANDCENTRAL
  held,                 \* events stuck with minervadaq's attachment
  kept,                 \* events stuck with the event builder's attachment
  station,              \* input list of CHICAGO_UNION
  attached              \* is the event builder attached to CHICAGO_UNION?

etVars == <<etAlive, etFree, held, kept, station, attached>>

ETInit ==
  /\ etAlive = TRUE
  /\ etFree = NEvents
  /\ held = 0
  /\ kept = 0
  /\ station = <<>>
  /\ attached = FALSE

-----------------------------------------------------------------------------
\* et_event_new + et_event_put of one event by the producer.  The event joins
\* the station's queue, or returns to the pool when the station is idle.
ETPut(e) ==
  /\ etFree > 0
  /\ IF attached
       THEN station' = Append(station, e) /\ etFree' = etFree - 1
       ELSE UNCHANGED <<station, etFree>>
  /\ UNCHANGED <<held, kept>>

\* et_event_new succeeds and et_event_put fails.
ETPutFails ==
  /\ etFree > 0
  /\ etFree' = etFree - 1
  /\ held' = held + 1
  /\ UNCHANGED <<kept, station>>

\* Mutant: the stuck events are forgotten instead of released.
ETForgetProducer ==
  /\ held' = 0
  /\ UNCHANGED <<etAlive, etFree, kept, station, attached>>

\* et_station_detach of the producer, or the end of its process.
ETReleaseProducer ==
  /\ etFree' = etFree + held
  /\ held' = 0
  /\ UNCHANGED <<etAlive, kept, station, attached>>

\* et_event_get: the consumer takes the oldest queued event.
ETGet ==
  /\ station # <<>>
  /\ station' = Tail(station)
  /\ UNCHANGED <<etFree, held, kept>>

\* et_event_put by the consumer: the event returns to the pool.
ETReturn ==
  /\ etFree' = etFree + 1
  /\ UNCHANGED <<held, kept, station>>

\* et_event_put by the consumer fails: the event remains the attachment's.
ETReturnFails ==
  /\ kept' = kept + 1
  /\ UNCHANGED <<etFree, held, station>>

\* et_station_attach to CHICAGO_UNION.
ETAttach ==
  /\ attached' = TRUE
  /\ UNCHANGED <<etFree, held, kept, station>>

\* et_station_detach, or the loss of the consumer: everything the station and
\* its user hold (inHand events, and the kept ones) flows out to the pool.
ETDetach(inHand) ==
  /\ attached' = FALSE
  /\ etFree' = IF attached THEN etFree + Len(station) + inHand + kept ELSE etFree
  /\ kept' = 0
  /\ station' = <<>>
  /\ UNCHANGED held

=============================================================================
