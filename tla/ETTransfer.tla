----------------------------- MODULE ETTransfer -----------------------------
(***************************************************************************)
(* The inside of the ET system (et_9.0) that carries events from           *)
(* minervadaq to the event builder, at the granularity of its mutexes.     *)
(*                                                                         *)
(* Two stations, GRAND_CENTRAL (GC) and CHICAGO_UNION (CU; serial,         *)
(* blocking, select all, one user, restore OUT).  Five threads:            *)
(*                                                                         *)
(*   prod      the ET server thread that serves minervadaq, which connects *)
(*             as a remote client and is attached to GC;                   *)
(*   eb        the event builder, a local process attached to CU;          *)
(*   cGC, cCU  the conductor of each station: it empties the station's     *)
(*             output list into the next active station's input list;      *)
(*   heart     et_sys_heartmonitor, which cleans up after a local process  *)
(*             that no longer beats.                                       *)
(*                                                                         *)
(* Mutexes: sys->stat_mutex ("station"), sys->mutex ("system") and one     *)
(* transfer mutex per station.  The operations on one list are atomic:     *)
(* each runs under the mutex of its list and takes no other meanwhile.  An *)
(* event is the number of the block it carries; in GC's input list only    *)
(* their count matters.                                                    *)
(***************************************************************************)
EXTENDS Integers, Sequences, FiniteSets

CONSTANTS
  NEvents,      \* events of the pool (et_start -n), also the limit of temp events
  MaxMsgs,      \* bound: events put; the last one is the sentinel
  MaxBuilders,  \* bound: event builders started one after the other
  MaxProducers, \* bound: minervadaqs started one after the other
  MaxFailures,  \* bound: temp files that cannot be made
  TempChoices,  \* may the size asked for exceed the event size? subset of BOOLEAN
  CrashAt       \* where in its ET calls the event builder may be killed

ASSUME ETTransferAssumption ==
  /\ NEvents \in Nat \ {0}
  /\ MaxMsgs \in Nat
  /\ MaxBuilders \in Nat
  /\ MaxProducers \in Nat
  /\ MaxFailures \in Nat
  /\ TempChoices \subseteq BOOLEAN

VARIABLES
  lock,         \* holder of each mutex, or "none"
  pc,           \* where each thread is
  free,         \* length of GC's input list
  filling,      \* events owned by the producer's attachment (et_event_new)
  unmade,       \* those of them whose et_event_make failed
  stale,        \* those of the unmade that still say ET_EVENT_TEMP
  listIn,       \* input list of CU
  listOut,      \* output list of each station
  hand,         \* allevents of each station's conductor
  owned,        \* events owned by the event builder's attachment
  status,       \* CU's data.status
  natt,         \* CU's data.nattachments
  listed,       \* is the attachment in CU's data.att[]?
  known,        \* sys->attach[].num # -1
  ofProc,       \* sys->proc[].att[] # -1
  ntemps,       \* sys->ntemps
  temps,        \* temps[0] # NULL in each conductor
  big,          \* do the producer's events need a temp file?
  sent,         \* events put so far
  builders,     \* event builders started so far
  producers,    \* minervadaqs started so far
  failed,       \* et_temp_create failed so often (history)
  refused       \* et_event_new gave ET_ERROR_TOOMANY so often (history)

lists == <<free, filling, listIn, listOut, hand, owned>>
atts  == <<status, natt, listed, known, ofProc>>
misses == <<unmade, stale, failed, refused>>
other == <<ntemps, temps, big, sent, builders, producers, misses>>
vars  == <<lock, pc, lists, atts, other>>

Stations == {"GC", "CU"}
Locks    == {"station", "system"} \cup Stations
Conductor == [GC |-> "cGC", CU |-> "cCU"]
Threads  == {"prod", "eb", "heart", "cGC", "cCU"}

Init ==
  /\ lock = [l \in Locks |-> "none"]
  /\ pc = [prod |-> "out", eb |-> "down", heart |-> "watch", cGC |-> "wait", cCU |-> "wait"]
  /\ free = NEvents /\ filling = 0
  /\ listIn = <<>> /\ owned = <<>>
  /\ listOut = [s \in Stations |-> <<>>]
  /\ hand = [s \in Stations |-> <<>>]
  /\ status = "IDLE" /\ natt = 0
  /\ listed = FALSE /\ known = FALSE /\ ofProc = FALSE
  /\ ntemps = 0 /\ temps = [s \in Stations |-> FALSE]
  /\ big \in TempChoices
  /\ sent = 0 /\ builders = 0 /\ producers = 1
  /\ unmade = 0 /\ stale = 0 /\ failed = 0 /\ refused = 0

Goto(t, from, to) ==
  /\ pc[t] = from
  /\ pc' = [pc EXCEPT ![t] = to]

Lock(t, l) ==
  /\ lock[l] = "none"
  /\ lock' = [lock EXCEPT ![l] = t]

Unlock(ls) == lock' = [l \in Locks |-> IF l \in ls THEN "none" ELSE lock[l]]

-----------------------------------------------------------------------------
(* The producer: et_station_attach, et_event_new, et_event_put and         *)
(* et_station_detach at GC, which is always active and has many users.     *)

ProdLockStation ==
  /\ \/ Goto("prod", "out", "attSystem")
     \/ Goto("prod", "detach", "detSystem")
  /\ Lock("prod", "station")
  /\ UNCHANGED <<lists, atts, other>>

ProdLockSystem ==
  /\ \/ Goto("prod", "attSystem", "attEnd")
     \/ Goto("prod", "detSystem", "detEnd")
  /\ Lock("prod", "system")
  /\ UNCHANGED <<lists, atts, other>>

ProdAttached ==
  /\ Goto("prod", "attEnd", "ready")
  /\ Unlock({"station", "system"})
  /\ UNCHANGED <<lists, atts, other>>

ProdCallNew ==
  /\ sent < MaxMsgs
  /\ Goto("prod", "ready", "new")
  /\ UNCHANGED <<lock, lists, atts, other>>

\* et_station_read of GC with ET_SLEEP: waits for an event in the list.
ProdNew ==
  /\ Goto("prod", "new", IF big THEN "make" ELSE "full")
  /\ free > 0
  /\ free' = free - 1
  /\ filling' = filling + 1
  /\ UNCHANGED <<lock, listIn, listOut, hand, owned, atts, other>>

\* et_event_make: the system mutex guards the count of temp events, which
\* counts the new one before its file is made.
ProdMake ==
  /\ Goto("prod", "make", "full")
  /\ lock["system"] = "none"
  /\ ntemps < NEvents
  /\ ntemps' = ntemps + 1
  /\ UNCHANGED <<lock, lists, atts, temps, big, sent, builders, producers, misses>>

\* et_event_new returns an error after the read: the event is the attachment's
\* and stays as the read left it.  One that had a temp file before may still say
\* ET_EVENT_TEMP, as only et_init_event_ clears that.
Unmade ==
  /\ Goto("prod", "make", "ready")
  /\ lock["system"] = "none"
  /\ unmade' = unmade + 1
  /\ \E old \in {0, IF sent > 0 \/ producers > 1 THEN 1 ELSE 0} : stale' = stale + old
  /\ UNCHANGED <<lock, lists, atts, temps, big, sent, builders, producers>>

\* et_temp_create fails: the count stays as it is.
ProdMakeFails ==
  /\ Unmade
  /\ ntemps < NEvents
  /\ failed < MaxFailures
  /\ ntemps' = ntemps + 1
  /\ failed' = failed + 1
  /\ UNCHANGED refused

\* ET_ERROR_TOOMANY, and no temp file is given back in the next 30 seconds.
ProdMakeTooMany ==
  /\ Unmade
  /\ ntemps >= NEvents
  /\ refused' = refused + 1
  /\ UNCHANGED <<ntemps, failed>>

ProdPut ==
  /\ Goto("prod", "full", "ready")
  /\ filling' = filling - 1
  /\ sent' = sent + 1
  /\ listOut' = [listOut EXCEPT !["GC"] = Append(@, sent + 1)]
  /\ UNCHANGED <<lock, free, listIn, hand, owned, atts, ntemps, temps, big, builders,
                 producers, misses>>

\* minervadaq detaches, or the server sees its connection end, between two
\* calls.
ProdQuit ==
  /\ \/ Goto("prod", "ready", "detach")
     \/ Goto("prod", "full", "detach")
  /\ UNCHANGED <<lock, lists, atts, other>>

\* Mutant: the temp file of a new event that is returned stays counted.
ProdDetachedKeepsTemp ==
  /\ Goto("prod", "detEnd", "gone")
  /\ free' = free + filling
  /\ filling' = 0 /\ unmade' = 0 /\ stale' = 0
  /\ Unlock({"station", "system"})
  /\ UNCHANGED <<listIn, listOut, hand, owned, atts, ntemps, temps, big, sent, builders,
                 producers, failed, refused>>

\* et_restore_events: every event goes straight back to GC (et_station_ndump),
\* and each that says ET_EVENT_TEMP takes one off the count.
ProdDetached ==
  /\ Goto("prod", "detEnd", "gone")
  /\ free' = free + filling
  /\ ntemps' = IF big THEN ntemps - (filling - unmade) - stale ELSE ntemps
  /\ filling' = 0 /\ unmade' = 0 /\ stale' = 0
  /\ Unlock({"station", "system"})
  /\ UNCHANGED <<listIn, listOut, hand, owned, atts, temps, big, sent, builders,
                 producers, failed, refused>>

\* The next minervadaq connects.
ProdAgain ==
  /\ producers < MaxProducers
  /\ Goto("prod", "gone", "out")
  /\ producers' = producers + 1
  /\ UNCHANGED <<lock, lists, atts, ntemps, temps, big, sent, builders, misses>>

Prod ==
  \/ ProdLockStation \/ ProdLockSystem \/ ProdAttached \/ ProdCallNew \/ ProdNew
  \/ ProdMake \/ ProdMakeFails \/ ProdMakeTooMany \/ ProdPut
  \/ ProdQuit \/ ProdDetached \/ ProdAgain

-----------------------------------------------------------------------------
(* The conductor of station s.                                             *)

\* et_llist_read: it takes everything in the output list.
Take(s) ==
  /\ Goto(Conductor[s], "wait", "transfer")
  /\ listOut[s] # <<>>
  /\ hand' = [hand EXCEPT ![s] = listOut[s]]
  /\ listOut' = [listOut EXCEPT ![s] = <<>>]
  /\ UNCHANGED <<lock, free, filling, listIn, owned, atts, other>>

LockTransfer(s) ==
  /\ Goto(Conductor[s], "transfer", "route")
  /\ Lock(Conductor[s], s)
  /\ UNCHANGED <<lists, atts, other>>

\* Mutant: the system mutex is taken whether there are temp events or not.
RouteAlwaysUnlinks(s) ==
  /\ Goto(Conductor[s], "route", IF s = "GC" /\ status = "ACTIVE" THEN "toCU" ELSE "unlink")
  /\ UNCHANGED <<lock, lists, atts, other>>

\* The next active station downstream, GC at the end of the chain.  The
\* pointers left in temps[] by earlier events are never cleared.
Route(s) ==
  /\ IF s = "GC" /\ status = "ACTIVE"
       THEN Goto(Conductor[s], "route", "toCU") /\ UNCHANGED temps
       ELSE /\ Goto(Conductor[s], "route", IF temps[s] \/ big THEN "unlink" ELSE "toGC")
            /\ temps' = [temps EXCEPT ![s] = @ \/ big]
  /\ UNCHANGED <<lock, lists, atts, ntemps, big, sent, builders, producers, misses>>

\* Temp files are unlinked under the system mutex, with the transfer mutex held.
UnlinkTemps(s) ==
  /\ Goto(Conductor[s], "unlink", "toGC")
  /\ lock["system"] = "none"
  /\ ntemps' = ntemps - Len(hand[s])
  /\ UNCHANGED <<lock, lists, atts, temps, big, sent, builders, producers, misses>>

WriteGC(s) ==
  /\ Goto(Conductor[s], "toGC", "unlock")
  /\ free' = free + Len(hand[s])
  /\ hand' = [hand EXCEPT ![s] = <<>>]
  /\ UNCHANGED <<lock, filling, listIn, listOut, owned, atts, other>>

\* Mutant: the events are linked in at the front of the list.
WriteCUFront(s) ==
  /\ Goto(Conductor[s], "toCU", "unlock")
  /\ listIn' = hand[s] \o listIn
  /\ hand' = [hand EXCEPT ![s] = <<>>]
  /\ UNCHANGED <<lock, free, filling, listOut, owned, atts, other>>

WriteCU(s) ==
  /\ Goto(Conductor[s], "toCU", "unlock")
  /\ listIn' = listIn \o hand[s]
  /\ hand' = [hand EXCEPT ![s] = <<>>]
  /\ UNCHANGED <<lock, free, filling, listOut, owned, atts, other>>

UnlockTransfer(s) ==
  /\ Goto(Conductor[s], "unlock", "wait")
  /\ Unlock({s})
  /\ UNCHANGED <<lists, atts, other>>

Conduct(s) ==
  \/ Take(s) \/ LockTransfer(s) \/ Route(s) \/ UnlinkTemps(s)
  \/ WriteGC(s) \/ WriteCU(s) \/ UnlockTransfer(s)

-----------------------------------------------------------------------------
(* The event builder: et_station_attach to CU.                             *)

EBStart ==
  /\ builders < MaxBuilders
  /\ Goto("eb", "down", "attach")
  /\ builders' = builders + 1
  /\ UNCHANGED <<lock, lists, atts, ntemps, temps, big, sent, producers, misses>>

\* et_station_attach: CU takes one user.  The program that is turned away exits
\* without et_close, and its heartbeat ends.
EBLockStation ==
  /\ lock["station"] = "none"
  /\ IF natt >= 1
       THEN Goto("eb", "attach", "dead") /\ UNCHANGED lock
       ELSE Goto("eb", "attach", "attSystem") /\ Lock("eb", "station")
  /\ UNCHANGED <<lists, atts, other>>

EBRegister ==
  /\ Goto("eb", "attSystem", "attKnown")
  /\ Lock("eb", "system")
  /\ known' = TRUE /\ ofProc' = TRUE
  /\ UNCHANGED <<lists, status, natt, listed, other>>

EBUnlockSystem ==
  /\ Goto("eb", "attKnown", "attCount")
  /\ Unlock({"system"})
  /\ UNCHANGED <<lists, atts, other>>

EBCount ==
  /\ Goto("eb", "attCount", "attActive")
  /\ natt' = natt + 1 /\ listed' = TRUE
  /\ UNCHANGED <<lock, lists, status, known, ofProc, other>>

\* A serial station is activated without the transfer mutexes.
EBActivate ==
  /\ Goto("eb", "attActive", "loop")
  /\ status' = "ACTIVE"
  /\ Unlock({"station"})
  /\ UNCHANGED <<lists, natt, listed, known, ofProc, other>>

-----------------------------------------------------------------------------
(* The event builder's loop: et_event_get, et_event_put.                   *)

EBGet ==
  /\ Goto("eb", "loop", "got")
  /\ listIn # <<>>
  /\ owned' = <<Head(listIn)>>
  /\ listIn' = Tail(listIn)
  /\ UNCHANGED <<lock, free, filling, listOut, hand, atts, other>>

\* After the sentinel the loop ends.
EBPut ==
  /\ Goto("eb", "got", IF Head(owned) = MaxMsgs THEN "detach" ELSE "loop")
  /\ listOut' = [listOut EXCEPT !["CU"] = @ \o owned]
  /\ owned' = <<>>
  /\ UNCHANGED <<lock, free, filling, listIn, hand, atts, other>>

\* A signal ends the loop at any time.
EBQuit ==
  /\ Goto("eb", "loop", "detach")
  /\ UNCHANGED <<lock, lists, atts, other>>

-----------------------------------------------------------------------------
(* The event builder: et_station_detach from CU, then et_close.            *)

EBDetStation ==
  /\ Goto("eb", "detach", "detSystem")
  /\ Lock("eb", "station")
  /\ UNCHANGED <<lists, atts, other>>

EBDetSystem ==
  /\ Goto("eb", "detSystem", IF natt = 1 THEN "detGC" ELSE "restore")
  /\ Lock("eb", "system")
  /\ known' = FALSE
  /\ UNCHANGED <<lists, status, natt, listed, ofProc, other>>

\* Mutant: the station is made idle without stopping the transfers.
EBDetNoTransfer ==
  /\ Goto("eb", "detGC", "idle")
  /\ UNCHANGED <<lock, lists, atts, other>>

\* et_transfer_lock_all, in the order of the stations, with both other mutexes
\* held.
EBDetTransfer ==
  /\ \/ Goto("eb", "detGC", "detCU") /\ Lock("eb", "GC")
     \/ Goto("eb", "detCU", "idle") /\ Lock("eb", "CU")
  /\ UNCHANGED <<lists, atts, other>>

\* Mutant: the station of the last user stays active.
EBStayActive ==
  /\ Goto("eb", "idle", "flush")
  /\ Unlock(Stations)
  /\ UNCHANGED <<lists, atts, other>>

EBIdle ==
  /\ Goto("eb", "idle", "flush")
  /\ status' = "IDLE"
  /\ Unlock(Stations)
  /\ UNCHANGED <<lists, natt, listed, known, ofProc, other>>

\* et_flush_events: et_station_nread of the input list by the attachment that
\* is leaving ...
EBFlushRead ==
  /\ Goto("eb", "flush", "restore")
  /\ owned' = owned \o listIn
  /\ listIn' = <<>>
  /\ UNCHANGED <<lock, free, filling, listOut, hand, atts, other>>

\* Mutant: the events read by the flush are not written.
EBForget ==
  /\ Goto("eb", "restore", "detCount")
  /\ owned' = <<>>
  /\ UNCHANGED <<lock, free, filling, listIn, listOut, hand, atts, other>>

\* ... then et_station_nwrite to the output list, and et_restore_events of
\* whatever the attachment still owns.
EBRestore ==
  /\ Goto("eb", "restore", "detCount")
  /\ listOut' = [listOut EXCEPT !["CU"] = @ \o owned]
  /\ owned' = <<>>
  /\ UNCHANGED <<lock, free, filling, listIn, hand, atts, other>>

EBUncount ==
  /\ Goto("eb", "detCount", "detUnlock")
  /\ natt' = natt - 1 /\ listed' = FALSE
  /\ UNCHANGED <<lock, lists, status, known, ofProc, other>>

EBDetUnlock ==
  /\ Goto("eb", "detUnlock", "detProc")
  /\ Unlock({"station"})
  /\ UNCHANGED <<lists, atts, other>>

EBDetProc ==
  /\ Goto("eb", "detProc", "detEnd")
  /\ ofProc' = FALSE
  /\ UNCHANGED <<lock, lists, status, natt, listed, known, other>>

EBDetEnd ==
  /\ Goto("eb", "detEnd", "close")
  /\ Unlock({"system"})
  /\ UNCHANGED <<lists, atts, other>>

\* et_close: the process gives up its slot with the system mutex held.
EBClose ==
  /\ \/ Goto("eb", "close", "closing") /\ Lock("eb", "system")
     \/ Goto("eb", "closing", "down") /\ Unlock({"system"})
  /\ UNCHANGED <<lists, atts, other>>

\* The process is killed.  One that has given up its slot is not missed.
EBKilled ==
  /\ pc["eb"] \in CrashAt
  /\ pc' = [pc EXCEPT !["eb"] = IF @ = "closing" THEN "down" ELSE "dead"]
  /\ UNCHANGED <<lock, lists, atts, other>>

\* The steps the event builder takes when it runs.
EBStep ==
  \/ EBLockStation \/ EBRegister \/ EBUnlockSystem \/ EBCount \/ EBActivate
  \/ EBGet \/ EBPut
  \/ EBDetStation \/ EBDetSystem \/ EBDetTransfer \/ EBIdle \/ EBFlushRead \/ EBRestore
  \/ EBUncount \/ EBDetUnlock \/ EBDetProc \/ EBDetEnd \/ EBClose

EB == EBStart \/ EBStep \/ EBQuit \/ EBKilled

-----------------------------------------------------------------------------
(* et_sys_heartmonitor: the event builder's process has stopped beating.   *)

\* et_fix_mutexes waits two seconds for each mutex and then unlocks it: long
\* enough for a running holder to let go, so what it unlocks is a dead one's.
Fix(l, from, to) ==
  /\ Goto("heart", from, to)
  /\ lock[l] \in {"none", "eb"}
  /\ Unlock({l})

\* Mutant: the system mutex is left as it is.
HeartFixOthers ==
  /\ pc["eb"] = "dead"
  /\ \/ Goto("heart", "watch", "fixStation") /\ UNCHANGED lock
     \/ Fix("station", "fixStation", "fixGC")
     \/ Fix("GC", "fixGC", "fixCU")
     \/ Fix("CU", "fixCU", "station")
  /\ UNCHANGED <<lists, atts, other>>

HeartFixMutexes ==
  /\ pc["eb"] = "dead"
  /\ \/ Fix("system", "watch", "fixStation")
     \/ Fix("station", "fixStation", "fixGC")
     \/ Fix("GC", "fixGC", "fixCU")
     \/ Fix("CU", "fixCU", "station")
  /\ UNCHANGED <<lists, atts, other>>

\* It takes the transfer mutexes before the system mutex.
HeartLock ==
  /\ \/ Goto("heart", "station", "GC") /\ Lock("heart", "station")
     \/ Goto("heart", "GC", "CU") /\ Lock("heart", "GC")
     \/ Goto("heart", "CU", "system") /\ Lock("heart", "CU")
  /\ UNCHANGED <<lists, atts, other>>

\* et_fix_attachments: an attachment that no active station lists is erased.
HeartFixAttachments ==
  /\ Goto("heart", "system", "detach")
  /\ Lock("heart", "system")
  /\ LET erase == known /\ ~(listed /\ status = "ACTIVE")
     IN  /\ known' = (known /\ ~erase)
         /\ ofProc' = (ofProc /\ ~erase)
  /\ UNCHANGED <<lists, status, natt, listed, other>>

\* Mutant: the clean-up leaves the station active.
HeartDetachActive ==
  /\ Goto("heart", "detach", "unlock")
  /\ listOut' = [listOut EXCEPT !["CU"] = @ \o owned]
  /\ owned' = <<>>
  /\ natt' = IF ofProc THEN natt - 1 ELSE natt
  /\ listed' = (listed /\ ~ofProc)
  /\ known' = FALSE /\ ofProc' = FALSE
  /\ UNCHANGED <<lock, free, filling, listIn, hand, status, other>>

\* et_station_detach with cleanup = 1, for an attachment its process still has.
HeartDetach ==
  /\ Goto("heart", "detach", "unlock")
  /\ IF ofProc
       THEN LET last  == natt = 1
                moved == IF last THEN owned \o listIn ELSE owned
            IN  /\ status' = IF last THEN "IDLE" ELSE status
                /\ listIn' = IF last THEN <<>> ELSE listIn
                /\ listOut' = [listOut EXCEPT !["CU"] = @ \o moved]
                /\ owned' = <<>>
                /\ natt' = natt - 1
                /\ listed' = FALSE /\ known' = FALSE /\ ofProc' = FALSE
       ELSE UNCHANGED <<status, listIn, listOut, owned, natt, listed, known, ofProc>>
  /\ UNCHANGED <<lock, free, filling, hand, other>>

\* et_fix_natts recounts the attachments of active stations; then all mutexes
\* are released, and the process is forgotten.
HeartDone ==
  /\ pc["heart"] = "unlock"
  /\ pc' = [pc EXCEPT !["heart"] = "watch", !["eb"] = "down"]
  /\ natt' = IF status = "ACTIVE" THEN (IF listed THEN 1 ELSE 0) ELSE natt
  /\ Unlock(Locks)
  /\ UNCHANGED <<lists, status, listed, known, ofProc, other>>

Heart == HeartFixMutexes \/ HeartLock \/ HeartFixAttachments \/ HeartDetach \/ HeartDone

-----------------------------------------------------------------------------
Next == Prod \/ EB \/ Heart \/ \E s \in Stations : Conduct(s)

\* A thread inside an ET call goes on.  (Weak fairness is enough for a thread
\* that waits for a mutex: the others take it finitely often.)  Nothing makes a
\* program start, call, quit or be killed.
ProdStep ==
  \/ pc["prod"] # "out" /\ ProdLockStation
  \/ ProdLockSystem \/ ProdAttached \/ ProdNew
  \/ ProdMake \/ ProdMakeFails \/ ProdMakeTooMany \/ ProdPut \/ ProdDetached

Fairness ==
  /\ WF_vars(ProdStep) /\ WF_vars(EBStep) /\ WF_vars(Heart)
  /\ \A s \in Stations : WF_vars(Conduct(s))

Spec == Init /\ [][Next]_vars /\ Fairness

-----------------------------------------------------------------------------
(* Properties.                                                             *)

Msgs == 1..MaxMsgs

\* The points in the event builder's ET calls from which ET does not recover:
\* between counting an attachment and activating the station, between uncounting
\* it and clearing the process's own record, and after giving up the process's
\* slot with the system mutex held.
Windows == {"attActive", "detUnlock", "detProc", "closing"}

\* No event is lost or doubled: whatever the threads are doing, and wherever
\* the event builder was killed, the pool's events are in the lists, with the
\* conductors and with the two attachments (et_flush_events, et_restore_events,
\* the conductors' transfers).
EventsConserved ==
  NEvents = free + filling + Len(listIn) + Len(owned) + Len(listOut["GC"])
              + Len(listOut["CU"]) + Len(hand["GC"]) + Len(hand["CU"])

\* The events out of GC's pool that have a temp file.  One that is being made
\* has none yet, and a conductor that has passed the unlink has removed those of
\* the events in its hand.
WithTemp ==
  LET unlinked == {s \in Stations : pc[Conductor[s]] = "toGC"}
  IN  NEvents - free - unmade - (IF pc["prod"] = "make" THEN 1 ELSE 0)
        - (IF "GC" \in unlinked THEN Len(hand["GC"]) ELSE 0)
        - (IF "CU" \in unlinked THEN Len(hand["CU"]) ELSE 0)

\* Temp files are accounted for: while every one can be made, sys->ntemps is the
\* number of events that have one, and et_event_new is never turned away.  Each
\* one that cannot be made can leave the count one too high, and each event that
\* is refused for it one too low, but nothing else moves it: no detach, kill,
\* clean-up or conductor.
TempsAccounted ==
  IF big
    THEN /\ ntemps - WithTemp \in (0 - refused)..failed
         /\ failed = 0 => refused = 0
    ELSE ntemps = 0

\* "ntemps: current # of temp events existing" (et_private.h).  The code does
\* not keep this promise once a temp file cannot be made, so that no run has it as an
\* invariant; TempsAccounted says what is left of it.
NTempsIsCurrent == big => ntemps = WithTemp

\* No event waits in the input list of an idle station, where no conductor and
\* no user would ever take it, once the detach or the clean-up that made it
\* idle is past the flush.  This is what et_station_detach takes the transfer
\* mutexes for ("this may not be necessary", et_station.c).
IdleStationEmpty ==
  (status = "IDLE" /\ pc["eb"] \notin {"flush", "dead"}) => listIn = <<>>

\* The lock each thread waits for.
WaitsFor(t) ==
  CASE t = "eb" /\ pc[t] \in {"attach", "detach"} -> {"station"}
    [] t = "eb" /\ pc[t] \in {"attSystem", "detSystem", "close"} -> {"system"}
    [] t = "eb" /\ pc[t] = "detGC" -> {"GC"}
    [] t = "eb" /\ pc[t] = "detCU" -> {"CU"}
    [] t = "prod" /\ pc[t] = "detach" -> {"station"}
    [] t = "prod" /\ pc[t] \in {"attSystem", "detSystem", "make"} -> {"system"}
    [] t = "heart" /\ pc[t] \in Locks -> {pc[t]}
    [] t = "cGC" /\ pc[t] = "transfer" -> {"GC"}
    [] t = "cCU" /\ pc[t] = "transfer" -> {"CU"}
    [] t \in {"cGC", "cCU"} /\ pc[t] = "unlink" -> {"system"}
    [] OTHER -> {}

Blocks(u, t) == \E l \in WaitsFor(t) : lock[l] = u

\* Threads wait for each other in one place only: a conductor that returns
\* events with temp files to GC holds its transfer mutex and wants the system
\* mutex, which the detaching event builder holds while it wants the transfer
\* mutexes.  The orders of all the other acquisitions agree, the clean-up's
\* included, which takes the transfer mutexes before the system mutex.
OnlyDetachDeadlocks ==
  \A S \in (SUBSET {t \in Threads : \E u \in Threads : Blocks(u, t)}) \ {{}} :
    (\A t \in S : \E u \in S : Blocks(u, t)) =>
      /\ big
      /\ "eb" \in S /\ S \cap {"cGC", "cCU"} # {}
      /\ pc["eb"] \in {"detGC", "detCU"}

\* When no event builder is there and no clean-up is under way, no trace of an
\* attachment is left at CU: "Any partially formed attachment will be
\* eradicated from existence" (et_fix_attachments).  A trace would turn away
\* the next event builder, or keep the station active when that one leaves.
NoGhostAttachment ==
  (pc["eb"] = "down") => (natt = 0 /\ ~listed /\ ~known /\ status = "IDLE")

\* et_event_new returns: while the events fit (no temp files), the producer is
\* never left without an event, whether the event builder reads, leaves or is
\* killed at any of the points in CrashAt.
NewReturns == (~big /\ pc["prod"] = "new") ~> (pc["prod"] # "new")

\* An event builder that leaves does leave: et_station_detach returns, while
\* the events fit, and one that is killed is cleaned up after, whatever their
\* size: also when it was killed in the deadlock of OnlyDetachDeadlocks, as
\* et_fix_mutexes frees the system mutex first, which lets the conductor go.
BuilderLeaves ==
  (pc["eb"] = "dead" \/ (~big /\ pc["eb"] = "detach")) ~> (pc["eb"] = "down")

\* "we just take events from ET until we reach the sentinel gate, then quit"
\* (EventBuilder.cpp), whatever the size of the events.
SentinelThenQuit ==
  (pc["eb"] = "got" /\ owned = <<MaxMsgs>>) ~> (pc["eb"] = "down")

\* The lists, conductors and mutexes implement the contract: a first-in
\* first-out stream to the attached user, and a pool that gets back whatever
\* the user leaves behind.  An event is in the stream until it is handed out or
\* a conductor has decided to return it to GC.
Contract ==
  INSTANCE ETContract WITH
    attached <- (status = "ACTIVE"),
    using    <- IF status = "ACTIVE" THEN owned ELSE <<>>,
    stream   <- (IF status = "ACTIVE" THEN listIn ELSE <<>>)
                  \o (IF pc["cGC"] \in {"transfer", "route", "toCU"} THEN hand["GC"] ELSE <<>>)
                  \o listOut["GC"]

ImplementsContract == Contract!Spec

=============================================================================
