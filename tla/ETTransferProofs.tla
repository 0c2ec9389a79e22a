-------------------------- MODULE ETTransferProofs --------------------------
(***************************************************************************)
(* Proofs of the safety properties of ETTransfer, for every pool size,     *)
(* number of events and of event builders, and wherever the event builder  *)
(* is killed (CrashAt), unless a theorem says otherwise.                   *)
(***************************************************************************)
EXTENDS ETTransfer, SequenceTheorems, TLAPS

-----------------------------------------------------------------------------
(* The inductive invariant.                                                *)

ProdPlaces ==
  {"out", "attSystem", "attEnd", "ready", "new", "make", "full", "detach", "detSystem",
   "detEnd", "gone"}
EBPlaces ==
  {"down", "attach", "attSystem", "attKnown", "attCount", "attActive", "loop", "got",
   "detach", "detSystem", "detGC", "detCU", "idle", "flush", "restore", "detCount",
   "detUnlock", "detProc", "detEnd", "close", "closing", "dead"}
HeartPlaces ==
  {"watch", "fixStation", "fixGC", "fixCU", "station", "GC", "CU", "system", "detach",
   "unlock"}
ConductorPlaces == {"wait", "transfer", "route", "toCU", "unlink", "toGC", "unlock"}
Place == ProdPlaces \cup EBPlaces \cup HeartPlaces \cup ConductorPlaces

\* Where each thread can be, and who can hold a mutex.  CU is the last station:
\* its conductor only writes to GC.
Places ==
  /\ pc \in [Threads -> Place]
  /\ pc["prod"] \in ProdPlaces /\ pc["eb"] \in EBPlaces /\ pc["heart"] \in HeartPlaces
  /\ pc["cGC"] \in ConductorPlaces /\ pc["cCU"] \in ConductorPlaces \ {"toCU"}
  /\ lock \in [Locks -> Threads \cup {"none"}]

Flags ==
  /\ listed \in BOOLEAN /\ known \in BOOLEAN /\ ofProc \in BOOLEAN /\ big \in BOOLEAN
  /\ temps \in [Stations -> BOOLEAN]

Values ==
  /\ free \in Int /\ filling \in Int /\ ntemps \in Int /\ natt \in Int /\ sent \in Nat
  /\ unmade \in Nat /\ stale \in Nat /\ failed \in Nat /\ refused \in Nat
  /\ listIn \in Seq(Nat) /\ owned \in Seq(Nat)
  /\ listOut \in [Stations -> Seq(Nat)]
  /\ hand \in [Stations -> Seq(Nat)]
  /\ status \in {"IDLE", "ACTIVE"}

\* Which mutexes a thread holds is known from where it is.  An event
\* builder that was killed leaves behind what it held.
Transferring == {"route", "toCU", "unlink", "toGC", "unlock"}
EBInStation ==
  {"attSystem", "attKnown", "attCount", "attActive", "detSystem", "detGC", "detCU", "idle",
   "flush", "restore", "detCount", "detUnlock"}
EBInSystem ==
  {"attKnown", "detGC", "detCU", "idle", "flush", "restore", "detCount", "detUnlock",
   "detProc", "detEnd", "closing"}

ProdHolds ==
  /\ lock["station"] = "prod" <=> pc["prod"] \in {"attSystem", "attEnd", "detSystem", "detEnd"}
  /\ lock["system"] = "prod" <=> pc["prod"] \in {"attEnd", "detEnd"}
  /\ lock["GC"] # "prod" /\ lock["CU"] # "prod"

EBHolds ==
  /\ pc["eb"] \in EBInStation => lock["station"] = "eb"
  /\ pc["eb"] \in EBInSystem => lock["system"] = "eb"
  /\ pc["eb"] \in {"detCU", "idle"} => lock["GC"] = "eb"
  /\ pc["eb"] = "idle" => lock["CU"] = "eb"
  /\ lock["GC"] = "eb" => pc["eb"] \in {"detCU", "idle", "dead"}
  /\ lock["CU"] = "eb" => pc["eb"] \in {"idle", "dead"}

HeartHolds ==
  /\ lock["station"] = "heart" <=> pc["heart"] \in {"GC", "CU", "system", "detach", "unlock"}
  /\ lock["GC"] = "heart" <=> pc["heart"] \in {"CU", "system", "detach", "unlock"}
  /\ lock["CU"] = "heart" <=> pc["heart"] \in {"system", "detach", "unlock"}
  /\ lock["system"] = "heart" <=> pc["heart"] \in {"detach", "unlock"}
  /\ pc["heart"] # "watch" => pc["eb"] = "dead"

ConductorsHold ==
  /\ lock["GC"] = "cGC" <=> pc["cGC"] \in Transferring
  /\ lock["CU"] = "cCU" <=> pc["cCU"] \in Transferring
  /\ lock["GC"] # "cCU" /\ lock["CU"] # "cGC"
  /\ lock["station"] \notin {"cGC", "cCU"} /\ lock["system"] \notin {"cGC", "cCU"}

Mutexes == ProdHolds /\ EBHolds /\ HeartHolds /\ ConductorsHold

\* The producer has a new event from et_event_new until it puts it or is gone,
\* besides those whose et_event_make failed.
Producing ==
  /\ free >= 0
  /\ filling - unmade \in {0, 1}
  /\ pc["prod"] \in {"make", "full"} => filling = unmade + 1
  /\ pc["prod"] \notin {"make", "full", "detach", "detSystem", "detEnd"} => filling = unmade
  /\ pc["prod"] \in {"new", "make", "full"} => sent < MaxMsgs
  /\ pc["prod"] = "make" => big

\* Between two transfers a conductor has no events, and only events with temp
\* files make it unlink.
Conducting ==
  /\ pc["cGC"] \in {"wait", "unlock"} => hand["GC"] = <<>>
  /\ pc["cCU"] \in {"wait", "unlock"} => hand["CU"] = <<>>
  /\ (pc["cGC"] = "unlink" \/ pc["cCU"] = "unlink") => big
  /\ (temps["GC"] \/ temps["CU"]) => big

\* What CU records of the event builder while it attaches, is attached and
\* detaches.
Attachment ==
  /\ pc["eb"] \in {"attKnown", "attCount"} => known /\ ofProc
  /\ pc["eb"] = "attActive" => listed /\ known /\ ofProc
  /\ pc["eb"] \in {"loop", "got", "detach", "detSystem"}
       => status = "ACTIVE" /\ listed /\ known /\ ofProc
  /\ pc["eb"] \in {"detGC", "detCU", "idle"}
       => status = "ACTIVE" /\ natt = 1 /\ ~known /\ ofProc
  /\ pc["eb"] = "flush" => status = "IDLE" /\ natt = 1 /\ ~known /\ ofProc
  /\ pc["eb"] = "restore" => ~known /\ ofProc

\* The attachment owns events only where it must, and the clean-up will find
\* them: its process's record is kept until it has put them back.
Owning ==
  owned # <<>> =>
    /\ pc["eb"] \in {"got", "restore", "dead"}
    /\ ofProc /\ (known => listed /\ status = "ACTIVE")
    /\ pc["heart"] # "unlock"

\* Nothing is written to an idle station, and what it still has is about to be
\* flushed, by the event builder that leaves or by the clean-up after it.
Flushing ==
  /\ pc["cGC"] = "toCU" => status = "ACTIVE"
  /\ status = "IDLE" /\ listIn # <<>> =>
       /\ pc["eb"] \in {"flush", "dead"}
       /\ natt = 1 /\ ofProc /\ ~known
       /\ pc["heart"] # "unlock"

\* How far sys->ntemps is from the temp files that events out of GC's pool have.
\* What an event that has none would still take off the count at a detach is
\* already owed.
Making == IF pc["prod"] = "make" THEN 1 ELSE 0
UnlinkedGC == IF pc["cGC"] = "toGC" THEN Len(hand["GC"]) ELSE 0
UnlinkedCU == IF pc["cCU"] = "toGC" THEN Len(hand["CU"]) ELSE 0
TempsOut == NEvents - free - unmade - Making - UnlinkedGC - UnlinkedCU
Drift == ntemps - TempsOut
Counting ==
  /\ big => /\ Drift <= failed
            /\ stale - refused <= Drift
            /\ failed = 0 => refused = 0
  /\ ~big => ntemps = 0

IInv ==
  /\ Places /\ Flags /\ Values /\ Mutexes
  /\ Producing /\ Conducting /\ Attachment /\ Owning /\ Flushing
  /\ EventsConserved /\ Counting

-----------------------------------------------------------------------------
(* Places and types.                                                       *)

\* The names of the threads, mutexes and stations, and each station's conductor.
Names ==
  /\ "prod" \in Threads /\ "eb" \in Threads /\ "heart" \in Threads
  /\ "cGC" \in Threads /\ "cCU" \in Threads
  /\ "station" \in Locks /\ "system" \in Locks /\ "GC" \in Locks /\ "CU" \in Locks
  /\ "GC" \in Stations /\ "CU" \in Stations
  /\ Conductor["GC"] = "cGC" /\ Conductor["CU"] = "cCU"

\* The names are different from each other and are what the sets say.
LEMMA NamesHold == Names
  BY DEF Names, Threads, Locks, Stations, Conductor

\* Every thread starts where its loop begins.
LEMMA PlacesInit == Init => Places
<1> SUFFICES ASSUME Init PROVE Places
  OBVIOUS
<1>1. pc = [prod |-> "out", eb |-> "down", heart |-> "watch", cGC |-> "wait", cCU |-> "wait"]
  BY DEF Init
<1>2. /\ pc["prod"] = "out" /\ pc["eb"] = "down" /\ pc["heart"] = "watch"
      /\ pc["cGC"] = "wait" /\ pc["cCU"] = "wait"
  BY <1>1
<1>3. pc \in [Threads -> Place]
  BY <1>1 DEF Threads, Place, ProdPlaces, EBPlaces, HeartPlaces, ConductorPlaces
<1>4. lock \in [Locks -> Threads \cup {"none"}]
  BY DEF Init
<1> QED
  BY <1>2, <1>3, <1>4, SMT DEF Places, ProdPlaces, EBPlaces, HeartPlaces, ConductorPlaces

\* A step takes a thread from one of its places to another.
LEMMA PlacesNext ==
  Places /\ [Next]_vars => Places'
<1> SUFFICES ASSUME Places, [Next]_vars PROVE Places'
  OBVIOUS
<1> USE NamesHold DEF Names, Places, Place
<1>1. CASE ProdLockStation
  BY <1>1, SMT DEF ProdLockStation, Goto, Lock, ProdPlaces
<1>2. CASE ProdLockSystem
  BY <1>2, SMT DEF ProdLockSystem, Goto, Lock, ProdPlaces
<1>3. CASE ProdAttached
  BY <1>3, SMT DEF ProdAttached, Goto, Unlock, ProdPlaces
<1>4. CASE ProdCallNew
  BY <1>4, SMT DEF ProdCallNew, Goto, ProdPlaces
<1>5. CASE ProdNew
  BY <1>5, SMT DEF ProdNew, Goto, ProdPlaces
<1>6. CASE ProdMake
  BY <1>6, SMT DEF ProdMake, Goto, ProdPlaces
<1>7. CASE ProdPut
  BY <1>7, SMT DEF ProdPut, Goto, ProdPlaces
<1>8. CASE ProdQuit
  BY <1>8, SMT DEF ProdQuit, Goto, ProdPlaces
<1>9. CASE ProdDetached
  BY <1>9, SMT DEF ProdDetached, Goto, Unlock, ProdPlaces
<1>10. CASE EBStart
  BY <1>10, SMT DEF EBStart, Goto, EBPlaces
<1>11. CASE EBLockStation
  BY <1>11, SMT DEF EBLockStation, Goto, Lock, EBPlaces
<1>12. CASE EBRegister
  BY <1>12, SMT DEF EBRegister, Goto, Lock, EBPlaces
<1>13. CASE EBUnlockSystem
  BY <1>13, SMT DEF EBUnlockSystem, Goto, Unlock, EBPlaces
<1>14. CASE EBCount
  BY <1>14, SMT DEF EBCount, Goto, EBPlaces
<1>15. CASE EBActivate
  BY <1>15, SMT DEF EBActivate, Goto, Unlock, EBPlaces
<1>16. CASE EBGet
  BY <1>16, SMT DEF EBGet, Goto, EBPlaces
<1>17. CASE EBPut
  BY <1>17, SMT DEF EBPut, Goto, EBPlaces
<1>18. CASE EBQuit
  BY <1>18, SMT DEF EBQuit, Goto, EBPlaces
<1>19. CASE EBDetStation
  BY <1>19, SMT DEF EBDetStation, Goto, Lock, EBPlaces
<1>20. CASE EBDetSystem
  BY <1>20, SMT DEF EBDetSystem, Goto, Lock, EBPlaces
<1>21. CASE EBDetTransfer
  BY <1>21, SMT DEF EBDetTransfer, Goto, Lock, EBPlaces
<1>22. CASE EBIdle
  BY <1>22, SMT DEF EBIdle, Goto, Unlock, EBPlaces
<1>23. CASE EBFlushRead
  BY <1>23, SMT DEF EBFlushRead, Goto, EBPlaces
<1>24. CASE EBRestore
  BY <1>24, SMT DEF EBRestore, Goto, EBPlaces
<1>25. CASE EBUncount
  BY <1>25, SMT DEF EBUncount, Goto, EBPlaces
<1>26. CASE EBDetUnlock
  BY <1>26, SMT DEF EBDetUnlock, Goto, Unlock, EBPlaces
<1>27. CASE EBDetProc
  BY <1>27, SMT DEF EBDetProc, Goto, EBPlaces
<1>28. CASE EBDetEnd
  BY <1>28, SMT DEF EBDetEnd, Goto, Unlock, EBPlaces
<1>29. CASE EBClose
  BY <1>29, SMT DEF EBClose, Goto, Lock, Unlock, EBPlaces
<1>30. CASE EBKilled
  BY <1>30, SMT DEF EBKilled, EBPlaces
<1>31. CASE HeartFixMutexes
  BY <1>31, SMT DEF HeartFixMutexes, Fix, Goto, Unlock, HeartPlaces
<1>32. CASE HeartLock
  BY <1>32, SMT DEF HeartLock, Goto, Lock, HeartPlaces
<1>33. CASE HeartFixAttachments
  BY <1>33, SMT DEF HeartFixAttachments, Goto, Lock, HeartPlaces
<1>34. CASE HeartDetach
  BY <1>34, SMT DEF HeartDetach, Goto, HeartPlaces
<1>35. CASE HeartDone
  BY <1>35, SMT DEF HeartDone, Unlock, HeartPlaces, EBPlaces
<1>36. CASE Take("GC")
  BY <1>36, SMT DEF Take, Goto, ConductorPlaces
<1>37. CASE LockTransfer("GC")
  BY <1>37, SMT DEF LockTransfer, Goto, Lock, ConductorPlaces
<1>38. CASE Route("GC")
  BY <1>38, SMT DEF Route, Goto, ConductorPlaces
<1>39. CASE UnlinkTemps("GC")
  BY <1>39, SMT DEF UnlinkTemps, Goto, ConductorPlaces
<1>40. CASE WriteGC("GC")
  BY <1>40, SMT DEF WriteGC, Goto, ConductorPlaces
<1>41. CASE WriteCU("GC")
  BY <1>41, SMT DEF WriteCU, Goto, ConductorPlaces
<1>42. CASE UnlockTransfer("GC")
  BY <1>42, SMT DEF UnlockTransfer, Goto, Unlock, ConductorPlaces
<1>43. CASE Take("CU")
  BY <1>43, SMT DEF Take, Goto, ConductorPlaces
<1>44. CASE LockTransfer("CU")
  BY <1>44, SMT DEF LockTransfer, Goto, Lock, ConductorPlaces
<1>45. CASE Route("CU")
  BY <1>45, SMT DEF Route, Goto, ConductorPlaces
<1>46. CASE UnlinkTemps("CU")
  BY <1>46, SMT DEF UnlinkTemps, Goto, ConductorPlaces
<1>47. CASE WriteGC("CU")
  BY <1>47, SMT DEF WriteGC, Goto, ConductorPlaces
<1>48. CASE WriteCU("CU")
  BY <1>48, SMT DEF WriteCU, Goto, ConductorPlaces
<1>49. CASE UnlockTransfer("CU")
  BY <1>49, SMT DEF UnlockTransfer, Goto, Unlock, ConductorPlaces
<1>50. CASE UNCHANGED vars
  BY <1>50, SMT DEF vars
<1>51. CASE ProdMakeFails
  BY <1>51, SMT DEF ProdMakeFails, Unmade, Goto, ProdPlaces
<1>52. CASE ProdMakeTooMany
  BY <1>52, SMT DEF ProdMakeTooMany, Unmade, Goto, ProdPlaces
<1>53. CASE ProdAgain
  BY <1>53, SMT DEF ProdAgain, Goto, ProdPlaces
<1> QED
  BY <1>1, <1>2, <1>3, <1>4, <1>5, <1>6, <1>7, <1>8, <1>9, <1>10, <1>11, <1>12, <1>13,
     <1>14, <1>15, <1>16, <1>17, <1>18, <1>19, <1>20, <1>21, <1>22, <1>23, <1>24,
     <1>25, <1>26, <1>27, <1>28, <1>29, <1>30, <1>31, <1>32, <1>33, <1>34, <1>35,
     <1>36, <1>37, <1>38, <1>39, <1>40, <1>41, <1>42, <1>43, <1>44, <1>45, <1>46,
     <1>47, <1>48, <1>49, <1>50, <1>51, <1>52, <1>53
     DEF Next, Prod, EB, EBStep, Heart, Conduct, Stations

\* The flags stay Boolean.
LEMMA FlagsNext ==
  Flags /\ [Next]_vars => Flags'
<1> SUFFICES ASSUME Flags, [Next]_vars PROVE Flags'
  OBVIOUS
<1> USE DEF Flags, other, atts
<1>1. CASE ProdLockStation
  BY <1>1, Zenon DEF ProdLockStation, Goto, Lock
<1>2. CASE ProdLockSystem
  BY <1>2, Zenon DEF ProdLockSystem, Goto, Lock
<1>3. CASE ProdAttached
  BY <1>3, Zenon DEF ProdAttached, Goto, Unlock
<1>4. CASE ProdCallNew
  BY <1>4, Zenon DEF ProdCallNew, Goto
<1>5. CASE ProdNew
  BY <1>5, Zenon DEF ProdNew, Goto
<1>6. CASE ProdMake
  BY <1>6, Zenon DEF ProdMake, Goto
<1>7. CASE ProdPut
  BY <1>7, Zenon DEF ProdPut, Goto
<1>8. CASE ProdQuit
  BY <1>8, Zenon DEF ProdQuit, Goto
<1>9. CASE ProdDetached
  BY <1>9, Zenon DEF ProdDetached, Goto, Unlock
<1>10. CASE EBStart
  BY <1>10, Zenon DEF EBStart, Goto
<1>11. CASE EBLockStation
  BY <1>11, Zenon DEF EBLockStation, Goto, Lock
<1>12. CASE EBRegister
  BY <1>12, Zenon DEF EBRegister, Goto, Lock
<1>13. CASE EBUnlockSystem
  BY <1>13, Zenon DEF EBUnlockSystem, Goto, Unlock
<1>14. CASE EBCount
  BY <1>14, Zenon DEF EBCount, Goto
<1>15. CASE EBActivate
  BY <1>15, Zenon DEF EBActivate, Goto, Unlock
<1>16. CASE EBGet
  BY <1>16, Zenon DEF EBGet, Goto
<1>17. CASE EBPut
  BY <1>17, Zenon DEF EBPut, Goto
<1>18. CASE EBQuit
  BY <1>18, Zenon DEF EBQuit, Goto
<1>19. CASE EBDetStation
  BY <1>19, Zenon DEF EBDetStation, Goto, Lock
<1>20. CASE EBDetSystem
  BY <1>20, Zenon DEF EBDetSystem, Goto, Lock
<1>21. CASE EBDetTransfer
  BY <1>21, Zenon DEF EBDetTransfer, Goto, Lock
<1>22. CASE EBIdle
  BY <1>22, Zenon DEF EBIdle, Goto, Unlock
<1>23. CASE EBFlushRead
  BY <1>23, Zenon DEF EBFlushRead, Goto
<1>24. CASE EBRestore
  BY <1>24, Zenon DEF EBRestore, Goto
<1>25. CASE EBUncount
  BY <1>25, Zenon DEF EBUncount, Goto
<1>26. CASE EBDetUnlock
  BY <1>26, Zenon DEF EBDetUnlock, Goto, Unlock
<1>27. CASE EBDetProc
  BY <1>27, Zenon DEF EBDetProc, Goto
<1>28. CASE EBDetEnd
  BY <1>28, Zenon DEF EBDetEnd, Goto, Unlock
<1>29. CASE EBClose
  BY <1>29, Zenon DEF EBClose, Goto, Lock, Unlock
<1>30. CASE EBKilled
  BY <1>30, Zenon DEF EBKilled
<1>31. CASE HeartFixMutexes
  BY <1>31, Zenon DEF HeartFixMutexes, Fix, Goto, Unlock
<1>32. CASE HeartLock
  BY <1>32, Zenon DEF HeartLock, Goto, Lock
<1>33. CASE HeartFixAttachments
  BY <1>33, Zenon DEF HeartFixAttachments, Goto, Lock
<1>34. CASE HeartDetach
  BY <1>34, Zenon DEF HeartDetach, Goto
<1>35. CASE HeartDone
  BY <1>35, Zenon DEF HeartDone, Unlock
<1>36. CASE Take("GC")
  BY <1>36, Zenon DEF Take, Goto
<1>37. CASE LockTransfer("GC")
  BY <1>37, Zenon DEF LockTransfer, Goto, Lock
<1>38. CASE Route("GC")
  <2>1. UNCHANGED <<listed, known, ofProc, big>>
    BY <1>38, Zenon DEF Route
  <2>2. temps' = temps \/ temps' = [temps EXCEPT !["GC"] = temps["GC"] \/ big]
    BY <1>38, Zenon DEF Route
  <2>3. PICK b \in BOOLEAN : temps' = temps \/ temps' = [temps EXCEPT !["GC"] = b]
    BY <2>2, Zenon
  <2>4. temps' \in [Stations -> BOOLEAN]
    BY <2>3, NamesHold, SMT DEF Names
  <2> QED
    BY <2>1, <2>4
<1>39. CASE UnlinkTemps("GC")
  BY <1>39, Zenon DEF UnlinkTemps, Goto
<1>40. CASE WriteGC("GC")
  BY <1>40, Zenon DEF WriteGC, Goto
<1>41. CASE WriteCU("GC")
  BY <1>41, Zenon DEF WriteCU, Goto
<1>42. CASE UnlockTransfer("GC")
  BY <1>42, Zenon DEF UnlockTransfer, Goto, Unlock
<1>43. CASE Take("CU")
  BY <1>43, Zenon DEF Take, Goto
<1>44. CASE LockTransfer("CU")
  BY <1>44, Zenon DEF LockTransfer, Goto, Lock
<1>45. CASE Route("CU")
  <2>1. UNCHANGED <<listed, known, ofProc, big>>
    BY <1>45, Zenon DEF Route
  <2>2. temps' = temps \/ temps' = [temps EXCEPT !["CU"] = temps["CU"] \/ big]
    BY <1>45, Zenon DEF Route
  <2>3. PICK b \in BOOLEAN : temps' = temps \/ temps' = [temps EXCEPT !["CU"] = b]
    BY <2>2, Zenon
  <2>4. temps' \in [Stations -> BOOLEAN]
    BY <2>3, NamesHold, SMT DEF Names
  <2> QED
    BY <2>1, <2>4
<1>46. CASE UnlinkTemps("CU")
  BY <1>46, Zenon DEF UnlinkTemps, Goto
<1>47. CASE WriteGC("CU")
  BY <1>47, Zenon DEF WriteGC, Goto
<1>48. CASE WriteCU("CU")
  BY <1>48, Zenon DEF WriteCU, Goto
<1>49. CASE UnlockTransfer("CU")
  BY <1>49, Zenon DEF UnlockTransfer, Goto, Unlock
<1>50. CASE UNCHANGED vars
  BY <1>50, Zenon DEF vars
<1>51. CASE ProdMakeFails
  BY <1>51, Zenon DEF ProdMakeFails, Unmade, Goto
<1>52. CASE ProdMakeTooMany
  BY <1>52, Zenon DEF ProdMakeTooMany, Unmade, Goto
<1>53. CASE ProdAgain
  BY <1>53, Zenon DEF ProdAgain, Goto
<1> QED
  BY <1>1, <1>2, <1>3, <1>4, <1>5, <1>6, <1>7, <1>8, <1>9, <1>10, <1>11, <1>12, <1>13,
     <1>14, <1>15, <1>16, <1>17, <1>18, <1>19, <1>20, <1>21, <1>22, <1>23, <1>24,
     <1>25, <1>26, <1>27, <1>28, <1>29, <1>30, <1>31, <1>32, <1>33, <1>34, <1>35,
     <1>36, <1>37, <1>38, <1>39, <1>40, <1>41, <1>42, <1>43, <1>44, <1>45, <1>46,
     <1>47, <1>48, <1>49, <1>50, <1>51, <1>52, <1>53
     DEF Next, Prod, EB, EBStep, Heart, Conduct, Stations

\* et_station_detach with cleanup = 1 of the station's last user, of another
\* user, or of nobody.
CleansLast ==
  /\ ofProc /\ natt = 1
  /\ status' = "IDLE"
  /\ listIn' = <<>>
  /\ listOut' = [listOut EXCEPT !["CU"] = @ \o (owned \o listIn)]
  /\ owned' = <<>> /\ natt' = natt - 1 /\ ~listed' /\ ~known' /\ ~ofProc'
  /\ UNCHANGED <<lock, free, filling, hand, other>>
CleansOther ==
  /\ ofProc /\ natt # 1
  /\ UNCHANGED <<status, listIn>>
  /\ listOut' = [listOut EXCEPT !["CU"] = @ \o owned]
  /\ owned' = <<>> /\ natt' = natt - 1 /\ ~listed' /\ ~known' /\ ~ofProc'
  /\ UNCHANGED <<lock, free, filling, hand, other>>

\* et_fix_att has nothing to do, or detaches the last user of the station, or
\* another one.
LEMMA HeartDetachCases ==
  HeartDetach => \/ ~ofProc /\ UNCHANGED <<lock, lists, atts, other>>
                 \/ CleansLast \/ CleansOther
<1>1. HeartDetach /\ ~ofProc => UNCHANGED <<lock, lists, atts, other>>
  BY Zenon DEF HeartDetach, lists, atts, other
<1>2. HeartDetach /\ ofProc /\ natt = 1 => CleansLast
  BY Zenon DEF HeartDetach, CleansLast
<1>3. HeartDetach /\ ofProc /\ natt # 1 => CleansOther
  BY Zenon DEF HeartDetach, CleansOther
<1> QED
  BY <1>1, <1>2, <1>3, Zenon

\* Numbers stay numbers, lists stay lists.
LEMMA ValuesNext ==
  Values /\ [Next]_vars => Values'
<1> SUFFICES ASSUME Values, [Next]_vars PROVE Values'
  OBVIOUS
<1> USE NamesHold DEF Names, Values, misses, other, atts, lists
<1>1. CASE ProdLockStation
  BY <1>1, SMT DEF ProdLockStation, Goto, Lock
<1>2. CASE ProdLockSystem
  BY <1>2, SMT DEF ProdLockSystem, Goto, Lock
<1>3. CASE ProdAttached
  BY <1>3, SMT DEF ProdAttached, Goto, Unlock
<1>4. CASE ProdCallNew
  BY <1>4, SMT DEF ProdCallNew, Goto
<1>5. CASE ProdNew
  BY <1>5, SMT DEF ProdNew, Goto
<1>6. CASE ProdMake
  BY <1>6, SMT DEF ProdMake, Goto
<1>7. CASE ProdPut
  BY <1>7, SMT DEF ProdPut, Goto
<1>8. CASE ProdQuit
  BY <1>8, SMT DEF ProdQuit, Goto
<1>9. CASE ProdDetached
  BY <1>9, SMT DEF ProdDetached, Goto, Unlock
<1>10. CASE EBStart
  BY <1>10, SMT DEF EBStart, Goto
<1>11. CASE EBLockStation
  BY <1>11, SMT DEF EBLockStation, Goto, Lock
<1>12. CASE EBRegister
  BY <1>12, SMT DEF EBRegister, Goto, Lock
<1>13. CASE EBUnlockSystem
  BY <1>13, SMT DEF EBUnlockSystem, Goto, Unlock
<1>14. CASE EBCount
  BY <1>14, SMT DEF EBCount, Goto
<1>15. CASE EBActivate
  BY <1>15, SMT DEF EBActivate, Goto, Unlock
<1>16. CASE EBGet
  BY <1>16, SMT DEF EBGet, Goto
<1>17. CASE EBPut
  BY <1>17, SMT DEF EBPut, Goto
<1>18. CASE EBQuit
  BY <1>18, SMT DEF EBQuit, Goto
<1>19. CASE EBDetStation
  BY <1>19, SMT DEF EBDetStation, Goto, Lock
<1>20. CASE EBDetSystem
  BY <1>20, SMT DEF EBDetSystem, Goto, Lock
<1>21. CASE EBDetTransfer
  BY <1>21, SMT DEF EBDetTransfer, Goto, Lock
<1>22. CASE EBIdle
  BY <1>22, SMT DEF EBIdle, Goto, Unlock
<1>23. CASE EBFlushRead
  BY <1>23, SMT DEF EBFlushRead, Goto
<1>24. CASE EBRestore
  BY <1>24, SMT DEF EBRestore, Goto
<1>25. CASE EBUncount
  BY <1>25, SMT DEF EBUncount, Goto
<1>26. CASE EBDetUnlock
  BY <1>26, SMT DEF EBDetUnlock, Goto, Unlock
<1>27. CASE EBDetProc
  BY <1>27, SMT DEF EBDetProc, Goto
<1>28. CASE EBDetEnd
  BY <1>28, SMT DEF EBDetEnd, Goto, Unlock
<1>29. CASE EBClose
  BY <1>29, SMT DEF EBClose, Goto, Lock, Unlock
<1>30. CASE EBKilled
  BY <1>30, SMT DEF EBKilled
<1>31. CASE HeartFixMutexes
  BY <1>31, SMT DEF HeartFixMutexes, Fix, Goto, Unlock
<1>32. CASE HeartLock
  BY <1>32, SMT DEF HeartLock, Goto, Lock
<1>33. CASE HeartFixAttachments
  BY <1>33, SMT DEF HeartFixAttachments, Goto, Lock
<1>34. CASE HeartDetach
  <2>1. CASE UNCHANGED <<lock, lists, atts, other>>
    BY <2>1, SMT
  <2>2. CASE CleansLast
    <3>1. owned \o listIn \in Seq(Nat)
      BY SMT
    <3> QED
      BY <1>34, <2>2, <3>1, SMT DEF CleansLast
  <2>3. CASE CleansOther
    BY <1>34, <2>3, SMT DEF CleansOther
  <2> QED
    BY <2>1, <2>2, <2>3, <1>34, HeartDetachCases, Zenon
<1>35. CASE HeartDone
  BY <1>35, SMT DEF HeartDone, Unlock
<1>36. CASE Take("GC")
  BY <1>36, SMT DEF Take, Goto
<1>37. CASE LockTransfer("GC")
  BY <1>37, SMT DEF LockTransfer, Goto, Lock
<1>38. CASE Route("GC")
  BY <1>38, SMT DEF Route, Goto
<1>39. CASE UnlinkTemps("GC")
  BY <1>39, SMT DEF UnlinkTemps, Goto
<1>40. CASE WriteGC("GC")
  BY <1>40, SMT DEF WriteGC, Goto
<1>41. CASE WriteCU("GC")
  BY <1>41, SMT DEF WriteCU, Goto
<1>42. CASE UnlockTransfer("GC")
  BY <1>42, SMT DEF UnlockTransfer, Goto, Unlock
<1>43. CASE Take("CU")
  BY <1>43, SMT DEF Take, Goto
<1>44. CASE LockTransfer("CU")
  BY <1>44, SMT DEF LockTransfer, Goto, Lock
<1>45. CASE Route("CU")
  BY <1>45, SMT DEF Route, Goto
<1>46. CASE UnlinkTemps("CU")
  BY <1>46, SMT DEF UnlinkTemps, Goto
<1>47. CASE WriteGC("CU")
  BY <1>47, SMT DEF WriteGC, Goto
<1>48. CASE WriteCU("CU")
  BY <1>48, SMT DEF WriteCU, Goto
<1>49. CASE UnlockTransfer("CU")
  BY <1>49, SMT DEF UnlockTransfer, Goto, Unlock
<1>50. CASE UNCHANGED vars
  BY <1>50, SMTT(40) DEF vars
<1>51. CASE ProdMakeFails
  BY <1>51, SMT DEF ProdMakeFails, Unmade, Goto
<1>52. CASE ProdMakeTooMany
  BY <1>52, SMT DEF ProdMakeTooMany, Unmade, Goto
<1>53. CASE ProdAgain
  BY <1>53, SMT DEF ProdAgain, Goto
<1> QED
  BY <1>1, <1>2, <1>3, <1>4, <1>5, <1>6, <1>7, <1>8, <1>9, <1>10, <1>11, <1>12, <1>13,
     <1>14, <1>15, <1>16, <1>17, <1>18, <1>19, <1>20, <1>21, <1>22, <1>23, <1>24,
     <1>25, <1>26, <1>27, <1>28, <1>29, <1>30, <1>31, <1>32, <1>33, <1>34, <1>35,
     <1>36, <1>37, <1>38, <1>39, <1>40, <1>41, <1>42, <1>43, <1>44, <1>45, <1>46,
     <1>47, <1>48, <1>49, <1>50, <1>51, <1>52, <1>53
     DEF Next, Prod, EB, EBStep, Heart, Conduct, Stations

\* A thread takes a mutex only when nobody holds it, and gives up its own.
LEMMA MutexesNext ==
  Places /\ Mutexes /\ [Next]_vars => Mutexes'
<1> SUFFICES ASSUME Places, Mutexes, [Next]_vars PROVE Mutexes'
  OBVIOUS
<1> USE NamesHold DEF Names, Places, Mutexes, ProdHolds, EBHolds, HeartHolds,
        ConductorsHold, Transferring,
      EBInStation, EBInSystem
<1>1. CASE ProdLockStation
  BY <1>1, SMT DEF ProdLockStation, Goto, Lock
<1>2. CASE ProdLockSystem
  BY <1>2, SMT DEF ProdLockSystem, Goto, Lock
<1>3. CASE ProdAttached
  BY <1>3, SMT DEF ProdAttached, Goto, Unlock
<1>4. CASE ProdCallNew
  BY <1>4, SMT DEF ProdCallNew, Goto
<1>5. CASE ProdNew
  BY <1>5, SMT DEF ProdNew, Goto
<1>6. CASE ProdMake
  BY <1>6, SMT DEF ProdMake, Goto
<1>7. CASE ProdPut
  BY <1>7, SMT DEF ProdPut, Goto
<1>8. CASE ProdQuit
  BY <1>8, SMT DEF ProdQuit, Goto
<1>9. CASE ProdDetached
  BY <1>9, SMT DEF ProdDetached, Goto, Unlock
<1>10. CASE EBStart
  BY <1>10, SMT DEF EBStart, Goto
<1>11. CASE EBLockStation
  BY <1>11, SMT DEF EBLockStation, Goto, Lock
<1>12. CASE EBRegister
  BY <1>12, SMT DEF EBRegister, Goto, Lock
<1>13. CASE EBUnlockSystem
  BY <1>13, SMT DEF EBUnlockSystem, Goto, Unlock
<1>14. CASE EBCount
  BY <1>14, SMT DEF EBCount, Goto
<1>15. CASE EBActivate
  BY <1>15, SMT DEF EBActivate, Goto, Unlock
<1>16. CASE EBGet
  BY <1>16, SMT DEF EBGet, Goto
<1>17. CASE EBPut
  BY <1>17, SMT DEF EBPut, Goto
<1>18. CASE EBQuit
  BY <1>18, SMT DEF EBQuit, Goto
<1>19. CASE EBDetStation
  BY <1>19, SMT DEF EBDetStation, Goto, Lock
<1>20. CASE EBDetSystem
  BY <1>20, SMT DEF EBDetSystem, Goto, Lock
<1>21. CASE EBDetTransfer
  BY <1>21, SMT DEF EBDetTransfer, Goto, Lock
<1>22. CASE EBIdle
  BY <1>22, SMT DEF EBIdle, Goto, Unlock, Stations
<1>23. CASE EBFlushRead
  BY <1>23, SMT DEF EBFlushRead, Goto
<1>24. CASE EBRestore
  BY <1>24, SMT DEF EBRestore, Goto
<1>25. CASE EBUncount
  BY <1>25, SMT DEF EBUncount, Goto
<1>26. CASE EBDetUnlock
  BY <1>26, SMT DEF EBDetUnlock, Goto, Unlock
<1>27. CASE EBDetProc
  BY <1>27, SMT DEF EBDetProc, Goto
<1>28. CASE EBDetEnd
  BY <1>28, SMT DEF EBDetEnd, Goto, Unlock
<1>29. CASE EBClose
  BY <1>29, SMT DEF EBClose, Goto, Lock, Unlock
<1>30. CASE EBKilled
  BY <1>30, SMT DEF EBKilled
<1>31. CASE HeartFixMutexes
  BY <1>31, SMT DEF HeartFixMutexes, Fix, Goto, Unlock
<1>32. CASE HeartLock
  BY <1>32, SMT DEF HeartLock, Goto, Lock
<1>33. CASE HeartFixAttachments
  BY <1>33, SMT DEF HeartFixAttachments, Goto, Lock
<1>34. CASE HeartDetach
  BY <1>34, SMT DEF HeartDetach, Goto
<1>35. CASE HeartDone
  BY <1>35, SMT DEF HeartDone, Unlock
<1>36. CASE Take("GC")
  BY <1>36, SMT DEF Take, Goto
<1>37. CASE LockTransfer("GC")
  BY <1>37, SMT DEF LockTransfer, Goto, Lock
<1>38. CASE Route("GC")
  BY <1>38, SMT DEF Route, Goto
<1>39. CASE UnlinkTemps("GC")
  BY <1>39, SMT DEF UnlinkTemps, Goto
<1>40. CASE WriteGC("GC")
  BY <1>40, SMT DEF WriteGC, Goto
<1>41. CASE WriteCU("GC")
  BY <1>41, SMT DEF WriteCU, Goto
<1>42. CASE UnlockTransfer("GC")
  BY <1>42, SMT DEF UnlockTransfer, Goto, Unlock
<1>43. CASE Take("CU")
  BY <1>43, SMT DEF Take, Goto
<1>44. CASE LockTransfer("CU")
  BY <1>44, SMT DEF LockTransfer, Goto, Lock
<1>45. CASE Route("CU")
  BY <1>45, SMT DEF Route, Goto
<1>46. CASE UnlinkTemps("CU")
  BY <1>46, SMT DEF UnlinkTemps, Goto
<1>47. CASE WriteGC("CU")
  BY <1>47, SMT DEF WriteGC, Goto
<1>48. CASE WriteCU("CU")
  BY <1>48, SMT DEF WriteCU, Goto
<1>49. CASE UnlockTransfer("CU")
  BY <1>49, SMT DEF UnlockTransfer, Goto, Unlock
<1>50. CASE UNCHANGED vars
  BY <1>50, SMT DEF vars
<1>51. CASE ProdMakeFails
  BY <1>51, SMT DEF ProdMakeFails, Unmade, Goto
<1>52. CASE ProdMakeTooMany
  BY <1>52, SMT DEF ProdMakeTooMany, Unmade, Goto
<1>53. CASE ProdAgain
  BY <1>53, SMT DEF ProdAgain, Goto
<1> QED
  BY <1>1, <1>2, <1>3, <1>4, <1>5, <1>6, <1>7, <1>8, <1>9, <1>10, <1>11, <1>12, <1>13,
     <1>14, <1>15, <1>16, <1>17, <1>18, <1>19, <1>20, <1>21, <1>22, <1>23, <1>24,
     <1>25, <1>26, <1>27, <1>28, <1>29, <1>30, <1>31, <1>32, <1>33, <1>34, <1>35,
     <1>36, <1>37, <1>38, <1>39, <1>40, <1>41, <1>42, <1>43, <1>44, <1>45, <1>46,
     <1>47, <1>48, <1>49, <1>50, <1>51, <1>52, <1>53
     DEF Next, Prod, EB, EBStep, Heart, Conduct, Stations

\* The producer fills one event at a time.
LEMMA ProducingNext ==
  Places /\ Flags /\ Values /\ Producing /\ [Next]_vars => Producing'
<1> SUFFICES ASSUME Places, Flags, Values, Producing, [Next]_vars PROVE Producing'
  OBVIOUS
<1> USE NamesHold DEF Names, Producing, misses, other, lists
<1>0. /\ pc \in [Threads -> Place] /\ sent \in Nat /\ big \in BOOLEAN
      /\ free \in Nat /\ filling \in Nat /\ unmade \in Nat
      /\ Len(hand["GC"]) \in Nat /\ Len(hand["CU"]) \in Nat
  BY SMT DEF Places, Flags, Values
<1>1. CASE ProdLockStation
  BY <1>0, <1>1, ETTransferAssumption, SMT DEF ProdLockStation, Goto, Lock
<1>2. CASE ProdLockSystem
  BY <1>0, <1>2, ETTransferAssumption, SMT DEF ProdLockSystem, Goto, Lock
<1>3. CASE ProdAttached
  BY <1>0, <1>3, ETTransferAssumption, SMT DEF ProdAttached, Goto, Unlock
<1>4. CASE ProdCallNew
  BY <1>0, <1>4, ETTransferAssumption, SMT DEF ProdCallNew, Goto
<1>5. CASE ProdNew
  BY <1>0, <1>5, ETTransferAssumption, SMT DEF ProdNew, Goto
<1>6. CASE ProdMake
  BY <1>0, <1>6, ETTransferAssumption, SMT DEF ProdMake, Goto
<1>7. CASE ProdPut
  BY <1>0, <1>7, ETTransferAssumption, SMT DEF ProdPut, Goto
<1>8. CASE ProdQuit
  BY <1>0, <1>8, ETTransferAssumption, SMT DEF ProdQuit, Goto
<1>9. CASE ProdDetached
  BY <1>0, <1>9, ETTransferAssumption, SMT DEF ProdDetached, Goto, Unlock
<1>10. CASE EBStart
  BY <1>0, <1>10, ETTransferAssumption, SMT DEF EBStart, Goto
<1>11. CASE EBLockStation
  BY <1>0, <1>11, ETTransferAssumption, SMT DEF EBLockStation, Goto, Lock
<1>12. CASE EBRegister
  BY <1>0, <1>12, ETTransferAssumption, SMT DEF EBRegister, Goto, Lock
<1>13. CASE EBUnlockSystem
  BY <1>0, <1>13, ETTransferAssumption, SMT DEF EBUnlockSystem, Goto, Unlock
<1>14. CASE EBCount
  BY <1>0, <1>14, ETTransferAssumption, SMT DEF EBCount, Goto
<1>15. CASE EBActivate
  BY <1>0, <1>15, ETTransferAssumption, SMT DEF EBActivate, Goto, Unlock
<1>16. CASE EBGet
  BY <1>0, <1>16, ETTransferAssumption, SMT DEF EBGet, Goto
<1>17. CASE EBPut
  BY <1>0, <1>17, ETTransferAssumption, SMT DEF EBPut, Goto
<1>18. CASE EBQuit
  BY <1>0, <1>18, ETTransferAssumption, SMT DEF EBQuit, Goto
<1>19. CASE EBDetStation
  BY <1>0, <1>19, ETTransferAssumption, SMT DEF EBDetStation, Goto, Lock
<1>20. CASE EBDetSystem
  BY <1>0, <1>20, ETTransferAssumption, SMT DEF EBDetSystem, Goto, Lock
<1>21. CASE EBDetTransfer
  BY <1>0, <1>21, ETTransferAssumption, SMT DEF EBDetTransfer, Goto, Lock
<1>22. CASE EBIdle
  BY <1>0, <1>22, ETTransferAssumption, SMT DEF EBIdle, Goto, Unlock
<1>23. CASE EBFlushRead
  BY <1>0, <1>23, ETTransferAssumption, SMT DEF EBFlushRead, Goto
<1>24. CASE EBRestore
  BY <1>0, <1>24, ETTransferAssumption, SMT DEF EBRestore, Goto
<1>25. CASE EBUncount
  BY <1>0, <1>25, ETTransferAssumption, SMT DEF EBUncount, Goto
<1>26. CASE EBDetUnlock
  BY <1>0, <1>26, ETTransferAssumption, SMT DEF EBDetUnlock, Goto, Unlock
<1>27. CASE EBDetProc
  BY <1>0, <1>27, ETTransferAssumption, SMT DEF EBDetProc, Goto
<1>28. CASE EBDetEnd
  BY <1>0, <1>28, ETTransferAssumption, SMT DEF EBDetEnd, Goto, Unlock
<1>29. CASE EBClose
  BY <1>0, <1>29, ETTransferAssumption, SMT DEF EBClose, Goto, Lock, Unlock
<1>30. CASE EBKilled
  BY <1>0, <1>30, ETTransferAssumption, SMT DEF EBKilled
<1>31. CASE HeartFixMutexes
  BY <1>0, <1>31, ETTransferAssumption, SMT DEF HeartFixMutexes, Fix, Goto, Unlock
<1>32. CASE HeartLock
  BY <1>0, <1>32, ETTransferAssumption, SMT DEF HeartLock, Goto, Lock
<1>33. CASE HeartFixAttachments
  BY <1>0, <1>33, ETTransferAssumption, SMT DEF HeartFixAttachments, Goto, Lock
<1>34. CASE HeartDetach
  BY <1>0, <1>34, ETTransferAssumption, SMT DEF HeartDetach, Goto
<1>35. CASE HeartDone
  BY <1>0, <1>35, ETTransferAssumption, SMT DEF HeartDone, Unlock
<1>36. CASE Take("GC")
  BY <1>0, <1>36, ETTransferAssumption, SMT DEF Take, Goto
<1>37. CASE LockTransfer("GC")
  BY <1>0, <1>37, ETTransferAssumption, SMT DEF LockTransfer, Goto, Lock
<1>38. CASE Route("GC")
  BY <1>0, <1>38, ETTransferAssumption, SMT DEF Route, Goto
<1>39. CASE UnlinkTemps("GC")
  BY <1>0, <1>39, ETTransferAssumption, SMT DEF UnlinkTemps, Goto
<1>40. CASE WriteGC("GC")
  BY <1>0, <1>40, ETTransferAssumption, SMT DEF WriteGC, Goto
<1>41. CASE WriteCU("GC")
  BY <1>0, <1>41, ETTransferAssumption, SMT DEF WriteCU, Goto
<1>42. CASE UnlockTransfer("GC")
  BY <1>0, <1>42, ETTransferAssumption, SMT DEF UnlockTransfer, Goto, Unlock
<1>43. CASE Take("CU")
  BY <1>0, <1>43, ETTransferAssumption, SMT DEF Take, Goto
<1>44. CASE LockTransfer("CU")
  BY <1>0, <1>44, ETTransferAssumption, SMT DEF LockTransfer, Goto, Lock
<1>45. CASE Route("CU")
  BY <1>0, <1>45, ETTransferAssumption, SMT DEF Route, Goto
<1>46. CASE UnlinkTemps("CU")
  BY <1>0, <1>46, ETTransferAssumption, SMT DEF UnlinkTemps, Goto
<1>47. CASE WriteGC("CU")
  BY <1>0, <1>47, ETTransferAssumption, SMT DEF WriteGC, Goto
<1>48. CASE WriteCU("CU")
  BY <1>0, <1>48, ETTransferAssumption, SMT DEF WriteCU, Goto
<1>49. CASE UnlockTransfer("CU")
  BY <1>0, <1>49, ETTransferAssumption, SMT DEF UnlockTransfer, Goto, Unlock
<1>50. CASE UNCHANGED vars
  BY <1>50, SMT DEF vars
<1>51. CASE ProdMakeFails
  BY <1>0, <1>51, ETTransferAssumption, SMT DEF ProdMakeFails, Unmade, Goto
<1>52. CASE ProdMakeTooMany
  BY <1>0, <1>52, ETTransferAssumption, SMT DEF ProdMakeTooMany, Unmade, Goto
<1>53. CASE ProdAgain
  BY <1>0, <1>53, ETTransferAssumption, SMT DEF ProdAgain, Goto
<1> QED
  BY <1>1, <1>2, <1>3, <1>4, <1>5, <1>6, <1>7, <1>8, <1>9, <1>10, <1>11, <1>12, <1>13,
     <1>14, <1>15, <1>16, <1>17, <1>18, <1>19, <1>20, <1>21, <1>22, <1>23, <1>24,
     <1>25, <1>26, <1>27, <1>28, <1>29, <1>30, <1>31, <1>32, <1>33, <1>34, <1>35,
     <1>36, <1>37, <1>38, <1>39, <1>40, <1>41, <1>42, <1>43, <1>44, <1>45, <1>46,
     <1>47, <1>48, <1>49, <1>50, <1>51, <1>52, <1>53
     DEF Next, Prod, EB, EBStep, Heart, Conduct, Stations

\* A conductor empties its hand before it lets go of the transfer mutex.
LEMMA ConductingNext ==
  Places /\ Flags /\ Values /\ Conducting /\ [Next]_vars => Conducting'
<1> SUFFICES ASSUME Places, Flags, Values, Conducting, [Next]_vars PROVE Conducting'
  OBVIOUS
<1> USE NamesHold DEF Names, Conducting, other, lists
<1>0. /\ pc \in [Threads -> Place]
      /\ hand \in [Stations -> Seq(Nat)] /\ temps \in [Stations -> BOOLEAN]
      /\ big \in BOOLEAN
  BY DEF Places, Flags, Values
<1>1. CASE ProdLockStation
  BY <1>0, <1>1, SMT DEF ProdLockStation, Goto, Lock
<1>2. CASE ProdLockSystem
  BY <1>0, <1>2, SMT DEF ProdLockSystem, Goto, Lock
<1>3. CASE ProdAttached
  BY <1>0, <1>3, SMT DEF ProdAttached, Goto, Unlock
<1>4. CASE ProdCallNew
  BY <1>0, <1>4, SMT DEF ProdCallNew, Goto
<1>5. CASE ProdNew
  BY <1>0, <1>5, SMT DEF ProdNew, Goto
<1>6. CASE ProdMake
  BY <1>0, <1>6, SMT DEF ProdMake, Goto
<1>7. CASE ProdPut
  BY <1>0, <1>7, SMT DEF ProdPut, Goto
<1>8. CASE ProdQuit
  BY <1>0, <1>8, SMT DEF ProdQuit, Goto
<1>9. CASE ProdDetached
  BY <1>0, <1>9, SMT DEF ProdDetached, Goto, Unlock
<1>10. CASE EBStart
  BY <1>0, <1>10, SMT DEF EBStart, Goto
<1>11. CASE EBLockStation
  BY <1>0, <1>11, SMT DEF EBLockStation, Goto, Lock
<1>12. CASE EBRegister
  BY <1>0, <1>12, SMT DEF EBRegister, Goto, Lock
<1>13. CASE EBUnlockSystem
  BY <1>0, <1>13, SMT DEF EBUnlockSystem, Goto, Unlock
<1>14. CASE EBCount
  BY <1>0, <1>14, SMT DEF EBCount, Goto
<1>15. CASE EBActivate
  BY <1>0, <1>15, SMT DEF EBActivate, Goto, Unlock
<1>16. CASE EBGet
  BY <1>0, <1>16, SMT DEF EBGet, Goto
<1>17. CASE EBPut
  BY <1>0, <1>17, SMT DEF EBPut, Goto
<1>18. CASE EBQuit
  BY <1>0, <1>18, SMT DEF EBQuit, Goto
<1>19. CASE EBDetStation
  BY <1>0, <1>19, SMT DEF EBDetStation, Goto, Lock
<1>20. CASE EBDetSystem
  BY <1>0, <1>20, SMT DEF EBDetSystem, Goto, Lock
<1>21. CASE EBDetTransfer
  BY <1>0, <1>21, SMT DEF EBDetTransfer, Goto, Lock
<1>22. CASE EBIdle
  BY <1>0, <1>22, SMT DEF EBIdle, Goto, Unlock
<1>23. CASE EBFlushRead
  BY <1>0, <1>23, SMT DEF EBFlushRead, Goto
<1>24. CASE EBRestore
  BY <1>0, <1>24, SMT DEF EBRestore, Goto
<1>25. CASE EBUncount
  BY <1>0, <1>25, SMT DEF EBUncount, Goto
<1>26. CASE EBDetUnlock
  BY <1>0, <1>26, SMT DEF EBDetUnlock, Goto, Unlock
<1>27. CASE EBDetProc
  BY <1>0, <1>27, SMT DEF EBDetProc, Goto
<1>28. CASE EBDetEnd
  BY <1>0, <1>28, SMT DEF EBDetEnd, Goto, Unlock
<1>29. CASE EBClose
  BY <1>0, <1>29, SMT DEF EBClose, Goto, Lock, Unlock
<1>30. CASE EBKilled
  BY <1>0, <1>30, SMT DEF EBKilled
<1>31. CASE HeartFixMutexes
  BY <1>0, <1>31, SMT DEF HeartFixMutexes, Fix, Goto, Unlock
<1>32. CASE HeartLock
  BY <1>0, <1>32, SMT DEF HeartLock, Goto, Lock
<1>33. CASE HeartFixAttachments
  BY <1>0, <1>33, SMT DEF HeartFixAttachments, Goto, Lock
<1>34. CASE HeartDetach
  BY <1>0, <1>34, SMT DEF HeartDetach, Goto
<1>35. CASE HeartDone
  BY <1>0, <1>35, SMT DEF HeartDone, Unlock
<1>36. CASE Take("GC")
  BY <1>0, <1>36, SMT DEF Take, Goto
<1>37. CASE LockTransfer("GC")
  BY <1>0, <1>37, SMT DEF LockTransfer, Goto, Lock
<1>38. CASE Route("GC")
  BY <1>0, <1>38, SMT DEF Route, Goto
<1>39. CASE UnlinkTemps("GC")
  BY <1>0, <1>39, SMT DEF UnlinkTemps, Goto
<1>40. CASE WriteGC("GC")
  BY <1>0, <1>40, SMT DEF WriteGC, Goto
<1>41. CASE WriteCU("GC")
  BY <1>0, <1>41, SMT DEF WriteCU, Goto
<1>42. CASE UnlockTransfer("GC")
  BY <1>0, <1>42, SMT DEF UnlockTransfer, Goto, Unlock
<1>43. CASE Take("CU")
  BY <1>0, <1>43, SMT DEF Take, Goto
<1>44. CASE LockTransfer("CU")
  BY <1>0, <1>44, SMT DEF LockTransfer, Goto, Lock
<1>45. CASE Route("CU")
  BY <1>0, <1>45, SMT DEF Route, Goto
<1>46. CASE UnlinkTemps("CU")
  BY <1>0, <1>46, SMT DEF UnlinkTemps, Goto
<1>47. CASE WriteGC("CU")
  BY <1>0, <1>47, SMT DEF WriteGC, Goto
<1>48. CASE WriteCU("CU")
  BY <1>0, <1>48, SMT DEF WriteCU, Goto
<1>49. CASE UnlockTransfer("CU")
  BY <1>0, <1>49, SMT DEF UnlockTransfer, Goto, Unlock
<1>50. CASE UNCHANGED vars
  BY <1>0, <1>50, SMT DEF vars
<1>51. CASE ProdMakeFails
  BY <1>0, <1>51, SMT DEF ProdMakeFails, Unmade, Goto
<1>52. CASE ProdMakeTooMany
  BY <1>0, <1>52, SMT DEF ProdMakeTooMany, Unmade, Goto
<1>53. CASE ProdAgain
  BY <1>0, <1>53, SMT DEF ProdAgain, Goto
<1> QED
  BY <1>1, <1>2, <1>3, <1>4, <1>5, <1>6, <1>7, <1>8, <1>9, <1>10, <1>11, <1>12, <1>13,
     <1>14, <1>15, <1>16, <1>17, <1>18, <1>19, <1>20, <1>21, <1>22, <1>23, <1>24,
     <1>25, <1>26, <1>27, <1>28, <1>29, <1>30, <1>31, <1>32, <1>33, <1>34, <1>35,
     <1>36, <1>37, <1>38, <1>39, <1>40, <1>41, <1>42, <1>43, <1>44, <1>45, <1>46,
     <1>47, <1>48, <1>49, <1>50, <1>51, <1>52, <1>53
     DEF Next, Prod, EB, EBStep, Heart, Conduct, Stations

\* Only the event builder, or the clean-up after it, changes its attachment.
LEMMA AttachmentNext ==
  Places /\ Flags /\ Values /\ Mutexes /\ Attachment /\ [Next]_vars => Attachment'
<1> SUFFICES ASSUME Places, Flags, Values, Mutexes, Attachment, [Next]_vars
             PROVE  Attachment'
  OBVIOUS
<1> USE NamesHold DEF Names, Attachment, atts
<1>0. /\ pc \in [Threads -> Place]
      /\ natt \in Int
      /\ pc["heart"] # "watch" => pc["eb"] = "dead"
  BY DEF Places, Values, Mutexes, HeartHolds
<1>1. CASE ProdLockStation
  BY <1>0, <1>1, SMT DEF ProdLockStation, Goto, Lock
<1>2. CASE ProdLockSystem
  BY <1>0, <1>2, SMT DEF ProdLockSystem, Goto, Lock
<1>3. CASE ProdAttached
  BY <1>0, <1>3, SMT DEF ProdAttached, Goto, Unlock
<1>4. CASE ProdCallNew
  BY <1>0, <1>4, SMT DEF ProdCallNew, Goto
<1>5. CASE ProdNew
  BY <1>0, <1>5, SMT DEF ProdNew, Goto
<1>6. CASE ProdMake
  BY <1>0, <1>6, SMT DEF ProdMake, Goto
<1>7. CASE ProdPut
  BY <1>0, <1>7, SMT DEF ProdPut, Goto
<1>8. CASE ProdQuit
  BY <1>0, <1>8, SMT DEF ProdQuit, Goto
<1>9. CASE ProdDetached
  BY <1>0, <1>9, SMT DEF ProdDetached, Goto, Unlock
<1>10. CASE EBStart
  BY <1>0, <1>10, SMT DEF EBStart, Goto
<1>11. CASE EBLockStation
  BY <1>0, <1>11, SMT DEF EBLockStation, Goto, Lock
<1>12. CASE EBRegister
  BY <1>0, <1>12, SMT DEF EBRegister, Goto, Lock
<1>13. CASE EBUnlockSystem
  BY <1>0, <1>13, SMT DEF EBUnlockSystem, Goto, Unlock
<1>14. CASE EBCount
  BY <1>0, <1>14, SMT DEF EBCount, Goto
<1>15. CASE EBActivate
  BY <1>0, <1>15, SMT DEF EBActivate, Goto, Unlock
<1>16. CASE EBGet
  BY <1>0, <1>16, SMT DEF EBGet, Goto
<1>17. CASE EBPut
  BY <1>0, <1>17, SMT DEF EBPut, Goto
<1>18. CASE EBQuit
  BY <1>0, <1>18, SMT DEF EBQuit, Goto
<1>19. CASE EBDetStation
  BY <1>0, <1>19, SMT DEF EBDetStation, Goto, Lock
<1>20. CASE EBDetSystem
  BY <1>0, <1>20, SMT DEF EBDetSystem, Goto, Lock
<1>21. CASE EBDetTransfer
  BY <1>0, <1>21, SMT DEF EBDetTransfer, Goto, Lock
<1>22. CASE EBIdle
  BY <1>0, <1>22, SMT DEF EBIdle, Goto, Unlock
<1>23. CASE EBFlushRead
  BY <1>0, <1>23, SMT DEF EBFlushRead, Goto
<1>24. CASE EBRestore
  BY <1>0, <1>24, SMT DEF EBRestore, Goto
<1>25. CASE EBUncount
  BY <1>0, <1>25, SMT DEF EBUncount, Goto
<1>26. CASE EBDetUnlock
  BY <1>0, <1>26, SMT DEF EBDetUnlock, Goto, Unlock
<1>27. CASE EBDetProc
  BY <1>0, <1>27, SMT DEF EBDetProc, Goto
<1>28. CASE EBDetEnd
  BY <1>0, <1>28, SMT DEF EBDetEnd, Goto, Unlock
<1>29. CASE EBClose
  BY <1>0, <1>29, SMT DEF EBClose, Goto, Lock, Unlock
<1>30. CASE EBKilled
  BY <1>0, <1>30, SMT DEF EBKilled
<1>31. CASE HeartFixMutexes
  BY <1>0, <1>31, SMT DEF HeartFixMutexes, Fix, Goto, Unlock
<1>32. CASE HeartLock
  BY <1>0, <1>32, SMT DEF HeartLock, Goto, Lock
<1>33. CASE HeartFixAttachments
  BY <1>0, <1>33, SMT DEF HeartFixAttachments, Goto, Lock
<1>34. CASE HeartDetach
  BY <1>0, <1>34, SMT DEF HeartDetach, Goto
<1>35. CASE HeartDone
  BY <1>0, <1>35, SMT DEF HeartDone, Unlock
<1>36. CASE Take("GC")
  BY <1>0, <1>36, SMT DEF Take, Goto
<1>37. CASE LockTransfer("GC")
  BY <1>0, <1>37, SMT DEF LockTransfer, Goto, Lock
<1>38. CASE Route("GC")
  BY <1>0, <1>38, SMT DEF Route, Goto
<1>39. CASE UnlinkTemps("GC")
  BY <1>0, <1>39, SMT DEF UnlinkTemps, Goto
<1>40. CASE WriteGC("GC")
  BY <1>0, <1>40, SMT DEF WriteGC, Goto
<1>41. CASE WriteCU("GC")
  BY <1>0, <1>41, SMT DEF WriteCU, Goto
<1>42. CASE UnlockTransfer("GC")
  BY <1>0, <1>42, SMT DEF UnlockTransfer, Goto, Unlock
<1>43. CASE Take("CU")
  BY <1>0, <1>43, SMT DEF Take, Goto
<1>44. CASE LockTransfer("CU")
  BY <1>0, <1>44, SMT DEF LockTransfer, Goto, Lock
<1>45. CASE Route("CU")
  BY <1>0, <1>45, SMT DEF Route, Goto
<1>46. CASE UnlinkTemps("CU")
  BY <1>0, <1>46, SMT DEF UnlinkTemps, Goto
<1>47. CASE WriteGC("CU")
  BY <1>0, <1>47, SMT DEF WriteGC, Goto
<1>48. CASE WriteCU("CU")
  BY <1>0, <1>48, SMT DEF WriteCU, Goto
<1>49. CASE UnlockTransfer("CU")
  BY <1>0, <1>49, SMT DEF UnlockTransfer, Goto, Unlock
<1>50. CASE UNCHANGED vars
  BY <1>0, <1>50, SMT DEF vars
<1>51. CASE ProdMakeFails
  BY <1>0, <1>51, SMT DEF ProdMakeFails, Unmade, Goto
<1>52. CASE ProdMakeTooMany
  BY <1>0, <1>52, SMT DEF ProdMakeTooMany, Unmade, Goto
<1>53. CASE ProdAgain
  BY <1>0, <1>53, SMT DEF ProdAgain, Goto
<1> QED
  BY <1>1, <1>2, <1>3, <1>4, <1>5, <1>6, <1>7, <1>8, <1>9, <1>10, <1>11, <1>12, <1>13,
     <1>14, <1>15, <1>16, <1>17, <1>18, <1>19, <1>20, <1>21, <1>22, <1>23, <1>24,
     <1>25, <1>26, <1>27, <1>28, <1>29, <1>30, <1>31, <1>32, <1>33, <1>34, <1>35,
     <1>36, <1>37, <1>38, <1>39, <1>40, <1>41, <1>42, <1>43, <1>44, <1>45, <1>46,
     <1>47, <1>48, <1>49, <1>50, <1>51, <1>52, <1>53
     DEF Next, Prod, EB, EBStep, Heart, Conduct, Stations

\* The attachment gives back what it owns before its record is erased.
LEMMA OwningNext ==
  Places /\ Values /\ Mutexes /\ Attachment /\ Owning /\ [Next]_vars => Owning'
<1> SUFFICES ASSUME Places, Values, Mutexes, Attachment, Owning, [Next]_vars
             PROVE  Owning'
  OBVIOUS
<1> USE NamesHold DEF Names, Owning, atts, lists
<1>0. /\ pc \in [Threads -> Place] /\ pc["heart"] \in HeartPlaces
      /\ listIn \in Seq(Nat) /\ owned \in Seq(Nat)
      /\ pc["heart"] # "watch" => pc["eb"] = "dead"
      /\ Attachment
  BY DEF Places, Values, Mutexes, HeartHolds
<1>1. CASE ProdLockStation
  BY <1>0, <1>1, SMT DEF ProdLockStation, Goto, Lock
<1>2. CASE ProdLockSystem
  BY <1>0, <1>2, SMT DEF ProdLockSystem, Goto, Lock
<1>3. CASE ProdAttached
  BY <1>0, <1>3, SMT DEF ProdAttached, Goto, Unlock
<1>4. CASE ProdCallNew
  BY <1>0, <1>4, SMT DEF ProdCallNew, Goto
<1>5. CASE ProdNew
  BY <1>0, <1>5, SMT DEF ProdNew, Goto
<1>6. CASE ProdMake
  BY <1>0, <1>6, SMT DEF ProdMake, Goto
<1>7. CASE ProdPut
  BY <1>0, <1>7, SMT DEF ProdPut, Goto
<1>8. CASE ProdQuit
  BY <1>0, <1>8, SMT DEF ProdQuit, Goto
<1>9. CASE ProdDetached
  BY <1>0, <1>9, SMT DEF ProdDetached, Goto, Unlock
<1>10. CASE EBStart
  BY <1>0, <1>10, SMT DEF EBStart, Goto
<1>11. CASE EBLockStation
  BY <1>0, <1>11, SMT DEF EBLockStation, Goto, Lock
<1>12. CASE EBRegister
  BY <1>0, <1>12, SMT DEF EBRegister, Goto, Lock
<1>13. CASE EBUnlockSystem
  BY <1>0, <1>13, SMT DEF EBUnlockSystem, Goto, Unlock
<1>14. CASE EBCount
  BY <1>0, <1>14, SMT DEF EBCount, Goto
<1>15. CASE EBActivate
  BY <1>0, <1>15, SMT DEF EBActivate, Goto, Unlock
<1>16. CASE EBGet
  BY <1>0, <1>16, SMT DEF EBGet, Goto, Attachment
<1>17. CASE EBPut
  BY <1>0, <1>17, SMT DEF EBPut, Goto
<1>18. CASE EBQuit
  BY <1>0, <1>18, SMT DEF EBQuit, Goto
<1>19. CASE EBDetStation
  BY <1>0, <1>19, SMT DEF EBDetStation, Goto, Lock
<1>20. CASE EBDetSystem
  BY <1>0, <1>20, SMT DEF EBDetSystem, Goto, Lock
<1>21. CASE EBDetTransfer
  BY <1>0, <1>21, SMT DEF EBDetTransfer, Goto, Lock
<1>22. CASE EBIdle
  BY <1>0, <1>22, SMT DEF EBIdle, Goto, Unlock
<1>23. CASE EBFlushRead
  BY <1>0, <1>23, SMT DEF EBFlushRead, Goto, Attachment
<1>24. CASE EBRestore
  BY <1>0, <1>24, SMT DEF EBRestore, Goto
<1>25. CASE EBUncount
  BY <1>0, <1>25, SMT DEF EBUncount, Goto
<1>26. CASE EBDetUnlock
  BY <1>0, <1>26, SMT DEF EBDetUnlock, Goto, Unlock
<1>27. CASE EBDetProc
  BY <1>0, <1>27, SMT DEF EBDetProc, Goto
<1>28. CASE EBDetEnd
  BY <1>0, <1>28, SMT DEF EBDetEnd, Goto, Unlock
<1>29. CASE EBClose
  BY <1>0, <1>29, SMT DEF EBClose, Goto, Lock, Unlock
<1>30. CASE EBKilled
  BY <1>0, <1>30, SMT DEF EBKilled
<1>31. CASE HeartFixMutexes
  BY <1>0, <1>31, SMT DEF HeartFixMutexes, Fix, Goto, Unlock
<1>32. CASE HeartLock
  BY <1>0, <1>32, SMT DEF HeartLock, Goto, Lock
<1>33. CASE HeartFixAttachments
  <2>1. /\ pc' = [pc EXCEPT !["heart"] = "detach"]
        /\ UNCHANGED <<owned, listIn, status, natt, listed>>
    BY <1>33 DEF HeartFixAttachments, Goto, lists
  <2>2. (known' => known) /\ (ofProc /\ (known => listed /\ status = "ACTIVE") => ofProc')
    BY <1>33, Zenon DEF HeartFixAttachments
  <2> QED
    BY <1>0, <2>1, <2>2, SMT
<1>34. CASE HeartDetach
  <2>1. pc' = [pc EXCEPT !["heart"] = "unlock"] /\ pc["heart"] = "detach"
    BY <1>34 DEF HeartDetach, Goto
  <2>2. CASE ~ofProc /\ UNCHANGED <<lock, lists, atts, other>>
    BY <1>0, <2>1, <2>2, SMT
  <2>3. CASE CleansLast
    BY <1>0, <2>1, <2>3, SMT DEF CleansLast
  <2>4. CASE CleansOther
    BY <1>0, <2>1, <2>4, SMT DEF CleansOther
  <2> QED
    BY <2>2, <2>3, <2>4, <1>34, HeartDetachCases, Zenon
<1>35. CASE HeartDone
  BY <1>0, <1>35, SMT DEF HeartDone, Unlock
<1>36. CASE Take("GC")
  BY <1>0, <1>36, SMT DEF Take, Goto
<1>37. CASE LockTransfer("GC")
  BY <1>0, <1>37, SMT DEF LockTransfer, Goto, Lock
<1>38. CASE Route("GC")
  BY <1>0, <1>38, SMT DEF Route, Goto
<1>39. CASE UnlinkTemps("GC")
  BY <1>0, <1>39, SMT DEF UnlinkTemps, Goto
<1>40. CASE WriteGC("GC")
  BY <1>0, <1>40, SMT DEF WriteGC, Goto
<1>41. CASE WriteCU("GC")
  BY <1>0, <1>41, SMT DEF WriteCU, Goto
<1>42. CASE UnlockTransfer("GC")
  BY <1>0, <1>42, SMT DEF UnlockTransfer, Goto, Unlock
<1>43. CASE Take("CU")
  BY <1>0, <1>43, SMT DEF Take, Goto
<1>44. CASE LockTransfer("CU")
  BY <1>0, <1>44, SMT DEF LockTransfer, Goto, Lock
<1>45. CASE Route("CU")
  BY <1>0, <1>45, SMT DEF Route, Goto
<1>46. CASE UnlinkTemps("CU")
  BY <1>0, <1>46, SMT DEF UnlinkTemps, Goto
<1>47. CASE WriteGC("CU")
  BY <1>0, <1>47, SMT DEF WriteGC, Goto
<1>48. CASE WriteCU("CU")
  BY <1>0, <1>48, SMT DEF WriteCU, Goto
<1>49. CASE UnlockTransfer("CU")
  BY <1>0, <1>49, SMT DEF UnlockTransfer, Goto, Unlock
<1>50. CASE UNCHANGED vars
  BY <1>0, <1>50, SMT DEF vars
<1>51. CASE ProdMakeFails
  BY <1>0, <1>51, SMT DEF ProdMakeFails, Unmade, Goto
<1>52. CASE ProdMakeTooMany
  BY <1>0, <1>52, SMT DEF ProdMakeTooMany, Unmade, Goto
<1>53. CASE ProdAgain
  BY <1>0, <1>53, SMT DEF ProdAgain, Goto
<1> QED
  BY <1>1, <1>2, <1>3, <1>4, <1>5, <1>6, <1>7, <1>8, <1>9, <1>10, <1>11, <1>12, <1>13,
     <1>14, <1>15, <1>16, <1>17, <1>18, <1>19, <1>20, <1>21, <1>22, <1>23, <1>24,
     <1>25, <1>26, <1>27, <1>28, <1>29, <1>30, <1>31, <1>32, <1>33, <1>34, <1>35,
     <1>36, <1>37, <1>38, <1>39, <1>40, <1>41, <1>42, <1>43, <1>44, <1>45, <1>46,
     <1>47, <1>48, <1>49, <1>50, <1>51, <1>52, <1>53
     DEF Next, Prod, EB, EBStep, Heart, Conduct, Stations

\* CU is made idle only while no conductor is on its way to it.
LEMMA FlushingNext ==
  Places /\ Values /\ Mutexes /\ Attachment /\ Flushing /\ [Next]_vars => Flushing'
<1> SUFFICES ASSUME Places, Values, Mutexes, Attachment, Flushing, [Next]_vars
             PROVE  Flushing'
  OBVIOUS
<1> USE NamesHold DEF Names, Flushing, atts, lists
<1>0. /\ pc \in [Threads -> Place] /\ pc["heart"] \in HeartPlaces
      /\ pc["cGC"] \in ConductorPlaces /\ pc["cCU"] \in ConductorPlaces \ {"toCU"}
      /\ listIn \in Seq(Nat) /\ hand["GC"] \in Seq(Nat) /\ natt \in Int
      /\ status \in {"IDLE", "ACTIVE"}
      /\ pc["heart"] # "watch" => pc["eb"] = "dead"
      /\ pc["cGC"] = "toCU" => lock["GC"] = "cGC"
      /\ pc["eb"] = "idle" => lock["GC"] = "eb"
      /\ pc["heart"] = "detach" => lock["GC"] = "heart"
  BY DEF Places, Values, Mutexes, HeartHolds, ConductorsHold, EBHolds, Transferring
<1>1. CASE ProdLockStation
  BY <1>0, <1>1, SMT DEF ProdLockStation, Goto, Lock
<1>2. CASE ProdLockSystem
  BY <1>0, <1>2, SMT DEF ProdLockSystem, Goto, Lock
<1>3. CASE ProdAttached
  BY <1>0, <1>3, SMT DEF ProdAttached, Goto, Unlock
<1>4. CASE ProdCallNew
  BY <1>0, <1>4, SMT DEF ProdCallNew, Goto
<1>5. CASE ProdNew
  BY <1>0, <1>5, SMT DEF ProdNew, Goto
<1>6. CASE ProdMake
  BY <1>0, <1>6, SMT DEF ProdMake, Goto
<1>7. CASE ProdPut
  BY <1>0, <1>7, SMT DEF ProdPut, Goto
<1>8. CASE ProdQuit
  BY <1>0, <1>8, SMT DEF ProdQuit, Goto
<1>9. CASE ProdDetached
  BY <1>0, <1>9, SMT DEF ProdDetached, Goto, Unlock
<1>10. CASE EBStart
  BY <1>0, <1>10, SMT DEF EBStart, Goto
<1>11. CASE EBLockStation
  BY <1>0, <1>11, SMT DEF EBLockStation, Goto, Lock
<1>12. CASE EBRegister
  BY <1>0, <1>12, SMT DEF EBRegister, Goto, Lock
<1>13. CASE EBUnlockSystem
  BY <1>0, <1>13, SMT DEF EBUnlockSystem, Goto, Unlock
<1>14. CASE EBCount
  BY <1>0, <1>14, SMT DEF EBCount, Goto
<1>15. CASE EBActivate
  BY <1>0, <1>15, SMT DEF EBActivate, Goto, Unlock
<1>16. CASE EBGet
  BY <1>0, <1>16, SMT DEF EBGet, Goto
<1>17. CASE EBPut
  BY <1>0, <1>17, SMT DEF EBPut, Goto
<1>18. CASE EBQuit
  BY <1>0, <1>18, SMT DEF EBQuit, Goto
<1>19. CASE EBDetStation
  BY <1>0, <1>19, SMT DEF EBDetStation, Goto, Lock
<1>20. CASE EBDetSystem
  BY <1>0, <1>20, SMT DEF EBDetSystem, Goto, Lock
<1>21. CASE EBDetTransfer
  BY <1>0, <1>21, SMT DEF EBDetTransfer, Goto, Lock
<1>22. CASE EBIdle
  BY <1>0, <1>22, SMT DEF EBIdle, Goto, Unlock, Attachment
<1>23. CASE EBFlushRead
  BY <1>0, <1>23, SMT DEF EBFlushRead, Goto
<1>24. CASE EBRestore
  BY <1>0, <1>24, SMT DEF EBRestore, Goto
<1>25. CASE EBUncount
  BY <1>0, <1>25, SMT DEF EBUncount, Goto
<1>26. CASE EBDetUnlock
  BY <1>0, <1>26, SMT DEF EBDetUnlock, Goto, Unlock
<1>27. CASE EBDetProc
  BY <1>0, <1>27, SMT DEF EBDetProc, Goto
<1>28. CASE EBDetEnd
  BY <1>0, <1>28, SMT DEF EBDetEnd, Goto, Unlock
<1>29. CASE EBClose
  BY <1>0, <1>29, SMT DEF EBClose, Goto, Lock, Unlock
<1>30. CASE EBKilled
  BY <1>0, <1>30, SMT DEF EBKilled
<1>31. CASE HeartFixMutexes
  BY <1>0, <1>31, SMT DEF HeartFixMutexes, Fix, Goto, Unlock
<1>32. CASE HeartLock
  BY <1>0, <1>32, SMT DEF HeartLock, Goto, Lock
<1>33. CASE HeartFixAttachments
  <2>1. /\ pc' = [pc EXCEPT !["heart"] = "detach"]
        /\ UNCHANGED <<owned, listIn, status, natt, listed>>
    BY <1>33 DEF HeartFixAttachments, Goto, lists
  <2>2. (known' => known) /\ (ofProc /\ (known => listed /\ status = "ACTIVE") => ofProc')
    BY <1>33, Zenon DEF HeartFixAttachments
  <2> QED
    BY <1>0, <2>1, <2>2, SMT
<1>34. CASE HeartDetach
  <2>1. pc' = [pc EXCEPT !["heart"] = "unlock"] /\ pc["heart"] = "detach"
    BY <1>34 DEF HeartDetach, Goto
  <2>2. CASE ~ofProc /\ UNCHANGED <<lock, lists, atts, other>>
    BY <1>0, <2>1, <2>2, SMT
  <2>3. CASE CleansLast
    BY <1>0, <2>1, <2>3, SMT DEF CleansLast
  <2>4. CASE CleansOther
    BY <1>0, <2>1, <2>4, SMT DEF CleansOther
  <2> QED
    BY <2>2, <2>3, <2>4, <1>34, HeartDetachCases, Zenon
<1>35. CASE HeartDone
  BY <1>0, <1>35, SMT DEF HeartDone, Unlock
<1>36. CASE Take("GC")
  BY <1>0, <1>36, SMT DEF Take, Goto
<1>37. CASE LockTransfer("GC")
  BY <1>0, <1>37, SMT DEF LockTransfer, Goto, Lock
<1>38. CASE Route("GC")
  BY <1>0, <1>38, SMT DEF Route, Goto
<1>39. CASE UnlinkTemps("GC")
  BY <1>0, <1>39, SMT DEF UnlinkTemps, Goto
<1>40. CASE WriteGC("GC")
  BY <1>0, <1>40, SMT DEF WriteGC, Goto
<1>41. CASE WriteCU("GC")
  BY <1>0, <1>41, SMT DEF WriteCU, Goto
<1>42. CASE UnlockTransfer("GC")
  BY <1>0, <1>42, SMT DEF UnlockTransfer, Goto, Unlock
<1>43. CASE Take("CU")
  BY <1>0, <1>43, SMT DEF Take, Goto
<1>44. CASE LockTransfer("CU")
  BY <1>0, <1>44, SMT DEF LockTransfer, Goto, Lock
<1>45. CASE Route("CU")
  BY <1>0, <1>45, SMT DEF Route, Goto
<1>46. CASE UnlinkTemps("CU")
  BY <1>0, <1>46, SMT DEF UnlinkTemps, Goto
<1>47. CASE WriteGC("CU")
  BY <1>0, <1>47, SMT DEF WriteGC, Goto
<1>48. CASE WriteCU("CU")
  BY <1>0, <1>48, SMT DEF WriteCU, Goto
<1>49. CASE UnlockTransfer("CU")
  BY <1>0, <1>49, SMT DEF UnlockTransfer, Goto, Unlock
<1>50. CASE UNCHANGED vars
  BY <1>0, <1>50, SMT DEF vars
<1>51. CASE ProdMakeFails
  BY <1>0, <1>51, SMT DEF ProdMakeFails, Unmade, Goto
<1>52. CASE ProdMakeTooMany
  BY <1>0, <1>52, SMT DEF ProdMakeTooMany, Unmade, Goto
<1>53. CASE ProdAgain
  BY <1>0, <1>53, SMT DEF ProdAgain, Goto
<1> QED
  BY <1>1, <1>2, <1>3, <1>4, <1>5, <1>6, <1>7, <1>8, <1>9, <1>10, <1>11, <1>12, <1>13,
     <1>14, <1>15, <1>16, <1>17, <1>18, <1>19, <1>20, <1>21, <1>22, <1>23, <1>24,
     <1>25, <1>26, <1>27, <1>28, <1>29, <1>30, <1>31, <1>32, <1>33, <1>34, <1>35,
     <1>36, <1>37, <1>38, <1>39, <1>40, <1>41, <1>42, <1>43, <1>44, <1>45, <1>46,
     <1>47, <1>48, <1>49, <1>50, <1>51, <1>52, <1>53
     DEF Next, Prod, EB, EBStep, Heart, Conduct, Stations

\* Most steps only take or give up a mutex, or change the attachment's record:
\* they leave the events, the temp files and CU's status alone.
Carrying == {"transfer", "route", "toCU"}
Still ==
  /\ UNCHANGED <<lists, ntemps, big, status, misses>>
  /\ pc'["prod"] = "make" <=> pc["prod"] = "make"
  /\ pc'["cGC"] = "toGC" <=> pc["cGC"] = "toGC"
  /\ pc'["cCU"] = "toGC" <=> pc["cCU"] = "toGC"
  /\ pc'["cGC"] \in Carrying <=> pc["cGC"] \in Carrying

MovingSteps ==
  \/ ProdNew \/ ProdMake \/ ProdMakeFails \/ ProdMakeTooMany \/ ProdPut \/ ProdDetached
  \/ EBActivate \/ EBGet \/ EBPut \/ EBIdle \/ EBFlushRead \/ EBRestore \/ HeartDetach
  \/ \E s \in Stations : Take(s) \/ Route(s) \/ UnlinkTemps(s) \/ WriteGC(s) \/ WriteCU(s)

\* A step moves events or is still.
LEMMA StepKinds ==
  Places /\ [Next]_vars => Still \/ MovingSteps
<1> SUFFICES ASSUME Places, [Next]_vars, ~MovingSteps PROVE Still
  OBVIOUS
<1> USE NamesHold DEF Names, lists, atts, other, Carrying
<1>0. pc \in [Threads -> Place]
  BY DEF Places
<1>1. CASE ProdLockStation
  BY <1>0, <1>1, SMT DEF Still, ProdLockStation, Goto, Lock
<1>2. CASE ProdLockSystem
  BY <1>0, <1>2, SMT DEF Still, ProdLockSystem, Goto, Lock
<1>3. CASE ProdAttached
  BY <1>0, <1>3, SMT DEF Still, ProdAttached, Goto, Unlock
<1>4. CASE ProdCallNew
  BY <1>0, <1>4, SMT DEF Still, ProdCallNew, Goto
<1>5. CASE ProdQuit
  BY <1>0, <1>5, SMT DEF Still, ProdQuit, Goto
<1>6. CASE EBStart
  BY <1>0, <1>6, SMT DEF Still, EBStart, Goto
<1>7. CASE EBLockStation
  BY <1>0, <1>7, SMT DEF Still, EBLockStation, Goto, Lock
<1>8. CASE EBRegister
  BY <1>0, <1>8, SMT DEF Still, EBRegister, Goto, Lock
<1>9. CASE EBUnlockSystem
  BY <1>0, <1>9, SMT DEF Still, EBUnlockSystem, Goto, Unlock
<1>10. CASE EBCount
  BY <1>0, <1>10, SMT DEF Still, EBCount, Goto
<1>11. CASE EBQuit
  BY <1>0, <1>11, SMT DEF Still, EBQuit, Goto
<1>12. CASE EBDetStation
  BY <1>0, <1>12, SMT DEF Still, EBDetStation, Goto, Lock
<1>13. CASE EBDetSystem
  BY <1>0, <1>13, SMT DEF Still, EBDetSystem, Goto, Lock
<1>14. CASE EBDetTransfer
  BY <1>0, <1>14, SMT DEF Still, EBDetTransfer, Goto, Lock
<1>15. CASE EBUncount
  BY <1>0, <1>15, SMT DEF Still, EBUncount, Goto
<1>16. CASE EBDetUnlock
  BY <1>0, <1>16, SMT DEF Still, EBDetUnlock, Goto, Unlock
<1>17. CASE EBDetProc
  BY <1>0, <1>17, SMT DEF Still, EBDetProc, Goto
<1>18. CASE EBDetEnd
  BY <1>0, <1>18, SMT DEF Still, EBDetEnd, Goto, Unlock
<1>19. CASE EBClose
  BY <1>0, <1>19, SMT DEF Still, EBClose, Goto, Lock, Unlock
<1>20. CASE EBKilled
  BY <1>0, <1>20, SMT DEF Still, EBKilled
<1>21. CASE HeartFixMutexes
  BY <1>0, <1>21, SMT DEF Still, HeartFixMutexes, Fix, Goto, Unlock
<1>22. CASE HeartLock
  BY <1>0, <1>22, SMT DEF Still, HeartLock, Goto, Lock
<1>23. CASE HeartFixAttachments
  BY <1>0, <1>23, SMT DEF Still, HeartFixAttachments, Goto, Lock
<1>24. CASE HeartDone
  BY <1>0, <1>24, SMT DEF Still, HeartDone, Unlock
<1>25. CASE LockTransfer("GC")
  BY <1>0, <1>25, SMT DEF Still, LockTransfer, Goto, Lock
<1>26. CASE UnlockTransfer("GC")
  BY <1>0, <1>26, SMT DEF Still, UnlockTransfer, Goto, Unlock
<1>27. CASE LockTransfer("CU")
  BY <1>0, <1>27, SMT DEF Still, LockTransfer, Goto, Lock
<1>28. CASE UnlockTransfer("CU")
  BY <1>0, <1>28, SMT DEF Still, UnlockTransfer, Goto, Unlock
<1>29. CASE UNCHANGED vars
  BY <1>0, <1>29, SMT DEF Still, vars
<1>30. CASE ProdAgain
  BY <1>0, <1>30, SMT DEF Still, ProdAgain, Goto
<1> QED
  BY <1>1, <1>2, <1>3, <1>4, <1>5, <1>6, <1>7, <1>8, <1>9, <1>10, <1>11, <1>12, <1>13,
     <1>14, <1>15, <1>16, <1>17, <1>18, <1>19, <1>20, <1>21, <1>22, <1>23, <1>24,
     <1>25, <1>26, <1>27, <1>28, <1>29, <1>30 DEF Next, Prod, EB, EBStep, Heart, Conduct,
     Stations, MovingSteps

\* Every list operation moves the events it takes.
LEMMA ConservedNext ==
  Places /\ Values /\ Producing /\ Conducting /\ Attachment /\ Owning /\ EventsConserved
    /\ [Next]_vars => EventsConserved'
<1> SUFFICES ASSUME Places, Values, Producing, Conducting, Attachment, Owning,
                    EventsConserved, [Next]_vars
             PROVE  EventsConserved'
  OBVIOUS
<1> USE NamesHold DEF Names, EventsConserved
<1>0. /\ pc \in [Threads -> Place] /\ pc["cCU"] # "toCU"
      /\ free \in Int /\ filling \in Int
      /\ listIn \in Seq(Nat) /\ owned \in Seq(Nat) /\ sent \in Nat
      /\ listOut \in [Stations -> Seq(Nat)]
      /\ hand \in [Stations -> Seq(Nat)]
      /\ listOut["GC"] \in Seq(Nat) /\ listOut["CU"] \in Seq(Nat)
      /\ hand["GC"] \in Seq(Nat) /\ hand["CU"] \in Seq(Nat)
      /\ pc["cGC"] = "wait" => hand["GC"] = <<>>
      /\ pc["cCU"] = "wait" => hand["CU"] = <<>>
      /\ pc["eb"] = "loop" => owned = <<>>
      /\ NEvents \in Nat
  BY ETTransferAssumption DEF Places, Values, Conducting, Owning
<1>1. CASE Still
  BY <1>1, Zenon DEF Still, lists
<1>2. CASE ProdNew
  BY <1>0, <1>2, SMT DEF ProdNew, Goto
<1>3. CASE ProdMake
  BY <1>3, Zenon DEF ProdMake, Goto, lists
<1>23. CASE ProdMakeFails
  BY <1>23, Zenon DEF ProdMakeFails, Unmade, Goto, lists
<1>24. CASE ProdMakeTooMany
  BY <1>24, Zenon DEF ProdMakeTooMany, Unmade, Goto, lists
<1>4. CASE ProdPut
  BY <1>0, <1>4, SMT DEF ProdPut, Goto
<1>5. CASE ProdDetached
  BY <1>0, <1>5, SMT DEF ProdDetached, Goto, Unlock
<1>6. CASE EBActivate
  BY <1>6, Zenon DEF EBActivate, Goto, Unlock, lists
<1>7. CASE EBGet
  BY <1>0, <1>7, SMT DEF EBGet, Goto
<1>8. CASE EBPut
  BY <1>0, <1>8, SMT DEF EBPut, Goto
<1>9. CASE EBIdle
  BY <1>9, Zenon DEF EBIdle, Goto, Unlock, lists
<1>10. CASE EBFlushRead
  BY <1>0, <1>10, SMT DEF EBFlushRead, Goto
<1>11. CASE EBRestore
  BY <1>0, <1>11, SMT DEF EBRestore, Goto
<1>12. CASE HeartDetach
  <2>1. CASE ~ofProc /\ UNCHANGED <<lock, lists, atts, other>>
    BY <2>1, Zenon DEF lists
  <2>2. CASE CleansLast
    <3>1. owned \o listIn \in Seq(Nat) /\ Len(owned \o listIn) = Len(owned) + Len(listIn)
      BY <1>0, SMT
    <3>a. listOut' = [listOut EXCEPT !["CU"] = listOut["CU"] \o (owned \o listIn)]
      BY <2>2 DEF CleansLast
    <3>2. listOut'["GC"] = listOut["GC"] /\ listOut'["CU"] = listOut["CU"] \o (owned \o listIn)
      BY <1>0, <3>a, Zenon DEF Stations
    <3>3. Len(listOut'["CU"]) = Len(listOut["CU"]) + Len(owned) + Len(listIn)
      BY <1>0, <3>1, <3>2, SMT
    <3> QED
      BY <1>0, <2>2, <3>2, <3>3, SMT DEF CleansLast
  <2>3. CASE CleansOther
    BY <1>0, <2>3, SMT DEF CleansOther
  <2> QED
    BY <2>1, <2>2, <2>3, <1>12, HeartDetachCases, Zenon
<1>13. CASE Take("GC")
  <2>1. /\ hand'["GC"] = listOut["GC"] /\ listOut'["GC"] = <<>>
        /\ hand'["CU"] = hand["CU"] /\ listOut'["CU"] = listOut["CU"]
    BY <1>0, <1>13, SMT DEF Take
  <2>2. hand["GC"] = <<>> /\ UNCHANGED <<free, filling, listIn, owned>>
    BY <1>0, <1>13, SMT DEF Take, Goto
  <2> QED
    BY <1>0, <2>1, <2>2, SMT
<1>14. CASE Route("GC")
  BY <1>14, Zenon DEF Route, Goto, lists
<1>15. CASE UnlinkTemps("GC")
  BY <1>15, Zenon DEF UnlinkTemps, Goto, lists
<1>16. CASE WriteGC("GC")
  BY <1>0, <1>16, SMT DEF WriteGC, Goto
<1>17. CASE WriteCU("GC")
  BY <1>0, <1>17, SMT DEF WriteCU, Goto
<1>18. CASE Take("CU")
  <2>1. /\ hand'["CU"] = listOut["CU"] /\ listOut'["CU"] = <<>>
        /\ hand'["GC"] = hand["GC"] /\ listOut'["GC"] = listOut["GC"]
    BY <1>0, <1>18, SMT DEF Take
  <2>2. hand["CU"] = <<>> /\ UNCHANGED <<free, filling, listIn, owned>>
    BY <1>0, <1>18, SMT DEF Take, Goto
  <2> QED
    BY <1>0, <2>1, <2>2, SMT
<1>19. CASE Route("CU")
  BY <1>19, Zenon DEF Route, Goto, lists
<1>20. CASE UnlinkTemps("CU")
  BY <1>20, Zenon DEF UnlinkTemps, Goto, lists
<1>21. CASE WriteGC("CU")
  BY <1>0, <1>21, SMT DEF WriteGC, Goto
<1>22. CASE WriteCU("CU")
  BY <1>0, <1>22, SMT DEF WriteCU, Goto
<1> QED
  BY <1>1, <1>2, <1>3, <1>4, <1>5, <1>6, <1>7, <1>8, <1>9, <1>10, <1>11, <1>12, <1>13,
     <1>14, <1>15, <1>16, <1>17, <1>18, <1>19, <1>20, <1>21, <1>22, <1>23, <1>24,
     StepKinds DEF
     MovingSteps, Stations

\* The counts bound how far sys->ntemps can be off.
LEMMA CountingBounds ==
  Places /\ Flags /\ Values /\ Counting => TempsAccounted
<1> SUFFICES ASSUME Places, Flags, Values, Counting
             PROVE  TempsAccounted
  OBVIOUS
<1>1. /\ "GC" \in {s \in Stations : pc[Conductor[s]] = "toGC"} <=> pc["cGC"] = "toGC"
      /\ "CU" \in {s \in Stations : pc[Conductor[s]] = "toGC"} <=> pc["cCU"] = "toGC"
  BY NamesHold DEF Names
<1>2. /\ Len(hand["GC"]) \in Nat /\ Len(hand["CU"]) \in Nat /\ NEvents \in Nat
      /\ free \in Int /\ ntemps \in Int
      /\ unmade \in Nat /\ stale \in Nat /\ failed \in Nat /\ refused \in Nat
  BY ETTransferAssumption, NamesHold DEF Names, Values
<1>3. WithTemp = TempsOut
  BY <1>1, Zenon DEF WithTemp, TempsOut, Making, UnlinkedGC, UnlinkedCU
<1>4. CASE ~big
  BY <1>4, Zenon DEF Counting, TempsAccounted
<1>5. CASE big
  <2>1. Drift <= failed /\ stale - refused <= Drift /\ (failed = 0 => refused = 0)
    BY <1>5, Zenon DEF Counting
  <2>2. Drift \in Int
    BY <1>2, SMT DEF Drift, TempsOut, Making, UnlinkedGC, UnlinkedCU
  <2>3. Drift \in (0 - refused)..failed
    BY <1>2, <2>1, <2>2
  <2>4. ntemps - WithTemp \in (0 - refused)..failed
    BY <1>3, <2>3, Zenon DEF Drift
  <2> QED
    BY <1>5, <2>1, <2>4, Zenon DEF TempsAccounted
<1> QED
  BY <1>4, <1>5

\* A temp file is counted until its event is back, or unlinked on the way there.
LEMMA CountingNext ==
  Places /\ Flags /\ Values /\ Producing /\ Conducting /\ Counting /\ [Next]_vars
    => Counting'
<1> SUFFICES ASSUME Places, Flags, Values, Producing, Conducting, Counting, [Next]_vars
             PROVE  Counting'
  OBVIOUS
<1> USE NamesHold DEF Names
<1>p. pc \in [Threads -> Place] /\ pc["cCU"] # "toCU"
  BY DEF Places
<1>q. Counting
  OBVIOUS
<1>r. /\ free \in Int /\ filling \in Int /\ ntemps \in Int /\ NEvents \in Nat
      /\ free >= 0 /\ unmade \in Nat /\ stale \in Nat /\ failed \in Nat /\ refused \in Nat
      /\ hand \in [Stations -> Seq(Nat)]
      /\ hand["GC"] \in Seq(Nat) /\ hand["CU"] \in Seq(Nat)
      /\ Len(hand["GC"]) \in Nat /\ Len(hand["CU"]) \in Nat
      /\ big \in BOOLEAN
      /\ (pc["cGC"] = "unlink" \/ pc["cCU"] = "unlink") => big
      /\ pc["prod"] = "make" => big
  BY ETTransferAssumption DEF Flags, Values, Producing, Conducting
<1>s. Making \in Nat /\ UnlinkedGC \in Nat /\ UnlinkedCU \in Nat
  BY <1>r, SMT DEF Making, UnlinkedGC, UnlinkedCU
<1>1. CASE Still
  BY <1>q, <1>1, Zenon DEF Making, UnlinkedGC, UnlinkedCU, TempsOut, Drift,
       Counting, Still, lists, misses
<1>2. CASE ProdNew
  <2>1. /\ pc'["prod"] = IF big THEN "make" ELSE "full"
        /\ pc["prod"] = "new" /\ pc'["cGC"] = pc["cGC"] /\ pc'["cCU"] = pc["cCU"]
    BY <1>p, <1>2, SMT DEF ProdNew, Goto
  <2>2. free' = free - 1 /\ UNCHANGED <<hand, ntemps, big, unmade, stale, failed, refused>>
    BY <1>2 DEF ProdNew, other, misses
  <2>3. ASSUME big PROVE Counting'
    <3>1. /\ Making = 0 /\ Making' = 1
          /\ UnlinkedGC' = UnlinkedGC /\ UnlinkedCU' = UnlinkedCU
      BY <1>r, <2>3, <2>1, <2>2, SMT DEF Making, UnlinkedGC, UnlinkedCU
    <3>2. Drift' = Drift
      BY <1>r, <1>s, <2>3, <2>1, <2>2, <3>1, SMT DEF Drift, TempsOut
    <3> QED
      BY <1>q, <2>3, <2>1, <2>2, <3>2, Zenon DEF Counting
  <2>4. ASSUME ~big PROVE Counting'
    BY <1>q, <1>r, <2>4, <2>1, <2>2, Zenon DEF Counting
  <2> QED
    BY <2>3, <2>4
<1>3. CASE ProdMake
  <2>1. /\ pc'["prod"] = "full" /\ pc["prod"] = "make"
        /\ pc'["cGC"] = pc["cGC"] /\ pc'["cCU"] = pc["cCU"]
    BY <1>p, <1>3, SMT DEF ProdMake, Goto
  <2>2. ntemps' = ntemps + 1 /\ UNCHANGED <<free, hand, big, unmade, stale, failed, refused>>
    BY <1>3 DEF ProdMake, lists, misses
  <2>3. ASSUME big PROVE Counting'
    <3>1. /\ Making = 1 /\ Making' = 0
          /\ UnlinkedGC' = UnlinkedGC /\ UnlinkedCU' = UnlinkedCU
      BY <1>r, <2>3, <2>1, <2>2, SMT DEF Making, UnlinkedGC, UnlinkedCU
    <3>2. Drift' = Drift
      BY <1>r, <1>s, <2>3, <2>1, <2>2, <3>1, SMT DEF Drift, TempsOut
    <3> QED
      BY <1>q, <2>3, <2>1, <2>2, <3>2, Zenon DEF Counting
  <2>4. ASSUME ~big PROVE Counting'
    BY <1>q, <1>r, <2>4, <2>1, <2>2, Zenon DEF Counting
  <2> QED
    BY <2>3, <2>4
<1>23. CASE ProdMakeFails
  <2>1. /\ pc'["prod"] = "ready" /\ pc["prod"] = "make"
        /\ pc'["cGC"] = pc["cGC"] /\ pc'["cCU"] = pc["cCU"]
    BY <1>p, <1>23, SMT DEF ProdMakeFails, Unmade, Goto
  <2>2. /\ ntemps' = ntemps + 1 /\ unmade' = unmade + 1 /\ failed' = failed + 1
        /\ UNCHANGED <<free, hand, big, refused>>
    BY <1>23 DEF ProdMakeFails, Unmade, lists
  <2>3. stale' = stale \/ stale' = stale + 1
    BY <1>r, <1>23, SMT DEF ProdMakeFails, Unmade
  <2>4. /\ Making = 1 /\ Making' = 0
        /\ UnlinkedGC' = UnlinkedGC /\ UnlinkedCU' = UnlinkedCU
    BY <2>1, <2>2, SMT DEF Making, UnlinkedGC, UnlinkedCU
  <2>5. Drift' = Drift + 1 /\ Drift \in Int
    BY <1>r, <1>s, <2>2, <2>4, SMT DEF Drift, TempsOut
  <2>6. big /\ Drift <= failed /\ stale - refused <= Drift
    BY <1>q, <1>r, <2>1, Zenon DEF Counting
  <2>7. stale \in Nat /\ refused \in Nat /\ failed \in Nat
    BY <1>r
  <2>8. Drift' <= failed' /\ stale' - refused' <= Drift'
    BY <2>2, <2>3, <2>5, <2>6, <2>7, SMT
  <2>9. failed' # 0
    BY <2>2, <2>5, <2>6, <2>7, SMT
  <2> QED
    BY <2>2, <2>6, <2>8, <2>9, Zenon DEF Counting
<1>24. CASE ProdMakeTooMany
  <2>1. /\ pc'["prod"] = "ready" /\ pc["prod"] = "make"
        /\ pc'["cGC"] = pc["cGC"] /\ pc'["cCU"] = pc["cCU"]
    BY <1>p, <1>24, SMT DEF ProdMakeTooMany, Unmade, Goto
  <2>2. /\ ntemps >= NEvents /\ unmade' = unmade + 1 /\ refused' = refused + 1
        /\ UNCHANGED <<ntemps, free, hand, big, failed>>
    BY <1>24 DEF ProdMakeTooMany, Unmade, lists
  <2>3. stale' = stale \/ stale' = stale + 1
    BY <1>r, <1>24, SMT DEF ProdMakeTooMany, Unmade
  <2>4. /\ Making = 1 /\ Making' = 0
        /\ UnlinkedGC' = UnlinkedGC /\ UnlinkedCU' = UnlinkedCU
    BY <2>1, <2>2, SMT DEF Making, UnlinkedGC, UnlinkedCU
  <2>5. Drift' = Drift /\ Drift \in Int /\ Drift >= 1
    BY <1>r, <1>s, <2>2, <2>4, SMT DEF Drift, TempsOut
  <2>6. big /\ Drift <= failed /\ stale - refused <= Drift
    BY <1>q, <1>r, <2>1, Zenon DEF Counting
  <2>7. stale \in Nat /\ refused \in Nat /\ failed \in Nat
    BY <1>r
  <2>8. Drift' <= failed' /\ stale' - refused' <= Drift'
    BY <2>2, <2>3, <2>5, <2>6, <2>7, SMT
  <2>9. failed' # 0
    BY <2>2, <2>5, <2>6, <2>7, SMT
  <2> QED
    BY <2>2, <2>6, <2>8, <2>9, Zenon DEF Counting
<1>4. CASE ProdPut
  <2>1. /\ pc'["prod"] = "ready" /\ pc["prod"] = "full"
        /\ pc'["cGC"] = pc["cGC"] /\ pc'["cCU"] = pc["cCU"]
    BY <1>p, <1>4, SMT DEF ProdPut, Goto
  <2>2. UNCHANGED <<free, hand, ntemps, big, unmade, stale, failed, refused>>
    BY <1>4 DEF ProdPut, misses
  <2>3. ASSUME big PROVE Counting'
    <3>1. /\ Making = 0 /\ Making' = 0
          /\ UnlinkedGC' = UnlinkedGC /\ UnlinkedCU' = UnlinkedCU
      BY <1>r, <2>3, <2>1, <2>2, SMT DEF Making, UnlinkedGC, UnlinkedCU
    <3>2. Drift' = Drift
      BY <1>r, <1>s, <2>3, <2>1, <2>2, <3>1, SMT DEF Drift, TempsOut
    <3> QED
      BY <1>q, <2>3, <2>1, <2>2, <3>2, Zenon DEF Counting
  <2>4. ASSUME ~big PROVE Counting'
    BY <1>q, <1>r, <2>4, <2>1, <2>2, Zenon DEF Counting
  <2> QED
    BY <2>3, <2>4
<1>5. CASE ProdDetached
  <2>1. /\ pc'["prod"] = "gone" /\ pc["prod"] = "detEnd"
        /\ pc'["cGC"] = pc["cGC"] /\ pc'["cCU"] = pc["cCU"]
    BY <1>p, <1>5, SMT DEF ProdDetached, Goto
  <2>2. /\ free' = free + filling /\ unmade' = 0 /\ stale' = 0
        /\ ntemps' = IF big THEN ntemps - (filling - unmade) - stale ELSE ntemps
        /\ UNCHANGED <<hand, big, failed, refused>>
    BY <1>5 DEF ProdDetached
  <2>3. ASSUME big PROVE Counting'
    <3>1. /\ Making = 0 /\ Making' = 0
          /\ UnlinkedGC' = UnlinkedGC /\ UnlinkedCU' = UnlinkedCU
      BY <1>r, <2>3, <2>1, <2>2, SMT DEF Making, UnlinkedGC, UnlinkedCU
    <3>2. Drift' = Drift - stale /\ Drift \in Int
      BY <1>r, <1>s, <2>3, <2>2, <3>1, SMT DEF Drift, TempsOut
    <3>3. Drift <= failed /\ stale - refused <= Drift /\ (failed = 0 => refused = 0)
      BY <1>q, <2>3, Zenon DEF Counting
    <3>4. Drift' <= failed' /\ stale' - refused' <= Drift'
      BY <1>r, <2>2, <3>2, <3>3, SMT
    <3> QED
      BY <2>3, <2>2, <3>3, <3>4, Zenon DEF Counting
  <2>4. ASSUME ~big PROVE Counting'
    BY <1>q, <1>r, <2>4, <2>1, <2>2, Zenon DEF Counting
  <2> QED
    BY <2>3, <2>4
<1>6. CASE EBActivate
  <2>1. UNCHANGED <<free, hand, ntemps, big, unmade, stale, failed, refused>>
    BY <1>6, Zenon DEF EBActivate, Goto, Unlock, lists, other, misses
  <2>2. /\ pc'["prod"] = "make" <=> pc["prod"] = "make"
        /\ pc'["cGC"] = "toGC" <=> pc["cGC"] = "toGC"
        /\ pc'["cCU"] = "toGC" <=> pc["cCU"] = "toGC"
    BY <1>p, <1>6, SMT DEF EBActivate, Goto, Unlock
  <2> QED
    BY <1>q, <2>1, <2>2, Zenon DEF Making, UnlinkedGC, UnlinkedCU, TempsOut, Drift, Counting
<1>7. CASE EBGet
  <2>1. UNCHANGED <<free, hand, ntemps, big, unmade, stale, failed, refused>>
    BY <1>7, Zenon DEF EBGet, Goto, lists, other, misses
  <2>2. /\ pc'["prod"] = "make" <=> pc["prod"] = "make"
        /\ pc'["cGC"] = "toGC" <=> pc["cGC"] = "toGC"
        /\ pc'["cCU"] = "toGC" <=> pc["cCU"] = "toGC"
    BY <1>p, <1>7, SMT DEF EBGet, Goto
  <2> QED
    BY <1>q, <2>1, <2>2, Zenon DEF Making, UnlinkedGC, UnlinkedCU, TempsOut, Drift, Counting
<1>8. CASE EBPut
  <2>1. UNCHANGED <<free, hand, ntemps, big, unmade, stale, failed, refused>>
    BY <1>8, Zenon DEF EBPut, Goto, lists, other, misses
  <2>2. /\ pc'["prod"] = "make" <=> pc["prod"] = "make"
        /\ pc'["cGC"] = "toGC" <=> pc["cGC"] = "toGC"
        /\ pc'["cCU"] = "toGC" <=> pc["cCU"] = "toGC"
    BY <1>p, <1>8, SMT DEF EBPut, Goto
  <2> QED
    BY <1>q, <2>1, <2>2, Zenon DEF Making, UnlinkedGC, UnlinkedCU, TempsOut, Drift, Counting
<1>9. CASE EBIdle
  <2>1. UNCHANGED <<free, hand, ntemps, big, unmade, stale, failed, refused>>
    BY <1>9, Zenon DEF EBIdle, Goto, Unlock, lists, other, misses
  <2>2. /\ pc'["prod"] = "make" <=> pc["prod"] = "make"
        /\ pc'["cGC"] = "toGC" <=> pc["cGC"] = "toGC"
        /\ pc'["cCU"] = "toGC" <=> pc["cCU"] = "toGC"
    BY <1>p, <1>9, SMT DEF EBIdle, Goto, Unlock
  <2> QED
    BY <1>q, <2>1, <2>2, Zenon DEF Making, UnlinkedGC, UnlinkedCU, TempsOut, Drift, Counting
<1>10. CASE EBFlushRead
  <2>1. UNCHANGED <<free, hand, ntemps, big, unmade, stale, failed, refused>>
    BY <1>10, Zenon DEF EBFlushRead, Goto, lists, other, misses
  <2>2. /\ pc'["prod"] = "make" <=> pc["prod"] = "make"
        /\ pc'["cGC"] = "toGC" <=> pc["cGC"] = "toGC"
        /\ pc'["cCU"] = "toGC" <=> pc["cCU"] = "toGC"
    BY <1>p, <1>10, SMT DEF EBFlushRead, Goto
  <2> QED
    BY <1>q, <2>1, <2>2, Zenon DEF Making, UnlinkedGC, UnlinkedCU, TempsOut, Drift, Counting
<1>11. CASE EBRestore
  <2>1. UNCHANGED <<free, hand, ntemps, big, unmade, stale, failed, refused>>
    BY <1>11, Zenon DEF EBRestore, Goto, lists, other, misses
  <2>2. /\ pc'["prod"] = "make" <=> pc["prod"] = "make"
        /\ pc'["cGC"] = "toGC" <=> pc["cGC"] = "toGC"
        /\ pc'["cCU"] = "toGC" <=> pc["cCU"] = "toGC"
    BY <1>p, <1>11, SMT DEF EBRestore, Goto
  <2> QED
    BY <1>q, <2>1, <2>2, Zenon DEF Making, UnlinkedGC, UnlinkedCU, TempsOut, Drift, Counting
<1>12. CASE HeartDetach
  <2>1. UNCHANGED <<free, hand, ntemps, big, unmade, stale, failed, refused>>
    BY <1>12, Zenon DEF HeartDetach, other, misses
  <2>2. /\ pc'["prod"] = "make" <=> pc["prod"] = "make"
        /\ pc'["cGC"] = "toGC" <=> pc["cGC"] = "toGC"
        /\ pc'["cCU"] = "toGC" <=> pc["cCU"] = "toGC"
    BY <1>p, <1>12, SMT DEF HeartDetach, Goto
  <2> QED
    BY <1>q, <2>1, <2>2, Zenon DEF Making, UnlinkedGC, UnlinkedCU, TempsOut, Drift, Counting
<1>13. CASE Take("GC")
  <2>1. /\ pc'["cGC"] = "transfer" /\ pc["cGC"] = "wait"
        /\ pc'["prod"] = pc["prod"] /\ pc'["cCU"] = pc["cCU"]
    BY <1>p, <1>13, SMT DEF Take, Goto
  <2>2. hand'["CU"] = hand["CU"] /\ UNCHANGED <<free, ntemps, big, unmade, stale, failed, refused>>
    BY <1>r, <1>13, SMT DEF Take, other, misses
  <2>3. ASSUME big PROVE Counting'
    <3>1. /\ Making' = Making /\ UnlinkedCU' = UnlinkedCU
          /\ UnlinkedGC = 0 /\ UnlinkedGC' = 0
      BY <1>r, <2>3, <2>1, <2>2, SMT DEF Making, UnlinkedGC, UnlinkedCU
    <3>2. Drift' = Drift
      BY <1>r, <1>s, <2>3, <2>1, <2>2, <3>1, SMT DEF Drift, TempsOut
    <3> QED
      BY <1>q, <2>3, <2>1, <2>2, <3>2, Zenon DEF Counting
  <2>4. ASSUME ~big PROVE Counting'
    BY <1>q, <1>r, <2>4, <2>1, <2>2, Zenon DEF Counting
  <2> QED
    BY <2>3, <2>4
<1>14. CASE Route("GC")
  <2>1. /\ pc["cGC"] = "route"
        /\ pc'["prod"] = pc["prod"] /\ pc'["cCU"] = pc["cCU"]
    BY <1>p, <1>14, SMT DEF Route, Goto
  <2>2. pc'["cGC"] = "toGC" => ~big
    BY <1>p, <1>r, <1>14, SMT DEF Route, Goto
  <2>3. UNCHANGED <<free, hand, ntemps, big, unmade, stale, failed, refused>>
    BY <1>14, Zenon DEF Route, lists, misses
  <2>4. ASSUME big PROVE Counting'
    <3>1. /\ Making' = Making /\ UnlinkedCU' = UnlinkedCU
          /\ UnlinkedGC = 0 /\ UnlinkedGC' = 0
      BY <1>r, <2>4, <2>1, <2>2, <2>3, SMT DEF Making, UnlinkedGC, UnlinkedCU
    <3>2. Drift' = Drift
      BY <1>r, <1>s, <2>4, <2>1, <2>2, <2>3, <3>1, SMT DEF Drift, TempsOut
    <3> QED
      BY <1>q, <2>4, <2>1, <2>2, <2>3, <3>2, Zenon DEF Counting
  <2>5. ASSUME ~big PROVE Counting'
    BY <1>q, <1>r, <2>5, <2>1, <2>2, <2>3, Zenon DEF Counting
  <2> QED
    BY <2>4, <2>5
<1>15. CASE UnlinkTemps("GC")
  <2>1. /\ pc'["cGC"] = "toGC" /\ pc["cGC"] = "unlink"
        /\ pc'["prod"] = pc["prod"] /\ pc'["cCU"] = pc["cCU"]
    BY <1>p, <1>15, SMT DEF UnlinkTemps, Goto
  <2>2. big
    BY <1>r, <2>1
  <2>3. ntemps' = ntemps - Len(hand["GC"]) /\ UNCHANGED <<free, hand, big, unmade, stale, failed, refused>>
    BY <1>15 DEF UnlinkTemps, lists, misses
  <2>4. ASSUME big PROVE Counting'
    <3>1. /\ Making' = Making /\ UnlinkedCU' = UnlinkedCU
          /\ UnlinkedGC = 0 /\ UnlinkedGC' = Len(hand["GC"])
      BY <1>r, <2>4, <2>1, <2>2, <2>3, SMT DEF Making, UnlinkedGC, UnlinkedCU
    <3>2. Drift' = Drift
      BY <1>r, <1>s, <2>4, <2>1, <2>2, <2>3, <3>1, SMT DEF Drift, TempsOut
    <3> QED
      BY <1>q, <2>4, <2>1, <2>2, <2>3, <3>2, Zenon DEF Counting
  <2>5. ASSUME ~big PROVE Counting'
    BY <1>q, <1>r, <2>5, <2>1, <2>2, <2>3, Zenon DEF Counting
  <2> QED
    BY <2>4, <2>5
<1>16. CASE WriteGC("GC")
  <2>1. /\ pc'["cGC"] = "unlock" /\ pc["cGC"] = "toGC"
        /\ pc'["prod"] = pc["prod"] /\ pc'["cCU"] = pc["cCU"]
    BY <1>p, <1>16, SMT DEF WriteGC, Goto
  <2>2. /\ free' = free + Len(hand["GC"]) /\ hand'["CU"] = hand["CU"]
        /\ UNCHANGED <<ntemps, big, unmade, stale, failed, refused>>
    BY <1>r, <1>16, SMT DEF WriteGC, other, misses
  <2>3. ASSUME big PROVE Counting'
    <3>1. /\ Making' = Making /\ UnlinkedCU' = UnlinkedCU
          /\ UnlinkedGC = Len(hand["GC"]) /\ UnlinkedGC' = 0
      BY <1>r, <2>3, <2>1, <2>2, SMT DEF Making, UnlinkedGC, UnlinkedCU
    <3>2. Drift' = Drift
      BY <1>r, <1>s, <2>3, <2>1, <2>2, <3>1, SMT DEF Drift, TempsOut
    <3> QED
      BY <1>q, <2>3, <2>1, <2>2, <3>2, Zenon DEF Counting
  <2>4. ASSUME ~big PROVE Counting'
    BY <1>q, <1>r, <2>4, <2>1, <2>2, Zenon DEF Counting
  <2> QED
    BY <2>3, <2>4
<1>17. CASE WriteCU("GC")
  <2>1. /\ pc'["cGC"] = "unlock" /\ pc["cGC"] = "toCU"
        /\ pc'["prod"] = pc["prod"] /\ pc'["cCU"] = pc["cCU"]
    BY <1>p, <1>17, SMT DEF WriteCU, Goto
  <2>2. hand'["CU"] = hand["CU"] /\ UNCHANGED <<free, ntemps, big, unmade, stale, failed, refused>>
    BY <1>r, <1>17, SMT DEF WriteCU, other, misses
  <2>3. ASSUME big PROVE Counting'
    <3>1. /\ Making' = Making /\ UnlinkedCU' = UnlinkedCU
          /\ UnlinkedGC = 0 /\ UnlinkedGC' = 0
      BY <1>r, <2>3, <2>1, <2>2, SMT DEF Making, UnlinkedGC, UnlinkedCU
    <3>2. Drift' = Drift
      BY <1>r, <1>s, <2>3, <2>1, <2>2, <3>1, SMT DEF Drift, TempsOut
    <3> QED
      BY <1>q, <2>3, <2>1, <2>2, <3>2, Zenon DEF Counting
  <2>4. ASSUME ~big PROVE Counting'
    BY <1>q, <1>r, <2>4, <2>1, <2>2, Zenon DEF Counting
  <2> QED
    BY <2>3, <2>4
<1>18. CASE Take("CU")
  <2>1. /\ pc'["cCU"] = "transfer" /\ pc["cCU"] = "wait"
        /\ pc'["prod"] = pc["prod"] /\ pc'["cGC"] = pc["cGC"]
    BY <1>p, <1>18, SMT DEF Take, Goto
  <2>2. hand'["GC"] = hand["GC"] /\ UNCHANGED <<free, ntemps, big, unmade, stale, failed, refused>>
    BY <1>r, <1>18, SMT DEF Take, other, misses
  <2>3. ASSUME big PROVE Counting'
    <3>1. /\ Making' = Making /\ UnlinkedGC' = UnlinkedGC
          /\ UnlinkedCU = 0 /\ UnlinkedCU' = 0
      BY <1>r, <2>3, <2>1, <2>2, SMT DEF Making, UnlinkedGC, UnlinkedCU
    <3>2. Drift' = Drift
      BY <1>r, <1>s, <2>3, <2>1, <2>2, <3>1, SMT DEF Drift, TempsOut
    <3> QED
      BY <1>q, <2>3, <2>1, <2>2, <3>2, Zenon DEF Counting
  <2>4. ASSUME ~big PROVE Counting'
    BY <1>q, <1>r, <2>4, <2>1, <2>2, Zenon DEF Counting
  <2> QED
    BY <2>3, <2>4
<1>19. CASE Route("CU")
  <2>1. /\ pc["cCU"] = "route"
        /\ pc'["prod"] = pc["prod"] /\ pc'["cGC"] = pc["cGC"]
    BY <1>p, <1>19, SMT DEF Route, Goto
  <2>2. pc'["cCU"] = "toGC" => ~big
    BY <1>p, <1>r, <1>19, SMT DEF Route, Goto
  <2>3. UNCHANGED <<free, hand, ntemps, big, unmade, stale, failed, refused>>
    BY <1>19, Zenon DEF Route, lists, misses
  <2>4. ASSUME big PROVE Counting'
    <3>1. /\ Making' = Making /\ UnlinkedGC' = UnlinkedGC
          /\ UnlinkedCU = 0 /\ UnlinkedCU' = 0
      BY <1>r, <2>4, <2>1, <2>2, <2>3, SMT DEF Making, UnlinkedGC, UnlinkedCU
    <3>2. Drift' = Drift
      BY <1>r, <1>s, <2>4, <2>1, <2>2, <2>3, <3>1, SMT DEF Drift, TempsOut
    <3> QED
      BY <1>q, <2>4, <2>1, <2>2, <2>3, <3>2, Zenon DEF Counting
  <2>5. ASSUME ~big PROVE Counting'
    BY <1>q, <1>r, <2>5, <2>1, <2>2, <2>3, Zenon DEF Counting
  <2> QED
    BY <2>4, <2>5
<1>20. CASE UnlinkTemps("CU")
  <2>1. /\ pc'["cCU"] = "toGC" /\ pc["cCU"] = "unlink"
        /\ pc'["prod"] = pc["prod"] /\ pc'["cGC"] = pc["cGC"]
    BY <1>p, <1>20, SMT DEF UnlinkTemps, Goto
  <2>2. big
    BY <1>r, <2>1
  <2>3. ntemps' = ntemps - Len(hand["CU"]) /\ UNCHANGED <<free, hand, big, unmade, stale, failed, refused>>
    BY <1>20 DEF UnlinkTemps, lists, misses
  <2>4. ASSUME big PROVE Counting'
    <3>1. /\ Making' = Making /\ UnlinkedGC' = UnlinkedGC
          /\ UnlinkedCU = 0 /\ UnlinkedCU' = Len(hand["CU"])
      BY <1>r, <2>4, <2>1, <2>2, <2>3, SMT DEF Making, UnlinkedGC, UnlinkedCU
    <3>2. Drift' = Drift
      BY <1>r, <1>s, <2>4, <2>1, <2>2, <2>3, <3>1, SMT DEF Drift, TempsOut
    <3> QED
      BY <1>q, <2>4, <2>1, <2>2, <2>3, <3>2, Zenon DEF Counting
  <2>5. ASSUME ~big PROVE Counting'
    BY <1>q, <1>r, <2>5, <2>1, <2>2, <2>3, Zenon DEF Counting
  <2> QED
    BY <2>4, <2>5
<1>21. CASE WriteGC("CU")
  <2>1. /\ pc'["cCU"] = "unlock" /\ pc["cCU"] = "toGC"
        /\ pc'["prod"] = pc["prod"] /\ pc'["cGC"] = pc["cGC"]
    BY <1>p, <1>21, SMT DEF WriteGC, Goto
  <2>2. /\ free' = free + Len(hand["CU"]) /\ hand'["GC"] = hand["GC"]
        /\ UNCHANGED <<ntemps, big, unmade, stale, failed, refused>>
    BY <1>r, <1>21, SMT DEF WriteGC, other, misses
  <2>3. ASSUME big PROVE Counting'
    <3>1. /\ Making' = Making /\ UnlinkedGC' = UnlinkedGC
          /\ UnlinkedCU = Len(hand["CU"]) /\ UnlinkedCU' = 0
      BY <1>r, <2>3, <2>1, <2>2, SMT DEF Making, UnlinkedGC, UnlinkedCU
    <3>2. Drift' = Drift
      BY <1>r, <1>s, <2>3, <2>1, <2>2, <3>1, SMT DEF Drift, TempsOut
    <3> QED
      BY <1>q, <2>3, <2>1, <2>2, <3>2, Zenon DEF Counting
  <2>4. ASSUME ~big PROVE Counting'
    BY <1>q, <1>r, <2>4, <2>1, <2>2, Zenon DEF Counting
  <2> QED
    BY <2>3, <2>4
<1>22. CASE WriteCU("CU")
  <2>1. /\ pc'["cCU"] = "unlock" /\ pc["cCU"] = "toCU"
        /\ pc'["prod"] = pc["prod"] /\ pc'["cGC"] = pc["cGC"]
    BY <1>p, <1>22, SMT DEF WriteCU, Goto
  <2>2. hand'["GC"] = hand["GC"] /\ UNCHANGED <<free, ntemps, big, unmade, stale, failed, refused>>
    BY <1>r, <1>22, SMT DEF WriteCU, other, misses
  <2>3. ASSUME big PROVE Counting'
    <3>1. /\ Making' = Making /\ UnlinkedGC' = UnlinkedGC
          /\ UnlinkedCU = 0 /\ UnlinkedCU' = 0
      BY <1>r, <2>3, <2>1, <2>2, SMT DEF Making, UnlinkedGC, UnlinkedCU
    <3>2. Drift' = Drift
      BY <1>r, <1>s, <2>3, <2>1, <2>2, <3>1, SMT DEF Drift, TempsOut
    <3> QED
      BY <1>q, <2>3, <2>1, <2>2, <3>2, Zenon DEF Counting
  <2>4. ASSUME ~big PROVE Counting'
    BY <1>q, <1>r, <2>4, <2>1, <2>2, Zenon DEF Counting
  <2> QED
    BY <2>3, <2>4
<1> QED
  BY <1>1, <1>2, <1>3, <1>4, <1>5, <1>6, <1>7, <1>8, <1>9, <1>10, <1>11, <1>12, <1>13,
     <1>14, <1>15, <1>16, <1>17, <1>18, <1>19, <1>20, <1>21, <1>22, <1>23, <1>24,
     StepKinds DEF
     MovingSteps, Stations

\* The invariant holds initially: all events are free and nobody is attached.
LEMMA InitInvariant == Init => IInv
<1> SUFFICES ASSUME Init PROVE IInv
  OBVIOUS
<1> USE NamesHold DEF Names
<1>1. /\ pc["prod"] = "out" /\ pc["eb"] = "down" /\ pc["heart"] = "watch"
      /\ pc["cGC"] = "wait" /\ pc["cCU"] = "wait"
  BY DEF Init
<1>2. /\ lock["station"] = "none" /\ lock["system"] = "none"
      /\ lock["GC"] = "none" /\ lock["CU"] = "none"
  BY DEF Init
<1>3. /\ hand["GC"] = <<>> /\ hand["CU"] = <<>>
      /\ listOut["GC"] = <<>> /\ listOut["CU"] = <<>>
      /\ ~temps["GC"] /\ ~temps["CU"]
  BY DEF Init
<1>4. Flags
  BY ETTransferAssumption DEF Init, Flags
<1>5. Values
  BY ETTransferAssumption, SMT DEF Init, Values
<1>6. Mutexes
  BY <1>1, <1>2, SMT DEF Mutexes, ProdHolds, EBHolds, HeartHolds, ConductorsHold,
     EBInStation, EBInSystem, Transferring
<1>7. Producing /\ Attachment /\ Owning /\ Flushing
  BY <1>1, ETTransferAssumption, SMT DEF Init, Producing, Attachment, Owning, Flushing
<1>8. Conducting
  BY <1>1, <1>3, Zenon DEF Conducting
<1>9. EventsConserved
  BY <1>3, ETTransferAssumption, SMT DEF Init, EventsConserved
<1>10. Counting
  <2>1. Making = 0 /\ UnlinkedGC = 0 /\ UnlinkedCU = 0
    BY <1>1, SMT DEF Making, UnlinkedGC, UnlinkedCU
  <2>2. Drift = 0 /\ ntemps = 0 /\ stale = 0 /\ failed = 0 /\ refused = 0
    BY <2>1, ETTransferAssumption, SMT DEF Init, Drift, TempsOut
  <2> QED
    BY <2>2, SMT DEF Counting
<1> QED
  BY <1>4, <1>5, <1>6, <1>7, <1>8, <1>9, <1>10, PlacesInit DEF IInv

\* Every step of every thread preserves it.
LEMMA NextInvariant == IInv /\ [Next]_vars => IInv'
<1> SUFFICES ASSUME IInv, [Next]_vars PROVE IInv'
  OBVIOUS
<1>1. (Places /\ Flags /\ Values /\ Mutexes)'
  BY PlacesNext, FlagsNext, ValuesNext, MutexesNext DEF IInv
<1>2. (Producing /\ Conducting /\ Attachment)'
  BY ProducingNext, ConductingNext, AttachmentNext DEF IInv
<1>3. (Owning /\ Flushing)'
  BY OwningNext, FlushingNext DEF IInv
<1>4. (EventsConserved /\ Counting)'
  BY ConservedNext, CountingNext DEF IInv
<1> QED
  BY <1>1, <1>2, <1>3, <1>4 DEF IInv

\* The inductive invariant of the ET transfer.
THEOREM Invariance == Spec => []IInv
  BY InitInvariant, NextInvariant, PTL DEF Spec

\* No event of the pool is ever lost or doubled, wherever the event builder is
\* killed in its ET calls.
THEOREM Conserved == Spec => []EventsConserved
<1>1. IInv => EventsConserved
  BY DEF IInv
<1> QED
  BY <1>1, Invariance, PTL

\* sys->ntemps is the number of events that have a temp file, and et_event_new is
\* never turned away for it, while every temp file can be made.  What each failing
\* et_temp_create adds to the count, and each event refused for it can take off,
\* is all it is ever off by, over detaches, kills, clean-ups and successive
\* minervadaqs.
THEOREM TempsCounted == Spec => []TempsAccounted
<1>1. IInv => TempsAccounted
  BY CountingBounds DEF IInv
<1> QED
  BY <1>1, Invariance, PTL

\* No event is left behind in the input list of an idle station: the detach and
\* the clean-up hold the transfer mutexes when they make it idle, so that no
\* conductor is on its way there, and flush what the list has.
THEOREM IdleEmpty == Spec => []IdleStationEmpty
<1>1. IInv => IdleStationEmpty
  BY DEF IInv, Flushing, IdleStationEmpty
<1> QED
  BY <1>1, Invariance, PTL

-----------------------------------------------------------------------------
(* The refinement of ETContract.                                           *)

\* What the contract calls the stream, in its three parts, and the event in use.
Waiting == IF status = "ACTIVE" THEN listIn ELSE <<>>
Carried == IF pc["cGC"] \in Carrying THEN hand["GC"] ELSE <<>>
Stream  == Waiting \o Carried \o listOut["GC"]
Using   == IF status = "ACTIVE" THEN owned ELSE <<>>
Attached == (status = "ACTIVE")

\* Each step of the contract, in the variables of ETTransfer.
LEMMA ContractSteps ==
  /\ (NEvents - filling - Len(Stream) - Len(Using) > 0 /\ filling' = filling + 1
        /\ UNCHANGED <<Stream, Using, Attached>>) => Contract!Next
  /\ (filling > 0 /\ filling' = filling - 1 /\ (\E m \in Msgs : Stream' = Append(Stream, m))
        /\ UNCHANGED <<Using, Attached>>) => Contract!Next
  /\ (filling > 0 /\ filling' = 0 /\ UNCHANGED <<Stream, Using, Attached>>)
        => Contract!Next
  /\ (~Attached /\ Attached' = TRUE /\ UNCHANGED <<filling, Stream, Using>>) => Contract!Next
  /\ (Attached /\ Stream # <<>> /\ Using = <<>> /\ Using' = <<Head(Stream)>>
        /\ Stream' = Tail(Stream) /\ UNCHANGED <<filling, Attached>>) => Contract!Next
  /\ (Using # <<>> /\ Using' = <<>> /\ UNCHANGED <<filling, Stream, Attached>>) => Contract!Next
  /\ \A k \in 0..Len(Stream) :
       (~Attached /\ Stream' = SubSeq(Stream, k + 1, Len(Stream))
          /\ UNCHANGED <<filling, Using, Attached>>) => Contract!Next
  /\ \A k \in 0..Len(Stream) :
       (Attached /\ Attached' = FALSE /\ Using' = <<>>
          /\ Stream' = SubSeq(Stream, k + 1, Len(Stream)) /\ UNCHANGED filling) => Contract!Next
  /\ UNCHANGED <<filling, Stream, Using, Attached>> => UNCHANGED Contract!cVars
BY Zenon DEF Contract!Next, Contract!New, Contract!Put, Contract!GiveUp, Contract!Attach,
   Contract!Get, Contract!Return, Contract!Drop, Contract!Detach, Contract!Free,
   Contract!cVars, Stream, Using, Attached, Waiting, Carried, Carrying

\* Where a list is joined to another, its front and its end stay apart.
LEMMA DropFront ==
  ASSUME NEW a \in Seq(Nat), NEW b \in Seq(Nat)
  PROVE  /\ Len(a) \in 0..Len(a \o b)
         /\ SubSeq(a \o b, Len(a) + 1, Len(a \o b)) = b
<1> DEFINE r == SubSeq(a \o b, Len(a) + 1, Len(a \o b))
<1>1. a \o b \in Seq(Nat) /\ Len(a \o b) = Len(a) + Len(b) /\ Len(a) \in Nat /\ Len(b) \in Nat
  BY ConcatProperties, LenProperties
<1>2. \A i \in 1..Len(b) : (a \o b)[Len(a) + i] = b[i]
  <2> TAKE i \in 1..Len(b)
  <2>1. Len(a) + i \in 1..(Len(a) + Len(b)) /\ ~(Len(a) + i <= Len(a)) /\ (Len(a) + i) - Len(a) = i
    BY <1>1, SMT
  <2> QED
    BY <2>1, ConcatProperties
<1>3. \A i \in (Len(a) + 1)..Len(a \o b) : (a \o b)[i] \in Nat
  BY <1>1, ElementOfSeq, SMT
<1>4. /\ r \in Seq(Nat)
      /\ Len(r) = IF Len(a) + 1 <= Len(a \o b) THEN Len(a \o b) - (Len(a) + 1) + 1 ELSE 0
      /\ \A i \in 1..(Len(a \o b) - (Len(a) + 1) + 1) : r[i] = (a \o b)[Len(a) + 1 + i - 1]
  <2> DEFINE m == Len(a) + 1
             n == Len(a \o b)
             s == a \o b
  <2>1. m \in Int /\ n \in Int /\ \A i \in m..n : s[i] \in Nat
    BY <1>1, <1>3
  <2> HIDE DEF m, n, s
  <2>2. /\ SubSeq(s, m, n) \in Seq(Nat)
        /\ Len(SubSeq(s, m, n)) = IF m <= n THEN n - m + 1 ELSE 0
        /\ \A i \in 1..(n - m + 1) : SubSeq(s, m, n)[i] = s[m + i - 1]
    BY <2>1, SubSeqProperties
  <2> QED
    BY <2>2 DEF m, n, s
<1> HIDE DEF r
<1>5. Len(r) = Len(b)
  BY <1>1, <1>4, SMT
<1>6. \A i \in 1..Len(r) : r[i] = b[i]
  <2> TAKE i \in 1..Len(r)
  <2>1. i \in 1..(Len(a \o b) - (Len(a) + 1) + 1) /\ Len(a) + 1 + i - 1 = Len(a) + i /\ i \in 1..Len(b)
    BY <1>1, <1>5, SMT
  <2>2. r[i] = (a \o b)[Len(a) + i]
    BY <1>4, <2>1
  <2> QED
    BY <1>2, <2>1, <2>2
<1>7. r = b
  BY <1>4, <1>5, <1>6, SeqEqual
<1> QED
  BY <1>1, <1>7, SMT DEF r

\* The head and the tail of what is waiting, when other events follow.
LEMMA HeadTailConcat ==
  ASSUME NEW a \in Seq(Nat), NEW b \in Seq(Nat), a # <<>>
  PROVE  a \o b # <<>> /\ Head(a \o b) = Head(a) /\ Tail(a \o b) = Tail(a) \o b
<1>1. /\ Len(a) \in Nat \ {0} /\ Len(b) \in Nat
      /\ a \o b \in Seq(Nat) /\ Len(a \o b) = Len(a) + Len(b)
  BY EmptySeq, ConcatProperties, LenProperties
<1>2. a \o b # <<>>
  BY <1>1, ConcatEqualIffEmpty
<1>3. Head(a \o b) = Head(a)
  <2>1. (a \o b)[1] = a[1]
    BY <1>1, ConcatProperties
  <2> QED
    BY <2>1 DEF Head
<1>4. /\ Tail(a) \in Seq(Nat) /\ Len(Tail(a)) = Len(a) - 1
      /\ \A i \in 1..Len(Tail(a)) : Tail(a)[i] = a[i + 1]
  BY HeadTailProperties
<1>5. /\ Tail(a \o b) \in Seq(Nat) /\ Len(Tail(a \o b)) = Len(a \o b) - 1
      /\ \A i \in 1..Len(Tail(a \o b)) : Tail(a \o b)[i] = (a \o b)[i + 1]
  BY <1>1, <1>2, HeadTailProperties
<1>6. /\ Tail(a) \o b \in Seq(Nat) /\ Len(Tail(a) \o b) = Len(a) - 1 + Len(b)
  BY <1>4, ConcatProperties
<1>7. Len(Tail(a \o b)) = Len(Tail(a) \o b)
  BY <1>1, <1>5, <1>6
<1>8. \A i \in 1..Len(Tail(a \o b)) : Tail(a \o b)[i] = (Tail(a) \o b)[i]
  <2> TAKE i \in 1..Len(Tail(a \o b))
  <2>1. Tail(a \o b)[i] = (a \o b)[i + 1] /\ i + 1 \in 1..(Len(a) + Len(b)) /\ i \in Nat
    BY <1>1, <1>5
  <2>2. (a \o b)[i + 1] = IF i + 1 <= Len(a) THEN a[i + 1] ELSE b[i + 1 - Len(a)]
    BY <2>1, ConcatProperties
  <2>3. i \in 1..(Len(Tail(a)) + Len(b))
    BY <1>1, <1>4, <1>5
  <2>4. (Tail(a) \o b)[i] = IF i <= Len(Tail(a)) THEN Tail(a)[i] ELSE b[i - Len(Tail(a))]
    BY <1>4, <2>3, ConcatProperties
  <2>5. CASE i + 1 <= Len(a)
    <3>1. i \in 1..Len(Tail(a)) /\ i <= Len(Tail(a))
      BY <1>1, <1>4, <2>3, <2>5
    <3> QED
      BY <1>4, <2>1, <2>2, <2>4, <2>5, <3>1
  <2>6. CASE ~(i + 1 <= Len(a))
    <3>1. ~(i <= Len(Tail(a))) /\ i + 1 - Len(a) = i - Len(Tail(a))
      BY <1>1, <1>4, <2>3, <2>6
    <3> QED
      BY <2>1, <2>2, <2>4, <2>6, <3>1
  <2> QED
    BY <2>5, <2>6
<1>9. Tail(a \o b) = Tail(a) \o b
  BY <1>5, <1>6, <1>7, <1>8, SeqEqual
<1> QED
  BY <1>2, <1>3, <1>9

\* An event appended to a list is appended to what follows from it.
LEMMA AppendConcat ==
  ASSUME NEW a \in Seq(Nat), NEW b \in Seq(Nat), NEW m \in Nat
  PROVE  a \o Append(b, m) = Append(a \o b, m)
<1>1. Append(b, m) = b \o <<m>> /\ Append(a \o b, m) = (a \o b) \o <<m>>
  BY AppendIsConcat, ConcatProperties
<1>2. <<m>> \in Seq(Nat)
  OBVIOUS
<1> QED
  BY <1>1, <1>2, ConcatAssociative

\* Lists behind lists behind lists.
LEMMA Associative ==
  ASSUME NEW a \in Seq(Nat), NEW b \in Seq(Nat), NEW c \in Seq(Nat)
  PROVE  (a \o b) \o c = a \o (b \o c)
  BY ConcatAssociative, SMTT(30)

\* A step that leaves the stream, the event in use and the attachment alone, or
\* that only returns the event in use.
LEMMA Stutter ==
  UNCHANGED <<filling, status, Waiting, Carried, Using>> /\ listOut'["GC"] = listOut["GC"]
    => UNCHANGED Contract!cVars
<1> SUFFICES ASSUME UNCHANGED <<filling, status, Waiting, Carried, Using>>,
                    listOut'["GC"] = listOut["GC"]
             PROVE  UNCHANGED Contract!cVars
  OBVIOUS
<1>1. UNCHANGED <<filling, Stream, Using, Attached>>
  BY Zenon DEF Stream, Attached
<1> QED
  BY <1>1, ContractSteps, Zenon

\* Events taken off a user go back to the pool of the contract, or nothing
\* happens to it.
LEMMA ReturnOrStutter ==
  /\ UNCHANGED <<filling, status, Waiting, Carried>>
  /\ listOut'["GC"] = listOut["GC"]
  /\ Using' = <<>>
  => [Contract!Next]_(Contract!cVars)
<1> SUFFICES ASSUME UNCHANGED <<filling, status, Waiting, Carried>>,
                    listOut'["GC"] = listOut["GC"], Using' = <<>>
             PROVE  [Contract!Next]_(Contract!cVars)
  OBVIOUS
<1>1. UNCHANGED <<filling, Stream, Attached>>
  BY Zenon DEF Stream, Attached
<1>2. CASE Using = <<>>
  BY <1>1, <1>2, ContractSteps, Zenon
<1>3. CASE Using # <<>>
  BY <1>1, <1>3, ContractSteps, Zenon
<1> QED
  BY <1>2, <1>3

\* Every step of the threads is a step of the contract, or invisible to it.
LEMMA StepRefines ==
  IInv /\ [Next]_vars => [Contract!Next]_(Contract!cVars)
<1> SUFFICES ASSUME IInv, [Next]_vars PROVE [Contract!Next]_(Contract!cVars)
  OBVIOUS
<1> USE NamesHold DEF Names
<1>0. /\ pc \in [Threads -> Place] /\ pc["cCU"] # "toCU"
      /\ free \in Int /\ filling \in Int /\ sent \in Nat
      /\ listIn \in Seq(Nat) /\ owned \in Seq(Nat)
      /\ listOut \in [Stations -> Seq(Nat)] /\ hand \in [Stations -> Seq(Nat)]
      /\ listOut["GC"] \in Seq(Nat) /\ listOut["CU"] \in Seq(Nat)
      /\ hand["GC"] \in Seq(Nat) /\ hand["CU"] \in Seq(Nat)
      /\ status \in {"IDLE", "ACTIVE"}
  BY DEF IInv, Places, Values
<1>c. Waiting \in Seq(Nat) /\ Carried \in Seq(Nat) /\ Using \in Seq(Nat)
      /\ Waiting \o Carried \in Seq(Nat) /\ NEvents \in Nat /\ EventsConserved
  BY <1>0, ETTransferAssumption, SMT DEF IInv, Waiting, Carried, Using
<1>g. /\ listIn \in Seq(Nat) /\ Carried \in Seq(Nat) /\ listOut["GC"] \in Seq(Nat)
      /\ Waiting \o Carried \in Seq(Nat)
  BY <1>0, <1>c
<1>h. \/ Still \/ ProdNew \/ ProdMake \/ ProdMakeFails \/ ProdMakeTooMany
      \/ ProdPut \/ ProdDetached
      \/ EBActivate \/ EBGet \/ EBPut \/ EBIdle \/ EBFlushRead \/ EBRestore \/ HeartDetach
      \/ Take("GC") \/ Route("GC") \/ UnlinkTemps("GC") \/ WriteGC("GC") \/ WriteCU("GC")
      \/ Take("CU") \/ Route("CU") \/ UnlinkTemps("CU") \/ WriteGC("CU") \/ WriteCU("CU")
  BY StepKinds DEF IInv, MovingSteps, Stations
<1>d. /\ Len(Stream) = Len(Waiting) + Len(Carried) + Len(listOut["GC"])
      /\ Len(Waiting) \in 0..Len(listIn) /\ Len(Carried) \in 0..Len(hand["GC"])
      /\ Len(Using) \in 0..Len(owned)
  <2>1. Len(Waiting) \in 0..Len(listIn)
    BY <1>0, SMT DEF Waiting
  <2>2. Len(Carried) \in 0..Len(hand["GC"])
    BY <1>0, SMT DEF Carried
  <2>3. Len(Using) \in 0..Len(owned)
    BY <1>0, SMT DEF Using
  <2>4. Len(Stream) = Len(Waiting) + Len(Carried) + Len(listOut["GC"])
    BY <1>0, <1>c, ConcatProperties DEF Stream
  <2> QED
    BY <2>1, <2>2, <2>3, <2>4
<1>e. filling \in Nat /\ (pc["prod"] = "full" => filling > 0 /\ sent < MaxMsgs)
  BY SMT DEF IInv, Producing, Values
<1>f. Attachment /\ Owning /\ Flushing
  BY DEF IInv
<1>1. CASE Still
  <2>1. /\ UNCHANGED <<filling, status, Waiting, Carried, Using>>
        /\ listOut'["GC"] = listOut["GC"]
    BY <1>1, Zenon DEF Still, lists, Waiting, Carried, Carrying, Using
  <2> QED
    BY <2>1, Stutter
<1>2. CASE ProdNew
  <2>1. /\ UNCHANGED <<status, Waiting, Carried, Using>> /\ listOut'["GC"] = listOut["GC"]
        /\ filling' = filling + 1 /\ free > 0
    BY <1>0, <1>2, SMT DEF ProdNew, Goto, atts, Waiting, Carried, Carrying, Using
  <2>2. NEvents - filling - Len(Stream) - Len(Using) > 0
    BY <1>0, <1>c, <1>d, <2>1, SMT DEF EventsConserved
  <2> QED
    BY <2>1, <2>2, ContractSteps, Zenon DEF Stream, Attached
<1>3. CASE ProdMake
  <2>1. /\ UNCHANGED <<filling, status, Waiting, Carried, Using>>
        /\ listOut'["GC"] = listOut["GC"]
    BY <1>0, <1>3, SMT DEF ProdMake, Goto, atts, lists, Waiting, Carried, Carrying, Using
  <2> QED
    BY <2>1, Stutter
<1>23. CASE ProdMakeFails
  <2>1. /\ UNCHANGED <<filling, status, Waiting, Carried, Using>>
        /\ listOut'["GC"] = listOut["GC"]
    BY <1>0, <1>23, SMT DEF ProdMakeFails, Unmade, Goto, atts, lists, Waiting, Carried, Carrying,
       Using
  <2> QED
    BY <2>1, Stutter
<1>24. CASE ProdMakeTooMany
  <2>1. /\ UNCHANGED <<filling, status, Waiting, Carried, Using>>
        /\ listOut'["GC"] = listOut["GC"]
    BY <1>0, <1>24, SMT DEF ProdMakeTooMany, Unmade, Goto, atts, lists, Waiting, Carried, Carrying,
       Using
  <2> QED
    BY <2>1, Stutter
<1>4. CASE ProdPut
  <2>1. /\ UNCHANGED <<status, Waiting, Carried, Using>>
        /\ listOut'["GC"] = Append(listOut["GC"], sent + 1)
    BY <1>0, <1>4, SMT DEF ProdPut, Goto, atts, Waiting, Carried, Carrying, Using
  <2>2. filling > 0 /\ filling' = filling - 1 /\ sent + 1 \in Msgs /\ sent + 1 \in Nat
    BY <1>0, <1>e, <1>4, ETTransferAssumption, SMT DEF ProdPut, Goto, Msgs
  <2>3. Stream' = Append(Stream, sent + 1)
    <3>1. Stream' = (Waiting \o Carried) \o Append(listOut["GC"], sent + 1)
      BY <2>1, Zenon DEF Stream
    <3>2. (Waiting \o Carried) \o Append(listOut["GC"], sent + 1)
            = Append((Waiting \o Carried) \o listOut["GC"], sent + 1)
      BY <1>g, <2>2, AppendConcat
    <3> QED
      BY <3>1, <3>2, Zenon DEF Stream
  <2> QED
    BY <2>1, <2>2, <2>3, ContractSteps, Zenon DEF Attached
<1>5. CASE ProdDetached
  <2>1. /\ UNCHANGED <<status, Waiting, Carried, Using>> /\ listOut'["GC"] = listOut["GC"]
    BY <1>0, <1>5, SMT DEF ProdDetached, Goto, Unlock, atts, Waiting, Carried, Carrying, Using
  <2>2. filling' = 0
    BY <1>5 DEF ProdDetached
  <2>3. CASE filling = 0
    BY <2>1, <2>2, <2>3, Stutter
  <2>4. CASE filling > 0
    BY <2>1, <2>2, <2>4, ContractSteps, Zenon DEF Stream, Attached
  <2> QED
    BY <1>e, <2>3, <2>4
<1>6. CASE EBActivate
  <2>1. /\ UNCHANGED <<filling, Carried>> /\ listOut'["GC"] = listOut["GC"]
        /\ status' = "ACTIVE" /\ UNCHANGED <<listIn, owned>>
    BY <1>0, <1>6, SMT DEF EBActivate, Goto, Unlock, lists, Carried, Carrying
  <2>2. CASE status = "ACTIVE"
    BY <2>1, <2>2, Stutter, Zenon DEF Waiting, Using
  <2>3. CASE status = "IDLE"
    <3>1. listIn = <<>> /\ owned = <<>>
      BY <1>f, <2>3, <1>6, SMT DEF EBActivate, Goto, Owning, Flushing
    <3>2. UNCHANGED <<Waiting, Using>> /\ ~Attached /\ Attached' = TRUE
      BY <2>1, <2>3, <3>1, SMT DEF Waiting, Using, Attached
    <3> QED
      BY <2>1, <3>2, ContractSteps, Zenon DEF Stream
  <2> QED
    BY <1>0, <2>2, <2>3
<1>7. CASE EBGet
  <2>1. /\ UNCHANGED <<filling, Carried, status>> /\ listOut'["GC"] = listOut["GC"]
        /\ owned' = <<Head(listIn)>> /\ listIn' = Tail(listIn) /\ listIn # <<>>
    BY <1>0, <1>7, SMT DEF EBGet, Goto, atts, Carried, Carrying
  <2>2. status = "ACTIVE" /\ owned = <<>>
    BY <1>f, <1>7, SMT DEF EBGet, Goto, Owning, Attachment
  <2>3. /\ Waiting = listIn /\ Waiting' = Tail(listIn)
        /\ Using = <<>> /\ Using' = <<Head(listIn)>> /\ Attached
    BY <2>1, <2>2 DEF Waiting, Using, Attached
  <2>4. Tail(listIn) \in Seq(Nat) /\ Carried \o listOut["GC"] \in Seq(Nat)
    BY <1>0, <1>c, <2>1, HeadTailProperties, ConcatProperties
  <2>5. Stream = listIn \o (Carried \o listOut["GC"])
    BY <1>g, <2>3, Associative, ZenonT(60) DEF Stream
  <2>6. Stream' = Tail(listIn) \o (Carried \o listOut["GC"])
    <3>1. Stream' = Tail(listIn) \o Carried \o listOut["GC"]
      BY <2>1, <2>3 DEF Stream
    <3> QED
      BY <1>g, <2>4, <3>1, Associative, ZenonT(60)
  <2>7. Stream # <<>> /\ Head(Stream) = Head(listIn) /\ Tail(Stream) = Stream'
    BY <1>0, <2>1, <2>4, <2>5, <2>6, HeadTailConcat
  <2>8. UNCHANGED Attached
    BY <2>1 DEF Attached
  <2> QED
    BY <2>1, <2>3, <2>7, <2>8, ContractSteps, Zenon
<1>8. CASE EBPut
  <2>1. /\ UNCHANGED <<filling, status, Waiting, Carried>> /\ listOut'["GC"] = listOut["GC"]
    BY <1>0, <1>8, SMT DEF EBPut, Goto, atts, Waiting, Carried, Carrying, Using
  <2>2. Using' = <<>>
    BY <1>0, <1>8, SMT DEF EBPut, Goto, atts, Using
  <2> QED
    BY <2>1, <2>2, ReturnOrStutter
<1>9. CASE EBIdle
  <2>1. /\ UNCHANGED <<filling, Carried>> /\ listOut'["GC"] = listOut["GC"]
        /\ status' = "IDLE" /\ status = "ACTIVE"
    BY <1>0, <1>f, <1>9, SMT DEF EBIdle, Goto, Unlock, lists, Carried, Carrying, Attachment
  <2>2. Waiting = listIn /\ Waiting' = <<>> /\ Using' = <<>> /\ Attached /\ Attached' = FALSE
    BY <2>1, SMT DEF Waiting, Using, Attached
  <2>3. Stream = listIn \o (Carried \o listOut["GC"])
    BY <1>g, <2>2, Associative, ZenonT(60) DEF Stream
  <2>4. Stream' = Carried \o listOut["GC"]
    BY <1>0, <1>c, <2>1, <2>2, ConcatEmptySeq DEF Stream
  <2>5. Len(listIn) \in 0..Len(Stream) /\ Stream' = SubSeq(Stream, Len(listIn) + 1, Len(Stream))
    BY <1>0, <1>c, <2>3, <2>4, DropFront, ConcatProperties
  <2> QED
    BY <2>1, <2>2, <2>5, ContractSteps, Zenon
<1>10. CASE EBFlushRead
  <2>1. status = "IDLE"
    BY <1>f, <1>10 DEF EBFlushRead, Goto, Attachment
  <2>2. /\ UNCHANGED <<filling, status, Waiting, Carried, Using>>
        /\ listOut'["GC"] = listOut["GC"]
    BY <1>0, <2>1, <1>10, SMT DEF EBFlushRead, Goto, atts, Waiting, Carried, Carrying, Using
  <2> QED
    BY <2>2, Stutter
<1>11. CASE EBRestore
  <2>1. /\ UNCHANGED <<filling, status, Waiting, Carried>> /\ listOut'["GC"] = listOut["GC"]
    BY <1>0, <1>11, SMT DEF EBRestore, Goto, atts, Waiting, Carried, Carrying, Using
  <2>2. Using' = <<>>
    BY <1>0, <1>11, SMT DEF EBRestore, Goto, atts, Using
  <2> QED
    BY <2>1, <2>2, ReturnOrStutter
<1>12. CASE HeartDetach
  <2>0. UNCHANGED Carried
    BY <1>0, <1>12, SMT DEF HeartDetach, Goto, Carried, Carrying
  <2>1. CASE ~ofProc /\ UNCHANGED <<lock, lists, atts, other>>
    <3>1. /\ UNCHANGED <<filling, status, Waiting, Carried, Using>>
          /\ listOut'["GC"] = listOut["GC"]
      BY <2>0, <2>1, Zenon DEF lists, atts, Waiting, Using
    <3> QED
      BY <3>1, Stutter
  <2>2. CASE CleansOther
    <3>1. UNCHANGED <<filling, status, Waiting, Carried>> /\ listOut'["GC"] = listOut["GC"]
      BY <1>0, <2>0, <2>2, SMT DEF CleansOther, Waiting
    <3>2. Using' = <<>>
      BY <2>2 DEF CleansOther, Using
    <3> QED
      BY <3>1, <3>2, ReturnOrStutter
  <2>3. CASE CleansLast
    <3>0. /\ UNCHANGED <<filling, Carried>> /\ listOut'["GC"] = listOut["GC"]
          /\ status' = "IDLE"
      <4>1. listOut' = [listOut EXCEPT !["CU"] = listOut["CU"] \o (owned \o listIn)]
        BY <2>3 DEF CleansLast
      <4>2. listOut'["GC"] = listOut["GC"]
        BY <1>0, <4>1, Zenon DEF Stations
      <4> QED
        BY <2>0, <2>3, <4>2 DEF CleansLast
    <3>a. CASE status = "IDLE"
      BY <3>0, <3>a, Stutter DEF Waiting, Using
    <3>b. CASE status = "ACTIVE"
      <4>1. /\ UNCHANGED <<filling, Carried>> /\ listOut'["GC"] = listOut["GC"]
            /\ status' = "IDLE" /\ status = "ACTIVE"
        BY <3>0, <3>b
      <4>2. Waiting = listIn /\ Waiting' = <<>> /\ Using' = <<>> /\ Attached /\ Attached' = FALSE
        BY <4>1, SMT DEF Waiting, Using, Attached
      <4>3. Stream = listIn \o (Carried \o listOut["GC"])
        BY <1>g, <4>2, Associative DEF Stream
      <4>4. Stream' = Carried \o listOut["GC"]
        BY <1>0, <1>c, <4>1, <4>2, ConcatEmptySeq DEF Stream
      <4>5. /\ Len(listIn) \in 0..Len(Stream)
            /\ Stream' = SubSeq(Stream, Len(listIn) + 1, Len(Stream))
        BY <1>0, <1>c, <4>3, <4>4, DropFront, ConcatProperties
      <4> QED
        BY <4>1, <4>2, <4>5, ContractSteps, Zenon
    <3> QED
      BY <1>0, <3>a, <3>b
  <2> QED
    BY <2>1, <2>2, <2>3, <1>12, HeartDetachCases, Zenon
<1>13. CASE Take("GC")
  <2>1. /\ UNCHANGED <<filling, status, Waiting, Using>>
        /\ Carried = <<>> /\ Carried' = listOut["GC"] /\ listOut'["GC"] = <<>>
    BY <1>0, <1>13, SMT DEF Take, Goto, atts, Waiting, Carried, Carrying, Using
  <2>2. Stream = Waiting \o listOut["GC"] /\ Waiting \o listOut["GC"] \in Seq(Nat)
    BY <1>0, <1>c, <2>1, ConcatEmptySeq, ConcatProperties DEF Stream
  <2>3. Stream' = Waiting \o listOut["GC"]
    BY <2>1, <2>2, ConcatEmptySeq DEF Stream
  <2> QED
    BY <2>1, <2>2, <2>3, ContractSteps, Zenon DEF Attached
<1>14. CASE Route("GC")
  <2>1. /\ UNCHANGED <<filling, status, Waiting, Using>> /\ listOut'["GC"] = listOut["GC"]
        /\ pc["cGC"] = "route" /\ UNCHANGED hand
    BY <1>0, <1>14, SMT DEF Route, Goto, atts, lists, Waiting, Using
  <2>2. CASE status = "ACTIVE"
    <3>1. pc'["cGC"] = "toCU"
      BY <1>0, <2>2, <1>14, SMT DEF Route, Goto
    <3>2. UNCHANGED Carried
      BY <2>1, <3>1, SMT DEF Carried, Carrying
    <3> QED
      BY <2>1, <3>2, Stutter
  <2>3. CASE status # "ACTIVE"
    <3>1. pc'["cGC"] \in {"unlink", "toGC"}
      BY <1>0, <2>3, <1>14, SMT DEF Route, Goto
    <3>2. Waiting = <<>> /\ Carried = hand["GC"] /\ Carried' = <<>> /\ ~Attached
      BY <2>1, <2>3, <3>1, SMT DEF Waiting, Carried, Carrying, Attached
    <3>3. Stream = hand["GC"] \o listOut["GC"]
      BY <1>0, <3>2, ConcatEmptySeq DEF Stream
    <3>4. Stream' = listOut["GC"]
      BY <1>0, <2>1, <3>2, ConcatEmptySeq, EmptySeq DEF Stream
    <3>5. /\ Len(hand["GC"]) \in 0..Len(Stream)
          /\ Stream' = SubSeq(Stream, Len(hand["GC"]) + 1, Len(Stream))
      BY <1>0, <3>3, <3>4, DropFront
    <3> QED
      BY <2>1, <3>2, <3>5, ContractSteps, Zenon DEF Attached
  <2> QED
    BY <2>2, <2>3
<1>15. CASE UnlinkTemps("GC")
  <2>1. /\ UNCHANGED <<filling, status, Waiting, Carried, Using>>
        /\ listOut'["GC"] = listOut["GC"]
    BY <1>0, <1>15, SMT DEF UnlinkTemps, Goto, atts, lists, Waiting, Carried, Carrying, Using
  <2> QED
    BY <2>1, Stutter
<1>16. CASE WriteGC("GC")
  <2>1. /\ UNCHANGED <<filling, status, Waiting, Carried, Using>>
        /\ listOut'["GC"] = listOut["GC"]
    BY <1>0, <1>16, SMT DEF WriteGC, Goto, atts, lists, Waiting, Carried, Carrying, Using
  <2> QED
    BY <2>1, Stutter
<1>17. CASE WriteCU("GC")
  <2>1. /\ UNCHANGED <<filling, status, Using>> /\ listOut'["GC"] = listOut["GC"]
        /\ pc["cGC"] = "toCU" /\ pc'["cGC"] = "unlock" /\ listIn' = listIn \o hand["GC"]
    BY <1>0, <1>17, SMT DEF WriteCU, Goto, atts, Using
  <2>2. status = "ACTIVE"
    BY <1>f, <2>1 DEF Flushing
  <2>3. /\ Waiting = listIn /\ Carried = hand["GC"]
        /\ Waiting' = listIn \o hand["GC"] /\ Carried' = <<>>
    BY <2>1, <2>2, SMT DEF Waiting, Carried, Carrying
  <2>4. Stream' = Stream
    BY <1>0, <2>1, <2>3, ConcatEmptySeq, ConcatProperties DEF Stream
  <2> QED
    BY <2>1, <2>4, ContractSteps, Zenon DEF Attached
<1>18. CASE Take("CU")
  <2>1. /\ UNCHANGED <<filling, status, Waiting, Carried, Using>>
        /\ listOut'["GC"] = listOut["GC"]
    BY <1>0, <1>18, SMT DEF Take, Goto, atts, lists, Waiting, Carried, Carrying, Using
  <2> QED
    BY <2>1, Stutter
<1>19. CASE Route("CU")
  <2>1. /\ UNCHANGED <<filling, status, Waiting, Carried, Using>>
        /\ listOut'["GC"] = listOut["GC"]
    BY <1>0, <1>19, SMT DEF Route, Goto, atts, lists, Waiting, Carried, Carrying, Using
  <2> QED
    BY <2>1, Stutter
<1>20. CASE UnlinkTemps("CU")
  <2>1. /\ UNCHANGED <<filling, status, Waiting, Carried, Using>>
        /\ listOut'["GC"] = listOut["GC"]
    BY <1>0, <1>20, SMT DEF UnlinkTemps, Goto, atts, lists, Waiting, Carried, Carrying, Using
  <2> QED
    BY <2>1, Stutter
<1>21. CASE WriteGC("CU")
  <2>1. /\ UNCHANGED <<filling, status, Waiting, Carried, Using>>
        /\ listOut'["GC"] = listOut["GC"]
    BY <1>0, <1>21, SMT DEF WriteGC, Goto, atts, lists, Waiting, Carried, Carrying, Using
  <2> QED
    BY <2>1, Stutter
<1>22. CASE WriteCU("CU")
  <2>1. /\ UNCHANGED <<filling, status, Waiting, Carried, Using>>
        /\ listOut'["GC"] = listOut["GC"]
    BY <1>0, <1>22, SMT DEF WriteCU, Goto, atts, lists, Waiting, Carried, Carrying, Using
  <2> QED
    BY <2>1, Stutter
<1> QED
  BY <1>1, <1>2, <1>3, <1>4, <1>5, <1>6, <1>7, <1>8, <1>9, <1>10, <1>11, <1>12, <1>13,
     <1>14, <1>15, <1>16, <1>17, <1>18, <1>19, <1>20, <1>21, <1>22, <1>23, <1>24, <1>h

\* The initial state is the contract's.
LEMMA InitRefines == Init => Contract!Init
<1> SUFFICES ASSUME Init PROVE Contract!Init
  OBVIOUS
<1>1. Waiting = <<>> /\ Carried = <<>> /\ listOut["GC"] = <<>> /\ Using = <<>>
  BY NamesHold DEF Names, Init, Waiting, Carried, Using, Carrying
<1>2. Stream = <<>>
  BY <1>1, ConcatEmptySeq, EmptySeq DEF Stream
<1>3. filling = 0 /\ Attached = FALSE
  BY DEF Init, Attached
<1> QED
  BY <1>1, <1>2, <1>3, Zenon DEF Contract!Init, Stream, Using, Attached, Waiting, Carried,
     Carrying

\* The lists, conductors, mutexes and the clean-up after a killed event builder
\* implement the contract: a first-in first-out stream to the attached user and
\* a pool that gets back what a user leaves behind, wherever it is killed.
THEOREM Refinement == Spec => ImplementsContract
<1>1. Spec => Init /\ [][Next]_vars
  BY Zenon DEF Spec
<1>2. Spec => Contract!Init /\ [][Contract!Next]_(Contract!cVars)
  BY <1>1, InitRefines, StepRefines, Invariance, PTL
<1> QED
  BY <1>2 DEF ImplementsContract, Contract!Spec

-----------------------------------------------------------------------------
(* An event builder that is not killed in one of the Windows.              *)

\* What the station and the process record of the attachment, from where the
\* event builder is.  One that was killed is recorded by its station and its
\* process, or by neither once the clean-up has looked.
Recorded ==
  /\ pc["eb"] \in {"down", "attach", "attSystem", "detEnd", "close", "closing"}
       => natt = 0 /\ ~listed /\ ~known /\ ~ofProc /\ status = "IDLE"
  /\ pc["eb"] \in {"attKnown", "attCount"}
       => natt = 0 /\ ~listed /\ known /\ ofProc /\ status = "IDLE"
  /\ pc["eb"] = "attActive" => natt = 1 /\ listed /\ known /\ ofProc /\ status = "IDLE"
  /\ pc["eb"] \in {"loop", "got", "detach", "detSystem"}
       => natt = 1 /\ listed /\ known /\ ofProc /\ status = "ACTIVE"
  /\ pc["eb"] \in {"detGC", "detCU", "idle"}
       => natt = 1 /\ listed /\ ~known /\ ofProc /\ status = "ACTIVE"
  /\ pc["eb"] \in {"flush", "restore", "detCount"}
       => natt = 1 /\ listed /\ ~known /\ ofProc /\ status = "IDLE"
  /\ pc["eb"] \in {"detUnlock", "detProc"}
       => natt = 0 /\ ~listed /\ ~known /\ ofProc /\ status = "IDLE"
  /\ pc["eb"] = "dead" =>
       \/ /\ natt = 0 /\ ~listed /\ status = "IDLE"
          /\ known <=> ofProc
          /\ pc["heart"] \in {"detach", "unlock"} => ~known
       \/ /\ natt = 1 /\ listed /\ ofProc /\ (known => status = "ACTIVE")
          /\ pc["heart"] # "unlock"

\* Only a dead event builder holds a mutex it is not working under.
Releases ==
  /\ lock["station"] = "eb" => pc["eb"] \in EBInStation \cup {"dead"}
  /\ lock["system"] = "eb" => pc["eb"] \in EBInSystem \cup {"dead"}

\* The records follow the event builder, and the clean-up erases them.
LEMMA RecordedNext ==
  ASSUME CrashAt \cap Windows = {}
  PROVE  Places /\ Flags /\ Values /\ Mutexes /\ Recorded /\ [Next]_vars => Recorded'
<1> SUFFICES ASSUME Places, Flags, Values, Mutexes, Recorded, [Next]_vars
             PROVE  Recorded'
  OBVIOUS
<1> USE NamesHold DEF Names, Recorded, atts
<1>0. /\ pc \in [Threads -> Place] /\ pc["eb"] \in EBPlaces
      /\ natt \in Int
      /\ pc["heart"] # "watch" => pc["eb"] = "dead"
  BY DEF Places, Values, Mutexes, HeartHolds
<1>1. CASE ProdLockStation
  BY <1>0, <1>1, SMT DEF ProdLockStation, Goto, Lock
<1>2. CASE ProdLockSystem
  BY <1>0, <1>2, SMT DEF ProdLockSystem, Goto, Lock
<1>3. CASE ProdAttached
  BY <1>0, <1>3, SMT DEF ProdAttached, Goto, Unlock
<1>4. CASE ProdCallNew
  BY <1>0, <1>4, SMT DEF ProdCallNew, Goto
<1>5. CASE ProdNew
  BY <1>0, <1>5, SMT DEF ProdNew, Goto
<1>6. CASE ProdMake
  BY <1>0, <1>6, SMT DEF ProdMake, Goto
<1>7. CASE ProdPut
  BY <1>0, <1>7, SMT DEF ProdPut, Goto
<1>8. CASE ProdQuit
  BY <1>0, <1>8, SMT DEF ProdQuit, Goto
<1>9. CASE ProdDetached
  BY <1>0, <1>9, SMT DEF ProdDetached, Goto, Unlock
<1>10. CASE EBStart
  BY <1>0, <1>10, SMT DEF EBStart, Goto
<1>11. CASE EBLockStation
  BY <1>0, <1>11, SMT DEF EBLockStation, Goto, Lock
<1>12. CASE EBRegister
  BY <1>0, <1>12, SMT DEF EBRegister, Goto, Lock
<1>13. CASE EBUnlockSystem
  BY <1>0, <1>13, SMT DEF EBUnlockSystem, Goto, Unlock
<1>14. CASE EBCount
  BY <1>0, <1>14, SMT DEF EBCount, Goto
<1>15. CASE EBActivate
  BY <1>0, <1>15, SMT DEF EBActivate, Goto, Unlock
<1>16. CASE EBGet
  BY <1>0, <1>16, SMT DEF EBGet, Goto
<1>17. CASE EBPut
  BY <1>0, <1>17, SMT DEF EBPut, Goto
<1>18. CASE EBQuit
  BY <1>0, <1>18, SMT DEF EBQuit, Goto
<1>19. CASE EBDetStation
  BY <1>0, <1>19, SMT DEF EBDetStation, Goto, Lock
<1>20. CASE EBDetSystem
  BY <1>0, <1>20, SMT DEF EBDetSystem, Goto, Lock
<1>21. CASE EBDetTransfer
  BY <1>0, <1>21, SMT DEF EBDetTransfer, Goto, Lock
<1>22. CASE EBIdle
  BY <1>0, <1>22, SMT DEF EBIdle, Goto, Unlock
<1>23. CASE EBFlushRead
  BY <1>0, <1>23, SMT DEF EBFlushRead, Goto
<1>24. CASE EBRestore
  BY <1>0, <1>24, SMT DEF EBRestore, Goto
<1>25. CASE EBUncount
  BY <1>0, <1>25, SMT DEF EBUncount, Goto
<1>26. CASE EBDetUnlock
  BY <1>0, <1>26, SMT DEF EBDetUnlock, Goto, Unlock
<1>27. CASE EBDetProc
  BY <1>0, <1>27, SMT DEF EBDetProc, Goto
<1>28. CASE EBDetEnd
  BY <1>0, <1>28, SMT DEF EBDetEnd, Goto, Unlock
<1>29. CASE EBClose
  BY <1>0, <1>29, SMT DEF EBClose, Goto, Lock, Unlock
<1>30. CASE EBKilled
  <2>1. /\ pc["eb"] \in CrashAt /\ UNCHANGED <<natt, listed, known, ofProc, status>>
        /\ pc' = [pc EXCEPT !["eb"] = IF pc["eb"] = "closing" THEN "down" ELSE "dead"]
    BY <1>30 DEF EBKilled, atts
  <2>2. pc["eb"] \notin {"attActive", "detUnlock", "detProc", "closing"}
    BY <2>1 DEF Windows
  <2>3. pc'["eb"] = "dead" /\ pc'["heart"] = pc["heart"]
    BY <1>0, <2>1, <2>2, SMT
  <2>4. CASE pc["eb"] = "dead"
    BY <2>1, <2>3, <2>4, Zenon
  <2>5. CASE pc["eb"] # "dead"
    <3>1. pc["heart"] = "watch"
      BY <1>0, <2>5
    <3>2. \/ natt = 0 /\ ~listed /\ status = "IDLE" /\ (known <=> ofProc)
          \/ natt = 1 /\ listed /\ ofProc /\ (known => status = "ACTIVE")
      BY <1>0, <2>2, <2>5, SMT DEF EBPlaces
    <3> QED
      BY <2>1, <2>3, <3>1, <3>2, SMT
  <2> QED
    BY <2>4, <2>5
<1>31. CASE HeartFixMutexes
  BY <1>0, <1>31, SMT DEF HeartFixMutexes, Fix, Goto, Unlock
<1>32. CASE HeartLock
  BY <1>0, <1>32, SMT DEF HeartLock, Goto, Lock
<1>33. CASE HeartFixAttachments
  <2>1. /\ pc'["eb"] = "dead" /\ pc'["heart"] = "detach" /\ pc["heart"] = "system"
        /\ pc["eb"] = "dead"
    BY <1>0, <1>33, SMT DEF HeartFixAttachments, Goto
  <2>2. UNCHANGED <<natt, listed, status>>
    BY <1>33 DEF HeartFixAttachments
  <2>3. CASE natt = 0 /\ ~listed /\ status = "IDLE" /\ (known <=> ofProc)
    <3>1. ~known' /\ ~ofProc'
      BY <2>3, <1>33, Zenon DEF HeartFixAttachments
    <3> QED
      BY <2>1, <2>2, <2>3, <3>1, SMT
  <2>4. CASE natt = 1 /\ listed /\ ofProc /\ (known => status = "ACTIVE")
    <3>1. (known' => known) /\ ofProc'
      BY <2>4, <1>33, Zenon DEF HeartFixAttachments
    <3> QED
      BY <2>1, <2>2, <2>4, <3>1, SMT
  <2> QED
    BY <2>1, <2>3, <2>4, Zenon
<1>34. CASE HeartDetach
  <2>1. /\ pc'["eb"] = "dead" /\ pc'["heart"] = "unlock" /\ pc["heart"] = "detach"
        /\ pc["eb"] = "dead"
    BY <1>0, <1>34, SMT DEF HeartDetach, Goto
  <2>2. CASE ~ofProc /\ UNCHANGED <<lock, lists, atts, other>>
    BY <2>1, <2>2, SMT
  <2>3. CASE CleansLast
    BY <2>1, <2>3, SMT DEF CleansLast
  <2>4. CASE CleansOther
    BY <2>1, <2>4, SMT DEF CleansOther
  <2> QED
    BY <2>2, <2>3, <2>4, <1>34, HeartDetachCases, Zenon
<1>35. CASE HeartDone
  BY <1>0, <1>35, SMT DEF HeartDone, Unlock
<1>36. CASE Take("GC")
  BY <1>0, <1>36, SMT DEF Take, Goto
<1>37. CASE LockTransfer("GC")
  BY <1>0, <1>37, SMT DEF LockTransfer, Goto, Lock
<1>38. CASE Route("GC")
  BY <1>0, <1>38, SMT DEF Route, Goto
<1>39. CASE UnlinkTemps("GC")
  BY <1>0, <1>39, SMT DEF UnlinkTemps, Goto
<1>40. CASE WriteGC("GC")
  BY <1>0, <1>40, SMT DEF WriteGC, Goto
<1>41. CASE WriteCU("GC")
  BY <1>0, <1>41, SMT DEF WriteCU, Goto
<1>42. CASE UnlockTransfer("GC")
  BY <1>0, <1>42, SMT DEF UnlockTransfer, Goto, Unlock
<1>43. CASE Take("CU")
  BY <1>0, <1>43, SMT DEF Take, Goto
<1>44. CASE LockTransfer("CU")
  BY <1>0, <1>44, SMT DEF LockTransfer, Goto, Lock
<1>45. CASE Route("CU")
  BY <1>0, <1>45, SMT DEF Route, Goto
<1>46. CASE UnlinkTemps("CU")
  BY <1>0, <1>46, SMT DEF UnlinkTemps, Goto
<1>47. CASE WriteGC("CU")
  BY <1>0, <1>47, SMT DEF WriteGC, Goto
<1>48. CASE WriteCU("CU")
  BY <1>0, <1>48, SMT DEF WriteCU, Goto
<1>49. CASE UnlockTransfer("CU")
  BY <1>0, <1>49, SMT DEF UnlockTransfer, Goto, Unlock
<1>50. CASE UNCHANGED vars
  BY <1>0, <1>50, SMT DEF vars
<1>51. CASE ProdMakeFails
  BY <1>0, <1>51, SMT DEF ProdMakeFails, Unmade, Goto
<1>52. CASE ProdMakeTooMany
  BY <1>0, <1>52, SMT DEF ProdMakeTooMany, Unmade, Goto
<1>53. CASE ProdAgain
  BY <1>0, <1>53, SMT DEF ProdAgain, Goto
<1> QED
  BY <1>1, <1>2, <1>3, <1>4, <1>5, <1>6, <1>7, <1>8, <1>9, <1>10, <1>11, <1>12, <1>13,
     <1>14, <1>15, <1>16, <1>17, <1>18, <1>19, <1>20, <1>21, <1>22, <1>23, <1>24,
     <1>25, <1>26, <1>27, <1>28, <1>29, <1>30, <1>31, <1>32, <1>33, <1>34, <1>35,
     <1>36, <1>37, <1>38, <1>39, <1>40, <1>41, <1>42, <1>43, <1>44, <1>45, <1>46,
     <1>47, <1>48, <1>49, <1>50, <1>51, <1>52, <1>53
     DEF Next, Prod, EB, EBStep, Heart, Conduct, Stations

\* The event builder lets go of its mutexes on the way.
LEMMA ReleasesNext ==
  ASSUME CrashAt \cap Windows = {}
  PROVE  Places /\ Mutexes /\ Releases /\ [Next]_vars => Releases'
<1> SUFFICES ASSUME Places, Mutexes, Releases, [Next]_vars
             PROVE  Releases'
  OBVIOUS
<1> USE NamesHold DEF Names, Releases, EBInStation, EBInSystem
<1>0. /\ pc \in [Threads -> Place] /\ pc["eb"] \in EBPlaces
      /\ lock \in [Locks -> Threads \cup {"none"}]
      /\ pc["heart"] # "watch" => pc["eb"] = "dead"
  BY DEF Places, Mutexes, HeartHolds
<1>1. CASE ProdLockStation
  BY <1>0, <1>1, SMT DEF ProdLockStation, Goto, Lock
<1>2. CASE ProdLockSystem
  BY <1>0, <1>2, SMT DEF ProdLockSystem, Goto, Lock
<1>3. CASE ProdAttached
  BY <1>0, <1>3, SMT DEF ProdAttached, Goto, Unlock
<1>4. CASE ProdCallNew
  BY <1>0, <1>4, SMT DEF ProdCallNew, Goto
<1>5. CASE ProdNew
  BY <1>0, <1>5, SMT DEF ProdNew, Goto
<1>6. CASE ProdMake
  BY <1>0, <1>6, SMT DEF ProdMake, Goto
<1>7. CASE ProdPut
  BY <1>0, <1>7, SMT DEF ProdPut, Goto
<1>8. CASE ProdQuit
  BY <1>0, <1>8, SMT DEF ProdQuit, Goto
<1>9. CASE ProdDetached
  BY <1>0, <1>9, SMT DEF ProdDetached, Goto, Unlock
<1>10. CASE EBStart
  BY <1>0, <1>10, SMT DEF EBStart, Goto
<1>11. CASE EBLockStation
  BY <1>0, <1>11, SMT DEF EBLockStation, Goto, Lock
<1>12. CASE EBRegister
  BY <1>0, <1>12, SMT DEF EBRegister, Goto, Lock
<1>13. CASE EBUnlockSystem
  BY <1>0, <1>13, SMT DEF EBUnlockSystem, Goto, Unlock
<1>14. CASE EBCount
  BY <1>0, <1>14, SMT DEF EBCount, Goto
<1>15. CASE EBActivate
  BY <1>0, <1>15, SMT DEF EBActivate, Goto, Unlock
<1>16. CASE EBGet
  BY <1>0, <1>16, SMT DEF EBGet, Goto
<1>17. CASE EBPut
  BY <1>0, <1>17, SMT DEF EBPut, Goto
<1>18. CASE EBQuit
  BY <1>0, <1>18, SMT DEF EBQuit, Goto
<1>19. CASE EBDetStation
  BY <1>0, <1>19, SMT DEF EBDetStation, Goto, Lock
<1>20. CASE EBDetSystem
  BY <1>0, <1>20, SMT DEF EBDetSystem, Goto, Lock
<1>21. CASE EBDetTransfer
  BY <1>0, <1>21, SMT DEF EBDetTransfer, Goto, Lock
<1>22. CASE EBIdle
  BY <1>0, <1>22, SMT DEF EBIdle, Goto, Unlock, Stations
<1>23. CASE EBFlushRead
  BY <1>0, <1>23, SMT DEF EBFlushRead, Goto
<1>24. CASE EBRestore
  BY <1>0, <1>24, SMT DEF EBRestore, Goto
<1>25. CASE EBUncount
  BY <1>0, <1>25, SMT DEF EBUncount, Goto
<1>26. CASE EBDetUnlock
  BY <1>0, <1>26, SMT DEF EBDetUnlock, Goto, Unlock
<1>27. CASE EBDetProc
  BY <1>0, <1>27, SMT DEF EBDetProc, Goto
<1>28. CASE EBDetEnd
  BY <1>0, <1>28, SMT DEF EBDetEnd, Goto, Unlock
<1>29. CASE EBClose
  BY <1>0, <1>29, SMT DEF EBClose, Goto, Lock, Unlock
<1>30. CASE EBKilled
  BY <1>0, <1>30, SMT DEF EBKilled, Windows
<1>31. CASE HeartFixMutexes
  BY <1>0, <1>31, SMT DEF HeartFixMutexes, Fix, Goto, Unlock
<1>32. CASE HeartLock
  BY <1>0, <1>32, SMT DEF HeartLock, Goto, Lock
<1>33. CASE HeartFixAttachments
  BY <1>0, <1>33, SMT DEF HeartFixAttachments, Goto, Lock
<1>34. CASE HeartDetach
  BY <1>0, <1>34, SMT DEF HeartDetach, Goto
<1>35. CASE HeartDone
  BY <1>0, <1>35, SMT DEF HeartDone, Unlock
<1>36. CASE Take("GC")
  BY <1>0, <1>36, SMT DEF Take, Goto
<1>37. CASE LockTransfer("GC")
  BY <1>0, <1>37, SMT DEF LockTransfer, Goto, Lock
<1>38. CASE Route("GC")
  BY <1>0, <1>38, SMT DEF Route, Goto
<1>39. CASE UnlinkTemps("GC")
  BY <1>0, <1>39, SMT DEF UnlinkTemps, Goto
<1>40. CASE WriteGC("GC")
  BY <1>0, <1>40, SMT DEF WriteGC, Goto
<1>41. CASE WriteCU("GC")
  BY <1>0, <1>41, SMT DEF WriteCU, Goto
<1>42. CASE UnlockTransfer("GC")
  BY <1>0, <1>42, SMT DEF UnlockTransfer, Goto, Unlock
<1>43. CASE Take("CU")
  BY <1>0, <1>43, SMT DEF Take, Goto
<1>44. CASE LockTransfer("CU")
  BY <1>0, <1>44, SMT DEF LockTransfer, Goto, Lock
<1>45. CASE Route("CU")
  BY <1>0, <1>45, SMT DEF Route, Goto
<1>46. CASE UnlinkTemps("CU")
  BY <1>0, <1>46, SMT DEF UnlinkTemps, Goto
<1>47. CASE WriteGC("CU")
  BY <1>0, <1>47, SMT DEF WriteGC, Goto
<1>48. CASE WriteCU("CU")
  BY <1>0, <1>48, SMT DEF WriteCU, Goto
<1>49. CASE UnlockTransfer("CU")
  BY <1>0, <1>49, SMT DEF UnlockTransfer, Goto, Unlock
<1>50. CASE UNCHANGED vars
  BY <1>0, <1>50, SMT DEF vars
<1>51. CASE ProdMakeFails
  BY <1>0, <1>51, SMT DEF ProdMakeFails, Unmade, Goto
<1>52. CASE ProdMakeTooMany
  BY <1>0, <1>52, SMT DEF ProdMakeTooMany, Unmade, Goto
<1>53. CASE ProdAgain
  BY <1>0, <1>53, SMT DEF ProdAgain, Goto
<1> QED
  BY <1>1, <1>2, <1>3, <1>4, <1>5, <1>6, <1>7, <1>8, <1>9, <1>10, <1>11, <1>12, <1>13,
     <1>14, <1>15, <1>16, <1>17, <1>18, <1>19, <1>20, <1>21, <1>22, <1>23, <1>24,
     <1>25, <1>26, <1>27, <1>28, <1>29, <1>30, <1>31, <1>32, <1>33, <1>34, <1>35,
     <1>36, <1>37, <1>38, <1>39, <1>40, <1>41, <1>42, <1>43, <1>44, <1>45, <1>46,
     <1>47, <1>48, <1>49, <1>50, <1>51, <1>52, <1>53
     DEF Next, Prod, EB, EBStep, Heart, Conduct, Stations

\* Both hold from the start on.
THEOREM RecordsKept ==
  ASSUME CrashAt \cap Windows = {}
  PROVE  Spec => [](Recorded /\ Releases)
<1>1. Init => Recorded /\ Releases
  <2> SUFFICES ASSUME Init PROVE Recorded /\ Releases
    OBVIOUS
  <2>1. pc["eb"] = "down" /\ lock["station"] = "none" /\ lock["system"] = "none"
    BY NamesHold DEF Names, Init
  <2> QED
    BY <2>1, SMT DEF Init, Recorded, Releases
<1>2. IInv /\ Recorded /\ Releases /\ [Next]_vars => (Recorded /\ Releases)'
  BY RecordedNext, ReleasesNext DEF IInv
<1> QED
  BY <1>1, <1>2, Invariance, PTL DEF Spec

\* When no event builder is there, no trace of an attachment is left at CU,
\* unless one was killed in one of the Windows: et_fix_attachments and the
\* detach of the clean-up erase whatever the killed one had recorded.
THEOREM NoGhost ==
  ASSUME CrashAt \cap Windows = {}
  PROVE  Spec => []NoGhostAttachment
<1>1. Recorded => NoGhostAttachment
  BY DEF Recorded, NoGhostAttachment
<1> QED
  BY <1>1, RecordsKept, PTL

-----------------------------------------------------------------------------
(* Deadlocks.                                                              *)

\* What each thread can be waiting for, and where it is then.
LEMMA WaitingEB ==
  \A l \in WaitsFor("eb") :
    \/ l = "station" /\ pc["eb"] \in {"attach", "detach"}
    \/ l = "system" /\ pc["eb"] \in {"attSystem", "detSystem", "close"}
    \/ l = "GC" /\ pc["eb"] = "detGC"
    \/ l = "CU" /\ pc["eb"] = "detCU"
  BY SMT DEF WaitsFor

\* The mutexes the producer waits for.
LEMMA WaitingProd ==
  \A l \in WaitsFor("prod") :
    \/ l = "station" /\ pc["prod"] = "detach"
    \/ l = "system" /\ pc["prod"] \in {"attSystem", "detSystem", "make"}
  BY SMT DEF WaitsFor

\* The mutexes the heart monitor waits for.
LEMMA WaitingHeart == \A l \in WaitsFor("heart") : pc["heart"] = l /\ l \in Locks
  BY SMT DEF WaitsFor

\* The mutexes the conductors wait for.
LEMMA WaitingConductors ==
  /\ \A l \in WaitsFor("cGC") :
       \/ l = "GC" /\ pc["cGC"] = "transfer"
       \/ l = "system" /\ pc["cGC"] = "unlink"
  /\ \A l \in WaitsFor("cCU") :
       \/ l = "CU" /\ pc["cCU"] = "transfer"
       \/ l = "system" /\ pc["cCU"] = "unlink"
<1>1. \A l \in WaitsFor("cGC") :
        \/ l = "GC" /\ pc["cGC"] = "transfer"
        \/ l = "system" /\ pc["cGC"] = "unlink"
  BY SMT DEF WaitsFor
<1>2. \A l \in WaitsFor("cCU") :
        \/ l = "CU" /\ pc["cCU"] = "transfer"
        \/ l = "system" /\ pc["cCU"] = "unlink"
  BY SMT DEF WaitsFor
<1> QED
  BY <1>1, <1>2

\* In a set of threads that all wait for each other, the one that holds the
\* system mutex is the detaching event builder, and it waits for a conductor.
LEMMA CycleIsDetach ==
  ASSUME IInv, Releases, NEW S \in SUBSET Threads, S # {},
         \A t \in S : \E u \in S : Blocks(u, t)
  PROVE  /\ big
         /\ "eb" \in S /\ S \cap {"cGC", "cCU"} # {}
         /\ pc["eb"] \in {"detGC", "detCU"}
<1> USE WaitingEB, WaitingProd, WaitingHeart, WaitingConductors
<1>a. \A t \in S : \E l \in WaitsFor(t) : lock[l] \in S
  BY DEF Blocks
<1>b. /\ pc["prod"] \in ProdPlaces /\ pc["eb"] \in EBPlaces /\ pc["heart"] \in HeartPlaces
      /\ ProdHolds /\ EBHolds /\ HeartHolds /\ ConductorsHold
  BY DEF IInv, Places, Mutexes
<1>c. \A t \in S : t \in {"prod", "eb", "heart", "cGC", "cCU"}
  BY DEF Threads
<1>1. ASSUME lock["system"] \in S
      PROVE  lock["system"] = "eb" /\ pc["eb"] \in {"detGC", "detCU"}
  <2>1. lock["system"] \notin {"cGC", "cCU"}
    BY <1>b DEF ConductorsHold
  <2>2. lock["system"] # "prod"
    BY <1>a, <1>1, <1>b DEF ProdHolds
  <2>3. lock["system"] # "heart"
    BY <1>a, <1>1, <1>b DEF HeartHolds, Locks, Stations
  <2>4. lock["system"] = "eb"
    BY <1>1, <1>c, <2>1, <2>2, <2>3
  <2>5. pc["eb"] \in EBInSystem \cup {"dead"}
    BY <2>4 DEF Releases
  <2> QED
    BY <1>1, <1>a, <2>4, <2>5 DEF EBInSystem
<1>2. "eb" \in S
  <2> SUFFICES ASSUME "eb" \notin S PROVE FALSE
    OBVIOUS
  <2>1. lock["system"] \notin S
    BY <1>1
  <2>2. "cGC" \in S => pc["cGC"] = "transfer"
    BY <1>a, <2>1
  <2>3. "cCU" \in S => pc["cCU"] = "transfer"
    BY <1>a, <2>1
  <2>4. lock["CU"] \notin S
    <3>1. lock["CU"] \in S => lock["CU"] = "heart"
      BY <1>b, <1>c, <2>3 DEF ProdHolds, ConductorsHold, Transferring
    <3>2. lock["CU"] = "heart" => pc["heart"] \in {"system", "detach", "unlock"}
      BY <1>b DEF HeartHolds
    <3> QED
      BY <1>a, <2>1, <3>1, <3>2 DEF Locks, Stations
  <2>5. lock["GC"] \notin S
    <3>1. lock["GC"] \in S => lock["GC"] = "heart"
      BY <1>b, <1>c, <2>2 DEF ProdHolds, ConductorsHold, Transferring
    <3>2. lock["GC"] = "heart" => pc["heart"] \in {"CU", "system", "detach", "unlock"}
      BY <1>b DEF HeartHolds
    <3> QED
      BY <1>a, <2>1, <2>4, <3>1, <3>2 DEF Locks, Stations
  <2>6. lock["station"] \notin S
    <3>1. lock["station"] \in S => lock["station"] \in {"heart", "prod"}
      BY <1>b, <1>c DEF ConductorsHold
    <3>2. lock["station"] = "heart" =>
            pc["heart"] \in {"GC", "CU", "system", "detach", "unlock"}
      BY <1>b DEF HeartHolds
    <3>3. lock["station"] = "prod" =>
            pc["prod"] \in {"attSystem", "attEnd", "detSystem", "detEnd"}
      BY <1>b DEF ProdHolds
    <3>4. lock["station"] # "heart" \/ "heart" \notin S
      BY <1>a, <2>1, <2>4, <2>5, <3>2 DEF Locks, Stations
    <3>5. lock["station"] # "prod" \/ "prod" \notin S
      BY <1>a, <2>1, <3>3
    <3> QED
      BY <3>1, <3>4, <3>5
  <2>7. PICK t \in S : TRUE
    OBVIOUS
  <2>8. PICK l \in WaitsFor(t) : lock[l] \in S
    BY <1>a
  <2>9. l \in {"station", "system", "GC", "CU"}
    BY <1>c, <2>7 DEF Locks, Stations
  <2> QED
    BY <2>1, <2>4, <2>5, <2>6, <2>8, <2>9
<1>3. PICK l \in WaitsFor("eb") : lock[l] \in S
  BY <1>a, <1>2
<1>4. pc["eb"] # "dead" /\ pc["heart"] = "watch"
  BY <1>3, <1>b DEF HeartHolds
<1>5. l # "system"
  BY <1>1, <1>3
<1>6. l # "station"
  <2> SUFFICES ASSUME l = "station" PROVE FALSE
    OBVIOUS
  <2>1. lock["station"] \in S /\ pc["eb"] \in {"attach", "detach"}
    BY <1>3
  <2>2. lock["station"] = "prod"
    BY <1>b, <1>c, <1>4, <2>1 DEF ConductorsHold, HeartHolds, Releases, EBInStation
  <2>3. pc["prod"] \in {"attSystem", "attEnd", "detSystem", "detEnd"}
    BY <1>b, <2>2 DEF ProdHolds
  <2>4. lock["system"] \in S
    BY <1>a, <2>1, <2>2, <2>3
  <2> QED
    BY <1>1, <2>1, <2>4
<1>7. CASE l = "GC"
  <2>1. pc["eb"] = "detGC" /\ lock["GC"] \in S
    BY <1>3, <1>7
  <2>2. lock["GC"] = "cGC"
    BY <1>b, <1>c, <1>4, <2>1 DEF ProdHolds, EBHolds, HeartHolds, ConductorsHold
  <2>3. pc["cGC"] \in Transferring /\ "cGC" \in S
    BY <1>b, <2>1, <2>2 DEF ConductorsHold
  <2>4. pc["cGC"] = "unlink"
    BY <1>a, <2>3 DEF Transferring
  <2> QED
    BY <1>2, <2>1, <2>3, <2>4 DEF IInv, Conducting
<1>8. CASE l = "CU"
  <2>1. pc["eb"] = "detCU" /\ lock["CU"] \in S
    BY <1>3, <1>8
  <2>2. lock["CU"] = "cCU"
    BY <1>b, <1>c, <1>4, <2>1 DEF ProdHolds, EBHolds, HeartHolds, ConductorsHold
  <2>3. pc["cCU"] \in Transferring /\ "cCU" \in S
    BY <1>b, <2>1, <2>2 DEF ConductorsHold
  <2>4. pc["cCU"] = "unlink"
    BY <1>a, <2>3 DEF Transferring
  <2> QED
    BY <1>2, <2>1, <2>3, <2>4 DEF IInv, Conducting
<1> QED
  BY <1>3, <1>5, <1>6, <1>7, <1>8

\* Threads wait for each other only where the detaching event builder, which has
\* the system mutex, waits for the transfer mutex of a conductor that returns
\* events with temp files, unless an event builder was killed in one of the
\* Windows and left the system mutex locked behind it.
THEOREM DeadlockOnlyInDetach ==
  ASSUME CrashAt \cap Windows = {}
  PROVE  Spec => []OnlyDetachDeadlocks
<1>1. IInv /\ Releases => OnlyDetachDeadlocks
  <2> SUFFICES ASSUME IInv, Releases,
                      NEW S \in (SUBSET {t \in Threads : \E u \in Threads : Blocks(u, t)}) \ {{}},
                      \A t \in S : \E u \in S : Blocks(u, t)
               PROVE  /\ big
                      /\ "eb" \in S /\ S \cap {"cGC", "cCU"} # {}
                      /\ pc["eb"] \in {"detGC", "detCU"}
    BY DEF OnlyDetachDeadlocks
  <2>1. S \in SUBSET Threads
    <3>1. \A t \in S : t \in Threads
      BY Zenon
    <3> QED
      BY <3>1
  <2>2. S # {}
    BY Zenon
  <2> QED
    BY <2>1, <2>2, CycleIsDetach
<1> QED
  BY <1>1, RecordsKept, Invariance, PTL

=============================================================================
