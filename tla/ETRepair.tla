------------------------------ MODULE ETRepair ------------------------------
(***************************************************************************)
(* The linked lists of the ET stations in shared memory (et_readwrite.c),  *)
(* store by store, and their repair after a user process is killed between *)
(* any two stores.                                                         *)
(*                                                                         *)
(* Four lists: the input and output lists of GRAND_CENTRAL ("gcIn",        *)
(* "gcOut") and of CHICAGO_UNION ("cuIn", "cuOut").  A user is attached to *)
(* one of the stations: minervadaq to GRAND_CENTRAL, where it calls        *)
(* et_event(s)_new, put and dump; the event builder to CHICAGO_UNION,      *)
(* where it calls get, put and dump.  A call works on one list under that  *)
(* list's mutex.  The conductors, threads of the ET system, which do not   *)
(* die alone, move events gcOut -> cuIn (-> gcIn while CHICAGO_UNION is    *)
(* idle) and cuOut -> gcIn.  When the user is killed, the heart monitor    *)
(* stops the conductors, repairs the list the user held and detaches it:   *)
(* with the same calls it flushes the station's input list and returns the *)
(* events the user owned.                                                  *)
(*                                                                         *)
(* A step is one store to the shared memory, and stores reach it in        *)
(* program order.  What a call reads under its mutex nobody else may       *)
(* change meanwhile.                                                       *)
(***************************************************************************)
EXTENDS Integers, Sequences, FiniteSets, SequencesExt

CONSTANTS
  NEvents,      \* size of the event pool
  MaxBatch,     \* bound: events a user passes to one call
  MaxCalls,     \* bound: calls from an initial state on
  Priorities    \* event priorities in use, a subset of {"LOW", "HIGH"}

ASSUME ETRepairAssumption ==
  /\ NEvents \in Nat \ {0}
  /\ MaxBatch \in 1..NEvents /\ MaxCalls \in Nat
  /\ Priorities \subseteq {"LOW", "HIGH"}

NULL     == 0
Events   == 1..NEvents                  \* in the order of the event array
Pointers == Events \cup {NULL}
Lists    == {"gcIn", "gcOut", "cuIn", "cuOut"}
Outputs  == {"gcOut", "cuOut"}
OutOf(s) == IF s = "GC" THEN "gcOut" ELSE "cuOut"

VARIABLES
  next, owner, prio, age,               \* of an event
  first, last, cnt, lasthigh, lock,     \* of a list: lock is its mutex
  fixCnt, fixNum, fixStart, fixFirst, fixCall,  \* of a list: its fix record
  at,           \* station the user is attached to, or "none"
  pc,           \* next store of the user or, under cleanup, the heart monitor
  call,         \* the call: op, list, the events es, their number n, and one,
                \* whether it is the routine for a single event
  k,            \* events of the call done so far
  before,       \* contents of the call's list when it was locked
  put,          \* events put since they were last new
  calls,        \* number of calls so far
  cleanup,      \* id->cleanup: the heart monitor acts for the dead user
  ordered       \* the array ordered of et_restore_events

evVars   == <<next, owner, prio, age>>
listVars == <<first, last, cnt, lasthigh, lock>>
fixVars  == <<fixCnt, fixNum, fixStart, fixFirst, fixCall>>
userVars == <<at, put, calls, cleanup, ordered>>
vars     == <<evVars, listVars, fixVars, userVars, pc, call, k, before>>

-----------------------------------------------------------------------------
(* The lists.                                                              *)

\* n events from e on, along the pointers nx; NULL beyond a NULL.
Chain(nx, e, n) ==
  LET c[i \in 1..n] == IF i = 1 THEN e
                       ELSE IF c[i - 1] \in Events THEN nx[c[i - 1]] ELSE NULL
  IN  c

Contents(l) == Chain(next, first[l], cnt[l])

\* The events from f to e, at most max of them.
Walk(f, e, max) ==
  LET n == CHOOSE i \in 1..max : /\ Chain(next, f, i)[i] = e
                                 /\ \A j \in 1..(i - 1) : Chain(next, f, j)[j] # e
  IN  Chain(next, f, n)

Linked(nx, s) == \A i \in 1..(Len(s) - 1) : nx[s[i]] = s[i + 1]
Distinct(s)   == \A i, j \in 1..Len(s) : s[i] = s[j] => i = j
NHigh(pr, s)  == Cardinality({i \in 1..Len(s) : pr[s[i]] = "HIGH"})
IsHigh(e)     == prio[e] = "HIGH"
Owned         == {e \in Events : owner[e] = "att"}
Disown(S)     == [e \in Events |-> IF e \in S THEN "sys" ELSE owner[e]]

\* Events in the order of the event array.
Ascending == {s \in SeqOf(Events, NEvents) : \A i, j \in 1..Len(s) : i < j => s[i] < s[j]}

NoCall == [op |-> "none", list |-> "none", es |-> <<>>, n |-> 0, one |-> FALSE]

\* Quiet states of a running system: events may be anywhere, those outside
\* gcIn are USED and high priority first, an idle CHICAGO_UNION has none, and
\* the user owns events it has got or, at GRAND_CENTRAL, has not yet put.
Init ==
  /\ \E now \in [Lists -> Ascending] :
       /\ \A l, m \in Lists : l # m => ToSet(now[l]) \cap ToSet(now[m]) = {}
       /\ owner = [e \in Events |-> IF \E l \in Lists : e \in ToSet(now[l]) THEN "sys" ELSE "att"]
       /\ \/ at = "none" /\ Owned = {} /\ now["cuIn"] = <<>>
          \/ at = "GC" /\ Owned # {} /\ now["cuIn"] = <<>>
          \/ at = "CU" /\ (Owned # {} \/ now["cuIn"] # <<>>)
       /\ next \in [Events -> Pointers]
       /\ \A l \in Lists : now[l] # <<>> => Linked(next, now[l]) /\ next[Last(now[l])] = NULL
       /\ \A e \in Owned : next[e] = NULL
       /\ prio \in [Events -> Priorities] /\ age \in [Events -> {"NEW", "USED"}]
       /\ \A e \in ToSet(now["gcIn"]) : prio[e] = "LOW"
       /\ \A e \in Owned : age[e] = IF at = "GC" THEN "NEW" ELSE "USED"
       /\ \A l \in Lists \ {"gcIn"} : \E h \in 0..Len(now[l]) : \A i \in 1..Len(now[l]) :
            age[now[l][i]] = "USED" /\ (IsHigh(now[l][i]) <=> i <= h)
       /\ first = [l \in Lists |-> IF now[l] = <<>> THEN NULL ELSE now[l][1]]
       /\ last = [l \in Lists |-> IF now[l] = <<>> THEN NULL ELSE Last(now[l])]
       /\ cnt = [l \in Lists |-> Len(now[l])]
       /\ lasthigh = [l \in Lists |-> IF l \in Outputs THEN NHigh(prio, now[l]) ELSE 0]
  /\ put = {e \in Events : age[e] = "USED"}
  /\ lock = [l \in Lists |-> FALSE]
  /\ fixCnt = [l \in Lists |-> 0] /\ fixNum = [l \in Lists |-> 0]
  /\ fixStart = [l \in Lists |-> 0] /\ fixFirst = [l \in Lists |-> NULL]
  /\ fixCall = [l \in Lists |-> "READ"]
  /\ pc = "idle" /\ call = NoCall /\ k = 0 /\ before = <<>>
  /\ calls = 0 /\ cleanup = FALSE /\ ordered = <<>>

-----------------------------------------------------------------------------
(* The calls of a user.                                                    *)

Attach(s) ==
  /\ at = "none"
  /\ at' = s
  /\ UNCHANGED <<evVars, listVars, fixVars, pc, call, k, before, put, calls, cleanup, ordered>>

Open(op, l, es, n, one) ==
  /\ pc = "idle"
  /\ pc' = IF op = "put" THEN "age" ELSE "lock"
  /\ call' = [op |-> op, list |-> l, es |-> es, n |-> n, one |-> one]
  /\ k' = 0
  /\ UNCHANGED <<listVars, fixVars, next, prio, age, at, before, cleanup>>

Begin(op, l, es, n, one) ==
  /\ at # "none" /\ ~cleanup /\ calls < MaxCalls
  /\ calls' = calls + 1
  /\ Open(op, l, es, n, one)
  /\ UNCHANGED <<owner, ordered>>

Batches == {es \in SeqOf(Owned, MaxBatch) : es # <<>> /\ Distinct(es)}

\* et_event(s)_new and et_event(s)_get: the events come from the list.
New(n) == at = "GC" /\ Begin("new", "gcIn", <<>>, n, n = 1) /\ UNCHANGED put
Get(n) == at = "CU" /\ Begin("get", "cuIn", <<>>, n, n = 1) /\ UNCHANGED put

\* et_event(s)_put and et_event(s)_dump.
Put(es) ==
  /\ Begin("put", OutOf(at), es, Len(es), Len(es) = 1)
  /\ put' = put \cup ToSet(es)

Dump(es) == Begin("dump", "gcIn", es, Len(es), Len(es) = 1) /\ UNCHANGED put

\* et_event_setpriority.
SetPriority(e, p) ==
  /\ at # "none" /\ pc = "idle" /\ ~cleanup
  /\ prio[e] # p
  /\ prio' = [prio EXCEPT ![e] = p]
  /\ UNCHANGED <<listVars, fixVars, userVars, next, owner, age, pc, call, k, before>>

\* et_station_detach by a user that owns no event: et_flush_events, if there
\* is something to flush.
Detach ==
  /\ Owned = {}
  /\ \/ at = "CU" /\ cnt["cuIn"] > 0 /\ Begin("flush", "cuIn", <<>>, NEvents, FALSE)
     \/ /\ at # "none" /\ pc = "idle" /\ ~cleanup
        /\ ~(at = "CU" /\ cnt["cuIn"] > 0)
        /\ at' = "none"
        /\ UNCHANGED <<evVars, listVars, fixVars, pc, call, k, before, calls, cleanup, ordered>>
  /\ UNCHANGED put

Crash ==
  /\ at # "none" /\ pc # "dead" /\ ~cleanup
  /\ pc' = "dead"
  /\ UNCHANGED <<evVars, listVars, fixVars, userVars, call, k, before>>

-----------------------------------------------------------------------------
(* The stores of a call.                                                   *)

L       == call.list
Reading == call.op \in {"new", "get", "flush"}

\* From one store of the call to the next.
Goto(p, q) == pc = p /\ pc' = q /\ UNCHANGED <<call, before, userVars>>

\* et_event(s)_put: the events become USED before the list is locked.
Age ==
  /\ Goto("age", IF k + 1 = call.n THEN "lock" ELSE "age")
  /\ age' = [age EXCEPT ![call.es[k + 1]] = "USED"]
  /\ k' = IF k + 1 = call.n THEN 0 ELSE k + 1
  /\ UNCHANGED <<listVars, fixVars, next, owner, prio>>

\* A read of a list that stays empty ends in a time-out or a wake-up, an
\* asynchronous one also when it finds the list locked.
GiveUp ==
  /\ pc = "lock" /\ call.op \in {"new", "get"}
  /\ pc' = "idle" /\ call' = NoCall
  /\ UNCHANGED <<evVars, listVars, fixVars, userVars, k, before>>

\* The list's mutex is taken; a reader waits until there is an event.
Lock ==
  LET n  == IF call.n > cnt[L] THEN cnt[L] ELSE call.n
      es == Chain(next, first[L], n)
  IN  /\ pc = "lock" /\ ~lock[L]
      /\ lock' = [lock EXCEPT ![L] = TRUE]
      /\ before' = Contents(L)
      /\ \/ /\ Reading /\ cnt[L] > 0
            /\ call' = [call EXCEPT !.es = es, !.n = n]
            /\ pc' = IF call.one THEN "rCnt" ELSE "rNum"
            /\ put' = IF call.op = "new" THEN put \ ToSet(es) ELSE put
         \/ /\ ~Reading
            /\ pc' = IF cnt[L] = 0 THEN "null" ELSE "wCnt"
            /\ UNCHANGED <<call, put>>
      /\ UNCHANGED <<evVars, fixVars, first, last, cnt, lasthigh, at, k, calls, cleanup, ordered>>

(* et_station_nread, or et_station_read if one: take the first n events.   *)

RNum ==
  /\ Goto("rNum", IF call.one THEN "rCall" ELSE "rCnt")
  /\ fixNum' = [fixNum EXCEPT ![L] = call.n]
  /\ UNCHANGED <<evVars, listVars, k, fixCnt, fixStart, fixFirst, fixCall>>

RCnt ==
  /\ Goto("rCnt", IF call.one THEN "rNum" ELSE "rCall")
  /\ fixCnt' = [fixCnt EXCEPT ![L] = cnt[L]]
  /\ UNCHANGED <<evVars, listVars, k, fixNum, fixStart, fixFirst, fixCall>>

RCall ==
  /\ Goto("rCall", "rFix")
  /\ fixCall' = [fixCall EXCEPT ![L] = "READ"]
  /\ UNCHANGED <<evVars, listVars, k, fixCnt, fixNum, fixStart, fixFirst>>

RFix ==
  /\ Goto("rFix", IF call.one THEN "first" ELSE "take")
  /\ fixFirst' = [fixFirst EXCEPT ![L] = first[L]]
  /\ UNCHANGED <<evVars, listVars, k, fixCnt, fixNum, fixStart, fixCall>>

Take ==
  /\ Goto("take", IF k + 1 < call.n THEN "take" ELSE IF call.one THEN "less" ELSE "first")
  /\ owner' = [owner EXCEPT ![call.es[k + 1]] = "att"]
  /\ k' = k + 1
  /\ UNCHANGED <<listVars, fixVars, next, prio, age>>

First ==
  /\ Goto("first", IF call.one THEN "take" ELSE "less")
  /\ first' = [first EXCEPT ![L] = next[call.es[call.n]]]
  /\ UNCHANGED <<evVars, fixVars, k, last, cnt, lasthigh, lock>>

Less ==
  /\ Goto("less", "rEnd")
  /\ cnt' = [cnt EXCEPT ![L] = @ - call.n]
  /\ UNCHANGED <<evVars, fixVars, k, first, last, lasthigh, lock>>

REnd ==
  /\ Goto("rEnd", "unlock")
  /\ fixFirst' = [fixFirst EXCEPT ![L] = NULL]
  /\ UNCHANGED <<evVars, listVars, k, fixCnt, fixNum, fixStart, fixCall>>

(* et_station_nwrite into an output list, high priority first, and         *)
(* et_station_ndump into gcIn, where priority does not matter;             *)
(* et_station_write and et_station_dump if one.                            *)

Null ==
  /\ Goto("null", "wCnt")
  /\ first' = [first EXCEPT ![L] = NULL]
  /\ UNCHANGED <<evVars, fixVars, k, last, cnt, lasthigh, lock>>

WCnt ==
  /\ Goto("wCnt", "wNum")
  /\ fixCnt' = [fixCnt EXCEPT ![L] = cnt[L]]
  /\ UNCHANGED <<evVars, listVars, k, fixNum, fixStart, fixFirst, fixCall>>

WNum ==
  /\ Goto("wNum", IF L = "gcIn" THEN "wCall" ELSE "start")
  /\ fixNum' = [fixNum EXCEPT ![L] = call.n]
  /\ UNCHANGED <<evVars, listVars, k, fixCnt, fixStart, fixFirst, fixCall>>

WCall ==
  /\ Goto("wCall", "start")
  /\ fixCall' = [fixCall EXCEPT ![L] = "DUMP"]
  /\ UNCHANGED <<evVars, listVars, k, fixCnt, fixNum, fixStart, fixFirst>>

Start ==
  /\ Goto("start", "link")
  /\ fixStart' = [fixStart EXCEPT ![L] = @ + 1]
  /\ UNCHANGED <<evVars, listVars, k, fixCnt, fixNum, fixFirst, fixCall>>

E == call.es[k + 1]                         \* the event being written
Ranked == L # "gcIn" /\ IsHigh(E)           \* it goes before the low ones
LastHigh == Chain(next, first[L], lasthigh[L])[lasthigh[L]]

\* Mutant: a high priority event overtakes the high ones that wait.
WhereFirst ==
  IF cnt[L] = 0 THEN "empty" ELSE IF Ranked THEN "front" ELSE "end"

\* Where the event is linked in.
Where ==
  IF cnt[L] = 0 THEN "empty"
  ELSE IF ~Ranked THEN "end"
  ELSE IF lasthigh[L] = 0 THEN "front"
  ELSE IF LastHigh = last[L] THEN "end" ELSE "behind"

\* Its two pointers.
Link ==
  /\ Goto("link", "relink")
  /\ \/ Where = "empty"  /\ first' = [first EXCEPT ![L] = E] /\ UNCHANGED next
     \/ Where = "end"    /\ next' = [next EXCEPT ![last[L]] = E] /\ UNCHANGED first
     \/ Where = "front"  /\ next' = [next EXCEPT ![E] = first[L]] /\ UNCHANGED first
     \/ Where = "behind" /\ next' = [next EXCEPT ![E] = next[LastHigh]] /\ UNCHANGED first
  /\ UNCHANGED <<fixVars, k, owner, prio, age, last, cnt, lasthigh, lock>>

\* et_station_nwrite gives up the first event of a list before it counts it as
\* high, the others count first.
OwnerFirst == cnt[L] = 0 /\ ~call.one

Relink ==
  /\ Goto("relink", IF Ranked /\ ~OwnerFirst THEN "high" ELSE "give")
  /\ \/ Where \in {"empty", "end"} /\ last' = [last EXCEPT ![L] = E] /\ UNCHANGED <<next, first>>
     \/ Where = "front"  /\ first' = [first EXCEPT ![L] = E] /\ UNCHANGED <<next, last>>
     \/ Where = "behind" /\ next' = [next EXCEPT ![LastHigh] = E] /\ UNCHANGED <<first, last>>
  /\ UNCHANGED <<fixVars, k, owner, prio, age, cnt, lasthigh, lock>>

High ==
  /\ Goto("high", IF OwnerFirst THEN "more" ELSE "give")
  /\ lasthigh' = [lasthigh EXCEPT ![L] = IF cnt[L] = 0 THEN 1 ELSE @ + 1]
  /\ UNCHANGED <<evVars, fixVars, k, first, last, cnt, lock>>

Give ==
  /\ Goto("give", IF Ranked /\ OwnerFirst THEN "high" ELSE "more")
  /\ owner' = [owner EXCEPT ![E] = "sys"]
  /\ UNCHANGED <<listVars, fixVars, k, next, prio, age>>

More ==
  /\ Goto("more", IF k + 1 < call.n THEN "link" ELSE "wEnd")
  /\ cnt' = [cnt EXCEPT ![L] = @ + 1]
  /\ k' = k + 1
  /\ UNCHANGED <<evVars, fixVars, first, last, lasthigh, lock>>

WEnd ==
  /\ Goto("wEnd", "unlock")
  /\ fixStart' = [fixStart EXCEPT ![L] = @ - 1]
  /\ UNCHANGED <<evVars, listVars, k, fixCnt, fixNum, fixFirst, fixCall>>

Unlock ==
  /\ pc = "unlock"
  /\ pc' = IF call.op = "new" THEN "iNext" ELSE "return"
  /\ lock' = [lock EXCEPT ![L] = FALSE]
  /\ k' = 0 /\ before' = <<>>
  /\ UNCHANGED <<evVars, fixVars, userVars, first, last, cnt, lasthigh, call>>

(* After the unlock et_event(s)_new initialises its events (et_init_event_). *)

INext ==
  /\ Goto("iNext", "iPrio")
  /\ next' = [next EXCEPT ![E] = NULL]
  /\ UNCHANGED <<listVars, fixVars, k, owner, prio, age>>

IPrio ==
  /\ Goto("iPrio", "iAge")
  /\ prio' = [prio EXCEPT ![E] = "LOW"]
  /\ UNCHANGED <<listVars, fixVars, k, next, owner, age>>

IAge ==
  /\ Goto("iAge", IF k + 1 < call.n THEN "iNext" ELSE "return")
  /\ age' = [age EXCEPT ![E] = "NEW"]
  /\ k' = IF k + 1 < call.n THEN k + 1 ELSE 0
  /\ UNCHANGED <<listVars, fixVars, next, owner, prio>>

\* The call returns; a flush goes on to write what it has read, and a user
\* that has flushed its station is detached.
Return ==
  /\ pc = "return"
  /\ \/ /\ call.op = "flush"
        /\ pc' = "lock"
        /\ call' = [call EXCEPT !.op = "flushed", !.list = OutOf(at)]
        /\ UNCHANGED at
     \/ /\ call.op # "flush"
        /\ pc' = "idle" /\ call' = NoCall
        /\ at' = IF call.op = "flushed" /\ ~cleanup THEN "none" ELSE at
  /\ UNCHANGED <<evVars, listVars, fixVars, k, before, put, calls, cleanup, ordered>>

Stores ==
  \/ Age \/ GiveUp \/ Lock \/ RNum \/ RCnt \/ RCall \/ RFix \/ Take \/ First \/ Less \/ REnd
  \/ Null \/ WCnt \/ WNum \/ WCall \/ Start \/ Link \/ Relink \/ High \/ Give \/ More \/ WEnd
  \/ Unlock \/ INext \/ IPrio \/ IAge \/ Return

-----------------------------------------------------------------------------
(* The heart monitor: repair of a list whose mutex the dead user holds.    *)

\* Mutant: the events of an unfinished read keep their owner.
RepairReadOwned(l) ==
  LET f    == fixFirst[l]
      undo == f # NULL /\ cnt[l] # fixCnt[l] - fixNum[l]
  IN  /\ fixFirst' = [fixFirst EXCEPT ![l] = NULL]
      /\ first' = IF undo THEN [first EXCEPT ![l] = f] ELSE first
      /\ cnt' = IF undo THEN [cnt EXCEPT ![l] = Len(Walk(f, last[l], NEvents))] ELSE cnt
      /\ UNCHANGED <<owner, last, lasthigh, fixStart>>

\* et_repair_inputlist: an unfinished read is undone.
RepairRead(l) ==
  LET f  == fixFirst[l]
      es == Walk(f, last[l], NEvents)
  IN  /\ fixFirst' = [fixFirst EXCEPT ![l] = NULL]
      /\ IF f = NULL \/ cnt[l] = fixCnt[l] - fixNum[l]
           THEN UNCHANGED <<owner, first, cnt>>
           ELSE /\ owner' = Disown(ToSet(es))
                /\ first' = [first EXCEPT ![l] = f]
                /\ cnt' = [cnt EXCEPT ![l] = Len(es)]
      /\ UNCHANGED <<last, lasthigh, fixStart>>

\* Mutant: lasthigh is not counted anew.
RepairWriteNoHigh(l) ==
  LET max == fixCnt[l] + fixNum[l]
      end == IF cnt[l] = 0 THEN first[l] ELSE last[l]
      es  == Walk(first[l], end, max)
  IN  /\ fixStart' = [fixStart EXCEPT ![l] = 0]
      /\ IF fixStart[l] = 0 \/ cnt[l] = max \/ (cnt[l] = 0 /\ first[l] = NULL)
           THEN UNCHANGED <<owner, last, cnt>>
           ELSE /\ owner' = Disown(ToSet(es))
                /\ last' = [last EXCEPT ![l] = end]
                /\ cnt' = [cnt EXCEPT ![l] = Len(es)]
      /\ UNCHANGED <<first, lasthigh, fixFirst>>

\* et_repair_outputlist and et_repair_gcinputlist: what was linked stays.
RepairWrite(l) ==
  LET max == fixCnt[l] + fixNum[l]
      end == IF cnt[l] = 0 THEN first[l] ELSE last[l]
      es  == Walk(first[l], end, max)
  IN  /\ fixStart' = [fixStart EXCEPT ![l] = 0]
      /\ IF fixStart[l] = 0 \/ cnt[l] = max \/ (cnt[l] = 0 /\ first[l] = NULL)
           THEN UNCHANGED <<owner, last, cnt, lasthigh>>
           ELSE /\ owner' = Disown(ToSet(es))
                /\ last' = [last EXCEPT ![l] = end]
                /\ cnt' = [cnt EXCEPT ![l] = Len(es)]
                /\ lasthigh' = IF l = "gcIn" THEN lasthigh
                               ELSE [lasthigh EXCEPT ![l] = NHigh(prio, es)]
      /\ UNCHANGED <<first, fixFirst>>

\* et_repair_gc and et_repair_station: the mutex tells which list it was.
RepairList(l) ==
  IF l = "cuIn" \/ (l = "gcIn" /\ fixCall[l] = "READ")
    THEN RepairRead(l) ELSE RepairWrite(l)

Repair ==
  /\ pc = "dead"
  /\ \/ /\ \A l \in Lists : ~lock[l]
        /\ UNCHANGED <<listVars, owner, fixStart, fixFirst>>
     \/ \E l \in Lists : /\ lock[l]
                         /\ RepairList(l)
                         /\ lock' = [lock EXCEPT ![l] = FALSE]
  /\ pc' = "idle" /\ call' = NoCall /\ k' = 0 /\ before' = <<>>
  /\ cleanup' = TRUE
  /\ UNCHANGED <<next, prio, age, fixCnt, fixNum, fixCall, at, put, calls, ordered>>

(* et_station_detach by the heart monitor: et_flush_events, then            *)
(* et_restore_events.                                                      *)

ToFlush == at = "CU" /\ cnt["cuIn"] > 0

Flush ==
  /\ cleanup /\ ToFlush
  /\ Open("flush", "cuIn", <<>>, NEvents, FALSE)
  /\ UNCHANGED <<owner, put, calls, ordered>>

\* The events of the dead user, in the order of the event array: the USED ones
\* are given up and ordered, high priority first, the NEW ones are dumped.
Collect ==
  /\ cleanup /\ pc = "idle" /\ ~ToFlush /\ Owned # {} /\ ordered = <<>>
  /\ \E new, high, low \in Ascending :
       /\ ToSet(new) = {e \in Owned : age[e] = "NEW"}
       /\ ToSet(high) = {e \in Owned : age[e] = "USED" /\ IsHigh(e)}
       /\ ToSet(low) = {e \in Owned : age[e] = "USED" /\ ~IsHigh(e)}
       /\ owner' = Disown(ToSet(high) \cup ToSet(low))
       /\ ordered' = high \o low
       /\ \/ new # <<>> /\ Open("restore", "gcIn", new, Len(new), FALSE)
          \/ new = <<>> /\ UNCHANGED <<listVars, fixVars, next, prio, age, at, before, cleanup,
                                       pc, call, k>>
  /\ UNCHANGED <<put, calls>>

\* Mutant: also the events of a user of GRAND_CENTRAL go to its output list.
RestoreToOut == OutOf(at)

RestoreTo == IF at = "GC" THEN "gcIn" ELSE "cuOut"

Restore ==
  /\ cleanup /\ ~ToFlush /\ ordered # <<>>
  /\ Open("restore", RestoreTo, ordered, Len(ordered), FALSE)
  /\ ordered' = <<>>
  /\ UNCHANGED <<owner, put, calls>>

Detached ==
  /\ cleanup /\ pc = "idle" /\ ~ToFlush /\ Owned = {} /\ ordered = <<>>
  /\ at' = "none" /\ cleanup' = FALSE
  /\ UNCHANGED <<evVars, listVars, fixVars, pc, call, k, before, put, calls, ordered>>

HeartMonitor == Repair \/ Flush \/ Collect \/ Restore \/ Detached

-----------------------------------------------------------------------------
(* The conductors: et_llist_read, et_llist_write_gc and et_llist_write.    *)

\* The pointers nx with the events of es strung together; that of the last one
\* is left alone.
String(nx, es) ==
  [e \in Events |-> IF \E i \in 1..(Len(es) - 1) : es[i] = e
                      THEN es[CHOOSE i \in 2..Len(es) : es[i - 1] = e] ELSE nx[e]]

\* Events of high priority s starts with.
Leading(s) == CHOOSE h \in 0..Len(s) : /\ \A i \in 1..h : IsHigh(s[i])
                                       /\ h < Len(s) => ~IsHigh(s[h + 1])

LLAppend(src, l, es) ==
  /\ next' = IF cnt[l] = 0 THEN String(next, es)
             ELSE [String(next, es) EXCEPT ![last[l]] = es[1]]
  /\ first' = [first EXCEPT ![src] = NULL, ![l] = IF cnt[l] = 0 THEN es[1] ELSE @]
  /\ last' = [last EXCEPT ![l] = Last(es)]

\* High priority events go behind those that are in the list already.
LLInsert(src, l, es) ==
  LET old == Contents(l)
      oh  == Leading(old)
      h   == Leading(es)
      hs  == SubSeq(es, 1, h)
      ls  == SubSeq(es, h + 1, Len(es))
      low == IF oh = 0 THEN first[l] ELSE next[old[oh]]
      end == IF oh = Len(old) THEN es[h] ELSE last[l]
      n1  == [String(next, hs) EXCEPT ![es[h]] = low]
      n2  == IF oh = 0 THEN n1 ELSE [n1 EXCEPT ![old[oh]] = es[1]]
  IN  /\ next' = IF ls = <<>> THEN n2 ELSE [String(n2, ls) EXCEPT ![end] = ls[1]]
      /\ first' = [first EXCEPT ![src] = NULL, ![l] = IF oh = 0 THEN es[1] ELSE @]
      /\ last' = [last EXCEPT ![l] = IF ls = <<>> THEN end ELSE Last(ls)]

\* Stations are ACTIVE until their user detaches or is cleaned up.
CUActive == at = "CU" /\ call.op \notin {"flush", "flushed"}

Conduct(s) ==
  LET src == OutOf(s)
      dst == IF s = "GC" /\ CUActive THEN "cuIn" ELSE "gcIn"
      es  == Contents(src)
  IN  /\ ~cleanup
      /\ cnt[src] > 0 /\ ~lock[src] /\ ~lock[dst]
      /\ IF dst = "gcIn" \/ ~IsHigh(es[1]) \/ cnt[dst] = 0
           THEN LLAppend(src, dst, es) ELSE LLInsert(src, dst, es)
      /\ cnt' = [cnt EXCEPT ![src] = 0, ![dst] = @ + cnt[src]]
      /\ lasthigh' = [lasthigh EXCEPT ![src] = 0]
      /\ UNCHANGED <<owner, prio, age, lock, fixVars, userVars, pc, call, k, before>>

-----------------------------------------------------------------------------
Next ==
  \/ \E s \in {"GC", "CU"} : Attach(s) \/ Conduct(s)
  \/ /\ at # "none" /\ pc = "idle" /\ ~cleanup
     /\ \/ \E n \in 1..MaxBatch : New(n) \/ Get(n)
        \/ \E es \in Batches : Put(es) \/ Dump(es)
        \/ \E e \in Owned, p \in Priorities : SetPriority(e, p)
  \/ Stores \/ Detach \/ Crash \/ HeartMonitor

Spec == Init /\ [][Next]_vars

-----------------------------------------------------------------------------
(* Properties.                                                             *)

\* "if they crash ANYWHERE, the repair functions will be able to return a
\* station to a fully operational, self-consistent state" (et_readwrite.c): a
\* list nobody has locked is a chain of cnt different events of the system that
\* ends at lastevent, lists that keep priorities have the high ones first, and
\* lasthigh counts them.
ListsSound ==
  \A l \in {x \in Lists : ~lock[x]} :
    LET c == Contents(l)
    IN  /\ ToSet(c) \subseteq Events \ Owned
        /\ Distinct(c)
        /\ c # <<>> => Last(c) = last[l]
        /\ l # "gcIn" => \E h \in 0..Len(c) :
             /\ \A i \in 1..Len(c) : IsHigh(c[i]) <=> i <= h
             /\ l \in Outputs => lasthigh[l] = h
        /\ fixStart[l] = 0 /\ fixFirst[l] = NULL

\* What the heart monitor has collected and not yet returned.
InHand ==
  IF ~cleanup THEN {}
  ELSE ToSet(ordered) \cup (IF call.op = "restore" /\ pc = "lock" THEN ToSet(call.es) ELSE {})

\* No event leaks and none is in two places: with every list unlocked, an
\* event is in exactly one list or is owned by the user, or the heart monitor
\* is about to return it.
EventsConserved ==
  (\A l \in Lists : ~lock[l]) =>
    LET has == [l \in Lists |-> ToSet(Contents(l))]
    IN  \A e \in Events :
          Cardinality({l \in Lists : e \in has[l]}) = IF owner[e] = "att" \/ e \in InHand THEN 0 ELSE 1

\* New events "were obtained by calls to et_event(s)_new but never put into
\* the system. They may not contain valid data and must be dumped"
\* (et_restore_events): an event on its way to or through CHICAGO_UNION has been
\* put since it was last new, though it is marked NEW only after it was read.
OnlyPutEventsTravel ==
  \A l \in Lists \ {"gcIn"} : ~lock[l] => ToSet(Contents(l)) \subseteq put

\* The list s after i events of es are written to it: a high priority one goes
\* behind the high ones, except in gcIn.
Written(pr, l, s, es) ==
  LET w[i \in 0..Len(es)] ==
        IF i = 0 THEN s
        ELSE InsertAt(w[i - 1],
                      IF l # "gcIn" /\ pr[es[i]] = "HIGH" THEN NHigh(pr, w[i - 1]) + 1
                                                          ELSE Len(w[i - 1]) + 1,
                      es[i])
  IN  w

\* When a list's mutex is released, by its user or by the repair, a read has
\* happened as a whole or not at all, and a write has happened for the first i
\* of its events, for all of them if the user lived.
CallsAtomic ==
  [][\A l \in Lists : lock[l] /\ ~lock'[l] =>
       IF Reading
         THEN \E i \in {0, call.n} :
                /\ Contents(l)' = SubSeq(before, i + 1, Len(before))
                /\ pc # "dead" => i = call.n
         ELSE \E i \in 0..call.n :
                /\ Contents(l)' = Written(prio, l, before, call.es)[i]
                /\ pc # "dead" => i = call.n]_vars

=============================================================================
