--------------------------- MODULE ETRepairProofs ---------------------------
(***************************************************************************)
(* Proofs of the properties of ETRepair, for every number of events, every *)
(* size of batch and any number of calls.                                  *)
(*                                                                         *)
(* The invariant Inv says that there is a sequence now[l] for each list l  *)
(* such that pointers, counts, owners and the fix record stand, before     *)
(* each store of a call, in the relation to now that this store expects.   *)
(* Its parts are                                                           *)
(*   TypeOK, Control    types; mutexes and call against pc,                *)
(*   Free               the lists nobody has locked,                       *)
(*   Locked             the list of the call: ReadState and WriteState     *)
(*                      while its user lives, DeadRead and DeadWrite then, *)
(*   Apart, Outside     every event is in one list, or where it is not in  *)
(*                      any, somebody has it,                              *)
(*   Loose, Leaving     the events of the call, and of a user that leaves, *)
(*   Travel             what was put.                                      *)
(* now changes with the store from which on the repair completes the write *)
(* of an event instead of undoing it, and with the one that ends a read.   *)
(*                                                                         *)
(* Every action has a lemma <Action>Step, from Model(now), the invariant   *)
(* for a given now, to Inv'.                                               *)
(***************************************************************************)
EXTENDS ETRepair, FiniteSetTheorems, WellFoundedInduction, TLAPS

-----------------------------------------------------------------------------
(* The inductive invariant.  now[l] is the sequence of events the list l   *)
(* stands for, also while a call works on it or after its user died.       *)

ReadPcs  == {"rNum", "rCnt", "rCall", "rFix", "take", "first", "less", "rEnd"}
WritePcs == {"null", "wCnt", "wNum", "wCall", "start", "link", "relink", "high", "give", "more",
             "wEnd"}
InLock   == ReadPcs \cup WritePcs \cup {"unlock"}
Post     == {"iNext", "iPrio", "iAge", "return"}
Active   == InLock \cup Post \cup {"age", "lock"}
Ops      == {"none", "new", "get", "put", "dump", "flush", "flushed", "restore"}

TypeOK ==
  /\ next \in [Events -> Pointers] /\ owner \in [Events -> {"sys", "att"}]
  /\ prio \in [Events -> {"LOW", "HIGH"}] /\ age \in [Events -> {"NEW", "USED"}]
  /\ first \in [Lists -> Pointers] /\ last \in [Lists -> Pointers]
  /\ cnt \in [Lists -> Nat] /\ lasthigh \in [Lists -> Nat] /\ lock \in [Lists -> BOOLEAN]
  /\ fixCnt \in [Lists -> Nat] /\ fixNum \in [Lists -> Nat] /\ fixStart \in [Lists -> Nat]
  /\ fixFirst \in [Lists -> Pointers] /\ fixCall \in [Lists -> {"READ", "DUMP"}]
  /\ at \in {"none", "GC", "CU"} /\ pc \in Active \cup {"idle", "dead"}
  /\ call \in [op : Ops, list : Lists \cup {"none"}, es : Seq(Events), n : Nat, one : BOOLEAN]
  /\ k \in Nat /\ before \in Seq(Events) /\ put \in SUBSET Events
  /\ cleanup \in BOOLEAN /\ ordered \in Seq(Events)

\* Who holds which mutex, and which call works on which list.
Control ==
  /\ \A l \in Lists : lock[l] => call.list = l /\ pc \in InLock \cup {"dead"}
  /\ pc \in InLock => lock[call.list]
  /\ pc \in Active => /\ call.list \in Lists /\ call.n >= 1 /\ at # "none"
                      /\ call.op = "restore" => cleanup
                      /\ call.op \in {"get", "flush"} => at = "CU"
  /\ pc \in ReadPcs \cup {"iNext", "iPrio", "iAge"} => Reading
  /\ pc \in WritePcs \cup {"age"} => ~Reading
  /\ Reading => call.list = IF call.op = "new" THEN "gcIn" ELSE "cuIn"
  /\ ~Reading => call.list # "cuIn"
  /\ call.op = "new" => at = "GC"
  /\ call.one => call.n = 1
  /\ pc = "age" => call.op = "put"
  /\ pc = "idle" => call.op = "none"
  /\ pc = "lock" /\ Reading => call.es = <<>>
  /\ at = "none" => pc = "idle" /\ ~cleanup /\ \A e \in Events : owner[e] = "sys"
  /\ cleanup => pc # "dead"
  /\ ~cleanup => ordered = <<>>

\* No event is in two lists, or twice in one.
Apart(now) ==
  \A l, m \in Lists : \A i \in 1..Len(now[l]), j \in 1..Len(now[m]) :
    now[l][i] = now[m][j] => l = m /\ i = j

Off(now, e) == \A l \in Lists : \A i \in 1..Len(now[l]) : now[l][i] # e

Ranks(s, h)   == h \in 0..Len(s) /\ \A i \in 1..Len(s) : IsHigh(s[i]) <=> i <= h
Sorted(l, s)  == l # "gcIn" => \E h \in Nat : Ranks(s, h)
Counted(l, s) == l \in Outputs => Ranks(s, lasthigh[l])
Ends(l, s)    == s # <<>> => first[l] = s[1] /\ last[l] = s[Len(s)]
Given(s)      == \A i \in 1..Len(s) : owner[s[i]] = "sys"
Held(l, s)    == /\ Linked(next, s) /\ cnt[l] = Len(s) /\ Ends(l, s)
                 /\ Sorted(l, s) /\ Counted(l, s) /\ Given(s)

Free(now) ==
  \A l \in Lists : ~lock[l] => Held(l, now[l]) /\ fixStart[l] = 0 /\ fixFirst[l] = NULL

\* Events of a write that are linked already.
Done == IF pc \in {"high", "give", "more"} \/ (pc = "relink" /\ cnt[L] = 0) THEN k + 1
        ELSE IF pc = "age" THEN 0 ELSE k

\* An event in no list is owned by the user or in the heart monitor's hand.
InCall(e) == \E i \in (k + 1)..Len(call.es) : call.es[i] = e

Outside(now) ==
  /\ \A e \in Events : Off(now, e) =>
       \/ owner[e] = "att"
       \/ /\ cleanup
          /\ \/ \E i \in 1..Len(ordered) : ordered[i] = e
             \/ call.op = "restore" /\ pc \in InLock \cup {"lock"} /\ InCall(e)
  /\ \A i \in 1..Len(ordered) : Off(now, ordered[i])
  /\ Distinct(ordered)
  /\ pc \in Active =>
       \A i \in 1..Len(ordered), j \in 1..Len(call.es) : ordered[i] # call.es[j]

\* A user that detaches owns only what it flushes.
Leaving ==
  ~cleanup /\ pc \in Active /\ call.op \in {"flush", "flushed"} =>
    \A e \in Events : owner[e] = "att" =>
      IF call.op = "flush" THEN \E i \in 1..Len(call.es) : call.es[i] = e
                           ELSE pc # "return" /\ InCall(e)

\* The events of a call that are in no list.
Loose(now) ==
  /\ pc \in {"age", "lock"} \cup InLock /\ ~Reading =>
       /\ call.n = Len(call.es) /\ Distinct(call.es)
       /\ \A i \in (Done + 1)..call.n : Off(now, call.es[i])
  /\ pc \in {"rEnd", "unlock"} \cup Post /\ Reading =>
       /\ call.n = Len(call.es) /\ Distinct(call.es)
       /\ \A i \in 1..call.n : Off(now, call.es[i])
  /\ pc \in {"age", "iNext", "iPrio", "iAge"} => k < call.n
  /\ pc = "lock" \/ pc = "return" => k = 0

\* Events on the way to CHICAGO_UNION or from there have been put.
Travel(now) ==
  /\ \A l \in Lists \ {"gcIn"} : \A i \in 1..Len(now[l]) : now[l][i] \in put
  /\ at = "CU" => \A e \in Events : Off(now, e) => e \in put
  /\ pc \in Active /\ ~Reading /\ L \in Outputs =>
       \A i \in 1..Len(call.es) : call.es[i] \in put

Rest == SubSeq(before, call.n + 1, Len(before))

\* A call that reads, before each of its stores.
ReadState(s) ==
  LET n     == call.n
      fixed == pc \in {"rCall", "rFix", "take", "first", "less", "rEnd"}
  IN  /\ n \in 1..Len(before) /\ Len(call.es) = n /\ \A i \in 1..n : call.es[i] = before[i]
      /\ call.one => n = 1
      /\ s = IF pc \in {"rEnd", "unlock"} THEN Rest ELSE before
      /\ Linked(next, s) /\ cnt[L] = Len(s) /\ Sorted(L, s)
      /\ s # <<>> => last[L] = s[Len(s)]
      /\ IF pc = "less" \/ (pc = "take" /\ call.one)
           THEN n < Len(before) => first[L] = before[n + 1]
           ELSE s # <<>> => first[L] = s[1]
      /\ fixStart[L] = 0
      /\ fixFirst[L] = IF pc \in {"take", "first", "less", "rEnd"} THEN before[1] ELSE NULL
      /\ fixed \/ (pc = "rNum" /\ call.one) => fixCnt[L] = Len(before)
      /\ fixed \/ (pc = "rCnt" /\ ~call.one) => fixNum[L] = n
      /\ fixed /\ pc # "rCall" => fixCall[L] = "READ"
      /\ pc \notin {"take", "first", "less"} => Given(s)
      /\ \A i \in (n + 1)..Len(before) : owner[before[i]] = "sys"
      /\ pc = "less" \/ (pc = "first" /\ ~call.one) => \A i \in 1..n : owner[before[i]] = "att"
      /\ pc = "take" => k < n /\ \A i \in 1..k : owner[before[i]] = "att"
      /\ pc \in {"rNum", "rCnt", "rCall", "rFix"} \/ (pc = "first" /\ call.one) => k = 0

\* Where the next event of a write goes.
Spot(s) == IF Ranked THEN lasthigh[L] + 1 ELSE Len(s) + 1

\* A call that writes, before each of its stores.
WriteState(s) ==
  LET n     == call.n
      early == pc \in {"null", "wCnt", "wNum", "wCall", "start"}
      late  == pc \in {"link", "relink", "high", "give", "more", "wEnd"}
      half  == pc \in {"high", "give", "more"} \/ (pc = "relink" /\ cnt[L] = 0)
  IN  /\ k \in 0..n /\ (half \/ pc \in {"link", "relink"} => k < n)
      /\ early => k = 0
      /\ pc = "null" => s = <<>>
      /\ pc \in {"wEnd", "unlock"} => k = n
      /\ s = Written(prio, L, before, call.es)[Done]
      /\ Linked(next, s) /\ Sorted(L, s)
      /\ ~half => Held(L, s)
      /\ (early /\ pc # "null") \/ pc = "link" \/ (pc = "relink" /\ ~half) =>
           (s = <<>> => first[L] = NULL)
      /\ fixFirst[L] = NULL
      /\ fixStart[L] = IF late THEN 1 ELSE 0
      /\ late \/ pc \in {"wNum", "wCall", "start"} => fixCnt[L] = Len(before)
      /\ late \/ pc \in {"wCall", "start"} => fixNum[L] = n
      /\ late \/ pc = "start" => (L = "gcIn" => fixCall[L] = "DUMP")
      /\ late => cnt[L] = Len(before) + k
      /\ pc = "relink" /\ half => s = <<E>> /\ first[L] = E /\ (L \in Outputs => lasthigh[L] = 0)
      /\ pc = "relink" /\ ~half => IF Spot(s) = Len(s) + 1 THEN next[s[Len(s)]] = E
                                                            ELSE next[E] = s[Spot(s)]
      /\ pc \in {"high", "give", "more"} =>
           /\ Len(s) = cnt[L] + 1 /\ Ends(L, s)
           /\ \A i \in 1..Len(s) : s[i] # E => owner[s[i]] = "sys"
           /\ cnt[L] = 0 => s = <<E>>
      /\ pc = "high" => Ranked /\ Ranks(s, lasthigh[L] + 1) /\ (OwnerFirst => Given(s))
      /\ pc = "give" => IF Ranked /\ OwnerFirst THEN Ranks(s, lasthigh[L] + 1) ELSE Counted(L, s)
      /\ pc = "more" => Counted(L, s) /\ Given(s)

\* A list whose user died while it read.
DeadRead(s) ==
  /\ call.n \in 1..Len(before) /\ fixStart[L] = 0
  /\ \/ fixFirst[L] = NULL /\ Held(L, s) /\ s \in {before, Rest}
     \/ /\ fixFirst[L] = before[1] /\ fixCall[L] = "READ"
        /\ fixCnt[L] = Len(before) /\ fixNum[L] = call.n
        /\ \/ /\ s = before /\ Linked(next, s) /\ Sorted(L, s)
              /\ cnt[L] = Len(s) /\ last[L] = s[Len(s)]
           \/ s = Rest /\ Held(L, s)

\* A list whose user died while it wrote.
DeadWrite(s) ==
  /\ fixFirst[L] = NULL
  /\ \E i \in 0..call.n : s = Written(prio, L, before, call.es)[i]
  /\ \/ fixStart[L] = 0 /\ Held(L, s)
     \/ /\ fixStart[L] = 1 /\ (L = "gcIn" => fixCall[L] = "DUMP")
        /\ Len(s) <= fixCnt[L] + fixNum[L]
        /\ \/ cnt[L] = fixCnt[L] + fixNum[L] /\ Held(L, s)
           \/ /\ cnt[L] # fixCnt[L] + fixNum[L]
              /\ Linked(next, s) /\ Sorted(L, s)
              /\ \/ s = <<>> /\ Held(L, s) /\ first[L] = NULL
                 \/ s # <<>> /\ first[L] = s[1] /\ IF cnt[L] = 0 THEN Len(s) = 1
                                                   ELSE last[L] = s[Len(s)]

Locked(now) ==
  /\ pc \in InLock => IF Reading THEN ReadState(now[L]) ELSE WriteState(now[L])
  /\ pc = "dead" /\ call.list \in Lists => 
       (lock[L] => IF Reading THEN DeadRead(now[L]) ELSE DeadWrite(now[L]))

Good(now) ==
  /\ Control /\ Apart(now) /\ Free(now) /\ Outside(now) /\ Leaving /\ Loose(now)
  /\ Travel(now) /\ Locked(now)

Inv == TypeOK /\ \E now \in [Lists -> Seq(Events)] : Good(now)
-----------------------------------------------------------------------------
(* Sequences of events, and the operators that walk along the pointers.    *)

\* A set of numbers that is not empty has a smallest one.
LEMMA SmallestNumber ==
  ASSUME NEW S \in SUBSET Nat, S # {}
  PROVE  \E x \in S : \A y \in S : x <= y
<1> DEFINE R == OpToRel(<, Nat)
<1>1. R = {q \in Nat \X Nat : q[1] < q[2]}
  BY DEF OpToRel
<1>2. IsWellFoundedOn(R, Nat)
  BY NatLessThanWellFounded
<1> HIDE DEF R
<1>3. PICK x \in S : \A y \in S : ~(<<y, x>> \in R)
  BY <1>2, WFMin
<1>4. ASSUME NEW y \in S PROVE x <= y
  <2>1. x \in Nat /\ y \in Nat
    OBVIOUS
  <2>2. y < x => <<y, x>> \in R
    BY <1>1, <2>1
  <2> QED
    BY <1>3, <2>1, <2>2
<1> QED
  BY <1>4

\* Events are numbers, and NULL is none of them.
LEMMA EventNumbers ==
  /\ NEvents \in Nat \ {0} /\ Events \subseteq Nat
  /\ \A e \in Events : e \in Pointers /\ e # NULL
  /\ NULL \in Pointers
  BY ETRepairAssumption DEF Events, Pointers, NULL

\* A sequence of events.
LEMMA SeqFacts ==
  ASSUME NEW s \in Seq(Events)
  PROVE  /\ Len(s) \in Nat /\ DOMAIN s = 1..Len(s)
         /\ \A i \in 1..Len(s) : s[i] \in Events
         /\ s = <<>> <=> Len(s) = 0
  OBVIOUS

\* Two sequences with the same elements are equal.
LEMMA SeqEqual ==
  ASSUME NEW s \in Seq(Events), NEW t \in Seq(Events), Len(s) = Len(t),
         \A i \in 1..Len(s) : s[i] = t[i]
  PROVE  s = t
<1>1. s = [i \in 1..Len(s) |-> s[i]] /\ t = [i \in 1..Len(t) |-> t[i]]
  OBVIOUS
<1> QED
  BY <1>1

\* A function on 1..n is a sequence of length n.
LEMMA SeqOfFunction ==
  ASSUME NEW n \in Nat, NEW f \in [1..n -> Events]
  PROVE  f \in Seq(Events) /\ Len(f) = n
  OBVIOUS

\* What is left of a sequence without its first n elements.
LEMMA CutIs ==
  ASSUME NEW s \in Seq(Events), NEW n \in 0..Len(s)
  PROVE  LET r == SubSeq(s, n + 1, Len(s))
         IN  /\ r \in Seq(Events) /\ Len(r) \in Nat /\ Len(r) = Len(s) - n
             /\ \A i \in 1..Len(r) : r[i] = s[n + i] /\ n + i \in 1..Len(s)
<1> DEFINE r == SubSeq(s, n + 1, Len(s))
<1>0. Len(s) \in Nat
  BY SeqFacts
<1>1. r \in Seq(Events) /\ Len(r) = Len(s) - n
  BY <1>0
<1>2. ASSUME NEW i \in 1..(Len(s) - n) PROVE r[i] = s[n + i] /\ n + i \in 1..Len(s)
  <2>1. r[i] = s[(n + 1) + i - 1]
    BY <1>0
  <2>2. (n + 1) + i - 1 = n + i /\ n + i \in 1..Len(s)
    BY <1>0
  <2> QED
    BY <2>1, <2>2
<1> HIDE DEF r
<1>3. Len(r) \in Nat /\ \A i \in 1..Len(r) : r[i] = s[n + i] /\ n + i \in 1..Len(s)
  BY <1>0, <1>1, <1>2
<1> QED
  BY <1>1, <1>3 DEF r

\* The recursion of Chain.
Chained(nx, e, n, c) ==
  c = [i \in 1..n |-> IF i = 1 THEN e ELSE IF c[i - 1] \in Events THEN nx[c[i - 1]] ELSE NULL]

\* Along the pointers of linked events the walk finds these events.
LEMMA ChainIs ==
  ASSUME NEW nx, NEW s \in Seq(Events), Linked(nx, s),
         NEW n \in 0..Len(s), NEW e, n > 0 => e = s[1]
  PROVE  /\ Chain(nx, e, n) \in [1..n -> Events]
         /\ \A i \in 1..n : Chain(nx, e, n)[i] = s[i]
<1> DEFINE C == Chain(nx, e, n)
           g == [i \in 1..n |-> s[i]]
<1>1. /\ Len(s) \in Nat /\ n \in Nat
      /\ \A i \in 1..Len(s) : s[i] \in Events
  BY SeqFacts
<1>2. ASSUME NEW i \in 1..n
      PROVE  g[i] = IF i = 1 THEN e ELSE IF g[i - 1] \in Events THEN nx[g[i - 1]] ELSE NULL
  <2>1. CASE i = 1
    BY <2>1, <1>1
  <2>2. CASE i # 1
    <3>1. i - 1 \in 1..n /\ i - 1 \in 1..(Len(s) - 1) /\ (i - 1) + 1 = i
      BY <2>2, <1>1
    <3>2. nx[s[i - 1]] = s[i] /\ s[i - 1] \in Events
      BY <3>1, <1>1 DEF Linked
    <3> QED
      BY <2>2, <3>1, <3>2
  <2> QED
    BY <2>1, <2>2
<1>3. Chained(nx, e, n, g)
  BY <1>2 DEF Chained
<1>4. C = CHOOSE c : Chained(nx, e, n, c)
  BY DEF Chain, Chained
<1>5. Chained(nx, e, n, C)
  BY <1>3, <1>4
<1> HIDE DEF C
<1>6. /\ DOMAIN C = 1..n
      /\ \A i \in 1..n : C[i] = IF i = 1 THEN e
                                ELSE IF C[i - 1] \in Events THEN nx[C[i - 1]] ELSE NULL
  BY <1>5 DEF Chained
<1> DEFINE Bad == {i \in 1..n : C[i] # s[i]}
<1>7. ASSUME Bad # {} PROVE FALSE
  <2>a. Bad \in SUBSET Nat
    BY <1>1
  <2>1. PICK i \in Bad : \A j \in Bad : i <= j
    BY <2>a, <1>7, SmallestNumber, Zenon
  <2>2. i # 1 /\ i - 1 \in 1..n /\ i - 1 \in 1..(Len(s) - 1) /\ (i - 1) + 1 = i /\ ~(i <= i - 1)
    BY <2>1, <1>1, <1>6
  <2>3. C[i - 1] = s[i - 1]
    BY <2>1, <2>2
  <2>4. nx[s[i - 1]] = s[i] /\ s[i - 1] \in Events
    BY <2>2, <1>1 DEF Linked
  <2>5. C[i] = s[i]
    BY <2>1, <2>2, <2>3, <2>4, <1>6
  <2> QED
    BY <2>5, <2>1
<1>8. \A i \in 1..n : C[i] = s[i]
  BY <1>7
<1>9. C = [i \in 1..n |-> C[i]]
  BY <1>5 DEF Chained
<1>10. C \in [1..n -> Events]
  <2>1. \A i \in 1..n : C[i] \in Events
    BY <1>1, <1>8
  <2> QED
    BY <2>1, <1>9
<1> QED
  BY <1>8, <1>10 DEF C

\* The contents of a list that holds the events of s, in this order.
LEMMA ContentsAre ==
  ASSUME NEW nx, NEW s \in Seq(Events), Linked(nx, s), NEW e, s # <<>> => e = s[1]
  PROVE  Chain(nx, e, Len(s)) = s
<1>1. Len(s) \in Nat /\ (s = <<>> <=> Len(s) = 0)
  BY SeqFacts
<1>2. /\ Chain(nx, e, Len(s)) \in [1..Len(s) -> Events]
      /\ \A i \in 1..Len(s) : Chain(nx, e, Len(s))[i] = s[i]
  BY <1>1, ChainIs
<1>3. Chain(nx, e, Len(s)) \in Seq(Events) /\ Len(Chain(nx, e, Len(s))) = Len(s)
  BY <1>1, <1>2, SeqOfFunction
<1> QED
  BY <1>2, <1>3, SeqEqual

\* The repair's walk from the first to the last event of such a list.
LEMMA WalkIs ==
  ASSUME NEW s \in Seq(Events), s # <<>>, Linked(next, s), Distinct(s),
         NEW max \in Nat, Len(s) <= max
  PROVE  Walk(s[1], s[Len(s)], max) = s
<1> DEFINE P(i) == /\ Chain(next, s[1], i)[i] = s[Len(s)]
                   /\ \A j \in 1..(i - 1) : Chain(next, s[1], j)[j] # s[Len(s)]
           n == CHOOSE i \in 1..max : P(i)
<1>1. Len(s) \in Nat \ {0} /\ Len(s) \in 1..max
  BY SeqFacts
<1>2. \A i \in 1..Len(s) : Chain(next, s[1], i)[i] = s[i]
  BY <1>1, ChainIs
<1>3. P(Len(s))
  BY <1>1, <1>2 DEF Distinct
<1>4. n \in 1..max /\ P(n)
  BY <1>1, <1>3, Zenon
<1>5. n = Len(s)
  <2>1. ~(n < Len(s))
    BY <1>1, <1>2, <1>4 DEF Distinct
  <2>2. ~(Len(s) < n)
    BY <1>1, <1>2, <1>4
  <2> QED
    BY <2>1, <2>2, <1>1, <1>4
<1>6. Walk(s[1], s[Len(s)], max) = Chain(next, s[1], n)
  BY Zenon DEF Walk
<1> HIDE DEF n
<1> QED
  BY <1>5, <1>6, ContentsAre

\* What InsertAt returns.
LEMMA Inserted ==
  ASSUME NEW s \in Seq(Events), NEW p \in 1..(Len(s) + 1), NEW e \in Events
  PROVE  /\ InsertAt(s, p, e) \in Seq(Events) /\ Len(InsertAt(s, p, e)) = Len(s) + 1
         /\ \A i \in 1..(Len(s) + 1) :
              InsertAt(s, p, e)[i] = IF i < p THEN s[i] ELSE IF i = p THEN e ELSE s[i - 1]
<1>1. Len(s) \in Nat
  BY SeqFacts
<1> DEFINE a == SubSeq(s, 1, p - 1)
           b == SubSeq(s, p, Len(s))
<1>2. a \in Seq(Events) /\ Len(a) = p - 1 /\ \A i \in 1..(p - 1) : a[i] = s[i]
  BY <1>1
<1>3. b \in Seq(Events) /\ Len(b) = Len(s) - p + 1 /\ \A i \in 1..(Len(s) - p + 1) : b[i] = s[p + i - 1]
  BY <1>1
<1>4. InsertAt(s, p, e) = (a \o <<e>>) \o b
  BY DEF InsertAt
<1> HIDE DEF a, b
<1> DEFINE c == a \o <<e>>
<1>5. c \in Seq(Events) /\ Len(c) = p /\ (\A i \in 1..(p - 1) : c[i] = s[i]) /\ c[p] = e
  BY <1>1, <1>2
<1> HIDE DEF c
<1>6. c \o b \in Seq(Events) /\ Len(c \o b) = Len(s) + 1
  BY <1>1, <1>3, <1>5
<1>7. ASSUME NEW i \in 1..(Len(s) + 1)
      PROVE  (c \o b)[i] = IF i < p THEN s[i] ELSE IF i = p THEN e ELSE s[i - 1]
  <2>1. CASE i <= p
    BY <2>1, <1>1, <1>3, <1>5
  <2>2. CASE i > p
    <3>1. (c \o b)[i] = b[i - p] /\ i - p \in 1..(Len(s) - p + 1) /\ p + (i - p) - 1 = i - 1
      BY <2>2, <1>1, <1>3, <1>5
    <3> QED
      BY <2>2, <3>1, <1>3, <1>1
  <2>3. i <= p \/ i > p
    BY <1>1
  <2> QED
    BY <2>1, <2>2, <2>3
<1> QED
  BY <1>4, <1>6, <1>7 DEF c

\* Where the high priority events come first, NHigh counts them.
LEMMA NHighIs ==
  ASSUME NEW pr, NEW s \in Seq(Events), NEW h \in 0..Len(s),
         \A i \in 1..Len(s) : pr[s[i]] = "HIGH" <=> i <= h
  PROVE  NHigh(pr, s) = h
<1>1. Len(s) \in Nat /\ h \in Nat
  BY SeqFacts
<1>2. {i \in 1..Len(s) : pr[s[i]] = "HIGH"} = 1..h
  BY <1>1
<1>3. Cardinality(1..h) = h
  BY <1>1, FS_Interval
<1> QED
  BY <1>2, <1>3 DEF NHigh

\* There are no more high priority events than events.
LEMMA NHighBounded ==
  ASSUME NEW pr, NEW s \in Seq(Events)
  PROVE  NHigh(pr, s) \in 0..Len(s)
<1>1. Len(s) \in Nat
  BY SeqFacts
<1> DEFINE S == {i \in 1..Len(s) : pr[s[i]] = "HIGH"}
<1>2. S \in SUBSET (1..Len(s))
  OBVIOUS
<1>3. IsFiniteSet(1..Len(s)) /\ Cardinality(1..Len(s)) = Len(s)
  BY <1>1, FS_Interval
<1>4. NHigh(pr, s) = Cardinality(S)
  BY DEF NHigh
<1> HIDE DEF S
<1>5. IsFiniteSet(S) /\ Cardinality(S) <= Len(s)
  BY <1>2, <1>3, FS_Subset
<1>6. Cardinality(S) \in Nat
  BY <1>5, FS_CardinalityType
<1> QED
  BY <1>1, <1>4, <1>5, <1>6

\* The slot of the i-th event of es in the list s.
Slot(pr, l, s, e) == IF l # "gcIn" /\ pr[e] = "HIGH" THEN NHigh(pr, s) + 1 ELSE Len(s) + 1

\* The recursion of Written, for the first n events of es.
WrittenTo(pr, l, s, es, n, w) ==
  w = [i \in 0..n |-> IF i = 0 THEN s
                      ELSE InsertAt(w[i - 1], Slot(pr, l, w[i - 1], es[i]), es[i])]

\* There is such a function.
LEMMA WrittenExists ==
  ASSUME NEW pr, NEW l, NEW s, NEW es, NEW m \in Nat
  PROVE  \E w : WrittenTo(pr, l, s, es, m, w)
<1> DEFINE Missing == {n \in Nat : ~ \E w : WrittenTo(pr, l, s, es, n, w)}
           Next1(t, i) == InsertAt(t, Slot(pr, l, t, es[i]), es[i])
<1>0. \A n, w : WrittenTo(pr, l, s, es, n, w)
                  <=> w = [i \in 0..n |-> IF i = 0 THEN s ELSE Next1(w[i - 1], i)]
  BY DEF WrittenTo
<1> HIDE DEF Next1
<1>1. ASSUME Missing # {} PROVE FALSE
  <2>1. PICK n \in Missing : \A i \in Missing : n <= i
    BY <1>1, SmallestNumber
  <2>2. CASE n = 0
    <3> DEFINE z == [i \in 0..0 |-> s]
    <3>a. z = [i \in 0..0 |-> IF i = 0 THEN s ELSE Next1(z[i - 1], i)]
      OBVIOUS
    <3>1. WrittenTo(pr, l, s, es, 0, z)
      BY <3>a, <1>0
    <3> QED
      BY <2>2, <3>1, <2>1
  <2>3. CASE n # 0
    <3>1. n \in Nat /\ n - 1 \in Nat /\ ~(n <= n - 1)
      BY <2>3
    <3>2. n - 1 \notin Missing
      BY <3>1, <2>1
    <3>3. PICK w : WrittenTo(pr, l, s, es, n - 1, w)
      BY <3>1, <3>2
    <3> DEFINE h == [i \in 0..n |-> IF i = n THEN Next1(w[n - 1], n) ELSE w[i]]
    <3>4. ASSUME NEW i \in 0..n
          PROVE  h[i] = IF i = 0 THEN s ELSE Next1(h[i - 1], i)
      <4>1. CASE i = n
        BY <4>1, <3>1
      <4>2. CASE i # n
        <5>1. i \in 0..(n - 1) /\ h[i] = w[i] /\ (i # 0 => h[i - 1] = w[i - 1])
          BY <4>2, <3>1
        <5>2. w[i] = IF i = 0 THEN s ELSE Next1(w[i - 1], i)
          BY <3>3, <5>1, <1>0
        <5> QED
          BY <5>1, <5>2
      <4> QED
        BY <4>1, <4>2
    <3>5. WrittenTo(pr, l, s, es, n, h)
      BY <3>4, <1>0
    <3> QED
      BY <3>5, <2>1
  <2> QED
    BY <2>2, <2>3
<1> QED
  BY <1>1

WriteOf(pr, l, s, es, w) ==
  /\ w[0] = s
  /\ \A i \in 0..Len(es) : w[i] \in Seq(Events) /\ Len(w[i]) = Len(s) + i
  /\ \A i \in 1..Len(es) : /\ Slot(pr, l, w[i - 1], es[i]) \in 1..(Len(w[i - 1]) + 1)
                           /\ w[i] = InsertAt(w[i - 1], Slot(pr, l, w[i - 1], es[i]), es[i])

\* What Written returns: before anything is written the list itself, and each
\* event is put into its slot.
LEMMA WrittenIs ==
  ASSUME NEW pr, NEW l, NEW s \in Seq(Events), NEW es \in Seq(Events)
  PROVE  WriteOf(pr, l, s, es, Written(pr, l, s, es))
<1> DEFINE w == Written(pr, l, s, es)
<1>1. Len(s) \in Nat /\ Len(es) \in Nat /\ \A i \in 1..Len(es) : es[i] \in Events
  BY SeqFacts
<1>2. \E f : WrittenTo(pr, l, s, es, Len(es), f)
  BY <1>1, WrittenExists
<1>3. w = CHOOSE f : WrittenTo(pr, l, s, es, Len(es), f)
  BY DEF Written, WrittenTo, Slot
<1>4. WrittenTo(pr, l, s, es, Len(es), w)
  BY <1>2, <1>3
<1> HIDE DEF w
<1>5. /\ w[0] = s
      /\ \A i \in 1..Len(es) : w[i] = InsertAt(w[i - 1], Slot(pr, l, w[i - 1], es[i]), es[i])
  BY <1>4, <1>1 DEF WrittenTo
<1>6. ASSUME NEW t \in Seq(Events), NEW e \in Events
      PROVE  Slot(pr, l, t, e) \in 1..(Len(t) + 1)
  <2>1. Len(t) \in Nat /\ NHigh(pr, t) \in 0..Len(t)
    BY SeqFacts, NHighBounded
  <2> QED
    BY <2>1 DEF Slot
<1> DEFINE Bad == {i \in 0..Len(es) : ~(w[i] \in Seq(Events) /\ Len(w[i]) = Len(s) + i)}
<1>7. ASSUME Bad # {} PROVE FALSE
  <2>a. Bad \in SUBSET Nat
    BY <1>1
  <2>1. PICK i \in Bad : \A j \in Bad : i <= j
    BY <2>a, <1>7, SmallestNumber, Zenon
  <2>2. i \in 1..Len(es) /\ i - 1 \in 0..Len(es) /\ ~(i <= i - 1)
    BY <2>1, <1>1, <1>5
  <2>3. w[i - 1] \in Seq(Events) /\ Len(w[i - 1]) = Len(s) + (i - 1)
    BY <2>1, <2>2
  <2>b. es[i] \in Events /\ w[i] = InsertAt(w[i - 1], Slot(pr, l, w[i - 1], es[i]), es[i])
    BY <2>2, <1>1, <1>5
  <2>c. Slot(pr, l, w[i - 1], es[i]) \in 1..(Len(w[i - 1]) + 1)
    BY <2>b, <2>3, <1>6
  <2>d. ASSUME NEW t \in Seq(Events), NEW p \in 1..(Len(t) + 1), NEW e \in Events
        PROVE  InsertAt(t, p, e) \in Seq(Events) /\ Len(InsertAt(t, p, e)) = Len(t) + 1
    BY Inserted
  <2>4. w[i] \in Seq(Events) /\ Len(w[i]) = Len(w[i - 1]) + 1
    BY <2>b, <2>c, <2>3, <2>d, Zenon
  <2>5. Len(w[i]) = Len(s) + i
    BY <2>2, <2>3, <2>4, <1>1
  <2> QED
    BY <2>1, <2>4, <2>5
<1>8. \A i \in 0..Len(es) : w[i] \in Seq(Events) /\ Len(w[i]) = Len(s) + i
  BY <1>7
<1>9. ASSUME NEW i \in 1..Len(es)
      PROVE  Slot(pr, l, w[i - 1], es[i]) \in 1..(Len(w[i - 1]) + 1)
  <2>1. i - 1 \in 0..Len(es)
    BY <1>1
  <2> QED
    BY <2>1, <1>1, <1>6, <1>8
<1> QED
  <2>1. WriteOf(pr, l, s, es, w)
    BY <1>5, <1>8, <1>9 DEF WriteOf
  <2> QED
    BY <2>1 DEF w

\* Stringing together events that are linked changes no pointer.
LEMMA StringSame ==
  ASSUME NEW nx \in [Events -> Pointers], NEW s \in Seq(Events), Distinct(s), Linked(nx, s)
  PROVE  String(nx, s) = nx
<1>1. Len(s) \in Nat
  BY SeqFacts
<1>2. ASSUME NEW e \in Events, NEW i \in 1..(Len(s) - 1), s[i] = e
      PROVE  s[CHOOSE j \in 2..Len(s) : s[j - 1] = e] = nx[e]
  <2> DEFINE j == CHOOSE j \in 2..Len(s) : s[j - 1] = e
  <2>1. i + 1 \in 2..Len(s) /\ s[(i + 1) - 1] = e
    BY <1>1, <1>2
  <2>2. j \in 2..Len(s) /\ s[j - 1] = e
    BY <2>1, Zenon
  <2> HIDE DEF j
  <2>3. j - 1 = i
    BY <2>2, <1>1, <1>2 DEF Distinct
  <2>4. nx[e] = s[i + 1] /\ j = i + 1
    BY <2>2, <2>3, <1>1, <1>2 DEF Linked
  <2> QED
    BY <2>4 DEF j
<1>3. \A e \in Events : String(nx, s)[e] = nx[e]
  BY <1>2, Zenon DEF String
<1>4. String(nx, s) = [e \in Events |-> String(nx, s)[e]] /\ nx = [e \in Events |-> nx[e]]
  BY DEF String
<1> QED
  BY <1>3, <1>4

\* Where the high priority events come first, Leading counts them.
LEMMA LeadingIs ==
  ASSUME NEW s \in Seq(Events), NEW h \in 0..Len(s), Ranks(s, h)
  PROVE  Leading(s) = h
<1> DEFINE P(g) == /\ \A i \in 1..g : IsHigh(s[i])
                   /\ g < Len(s) => ~IsHigh(s[g + 1])
<1>1. Len(s) \in Nat
  BY SeqFacts
<1>2. P(h)
  BY <1>1 DEF Ranks
<1>3. ASSUME NEW g \in 0..Len(s), P(g) PROVE g = h
  <2>1. ~(g < h)
    <3>1. g < h => g + 1 \in 1..Len(s) /\ g + 1 <= h
      BY <1>1
    <3> QED
      BY <3>1, <1>1, <1>3 DEF Ranks
  <2>2. ~(h < g)
    <3>1. h < g => h + 1 \in 1..g /\ h + 1 \in 1..Len(s) /\ ~(h + 1 <= h)
      BY <1>1
    <3> QED
      BY <3>1, <1>1, <1>3 DEF Ranks
  <2> QED
    BY <2>1, <2>2, <1>1
<1>4. Leading(s) = CHOOSE g \in 0..Len(s) : P(g)
  BY Zenon DEF Leading
<1> HIDE DEF P
<1> QED
  BY <1>2, <1>3, <1>4, Zenon

-----------------------------------------------------------------------------
(* The invariant implies the properties.                                   *)

Model(now) == TypeOK /\ now \in [Lists -> Seq(Events)] /\ Good(now)

\* now[l] is a sequence of events.
LEMMA NowTypes ==
  ASSUME NEW now, Model(now), NEW l \in Lists
  PROVE  /\ now[l] \in Seq(Events) /\ Len(now[l]) \in Nat
         /\ \A i \in 1..Len(now[l]) : now[l][i] \in Events
         /\ now[l] = <<>> <=> Len(now[l]) = 0
<1>1. now[l] \in Seq(Events)
  BY DEF Model
<1> QED
  BY <1>1, SeqFacts

\* An event has one place in the lists.
LEMMA OnePlace ==
  ASSUME NEW now, Apart(now), NEW l \in Lists, NEW m \in Lists,
         NEW i \in 1..Len(now[l]), NEW j \in 1..Len(now[m]), now[l][i] = now[m][j]
  PROVE  l = m /\ i = j
  BY DEF Apart

\* No event is twice in a list.
LEMMA NowDistinct ==
  ASSUME NEW now, Apart(now), NEW l \in Lists
  PROVE  Distinct(now[l])
  BY DEF Apart, Distinct

\* The contents of a list that nobody has locked.
LEMMA ContentsNow ==
  ASSUME NEW now, Model(now), NEW l \in Lists, ~lock[l]
  PROVE  Contents(l) = now[l] /\ Held(l, now[l]) /\ fixStart[l] = 0 /\ fixFirst[l] = NULL
<1>1. Held(l, now[l]) /\ fixStart[l] = 0 /\ fixFirst[l] = NULL
  BY DEF Model, Good, Free
<1>2. Linked(next, now[l]) /\ cnt[l] = Len(now[l]) /\ (now[l] # <<>> => first[l] = now[l][1])
  BY <1>1 DEF Held, Ends
<1>3. Contents(l) = now[l]
  BY <1>2, NowTypes, ContentsAre DEF Contents
<1> QED
  BY <1>1, <1>3

\* The lists are sound.
LEMMA ModelSound ==
  ASSUME NEW now, Model(now)
  PROVE  ListsSound
<1> SUFFICES ASSUME NEW l \in Lists, ~lock[l]
             PROVE  /\ ToSet(Contents(l)) \subseteq Events \ Owned
                    /\ Distinct(Contents(l))
                    /\ Contents(l) # <<>> => Last(Contents(l)) = last[l]
                    /\ l # "gcIn" => \E h \in 0..Len(Contents(l)) :
                         /\ \A i \in 1..Len(Contents(l)) : IsHigh(Contents(l)[i]) <=> i <= h
                         /\ l \in Outputs => lasthigh[l] = h
                    /\ fixStart[l] = 0 /\ fixFirst[l] = NULL
  BY Zenon DEF ListsSound
<1> DEFINE c == now[l]
<1>1. Contents(l) = c /\ Held(l, c) /\ fixStart[l] = 0 /\ fixFirst[l] = NULL
  BY ContentsNow
<1>2. c \in Seq(Events) /\ Len(c) \in Nat /\ \A i \in 1..Len(c) : c[i] \in Events
  BY NowTypes
<1>3. Distinct(c)
  BY NowDistinct DEF Model, Good
<1> HIDE DEF c
<1>4. ToSet(c) \subseteq Events \ Owned
  BY <1>1, <1>2 DEF ToSet, Held, Given, Owned
<1>5. c # <<>> => Last(c) = last[l]
  BY <1>1 DEF Held, Ends, Last
<1>6. l # "gcIn" => \E h \in 0..Len(c) : /\ \A i \in 1..Len(c) : IsHigh(c[i]) <=> i <= h
                                         /\ l \in Outputs => lasthigh[l] = h
  <2>1. CASE l \in Outputs
    BY <2>1, <1>1, Zenon DEF Held, Counted, Ranks
  <2>2. CASE l \notin Outputs
    BY <2>2, <1>1, Zenon DEF Held, Sorted, Ranks
  <2> QED
    BY <2>1, <2>2
<1> QED
  BY <1>1, <1>3, <1>4, <1>5, <1>6, Zenon

\* Where every list is unlocked, the heart monitor's hand is what Outside
\* says.
LEMMA HandIs ==
  ASSUME NEW now, Model(now), \A l \in Lists : ~lock[l], NEW e \in Events
  PROVE  /\ e \in InHand => Off(now, e)
         /\ Off(now, e) => owner[e] = "att" \/ e \in InHand
<1>1. pc \notin InLock
  BY Zenon DEF Model, Good, Control, Active
<1>2. call.es \in Seq(Events) /\ ordered \in Seq(Events) /\ cleanup \in BOOLEAN
  BY DEF Model, TypeOK
<1>3. DOMAIN call.es = 1..Len(call.es) /\ DOMAIN ordered = 1..Len(ordered) /\ Len(call.es) \in Nat
  BY <1>2, SeqFacts
<1>4. ToSet(ordered) = {ordered[i] : i \in 1..Len(ordered)}
      /\ ToSet(call.es) = {call.es[i] : i \in 1..Len(call.es)}
  BY <1>3 DEF ToSet
<1>5. ASSUME e \in ToSet(ordered) PROVE Off(now, e)
  BY <1>5, <1>4 DEF Model, Good, Outside
<1>6. ASSUME pc = "lock", call.op = "restore"
      PROVE  k = 0 /\ \A i \in 1..Len(call.es) : Off(now, call.es[i])
  <2>1. ~Reading /\ Loose(now) /\ k = 0
    BY <1>6 DEF Model, Good, Loose, Reading
  <2>2. Done = 0
    BY <2>1, <1>6 DEF Done
  <2>3. call.n = Len(call.es) /\ \A i \in (Done + 1)..call.n : Off(now, call.es[i])
    BY <2>1, <1>6 DEF Loose
  <2> QED
    BY <2>1, <2>2, <2>3
<1>7. e \in InHand => Off(now, e)
  BY <1>4, <1>5, <1>6 DEF InHand
<1>8. ASSUME Off(now, e), owner[e] # "att" PROVE e \in InHand
  <2>1. cleanup /\ \/ \E i \in 1..Len(ordered) : ordered[i] = e
                   \/ call.op = "restore" /\ pc \in InLock \cup {"lock"} /\ InCall(e)
    BY <1>8 DEF Model, Good, Outside
  <2>2. CASE \E i \in 1..Len(ordered) : ordered[i] = e
    BY <2>1, <2>2, <1>4 DEF InHand
  <2>3. CASE call.op = "restore" /\ pc \in InLock \cup {"lock"} /\ InCall(e)
    <3>1. pc = "lock" /\ call.op = "restore" /\ k = 0
      BY <2>3, <1>1, <1>6
    <3>2. \E i \in 1..Len(call.es) : call.es[i] = e
      BY <2>3, <3>1, <1>3 DEF InCall
    <3> QED
      BY <2>1, <3>1, <3>2, <1>4 DEF InHand
  <2> QED
    BY <2>1, <2>2, <2>3
<1> QED
  BY <1>7, <1>8

\* No event is lost.
LEMMA ModelConserved ==
  ASSUME NEW now, Model(now)
  PROVE  EventsConserved
<1> DEFINE has == [l \in Lists |-> ToSet(Contents(l))]
<1> SUFFICES ASSUME \A l \in Lists : ~lock[l], NEW e \in Events
             PROVE  Cardinality({l \in Lists : e \in has[l]})
                      = IF owner[e] = "att" \/ e \in InHand THEN 0 ELSE 1
  BY Zenon DEF EventsConserved
<1>1. ASSUME NEW l \in Lists
      PROVE  e \in has[l] <=> \E i \in 1..Len(now[l]) : now[l][i] = e
  <2>1. has[l] = ToSet(now[l])
    BY ContentsNow
  <2>2. DOMAIN now[l] = 1..Len(now[l])
    BY NowTypes, SeqFacts
  <2> QED
    BY <2>1, <2>2 DEF ToSet
<1> HIDE DEF has
<1> DEFINE S == {l \in Lists : e \in has[l]}
<1>2. Off(now, e) <=> S = {}
  BY <1>1 DEF Off
<1>3. owner[e] = "att" => Off(now, e)
  <2>1. \A l \in Lists : Given(now[l])
    BY ContentsNow DEF Held
  <2> QED
    BY <2>1 DEF Given, Off
<1>4. CASE owner[e] = "att" \/ e \in InHand
  <2>1. S = {}
    BY <1>2, <1>3, <1>4, HandIs
  <2> QED
    BY <2>1, <1>4, FS_EmptySet
<1>5. CASE ~(owner[e] = "att" \/ e \in InHand)
  <2>1. S # {}
    BY <1>2, <1>5, HandIs
  <2>2. PICK l \in Lists : l \in S
    BY <2>1
  <2>3. ASSUME NEW m \in S PROVE m = l
    <3>1. PICK i \in 1..Len(now[l]) : now[l][i] = e
      BY <2>2, <1>1
    <3>2. m \in Lists /\ \E j \in 1..Len(now[m]) : now[m][j] = e
      BY <1>1
    <3> QED
      BY <3>1, <3>2, Zenon DEF Model, Good, Apart
  <2>4. S = {l}
    BY <2>2, <2>3
  <2> QED
    BY <2>4, <1>5, FS_Singleton
<1> QED
  BY <1>4, <1>5

\* Events on the way to CHICAGO_UNION have been put.
LEMMA ModelTravel ==
  ASSUME NEW now, Model(now)
  PROVE  OnlyPutEventsTravel
<1> SUFFICES ASSUME NEW l \in Lists \ {"gcIn"}, ~lock[l]
             PROVE  ToSet(Contents(l)) \subseteq put
  BY DEF OnlyPutEventsTravel
<1>1. Contents(l) = now[l] /\ DOMAIN now[l] = 1..Len(now[l])
  BY ContentsNow, NowTypes, SeqFacts
<1>2. \A i \in 1..Len(now[l]) : now[l][i] \in put
  BY DEF Model, Good, Travel
<1> QED
  BY <1>1, <1>2 DEF ToSet

-----------------------------------------------------------------------------
(* What a step leaves alone.                                               *)

KeptList(l) ==
  /\ cnt'[l] = cnt[l] /\ first'[l] = first[l] /\ last'[l] = last[l]
  /\ lasthigh'[l] = lasthigh[l]

Kept(l) == KeptList(l) /\ fixStart'[l] = fixStart[l] /\ fixFirst'[l] = fixFirst[l]

KeptEvents(s) ==
  \A i \in 1..Len(s) : /\ next'[s[i]] = next[s[i]] /\ owner'[s[i]] = owner[s[i]]
                       /\ prio'[s[i]] = prio[s[i]]

\* The order of priorities is that of the same events.
LEMMA RanksSame ==
  ASSUME NEW s \in Seq(Events), \A i \in 1..Len(s) : prio'[s[i]] = prio[s[i]],
         NEW h, Ranks(s, h)
  PROVE  Ranks(s, h)'
  BY DEF Ranks, IsHigh

\* The order by priority depends on prio only.
LEMMA SortedSame ==
  ASSUME NEW l, NEW s \in Seq(Events), \A i \in 1..Len(s) : prio'[s[i]] = prio[s[i]],
         Sorted(l, s)
  PROVE  Sorted(l, s)'
<1>1. ASSUME NEW h, Ranks(s, h) PROVE Ranks(s, h)'
  BY <1>1, RanksSame
<1> QED
  BY <1>1, Zenon DEF Sorted

\* A list stays as it is.
LEMMA HeldSame ==
  ASSUME NEW l \in Lists, NEW s \in Seq(Events), KeptList(l), KeptEvents(s), Held(l, s)
  PROVE  Held(l, s)'
<1>0. Len(s) \in Nat
  BY SeqFacts
<1>p. \A i \in 1..Len(s) : prio'[s[i]] = prio[s[i]]
  BY DEF KeptEvents
<1>1. Linked(next', s)
  <2>1. ASSUME NEW i \in 1..(Len(s) - 1) PROVE next'[s[i]] = s[i + 1]
    BY <1>0 DEF KeptEvents, Held, Linked
  <2> QED
    BY <2>1 DEF Linked
<1>2. cnt'[l] = Len(s) /\ Ends(l, s)'
  BY DEF Held, Ends, KeptList
<1>3. Sorted(l, s)'
  BY <1>p, SortedSame DEF Held
<1>4. Counted(l, s)'
  <2>1. CASE l \notin Outputs
    BY <2>1 DEF Counted
  <2>2. CASE l \in Outputs
    <3>1. Ranks(s, lasthigh[l])
      BY <2>2 DEF Held, Counted
    <3>2. Ranks(s, lasthigh[l])' /\ lasthigh'[l] = lasthigh[l]
      BY <3>1, <1>p DEF KeptList, Ranks, IsHigh
    <3> QED
      BY <3>2 DEF Counted
  <2> QED
    BY <2>1, <2>2
<1>5. Given(s)'
  BY DEF Held, Given, KeptEvents
<1> QED
  BY <1>1, <1>2, <1>3, <1>4, <1>5 DEF Held

\* So do the lists that are unlocked before and after the step.
LEMMA FreeSame ==
  ASSUME NEW now, Model(now), NEW nw,
         \A l \in Lists : ~lock'[l] => ~lock[l] /\ nw[l] = now[l] /\ Kept(l) /\ KeptEvents(now[l])
  PROVE  Free(nw)'
<1> SUFFICES ASSUME NEW l \in Lists, ~lock'[l]
             PROVE  Held(l, nw[l])' /\ fixStart'[l] = 0 /\ fixFirst'[l] = NULL
  BY Zenon DEF Free
<1>1. ~lock[l] /\ nw[l] = now[l] /\ Kept(l) /\ KeptEvents(now[l]) /\ now[l] \in Seq(Events)
  BY NowTypes
<1>2. Held(l, now[l]) /\ fixStart[l] = 0 /\ fixFirst[l] = NULL
  BY <1>1 DEF Model, Good, Free
<1>3. Held(l, now[l])'
  BY <1>1, <1>2, HeldSame DEF Kept
<1> QED
  BY <1>1, <1>2, <1>3 DEF Kept

-----------------------------------------------------------------------------
(* Steps of a call under its list's mutex.                                 *)

\* What such a step changes, besides the list.
Inside == /\ pc \in InLock /\ pc' \in InLock
          /\ UNCHANGED <<call, before, userVars, prio, age, lock>>
          /\ (pc' \in ReadPcs => Reading) /\ (pc' \in WritePcs => ~Reading)

\* What the invariant says while a call holds its mutex.
LEMMA InsideFacts ==
  ASSUME NEW now, Model(now), pc \in InLock
  PROVE  /\ L \in Lists /\ lock[L] /\ at # "none" /\ call.n >= 1
         /\ \A l \in Lists : lock[l] <=> l = L
         /\ call.es \in Seq(Events) /\ Len(call.es) \in Nat /\ \A i \in 1..Len(call.es) : call.es[i] \in Events
         /\ before \in Seq(Events) /\ Len(before) \in Nat /\ \A i \in 1..Len(before) : before[i] \in Events
         /\ now[L] \in Seq(Events) /\ Len(now[L]) \in Nat /\ \A i \in 1..Len(now[L]) : now[L][i] \in Events
         /\ k \in Nat /\ call.n \in Nat
         /\ IF Reading THEN ReadState(now[L]) ELSE WriteState(now[L])
         /\ pc # "idle" /\ pc # "dead" /\ pc # "lock" /\ pc # "age"
<1>1. pc \in Active /\ pc # "idle" /\ pc # "dead" /\ pc # "lock" /\ pc # "age"
  BY DEF InLock, ReadPcs, WritePcs, Active
<1>2. L \in Lists /\ lock[L] /\ at # "none" /\ call.n >= 1 /\ \A l \in Lists : lock[l] <=> l = L
  BY <1>1 DEF Model, Good, Control, L
<1>3. call.es \in Seq(Events) /\ before \in Seq(Events) /\ now[L] \in Seq(Events) /\ k \in Nat /\ call.n \in Nat
  BY <1>2 DEF Model, TypeOK
<1>4. IF Reading THEN ReadState(now[L]) ELSE WriteState(now[L])
  BY DEF Model, Good, Locked
<1> QED
  BY <1>1, <1>2, <1>3, <1>4, SeqFacts

\* The conjuncts of the invariant that such a step keeps.
LEMMA InsideControl ==
  ASSUME NEW now, Model(now), Inside
  PROVE  Control'
<1>1. pc' \in Active /\ pc' \notin Post \cup {"age", "lock", "idle", "dead"}
      /\ pc \in Active /\ pc \notin Post \cup {"age", "lock", "idle", "dead"}
  BY DEF Inside, InLock, ReadPcs, WritePcs, Active, Post
<1>2. L \in Lists /\ lock[L] /\ at # "none" /\ call.n >= 1 /\ \A l \in Lists : lock[l] <=> l = L
  BY InsideFacts DEF Inside
<1>3. call' = call /\ lock' = lock /\ at' = at /\ cleanup' = cleanup /\ ordered' = ordered
      /\ (Reading' <=> Reading)
  BY DEF Inside, userVars, Reading
<1>4. Control
  BY DEF Model, Good
<1> QED
  BY <1>1, <1>2, <1>3, <1>4 DEF Control, L, Post, Inside, Reading

\* Outside after a store: an event that leaves the lists gets an owner.
LEMMA InsideOutside ==
  ASSUME NEW now, Model(now), NEW nw, Inside,
         \A e \in Events : Off(nw, e) =>
           \/ owner'[e] = "att"
           \/ Off(now, e) /\ owner'[e] = owner[e] /\ (InCall(e) => InCall(e)' \/ Reading),
         \A e \in Events : Off(now, e) => Off(nw, e) \/ \E i \in 1..Len(call.es) : call.es[i] = e
  PROVE  Outside(nw)'
<1>1. /\ call' = call /\ cleanup' = cleanup /\ ordered' = ordered /\ pc' \in InLock /\ pc \in InLock
      /\ pc' \in Active /\ pc \in Active
  BY DEF Inside, userVars, Active
<1>2. Outside(now)
  BY DEF Model, Good
<1>3. ordered \in Seq(Events) /\ \A i \in 1..Len(ordered) : ordered[i] \in Events
  BY SeqFacts DEF Model, TypeOK
<1>4. ASSUME NEW e \in Events, Off(nw, e), owner'[e] # "att"
      PROVE  cleanup /\ (\/ \E i \in 1..Len(ordered) : ordered[i] = e
                         \/ call.op = "restore" /\ InCall(e)')
  <2>1. Off(now, e) /\ owner[e] # "att" /\ (InCall(e) => InCall(e)' \/ Reading)
    BY <1>4
  <2>2. cleanup /\ (\/ \E i \in 1..Len(ordered) : ordered[i] = e
                    \/ call.op = "restore" /\ InCall(e))
    BY <2>1, <1>2 DEF Outside
  <2> QED
    BY <2>1, <2>2 DEF Reading
<1>5. ASSUME NEW i \in 1..Len(ordered) PROVE Off(nw, ordered[i])
  BY <1>1, <1>2, <1>3 DEF Outside
<1> QED
  BY <1>1, <1>2, <1>4, <1>5 DEF Outside

\* Travel after a store.
LEMMA InsideTravel ==
  ASSUME NEW now, Model(now), NEW nw, Inside,
         \A l \in Lists \ {"gcIn"} : \A i \in 1..Len(nw[l]) : nw[l][i] \in put,
         at = "CU" => \A e \in Events : Off(nw, e) => e \in put
  PROVE  Travel(nw)'
<1>1. /\ call' = call /\ put' = put /\ at' = at /\ pc \in Active
  BY DEF Inside, userVars, Active
<1> QED
  BY <1>1 DEF Model, Good, Travel, L, Reading

\* Leaving after a store: only a read makes the user an owner.
LEMMA InsideLeaving ==
  ASSUME NEW now, Model(now), Inside,
         \A e \in Events : owner'[e] = "att" =>
           \/ owner[e] = "att" /\ (InCall(e) => InCall(e)' \/ Reading)
           \/ Reading /\ \E i \in 1..Len(call.es) : call.es[i] = e
  PROVE  Leaving'
<1>1. /\ call' = call /\ cleanup' = cleanup /\ pc' \in InLock /\ pc' # "return" /\ pc \in Active
  BY DEF Inside, userVars, Active, InLock, ReadPcs, WritePcs
<1>2. Leaving
  BY DEF Model, Good
<1> QED
  BY <1>1, <1>2 DEF Leaving, Reading

\* The step as a whole.
LEMMA InsideStep ==
  ASSUME NEW now, Model(now), NEW nw \in [Lists -> Seq(Events)], Inside, TypeOK',
         Apart(nw), Outside(nw)', Leaving', Loose(nw)', Travel(nw)',
         \A l \in Lists : l # L => nw[l] = now[l] /\ Kept(l) /\ KeptEvents(now[l]),
         IF Reading THEN ReadState(nw[L])' ELSE WriteState(nw[L])'
  PROVE  Inv'
<1>1. pc' \in InLock /\ pc' # "dead" /\ call' = call /\ lock' = lock /\ (Reading' <=> Reading)
  BY DEF Inside, InLock, ReadPcs, WritePcs, Reading
<1>2. \A l \in Lists : lock[l] <=> l = L
  BY InsideFacts DEF Inside
<1>3. Free(nw)'
  BY <1>1, <1>2, FreeSame
<1>4. Control'
  BY InsideControl
<1>5. Locked(nw)'
  BY <1>1 DEF Locked, L
<1>6. Good(nw)'
  BY <1>3, <1>4, <1>5 DEF Good
<1> QED
  BY <1>6 DEF Inv

\* A store that leaves the lists' contents, next, owner and k alone.
LEMMA InsideSimple ==
  ASSUME NEW now, Model(now), Inside, TypeOK',
         next' = next, owner' = owner, k' = k, Loose(now)',
         \A l \in Lists : l # L => Kept(l),
         IF Reading THEN ReadState(now[L])' ELSE WriteState(now[L])'
  PROVE  Inv'
<1>1. \A l \in Lists : KeptEvents(now[l])
  BY DEF KeptEvents, Inside
<1>2. ASSUME NEW e PROVE InCall(e)' <=> InCall(e)
  BY DEF InCall, Inside
<1>3. Outside(now)' /\ Leaving'
  BY <1>2, InsideOutside, InsideLeaving
<1>4. Travel(now)'
  BY InsideTravel DEF Model, Good, Travel
<1>5. now \in [Lists -> Seq(Events)] /\ Apart(now)
  BY DEF Model, Good
<1> QED
  BY <1>1, <1>3, <1>4, <1>5, InsideStep

-----------------------------------------------------------------------------
(* The stores of a read.                                                   *)

\* At the stores of a read before its last one, a read has nothing loose.
LEMMA LooseRead ==
  ASSUME NEW now, Model(now), Inside, Reading,
         pc' \in {"rEnd", "unlock"} => pc \in {"rEnd", "unlock"}
  PROVE  Loose(now)'
<1>1. call' = call /\ (Reading' <=> Reading) /\ pc' \in InLock /\ pc' \notin Post \cup {"age", "lock"}
  BY DEF Inside, Reading, InLock, ReadPcs, WritePcs, Post
<1>2. Loose(now)
  BY DEF Model, Good
<1> QED
  BY <1>1, <1>2 DEF Loose, Post

\* The stores of a read: its fix record,
LEMMA RNumStep ==
  ASSUME NEW now, Model(now), RNum
  PROVE  Inv'
<1>1. pc = "rNum" /\ pc \in InLock /\ Reading
  BY DEF RNum, Goto, InLock, ReadPcs, Model, Good, Control
<1>2. Inside
  BY <1>1 DEF RNum, Goto, Inside, InLock, ReadPcs, WritePcs, evVars, listVars
<1>3. L \in Lists /\ ReadState(now[L]) /\ call.n \in Nat
  BY <1>1, InsideFacts
<1>4. TypeOK'
  BY <1>1, <1>3 DEF RNum, Goto, Model, TypeOK, evVars, listVars, fixVars, userVars, Active, InLock, ReadPcs
<1>5. Loose(now)'
  BY <1>1, <1>2, LooseRead DEF RNum, Goto
<1>6. \A l \in Lists : l # L => Kept(l)
  BY DEF Kept, KeptList, RNum, Model, TypeOK, listVars, fixVars
<1>7. ReadState(now[L])'
  BY <1>1, <1>3 DEF ReadState, Rest, Given, Sorted, Ranks, IsHigh, L, RNum, Goto, Model, TypeOK, evVars, listVars, fixVars
<1> QED
  BY <1>1, <1>2, <1>4, <1>5, <1>6, <1>7, InsideSimple DEF RNum, evVars

LEMMA RCntStep ==
  ASSUME NEW now, Model(now), RCnt
  PROVE  Inv'
<1>1. pc = "rCnt" /\ pc \in InLock /\ Reading
  BY DEF RCnt, Goto, InLock, ReadPcs, Model, Good, Control
<1>2. Inside
  BY <1>1 DEF RCnt, Goto, Inside, InLock, ReadPcs, WritePcs, evVars, listVars
<1>3. L \in Lists /\ ReadState(now[L]) /\ call.n \in Nat
  BY <1>1, InsideFacts
<1>4. TypeOK'
  BY <1>1, <1>3 DEF RCnt, Goto, Model, TypeOK, evVars, listVars, fixVars, userVars, Active, InLock, ReadPcs
<1>5. Loose(now)'
  BY <1>1, <1>2, LooseRead DEF RCnt, Goto
<1>6. \A l \in Lists : l # L => Kept(l)
  BY DEF Kept, KeptList, RCnt, Model, TypeOK, listVars, fixVars
<1>7. ReadState(now[L])'
  BY <1>1, <1>3 DEF ReadState, Rest, Given, Sorted, Ranks, IsHigh, L, RCnt, Goto, Model, TypeOK, evVars, listVars, fixVars
<1> QED
  BY <1>1, <1>2, <1>4, <1>5, <1>6, <1>7, InsideSimple DEF RCnt, evVars

LEMMA RCallStep ==
  ASSUME NEW now, Model(now), RCall
  PROVE  Inv'
<1>1. pc = "rCall" /\ pc \in InLock /\ Reading
  BY DEF RCall, Goto, InLock, ReadPcs, Model, Good, Control
<1>2. Inside
  BY <1>1 DEF RCall, Goto, Inside, InLock, ReadPcs, WritePcs, evVars, listVars
<1>3. L \in Lists /\ ReadState(now[L]) /\ call.n \in Nat
  BY <1>1, InsideFacts
<1>4. TypeOK'
  BY <1>1, <1>3 DEF RCall, Goto, Model, TypeOK, evVars, listVars, fixVars, userVars, Active, InLock, ReadPcs
<1>5. Loose(now)'
  BY <1>1, <1>2, LooseRead DEF RCall, Goto
<1>6. \A l \in Lists : l # L => Kept(l)
  BY DEF Kept, KeptList, RCall, Model, TypeOK, listVars, fixVars
<1>7. ReadState(now[L])'
  BY <1>1, <1>3 DEF ReadState, Rest, Given, Sorted, Ranks, IsHigh, L, RCall, Goto, Model, TypeOK, evVars, listVars, fixVars
<1> QED
  BY <1>1, <1>2, <1>4, <1>5, <1>6, <1>7, InsideSimple DEF RCall, evVars

LEMMA RFixStep ==
  ASSUME NEW now, Model(now), RFix
  PROVE  Inv'
<1>1. pc = "rFix" /\ pc \in InLock /\ Reading
  BY DEF RFix, Goto, InLock, ReadPcs, Model, Good, Control
<1>2. Inside
  BY <1>1 DEF RFix, Goto, Inside, InLock, ReadPcs, WritePcs, evVars, listVars
<1>3. L \in Lists /\ ReadState(now[L]) /\ call.n \in Nat
  BY <1>1, InsideFacts
<1>4. TypeOK'
  BY <1>1, <1>3 DEF RFix, Goto, Model, TypeOK, evVars, listVars, fixVars, userVars, Active, InLock, ReadPcs
<1>5. Loose(now)'
  BY <1>1, <1>2, LooseRead DEF RFix, Goto
<1>6. \A l \in Lists : l # L => Kept(l)
  BY DEF Kept, KeptList, RFix, Model, TypeOK, listVars, fixVars
<1>7. ReadState(now[L])'
  BY <1>1, <1>3 DEF ReadState, Rest, Given, Sorted, Ranks, IsHigh, L, RFix, Goto, Model, TypeOK, evVars, listVars, fixVars
<1> QED
  BY <1>1, <1>2, <1>4, <1>5, <1>6, <1>7, InsideSimple DEF RFix, evVars

\* the first event of the list,
LEMMA FirstStep ==
  ASSUME NEW now, Model(now), First
  PROVE  Inv'
<1>1. pc = "first" /\ pc \in InLock /\ Reading
  BY DEF First, Goto, InLock, ReadPcs, Model, Good, Control
<1>2. Inside
  BY <1>1 DEF First, Goto, Inside, InLock, ReadPcs, WritePcs, evVars, listVars
<1>3. L \in Lists /\ ReadState(now[L]) /\ call.n \in Nat
  BY <1>1, InsideFacts
<1>4. TypeOK'
  BY <1>1, <1>3 DEF ReadState, First, Goto, Model, TypeOK, evVars, listVars, fixVars, userVars, Active, InLock, ReadPcs
<1>5. Loose(now)'
  BY <1>1, <1>2, LooseRead DEF First, Goto
<1>6. \A l \in Lists : l # L => Kept(l)
  BY DEF Kept, KeptList, First, Model, TypeOK, listVars, fixVars
<1>a. Rest' = Rest
  BY DEF Rest, First, Goto
<1>b. call.n < Len(before) => first'[L] = before[call.n + 1]
  <2>1. Len(before) \in Nat
    BY <1>1, InsideFacts
  <2>2. Linked(next, before) /\ call.es[call.n] = before[call.n] /\ call.n \in 1..Len(before)
    BY <1>1, <1>3 DEF ReadState
  <2>3. first'[L] = next[call.es[call.n]]
    BY <1>3 DEF First, Model, TypeOK
  <2> QED
    BY <2>1, <2>2, <2>3 DEF Linked
<1>7. ReadState(now[L])'
  BY <1>1, <1>3, <1>a, <1>b DEF ReadState, Given, Sorted, Ranks, IsHigh, L, First, Goto, Model, TypeOK, evVars, listVars, fixVars
<1> QED
  BY <1>1, <1>2, <1>4, <1>5, <1>6, <1>7, InsideSimple DEF First, evVars

\* and the end of the fix record.
LEMMA REndStep ==
  ASSUME NEW now, Model(now), REnd
  PROVE  Inv'
<1>1. pc = "rEnd" /\ pc \in InLock /\ Reading
  BY DEF REnd, Goto, InLock, ReadPcs, Model, Good, Control
<1>2. Inside
  BY <1>1 DEF REnd, Goto, Inside, InLock, ReadPcs, WritePcs, evVars, listVars
<1>3. L \in Lists /\ ReadState(now[L]) /\ call.n \in Nat
  BY <1>1, InsideFacts
<1>4. TypeOK'
  BY <1>1, <1>3, EventNumbers DEF REnd, Goto, Model, TypeOK, evVars, listVars, fixVars, userVars, Active, InLock, ReadPcs
<1>5. Loose(now)'
  BY <1>1, <1>2, LooseRead DEF REnd, Goto
<1>6. \A l \in Lists : l # L => Kept(l)
  BY DEF Kept, KeptList, REnd, Model, TypeOK, listVars, fixVars
<1>a. Rest' = Rest
  BY DEF Rest, REnd, Goto
<1>7. ReadState(now[L])'
  BY <1>1, <1>3, <1>a DEF ReadState, Given, Sorted, Ranks, IsHigh, L, REnd, Goto, Model, TypeOK, evVars, listVars, fixVars
<1> QED
  BY <1>1, <1>2, <1>4, <1>5, <1>6, <1>7, InsideSimple DEF REnd, evVars

\* A read gives the next of its events to the user.
LEMMA TakeStep ==
  ASSUME NEW now, Model(now), Take
  PROVE  Inv'
<1>1. pc = "take" /\ pc \in InLock /\ Reading
  BY DEF Take, Goto, InLock, ReadPcs, Model, Good, Control
<1>2. Inside
  BY <1>1 DEF Take, Goto, Inside, InLock, ReadPcs, WritePcs, evVars, listVars
<1>3. L \in Lists /\ ReadState(now[L]) /\ call.n \in Nat /\ k \in Nat /\ Len(before) \in Nat
      /\ \A i \in 1..Len(before) : before[i] \in Events
  BY <1>1, InsideFacts
<1>a. pc' \in Active
  BY DEF Take, Goto, Active, InLock, ReadPcs
<1>4. TypeOK'
  <2>1. owner' \in [Events -> {"sys", "att"}]
    BY Zenon DEF Take, Model, TypeOK
  <2>2. k' \in Nat
    BY <1>3 DEF Take
  <2> QED
    BY <2>1, <2>2, <1>a DEF Take, Goto, Model, TypeOK, listVars, fixVars, userVars
<1>5. Loose(now)'
  BY <1>1, <1>2, LooseRead DEF Take, Goto
<1>6. \A l \in Lists : Kept(l)
  BY DEF Kept, KeptList, Take, Model, TypeOK, listVars, fixVars
<1>b. /\ now[L] = before /\ k + 1 \in 1..call.n /\ call.n \in 1..Len(before)
      /\ call.es[k + 1] = before[k + 1] /\ Apart(now) /\ \A i \in 1..k : owner[before[i]] = "att"
  BY <1>1, <1>3 DEF ReadState, Model, Good
<1>c. owner' = [owner EXCEPT ![before[k + 1]] = "att"]
  BY <1>b DEF Take
<1>d. \A l \in Lists : l # L => KeptEvents(now[l])
  <2> SUFFICES ASSUME NEW l \in Lists, l # L, NEW i \in 1..Len(now[l])
               PROVE  owner'[now[l][i]] = owner[now[l][i]]
    BY DEF KeptEvents, Take, Inside
  <2>1. now[l][i] # before[k + 1]
    BY <1>3, <1>b DEF Apart
  <2>2. now[l][i] \in Events
    BY NowTypes
  <2> QED
    BY <2>1, <2>2, <1>c DEF Model, TypeOK
<1>e. Outside(now)'
  <2>1. \A e \in Events : owner'[e] = "att" \/ owner'[e] = owner[e]
    BY <1>c DEF Model, TypeOK
  <2> QED
    BY <2>1, <1>1, <1>2, InsideOutside
<1>k. Leaving'
  <2>1. call.es[k + 1] = before[k + 1] /\ k + 1 \in 1..Len(call.es)
    BY <1>b, <1>3, <1>1 DEF ReadState
  <2>2. ASSUME NEW x \in Events, owner'[x] = "att"
        PROVE  owner[x] = "att" \/ \E i \in 1..Len(call.es) : call.es[i] = x
    BY <2>1, <2>2, <1>c DEF Model, TypeOK
  <2> QED
    BY <2>2, <1>1, <1>2, InsideLeaving
<1>f. Travel(now)'
  BY <1>2, InsideTravel DEF Model, Good, Travel
<1>g. \A i \in 1..(k + 1) : owner'[before[i]] = "att"
  BY <1>b, <1>c, <1>3 DEF Model, TypeOK
<1>h. \A i \in (call.n + 1)..Len(before) : owner'[before[i]] = "sys"
  <2> SUFFICES ASSUME NEW i \in (call.n + 1)..Len(before) PROVE owner'[before[i]] = "sys"
    OBVIOUS
  <2>1. owner[before[i]] = "sys" /\ i # k + 1 /\ i \in 1..Len(before) /\ k + 1 \in 1..Len(before)
    BY <1>3, <1>b DEF ReadState
  <2>2. before[i] # before[k + 1]
    BY <2>1, <1>b, <1>3 DEF Apart
  <2> QED
    BY <2>1, <2>2, <1>c, <1>3 DEF Model, TypeOK
<1>i. k + 1 < call.n \/ k + 1 = call.n
  BY <1>b, <1>3
<1>j. Sorted(L, before)'
  BY <1>b, <1>3 DEF ReadState, Sorted, Ranks, IsHigh, Take, L, Goto
<1>7. ReadState(now[L])'
  BY <1>1, <1>3, <1>b, <1>g, <1>h, <1>i, <1>j DEF ReadState, L, Take, Goto, Model, TypeOK, listVars, fixVars
<1> QED
  BY <1>1, <1>2, <1>4, <1>5, <1>6, <1>7, <1>b, <1>d, <1>e, <1>f, <1>k, InsideStep DEF Model

\* The count of the list goes down: the read events are no longer in it.
LEMMA LessStep ==
  ASSUME NEW now, Model(now), Less
  PROVE  Inv'
<1>1. pc = "less" /\ pc \in InLock /\ Reading
  BY DEF Less, Goto, InLock, ReadPcs, Model, Good, Control
<1>2. Inside
  BY <1>1 DEF Less, Goto, Inside, InLock, ReadPcs, WritePcs, evVars, listVars
<1>3. L \in Lists /\ ReadState(now[L]) /\ call.n \in Nat /\ Len(before) \in Nat
      /\ (\A i \in 1..Len(before) : before[i] \in Events) /\ before \in Seq(Events)
      /\ call.es \in Seq(Events)
  BY <1>1, InsideFacts
<1>b. /\ now[L] = before /\ call.n \in 1..Len(before) /\ cnt[L] = Len(before)
      /\ Apart(now) /\ now \in [Lists -> Seq(Events)]
      /\ Len(call.es) = call.n /\ \A i \in 1..call.n : call.es[i] = before[i]
      /\ \A i \in 1..call.n : owner[before[i]] = "att"
      /\ \A i \in (call.n + 1)..Len(before) : owner[before[i]] = "sys"
      /\ call.n < Len(before) => first[L] = before[call.n + 1]
      /\ last[L] = before[Len(before)] /\ Linked(next, before) /\ Sorted(L, before)
  <2>1. before # <<>> <=> Len(before) # 0
    BY <1>3
  <2> QED
    BY <2>1, <1>1, <1>3 DEF ReadState, Model, Good
<1>c. PICK r \in Seq(Events) : /\ r = Rest /\ Len(r) = Len(before) - call.n
                              /\ \A i \in 1..Len(r) : r[i] = before[call.n + i]
  <2>1. call.n \in 0..Len(before)
    BY <1>3, <1>b
  <2> QED
    BY <2>1, <1>3, CutIs DEF Rest
<1>z. /\ call.n \in Nat /\ call.n >= 1 /\ call.n <= Len(before) /\ Len(before) \in Nat
      /\ Len(r) \in Nat /\ Len(r) = Len(before) - call.n
      /\ \A i \in 1..Len(r) : r[i] = before[call.n + i] /\ call.n + i \in 1..Len(before)
  <2>1. /\ call.n \in Nat /\ call.n >= 1 /\ call.n <= Len(before) /\ Len(before) \in Nat
        /\ Len(r) \in Nat /\ Len(r) = Len(before) - call.n
    BY <1>3, <1>b, <1>c
  <2> QED
    BY <2>1, <1>c
<1>d. cnt' = [cnt EXCEPT ![L] = Len(r)]
  BY <1>b, <1>z DEF Less
<1>4. TypeOK'
  <2>1. cnt' \in [Lists -> Nat]
    BY <1>d, <1>z DEF Model, TypeOK
  <2> QED
    BY <2>1 DEF Less, Goto, Model, TypeOK, evVars, fixVars, userVars, Active, InLock, ReadPcs
<1>e. PICK nw \in [Lists -> Seq(Events)] : nw[L] = r /\ \A l \in Lists : l # L => nw[l] = now[l]
  <2>1. [now EXCEPT ![L] = r] \in [Lists -> Seq(Events)]
    BY <1>b
  <2>2. [now EXCEPT ![L] = r][L] = r /\ \A l \in Lists : l # L => [now EXCEPT ![L] = r][l] = now[l]
    BY <1>b, <1>3
  <2> QED
    BY <2>1, <2>2
<1>f. Apart(nw)
  <2> SUFFICES ASSUME NEW l1 \in Lists, NEW l2 \in Lists, NEW i \in 1..Len(nw[l1]), NEW j \in 1..Len(nw[l2]),
                      nw[l1][i] = nw[l2][j]
               PROVE  l1 = l2 /\ i = j
    BY DEF Apart
  <2> DEFINE a(l, x) == IF l = L THEN call.n + x ELSE x
  <2>1. ASSUME NEW l \in Lists, NEW x \in 1..Len(nw[l])
        PROVE  a(l, x) \in 1..Len(now[l]) /\ nw[l][x] = now[l][a(l, x)]
    <3>1. CASE l = L
      BY <3>1, <1>e, <1>z, <1>b
    <3>2. CASE l # L
      BY <3>2, <1>e
    <3> QED
      BY <3>1, <3>2
  <2>2. /\ a(l1, i) \in 1..Len(now[l1]) /\ a(l2, j) \in 1..Len(now[l2])
        /\ now[l1][a(l1, i)] = now[l2][a(l2, j)]
    BY <2>1
  <2> HIDE DEF a
  <2>3. l1 = l2 /\ a(l1, i) = a(l2, j)
    BY <2>2, <1>b DEF Apart
  <2> QED
    BY <2>3, <1>b DEF a
<1>g. \A e \in Events : Off(now, e) => Off(nw, e)
  <2> SUFFICES ASSUME NEW e \in Events, Off(now, e), NEW l \in Lists, NEW i \in 1..Len(nw[l]), nw[l][i] = e
               PROVE  FALSE
    BY DEF Off
  <2>1. CASE l = L
    <3>1. call.n + i \in 1..Len(before) /\ before[call.n + i] = e
      BY <2>1, <1>e, <1>z, <1>b
    <3> QED
      BY <3>1, <1>b, <1>3 DEF Off
  <2>2. CASE l # L
    BY <2>2, <1>e DEF Off
  <2> QED
    BY <2>1, <2>2
<1>h. ASSUME NEW e \in Events, Off(nw, e)
      PROVE  Off(now, e) \/ \E i \in 1..call.n : before[i] = e
  <2> SUFFICES ASSUME NEW l \in Lists, NEW i \in 1..Len(now[l]), now[l][i] = e
               PROVE  \E j \in 1..call.n : before[j] = e
    BY DEF Off
  <2>1. l = L
    BY <1>h, <1>e DEF Off
  <2>2. CASE i <= call.n
    BY <2>1, <2>2, <1>b
  <2>3. CASE i > call.n
    <3>1. i - call.n \in 1..Len(r) /\ r[i - call.n] = e
      <4>1. i \in 1..Len(before) /\ before[i] = e
        BY <2>1, <1>b
      <4>2. i - call.n \in 1..Len(r) /\ call.n + (i - call.n) = i
        BY <4>1, <2>3, <1>z
      <4> QED
        BY <4>1, <4>2, <1>z
    <3> QED
      BY <3>1, <1>h, <1>e, <1>c, <1>3 DEF Off
  <2> QED
    BY <2>2, <2>3, <1>b, <1>3, <2>1
<1>i. owner' = owner /\ next' = next /\ prio' = prio
  BY DEF Less, evVars
<1>5. Outside(nw)'
  <2>1. ASSUME NEW e \in Events, Off(nw, e)
        PROVE  owner'[e] = "att" \/ (Off(now, e) /\ owner'[e] = owner[e])
    BY <2>1, <1>h, <1>i, <1>b
  <2> QED
    BY <2>1, <1>g, <1>1, <1>2, InsideOutside
<1>x. Leaving'
  BY <1>i, <1>1, <1>2, InsideLeaving
<1>j. Distinct(before)
  BY <1>b, <1>3, NowDistinct
<1>6. Loose(nw)'
  <2>1. call' = call /\ (Reading' <=> Reading) /\ pc' = "rEnd"
    BY DEF Less, Goto, Reading
  <2>2. Distinct(call.es)
    <3>1. ASSUME NEW i \in 1..call.n, NEW j \in 1..call.n, call.es[i] = call.es[j] PROVE i = j
      <4>1. i \in 1..Len(before) /\ j \in 1..Len(before) /\ before[i] = before[j]
        BY <3>1, <1>b, <1>z
      <4> QED
        BY <4>1, <1>j DEF Distinct
    <3> QED
      BY <3>1, <1>b DEF Distinct
  <2>3. ASSUME NEW x \in 1..call.n PROVE Off(nw, call.es[x])
    <3> SUFFICES ASSUME NEW l \in Lists, NEW i \in 1..Len(nw[l]), nw[l][i] = before[x]
                 PROVE  FALSE
      BY <1>b DEF Off
    <3>0. x \in 1..Len(before)
      BY <1>b, <1>3
    <3>1. CASE l = L
      <4>1. call.n + i \in 1..Len(before) /\ before[call.n + i] = before[x]
        BY <3>1, <1>e, <1>z, <1>b
      <4> QED
        BY <4>1, <3>0, <1>j, <1>b, <1>3 DEF Distinct
    <3>2. CASE l # L
      BY <3>2, <3>0, <1>e, <1>b, <1>3 DEF Apart
    <3> QED
      BY <3>1, <3>2
  <2> QED
    BY <2>1, <2>2, <2>3, <1>b, <1>1 DEF Loose, Post
<1>7. Travel(nw)'
  <2>1. Travel(now)
    BY DEF Model, Good
  <2>2. ASSUME NEW l \in Lists \ {"gcIn"}, NEW i \in 1..Len(nw[l]) PROVE nw[l][i] \in put
    <3>1. CASE l = L
      <4>1. call.n + i \in 1..Len(before) /\ before[call.n + i] = nw[l][i]
        BY <3>1, <1>e, <1>z, <1>b
      <4> QED
        BY <4>1, <3>1, <2>1, <1>b DEF Travel
    <3>2. CASE l # L
      BY <3>2, <2>1, <1>e DEF Travel
    <3> QED
      BY <3>1, <3>2
  <2>3. ASSUME at = "CU", NEW e \in Events, Off(nw, e) PROVE e \in put
    <3>1. CASE Off(now, e)
      BY <2>3, <3>1, <2>1 DEF Travel
    <3>2. CASE \E i \in 1..call.n : before[i] = e
      <4>1. L # "gcIn"
        BY <2>3, <1>1 DEF Model, Good, Control, L
      <4> QED
        BY <4>1, <3>2, <2>1, <1>b, <1>3 DEF Travel
    <3> QED
      BY <3>1, <3>2, <2>3, <1>h
  <2> QED
    BY <2>2, <2>3, <1>2, InsideTravel
<1>k. \A l \in Lists : l # L => nw[l] = now[l] /\ Kept(l) /\ KeptEvents(now[l])
  BY <1>e, <1>i DEF Kept, KeptList, KeptEvents, Less, Model, TypeOK, fixVars
<1>l. Linked(next, r)
  <2>1. ASSUME NEW i \in 1..(Len(r) - 1) PROVE next[r[i]] = r[i + 1]
    <3>1. i \in 1..Len(r) /\ i + 1 \in 1..Len(r) /\ call.n + i \in 1..(Len(before) - 1)
      BY <1>z
    <3>2. next[before[call.n + i]] = before[(call.n + i) + 1]
      BY <3>1, <1>b DEF Linked
    <3>3. r[i] = before[call.n + i] /\ r[i + 1] = before[call.n + (i + 1)]
      BY <3>1, <1>c
    <3>4. (call.n + i) + 1 = call.n + (i + 1)
      <4>1. i \in Nat /\ call.n \in Nat
        BY <1>3, <3>1
      <4>2. \A a, b \in Nat : (a + b) + 1 = a + (b + 1)
        OBVIOUS
      <4> QED
        BY <4>1, <4>2, Zenon
    <3> QED
      BY <3>2, <3>3, <3>4
  <2> QED
    BY <2>1 DEF Linked
<1>m. Sorted(L, r)
  <2> SUFFICES ASSUME L # "gcIn" PROVE \E h \in Nat : Ranks(r, h)
    BY DEF Sorted
  <2>1. PICK h \in Nat : Ranks(before, h)
    BY <1>b DEF Sorted
  <2> DEFINE g == IF h > call.n THEN h - call.n ELSE 0
  <2>2. g \in 0..Len(r)
    BY <2>1, <1>z DEF Ranks
  <2>3. ASSUME NEW i \in 1..Len(r) PROVE IsHigh(r[i]) <=> i <= g
    <3>1. r[i] = before[call.n + i] /\ call.n + i \in 1..Len(before)
      BY <1>z, <1>b
    <3>2. IsHigh(before[call.n + i]) <=> call.n + i <= h
      BY <3>1, <2>1 DEF Ranks
    <3>3. i <= g <=> call.n + i <= h
      BY <1>b, <1>3
    <3> QED
      BY <3>1, <3>2, <3>3
  <2>4. Ranks(r, g)
    BY <2>2, <2>3, <1>c DEF Ranks
  <2> QED
    BY <2>4, <2>2, <1>b
<1>n. Given(r)
  <2>1. ASSUME NEW i \in 1..Len(r) PROVE owner[r[i]] = "sys"
    <3>1. call.n + i \in (call.n + 1)..Len(before) /\ r[i] = before[call.n + i]
      BY <1>z
    <3> QED
      BY <3>1, <1>b
  <2> QED
    BY <2>1, <1>c DEF Given
<1>o. r # <<>> => call.n < Len(before) /\ r[1] = before[call.n + 1] /\ r[Len(r)] = before[Len(before)]
  <2>1. ASSUME r # <<>> PROVE Len(r) >= 1
    BY <2>1, <1>c, <1>b
  <2> QED
    <3> SUFFICES ASSUME r # <<>>
                 PROVE  call.n < Len(before) /\ r[1] = before[call.n + 1] /\ r[Len(r)] = before[Len(before)]
      OBVIOUS
    <3>1. 1 \in 1..Len(r) /\ Len(r) \in 1..Len(r) /\ call.n + Len(r) = Len(before) /\ call.n < Len(before)
      BY <2>1, <1>z
    <3> QED
      BY <3>1, <1>z
<1>p. Rest' = r /\ L' = L
  BY <1>c DEF Rest, L, Less, Goto
<1>q. Sorted(L, r)'
  BY <1>m, <1>i, <1>p DEF Sorted, Ranks, IsHigh
<1>r. Given(r)'
  BY <1>n, <1>i DEF Given
<1>8. ReadState(r)'
  BY <1>1, <1>3, <1>b, <1>c, <1>d, <1>l, <1>o, <1>p, <1>q, <1>r, <1>i DEF ReadState, L, Less, Goto, Model, TypeOK, fixVars
<1> QED
  BY <1>1, <1>2, <1>4, <1>5, <1>6, <1>7, <1>8, <1>e, <1>f, <1>k, <1>p, <1>x, InsideStep

-----------------------------------------------------------------------------
(* The stores of a write.                                                  *)

\* The events that are still to be written are in no list.
LEMMA LooseWrite ==
  ASSUME NEW now, Model(now), Inside, ~Reading, Done \in Nat, Done' \in Nat, Done' >= Done
  PROVE  Loose(now)'
<1>1. call' = call /\ (Reading' <=> Reading) /\ pc' \in InLock /\ pc' \notin Post \cup {"age", "lock"}
      /\ pc \in InLock
  BY DEF Inside, Reading, InLock, ReadPcs, WritePcs, Post
<1>2. Loose(now) /\ call.n \in Nat
  BY DEF Model, Good, TypeOK
<1>3. \A i \in (Done' + 1)..call.n : i \in (Done + 1)..call.n
  <2>1. \A a, b, c \in Nat : a >= b => \A i \in (a + 1)..c : i \in (b + 1)..c
    OBVIOUS
  <2> QED
    BY <1>2, <2>1, Zenon
<1> QED
  BY <1>1, <1>2, <1>3 DEF Loose, Post

\* No event is written yet, and one more is.
LEMMA WrittenStart ==
  ASSUME NEW pr, NEW l, NEW s \in Seq(Events), NEW es \in Seq(Events)
  PROVE  Written(pr, l, s, es)[0] = s
<1>1. WriteOf(pr, l, s, es, Written(pr, l, s, es))
  BY WrittenIs
<1> QED
  BY <1>1 DEF WriteOf

\* One more event is written.
LEMMA WrittenNext ==
  ASSUME NEW pr, NEW l, NEW s \in Seq(Events), NEW es \in Seq(Events), NEW i \in 0..(Len(es) - 1)
  PROVE  /\ Written(pr, l, s, es)[i] \in Seq(Events) /\ Len(Written(pr, l, s, es)[i]) = Len(s) + i
         /\ Slot(pr, l, Written(pr, l, s, es)[i], es[i + 1]) \in 1..(Len(s) + i + 1)
         /\ Written(pr, l, s, es)[i + 1]
              = InsertAt(Written(pr, l, s, es)[i], Slot(pr, l, Written(pr, l, s, es)[i], es[i + 1]), es[i + 1])
<1> DEFINE w == Written(pr, l, s, es)
<1>0. Len(es) \in Nat
  BY SeqFacts
<1>1. /\ \A j \in 0..Len(es) : w[j] \in Seq(Events) /\ Len(w[j]) = Len(s) + j
      /\ \A j \in 1..Len(es) : /\ Slot(pr, l, w[j - 1], es[j]) \in 1..(Len(w[j - 1]) + 1)
                               /\ w[j] = InsertAt(w[j - 1], Slot(pr, l, w[j - 1], es[j]), es[j])
  <2>1. WriteOf(pr, l, s, es, w)
    BY WrittenIs
  <2> QED
    BY <2>1, Zenon DEF WriteOf
<1> HIDE DEF w
<1>2. i \in 0..Len(es) /\ i + 1 \in 1..Len(es) /\ (i + 1) - 1 = i
  BY <1>0
<1>3. w[i] \in Seq(Events) /\ Len(w[i]) = Len(s) + i
  BY <1>1, <1>2
<1>4. /\ Slot(pr, l, w[i], es[i + 1]) \in 1..(Len(w[i]) + 1)
      /\ w[i + 1] = InsertAt(w[i], Slot(pr, l, w[i], es[i + 1]), es[i + 1])
  <2>1. /\ Slot(pr, l, w[(i + 1) - 1], es[i + 1]) \in 1..(Len(w[(i + 1) - 1]) + 1)
        /\ w[i + 1] = InsertAt(w[(i + 1) - 1], Slot(pr, l, w[(i + 1) - 1], es[i + 1]), es[i + 1])
    BY <1>1, <1>2, Zenon
  <2> QED
    BY <2>1, <1>2, Zenon
<1> QED
  BY <1>3, <1>4 DEF w

\* The facts about a write.
LEMMA WriteFacts ==
  ASSUME NEW now, Model(now), pc \in InLock, ~Reading
  PROVE  /\ pc \in WritePcs \cup {"unlock"} /\ WriteState(now[L])
         /\ call.n = Len(call.es) /\ Distinct(call.es) /\ k \in 0..call.n /\ Done \in 0..call.n
         /\ \A i \in (Done + 1)..call.n : Off(now, call.es[i])
         /\ now[L] = Written(prio, L, before, call.es)[Done]
         /\ Done = 0 => now[L] = before
         /\ Linked(next, now[L]) /\ Sorted(L, now[L]) /\ L # "cuIn"
<1>1. pc \in WritePcs \cup {"unlock"} /\ L # "cuIn"
  BY DEF Model, Good, Control, InLock, L
<1>2. WriteState(now[L]) /\ call.n \in Nat
  BY InsideFacts
<1>3. call.n = Len(call.es) /\ Distinct(call.es) /\ \A i \in (Done + 1)..call.n : Off(now, call.es[i])
  BY DEF Model, Good, Loose
<1>5. Written(prio, L, before, call.es)[0] = before
  <2>1. before \in Seq(Events) /\ call.es \in Seq(Events)
    BY InsideFacts
  <2> QED
    BY <2>1, WrittenStart
<1>4. k \in 0..call.n /\ (Done # k => Done = k + 1 /\ k < call.n)
  BY <1>1, <1>2 DEF WriteState, Done, WritePcs
<1> QED
  BY <1>1, <1>2, <1>3, <1>4, <1>5 DEF WriteState

\* The stores of a write before its first event: first,
LEMMA NullStep ==
  ASSUME NEW now, Model(now), Null
  PROVE  Inv'
<1>1. pc = "null" /\ pc \in InLock /\ ~Reading
  BY DEF Null, Goto, InLock, WritePcs, Model, Good, Control
<1>2. Inside
  BY <1>1 DEF Null, Goto, Inside, InLock, ReadPcs, WritePcs, evVars, listVars
<1>3. L \in Lists /\ WriteState(now[L]) /\ call.n \in Nat
  BY <1>1, InsideFacts
<1>4. TypeOK'
  BY <1>1, <1>3, EventNumbers DEF Null, Goto, Model, TypeOK, evVars, listVars, fixVars, userVars, Active, InLock, WritePcs
<1>a. Done' = Done /\ Done \in Nat
  BY <1>1, WriteFacts DEF Null, Goto, Done, evVars, listVars
<1>5. Loose(now)'
  BY <1>1, <1>2, <1>a, LooseWrite
<1>6. \A l \in Lists : l # L => Kept(l)
  BY DEF Kept, KeptList, Null, Model, TypeOK, listVars, fixVars
<1>b. Written(prio, L, before, call.es)' = Written(prio, L, before, call.es) /\ L' = L
  BY DEF Null, Goto, L, evVars
<1>c. Held(L, now[L])'
  <2>1. PICK l \in Lists : l = L /\ l = L'
    BY <1>3, <1>b
  <2>2. Held(l, now[l]) /\ now[l] \in Seq(Events)
    BY <1>1, <1>3, <2>1, NowTypes DEF WriteState
  <2>3. now[l] = <<>>
    BY <1>1, <1>3, <2>1 DEF WriteState
  <2>4. Held(l, now[l])'
    BY <2>2, <2>3 DEF Held, Ends, Null, evVars, Sorted, Counted, Ranks, Given, IsHigh
  <2> QED
    BY <2>1, <2>4
<1>7. WriteState(now[L])'
  BY <1>1, <1>3, <1>a, <1>b, <1>c DEF WriteState, Null, Goto, Held, Model, TypeOK, evVars, listVars, fixVars
<1> QED
  BY <1>1, <1>2, <1>4, <1>5, <1>6, <1>7, InsideSimple DEF Null, evVars

\* and its fix record.
LEMMA WCntStep ==
  ASSUME NEW now, Model(now), WCnt
  PROVE  Inv'
<1>1. pc = "wCnt" /\ pc \in InLock /\ ~Reading
  BY DEF WCnt, Goto, InLock, WritePcs, Model, Good, Control
<1>2. Inside
  BY <1>1 DEF WCnt, Goto, Inside, InLock, ReadPcs, WritePcs, evVars, listVars
<1>3. L \in Lists /\ WriteState(now[L]) /\ call.n \in Nat
  BY <1>1, InsideFacts
<1>4. TypeOK'
  BY <1>1, <1>3 DEF WCnt, Goto, Model, TypeOK, evVars, listVars, fixVars, userVars, Active, InLock, WritePcs
<1>a. Done' = Done /\ Done \in Nat
  BY <1>1, WriteFacts DEF WCnt, Goto, Done, evVars, listVars
<1>5. Loose(now)'
  BY <1>1, <1>2, <1>a, LooseWrite
<1>6. \A l \in Lists : l # L => Kept(l)
  BY DEF Kept, KeptList, WCnt, Model, TypeOK, listVars, fixVars
<1>b. Written(prio, L, before, call.es)' = Written(prio, L, before, call.es) /\ L' = L
  BY DEF WCnt, Goto, L, evVars
<1>c. Held(L, now[L])'
  <2>1. PICK l \in Lists : l = L /\ l = L'
    BY <1>3, <1>b
  <2>2. Held(l, now[l]) /\ now[l] \in Seq(Events)
    BY <1>1, <1>3, <2>1, NowTypes DEF WriteState
  <2>3. KeptList(l) /\ KeptEvents(now[l])
    BY DEF KeptList, KeptEvents, WCnt, evVars, listVars
  <2>4. Held(l, now[l])'
    BY <2>2, <2>3, HeldSame
  <2> QED
    BY <2>1, <2>4
<1>d. now[L] = before /\ cnt[L] = Len(before) /\ k = 0
  BY <1>1, <1>3, WriteFacts DEF WriteState, Done, Held
<1>7. WriteState(now[L])'
  BY <1>1, <1>3, <1>a, <1>b, <1>c, <1>d DEF WriteState, WCnt, Goto, Held, Model, TypeOK, evVars, listVars, fixVars
<1> QED
  BY <1>1, <1>2, <1>4, <1>5, <1>6, <1>7, InsideSimple DEF WCnt, evVars

LEMMA WNumStep ==
  ASSUME NEW now, Model(now), WNum
  PROVE  Inv'
<1>1. pc = "wNum" /\ pc \in InLock /\ ~Reading
  BY DEF WNum, Goto, InLock, WritePcs, Model, Good, Control
<1>2. Inside
  BY <1>1 DEF WNum, Goto, Inside, InLock, ReadPcs, WritePcs, evVars, listVars
<1>3. L \in Lists /\ WriteState(now[L]) /\ call.n \in Nat
  BY <1>1, InsideFacts
<1>4. TypeOK'
  BY <1>1, <1>3 DEF WNum, Goto, Model, TypeOK, evVars, listVars, fixVars, userVars, Active, InLock, WritePcs
<1>a. Done' = Done /\ Done \in Nat
  BY <1>1, WriteFacts DEF WNum, Goto, Done, evVars, listVars
<1>5. Loose(now)'
  BY <1>1, <1>2, <1>a, LooseWrite
<1>6. \A l \in Lists : l # L => Kept(l)
  BY DEF Kept, KeptList, WNum, Model, TypeOK, listVars, fixVars
<1>b. Written(prio, L, before, call.es)' = Written(prio, L, before, call.es) /\ L' = L
  BY DEF WNum, Goto, L, evVars
<1>c. Held(L, now[L])'
  <2>1. PICK l \in Lists : l = L /\ l = L'
    BY <1>3, <1>b
  <2>2. Held(l, now[l]) /\ now[l] \in Seq(Events)
    BY <1>1, <1>3, <2>1, NowTypes DEF WriteState
  <2>3. KeptList(l) /\ KeptEvents(now[l])
    BY DEF KeptList, KeptEvents, WNum, evVars, listVars
  <2>4. Held(l, now[l])'
    BY <2>2, <2>3, HeldSame
  <2> QED
    BY <2>1, <2>4
<1>7. WriteState(now[L])'
  BY <1>1, <1>3, <1>a, <1>b, <1>c DEF WriteState, WNum, Goto, Held, Model, TypeOK, evVars, listVars, fixVars
<1> QED
  BY <1>1, <1>2, <1>4, <1>5, <1>6, <1>7, InsideSimple DEF WNum, evVars

LEMMA WCallStep ==
  ASSUME NEW now, Model(now), WCall
  PROVE  Inv'
<1>1. pc = "wCall" /\ pc \in InLock /\ ~Reading
  BY DEF WCall, Goto, InLock, WritePcs, Model, Good, Control
<1>2. Inside
  BY <1>1 DEF WCall, Goto, Inside, InLock, ReadPcs, WritePcs, evVars, listVars
<1>3. L \in Lists /\ WriteState(now[L]) /\ call.n \in Nat
  BY <1>1, InsideFacts
<1>4. TypeOK'
  BY <1>1, <1>3 DEF WCall, Goto, Model, TypeOK, evVars, listVars, fixVars, userVars, Active, InLock, WritePcs
<1>a. Done' = Done /\ Done \in Nat
  BY <1>1, WriteFacts DEF WCall, Goto, Done, evVars, listVars
<1>5. Loose(now)'
  BY <1>1, <1>2, <1>a, LooseWrite
<1>6. \A l \in Lists : l # L => Kept(l)
  BY DEF Kept, KeptList, WCall, Model, TypeOK, listVars, fixVars
<1>b. Written(prio, L, before, call.es)' = Written(prio, L, before, call.es) /\ L' = L
  BY DEF WCall, Goto, L, evVars
<1>c. Held(L, now[L])'
  <2>1. PICK l \in Lists : l = L /\ l = L'
    BY <1>3, <1>b
  <2>2. Held(l, now[l]) /\ now[l] \in Seq(Events)
    BY <1>1, <1>3, <2>1, NowTypes DEF WriteState
  <2>3. KeptList(l) /\ KeptEvents(now[l])
    BY DEF KeptList, KeptEvents, WCall, evVars, listVars
  <2>4. Held(l, now[l])'
    BY <2>2, <2>3, HeldSame
  <2> QED
    BY <2>1, <2>4
<1>7. WriteState(now[L])'
  BY <1>1, <1>3, <1>a, <1>b, <1>c DEF WriteState, WCall, Goto, Held, Model, TypeOK, evVars, listVars, fixVars
<1> QED
  BY <1>1, <1>2, <1>4, <1>5, <1>6, <1>7, InsideSimple DEF WCall, evVars

LEMMA StartStep ==
  ASSUME NEW now, Model(now), Start
  PROVE  Inv'
<1>1. pc = "start" /\ pc \in InLock /\ ~Reading
  BY DEF Start, Goto, InLock, WritePcs, Model, Good, Control
<1>2. Inside
  BY <1>1 DEF Start, Goto, Inside, InLock, ReadPcs, WritePcs, evVars, listVars
<1>3. L \in Lists /\ WriteState(now[L]) /\ call.n \in Nat
  BY <1>1, InsideFacts
<1>4. TypeOK'
  <2>1. fixStart[L] = 0
    BY <1>1, <1>3 DEF WriteState
  <2>2. fixStart' \in [Lists -> Nat]
    BY <1>3, <2>1 DEF Start, Model, TypeOK
  <2>3. pc' \in Active
    BY DEF Start, Goto, Active, InLock, WritePcs
  <2> QED
    BY <2>2, <2>3 DEF Start, Goto, Model, TypeOK, evVars, listVars, userVars
<1>a. Done' = Done /\ Done \in Nat
  BY <1>1, WriteFacts DEF Start, Goto, Done, evVars, listVars
<1>5. Loose(now)'
  BY <1>1, <1>2, <1>a, LooseWrite
<1>6. \A l \in Lists : l # L => Kept(l)
  BY DEF Kept, KeptList, Start, Model, TypeOK, listVars, fixVars
<1>b. Written(prio, L, before, call.es)' = Written(prio, L, before, call.es) /\ L' = L
  BY DEF Start, Goto, L, evVars
<1>c. Held(L, now[L])'
  <2>1. PICK l \in Lists : l = L /\ l = L'
    BY <1>3, <1>b
  <2>2. Held(l, now[l]) /\ now[l] \in Seq(Events)
    BY <1>1, <1>3, <2>1, NowTypes DEF WriteState
  <2>3. KeptList(l) /\ KeptEvents(now[l])
    BY DEF KeptList, KeptEvents, Start, evVars, listVars
  <2>4. Held(l, now[l])'
    BY <2>2, <2>3, HeldSame
  <2> QED
    BY <2>1, <2>4
<1>d. now[L] = before /\ cnt[L] = Len(before) /\ k = 0
  BY <1>1, <1>3, WriteFacts DEF WriteState, Done, Held
<1>e. fixStart'[L] = 1 /\ cnt[L] = Len(before) + k /\ call.n >= 1
  <2>1. Len(before) \in Nat /\ fixStart[L] = 0 /\ call.n >= 1
    BY <1>1, <1>3, InsideFacts DEF WriteState
  <2> QED
    BY <2>1, <1>3, <1>d DEF Start, Model, TypeOK
<1>f. Linked(next', now[L]) /\ Sorted(L, now[L])'
  BY <1>b, <1>c DEF Held
<1>7. WriteState(now[L])'
  BY <1>1, <1>3, <1>a, <1>b, <1>c, <1>d, <1>e, <1>f DEF WriteState, Start, Goto, evVars, listVars
<1> QED
  BY <1>1, <1>2, <1>4, <1>5, <1>6, <1>7, InsideSimple DEF Start, evVars

\* The end of a write.
LEMMA WEndStep ==
  ASSUME NEW now, Model(now), WEnd
  PROVE  Inv'
<1>1. pc = "wEnd" /\ pc \in InLock /\ ~Reading
  BY DEF WEnd, Goto, InLock, WritePcs, Model, Good, Control
<1>2. Inside
  BY <1>1 DEF WEnd, Goto, Inside, InLock, ReadPcs, WritePcs, evVars, listVars
<1>3. L \in Lists /\ WriteState(now[L]) /\ call.n \in Nat
  BY <1>1, InsideFacts
<1>4. TypeOK'
  <2>1. fixStart[L] = 1
    BY <1>1, <1>3 DEF WriteState
  <2>2. fixStart' \in [Lists -> Nat]
    BY <1>3, <2>1 DEF WEnd, Model, TypeOK
  <2>3. pc' \in Active
    BY DEF WEnd, Goto, Active, InLock, WritePcs
  <2> QED
    BY <2>2, <2>3 DEF WEnd, Goto, Model, TypeOK, evVars, listVars, userVars
<1>a. Done' = Done /\ Done \in Nat
  BY <1>1, WriteFacts DEF WEnd, Goto, Done, evVars, listVars
<1>5. Loose(now)'
  BY <1>1, <1>2, <1>a, LooseWrite
<1>6. \A l \in Lists : l # L => Kept(l)
  BY DEF Kept, KeptList, WEnd, Model, TypeOK, listVars, fixVars
<1>b. Written(prio, L, before, call.es)' = Written(prio, L, before, call.es) /\ L' = L
  BY DEF WEnd, Goto, L, evVars
<1>c. Held(L, now[L])'
  <2>1. PICK l \in Lists : l = L /\ l = L'
    BY <1>3, <1>b
  <2>2. Held(l, now[l]) /\ now[l] \in Seq(Events)
    BY <1>1, <1>3, <2>1, NowTypes DEF WriteState
  <2>3. KeptList(l) /\ KeptEvents(now[l])
    BY DEF KeptList, KeptEvents, WEnd, evVars, listVars
  <2>4. Held(l, now[l])'
    BY <2>2, <2>3, HeldSame
  <2> QED
    BY <2>1, <2>4
<1>7. WriteState(now[L])'
  BY <1>1, <1>3, <1>a, <1>b, <1>c DEF WriteState, WEnd, Goto, Held, Model, TypeOK, evVars, listVars, fixVars
<1> QED
  BY <1>1, <1>2, <1>4, <1>5, <1>6, <1>7, InsideSimple DEF WEnd, evVars

-----------------------------------------------------------------------------
(* An event is put into a list.                                            *)

\* The pointers around the new event.
LEMMA InsertLinked ==
  ASSUME NEW nx, NEW s \in Seq(Events), NEW p \in 1..(Len(s) + 1), NEW e \in Events,
         \A i \in 1..(Len(s) - 1) : i # p - 1 => nx[s[i]] = s[i + 1],
         p > 1 => nx[s[p - 1]] = e,
         p <= Len(s) => nx[e] = s[p]
  PROVE  Linked(nx, InsertAt(s, p, e))
<1> DEFINE t == InsertAt(s, p, e)
<1>0. Len(s) \in Nat /\ p \in Nat /\ p >= 1 /\ p <= Len(s) + 1
  BY SeqFacts
<1>1. Len(t) = Len(s) + 1
  BY Inserted
<1>2. ASSUME NEW i \in 1..(Len(s) + 1)
      PROVE  t[i] = IF i < p THEN s[i] ELSE IF i = p THEN e ELSE s[i - 1]
  BY Inserted
<1> HIDE DEF t
<1>3. ASSUME NEW i \in 1..Len(s) PROVE nx[t[i]] = t[i + 1]
  <2>0. i \in 1..(Len(s) + 1) /\ i + 1 \in 1..(Len(s) + 1) /\ i \in Nat /\ (i + 1) - 1 = i
    BY <1>0
  <2>1. CASE i + 1 < p
    <3>1. t[i] = s[i] /\ t[i + 1] = s[i + 1] /\ i \in 1..(Len(s) - 1) /\ i # p - 1
      BY <2>1, <2>0, <1>0, <1>2
    <3> QED
      BY <3>1
  <2>2. CASE i + 1 = p
    <3>1. t[i] = s[i] /\ t[i + 1] = e /\ i = p - 1 /\ p > 1
      BY <2>2, <2>0, <1>0, <1>2
    <3> QED
      BY <3>1
  <2>3. CASE i = p
    <3>1. t[i] = e /\ t[i + 1] = s[i] /\ p <= Len(s)
      BY <2>3, <2>0, <1>0, <1>2
    <3> QED
      BY <3>1, <2>3
  <2>4. CASE i > p
    <3>1. t[i] = s[i - 1] /\ t[i + 1] = s[i] /\ i - 1 \in 1..(Len(s) - 1) /\ i - 1 # p - 1 /\ (i - 1) + 1 = i
      BY <2>4, <2>0, <1>0, <1>2
    <3> QED
      BY <3>1
  <2> QED
    BY <2>1, <2>2, <2>3, <2>4, <2>0, <1>0
<1>4. \A i \in 1..(Len(t) - 1) : i \in 1..Len(s)
  BY <1>0, <1>1
<1>5. Linked(nx, t)
  BY <1>3, <1>4 DEF Linked
<1> QED
  BY <1>5 DEF t

\* A high event behind the high ones, or a low one at the end.
LEMMA InsertRanks ==
  ASSUME NEW s \in Seq(Events), NEW h, Ranks(s, h), NEW e \in Events
  PROVE  /\ IsHigh(e) => Ranks(InsertAt(s, h + 1, e), h + 1)
         /\ ~IsHigh(e) => Ranks(InsertAt(s, Len(s) + 1, e), h)
<1>0. Len(s) \in Nat /\ h \in Nat /\ h <= Len(s)
  BY SeqFacts DEF Ranks
<1>r. \A i \in 1..Len(s) : IsHigh(s[i]) <=> i <= h
  BY DEF Ranks
<1>1. ASSUME IsHigh(e) PROVE Ranks(InsertAt(s, h + 1, e), h + 1)
  <2>0. PICK p \in 1..(Len(s) + 1) : p = h + 1
    BY <1>0
  <2> DEFINE t == InsertAt(s, p, e)
  <2>1. Len(t) = Len(s) + 1
    BY <2>0, Inserted
  <2>2. ASSUME NEW i \in 1..(Len(s) + 1)
        PROVE  t[i] = IF i < h + 1 THEN s[i] ELSE IF i = h + 1 THEN e ELSE s[i - 1]
    <3>1. t[i] = IF i < p THEN s[i] ELSE IF i = p THEN e ELSE s[i - 1]
      BY Inserted
    <3> HIDE DEF t
    <3> QED
      BY <3>1, <2>0
  <2>t. t = InsertAt(s, h + 1, e)
    BY <2>0
  <2> HIDE DEF t
  <2>3. ASSUME NEW i \in 1..(Len(s) + 1) PROVE IsHigh(t[i]) <=> i <= h + 1
    <3>1. CASE i < h + 1
      <4>1. t[i] = s[i] /\ i \in 1..Len(s) /\ i <= h /\ i <= h + 1
        BY <3>1, <2>2, <1>0
      <4> QED
        BY <4>1, <1>r
    <3>2. CASE i = h + 1
      BY <3>2, <2>2, <1>1, <1>0
    <3>3. CASE i > h + 1
      <4>1. t[i] = s[i - 1] /\ i - 1 \in 1..Len(s) /\ ~(i - 1 <= h) /\ ~(i <= h + 1)
        BY <3>3, <2>2, <1>0
      <4> QED
        BY <4>1, <1>r
    <3> QED
      BY <3>1, <3>2, <3>3, <1>0
  <2>4. h + 1 \in 0..(Len(s) + 1)
    BY <1>0
  <2>5. Ranks(t, h + 1)
    BY <2>1, <2>3, <2>4 DEF Ranks
  <2> QED
    BY <2>5, <2>t
<1>2. ASSUME ~IsHigh(e) PROVE Ranks(InsertAt(s, Len(s) + 1, e), h)
  <2>0. PICK p \in 1..(Len(s) + 1) : p = Len(s) + 1
    BY <1>0
  <2> DEFINE t == InsertAt(s, p, e)
  <2>1. Len(t) = Len(s) + 1
    BY <2>0, Inserted
  <2>2. ASSUME NEW i \in 1..(Len(s) + 1)
        PROVE  t[i] = IF i < Len(s) + 1 THEN s[i] ELSE IF i = Len(s) + 1 THEN e ELSE s[i - 1]
    <3>1. t[i] = IF i < p THEN s[i] ELSE IF i = p THEN e ELSE s[i - 1]
      BY Inserted
    <3> HIDE DEF t
    <3> QED
      BY <3>1, <2>0
  <2>t. t = InsertAt(s, Len(s) + 1, e)
    BY <2>0
  <2> HIDE DEF t
  <2>3. ASSUME NEW i \in 1..(Len(s) + 1) PROVE IsHigh(t[i]) <=> i <= h
    <3>1. CASE i < Len(s) + 1
      <4>1. t[i] = s[i] /\ i \in 1..Len(s)
        BY <3>1, <2>2, <1>0
      <4> QED
        BY <4>1, <1>r
    <3>2. CASE i = Len(s) + 1
      <4>1. t[i] = e /\ ~(i <= h)
        BY <3>2, <2>2, <1>0
      <4> QED
        BY <4>1, <1>2
    <3> QED
      BY <3>1, <3>2, <1>0
  <2>4. h \in 0..(Len(s) + 1)
    BY <1>0
  <2>5. Ranks(t, h)
    BY <2>1, <2>3, <2>4 DEF Ranks
  <2> QED
    BY <2>5, <2>t
<1> QED
  BY <1>1, <1>2

\* The lists with the event e put into l.
PutIn(now, nw, l, p, e) ==
  /\ nw[l] = InsertAt(now[l], p, e) /\ \A m \in Lists : m # l => nw[m] = now[m]
  /\ Apart(nw) /\ ~Off(nw, e)
  /\ \A x \in Events : x # e => (Off(nw, x) <=> Off(now, x))

\* now with one more event in a list.
LEMMA InsertNow ==
  ASSUME NEW now \in [Lists -> Seq(Events)], Apart(now), NEW l \in Lists,
         NEW p \in 1..(Len(now[l]) + 1), NEW e \in Events, Off(now, e)
  PROVE  \E nw \in [Lists -> Seq(Events)] : PutIn(now, nw, l, p, e)
<1> DEFINE s == now[l]
           t == InsertAt(s, p, e)
           nw == [now EXCEPT ![l] = t]
<1>0. s \in Seq(Events) /\ Len(s) \in Nat /\ p \in Nat /\ p >= 1 /\ p <= Len(s) + 1
  BY SeqFacts
<1>1. t \in Seq(Events) /\ Len(t) = Len(s) + 1
  BY <1>0, Inserted
<1>2. ASSUME NEW i \in 1..(Len(s) + 1)
      PROVE  t[i] = IF i < p THEN s[i] ELSE IF i = p THEN e ELSE s[i - 1]
  BY <1>0, Inserted
<1>3. nw \in [Lists -> Seq(Events)] /\ nw[l] = t /\ \A m \in Lists : m # l => nw[m] = now[m]
  BY <1>1
<1>s. s = now[l]
  OBVIOUS
<1> HIDE DEF t, nw, s
\* An event of nw other than e has its place in now, and the other way round.
<1> DEFINE a(m, i) == IF m = l /\ i > p THEN i - 1 ELSE i
           b(m, i) == IF m = l /\ i >= p THEN i + 1 ELSE i
<1>4. ASSUME NEW m \in Lists, NEW i \in 1..Len(nw[m]), ~(m = l /\ i = p)
      PROVE  a(m, i) \in 1..Len(now[m]) /\ nw[m][i] = now[m][a(m, i)]
  <2>1. CASE m # l
    BY <2>1, <1>3
  <2>2. CASE m = l /\ i < p
    <3>1. i \in 1..(Len(s) + 1) /\ i \in 1..Len(s)
      BY <2>2, <1>0, <1>1, <1>3
    <3> QED
      BY <2>2, <3>1, <1>0, <1>2, <1>3, <1>s
  <2>3. CASE m = l /\ i > p
    <3>1. i \in 1..(Len(s) + 1) /\ i - 1 \in 1..Len(s)
      BY <2>3, <1>0, <1>1, <1>3
    <3> QED
      BY <2>3, <3>1, <1>0, <1>2, <1>3, <1>s
  <2>4. i \in Int
    BY <1>3
  <2> QED
    BY <2>1, <2>2, <2>3, <2>4, <1>4, <1>0
<1>5. ASSUME NEW m \in Lists, NEW i \in 1..Len(now[m])
      PROVE  b(m, i) \in 1..Len(nw[m]) /\ nw[m][b(m, i)] = now[m][i]
  <2>1. CASE m # l
    BY <2>1, <1>3
  <2>2. CASE m = l /\ i < p
    <3>1. i \in 1..(Len(s) + 1) /\ i \in 1..Len(s)
      BY <2>2, <1>0, <1>s
    <3> QED
      BY <2>2, <3>1, <1>0, <1>1, <1>2, <1>3, <1>s
  <2>3. CASE m = l /\ i >= p
    <3>1. i + 1 \in 1..(Len(s) + 1) /\ i \in 1..Len(s) /\ i + 1 > p /\ (i + 1) - 1 = i
      BY <2>3, <1>0, <1>s
    <3> QED
      BY <2>3, <3>1, <1>0, <1>1, <1>2, <1>3, <1>s
  <2>4. i \in Int
    OBVIOUS
  <2> QED
    BY <2>1, <2>2, <2>3, <2>4, <1>0
<1>6. p \in 1..Len(nw[l]) /\ nw[l][p] = e
  BY <1>0, <1>1, <1>2, <1>3
<1>7. Apart(nw)
  <2> SUFFICES ASSUME NEW m1 \in Lists, NEW m2 \in Lists, NEW i \in 1..Len(nw[m1]), NEW j \in 1..Len(nw[m2]),
                      nw[m1][i] = nw[m2][j]
               PROVE  m1 = m2 /\ i = j
    BY Zenon DEF Apart
  <2>0. i \in Int /\ j \in Int
    OBVIOUS
  <2>1. CASE m1 = l /\ i = p
    <3>1. ASSUME ~(m2 = l /\ j = p) PROVE FALSE
      <4>1. a(m2, j) \in 1..Len(now[m2]) /\ nw[m2][j] = now[m2][a(m2, j)]
        BY <3>1, <1>4
      <4>2. nw[m2][j] = e
        BY <2>1, <1>6
      <4> HIDE DEF a
      <4> QED
        BY <4>1, <4>2 DEF Off
    <3> QED
      BY <3>1, <2>1
  <2>2. CASE m2 = l /\ j = p
    <3>1. ASSUME ~(m1 = l /\ i = p) PROVE FALSE
      <4>1. a(m1, i) \in 1..Len(now[m1]) /\ nw[m1][i] = now[m1][a(m1, i)]
        BY <3>1, <1>4
      <4>2. nw[m1][i] = e
        BY <2>2, <1>6
      <4> HIDE DEF a
      <4> QED
        BY <4>1, <4>2 DEF Off
    <3> QED
      BY <3>1, <2>2
  <2>3. CASE ~(m1 = l /\ i = p) /\ ~(m2 = l /\ j = p)
    <3>1. /\ a(m1, i) \in 1..Len(now[m1]) /\ nw[m1][i] = now[m1][a(m1, i)]
          /\ a(m2, j) \in 1..Len(now[m2]) /\ nw[m2][j] = now[m2][a(m2, j)]
      BY <2>3, <1>4
    <3> HIDE DEF a
    <3>2. m1 = m2 /\ a(m1, i) = a(m2, j)
      <4>1. PICK x \in 1..Len(now[m1]), y \in 1..Len(now[m2]) : x = a(m1, i) /\ y = a(m2, j)
        BY <3>1, Zenon
      <4>2. now[m1][x] = now[m2][y]
        BY <4>1, <3>1
      <4>3. m1 = m2 /\ x = y
        BY <4>2, OnePlace
      <4> QED
        BY <4>1, <4>3
    <3> QED
      BY <3>2, <2>3, <2>0, <1>0 DEF a
  <2> QED
    BY <2>1, <2>2, <2>3
<1>8. ~Off(nw, e)
  BY <1>6 DEF Off
<1>9. ASSUME NEW x \in Events, x # e PROVE Off(nw, x) <=> Off(now, x)
  <2>1. ASSUME Off(now, x) PROVE Off(nw, x)
    <3> SUFFICES ASSUME NEW m \in Lists, NEW i \in 1..Len(nw[m]), nw[m][i] = x PROVE FALSE
      BY DEF Off
    <3>1. ~(m = l /\ i = p)
      BY <1>6, <1>9
    <3> QED
      BY <3>1, <1>4, <2>1 DEF Off
  <2>2. ASSUME Off(nw, x) PROVE Off(now, x)
    <3> SUFFICES ASSUME NEW m \in Lists, NEW i \in 1..Len(now[m]), now[m][i] = x PROVE FALSE
      BY DEF Off
    <3> QED
      BY <1>5, <2>2 DEF Off
  <2> QED
    BY <2>1, <2>2
<1> QED
  <2>1. nw[l] = InsertAt(now[l], p, e)
    BY <1>3 DEF t, s
  <2>2. PutIn(now, nw, l, p, e)
    BY <2>1, <1>3, <1>7, <1>8, <1>9 DEF PutIn
  <2> QED
    BY <2>2, <1>3

-----------------------------------------------------------------------------
(* The stores that put an event into the list.                             *)

\* The event a write puts next.
LEMMA NextEvent ==
  ASSUME NEW now, Model(now), pc \in {"link", "relink"}, Done = k
  PROVE  /\ ~Reading /\ pc \in InLock /\ L \in Lists /\ L # "cuIn"
         /\ k \in 0..(Len(call.es) - 1) /\ call.n = Len(call.es) /\ E \in Events /\ Off(now, E)
         /\ now[L] \in Seq(Events) /\ Len(now[L]) \in Nat /\ Held(L, now[L]) /\ WriteState(now[L])
         /\ now[L] = Written(prio, L, before, call.es)[k]
         /\ Slot(prio, L, now[L], E) \in 1..(Len(now[L]) + 1)
         /\ Written(prio, L, before, call.es)[k + 1] = InsertAt(now[L], Slot(prio, L, now[L], E), E)
<1>1. ~Reading /\ pc \in InLock
  BY DEF Model, Good, Control, InLock, WritePcs
<1>2. /\ L \in Lists /\ WriteState(now[L]) /\ call.n = Len(call.es) /\ L # "cuIn"
      /\ now[L] = Written(prio, L, before, call.es)[k] /\ k \in 0..call.n
      /\ \A i \in (k + 1)..call.n : Off(now, call.es[i])
      /\ now[L] \in Seq(Events) /\ Len(now[L]) \in Nat /\ Len(call.es) \in Nat /\ Len(before) \in Nat
      /\ call.es \in Seq(Events) /\ before \in Seq(Events)
      /\ \A i \in 1..Len(call.es) : call.es[i] \in Events
  BY <1>1, InsideFacts, WriteFacts
<1>3. k \in 0..(Len(call.es) - 1)
  BY <1>2 DEF WriteState
<1>4. k + 1 \in (k + 1)..call.n /\ k + 1 \in 1..Len(call.es)
  BY <1>2, <1>3
<1>5. E \in Events /\ Off(now, E)
  BY <1>2, <1>4 DEF E
<1>6. Held(L, now[L])
  <2>1. ~(pc = "relink" /\ cnt[L] = 0)
    BY <1>2 DEF Done
  <2> QED
    BY <2>1, <1>2 DEF WriteState
<1>7. /\ Len(now[L]) = Len(before) + k
      /\ Slot(prio, L, now[L], E) \in 1..(Len(before) + k + 1)
      /\ Written(prio, L, before, call.es)[k + 1] = InsertAt(now[L], Slot(prio, L, now[L], E), E)
  <2> DEFINE w == Written(prio, L, before, call.es)
  <2>1. /\ Len(w[k]) = Len(before) + k
        /\ Slot(prio, L, w[k], call.es[k + 1]) \in 1..(Len(before) + k + 1)
        /\ w[k + 1] = InsertAt(w[k], Slot(prio, L, w[k], call.es[k + 1]), call.es[k + 1])
    BY <1>2, <1>3, WrittenNext
  <2> QED
    BY <2>1, <1>2 DEF E
<1> QED
  BY <1>1, <1>2, <1>3, <1>5, <1>6, <1>7

\* The step after which the event is in the list.
LEMMA WriteOne ==
  ASSUME NEW now, Model(now), pc \in {"link", "relink"}, Done = k, Done' = k + 1, k' = k,
         owner' = owner, Inside
  PROVE  \E nw \in [Lists -> Seq(Events)] :
           /\ nw[L] = Written(prio, L, before, call.es)[k + 1]
           /\ nw[L] = InsertAt(now[L], Slot(prio, L, now[L], E), E)
           /\ \A m \in Lists : m # L => nw[m] = now[m]
           /\ Apart(nw) /\ Outside(nw)' /\ Leaving' /\ Loose(nw)' /\ Travel(nw)'
<1>1. /\ ~Reading /\ pc \in InLock /\ L \in Lists /\ L # "cuIn" /\ k \in 0..(Len(call.es) - 1) /\ call.n = Len(call.es)
      /\ E \in Events /\ Off(now, E) /\ Slot(prio, L, now[L], E) \in 1..(Len(now[L]) + 1)
      /\ Written(prio, L, before, call.es)[k + 1] = InsertAt(now[L], Slot(prio, L, now[L], E), E)
  BY NextEvent
<1>2. PICK l \in Lists, e \in Events, p \in 1..(Len(now[L]) + 1) :
        l = L /\ e = E /\ p = Slot(prio, L, now[L], E)
  BY <1>1
<1>3. now \in [Lists -> Seq(Events)] /\ Apart(now) /\ Off(now, e) /\ p \in 1..(Len(now[l]) + 1)
  BY <1>1, <1>2 DEF Model, Good
<1>4. PICK nw \in [Lists -> Seq(Events)] :
        /\ nw[l] = InsertAt(now[l], p, e) /\ \A m \in Lists : m # l => nw[m] = now[m]
        /\ Apart(nw) /\ ~Off(nw, e)
        /\ \A x \in Events : x # e => (Off(nw, x) <=> Off(now, x))
  <2>1. \E nw \in [Lists -> Seq(Events)] : PutIn(now, nw, l, p, e)
    BY <1>3, InsertNow
  <2> QED
    BY <2>1 DEF PutIn
<1>5. call.es \in Seq(Events) /\ Len(call.es) \in Nat /\ \A i \in 1..Len(call.es) : call.es[i] \in Events
  BY <1>1, InsideFacts
<1>6. k + 1 \in 1..Len(call.es) /\ call.es[k + 1] = e
  BY <1>1, <1>2, <1>5 DEF E
<1>7. Outside(nw)'
  <2>1. ASSUME NEW x \in Events, Off(nw, x)
        PROVE  Off(now, x) /\ owner'[x] = owner[x] /\ (InCall(x) => InCall(x)')
    BY <2>1, <1>4 DEF InCall, Inside
  <2>2. ASSUME NEW x \in Events, Off(now, x)
        PROVE  Off(nw, x) \/ \E i \in 1..Len(call.es) : call.es[i] = x
    BY <2>2, <1>4, <1>6
  <2> QED
    BY <2>1, <2>2, InsideOutside
<1>a. Leaving'
  <2>1. ASSUME NEW x PROVE InCall(x)' <=> InCall(x)
    BY DEF InCall, Inside
  <2> QED
    BY <2>1, InsideLeaving
<1>8. Loose(nw)'
  <2>1. call' = call /\ (Reading' <=> Reading) /\ pc' \in InLock /\ pc' \notin Post \cup {"age", "lock"}
    BY DEF Inside, Reading, InLock, ReadPcs, WritePcs, Post
  <2>2. Distinct(call.es) /\ \A i \in (k + 1)..call.n : Off(now, call.es[i])
    BY <1>1, WriteFacts
  <2>3. ASSUME NEW i \in (k + 2)..call.n PROVE Off(nw, call.es[i])
    <3>1. i \in 1..Len(call.es) /\ i # k + 1 /\ i \in (k + 1)..call.n
      BY <1>1, <1>5
    <3>2. call.es[i] # e /\ call.es[i] \in Events
      BY <3>1, <2>2, <1>6, <1>5 DEF Distinct
    <3> QED
      BY <3>1, <3>2, <2>2, <1>4
  <2>4. \A i \in (Done' + 1)..call.n : i \in (k + 2)..call.n
    BY <1>1, <1>5
  <2> QED
    BY <1>1, <2>1, <2>2, <2>3, <2>4 DEF Loose, Post
<1>9. Travel(nw)'
  <2>1. Travel(now) /\ pc \in Active
    BY <1>1 DEF Model, Good, Active
  <2>2. ASSUME NEW m \in Lists \ {"gcIn"}, NEW i \in 1..Len(nw[m]) PROVE nw[m][i] \in put
    <3>1. CASE m # l
      BY <3>1, <2>1, <1>4 DEF Travel
    <3>2. CASE m = l
      <4>1. L \in Outputs
        BY <3>2, <1>1, <1>2 DEF Lists, Outputs
      <4>2. e \in put
        BY <4>1, <2>1, <1>1, <1>6 DEF Travel
      <4>3. Len(nw[l]) = Len(now[l]) + 1 /\ now[l] \in Seq(Events) /\ Len(now[l]) \in Nat
        BY <1>3, <1>4, Inserted, SeqFacts
      <4>4. i \in 1..(Len(now[l]) + 1)
        BY <3>2, <4>3
      <4>5. nw[m][i] = IF i < p THEN now[l][i] ELSE IF i = p THEN e ELSE now[l][i - 1]
        <5>1. InsertAt(now[l], p, e)[i] = IF i < p THEN now[l][i] ELSE IF i = p THEN e ELSE now[l][i - 1]
          BY <4>3, <4>4, <1>3, Inserted
        <5> QED
          BY <5>1, <3>2, <1>4
      <4>6. \A j \in 1..Len(now[l]) : now[l][j] \in put
        BY <3>2, <2>1 DEF Travel
      <4>7. (i < p => i \in 1..Len(now[l])) /\ (i > p => i - 1 \in 1..Len(now[l]))
        BY <4>3, <4>4, <1>3
      <4>8. i < p \/ i = p \/ i > p
        BY <4>4, <1>3
      <4> QED
        BY <4>2, <4>5, <4>6, <4>7, <4>8
    <3> QED
      BY <3>1, <3>2
  <2>3. ASSUME at = "CU", NEW x \in Events, Off(nw, x) PROVE x \in put
    BY <2>1, <2>3, <1>4 DEF Travel
  <2> QED
    BY <2>2, <2>3, InsideTravel
<1> QED
  BY <1>1, <1>2, <1>4, <1>7, <1>8, <1>9, <1>a

\* Where the event goes.
LEMMA WhereIs ==
  ASSUME NEW now, Model(now), pc \in {"link", "relink"}, cnt[L] # 0,
         NEW s, s = now[L], NEW p, p = Spot(s)
  PROVE  /\ p \in 1..(Len(s) + 1) /\ Len(s) >= 1 /\ Slot(prio, L, s, E) = p /\ Done = k
         /\ Where \in {"end", "front", "behind"}
         /\ Where = "end" <=> p = Len(s) + 1
         /\ Where = "front" <=> p = 1
         /\ Where = "behind" => LastHigh = s[p - 1]
         /\ Ranked => IsHigh(E) /\ Ranks(s, p - 1)
         /\ ~Ranked => p = Len(s) + 1 /\ (L # "gcIn" => ~IsHigh(E))
<1>1. Done = k
  BY DEF Done
<1>2. /\ s \in Seq(Events) /\ Len(s) \in Nat /\ Held(L, s) /\ L \in Lists /\ L # "cuIn"
  BY <1>1, NextEvent
<1>3. Len(s) >= 1 /\ cnt[L] = Len(s) /\ Linked(next, s) /\ first[L] = s[1] /\ last[L] = s[Len(s)] /\ s # <<>>
  BY <1>2 DEF Held, Ends
<1>4. CASE ~Ranked
  BY <1>1, <1>2, <1>3, <1>4 DEF Where, Spot, Slot, Ranked, IsHigh
<1>5. CASE Ranked
  <2> DEFINE h == lasthigh[L]
  <2>1. L \in Outputs /\ IsHigh(E) /\ L # "gcIn"
    BY <1>5, <1>2 DEF Ranked, Lists, Outputs
  <2>2. Ranks(s, h)
    BY <2>1, <1>2 DEF Held, Counted
  <2>3. h \in 0..Len(s) /\ \A i \in 1..Len(s) : prio[s[i]] = "HIGH" <=> i <= h
    BY <2>2 DEF Ranks, IsHigh
  <2>4. NHigh(prio, s) = h
    BY <2>3, <1>2, NHighIs
  <2>5. Slot(prio, L, s, E) = h + 1 /\ p = h + 1
    BY <2>1, <2>4, <1>5 DEF Slot, Spot, IsHigh
  <2>6. ASSUME h # 0 PROVE LastHigh = s[h]
    <3>1. h \in 1..Len(s) /\ h \in 1..h
      BY <2>6, <2>3, <1>2
    <3>2. \A i \in 1..h : Chain(next, first[L], h)[i] = s[i]
      BY <2>3, <1>2, <1>3, ChainIs
    <3> QED
      BY <3>1, <3>2 DEF LastHigh
  <2>7. ASSUME h # 0 PROVE LastHigh = last[L] <=> h = Len(s)
    <3>1. Distinct(s)
      BY <1>2, NowDistinct DEF Model, Good
    <3>2. h \in 1..Len(s) /\ Len(s) \in 1..Len(s)
      BY <2>7, <2>3, <1>2, <1>3
    <3> QED
      BY <3>1, <3>2, <2>6, <2>7, <1>3 DEF Distinct
  <2>8. p \in 1..(Len(s) + 1) /\ p - 1 = h /\ (p = 1 <=> h = 0) /\ (p = Len(s) + 1 <=> h = Len(s))
    BY <2>3, <2>5, <1>2
  <2> HIDE DEF h
  <2>9. /\ h = 0 => Where = "front"
        /\ h # 0 /\ h = Len(s) => Where = "end"
        /\ h # 0 /\ h # Len(s) => Where = "behind"
    BY <1>5, <2>7 DEF Where, h
  <2> QED
    BY <1>1, <1>3, <1>5, <2>1, <2>2, <2>5, <2>6, <2>8, <2>9
<1> QED
  BY <1>4, <1>5

\* What the operators of a write stand for is the same after the step.
LEMMA SameWrite ==
  ASSUME Inside, k' = k, cnt' = cnt
  PROVE  /\ L' = L /\ E' = E /\ (Ranked' <=> Ranked) /\ (OwnerFirst' <=> OwnerFirst) /\ (Reading' <=> Reading)
         /\ Written(prio, L, before, call.es)' = Written(prio, L, before, call.es)
         /\ call' = call /\ before' = before /\ prio' = prio
  BY DEF Inside, L, E, Ranked, OwnerFirst, Reading, IsHigh

\* Linking the first event of an empty list.
LEMMA LinkEmpty ==
  ASSUME NEW now, Model(now), Link, cnt[L] = 0
  PROVE  Inv'
<1>1. pc = "link" /\ pc' = "relink" /\ Done = k /\ k' = k /\ cnt' = cnt /\ owner' = owner /\ next' = next
      /\ first' = [first EXCEPT ![L] = E] /\ UNCHANGED <<fixVars, last, lasthigh, lock>>
  BY DEF Link, Goto, Done, Where
<1>2. Inside
  <2>1. ~Reading
    BY <1>1, NextEvent
  <2> QED
    BY <1>1, <2>1 DEF Link, Goto, Inside, InLock, ReadPcs, WritePcs
<1>3. /\ ~Reading /\ pc \in InLock /\ L \in Lists /\ L # "cuIn" /\ k \in 0..(Len(call.es) - 1) /\ call.n = Len(call.es)
      /\ E \in Events /\ Off(now, E) /\ WriteState(now[L]) /\ Held(L, now[L])
      /\ now[L] \in Seq(Events) /\ Len(now[L]) \in Nat
      /\ Slot(prio, L, now[L], E) \in 1..(Len(now[L]) + 1)
  BY <1>1, NextEvent
<1>4. /\ L' = L /\ E' = E /\ (Ranked' <=> Ranked) /\ (OwnerFirst' <=> OwnerFirst) /\ (Reading' <=> Reading)
      /\ Written(prio, L, before, call.es)' = Written(prio, L, before, call.es)
      /\ call' = call /\ before' = before /\ prio' = prio
  BY <1>1, <1>2, SameWrite
<1>5. Done' = k + 1
  BY <1>1, <1>4 DEF Done
<1>6. PICK nw \in [Lists -> Seq(Events)] :
           /\ nw[L] = Written(prio, L, before, call.es)[k + 1]
           /\ nw[L] = InsertAt(now[L], Slot(prio, L, now[L], E), E)
           /\ \A m \in Lists : m # L => nw[m] = now[m]
           /\ Apart(nw) /\ Outside(nw)' /\ Leaving' /\ Loose(nw)' /\ Travel(nw)'
  BY <1>1, <1>2, <1>5, WriteOne
<1>7. TypeOK'
  <2>1. first' \in [Lists -> Pointers]
    BY <1>1, <1>3, EventNumbers DEF Model, TypeOK
  <2>2. pc' \in Active
    BY <1>1 DEF Active, InLock, WritePcs
  <2> QED
    BY <1>1, <2>1, <2>2 DEF Link, Goto, Model, TypeOK, fixVars, userVars
<1>8. \A l \in Lists : l # L => nw[l] = now[l] /\ Kept(l) /\ KeptEvents(now[l])
  BY <1>1, <1>4, <1>6 DEF Kept, KeptList, KeptEvents, Model, TypeOK, fixVars
<1>9. nw[L] = <<E>> /\ nw[L] \in Seq(Events) /\ Len(nw[L]) = 1 /\ nw[L][1] = E
  <2>1. now[L] = <<>> /\ Len(now[L]) = 0
    BY <1>3 DEF Held
  <2>2. PICK p \in 1..1 : p = Slot(prio, L, now[L], E)
    BY <1>3, <2>1
  <2>3. now[L] \in Seq(Events) /\ p \in 1..(Len(now[L]) + 1) /\ 1 \in 1..(Len(now[L]) + 1)
    BY <1>3, <2>1
  <2>4. /\ InsertAt(now[L], p, E) \in Seq(Events) /\ Len(InsertAt(now[L], p, E)) = 1
    <3>1. InsertAt(now[L], p, E) \in Seq(Events) /\ Len(InsertAt(now[L], p, E)) = Len(now[L]) + 1
      BY <2>3, <1>3, Inserted
    <3> QED
      BY <3>1, <2>1
  <2>5. InsertAt(now[L], p, E)[1] = IF 1 < p THEN now[L][1] ELSE IF 1 = p THEN E ELSE now[L][1 - 1]
    BY <2>3, <1>3, Inserted
  <2>6. p = 1
    OBVIOUS
  <2>7. nw[L] \in Seq(Events) /\ Len(nw[L]) = 1 /\ nw[L][1] = E
    BY <1>6, <2>2, <2>4, <2>5, <2>6
  <2>8. <<E>> \in Seq(Events) /\ Len(<<E>>) = 1 /\ <<E>>[1] = E
    BY <1>3
  <2>9. nw[L] = <<E>>
    BY <2>7, <2>8, SeqEqual
  <2> QED
    BY <2>7, <2>9
<1>a. L \in Outputs => lasthigh[L] = 0
  BY <1>3 DEF Held, Counted, Ranks
<1>b. Linked(next', nw[L]) /\ Sorted(L, nw[L])'
  <2>1. Linked(next', nw[L])
    BY <1>9 DEF Linked
  <2>2. PICK h \in 0..1 : h = IF IsHigh(E) THEN 1 ELSE 0
    OBVIOUS
  <2>3. Ranks(nw[L], h)
    BY <1>9, <2>2 DEF Ranks
  <2>4. Sorted(L, nw[L])
    BY <2>3 DEF Sorted
  <2> QED
    BY <1>4, <2>1, <2>4 DEF Sorted, Ranks, IsHigh
<1>c. first'[L] = E
  BY <1>1, <1>3 DEF Model, TypeOK
<1>d. WriteState(nw[L])'
  BY <1>1, <1>3, <1>4, <1>5, <1>6, <1>9, <1>a, <1>b, <1>c DEF WriteState, fixVars
<1> QED
  BY <1>2, <1>3, <1>4, <1>6, <1>7, <1>8, <1>d, InsideStep

\* Preparing an event of a list that is not empty.
LEMMA LinkNext ==
  ASSUME NEW now, Model(now), Link, cnt[L] # 0
  PROVE  Inv'
<1>1. pc = "link" /\ pc' = "relink" /\ Done = k /\ k' = k /\ UNCHANGED <<cnt, owner, fixVars, last, lasthigh, lock>>
  BY DEF Link, Goto, Done
<1>2. Inside
  <2>1. ~Reading
    BY <1>1, NextEvent
  <2> QED
    BY <1>1, <2>1 DEF Link, Goto, Inside, InLock, ReadPcs, WritePcs
<1>3. /\ ~Reading /\ pc \in InLock /\ L \in Lists /\ L # "cuIn" /\ k \in 0..(Len(call.es) - 1) /\ call.n = Len(call.es)
      /\ E \in Events /\ Off(now, E) /\ WriteState(now[L]) /\ Held(L, now[L])
      /\ now[L] \in Seq(Events) /\ Len(now[L]) \in Nat
  BY <1>1, NextEvent
<1>4. /\ L' = L /\ E' = E /\ (Ranked' <=> Ranked) /\ (OwnerFirst' <=> OwnerFirst) /\ (Reading' <=> Reading)
      /\ Written(prio, L, before, call.es)' = Written(prio, L, before, call.es)
      /\ call' = call /\ before' = before /\ prio' = prio
  BY <1>1, <1>2, SameWrite
<1>5. Done' = Done /\ Done \in Nat
  BY <1>1, <1>3, <1>4 DEF Done
<1>6. PICK l \in Lists, s \in Seq(Events), e \in Events : l = L /\ s = now[L] /\ s = now[l] /\ e = E
  BY <1>3
<1>7. PICK p : p = Spot(s)
  OBVIOUS
<1>8. /\ p \in 1..(Len(s) + 1) /\ Len(s) >= 1
      /\ Where \in {"end", "front", "behind"}
      /\ Where = "end" <=> p = Len(s) + 1
      /\ Where = "front" <=> p = 1
      /\ Where = "behind" => LastHigh = s[p - 1]
  BY <1>1, <1>6, <1>7, WhereIs
<1>9. Len(s) \in Nat /\ Linked(next, s) /\ first[l] = s[1] /\ last[l] = s[Len(s)] /\ s # <<>>
      /\ (\A i \in 1..Len(s) : s[i] \in Events) /\ Len(s) \in 1..Len(s)
  BY <1>3, <1>6, <1>8, SeqFacts DEF Held, Ends
<1>a. PICK x \in Events, y \in Events :
        /\ next' = [next EXCEPT ![x] = y] /\ first' = first
        /\ p = Len(s) + 1 => x = s[Len(s)] /\ y = e
        /\ p # Len(s) + 1 => x = e /\ y = s[p]
  <2>1. CASE Where = "end"
    BY <2>1, <1>6, <1>8, <1>9 DEF Link
  <2>2. CASE Where = "front"
    <3>1. p = 1 /\ p # Len(s) + 1 /\ 1 \in 1..Len(s)
      BY <2>2, <1>8, <1>9
    <3> QED
      BY <2>2, <3>1, <1>6, <1>9 DEF Link
  <2>3. CASE Where = "behind"
    <3>1. p - 1 \in 1..(Len(s) - 1) /\ (p - 1) + 1 = p /\ p \in 1..Len(s) /\ p # Len(s) + 1
      BY <2>3, <1>8, <1>9
    <3>2. next[LastHigh] = s[p]
      BY <2>3, <3>1, <1>8, <1>9 DEF Linked
    <3> QED
      BY <2>3, <3>1, <3>2, <1>6, <1>9 DEF Link
  <2> QED
    BY <2>1, <2>2, <2>3, <1>8
<1>b. \A m \in Lists : m # L => \A i \in 1..Len(now[m]) : now[m][i] # x
  <2> SUFFICES ASSUME NEW m \in Lists, m # l, NEW i \in 1..Len(now[m]), now[m][i] = x PROVE FALSE
    BY <1>6
  <2>1. Apart(now) /\ Off(now, e)
    BY <1>3, <1>6 DEF Model, Good
  <2>2. CASE x = e
    BY <2>1, <2>2 DEF Off
  <2>3. CASE x = s[Len(s)]
    BY <2>1, <2>3, <1>6, <1>9, OnePlace
  <2> QED
    BY <2>2, <2>3, <1>a
<1>c. \A m \in Lists : m # L => Kept(m) /\ KeptEvents(now[m])
  <2> SUFFICES ASSUME NEW m \in Lists, m # L PROVE Kept(m) /\ KeptEvents(now[m])
    OBVIOUS
  <2>1. Kept(m)
    BY <1>1, <1>a DEF Kept, KeptList, fixVars
  <2>2. ASSUME NEW i \in 1..Len(now[m]) PROVE next'[now[m][i]] = next[now[m][i]]
    <3>1. now[m][i] \in Events /\ now[m][i] # x
      BY <1>b, NowTypes
    <3> QED
      BY <3>1, <1>a DEF Model, TypeOK
  <2> QED
    BY <2>1, <2>2, <1>1, <1>4 DEF KeptEvents
<1>d. TypeOK'
  <2>1. next' \in [Events -> Pointers]
    BY <1>a, EventNumbers DEF Model, TypeOK
  <2>2. pc' \in Active
    BY <1>1 DEF Active, InLock, WritePcs
  <2>u. /\ owner' = owner /\ prio' = prio /\ age' = age /\ first' = first /\ last' = last
        /\ cnt' = cnt /\ lasthigh' = lasthigh /\ lock' = lock /\ k' = k
        /\ fixCnt' = fixCnt /\ fixNum' = fixNum /\ fixStart' = fixStart /\ fixFirst' = fixFirst
        /\ fixCall' = fixCall /\ at' = at /\ call' = call /\ before' = before /\ put' = put
        /\ cleanup' = cleanup /\ ordered' = ordered
    BY <1>1, <1>a DEF Link, Goto, fixVars, userVars
  <2> QED
    BY <2>1, <2>2, <2>u DEF Model, TypeOK
<1>e. Loose(now)'
  <2>1. Done \in Nat /\ Done' \in Nat /\ Done' >= Done
    BY <1>5
  <2> QED
    BY <2>1, <1>2, <1>3, LooseWrite
<1>f. Outside(now)' /\ Leaving'
  <2>1. ASSUME NEW z PROVE InCall(z)' <=> InCall(z)
    BY <1>1, <1>4 DEF InCall
  <2> QED
    BY <2>1, <1>1, <1>2, InsideOutside, InsideLeaving
<1>g. Travel(now)'
  BY <1>2, InsideTravel DEF Model, Good, Travel
<1>h. Linked(next', s)
  <2> SUFFICES ASSUME NEW i \in 1..(Len(s) - 1) PROVE next'[s[i]] = s[i + 1]
    BY DEF Linked
  <2>1. i \in 1..Len(s) /\ i # Len(s)
    BY <1>9
  <2>2. s[i] # x
    <3>1. CASE x = e
      BY <3>1, <2>1, <1>3, <1>6 DEF Off
    <3>2. CASE x = s[Len(s)]
      <4>1. Distinct(s)
        BY <1>6, NowDistinct DEF Model, Good
      <4> QED
        BY <4>1, <3>2, <2>1, <1>9 DEF Distinct
    <3> QED
      BY <3>1, <3>2, <1>a
  <2>3. next[s[i]] = s[i + 1] /\ s[i] \in Events
    BY <2>1, <1>9 DEF Linked
  <2> QED
    BY <2>2, <2>3, <1>a DEF Model, TypeOK
<1>i. next'[x] = y
  BY <1>a DEF Model, TypeOK
<1>j. Held(l, s)'
  <2>0. \A i \in 1..Len(s) : prio'[s[i]] = prio[s[i]]
    BY <1>4
  <2>1. Held(l, s)
    BY <1>3, <1>6
  <2>2. cnt'[l] = Len(s) /\ Ends(l, s)'
    BY <2>1, <1>1, <1>a DEF Held, Ends
  <2>3. Sorted(l, s)'
    BY <2>0, <2>1, SortedSame DEF Held
  <2>4. Counted(l, s)' /\ Given(s)'
    BY <2>1, <1>1, <1>4 DEF Held, Counted, Ranks, IsHigh, Given
  <2> QED
    BY <2>2, <2>3, <2>4, <1>h DEF Held
<1>k. Held(L, s)' /\ Sorted(L, s)' /\ Spot(s)' = p
  <2>1. l = L'
    BY <1>4, <1>6
  <2>2. Spot(s)' = p
    BY <1>1, <1>4, <1>7 DEF Spot
  <2> QED
    BY <2>1, <2>2, <1>j DEF Held
<1>l. WriteState(s)'
  <2>1. cnt'[L] # 0 /\ now[L] = s /\ E = e
    BY <1>1, <1>6
  <2>2. IF p = Len(s) + 1 THEN next'[s[Len(s)]] = e ELSE next'[e] = s[p]
    BY <1>a, <1>i
  <2> QED
    BY <1>1, <1>3, <1>4, <1>5, <1>9, <1>h, <1>k, <2>1, <2>2 DEF WriteState, fixVars
<1>m. WriteState(now[L])'
  BY <1>l, <1>4, <1>6
<1>n. now \in [Lists -> Seq(Events)] /\ Apart(now)
  BY DEF Model, Good
<1> QED
  BY <1>2, <1>3, <1>c, <1>d, <1>e, <1>f, <1>g, <1>m, <1>n, InsideStep

\* The first pointer of an event.
LEMMA LinkStep ==
  ASSUME NEW now, Model(now), Link
  PROVE  Inv'
  BY LinkEmpty, LinkNext

\* The first event of an empty list becomes its last one.
LEMMA RelinkEmpty ==
  ASSUME NEW now, Model(now), Relink, cnt[L] = 0
  PROVE  Inv'
<1>1. /\ pc = "relink" /\ pc' = IF Ranked /\ ~OwnerFirst THEN "high" ELSE "give"
      /\ last' = [last EXCEPT ![L] = E]
      /\ UNCHANGED <<next, first, fixVars, k, owner, prio, age, cnt, lasthigh, lock>>
  BY DEF Relink, Goto, Where
<1>2. pc \in InLock /\ ~Reading
  BY <1>1 DEF Model, Good, Control, InLock, WritePcs
<1>3. Inside
  BY <1>1, <1>2 DEF Relink, Goto, Inside, InLock, ReadPcs, WritePcs
<1>4. /\ L \in Lists /\ L # "cuIn" /\ WriteState(now[L]) /\ k \in Nat /\ Done = k + 1
  BY <1>1, <1>2, InsideFacts, WriteFacts DEF Done
<1>5. /\ L' = L /\ E' = E /\ (Ranked' <=> Ranked) /\ (OwnerFirst' <=> OwnerFirst) /\ (Reading' <=> Reading)
      /\ Written(prio, L, before, call.es)' = Written(prio, L, before, call.es)
      /\ call' = call /\ before' = before /\ prio' = prio
  BY <1>1, <1>3, SameWrite
<1>6. Done' = Done /\ Done \in Nat
  BY <1>1, <1>4 DEF Done
<1>7. Loose(now)'
  <2>1. Done \in Nat /\ Done' \in Nat /\ Done' >= Done
    BY <1>6
  <2> QED
    BY <2>1, <1>2, <1>3, LooseWrite
<1>8. now[L] = <<E>> /\ first[L] = E /\ (L \in Outputs => lasthigh[L] = 0)
      /\ Linked(next, now[L]) /\ Sorted(L, now[L]) /\ now[L] \in Seq(Events) /\ k < call.n
  BY <1>1, <1>2, <1>4, InsideFacts DEF WriteState
<1>9. E \in Events
  BY <1>8
<1>a. TypeOK'
  <2>1. last' \in [Lists -> Pointers]
    BY <1>1, <1>9, EventNumbers DEF Model, TypeOK
  <2>2. pc' \in Active
    BY <1>1 DEF Active, InLock, WritePcs
  <2> QED
    BY <1>1, <2>1, <2>2 DEF Relink, Goto, Model, TypeOK, fixVars, userVars
<1>b. \A l \in Lists : l # L => Kept(l)
  BY <1>1 DEF Kept, KeptList, Model, TypeOK, fixVars
<1>c. PICK s \in Seq(Events) : s = now[L] /\ s = <<E>> /\ Len(s) = 1 /\ s[1] = E /\ s = now[L']
  BY <1>8, <1>5
<1>d. Sorted(L, s)' /\ Ends(L, s)' /\ Linked(next', s)
  BY <1>1, <1>4, <1>5, <1>8, <1>c DEF Sorted, Ranks, IsHigh, Ends, Model, TypeOK
<1>e. Ranked => L \in Outputs /\ lasthigh[L] = 0 /\ Ranks(s, 1)'
  BY <1>4, <1>5, <1>8, <1>c DEF Ranked, Lists, Outputs, Ranks, IsHigh
<1>f. ~Ranked => Counted(L, s)'
  BY <1>1, <1>4, <1>5, <1>8, <1>c DEF Ranked, Outputs, Counted, Ranks, IsHigh
<1>g. WriteState(s)'
  BY <1>1, <1>2, <1>4, <1>5, <1>6, <1>8, <1>c, <1>d, <1>e, <1>f DEF WriteState, fixVars
<1>h. WriteState(now[L])'
  BY <1>g, <1>c
<1> QED
  BY <1>1, <1>2, <1>3, <1>7, <1>a, <1>b, <1>h, InsideSimple

\* The event is in the list.
LEMMA RelinkNext ==
  ASSUME NEW now, Model(now), Relink, cnt[L] # 0
  PROVE  Inv'
<1>1. /\ pc = "relink" /\ pc' = (IF Ranked THEN "high" ELSE "give") /\ Done = k /\ ~OwnerFirst
      /\ UNCHANGED <<fixVars, k, owner, prio, age, cnt, lasthigh, lock>>
  BY DEF Relink, Goto, OwnerFirst, Done
<1>2. /\ ~Reading /\ pc \in InLock /\ L \in Lists /\ L # "cuIn" /\ k \in 0..(Len(call.es) - 1) /\ call.n = Len(call.es)
      /\ E \in Events /\ Off(now, E) /\ WriteState(now[L]) /\ Held(L, now[L])
      /\ now[L] \in Seq(Events) /\ Len(now[L]) \in Nat
  BY <1>1, NextEvent
<1>3. Inside
  BY <1>1, <1>2 DEF Relink, Goto, Inside, InLock, ReadPcs, WritePcs
<1>4. /\ L' = L /\ E' = E /\ (Ranked' <=> Ranked) /\ (OwnerFirst' <=> OwnerFirst) /\ (Reading' <=> Reading)
      /\ Written(prio, L, before, call.es)' = Written(prio, L, before, call.es)
      /\ call' = call /\ before' = before /\ prio' = prio
  BY <1>1, <1>3, SameWrite
<1>5. Done' = k + 1
  BY <1>1 DEF Done
<1>6. PICK nw \in [Lists -> Seq(Events)] :
           /\ nw[L] = Written(prio, L, before, call.es)[k + 1]
           /\ nw[L] = InsertAt(now[L], Slot(prio, L, now[L], E), E)
           /\ \A m \in Lists : m # L => nw[m] = now[m]
           /\ Apart(nw) /\ Outside(nw)' /\ Leaving' /\ Loose(nw)' /\ Travel(nw)'
  BY <1>1, <1>3, <1>5, WriteOne
<1>7. PICK l \in Lists, s \in Seq(Events), e \in Events : l = L /\ s = now[L] /\ s = now[l] /\ e = E
  BY <1>2
<1>8. PICK p : p = Spot(s)
  OBVIOUS
<1>9. /\ p \in 1..(Len(s) + 1) /\ Len(s) >= 1 /\ Slot(prio, L, s, E) = p
      /\ Where \in {"end", "front", "behind"}
      /\ Where = "end" <=> p = Len(s) + 1
      /\ Where = "front" <=> p = 1
      /\ Where = "behind" => LastHigh = s[p - 1]
      /\ Ranked => IsHigh(E) /\ Ranks(s, p - 1)
      /\ ~Ranked => p = Len(s) + 1 /\ (L # "gcIn" => ~IsHigh(E))
  BY <1>1, <1>7, <1>8, WhereIs
<1>a. Len(s) \in Nat /\ Linked(next, s) /\ first[l] = s[1] /\ last[l] = s[Len(s)] /\ s # <<>>
      /\ (\A i \in 1..Len(s) : s[i] \in Events) /\ Len(s) \in 1..Len(s) /\ Given(s)
      /\ Sorted(l, s) /\ Counted(l, s) /\ cnt[l] = Len(s) /\ p \in Nat
  BY <1>2, <1>7, <1>9, SeqFacts DEF Held, Ends
<1>b. PICK t \in Seq(Events) : t = nw[L] /\ t = InsertAt(s, p, e)
  BY <1>2, <1>6, <1>7, <1>9
<1>c. Len(t) = Len(s) + 1 /\ Len(t) \in Nat
  BY <1>b, <1>9, <1>a, Inserted
<1>d. ASSUME NEW i \in 1..(Len(s) + 1)
      PROVE  t[i] = IF i < p THEN s[i] ELSE IF i = p THEN e ELSE s[i - 1]
  <2>1. p \in 1..(Len(s) + 1)
    BY <1>9
  <2>2. InsertAt(s, p, e)[i] = IF i < p THEN s[i] ELSE IF i = p THEN e ELSE s[i - 1]
    BY <2>1, Inserted
  <2> QED
    BY <2>2, <1>b
<1>e. Distinct(s) /\ Apart(now) /\ Off(now, e)
  BY <1>2, <1>7, NowDistinct DEF Model, Good
<1>f. IF p = Len(s) + 1 THEN next[s[Len(s)]] = e ELSE next[e] = s[p]
  BY <1>1, <1>2, <1>7, <1>8 DEF WriteState
\* The three ways to do it.
<1>g. /\ p = Len(s) + 1 => next' = next /\ first' = first /\ last' = [last EXCEPT ![L] = e]
      /\ p = 1 => next' = next /\ first' = [first EXCEPT ![L] = e] /\ last' = last
      /\ p # 1 /\ p # Len(s) + 1 => /\ p - 1 \in 1..(Len(s) - 1) /\ next' = [next EXCEPT ![s[p - 1]] = e]
                                    /\ first' = first /\ last' = last
  <2>1. p = 1 => p # Len(s) + 1
    BY <1>9, <1>a
  <2>2. p # 1 /\ p # Len(s) + 1 => p - 1 \in 1..(Len(s) - 1)
    BY <1>9, <1>a
  <2>3. CASE Where = "end"
    BY <2>1, <2>3, <1>7, <1>9 DEF Relink
  <2>4. CASE Where = "front"
    BY <2>1, <2>4, <1>7, <1>9 DEF Relink
  <2>5. CASE Where = "behind"
    BY <2>2, <2>5, <1>7, <1>9 DEF Relink
  <2> QED
    BY <2>3, <2>4, <2>5, <1>9
<1>h. TypeOK'
  <2>1. next' \in [Events -> Pointers] /\ first' \in [Lists -> Pointers] /\ last' \in [Lists -> Pointers]
    <3>0. e \in Pointers /\ next \in [Events -> Pointers] /\ first \in [Lists -> Pointers]
          /\ last \in [Lists -> Pointers]
      BY EventNumbers DEF Model, TypeOK
    <3>1. CASE p = Len(s) + 1
      BY <3>0, <3>1, <1>g
    <3>2. CASE p = 1
      BY <3>0, <3>2, <1>g
    <3>3. CASE p # 1 /\ p # Len(s) + 1
      BY <3>0, <3>3, <1>g
    <3> QED
      BY <3>1, <3>2, <3>3
  <2>2. pc' \in Active
    BY <1>1 DEF Active, InLock, WritePcs
  <2> QED
    BY <1>1, <2>1, <2>2 DEF Relink, Goto, Model, TypeOK, fixVars, userVars
<1>i. \A m \in Lists : m # L => nw[m] = now[m] /\ Kept(m) /\ KeptEvents(now[m])
  <2> SUFFICES ASSUME NEW m \in Lists, m # L PROVE Kept(m) /\ KeptEvents(now[m])
    BY <1>6
  <2>1. first'[m] = first[m] /\ last'[m] = last[m]
    <3>1. CASE p = Len(s) + 1
      BY <3>1, <1>g DEF Model, TypeOK
    <3>2. CASE p = 1
      BY <3>2, <1>g DEF Model, TypeOK
    <3>3. CASE p # 1 /\ p # Len(s) + 1
      BY <3>3, <1>g
    <3> QED
      BY <3>1, <3>2, <3>3
  <2>2. Kept(m)
    BY <2>1, <1>1 DEF Kept, KeptList, fixVars
  <2>3. ASSUME NEW i \in 1..Len(now[m]) PROVE next'[now[m][i]] = next[now[m][i]]
    <3>1. CASE p = Len(s) + 1 \/ p = 1
      BY <3>1, <1>g
    <3>2. CASE p # 1 /\ p # Len(s) + 1
      <4>1. p - 1 \in 1..Len(s)
        BY <3>2, <1>g, <1>a
      <4>2. now[m][i] # s[p - 1] /\ now[m][i] \in Events
        <5>1. m # l /\ now[l] = s /\ now[m][i] \in Events
          BY <1>7, NowTypes
        <5>2. PICK j \in 1..Len(now[l]) : j = p - 1
          BY <4>1, <5>1
        <5>3. now[m][i] # now[l][j]
          BY <5>1, <1>e, OnePlace
        <5> QED
          BY <5>1, <5>2, <5>3
      <4> QED
        BY <3>2, <4>2, <1>g DEF Model, TypeOK
    <3> QED
      BY <3>1, <3>2
  <2> QED
    BY <2>2, <2>3, <1>1 DEF KeptEvents
<1>j. Linked(next', t)
  <2>1. ASSUME NEW i \in 1..(Len(s) - 1), i # p - 1 PROVE next'[s[i]] = s[i + 1]
    <3>0. i \in 1..Len(s) /\ next[s[i]] = s[i + 1] /\ s[i] \in Events
      BY <1>a DEF Linked
    <3>1. CASE p = Len(s) + 1 \/ p = 1
      BY <3>1, <3>0, <1>g
    <3>2. CASE p # 1 /\ p # Len(s) + 1
      <4>1. p - 1 \in 1..Len(s)
        BY <3>2, <1>g, <1>a
      <4>2. s[i] # s[p - 1]
        BY <4>1, <3>0, <2>1, <1>e DEF Distinct
      <4> QED
        BY <3>0, <3>2, <4>2, <1>g DEF Model, TypeOK
    <3> QED
      BY <3>1, <3>2
  <2>2. ASSUME p > 1 PROVE next'[s[p - 1]] = e
    <3>1. CASE p = Len(s) + 1
      <4>1. p - 1 = Len(s)
        BY <3>1, <1>a
      <4> QED
        BY <3>1, <4>1, <1>f, <1>g
    <3>2. CASE p # Len(s) + 1
      <4>1. p # 1 /\ p - 1 \in 1..Len(s)
        BY <3>2, <2>2, <1>g, <1>a
      <4> QED
        BY <3>2, <4>1, <1>g, <1>a DEF Model, TypeOK
    <3> QED
      BY <3>1, <3>2
  <2>3. ASSUME p <= Len(s) PROVE next'[e] = s[p]
    <3>0. p # Len(s) + 1 /\ next[e] = s[p]
      BY <2>3, <1>f, <1>a
    <3>1. CASE p = 1
      BY <3>0, <3>1, <1>g
    <3>2. CASE p # 1
      <4>1. p - 1 \in 1..Len(s)
        BY <3>0, <3>2, <1>g, <1>a
      <4>2. s[p - 1] # e
        BY <4>1, <1>7, <1>e DEF Off
      <4> QED
        BY <3>0, <3>2, <4>2, <1>g DEF Model, TypeOK
    <3> QED
      BY <3>1, <3>2
  <2>4. Linked(next', InsertAt(s, p, e))
    BY <2>1, <2>2, <2>3, <1>9, InsertLinked
  <2> QED
    BY <2>4, <1>b
<1>k. Ranked => Ranks(t, p) /\ p = lasthigh[L] + 1 /\ L \in Outputs
  <2> SUFFICES ASSUME Ranked PROVE Ranks(t, p) /\ p = lasthigh[L] + 1 /\ L \in Outputs
    OBVIOUS
  <2>1. IsHigh(e) /\ Ranks(s, p - 1)
    BY <1>7, <1>9
  <2>2. PICK h : h = p - 1 /\ h + 1 = p
    BY <1>a
  <2>3. Ranks(InsertAt(s, h + 1, e), h + 1)
    BY <2>1, <2>2, InsertRanks
  <2> QED
    BY <2>2, <2>3, <1>b, <1>8, <1>2 DEF Spot, Ranked, Lists, Outputs
<1>l. ASSUME ~Ranked, L # "gcIn", NEW h, Ranks(s, h) PROVE Ranks(t, h)
  <2>1. ~IsHigh(e) /\ p = Len(s) + 1
    BY <1>l, <1>7, <1>9
  <2> QED
    BY <2>1, <1>l, <1>b, InsertRanks
<1>m. Sorted(L, t)
  <2>1. CASE L = "gcIn"
    BY <2>1 DEF Sorted
  <2>2. CASE Ranked
    BY <2>2, <1>k, <1>a DEF Sorted
  <2>3. CASE ~Ranked /\ L # "gcIn"
    <3>1. PICK h \in Nat : Ranks(s, h)
      BY <2>3, <1>a, <1>7 DEF Sorted
    <3> QED
      BY <3>1, <2>3, <1>l DEF Sorted
  <2> QED
    BY <2>1, <2>2, <2>3
<1>n. ~Ranked => Counted(L, t)
  <2> SUFFICES ASSUME ~Ranked, L \in Outputs PROVE Ranks(t, lasthigh[L])
    BY DEF Counted
  <2>1. Ranks(s, lasthigh[L]) /\ L # "gcIn"
    BY <1>a, <1>7 DEF Counted, Outputs
  <2> QED
    BY <2>1, <1>l
<1>o. Sorted(L, t)' /\ (Ranked => Ranks(t, lasthigh[L] + 1)') /\ (~Ranked => Counted(L, t)')
  BY <1>k, <1>m, <1>n, <1>1, <1>4 DEF Sorted, Ranks, IsHigh, Counted
<1>p. Ends(L, t)'
  <2>1. 1 \in 1..(Len(s) + 1) /\ Len(t) \in 1..(Len(s) + 1) /\ Len(s) + 1 >= 2 /\ t # <<>>
    BY <1>c, <1>9, <1>a
  <2>2. CASE p = Len(s) + 1
    <3>1. t[1] = s[1] /\ t[Len(t)] = e
      BY <2>1, <2>2, <1>c, <1>d, <1>a
    <3> QED
      BY <3>1, <2>2, <1>g, <1>a, <1>4, <1>7 DEF Ends, Model, TypeOK
  <2>3. CASE p = 1
    <3>1. t[1] = e /\ t[Len(t)] = s[Len(s)]
      <4>1. Len(t) > 1 /\ Len(t) - 1 = Len(s)
        BY <1>c, <1>a, <1>9
      <4> QED
        BY <4>1, <2>1, <2>3, <1>d
    <3> QED
      BY <3>1, <2>3, <1>g, <1>a, <1>4, <1>7 DEF Ends, Model, TypeOK
  <2>4. CASE p # 1 /\ p # Len(s) + 1
    <3>1. t[1] = s[1] /\ t[Len(t)] = s[Len(s)]
      BY <2>1, <2>4, <1>c, <1>d, <1>a, <1>9
    <3> QED
      BY <3>1, <2>4, <1>g, <1>a, <1>4, <1>7 DEF Ends, Model, TypeOK
  <2> QED
    BY <2>2, <2>3, <2>4
<1>q. \A i \in 1..Len(t) : t[i] # E => owner'[t[i]] = "sys"
  <2> SUFFICES ASSUME NEW i \in 1..Len(t), t[i] # e PROVE owner[t[i]] = "sys"
    BY <1>1, <1>7
  <2>1. t[i] = IF i < p THEN s[i] ELSE IF i = p THEN e ELSE s[i - 1]
    BY <1>c, <1>d
  <2>2. i # p /\ (i < p => i \in 1..Len(s)) /\ (~(i < p) => i - 1 \in 1..Len(s))
    BY <2>1, <1>c, <1>9, <1>a
  <2> QED
    BY <2>1, <2>2, <1>a DEF Given
<1>r. WriteState(t)'
  <2>1. cnt'[L] # 0 /\ Len(t) = cnt'[L] + 1 /\ t = Written(prio, L, before, call.es)[k + 1]
    BY <1>1, <1>6, <1>7, <1>a, <1>b, <1>c
  <2>2. k < call.n /\ k \in 0..call.n
    BY <1>2
  <2> QED
    BY <1>1, <1>2, <1>4, <1>5, <1>j, <1>o, <1>p, <1>q, <2>1, <2>2 DEF WriteState, fixVars
<1>s. WriteState(nw[L])'
  BY <1>r, <1>4, <1>b
<1> QED
  BY <1>2, <1>3, <1>6, <1>h, <1>i, <1>s, InsideStep

\* Its second pointer.
LEMMA RelinkStep ==
  ASSUME NEW now, Model(now), Relink
  PROVE  Inv'
  BY RelinkEmpty, RelinkNext

\* The event that was put last is in the list.
LEMMA EventIn ==
  ASSUME NEW now, Model(now), pc \in {"high", "give", "more"}
  PROVE  /\ ~Reading /\ pc \in InLock /\ L \in Lists /\ L # "cuIn" /\ WriteState(now[L]) /\ Done = k + 1
         /\ k \in Nat /\ k < call.n /\ call.n \in Nat /\ call.n = Len(call.es) /\ E \in Events
         /\ now[L] \in Seq(Events) /\ Len(now[L]) \in Nat
         /\ \E i \in 1..Len(now[L]) : now[L][i] = E
<1>1. ~Reading /\ pc \in InLock
  BY DEF Model, Good, Control, InLock, WritePcs
<1>2. /\ L \in Lists /\ WriteState(now[L]) /\ call.n = Len(call.es) /\ L # "cuIn"
      /\ now[L] = Written(prio, L, before, call.es)[Done] /\ k \in Nat
      /\ now[L] \in Seq(Events) /\ Len(now[L]) \in Nat /\ Len(call.es) \in Nat /\ Len(before) \in Nat
      /\ call.es \in Seq(Events) /\ before \in Seq(Events)
      /\ \A i \in 1..Len(call.es) : call.es[i] \in Events
  BY <1>1, InsideFacts, WriteFacts
<1>3. k < call.n /\ Done = k + 1
  BY <1>2 DEF WriteState, Done
<1>4. k \in 0..(Len(call.es) - 1) /\ k + 1 \in 1..Len(call.es)
  BY <1>2, <1>3
<1>5. E \in Events
  BY <1>2, <1>4 DEF E
<1> DEFINE w == Written(prio, L, before, call.es)
<1>6. /\ w[k] \in Seq(Events) /\ Len(w[k]) = Len(before) + k
      /\ Slot(prio, L, w[k], call.es[k + 1]) \in 1..(Len(before) + k + 1)
      /\ w[k + 1] = InsertAt(w[k], Slot(prio, L, w[k], call.es[k + 1]), call.es[k + 1])
  BY <1>2, <1>4, WrittenNext
<1>b. PICK t \in Seq(Events) : t = w[k] /\ Len(t) = Len(before) + k
  BY <1>6
<1>7. PICK p \in 1..(Len(t) + 1) : now[L] = InsertAt(t, p, E)
  BY <1>2, <1>3, <1>6, <1>b DEF E
<1>8. Len(now[L]) = Len(t) + 1 /\ Len(t) \in Nat
  BY <1>5, <1>7, Inserted, SeqFacts
<1>9. now[L][p] = IF p < p THEN t[p] ELSE IF p = p THEN E ELSE t[p - 1]
  BY <1>5, <1>7, Inserted
<1>a. p \in 1..Len(now[L]) /\ now[L][p] = E
  BY <1>8, <1>9
<1> QED
  BY <1>1, <1>2, <1>3, <1>5, <1>a

\* The event counts as one of high priority.
LEMMA HighStep ==
  ASSUME NEW now, Model(now), High
  PROVE  Inv'
<1>1. /\ pc = "high" /\ pc' = (IF OwnerFirst THEN "more" ELSE "give")
      /\ UNCHANGED <<evVars, fixVars, k, first, last, cnt, lock>>
  BY DEF High, Goto
<1>2. /\ ~Reading /\ pc \in InLock /\ L \in Lists /\ L # "cuIn" /\ WriteState(now[L]) /\ Done = k + 1
      /\ k \in Nat /\ k < call.n /\ now[L] \in Seq(Events) /\ Len(now[L]) \in Nat
  BY <1>1, EventIn
<1>3. Inside
  BY <1>1, <1>2 DEF High, Goto, Inside, InLock, ReadPcs, WritePcs, evVars
<1>5. /\ L' = L /\ E' = E /\ (Ranked' <=> Ranked) /\ (OwnerFirst' <=> OwnerFirst) /\ (Reading' <=> Reading)
      /\ Written(prio, L, before, call.es)' = Written(prio, L, before, call.es)
      /\ call' = call /\ before' = before /\ prio' = prio
  BY <1>1, <1>3, SameWrite
<1>6. Done' = Done /\ Done \in Nat
  BY <1>1, <1>2 DEF Done
<1>7. Loose(now)'
  <2>1. Done \in Nat /\ Done' \in Nat /\ Done' >= Done
    BY <1>6
  <2> QED
    BY <2>1, <1>2, <1>3, LooseWrite
<1>8. /\ Ranked /\ Ranks(now[L], lasthigh[L] + 1) /\ (OwnerFirst => Given(now[L])) /\ lasthigh[L] \in Nat
      /\ Linked(next, now[L]) /\ Sorted(L, now[L]) /\ Ends(L, now[L])
      /\ (cnt[L] = 0 => now[L] = <<E>>)
  BY <1>1, <1>2 DEF WriteState, Model, TypeOK
<1>9. lasthigh' = [lasthigh EXCEPT ![L] = lasthigh[L] + 1]
  <2>1. CASE cnt[L] = 0
    <3>1. Len(now[L]) = 1
      BY <2>1, <1>8
    <3>2. lasthigh[L] + 1 = 1
      BY <3>1, <1>8 DEF Ranks
    <3> QED
      BY <2>1, <3>2 DEF High
  <2>2. CASE cnt[L] # 0
    BY <2>2 DEF High
  <2> QED
    BY <2>1, <2>2
<1>a. TypeOK'
  <2>1. lasthigh' \in [Lists -> Nat]
    <3>1. lasthigh \in [Lists -> Nat]
      BY DEF Model, TypeOK
    <3>2. lasthigh[L] \in Nat
      BY <1>8
    <3>3. lasthigh[L] + 1 \in Nat
      BY <3>2
    <3> QED
      BY <3>1, <3>3, <1>9
  <2>2. pc' \in Active
    BY <1>1 DEF Active, InLock, WritePcs
  <2>u. /\ next' = next /\ owner' = owner /\ prio' = prio /\ age' = age /\ first' = first /\ last' = last
        /\ cnt' = cnt /\ lock' = lock /\ k' = k
        /\ fixCnt' = fixCnt /\ fixNum' = fixNum /\ fixStart' = fixStart /\ fixFirst' = fixFirst
        /\ fixCall' = fixCall /\ at' = at /\ call' = call /\ before' = before /\ put' = put
        /\ cleanup' = cleanup /\ ordered' = ordered
    BY <1>1 DEF High, Goto, fixVars, userVars, evVars
  <2> QED
    BY <2>1, <2>2, <2>u DEF Model, TypeOK
<1>b. \A l \in Lists : l # L => Kept(l)
  BY <1>1, <1>9 DEF Kept, KeptList, Model, TypeOK, fixVars
<1>c. PICK s \in Seq(Events) : s = now[L] /\ s = now[L']
  BY <1>2, <1>5
<1>d. lasthigh'[L] = lasthigh[L] + 1
  BY <1>9, <1>2 DEF Model, TypeOK
<1>e. Counted(L, s)' /\ Sorted(L, s)' /\ Ends(L, s)' /\ (OwnerFirst => Given(s)')
  BY <1>1, <1>5, <1>8, <1>c, <1>d DEF Sorted, Counted, Ranks, IsHigh, Ends, Given, evVars
<1>g. WriteState(s)'
  BY <1>1, <1>2, <1>5, <1>6, <1>8, <1>c, <1>e DEF WriteState, fixVars, evVars
<1>h. WriteState(now[L])'
  BY <1>g, <1>c
<1> QED
  BY <1>1, <1>2, <1>3, <1>7, <1>a, <1>b, <1>h, InsideSimple DEF evVars

\* The event becomes the system's.
LEMMA GiveStep ==
  ASSUME NEW now, Model(now), Give
  PROVE  Inv'
<1>1. /\ pc = "give" /\ pc' = (IF Ranked /\ OwnerFirst THEN "high" ELSE "more")
      /\ owner' = [owner EXCEPT ![E] = "sys"]
      /\ UNCHANGED <<listVars, fixVars, k, next, prio, age>>
  BY DEF Give, Goto
<1>2. /\ ~Reading /\ pc \in InLock /\ L \in Lists /\ L # "cuIn" /\ WriteState(now[L]) /\ Done = k + 1
      /\ k \in Nat /\ k < call.n /\ now[L] \in Seq(Events) /\ Len(now[L]) \in Nat
      /\ E \in Events /\ \E i \in 1..Len(now[L]) : now[L][i] = E
  BY <1>1, EventIn
<1>3. Inside
  BY <1>1, <1>2 DEF Give, Goto, Inside, InLock, ReadPcs, WritePcs, listVars
<1>5. /\ L' = L /\ E' = E /\ (Ranked' <=> Ranked) /\ (OwnerFirst' <=> OwnerFirst) /\ (Reading' <=> Reading)
      /\ Written(prio, L, before, call.es)' = Written(prio, L, before, call.es)
      /\ call' = call /\ before' = before /\ prio' = prio
  BY <1>1, <1>3, SameWrite DEF listVars
<1>6. Done' = Done /\ Done \in Nat
  BY <1>1, <1>2 DEF Done
<1>7. Loose(now)'
  <2>1. Done \in Nat /\ Done' \in Nat /\ Done' >= Done
    BY <1>6
  <2> QED
    BY <2>1, <1>2, <1>3, LooseWrite
<1>8. /\ (IF Ranked /\ OwnerFirst THEN Ranks(now[L], lasthigh[L] + 1) ELSE Counted(L, now[L]))
      /\ Linked(next, now[L]) /\ Sorted(L, now[L]) /\ Ends(L, now[L])
      /\ \A i \in 1..Len(now[L]) : now[L][i] # E => owner[now[L][i]] = "sys"
  BY <1>1, <1>2 DEF WriteState
<1>9. \A x \in Events : owner'[x] = IF x = E THEN "sys" ELSE owner[x]
  BY <1>1 DEF Model, TypeOK
<1>a. TypeOK'
  <2>1. owner' \in [Events -> {"sys", "att"}]
    BY <1>1, Zenon DEF Model, TypeOK
  <2>2. pc' \in Active
    BY <1>1 DEF Active, InLock, WritePcs
  <2>u. /\ next' = next /\ prio' = prio /\ age' = age /\ first' = first /\ last' = last
        /\ cnt' = cnt /\ lasthigh' = lasthigh /\ lock' = lock /\ k' = k
        /\ fixCnt' = fixCnt /\ fixNum' = fixNum /\ fixStart' = fixStart /\ fixFirst' = fixFirst
        /\ fixCall' = fixCall /\ at' = at /\ call' = call /\ before' = before /\ put' = put
        /\ cleanup' = cleanup /\ ordered' = ordered
    BY <1>1 DEF Give, Goto, fixVars, userVars, listVars
  <2> QED
    BY <2>1, <2>2, <2>u DEF Model, TypeOK
<1>b. Apart(now) /\ now \in [Lists -> Seq(Events)]
  BY DEF Model, Good
<1>c. \A l \in Lists : l # L => Kept(l) /\ KeptEvents(now[l])
  <2> SUFFICES ASSUME NEW l \in Lists, l # L PROVE Kept(l) /\ KeptEvents(now[l])
    OBVIOUS
  <2>1. Kept(l)
    BY <1>1 DEF Kept, KeptList, fixVars, listVars
  <2>2. ASSUME NEW i \in 1..Len(now[l]) PROVE owner'[now[l][i]] = owner[now[l][i]]
    <3>1. now[l][i] # E
      BY <1>2, <1>b, OnePlace
    <3>2. now[l][i] \in Events
      BY NowTypes
    <3> QED
      BY <3>1, <3>2, <1>9
  <2> QED
    BY <2>1, <2>2, <1>1 DEF KeptEvents
<1>d. Outside(now)'
  <2>1. ASSUME NEW x \in Events, Off(now, x) PROVE owner'[x] = owner[x] /\ (InCall(x) => InCall(x)')
    BY <2>1, <1>1, <1>2, <1>5, <1>9 DEF Off, InCall
  <2> QED
    BY <2>1, <1>3, InsideOutside
<1>k. Leaving'
  <2>1. ASSUME NEW x \in Events, owner'[x] = "att" PROVE owner[x] = "att" /\ (InCall(x) => InCall(x)')
    BY <2>1, <1>1, <1>5, <1>9 DEF InCall
  <2> QED
    BY <2>1, <1>3, InsideLeaving
<1>e. Travel(now)'
  BY <1>3, InsideTravel DEF Model, Good, Travel
<1>f. PICK s \in Seq(Events) : s = now[L] /\ s = now[L']
  BY <1>2, <1>5
<1>g. Given(s)'
  BY <1>8, <1>9, <1>f, SeqFacts DEF Given
<1>h. Sorted(L, s)' /\ Ends(L, s)' /\ (Counted(L, s) => Counted(L, s)')
      /\ (Ranks(s, lasthigh[L] + 1) => Ranks(s, lasthigh[L] + 1)')
  BY <1>1, <1>5, <1>8, <1>f DEF Sorted, Counted, Ranks, IsHigh, Ends, listVars
<1>i. WriteState(s)'
  BY <1>1, <1>2, <1>5, <1>6, <1>8, <1>f, <1>g, <1>h DEF WriteState, Given, fixVars, listVars
<1>j. WriteState(now[L])'
  BY <1>i, <1>f
<1> QED
  BY <1>2, <1>3, <1>7, <1>a, <1>b, <1>c, <1>d, <1>e, <1>j, <1>k, InsideStep

\* The event is counted.
LEMMA MoreStep ==
  ASSUME NEW now, Model(now), More
  PROVE  Inv'
<1>1. /\ pc = "more" /\ pc' = (IF k + 1 < call.n THEN "link" ELSE "wEnd")
      /\ cnt' = [cnt EXCEPT ![L] = @ + 1] /\ k' = k + 1
      /\ UNCHANGED <<evVars, fixVars, first, last, lasthigh, lock>>
  BY DEF More, Goto
<1>2. /\ ~Reading /\ pc \in InLock /\ L \in Lists /\ L # "cuIn" /\ WriteState(now[L]) /\ Done = k + 1
      /\ k \in Nat /\ k < call.n /\ call.n \in Nat /\ now[L] \in Seq(Events) /\ Len(now[L]) \in Nat
      /\ E \in Events /\ \E i \in 1..Len(now[L]) : now[L][i] = E
  BY <1>1, EventIn
<1>3. Inside
  BY <1>1, <1>2 DEF More, Goto, Inside, InLock, ReadPcs, WritePcs, evVars
<1>4. cnt[L] \in Nat /\ Len(before) \in Nat
  BY <1>2, InsideFacts DEF Model, TypeOK
<1>5. /\ L' = L /\ (Reading' <=> Reading)
      /\ Written(prio, L, before, call.es)' = Written(prio, L, before, call.es)
      /\ call' = call /\ before' = before /\ prio' = prio
  BY <1>3 DEF Inside, L, Reading
<1>6. Done' = Done /\ Done \in Nat /\ k + 1 <= call.n
  BY <1>1, <1>2 DEF Done
<1>7. Loose(now)'
  <2>1. Done \in Nat /\ Done' \in Nat /\ Done' >= Done
    BY <1>6
  <2> QED
    BY <2>1, <1>2, <1>3, LooseWrite
<1>8. /\ Counted(L, now[L]) /\ Given(now[L]) /\ Len(now[L]) = cnt[L] + 1 /\ cnt[L] = Len(before) + k
      /\ Linked(next, now[L]) /\ Sorted(L, now[L]) /\ Ends(L, now[L])
  BY <1>1, <1>2 DEF WriteState
<1>9. cnt'[L] = cnt[L] + 1
  BY <1>1, <1>2 DEF Model, TypeOK
<1>a. TypeOK'
  <2>1. cnt' \in [Lists -> Nat]
    <3>1. cnt \in [Lists -> Nat] /\ cnt[L] + 1 \in Nat
      BY <1>4 DEF Model, TypeOK
    <3> QED
      BY <3>1, <1>1
  <2>2. pc' \in Active
    BY <1>1 DEF Active, InLock, WritePcs
  <2>3. k' \in Nat
    BY <1>1, <1>2
  <2>u. /\ next' = next /\ owner' = owner /\ prio' = prio /\ age' = age /\ first' = first /\ last' = last
        /\ lasthigh' = lasthigh /\ lock' = lock
        /\ fixCnt' = fixCnt /\ fixNum' = fixNum /\ fixStart' = fixStart /\ fixFirst' = fixFirst
        /\ fixCall' = fixCall /\ at' = at /\ call' = call /\ before' = before /\ put' = put
        /\ cleanup' = cleanup /\ ordered' = ordered
    BY <1>1 DEF More, Goto, fixVars, userVars, evVars
  <2> QED
    BY <2>1, <2>2, <2>3, <2>u DEF Model, TypeOK
<1>b. Apart(now) /\ now \in [Lists -> Seq(Events)]
  BY DEF Model, Good
<1>c. \A l \in Lists : l # L => Kept(l) /\ KeptEvents(now[l])
  BY <1>1 DEF Kept, KeptList, KeptEvents, Model, TypeOK, fixVars, evVars
<1>d. Outside(now)'
  <2>1. ASSUME NEW x \in Events, Off(now, x), InCall(x) PROVE InCall(x)'
    <3>1. x # E
      BY <2>1, <1>2 DEF Off
    <3>2. PICK i \in (k + 1)..Len(call.es) : call.es[i] = x
      BY <2>1 DEF InCall
    <3>3. i # k + 1
      BY <3>1, <3>2 DEF E
    <3>4. i \in (k' + 1)..Len(call'.es)
      <4>1. Len(call.es) \in Nat
        BY <1>2, InsideFacts
      <4> QED
        BY <4>1, <3>3, <1>1, <1>2, <1>5
    <3> QED
      BY <3>2, <3>4, <1>5 DEF InCall
  <2> QED
    BY <2>1, <1>1, <1>3, InsideOutside DEF evVars
<1>k. Leaving'
  <2>1. ASSUME NEW x \in Events, owner[x] = "att", InCall(x) PROVE InCall(x)'
    <3>1. x # E
      BY <2>1, <1>2, <1>8 DEF Given
    <3>2. PICK i \in (k + 1)..Len(call.es) : call.es[i] = x
      BY <2>1 DEF InCall
    <3>3. i # k + 1
      BY <3>1, <3>2 DEF E
    <3>4. i \in (k' + 1)..Len(call'.es)
      <4>1. Len(call.es) \in Nat
        BY <1>2, InsideFacts
      <4> QED
        BY <4>1, <3>3, <1>1, <1>2, <1>5
    <3> QED
      BY <3>2, <3>4, <1>5 DEF InCall
  <2> QED
    BY <2>1, <1>1, <1>3, InsideLeaving DEF evVars
<1>e. Travel(now)'
  BY <1>3, InsideTravel DEF Model, Good, Travel
<1>f. PICK s \in Seq(Events) : s = now[L] /\ s = now[L']
  BY <1>2, <1>5
<1>g. Held(L, s)' /\ s # <<>>
  <2>1. Linked(next', s) /\ cnt'[L'] = Len(s) /\ Ends(L, s)' /\ Given(s)' /\ s # <<>>
    BY <1>1, <1>4, <1>5, <1>8, <1>9, <1>f DEF Ends, Given, evVars
  <2>2. Sorted(L, s)' /\ Counted(L, s)'
    BY <1>1, <1>5, <1>8, <1>f DEF Sorted, Counted, Ranks, IsHigh
  <2> QED
    BY <2>1, <2>2 DEF Held
<1>h. Linked(next', s) /\ Sorted(L, s)' /\ cnt'[L] = Len(before) + k'
  <2>1. Linked(next', s) /\ Sorted(L, s)'
    BY <1>g DEF Held
  <2> QED
    BY <2>1, <1>1, <1>2, <1>4, <1>8, <1>9
<1>i. WriteState(s)'
  <2>1. k' \in 0..call.n /\ (pc' = "link" => k' < call.n) /\ (pc' = "wEnd" => k' = call.n)
    BY <1>1, <1>2, <1>6
  <2> QED
    BY <1>1, <1>2, <1>5, <1>6, <1>f, <1>g, <1>h, <2>1 DEF WriteState, fixVars
<1>j. WriteState(now[L])'
  BY <1>i, <1>f
<1> QED
  BY <1>2, <1>3, <1>7, <1>a, <1>b, <1>c, <1>d, <1>e, <1>j, <1>k, InsideStep

-----------------------------------------------------------------------------
(* Steps with no list locked.                                              *)

\* A list that nobody has locked holds events of the system, and what the user
\* owns is in no list.
LEMMA QuietFacts ==
  ASSUME NEW now, Model(now), pc \notin InLock \cup {"dead"}
  PROVE  /\ \A l \in Lists : ~lock[l]
         /\ \A e \in Events : owner[e] = "att" => Off(now, e)
         /\ \A e \in Events : owner[e] = "sys" \/ owner[e] = "att"
<1>1. \A l \in Lists : ~lock[l]
  BY DEF Model, Good, Control
<1>2. \A l \in Lists : Given(now[l])
  BY <1>1, ContentsNow DEF Held
<1>3. \A e \in Events : owner[e] = "sys" \/ owner[e] = "att"
  BY DEF Model, TypeOK
<1>4. \A e \in Events : owner[e] = "att" => Off(now, e)
  BY <1>2 DEF Given, Off
<1> QED
  BY <1>1, <1>3, <1>4

\* Such a step as a whole.
LEMMA QuietStep ==
  ASSUME NEW now, Model(now), pc \notin InLock \cup {"dead"}, pc' \notin InLock, TypeOK',
         Control', Outside(now)', Leaving', Loose(now)', Travel(now)',
         UNCHANGED <<listVars, fixVars>>,
         \A l \in Lists : KeptEvents(now[l])
  PROVE  Inv'
<1>1. \A l \in Lists : ~lock[l] /\ ~lock'[l] /\ Kept(l)
  BY QuietFacts DEF listVars, fixVars, Kept, KeptList
<1>2. Free(now)'
  BY <1>1, FreeSame
<1>3. Locked(now)'
  BY <1>1 DEF Locked, L
<1>4. Apart(now) /\ now \in [Lists -> Seq(Events)]
  BY DEF Model, Good
<1>5. Good(now)'
  BY <1>2, <1>3, <1>4 DEF Good
<1> QED
  BY <1>4, <1>5 DEF Inv

\* The events of a put become USED.
LEMMA AgeStep ==
  ASSUME NEW now, Model(now), Age
  PROVE  Inv'
<1>1. /\ pc = "age" /\ pc' = (IF k + 1 = call.n THEN "lock" ELSE "age")
      /\ k' = (IF k + 1 = call.n THEN 0 ELSE k + 1)
      /\ UNCHANGED <<call, before, userVars, listVars, fixVars, next, owner, prio>>
  BY DEF Age, Goto
<1>2. /\ pc \notin InLock \cup {"dead"} /\ pc' \notin InLock \cup {"dead"} /\ pc \in Active /\ pc' \in Active
  BY <1>1 DEF InLock, ReadPcs, WritePcs, Active
<1>3. /\ ~Reading /\ k < call.n /\ call.n \in Nat /\ k \in Nat /\ Control /\ Outside(now) /\ Loose(now)
      /\ Travel(now) /\ Leaving
  BY <1>1 DEF Model, Good, Control, Loose, TypeOK
<1>4. TypeOK'
  <2>1. age' \in [Events -> {"NEW", "USED"}]
    BY Zenon DEF Age, Model, TypeOK
  <2>2. k' \in Nat
    BY <1>1, <1>3
  <2> QED
    BY <1>1, <1>2, <2>1, <2>2 DEF Model, TypeOK, userVars, listVars, fixVars
<1>5. L' = L /\ (Reading' <=> Reading) /\ call' = call /\ cleanup' = cleanup /\ ordered' = ordered
      /\ put' = put /\ at' = at
  BY <1>1 DEF L, Reading, userVars
<1>6. Control'
  BY <1>1, <1>2, <1>3, <1>5 DEF Control, listVars, InLock, ReadPcs, WritePcs, Reading
<1>7. Outside(now)'
  <2>1. \A e \in Events : Off(now, e) => owner[e] = "att" \/ (cleanup /\ \E i \in 1..Len(ordered) : ordered[i] = e)
    BY <1>1, <1>2, <1>3 DEF Outside
  <2> QED
    BY <2>1, <1>1, <1>2, <1>3, <1>5 DEF Outside
<1>8. Leaving'
  BY <1>1, <1>3, <1>5 DEF Leaving, Control
<1>9. Loose(now)'
  BY <1>1, <1>2, <1>3, <1>5 DEF Loose, Done, Post
<1>a. Travel(now)'
  BY <1>1, <1>2, <1>3, <1>5 DEF Travel
<1>b. \A l \in Lists : KeptEvents(now[l])
  BY <1>1 DEF KeptEvents
<1> QED
  BY <1>1, <1>2, <1>4, <1>6, <1>7, <1>8, <1>9, <1>a, <1>b, QuietStep

\* The stores to a new event after it was read.
LEMMA INextStep ==
  ASSUME NEW now, Model(now), INext
  PROVE  Inv'
<1>1. /\ pc = "iNext" /\ pc' = "iPrio" /\ k' = k /\ next' = [next EXCEPT ![E] = NULL]
      /\ UNCHANGED <<call, before, userVars, listVars, fixVars, owner, prio, age>>
  BY DEF INext, Goto
<1>2. /\ pc \notin InLock \cup {"dead"} /\ pc' \notin InLock \cup {"dead"} /\ pc \in Active /\ pc' \in Active
      /\ pc \in Post /\ pc' \in Post
  BY <1>1 DEF InLock, ReadPcs, WritePcs, Active, Post
<1>3. /\ Reading /\ k < call.n /\ call.n \in Nat /\ k \in Nat /\ Control /\ Outside(now) /\ Loose(now)
      /\ Travel(now) /\ Leaving
  BY <1>1 DEF Model, Good, Control, Loose, TypeOK
<1>4. TypeOK'
  <2>1. next' \in [Events -> Pointers]
    BY <1>1, EventNumbers DEF Model, TypeOK
  <2> QED
    BY <1>1, <1>2, <2>1 DEF Model, TypeOK, userVars, listVars, fixVars
<1>5. L' = L /\ (Reading' <=> Reading) /\ call' = call /\ cleanup' = cleanup /\ ordered' = ordered
      /\ put' = put /\ at' = at
  BY <1>1 DEF L, Reading, userVars
<1>6. Control'
  BY <1>1, <1>2, <1>3, <1>5 DEF Control, listVars, InLock, ReadPcs, WritePcs, Reading
<1>7. Outside(now)'
  BY <1>1, <1>2, <1>3, <1>5 DEF Outside
<1>8. Leaving'
  BY <1>1, <1>2, <1>3, <1>5 DEF Leaving, Reading
<1>9. Loose(now)'
  BY <1>1, <1>2, <1>3, <1>5 DEF Loose
<1>a. Travel(now)'
  BY <1>1, <1>2, <1>3, <1>5 DEF Travel
<1>b. E \in Events /\ Off(now, E)
  <2>1. call.n = Len(call.es) /\ k + 1 \in 1..call.n /\ \A i \in 1..call.n : Off(now, call.es[i])
    BY <1>1, <1>2, <1>3 DEF Loose
  <2>2. call.es \in Seq(Events)
    BY DEF Model, TypeOK
  <2> QED
    BY <2>1, <2>2, SeqFacts DEF E
<1>c. \A l \in Lists : KeptEvents(now[l])
  <2> SUFFICES ASSUME NEW l \in Lists, NEW i \in 1..Len(now[l]) PROVE next'[now[l][i]] = next[now[l][i]]
    BY <1>1 DEF KeptEvents
  <2>1. now[l][i] # E /\ now[l][i] \in Events
    BY <1>b, NowTypes DEF Off
  <2> QED
    BY <2>1, <1>1 DEF Model, TypeOK
<1> QED
  BY <1>1, <1>2, <1>4, <1>6, <1>7, <1>8, <1>9, <1>a, <1>c, QuietStep

LEMMA IPrioStep ==
  ASSUME NEW now, Model(now), IPrio
  PROVE  Inv'
<1>1. /\ pc = "iPrio" /\ pc' = "iAge" /\ k' = k /\ prio' = [prio EXCEPT ![E] = "LOW"]
      /\ UNCHANGED <<call, before, userVars, listVars, fixVars, next, owner, age>>
  BY DEF IPrio, Goto
<1>2. /\ pc \notin InLock \cup {"dead"} /\ pc' \notin InLock \cup {"dead"} /\ pc \in Active /\ pc' \in Active
      /\ pc \in Post /\ pc' \in Post
  BY <1>1 DEF InLock, ReadPcs, WritePcs, Active, Post
<1>3. /\ Reading /\ k < call.n /\ call.n \in Nat /\ k \in Nat /\ Control /\ Outside(now) /\ Loose(now)
      /\ Travel(now) /\ Leaving
  BY <1>1 DEF Model, Good, Control, Loose, TypeOK
<1>4. TypeOK'
  <2>1. prio' \in [Events -> {"LOW", "HIGH"}]
    BY <1>1, Zenon DEF Model, TypeOK
  <2> QED
    BY <1>1, <1>2, <2>1 DEF Model, TypeOK, userVars, listVars, fixVars
<1>5. L' = L /\ (Reading' <=> Reading) /\ call' = call /\ cleanup' = cleanup /\ ordered' = ordered
      /\ put' = put /\ at' = at
  BY <1>1 DEF L, Reading, userVars
<1>6. Control'
  BY <1>1, <1>2, <1>3, <1>5 DEF Control, listVars, InLock, ReadPcs, WritePcs, Reading
<1>7. Outside(now)'
  BY <1>1, <1>2, <1>3, <1>5 DEF Outside
<1>8. Leaving'
  BY <1>1, <1>2, <1>3, <1>5 DEF Leaving, Reading
<1>9. Loose(now)'
  BY <1>1, <1>2, <1>3, <1>5 DEF Loose
<1>a. Travel(now)'
  BY <1>1, <1>2, <1>3, <1>5 DEF Travel
<1>b. E \in Events /\ Off(now, E)
  <2>1. call.n = Len(call.es) /\ k + 1 \in 1..call.n /\ \A i \in 1..call.n : Off(now, call.es[i])
    BY <1>1, <1>2, <1>3 DEF Loose
  <2>2. call.es \in Seq(Events)
    BY DEF Model, TypeOK
  <2> QED
    BY <2>1, <2>2, SeqFacts DEF E
<1>c. \A l \in Lists : KeptEvents(now[l])
  <2> SUFFICES ASSUME NEW l \in Lists, NEW i \in 1..Len(now[l]) PROVE prio'[now[l][i]] = prio[now[l][i]]
    BY <1>1 DEF KeptEvents
  <2>1. now[l][i] # E /\ now[l][i] \in Events
    BY <1>b, NowTypes DEF Off
  <2> QED
    BY <2>1, <1>1 DEF Model, TypeOK
<1> QED
  BY <1>1, <1>2, <1>4, <1>6, <1>7, <1>8, <1>9, <1>a, <1>c, QuietStep

LEMMA IAgeStep ==
  ASSUME NEW now, Model(now), IAge
  PROVE  Inv'
<1>1. /\ pc = "iAge" /\ pc' = (IF k + 1 < call.n THEN "iNext" ELSE "return")
      /\ k' = (IF k + 1 < call.n THEN k + 1 ELSE 0)
      /\ UNCHANGED <<call, before, userVars, listVars, fixVars, next, owner, prio>>
  BY DEF IAge, Goto
<1>2. /\ pc \notin InLock \cup {"dead"} /\ pc' \notin InLock \cup {"dead"} /\ pc \in Active /\ pc' \in Active
      /\ pc \in Post /\ pc' \in Post
  BY <1>1 DEF InLock, ReadPcs, WritePcs, Active, Post
<1>3. /\ Reading /\ k < call.n /\ call.n \in Nat /\ k \in Nat /\ Control /\ Outside(now) /\ Loose(now)
      /\ Travel(now) /\ Leaving
  BY <1>1 DEF Model, Good, Control, Loose, TypeOK
<1>4. TypeOK'
  <2>1. age' \in [Events -> {"NEW", "USED"}]
    BY Zenon DEF IAge, Model, TypeOK
  <2>2. k' \in Nat
    BY <1>1, <1>3
  <2> QED
    BY <1>1, <1>2, <2>1, <2>2 DEF Model, TypeOK, userVars, listVars, fixVars
<1>5. L' = L /\ (Reading' <=> Reading) /\ call' = call /\ cleanup' = cleanup /\ ordered' = ordered
      /\ put' = put /\ at' = at
  BY <1>1 DEF L, Reading, userVars
<1>6. Control'
  BY <1>1, <1>2, <1>3, <1>5 DEF Control, listVars, InLock, ReadPcs, WritePcs, Reading
<1>7. Outside(now)'
  BY <1>1, <1>2, <1>3, <1>5 DEF Outside
<1>8. Leaving'
  BY <1>1, <1>2, <1>3, <1>5 DEF Leaving, Reading
<1>9. Loose(now)'
  BY <1>1, <1>2, <1>3, <1>5 DEF Loose
<1>a. Travel(now)'
  BY <1>1, <1>2, <1>3, <1>5 DEF Travel
<1>c. \A l \in Lists : KeptEvents(now[l])
  BY <1>1 DEF KeptEvents
<1> QED
  BY <1>1, <1>2, <1>4, <1>6, <1>7, <1>8, <1>9, <1>a, <1>c, QuietStep

\* The call returns.
LEMMA ReturnStep ==
  ASSUME NEW now, Model(now), Return
  PROVE  Inv'
<1>1. /\ pc = "return" /\ UNCHANGED <<evVars, listVars, fixVars, k, before, put, calls, cleanup, ordered>>
  BY DEF Return
<1>2. pc \notin InLock \cup {"dead"} /\ pc \in Active /\ pc \in Post
  BY <1>1 DEF InLock, ReadPcs, WritePcs, Active, Post
<1>3. /\ Control /\ Outside(now) /\ Loose(now) /\ Travel(now) /\ Leaving /\ k = 0
      /\ at # "none" /\ call.n \in Nat /\ call.n >= 1
  BY <1>1, <1>2 DEF Model, Good, Control, Loose, TypeOK
<1>4. \A l \in Lists : KeptEvents(now[l])
  BY <1>1 DEF KeptEvents, evVars
<1>q. \A l \in Lists : ~lock[l]
  BY <1>2, QuietFacts
<1>e. \A e \in Events : owner[e] = "sys" \/ owner[e] = "att"
  BY <1>2, QuietFacts
<1>o. \A e \in Events : Off(now, e) => owner[e] = "att" \/ (cleanup /\ \E i \in 1..Len(ordered) : ordered[i] = e)
  BY <1>1, <1>2, <1>3 DEF Outside
<1>5. CASE call.op = "flush"
  <2>1. /\ pc' = "lock" /\ at' = at
        /\ call'.op = "flushed" /\ call'.list = OutOf(at) /\ call'.es = call.es /\ call'.n = call.n
        /\ call'.one = call.one
    BY <1>5 DEF Return, Model, TypeOK
  <2>2. pc' \notin InLock \cup {"dead"} /\ pc' \in Active /\ Reading /\ ~Reading'
    BY <1>5, <2>1 DEF InLock, ReadPcs, WritePcs, Active, Reading
  <2>3. at = "CU" /\ OutOf(at) = "cuOut" /\ "cuOut" \in Lists
    BY <1>2, <1>3, <1>5 DEF Control, OutOf, Lists
  <2>4. TypeOK'
    <3>1. call' \in [op : Ops, list : Lists \cup {"none"}, es : Seq(Events), n : Nat, one : BOOLEAN]
      <4>1. call \in [op : Ops, list : Lists \cup {"none"}, es : Seq(Events), n : Nat, one : BOOLEAN]
        BY DEF Model, TypeOK
      <4>2. call' = [call EXCEPT !.op = "flushed", !.list = "cuOut"]
        BY <1>5, <2>3 DEF Return
      <4>3. "flushed" \in Ops /\ "cuOut" \in Lists \cup {"none"}
        BY <2>3 DEF Ops
      <4> QED
        BY <4>1, <4>2, <4>3
    <3> QED
      BY <1>1, <2>1, <2>2, <3>1 DEF Model, TypeOK, evVars, listVars, fixVars
  <2>5. Control'
    BY <1>1, <1>2, <1>3, <1>5, <1>q, <2>1, <2>2, <2>3 DEF Control, listVars, evVars, InLock, ReadPcs, WritePcs, Reading
  <2>6. Outside(now)'
    BY <1>1, <1>2, <1>3, <1>o, <2>1, <2>2 DEF Outside, evVars
  <2>7. Leaving'
    BY <1>1, <1>2, <1>3, <1>5, <2>1, <2>2 DEF Leaving, InCall, evVars
  <2>8. Loose(now)'
    BY <1>1, <1>2, <1>3, <2>1, <2>2 DEF Loose, Done
  <2>9. Travel(now)'
    <3>1. call.es \in Seq(Events) /\ \A i \in 1..Len(call.es) : call.es[i] \in Events
      BY SeqFacts DEF Model, TypeOK
    <3>2. \A i \in 1..Len(call.es) : Off(now, call.es[i])
      BY <1>2, <1>3, <2>2 DEF Loose
    <3> QED
      BY <1>1, <1>3, <2>1, <2>2, <2>3, <3>1, <3>2 DEF Travel
  <2> QED
    BY <1>1, <1>2, <1>4, <2>2, <2>4, <2>5, <2>6, <2>7, <2>8, <2>9, QuietStep
<1>6. CASE call.op # "flush"
  <2>1. /\ pc' = "idle" /\ call' = NoCall /\ at' = IF call.op = "flushed" /\ ~cleanup THEN "none" ELSE at
    BY <1>6 DEF Return
  <2>2. pc' \notin InLock \cup {"dead"} /\ pc' \notin Active /\ ~Reading'
    BY <2>1 DEF InLock, ReadPcs, WritePcs, Active, Post, Reading, NoCall
  <2>4. TypeOK'
    <3>1. call' \in [op : Ops, list : Lists \cup {"none"}, es : Seq(Events), n : Nat, one : BOOLEAN]
      BY <2>1 DEF NoCall, Ops
    <3> QED
      BY <1>1, <2>1, <3>1 DEF Model, TypeOK, evVars, listVars, fixVars
  <2>5. at' = "none" => \A e \in Events : owner[e] = "sys"
    BY <1>1, <1>2, <1>3, <1>e, <2>1 DEF Leaving
  <2>6. call'.op = "none" /\ call'.list = "none" /\ call'.one = FALSE
    BY <2>1 DEF NoCall
  <2>7. Control'
    BY <1>1, <1>2, <1>3, <1>q, <2>1, <2>2, <2>5, <2>6 DEF Control, listVars, evVars, InLock, ReadPcs, WritePcs, Active, Post
  <2>8. Outside(now)'
    BY <1>1, <1>2, <1>3, <1>o, <2>1, <2>2 DEF Outside, evVars
  <2>9. Leaving'
    BY <2>2 DEF Leaving
  <2>a. Loose(now)'
    BY <1>3, <2>1, <2>2 DEF Loose, InLock, Active, Post
  <2>b. Travel(now)'
    BY <1>1, <1>3, <2>1, <2>2 DEF Travel
  <2> QED
    BY <1>1, <1>2, <1>4, <2>2, <2>4, <2>7, <2>8, <2>9, <2>a, <2>b, QuietStep
<1> QED
  BY <1>5, <1>6

\* A read gives up.
LEMMA GiveUpStep ==
  ASSUME NEW now, Model(now), GiveUp
  PROVE  Inv'
<1>1. /\ pc = "lock" /\ pc' = "idle" /\ call.op \in {"new", "get"} /\ call' = NoCall
      /\ UNCHANGED <<evVars, listVars, fixVars, userVars, k, before>>
  BY DEF GiveUp
<1>2. /\ pc \notin InLock \cup {"dead"} /\ pc \in Active
      /\ pc' \notin InLock \cup {"dead"} /\ pc' \notin Active
      /\ ~Reading' /\ call'.op = "none" /\ call'.list = "none" /\ call'.one = FALSE
  BY <1>1 DEF InLock, ReadPcs, WritePcs, Active, Post, Reading, NoCall
<1>3. /\ Control /\ Outside(now) /\ Loose(now) /\ Travel(now) /\ at # "none"
  BY <1>2 DEF Model, Good, Control
<1>4. \A l \in Lists : KeptEvents(now[l]) /\ ~lock[l]
  BY <1>1, <1>2, QuietFacts DEF KeptEvents, evVars
<1>5. TypeOK'
  <2>1. call' \in [op : Ops, list : Lists \cup {"none"}, es : Seq(Events), n : Nat, one : BOOLEAN]
    BY <1>1 DEF NoCall, Ops
  <2> QED
    BY <1>1, <2>1 DEF Model, TypeOK, evVars, listVars, fixVars, userVars
<1>6. Control'
  BY <1>1, <1>2, <1>3, <1>4 DEF Control, listVars, userVars, InLock, ReadPcs, WritePcs, Active, Post
<1>7. Outside(now)'
  BY <1>1, <1>2, <1>3 DEF Outside, evVars, userVars
<1>8. Leaving' /\ Loose(now)'
  BY <1>1, <1>2 DEF Leaving, Loose, InLock, Active, Post
<1>9. Travel(now)'
  BY <1>1, <1>2, <1>3 DEF Travel, userVars
<1> QED
  BY <1>1, <1>2, <1>4, <1>5, <1>6, <1>7, <1>8, <1>9, QuietStep

-----------------------------------------------------------------------------
(* The mutex.                                                              *)

\* A call takes the mutex of its list.
LEMMA LockFacts ==
  ASSUME NEW now, Model(now), Lock
  PROVE  /\ pc = "lock" /\ L \in Lists /\ k = 0 /\ ~lock[L] /\ lock' = [lock EXCEPT ![L] = TRUE]
         /\ before' = now[L] /\ Held(L, now[L]) /\ fixStart[L] = 0 /\ fixFirst[L] = NULL
         /\ now[L] \in Seq(Events) /\ Len(now[L]) \in Nat
         /\ Control /\ Outside(now) /\ Loose(now) /\ Travel(now) /\ Leaving /\ Apart(now)
         /\ now \in [Lists -> Seq(Events)] /\ at # "none" /\ call.n \in Nat /\ call.n >= 1
         /\ \A l \in Lists : lock'[l] <=> l = L
         /\ UNCHANGED <<evVars, fixVars, first, last, cnt, lasthigh, at, k, calls, cleanup, ordered>>
<1>1. /\ pc = "lock" /\ ~lock[L] /\ lock' = [lock EXCEPT ![L] = TRUE] /\ before' = Contents(L)
      /\ UNCHANGED <<evVars, fixVars, first, last, cnt, lasthigh, at, k, calls, cleanup, ordered>>
  BY DEF Lock
<1>2. pc \in Active /\ pc \notin InLock \cup {"dead"}
  BY <1>1 DEF Active, InLock, ReadPcs, WritePcs
<1>3. /\ Control /\ Outside(now) /\ Loose(now) /\ Travel(now) /\ Leaving /\ Apart(now)
      /\ now \in [Lists -> Seq(Events)] /\ L \in Lists /\ at # "none" /\ call.n \in Nat /\ call.n >= 1 /\ k = 0
  BY <1>1, <1>2 DEF Model, Good, Control, Loose, TypeOK, L
<1>4. Contents(L) = now[L] /\ Held(L, now[L]) /\ fixStart[L] = 0 /\ fixFirst[L] = NULL
  BY <1>1, <1>3, ContentsNow
<1>5. now[L] \in Seq(Events) /\ Len(now[L]) \in Nat
  BY <1>3, NowTypes
<1>6. \A l \in Lists : ~lock[l]
  BY <1>2, QuietFacts
<1>7. \A l \in Lists : lock'[l] <=> l = L
  BY <1>1, <1>6 DEF Model, TypeOK
<1> QED
  BY <1>1, <1>3, <1>4, <1>5, <1>7

\* The lists stay as they are.
LEMMA LockTaken ==
  ASSUME NEW now, Model(now), Lock, TypeOK', pc' \in InLock, Control', Outside(now)', Leaving', Loose(now)', Travel(now)',
         L' = L, IF Reading' THEN ReadState(now[L])' ELSE WriteState(now[L])'
  PROVE  Inv'
<1>1. /\ \A l \in Lists : lock'[l] <=> l = L
      /\ \A l \in Lists : Kept(l) /\ KeptEvents(now[l])
      /\ Apart(now) /\ now \in [Lists -> Seq(Events)]
  BY LockFacts DEF Kept, KeptList, KeptEvents, evVars, fixVars
<1>2. pc \notin InLock \cup {"dead"} /\ pc' # "dead"
  BY LockFacts DEF InLock, ReadPcs, WritePcs
<1>3. \A l \in Lists : ~lock[l]
  BY <1>2, QuietFacts
<1>4. Free(now)'
  BY <1>1, <1>3, FreeSame
<1>5. Locked(now)'
  BY <1>2 DEF Locked, L
<1>6. Good(now)'
  BY <1>1, <1>4, <1>5 DEF Good
<1> QED
  BY <1>1, <1>6 DEF Inv

\* A read takes the mutex.
LEMMA LockRead ==
  ASSUME NEW now, Model(now), Lock, Reading
  PROVE  Inv'
<1> DEFINE n  == IF call.n > cnt[L] THEN cnt[L] ELSE call.n
           es == Chain(next, first[L], n)
<1>1. /\ pc = "lock" /\ L \in Lists /\ k = 0 /\ ~lock[L] /\ lock' = [lock EXCEPT ![L] = TRUE]
      /\ before' = now[L] /\ Held(L, now[L]) /\ fixStart[L] = 0 /\ fixFirst[L] = NULL
      /\ now[L] \in Seq(Events) /\ Len(now[L]) \in Nat
      /\ Control /\ Outside(now) /\ Loose(now) /\ Travel(now) /\ Leaving /\ Apart(now)
      /\ now \in [Lists -> Seq(Events)] /\ at # "none" /\ call.n \in Nat /\ call.n >= 1
      /\ \A l \in Lists : lock'[l] <=> l = L
      /\ UNCHANGED <<evVars, fixVars, first, last, cnt, lasthigh, at, k, calls, cleanup, ordered>>
  BY LockFacts
<1>2. /\ cnt[L] > 0 /\ call' = [call EXCEPT !.es = es, !.n = n]
      /\ pc' = (IF call.one THEN "rCnt" ELSE "rNum")
      /\ put' = IF call.op = "new" THEN put \ ToSet(es) ELSE put
  BY DEF Lock
<1>3. PICK s \in Seq(Events) : s = now[L] /\ Len(s) \in Nat /\ cnt[L] = Len(s) /\ Linked(next, s) /\ Ends(L, s)
  BY <1>1 DEF Held
<1>4. n \in 1..Len(s) /\ n \in 0..Len(s) /\ (call.n = 1 => n = 1)
  BY <1>1, <1>2, <1>3
<1> HIDE DEF n
<1>5. s # <<>> /\ first[L] = s[1]
  BY <1>2, <1>3 DEF Ends
<1>6. es \in [1..n -> Events] /\ \A i \in 1..n : es[i] = s[i]
  BY <1>3, <1>4, <1>5, ChainIs
<1>7. es \in Seq(Events) /\ Len(es) = n
  BY <1>4, <1>6, SeqOfFunction
<1> HIDE DEF es
<1>8. call \in [op : Ops, list : Lists \cup {"none"}, es : Seq(Events), n : Nat, one : BOOLEAN]
  BY DEF Model, TypeOK
<1>9. /\ call'.op = call.op /\ call'.list = call.list /\ call'.es = es /\ call'.n = n /\ call'.one = call.one
      /\ call' \in [op : Ops, list : Lists \cup {"none"}, es : Seq(Events), n : Nat, one : BOOLEAN]
  <2>1. n \in Nat /\ es \in Seq(Events)
    BY <1>3, <1>4, <1>7
  <2>2. call' = [call EXCEPT !.es = es, !.n = n]
    BY <1>2
  <2>3. call' \in [op : Ops, list : Lists \cup {"none"}, es : Seq(Events), n : Nat, one : BOOLEAN]
    BY <2>1, <2>2, <1>8
  <2>4. call'.op = call.op /\ call'.list = call.list /\ call'.es = es /\ call'.n = n /\ call'.one = call.one
    BY <2>2, <1>8
  <2> QED
    BY <2>3, <2>4
<1>a. L' = L /\ Reading' /\ pc' \in InLock /\ pc' \in Active /\ pc \in Active /\ pc \notin InLock
      /\ pc' \notin Post /\ pc' \notin WritePcs
  BY <1>1, <1>2, <1>9 DEF L, Reading, InLock, ReadPcs, WritePcs, Active, Post
<1>b. TypeOK'
  <2>1. lock' \in [Lists -> BOOLEAN]
    BY <1>1 DEF Model, TypeOK
  <2>2. put' \in SUBSET Events
    BY <1>2 DEF Model, TypeOK
  <2> QED
    BY <1>1, <1>3, <1>9, <1>a, <2>1, <2>2 DEF Model, TypeOK, evVars, fixVars
<1>c. Control'
  BY <1>1, <1>2, <1>4, <1>9, <1>a DEF Control, L, Reading, evVars, InLock, ReadPcs, WritePcs, Active, Post
<1>i. \A i \in 1..n : i \in 1..Len(s) /\ es[i] = now[L][i]
  BY <1>3, <1>4, <1>6
<1>d. Outside(now)'
  <2>1. ASSUME NEW i \in 1..Len(ordered), NEW j \in 1..n PROVE ordered[i] # es[j]
    <3>1. Off(now, ordered[i])
      BY <1>1 DEF Outside
    <3> QED
      BY <3>1, <1>1, <1>3, <1>i DEF Off
  <2>2. \A e \in Events : Off(now, e) => owner[e] = "att" \/ (cleanup /\ \E i \in 1..Len(ordered) : ordered[i] = e)
    BY <1>1 DEF Outside, Reading
  <2> QED
    BY <1>1, <1>7, <1>9, <2>1, <2>2 DEF Outside, evVars
<1>e. Leaving'
  <2>1. ASSUME ~cleanup, call.op = "flush", NEW e \in Events, owner[e] = "att" PROVE FALSE
    <3>1. \E i \in 1..Len(call.es) : call.es[i] = e
      BY <2>1, <1>1, <1>a DEF Leaving
    <3>2. call.es = <<>>
      BY <1>1 DEF Control
    <3> QED
      BY <3>1, <3>2
  <2> QED
    BY <2>1, <1>1, <1>9, <1>a DEF Leaving, Reading, evVars
<1>f. Loose(now)'
  BY <1>1, <1>2, <1>a DEF Loose, Post
<1>g. Travel(now)'
  <2>1. ASSUME NEW l \in Lists \ {"gcIn"}, NEW i \in 1..Len(now[l]) PROVE now[l][i] \in put'
    <3>1. now[l][i] \in put
      BY <1>1 DEF Travel
    <3>2. CASE call.op = "new"
      <4>1. L = "gcIn"
        BY <3>2, <1>1 DEF Control, L, Reading
      <4>2. ASSUME NEW j \in 1..n PROVE now[l][i] # es[j]
        <5>1. j \in 1..Len(now[L]) /\ es[j] = now[L][j]
          BY <1>3, <1>i
        <5> QED
          BY <4>1, <5>1, <1>1, OnePlace
      <4>3. DOMAIN es = 1..n
        BY <1>7, SeqFacts
      <4>4. now[l][i] \notin ToSet(es)
        BY <4>2, <4>3 DEF ToSet
      <4> QED
        BY <3>1, <3>2, <4>4, <1>2
    <3>3. CASE call.op # "new"
      BY <3>1, <3>3, <1>2
    <3> QED
      BY <3>2, <3>3
  <2>2. at = "CU" => put' = put
    BY <1>1, <1>2 DEF Control
  <2> QED
    BY <2>1, <2>2, <1>1, <1>a DEF Travel
<1>h. ReadState(s)'
  <2>1. Sorted(L, s)' /\ Given(s)'
    BY <1>1, <1>3, <1>a DEF Held, Sorted, Given, Ranks, IsHigh, evVars
  <2>2. last[L] = s[Len(s)] /\ call'.one = call.one /\ (call.one => n = 1)
    BY <1>1, <1>3, <1>4, <1>5, <1>9 DEF Ends, Control
  <2>3. \A i \in (n + 1)..Len(s) : owner[s[i]] = "sys"
    <3>1. \A i \in (n + 1)..Len(s) : i \in 1..Len(s)
      BY <1>3, <1>4
    <3> QED
      BY <3>1, <1>1, <1>3 DEF Held, Given
  <2> QED
    BY <1>1, <1>2, <1>3, <1>4, <1>5, <1>6, <1>7, <1>9, <1>a, <2>1, <2>2, <2>3 DEF ReadState, evVars, fixVars
<1>j. ReadState(now[L])'
  BY <1>h, <1>3, <1>a
<1> QED
  BY <1>a, <1>b, <1>c, <1>d, <1>e, <1>f, <1>g, <1>j, LockTaken

\* A write takes the mutex.
LEMMA LockWrite ==
  ASSUME NEW now, Model(now), Lock, ~Reading
  PROVE  Inv'
<1>1. /\ pc = "lock" /\ L \in Lists /\ k = 0 /\ ~lock[L] /\ lock' = [lock EXCEPT ![L] = TRUE]
      /\ before' = now[L] /\ Held(L, now[L]) /\ fixStart[L] = 0 /\ fixFirst[L] = NULL
      /\ now[L] \in Seq(Events) /\ Len(now[L]) \in Nat
      /\ Control /\ Outside(now) /\ Loose(now) /\ Travel(now) /\ Leaving /\ Apart(now)
      /\ now \in [Lists -> Seq(Events)] /\ at # "none" /\ call.n \in Nat /\ call.n >= 1
      /\ \A l \in Lists : lock'[l] <=> l = L
      /\ UNCHANGED <<evVars, fixVars, first, last, cnt, lasthigh, at, k, calls, cleanup, ordered>>
  BY LockFacts
<1>2. /\ pc' = (IF cnt[L] = 0 THEN "null" ELSE "wCnt") /\ call' = call /\ put' = put
  BY DEF Lock
<1>3. PICK s \in Seq(Events) : s = now[L] /\ Len(s) \in Nat /\ cnt[L] = Len(s)
  BY <1>1 DEF Held
<1>a. L' = L /\ ~Reading' /\ pc' \in InLock /\ pc' \in Active /\ pc \in Active /\ pc \notin InLock
      /\ pc' \notin Post /\ pc' \notin ReadPcs
  BY <1>1, <1>2 DEF L, Reading, InLock, ReadPcs, WritePcs, Active, Post
<1>b. TypeOK'
  <2>1. lock' \in [Lists -> BOOLEAN]
    BY <1>1 DEF Model, TypeOK
  <2> QED
    BY <1>1, <1>2, <1>3, <1>a, <2>1 DEF Model, TypeOK, evVars, fixVars
<1>c. Control'
  BY <1>1, <1>2, <1>a DEF Control, L, Reading, evVars, InLock, ReadPcs, WritePcs, Active, Post
<1>d. Outside(now)'
  BY <1>1, <1>2, <1>a DEF Outside, InCall, evVars
<1>e. Leaving'
  BY <1>1, <1>2, <1>a DEF Leaving, InCall, evVars, InLock, ReadPcs, WritePcs
<1>f. Loose(now)'
  BY <1>1, <1>2, <1>a DEF Loose, Post, Done
<1>g. Travel(now)'
  BY <1>1, <1>2, <1>a DEF Travel
<1>h. WriteState(s)'
  <2>1. Held(L, s)'
    <3>1. PICK l \in Lists : l = L /\ l = L'
      BY <1>1, <1>a
    <3>2. KeptList(l) /\ KeptEvents(s)
      BY <1>1 DEF KeptList, KeptEvents, evVars
    <3>3. Held(l, s)'
      BY <3>1, <3>2, <1>1, <1>3, HeldSame
    <3> QED
      BY <3>1, <3>3
  <2>2. Linked(next, s)' /\ Sorted(L, s)'
    BY <2>1 DEF Held
  <2>3. Written(prio', L', s, call'.es)[0] = s
    <3>1. call'.es \in Seq(Events)
      BY <1>2 DEF Model, TypeOK
    <3> QED
      BY <3>1, WrittenStart
  <2>4. Done' = 0
    BY <1>1, <1>2 DEF Done
  <2> QED
    BY <1>1, <1>2, <1>3, <1>a, <2>1, <2>2, <2>3, <2>4 DEF WriteState, evVars, fixVars
<1>j. WriteState(now[L])'
  BY <1>h, <1>3, <1>a
<1> QED
  BY <1>a, <1>b, <1>c, <1>d, <1>e, <1>f, <1>g, <1>j, LockTaken

\* The mutex is given back.
LEMMA UnlockStep ==
  ASSUME NEW now, Model(now), Unlock
  PROVE  Inv'
<1>1. /\ pc = "unlock" /\ pc' = (IF call.op = "new" THEN "iNext" ELSE "return")
      /\ lock' = [lock EXCEPT ![L] = FALSE] /\ k' = 0 /\ before' = <<>>
      /\ UNCHANGED <<evVars, fixVars, userVars, first, last, cnt, lasthigh, call>>
  BY DEF Unlock
<1>2. pc \in InLock /\ pc \in Active /\ pc' \in Active /\ pc' \in Post /\ pc' \notin InLock \cup {"dead"}
  BY <1>1 DEF InLock, ReadPcs, WritePcs, Active, Post
<1>3. /\ L \in Lists /\ now[L] \in Seq(Events) /\ call.n >= 1 /\ at # "none" /\ call.n \in Nat
      /\ \A l \in Lists : lock[l] <=> l = L
  BY <1>2, InsideFacts
<1>4. L' = L /\ (Reading' <=> Reading) /\ call' = call /\ cleanup' = cleanup /\ ordered' = ordered
      /\ put' = put /\ at' = at
  BY <1>1 DEF L, Reading, userVars
<1>5. /\ Control /\ Outside(now) /\ Loose(now) /\ Travel(now) /\ Leaving /\ Apart(now)
      /\ now \in [Lists -> Seq(Events)]
  BY DEF Model, Good
<1>6. Held(L, now[L]) /\ fixStart[L] = 0 /\ fixFirst[L] = NULL
  <2>1. CASE Reading
    <3>1. ReadState(now[L])
      BY <2>1, <1>2, InsideFacts
    <3>2. L \notin Outputs
      BY <2>1, <1>5 DEF Control, Outputs, L
    <3> QED
      BY <3>1, <3>2, <1>1 DEF ReadState, Held, Ends, Counted
  <2>2. CASE ~Reading
    <3>1. WriteState(now[L])
      BY <2>2, <1>2, InsideFacts
    <3> QED
      BY <3>1, <1>1 DEF WriteState
  <2> QED
    BY <2>1, <2>2
<1>7. \A l \in Lists : ~lock'[l] /\ Kept(l) /\ KeptEvents(now[l])
  BY <1>1, <1>3 DEF Kept, KeptList, KeptEvents, evVars, fixVars, Model, TypeOK
<1>8. Free(now)'
  <2> SUFFICES ASSUME NEW l \in Lists
               PROVE  Held(l, now[l])' /\ fixStart'[l] = 0 /\ fixFirst'[l] = NULL
    BY Zenon DEF Free
  <2>1. Held(l, now[l]) /\ fixStart[l] = 0 /\ fixFirst[l] = NULL /\ now[l] \in Seq(Events)
    <3>1. CASE l = L
      BY <3>1, <1>3, <1>6
    <3>2. CASE l # L
      BY <3>2, <1>3, ContentsNow, NowTypes
    <3> QED
      BY <3>1, <3>2
  <2>2. Kept(l) /\ KeptEvents(now[l])
    BY <1>7
  <2>3. Held(l, now[l])'
    BY <2>1, <2>2, HeldSame DEF Kept
  <2> QED
    BY <2>1, <2>2, <2>3 DEF Kept
<1>9. TypeOK'
  <2>1. lock' \in [Lists -> BOOLEAN]
    BY <1>1 DEF Model, TypeOK
  <2>2. before' \in Seq(Events) /\ k' \in Nat
    BY <1>1
  <2> QED
    BY <1>1, <1>2, <2>1, <2>2 DEF Model, TypeOK, evVars, fixVars, userVars
<1>a. Control'
  BY <1>1, <1>2, <1>3, <1>4, <1>5, <1>7 DEF Control, L, Reading, evVars, InLock, ReadPcs, WritePcs, Active, Post
<1>b. ~Reading => k = Len(call.es) /\ Len(call.es) \in Nat
  <2>1. ASSUME ~Reading PROVE k = Len(call.es) /\ Len(call.es) \in Nat
    BY <2>1, <1>1, <1>2, InsideFacts, WriteFacts DEF WriteState
  <2> QED
    BY <2>1
<1>c. ~Reading => \A e : ~InCall(e)
  BY <1>b DEF InCall
<1>d. Outside(now)'
  <2>1. \A e \in Events : Off(now, e) => owner[e] = "att" \/ (cleanup /\ \E i \in 1..Len(ordered) : ordered[i] = e)
    BY <1>5, <1>c DEF Outside, Reading
  <2> QED
    BY <2>1, <1>1, <1>2, <1>4, <1>5 DEF Outside, evVars
<1>e. Leaving'
  BY <1>1, <1>2, <1>4, <1>5, <1>c DEF Leaving, evVars, Reading
<1>f. Loose(now)'
  BY <1>1, <1>2, <1>3, <1>4, <1>5 DEF Loose, Post, Reading
<1>g. Travel(now)'
  BY <1>1, <1>2, <1>4, <1>5 DEF Travel
<1>h. Locked(now)'
  BY <1>2 DEF Locked
<1>i. Good(now)'
  BY <1>5, <1>8, <1>a, <1>d, <1>e, <1>f, <1>g, <1>h DEF Good
<1> QED
  BY <1>5, <1>9, <1>i DEF Inv

\* A call takes the mutex.
LEMMA LockStep ==
  ASSUME NEW now, Model(now), Lock
  PROVE  Inv'
<1>1. CASE Reading
  BY <1>1, LockRead
<1>2. CASE ~Reading
  BY <1>2, LockWrite
<1> QED
  BY <1>1, <1>2

-----------------------------------------------------------------------------
(* The calls begin.                                                        *)

\* What the arguments of a call and the rest of the state must be.
Opening(now, op, l, es, n, one) ==
  /\ op \in Ops \ {"none", "flushed"} /\ l \in Lists /\ es \in Seq(Events)
  /\ n \in Nat /\ n >= 1 /\ one \in BOOLEAN /\ (one => n = 1)
  /\ at # "none" /\ (op = "restore" => cleanup)
  /\ op \in {"get", "flush"} => at = "CU"
  /\ op = "new" => at = "GC"
  /\ op \in {"new", "get", "flush"} => /\ l = (IF op = "new" THEN "gcIn" ELSE "cuIn")
                                       /\ es = <<>>
  /\ op \notin {"new", "get", "flush"} =>
       /\ l # "cuIn" /\ n = Len(es) /\ Distinct(es)
       /\ \A i \in 1..Len(es) : Off(now, es[i])
       /\ l \in Outputs => \A i \in 1..Len(es) : es[i] \in put'
  /\ owner' \in [Events -> {"sys", "att"}]
  /\ \A m \in Lists : \A i \in 1..Len(now[m]) : owner'[now[m][i]] = owner[now[m][i]]
  /\ ~cleanup /\ op = "flush" => \A e \in Events : owner'[e] # "att"
  /\ put' \in SUBSET Events /\ put \subseteq put'
  /\ ordered' \in Seq(Events) /\ (~cleanup => ordered' = <<>>)
  /\ \A e \in Events : Off(now, e) =>
       \/ owner'[e] = "att"
       \/ cleanup /\ \/ \E i \in 1..Len(ordered') : ordered'[i] = e
                     \/ op = "restore" /\ \E i \in 1..Len(es) : es[i] = e
  /\ \A i \in 1..Len(ordered') : Off(now, ordered'[i])
  /\ Distinct(ordered')
  /\ \A i \in 1..Len(ordered'), j \in 1..Len(es) : ordered'[i] # es[j]

\* A call of the user or of the heart monitor begins.
LEMMA OpenStep ==
  ASSUME NEW now, Model(now), NEW op, NEW l, NEW es, NEW n, NEW one,
         Open(op, l, es, n, one), Opening(now, op, l, es, n, one)
  PROVE  Inv'
<1>1. /\ pc = "idle" /\ pc' = (IF op = "put" THEN "age" ELSE "lock")
      /\ call' = [op |-> op, list |-> l, es |-> es, n |-> n, one |-> one] /\ k' = 0
      /\ UNCHANGED <<listVars, fixVars, next, prio, age, at, before, cleanup>>
  BY DEF Open
<1>2. /\ pc \notin InLock \cup {"dead"} /\ pc' \notin InLock \cup {"dead"} /\ pc' \in Active /\ pc' \notin Post
      /\ pc' \notin ReadPcs \cup WritePcs
  BY <1>1 DEF InLock, ReadPcs, WritePcs, Active, Post
<1>3. /\ op \in Ops \ {"none", "flushed"} /\ l \in Lists /\ es \in Seq(Events)
      /\ n \in Nat /\ n >= 1 /\ one \in BOOLEAN /\ (one => n = 1) /\ at # "none"
      /\ Len(es) \in Nat
  BY SeqFacts DEF Opening
<1>4. call'.op = op /\ call'.list = l /\ call'.es = es /\ call'.n = n /\ call'.one = one
  BY <1>1
<1>5. Reading' <=> op \in {"new", "get", "flush"}
  BY <1>4 DEF Reading
<1>6. Control /\ Outside(now) /\ Loose(now) /\ Travel(now)
  BY DEF Model, Good
<1>7. \A m \in Lists : ~lock[m]
  BY <1>2, QuietFacts
<1>8. TypeOK'
  <2>1. call' \in [op : Ops, list : Lists \cup {"none"}, es : Seq(Events), n : Nat, one : BOOLEAN]
    BY <1>1, <1>3
  <2>2. owner' \in [Events -> {"sys", "att"}] /\ put' \in SUBSET Events /\ ordered' \in Seq(Events)
    BY DEF Opening
  <2> QED
    BY <1>1, <1>2, <2>1, <2>2 DEF Model, TypeOK, listVars, fixVars
<1>9. Control'
  <2>1. /\ \A m \in Lists : ~lock'[m]
        /\ at' = at /\ cleanup' = cleanup /\ pc' # "dead"
    BY <1>1, <1>2, <1>7 DEF listVars
  <2>2. /\ (op = "restore" => cleanup) /\ (op \in {"get", "flush"} => at = "CU") /\ (op = "new" => at = "GC")
        /\ (op \in {"new", "get", "flush"} => l = (IF op = "new" THEN "gcIn" ELSE "cuIn") /\ es = <<>>)
        /\ (op \notin {"new", "get", "flush"} => l # "cuIn")
        /\ (~cleanup => ordered' = <<>>)
    BY DEF Opening
  <2>3. (pc' = "age" => op = "put") /\ pc' \notin {"idle", "iNext", "iPrio", "iAge"} /\ (at' = "none" <=> at = "none")
    BY <1>1
  <2> QED
    BY <1>2, <1>3, <1>4, <1>5, <2>1, <2>2, <2>3 DEF Control
<1>a. Outside(now)'
  <2>1. \A e \in Events : (\E i \in 1..Len(es) : es[i] = e) => InCall(e)'
    BY <1>1, <1>4 DEF InCall
  <2>2. op = "restore" => pc' = "lock"
    BY <1>1
  <2> QED
    BY <1>1, <1>4, <2>1, <2>2 DEF Outside, Opening
<1>b. Leaving'
  BY <1>1, <1>3, <1>4 DEF Leaving, Opening
<1>c. Loose(now)'
  <2>1. Done' = 0
    BY <1>1 DEF Done
  <2>2. ~Reading' => n = Len(es) /\ Distinct(es) /\ \A i \in 1..Len(es) : Off(now, es[i])
    BY <1>5 DEF Opening
  <2>3. pc' \notin {"rEnd", "unlock", "iNext", "iPrio", "iAge"}
    BY <1>1
  <2> QED
    BY <1>1, <1>2, <1>3, <1>4, <2>1, <2>2, <2>3 DEF Loose
<1>d. Travel(now)'
  <2>1. L' = l
    BY <1>4 DEF L
  <2>2. put \subseteq put' /\ (~Reading' /\ l \in Outputs => \A i \in 1..Len(es) : es[i] \in put')
    BY <1>5 DEF Opening
  <2> QED
    BY <1>1, <1>4, <1>6, <2>1, <2>2 DEF Travel
<1>e. \A m \in Lists : KeptEvents(now[m])
  BY <1>1 DEF KeptEvents, Opening
<1> QED
  BY <1>1, <1>2, <1>8, <1>9, <1>a, <1>b, <1>c, <1>d, <1>e, QuietStep

\* A user begins a call.
LEMMA BeginStep ==
  ASSUME NEW now, Model(now), NEW op, NEW l, NEW es \in Seq(Events), NEW n, NEW one,
         Begin(op, l, es, n, one), put' \in SUBSET Events, put \subseteq put',
         op \in Ops \ {"none", "flushed", "restore"}, l \in Lists,
         n \in Nat, n >= 1, one \in BOOLEAN, one => n = 1,
         op \in {"get", "flush"} => at = "CU", op = "new" => at = "GC",
         op \in {"new", "get", "flush"} => l = (IF op = "new" THEN "gcIn" ELSE "cuIn") /\ es = <<>>,
         op \notin {"new", "get", "flush"} =>
           /\ l # "cuIn" /\ n = Len(es) /\ Distinct(es)
           /\ \A i \in 1..Len(es) : Off(now, es[i])
           /\ l \in Outputs => \A i \in 1..Len(es) : es[i] \in put',
         op = "flush" => Owned = {}
  PROVE  Inv'
<1>1. at # "none" /\ ~cleanup /\ Open(op, l, es, n, one) /\ owner' = owner /\ ordered' = ordered
  BY DEF Begin
<1>2. ordered = <<>> /\ owner \in [Events -> {"sys", "att"}] /\ Outside(now)
  BY <1>1 DEF Model, Good, Control, TypeOK
<1>3. /\ ordered' \in Seq(Events) /\ ordered' = <<>> /\ Len(ordered') = 0 /\ Distinct(ordered')
  BY <1>1, <1>2 DEF Distinct
<1>4. \A e \in Events : Off(now, e) => owner'[e] = "att"
  BY <1>1, <1>2 DEF Outside
<1>5. op = "flush" => \A e \in Events : owner'[e] # "att"
  BY <1>1 DEF Owned
<1>6. Opening(now, op, l, es, n, one)
  BY <1>1, <1>2, <1>3, <1>4, <1>5 DEF Opening
<1> QED
  BY <1>1, <1>6, OpenStep

\* et_event(s)_new and et_event(s)_get begin.
LEMMA NewStep ==
  ASSUME NEW now, Model(now), NEW n \in 1..MaxBatch, New(n) \/ Get(n)
  PROVE  Inv'
<1>1. <<>> \in Seq(Events) /\ n \in Nat /\ n >= 1 /\ (n = 1) \in BOOLEAN
  BY ETRepairAssumption
<1>2. "gcIn" \in Lists /\ "cuIn" \in Lists /\ put \in SUBSET Events
  BY DEF Lists, Model, TypeOK
<1>3. CASE New(n)
  <2>1. at = "GC" /\ Begin("new", "gcIn", <<>>, n, n = 1) /\ put' = put
    BY <1>3 DEF New
  <2>2. "new" \in Ops \ {"none", "flushed", "restore"}
    BY DEF Ops
  <2> QED
    BY <1>1, <1>2, <2>1, <2>2, BeginStep
<1>4. CASE Get(n)
  <2>1. at = "CU" /\ Begin("get", "cuIn", <<>>, n, n = 1) /\ put' = put
    BY <1>4 DEF Get
  <2>2. "get" \in Ops \ {"none", "flushed", "restore"}
    BY DEF Ops
  <2> QED
    BY <1>1, <1>2, <2>1, <2>2, BeginStep
<1> QED
  BY <1>3, <1>4

\* A batch of events the user owns.
LEMMA BatchIs ==
  ASSUME NEW now, Model(now), pc = "idle", NEW es \in Batches
  PROVE  /\ es \in Seq(Events) /\ Len(es) \in Nat /\ Len(es) >= 1 /\ Distinct(es)
         /\ \A i \in 1..Len(es) : Off(now, es[i])
         /\ ToSet(es) = {es[i] : i \in 1..Len(es)} /\ ToSet(es) \subseteq Events
<1>1. es \in SeqOf(Owned, MaxBatch) /\ es # <<>> /\ Distinct(es)
  BY DEF Batches
<1>2. PICK m \in 0..MaxBatch : es \in [1..m -> Owned]
  BY <1>1 DEF SeqOf
<1>3. m \in Nat
  BY ETRepairAssumption
<1>4. es \in Seq(Owned) /\ Len(es) = m /\ DOMAIN es = 1..m /\ \A i \in 1..m : es[i] \in Owned
  BY <1>2, <1>3
<1>5. \A e \in Owned : e \in Events /\ owner[e] = "att"
  BY DEF Owned
<1>6. es \in Seq(Events)
  BY <1>2, <1>3, <1>5, SeqOfFunction
<1>7. pc \notin InLock \cup {"dead"}
  BY DEF InLock, ReadPcs, WritePcs
<1>8. \A i \in 1..m : Off(now, es[i])
  BY <1>4, <1>5, <1>7, QuietFacts
<1> QED
  BY <1>1, <1>3, <1>4, <1>5, <1>6, <1>8, SeqFacts DEF ToSet

\* et_event(s)_put and et_event(s)_dump begin.
LEMMA PutStep ==
  ASSUME NEW now, Model(now), NEW es \in Batches, Put(es) \/ Dump(es)
  PROVE  Inv'
<1>1. pc = "idle"
  BY DEF Put, Dump, Begin, Open
<1>2. /\ es \in Seq(Events) /\ Len(es) \in Nat /\ Len(es) >= 1 /\ Distinct(es)
      /\ \A i \in 1..Len(es) : Off(now, es[i])
      /\ ToSet(es) = {es[i] : i \in 1..Len(es)} /\ ToSet(es) \subseteq Events
  BY <1>1, BatchIs
<1>3. (Len(es) = 1) \in BOOLEAN /\ put \in SUBSET Events
  BY DEF Model, TypeOK
<1>4. "put" \in Ops \ {"none", "flushed", "restore"} /\ "dump" \in Ops \ {"none", "flushed", "restore"}
  BY DEF Ops
<1>5. CASE Put(es)
  <2>1. Begin("put", OutOf(at), es, Len(es), Len(es) = 1) /\ put' = put \cup ToSet(es)
    BY <1>5 DEF Put
  <2>2. OutOf(at) \in Lists /\ OutOf(at) # "cuIn"
    BY DEF OutOf, Lists
  <2>3. put' \in SUBSET Events /\ put \subseteq put' /\ \A i \in 1..Len(es) : es[i] \in put'
    BY <2>1, <1>2, <1>3
  <2> QED
    BY <1>2, <1>3, <1>4, <2>1, <2>2, <2>3, BeginStep
<1>6. CASE Dump(es)
  <2>1. Begin("dump", "gcIn", es, Len(es), Len(es) = 1) /\ put' = put
    BY <1>6 DEF Dump
  <2>2. "gcIn" \in Lists /\ "gcIn" \notin Outputs
    BY DEF Outputs, Lists
  <2> QED
    BY <1>2, <1>3, <1>4, <2>1, <2>2, BeginStep
<1> QED
  BY <1>5, <1>6

\* A step of an idle user that changes none of the lists.
LEMMA IdleStep ==
  ASSUME NEW now, Model(now), pc = "idle", pc' = "idle", TypeOK',
         UNCHANGED <<listVars, fixVars, next, call, k, put>>,
         \A m \in Lists : \A i \in 1..Len(now[m]) :
           owner'[now[m][i]] = owner[now[m][i]] /\ prio'[now[m][i]] = prio[now[m][i]],
         at' = "none" => ~cleanup' /\ \A e \in Events : owner'[e] = "sys",
         at' = "CU" => at = "CU" \/ \A e \in Events : ~Off(now, e),
         ~cleanup' => ordered' = <<>>,
         \A e \in Events : Off(now, e) => \/ owner'[e] = "att"
                                          \/ cleanup' /\ \E i \in 1..Len(ordered') : ordered'[i] = e,
         \A i \in 1..Len(ordered') : Off(now, ordered'[i]),
         Distinct(ordered')
  PROVE  Inv'
<1>1. pc \notin InLock \cup {"dead"} /\ pc' \notin InLock \cup {"dead"} /\ pc' \notin Active /\ pc' \notin Post
  BY DEF InLock, ReadPcs, WritePcs, Active, Post
<1>2. Control /\ Outside(now) /\ Loose(now) /\ Travel(now)
  BY DEF Model, Good
<1>3. \A m \in Lists : ~lock[m] /\ ~lock'[m]
  BY <1>1, QuietFacts DEF listVars
<1>4. Control'
  <2>1. Reading' <=> Reading
    BY DEF Reading
  <2>2. pc' \notin ReadPcs \cup WritePcs \cup {"iNext", "iPrio", "iAge", "age", "lock", "dead"}
    BY DEF ReadPcs, WritePcs
  <2> QED
    BY <1>1, <1>2, <1>3, <2>1, <2>2 DEF Control
<1>5. Outside(now)'
  BY <1>1 DEF Outside
<1>6. Leaving'
  BY <1>1 DEF Leaving
<1>7. Loose(now)'
  BY <1>1, <1>2 DEF Loose, Active, Post
<1>8. Travel(now)'
  BY <1>1, <1>2 DEF Travel
<1>9. \A m \in Lists : KeptEvents(now[m])
  BY DEF KeptEvents
<1> QED
  BY <1>1, <1>4, <1>5, <1>6, <1>7, <1>8, <1>9, QuietStep

\* The user attaches.
LEMMA AttachStep ==
  ASSUME NEW now, Model(now), NEW s \in {"GC", "CU"}, Attach(s)
  PROVE  Inv'
<1>1. /\ at = "none" /\ at' = s
      /\ UNCHANGED <<evVars, listVars, fixVars, pc, call, k, before, put, calls, cleanup, ordered>>
  BY DEF Attach
<1>2. /\ pc = "idle" /\ ~cleanup /\ ordered = <<>> /\ \A e \in Events : owner[e] = "sys"
  BY <1>1 DEF Model, Good, Control
<1>3. \A e \in Events : ~Off(now, e)
  BY <1>2 DEF Model, Good, Outside
<1>4. TypeOK'
  BY <1>1 DEF Model, TypeOK, evVars, listVars, fixVars
<1>6. Len(ordered') = 0 /\ Distinct(ordered')
  BY <1>1, <1>2 DEF Distinct
<1> QED
  BY <1>1, <1>2, <1>3, <1>4, <1>6, IdleStep DEF evVars

\* It sets the priority of an event it owns.
LEMMA SetPriorityStep ==
  ASSUME NEW now, Model(now), NEW e \in Owned, NEW p \in Priorities, SetPriority(e, p)
  PROVE  Inv'
<1>1. /\ at # "none" /\ pc = "idle" /\ ~cleanup /\ prio' = [prio EXCEPT ![e] = p]
      /\ UNCHANGED <<listVars, fixVars, userVars, next, owner, age, pc, call, k, before>>
  BY DEF SetPriority
<1>2. e \in Events /\ owner[e] = "att" /\ pc \notin InLock \cup {"dead"}
  BY <1>1 DEF Owned, InLock, ReadPcs, WritePcs
<1>3. Off(now, e)
  BY <1>2, QuietFacts
<1>4. TypeOK'
  <2>1. p \in {"LOW", "HIGH"}
    BY ETRepairAssumption
  <2>2. prio' \in [Events -> {"LOW", "HIGH"}]
    BY <1>1, <2>1, Zenon DEF Model, TypeOK
  <2> QED
    BY <1>1, <2>2 DEF Model, TypeOK, listVars, fixVars, userVars
<1>5. \A m \in Lists : \A i \in 1..Len(now[m]) : prio'[now[m][i]] = prio[now[m][i]]
  <2> SUFFICES ASSUME NEW m \in Lists, NEW i \in 1..Len(now[m]) PROVE prio'[now[m][i]] = prio[now[m][i]]
    OBVIOUS
  <2>1. now[m][i] # e /\ now[m][i] \in Events
    BY <1>3, NowTypes DEF Off
  <2> QED
    BY <2>1, <1>1 DEF Model, TypeOK
<1>6. ordered = <<>> /\ Outside(now)
  BY <1>1 DEF Model, Good, Control
<1>7. \A x \in Events : Off(now, x) => owner[x] = "att"
  BY <1>1, <1>6 DEF Outside
<1>8. Len(ordered') = 0 /\ Distinct(ordered') /\ ordered' = <<>>
  BY <1>1, <1>6 DEF Distinct, userVars
<1>9. at' = at /\ cleanup' = cleanup /\ put' = put
  BY <1>1 DEF userVars
<1> QED
  BY <1>1, <1>4, <1>5, <1>7, <1>8, <1>9, IdleStep

\* What a user that owns nothing leaves behind.
LEMMA NothingOwned ==
  ASSUME NEW now, Model(now), pc = "idle", Owned = {}, ordered = <<>>
  PROVE  \A e \in Events : owner[e] = "sys" /\ ~Off(now, e)
<1>1. \A e \in Events : owner[e] # "att"
  BY DEF Owned
<1>2. \A e \in Events : owner[e] = "sys"
  BY <1>1 DEF Model, TypeOK
<1>3. pc \notin InLock \cup {"lock"} /\ Outside(now) /\ Len(ordered) = 0
  BY DEF InLock, ReadPcs, WritePcs, Model, Good
<1> QED
  BY <1>1, <1>2, <1>3 DEF Outside

\* It detaches.
LEMMA DetachStep ==
  ASSUME NEW now, Model(now), Detach
  PROVE  Inv'
<1>1. Owned = {} /\ put' = put /\ put \in SUBSET Events
  BY DEF Detach, Model, TypeOK
<1>2. CASE at = "CU" /\ cnt["cuIn"] > 0 /\ Begin("flush", "cuIn", <<>>, NEvents, FALSE)
  <2>1. <<>> \in Seq(Events) /\ NEvents \in Nat /\ NEvents >= 1 /\ "cuIn" \in Lists
    BY ETRepairAssumption DEF Lists
  <2>2. "flush" \in Ops \ {"none", "flushed", "restore"}
    BY DEF Ops
  <2> QED
    BY <1>1, <1>2, <2>1, <2>2, BeginStep
<1>3. CASE /\ at # "none" /\ pc = "idle" /\ ~cleanup /\ at' = "none"
           /\ UNCHANGED <<evVars, listVars, fixVars, pc, call, k, before, calls, cleanup, ordered>>
  <2>1. ordered = <<>>
    BY <1>3 DEF Model, Good, Control
  <2>2. \A e \in Events : owner[e] = "sys" /\ ~Off(now, e)
    BY <1>1, <1>3, <2>1, NothingOwned
  <2>3. TypeOK'
    BY <1>1, <1>3 DEF Model, TypeOK, evVars, listVars, fixVars
  <2>4. Len(ordered') = 0 /\ Distinct(ordered') /\ ordered' = <<>>
    BY <1>3, <2>1 DEF Distinct
  <2> QED
    BY <1>1, <1>3, <2>2, <2>3, <2>4, IdleStep DEF evVars
<1> QED
  BY <1>2, <1>3 DEF Detach

-----------------------------------------------------------------------------
(* The heart monitor returns the events of the dead user.                  *)

\* The heart monitor flushes the dead user's station.
LEMMA FlushStep ==
  ASSUME NEW now, Model(now), Flush
  PROVE  Inv'
<1>1. /\ cleanup /\ at = "CU" /\ Open("flush", "cuIn", <<>>, NEvents, FALSE)
      /\ UNCHANGED <<owner, put, calls, ordered>> /\ pc = "idle"
  BY DEF Flush, ToFlush, Open
<1>2. <<>> \in Seq(Events) /\ NEvents \in Nat /\ NEvents >= 1 /\ "cuIn" \in Lists /\ Len(<<>>) = 0
  BY ETRepairAssumption DEF Lists
<1>3. "flush" \in Ops \ {"none", "flushed"}
  BY DEF Ops
<1>4. owner \in [Events -> {"sys", "att"}] /\ put \in SUBSET Events /\ ordered \in Seq(Events) /\ Outside(now)
  BY DEF Model, TypeOK, Good
<1>5. pc \notin InLock \cup {"lock"}
  BY <1>1 DEF InLock, ReadPcs, WritePcs
<1>6. /\ \A e \in Events : Off(now, e) => owner[e] = "att" \/ \E i \in 1..Len(ordered) : ordered[i] = e
      /\ \A i \in 1..Len(ordered) : Off(now, ordered[i])
      /\ Distinct(ordered)
  BY <1>4, <1>5 DEF Outside
<1>7. Opening(now, "flush", "cuIn", <<>>, NEvents, FALSE)
  BY <1>1, <1>2, <1>3, <1>4, <1>6 DEF Opening
<1> QED
  BY <1>1, <1>7, OpenStep

\* It returns the ordered events.
LEMMA RestoreStep ==
  ASSUME NEW now, Model(now), Restore
  PROVE  Inv'
<1>1. /\ cleanup /\ ordered # <<>> /\ Open("restore", RestoreTo, ordered, Len(ordered), FALSE)
      /\ ordered' = <<>> /\ UNCHANGED <<owner, put, calls>> /\ pc = "idle"
  BY DEF Restore, Open
<1>2. /\ owner \in [Events -> {"sys", "att"}] /\ put \in SUBSET Events /\ ordered \in Seq(Events)
      /\ Outside(now) /\ Travel(now) /\ at \in {"GC", "CU"}
  BY <1>1 DEF Model, TypeOK, Good, Control
<1>3. Len(ordered) \in Nat /\ Len(ordered) >= 1 /\ \A i \in 1..Len(ordered) : ordered[i] \in Events
  BY <1>1, <1>2, SeqFacts
<1>4. "restore" \in Ops \ {"none", "flushed"} /\ RestoreTo \in Lists /\ RestoreTo # "cuIn"
  BY DEF Ops, RestoreTo, Lists
<1>5. pc \notin InLock \cup {"lock"}
  BY <1>1 DEF InLock, ReadPcs, WritePcs
<1>6. /\ \A e \in Events : Off(now, e) => owner[e] = "att" \/ \E i \in 1..Len(ordered) : ordered[i] = e
      /\ \A i \in 1..Len(ordered) : Off(now, ordered[i])
      /\ Distinct(ordered)
  BY <1>2, <1>5 DEF Outside
<1>7. RestoreTo \in Outputs => \A i \in 1..Len(ordered) : ordered[i] \in put
  <2>1. RestoreTo \in Outputs => at = "CU"
    BY <1>2 DEF RestoreTo, Outputs
  <2> QED
    BY <2>1, <1>2, <1>3, <1>6 DEF Travel
<1>8. ordered' \in Seq(Events) /\ Len(ordered') = 0 /\ Distinct(ordered')
  BY <1>1 DEF Distinct
<1>9. Opening(now, "restore", RestoreTo, ordered, Len(ordered), FALSE)
  BY <1>1, <1>2, <1>3, <1>4, <1>6, <1>7, <1>8 DEF Opening
<1> QED
  BY <1>1, <1>9, OpenStep

\* It is done.
LEMMA DetachedStep ==
  ASSUME NEW now, Model(now), Detached
  PROVE  Inv'
<1>1. /\ cleanup /\ pc = "idle" /\ Owned = {} /\ ordered = <<>> /\ at' = "none" /\ cleanup' = FALSE
      /\ UNCHANGED <<evVars, listVars, fixVars, pc, call, k, before, put, calls, ordered>>
  BY DEF Detached
<1>2. \A e \in Events : owner[e] = "sys" /\ ~Off(now, e)
  BY <1>1, NothingOwned
<1>3. TypeOK'
  BY <1>1 DEF Model, TypeOK, evVars, listVars, fixVars
<1>4. Len(ordered') = 0 /\ Distinct(ordered') /\ ordered' = <<>>
  BY <1>1 DEF Distinct
<1> QED
  BY <1>1, <1>2, <1>3, <1>4, IdleStep DEF evVars

\* Events in ascending order.
LEMMA AscendingIs ==
  ASSUME NEW s \in Ascending
  PROVE  /\ s \in Seq(Events) /\ Len(s) \in Nat /\ Distinct(s)
         /\ ToSet(s) = {s[i] : i \in 1..Len(s)} /\ \A i \in 1..Len(s) : s[i] \in Events
<1>1. s \in SeqOf(Events, NEvents) /\ \A i, j \in 1..Len(s) : i < j => s[i] < s[j]
  BY DEF Ascending
<1>2. PICK m \in 0..NEvents : s \in [1..m -> Events]
  BY <1>1 DEF SeqOf
<1>3. m \in Nat
  BY EventNumbers
<1>4. s \in Seq(Events) /\ Len(s) = m
  BY <1>2, <1>3, SeqOfFunction
<1>5. DOMAIN s = 1..Len(s) /\ \A i \in 1..Len(s) : s[i] \in Events /\ s[i] \in Nat
  BY <1>4, SeqFacts, EventNumbers
<1>6. Distinct(s)
  <2> SUFFICES ASSUME NEW i \in 1..Len(s), NEW j \in 1..Len(s), s[i] = s[j] PROVE i = j
    BY DEF Distinct
  <2>1. ~(i < j) /\ ~(j < i)
    BY <1>1, <1>5
  <2> QED
    BY <2>1, <1>3, <1>4
<1> QED
  BY <1>3, <1>4, <1>5, <1>6 DEF ToSet

\* One sequence behind another.
LEMMA Joined ==
  ASSUME NEW s \in Seq(Events), NEW t \in Seq(Events)
  PROVE  /\ s \o t \in Seq(Events) /\ Len(s \o t) = Len(s) + Len(t)
         /\ \A i \in 1..Len(s) : (s \o t)[i] = s[i]
         /\ \A i \in 1..Len(t) : (s \o t)[Len(s) + i] = t[i]
         /\ \A i \in 1..(Len(s) + Len(t)) : (s \o t)[i] = IF i <= Len(s) THEN s[i] ELSE t[i - Len(s)]
<1>1. Len(s) \in Nat /\ Len(t) \in Nat
  BY SeqFacts
<1>2. s \o t \in Seq(Events) /\ Len(s \o t) = Len(s) + Len(t)
  OBVIOUS
<1>3. \A i \in 1..(Len(s) + Len(t)) : (s \o t)[i] = IF i <= Len(s) THEN s[i] ELSE t[i - Len(s)]
  BY <1>1
<1>4. \A i \in 1..Len(s) : (s \o t)[i] = s[i]
  BY <1>1, <1>3
<1>5. ASSUME NEW i \in 1..Len(t) PROVE (s \o t)[Len(s) + i] = t[i]
  BY <1>1, <1>3
<1> QED
  BY <1>2, <1>3, <1>4, <1>5

\* Two sequences without a common event, one behind the other.
LEMMA JoinedDistinct ==
  ASSUME NEW s \in Seq(Events), NEW t \in Seq(Events), Distinct(s), Distinct(t),
         \A i \in 1..Len(s), j \in 1..Len(t) : s[i] # t[j]
  PROVE  Distinct(s \o t)
<1>1. Len(s) \in Nat /\ Len(t) \in Nat
  BY SeqFacts
<1>2. /\ Len(s \o t) = Len(s) + Len(t)
      /\ \A i \in 1..(Len(s) + Len(t)) : (s \o t)[i] = IF i <= Len(s) THEN s[i] ELSE t[i - Len(s)]
  BY Joined
<1> SUFFICES ASSUME NEW i \in 1..(Len(s) + Len(t)), NEW j \in 1..(Len(s) + Len(t)),
                    (s \o t)[i] = (s \o t)[j]
             PROVE  i = j
  BY <1>2 DEF Distinct
<1>3. CASE i <= Len(s) /\ j <= Len(s)
  BY <1>1, <1>2, <1>3 DEF Distinct
<1>4. CASE ~(i <= Len(s)) /\ ~(j <= Len(s))
  <2>1. i - Len(s) \in 1..Len(t) /\ j - Len(s) \in 1..Len(t)
    BY <1>1, <1>4
  <2>2. t[i - Len(s)] = t[j - Len(s)]
    BY <1>2, <1>4
  <2>3. i - Len(s) = j - Len(s)
    BY <2>1, <2>2 DEF Distinct
  <2> QED
    BY <2>3, <1>1
<1>5. CASE i <= Len(s) /\ ~(j <= Len(s))
  <2>1. i \in 1..Len(s) /\ j - Len(s) \in 1..Len(t)
    BY <1>1, <1>5
  <2>2. s[i] = t[j - Len(s)]
    BY <1>2, <1>5
  <2> QED
    BY <2>1, <2>2
<1>6. CASE ~(i <= Len(s)) /\ j <= Len(s)
  <2>1. j \in 1..Len(s) /\ i - Len(s) \in 1..Len(t)
    BY <1>1, <1>6
  <2>2. s[j] = t[i - Len(s)]
    BY <1>2, <1>6
  <2> QED
    BY <2>1, <2>2
<1> QED
  BY <1>3, <1>4, <1>5, <1>6

\* It collects what the dead user owns.
LEMMA CollectStep ==
  ASSUME NEW now, Model(now), Collect
  PROVE  Inv'
<1>1. /\ cleanup /\ pc = "idle" /\ ordered = <<>> /\ put' = put /\ calls' = calls
  BY DEF Collect
<1>2. PICK new \in Ascending, high \in Ascending, low \in Ascending :
       /\ ToSet(new) = {e \in Owned : age[e] = "NEW"}
       /\ ToSet(high) = {e \in Owned : age[e] = "USED" /\ IsHigh(e)}
       /\ ToSet(low) = {e \in Owned : age[e] = "USED" /\ ~IsHigh(e)}
       /\ owner' = Disown(ToSet(high) \cup ToSet(low))
       /\ ordered' = high \o low
       /\ \/ new # <<>> /\ Open("restore", "gcIn", new, Len(new), FALSE)
          \/ new = <<>> /\ UNCHANGED <<listVars, fixVars, next, prio, age, at, before, cleanup,
                                       pc, call, k>>
  BY DEF Collect
<1>3. /\ owner \in [Events -> {"sys", "att"}] /\ put \in SUBSET Events /\ Outside(now) /\ at # "none"
      /\ age \in [Events -> {"NEW", "USED"}]
  BY <1>1 DEF Model, TypeOK, Good, Control
<1>4. /\ new \in Seq(Events) /\ Len(new) \in Nat /\ Distinct(new)
      /\ ToSet(new) = {new[i] : i \in 1..Len(new)} /\ \A i \in 1..Len(new) : new[i] \in Events
  BY AscendingIs
<1>5. /\ high \in Seq(Events) /\ Len(high) \in Nat /\ Distinct(high)
      /\ ToSet(high) = {high[i] : i \in 1..Len(high)} /\ \A i \in 1..Len(high) : high[i] \in Events
  BY AscendingIs
<1>6. /\ low \in Seq(Events) /\ Len(low) \in Nat /\ Distinct(low)
      /\ ToSet(low) = {low[i] : i \in 1..Len(low)} /\ \A i \in 1..Len(low) : low[i] \in Events
  BY AscendingIs
<1>7. pc \notin InLock \cup {"dead"} /\ pc \notin InLock \cup {"lock"}
  BY <1>1 DEF InLock, ReadPcs, WritePcs
<1>8. \A e \in Events : Off(now, e) <=> owner[e] = "att"
  <2>1. \A e \in Events : Off(now, e) => owner[e] = "att"
    BY <1>1, <1>3, <1>7 DEF Outside
  <2>2. \A e \in Events : owner[e] = "att" => Off(now, e)
    BY <1>7, QuietFacts
  <2> QED
    BY <2>1, <2>2
<1>9. PICK os \in Seq(Events) : os = high \o low /\ os = ordered'
  BY <1>2, <1>5, <1>6, Joined
<1>a. /\ Len(os) = Len(high) + Len(low)
      /\ \A i \in 1..Len(high) : os[i] = high[i]
      /\ \A i \in 1..Len(low) : os[Len(high) + i] = low[i]
      /\ \A i \in 1..(Len(high) + Len(low)) : os[i] = IF i <= Len(high) THEN high[i] ELSE low[i - Len(high)]
  <2> DEFINE hl == high \o low
  <2>1. /\ Len(hl) = Len(high) + Len(low)
        /\ \A i \in 1..Len(high) : hl[i] = high[i]
        /\ \A i \in 1..Len(low) : hl[Len(high) + i] = low[i]
        /\ \A i \in 1..(Len(high) + Len(low)) : hl[i] = IF i <= Len(high) THEN high[i] ELSE low[i - Len(high)]
    BY <1>5, <1>6, Joined
  <2>2. os = hl
    BY <1>9
  <2> HIDE DEF hl
  <2> QED
    BY <2>1, <2>2
<1>b. \A i \in 1..Len(os) : os[i] \in ToSet(high) \cup ToSet(low)
  <2> SUFFICES ASSUME NEW i \in 1..Len(os) PROVE os[i] \in ToSet(high) \cup ToSet(low)
    OBVIOUS
  <2>1. CASE i <= Len(high)
    BY <2>1, <1>5, <1>6, <1>a
  <2>2. CASE ~(i <= Len(high))
    <3>1. i - Len(high) \in 1..Len(low) /\ os[i] = low[i - Len(high)]
      BY <2>2, <1>5, <1>6, <1>a
    <3> QED
      BY <3>1, <1>6
  <2> QED
    BY <2>1, <2>2
<1>c. \A e \in ToSet(high) \cup ToSet(low) : \E i \in 1..Len(os) : os[i] = e
  <2> SUFFICES ASSUME NEW e \in ToSet(high) \cup ToSet(low) PROVE \E i \in 1..Len(os) : os[i] = e
    OBVIOUS
  <2>1. CASE e \in ToSet(high)
    <3>1. PICK i \in 1..Len(high) : high[i] = e
      BY <2>1, <1>5
    <3>2. i \in 1..Len(os) /\ os[i] = e
      BY <3>1, <1>5, <1>6, <1>a
    <3> QED
      BY <3>2
  <2>2. CASE e \in ToSet(low)
    <3>1. PICK i \in 1..Len(low) : low[i] = e
      BY <2>2, <1>6
    <3>2. Len(high) + i \in 1..Len(os) /\ os[Len(high) + i] = e
      BY <3>1, <1>5, <1>6, <1>a
    <3> QED
      BY <3>2
  <2> QED
    BY <2>1, <2>2
<1>d. Distinct(os)
  <2>1. ASSUME NEW i \in 1..Len(high), NEW j \in 1..Len(low) PROVE high[i] # low[j]
    <3>1. high[i] \in ToSet(high) /\ low[j] \in ToSet(low)
      BY <1>5, <1>6
    <3>2. IsHigh(high[i]) /\ ~IsHigh(low[j])
      BY <3>1, <1>2
    <3> QED
      BY <3>2 DEF IsHigh
  <2> QED
    BY <2>1, <1>5, <1>6, <1>9, JoinedDistinct
<1>e. \A e \in ToSet(high) \cup ToSet(low) : e \in Events /\ owner[e] = "att" /\ age[e] = "USED" /\ Off(now, e)
  BY <1>2, <1>8 DEF Owned
<1>f. /\ owner' \in [Events -> {"sys", "att"}]
      /\ \A e \in Events : owner'[e] = IF e \in ToSet(high) \cup ToSet(low) THEN "sys" ELSE owner[e]
  BY <1>2, <1>3 DEF Disown
<1>g. \A m \in Lists : \A i \in 1..Len(now[m]) : owner'[now[m][i]] = owner[now[m][i]]
  <2> SUFFICES ASSUME NEW m \in Lists, NEW i \in 1..Len(now[m]) PROVE owner'[now[m][i]] = owner[now[m][i]]
    OBVIOUS
  <2>1. now[m][i] \in Events /\ ~Off(now, now[m][i])
    BY NowTypes DEF Off
  <2> QED
    BY <2>1, <1>e, <1>f
<1>h. \A e \in Events : Off(now, e) => owner'[e] = "att" \/ \E i \in 1..Len(os) : os[i] = e
  BY <1>8, <1>c, <1>f
<1>i. \A i \in 1..Len(os) : Off(now, os[i])
  BY <1>b, <1>e
<1>j. \A i \in 1..Len(new) : Off(now, new[i]) /\ age[new[i]] = "NEW"
  <2>1. \A i \in 1..Len(new) : new[i] \in ToSet(new)
    BY <1>4
  <2> QED
    BY <2>1, <1>2, <1>8 DEF Owned
<1>k. \A i \in 1..Len(os), j \in 1..Len(new) : os[i] # new[j]
  BY <1>b, <1>e, <1>j
<1>l. CASE new # <<>> /\ Open("restore", "gcIn", new, Len(new), FALSE)
  <2>1. Len(new) >= 1
    BY <1>4, <1>l, SeqFacts
  <2>2. "restore" \in Ops \ {"none", "flushed"} /\ "gcIn" \in Lists /\ "gcIn" \notin Outputs
    BY DEF Ops, Lists, Outputs
  <2>3. Opening(now, "restore", "gcIn", new, Len(new), FALSE)
    BY <1>1, <1>3, <1>4, <1>9, <1>d, <1>f, <1>g, <1>h, <1>i, <1>j, <1>k, <2>1, <2>2 DEF Opening
  <2> QED
    BY <1>l, <2>3, OpenStep
<1>m. CASE UNCHANGED <<listVars, fixVars, next, prio, age, at, before, cleanup, pc, call, k>>
  <2>1. TypeOK'
    BY <1>1, <1>f, <1>9, <1>m DEF Model, TypeOK, listVars, fixVars
  <2> QED
    BY <1>1, <1>3, <1>9, <1>d, <1>g, <1>h, <1>i, <1>m, <2>1, IdleStep
<1> QED
  BY <1>2, <1>l, <1>m

-----------------------------------------------------------------------------
(* The user is killed.                                                     *)

\* What a dead reader leaves.
LEMMA ReadDead ==
  ASSUME NEW now, Model(now), pc \in InLock, Reading
  PROVE  DeadRead(now[L])
<1>1. PICK s \in Seq(Events) : s = now[L]
  BY InsideFacts
<1>2. ReadState(s) /\ Len(s) \in Nat /\ Len(before) \in Nat /\ call.n \in Nat
  BY <1>1, InsideFacts
<1>3. L \notin Outputs /\ pc \in ReadPcs \cup {"unlock"}
  BY DEF Model, Good, Control, Outputs, L, InLock
<1>4. call.n \in 1..Len(before) /\ fixStart[L] = 0
  BY <1>2 DEF ReadState
<1>5. CASE pc \in {"rNum", "rCnt", "rCall", "rFix", "unlock"}
  <2>1. fixFirst[L] = NULL /\ s \in {before, Rest}
    BY <1>2, <1>5 DEF ReadState
  <2>2. Held(L, s)
    BY <1>2, <1>3, <1>5 DEF ReadState, Held, Ends, Counted
  <2> QED
    BY <1>1, <1>4, <2>1, <2>2 DEF DeadRead
<1>6. CASE pc \in {"take", "first", "less"}
  <2>1. /\ fixFirst[L] = before[1] /\ fixCall[L] = "READ"
        /\ fixCnt[L] = Len(before) /\ fixNum[L] = call.n /\ s = before /\ Linked(next, s) /\ Sorted(L, s)
        /\ cnt[L] = Len(s) /\ (s # <<>> => last[L] = s[Len(s)])
    BY <1>2, <1>6 DEF ReadState
  <2>2. s # <<>>
    BY <1>2, <1>4, <2>1
  <2> QED
    BY <1>1, <1>4, <2>1, <2>2 DEF DeadRead
<1>7. CASE pc = "rEnd"
  <2>1. /\ fixFirst[L] = before[1] /\ fixCall[L] = "READ"
        /\ fixCnt[L] = Len(before) /\ fixNum[L] = call.n /\ s = Rest
    BY <1>2, <1>7 DEF ReadState
  <2>2. Held(L, s)
    BY <1>2, <1>3, <1>7 DEF ReadState, Held, Ends, Counted
  <2> QED
    BY <1>1, <1>4, <2>1, <2>2 DEF DeadRead
<1> QED
  BY <1>3, <1>5, <1>6, <1>7 DEF ReadPcs

\* What a dead writer leaves.
LEMMA WriteDead ==
  ASSUME NEW now, Model(now), pc \in InLock, ~Reading
  PROVE  DeadWrite(now[L])
<1>1. PICK s \in Seq(Events) : s = now[L]
  BY InsideFacts
<1>2. /\ WriteState(s) /\ Len(s) \in Nat /\ Len(before) \in Nat /\ call.n \in Nat /\ k \in Nat
      /\ before \in Seq(Events) /\ call.es \in Seq(Events)
  BY <1>1, InsideFacts
<1>3. /\ pc \in WritePcs \cup {"unlock"} /\ call.n = Len(call.es) /\ Done \in 0..call.n
      /\ s = Written(prio, L, before, call.es)[Done] /\ Linked(next, s) /\ Sorted(L, s)
  BY <1>1, WriteFacts
<1>4. Len(s) = Len(before) + Done
  <2>1. WriteOf(prio, L, before, call.es, Written(prio, L, before, call.es))
    BY <1>2, WrittenIs
  <2> QED
    BY <2>1, <1>3 DEF WriteOf
<1>5. fixFirst[L] = NULL /\ \E i \in 0..call.n : s = Written(prio, L, before, call.es)[i]
  BY <1>2, <1>3 DEF WriteState
<1>6. CASE pc \in {"null", "wCnt", "wNum", "wCall", "start", "unlock"}
  <2>1. fixStart[L] = 0 /\ Held(L, s)
    BY <1>2, <1>6 DEF WriteState
  <2> QED
    BY <1>1, <1>5, <2>1 DEF DeadWrite
<1>7. CASE pc \in {"link", "relink", "high", "give", "more", "wEnd"}
  <2>1. /\ fixStart[L] = 1 /\ (L = "gcIn" => fixCall[L] = "DUMP")
        /\ fixCnt[L] = Len(before) /\ fixNum[L] = call.n /\ cnt[L] = Len(before) + k
    BY <1>2, <1>7 DEF WriteState
  <2>2. Len(s) <= fixCnt[L] + fixNum[L]
    BY <2>1, <1>2, <1>3, <1>4
  <2>3. CASE pc = "wEnd"
    <3>1. Held(L, s) /\ k = call.n
      BY <2>3, <1>2 DEF WriteState
    <3>2. cnt[L] = fixCnt[L] + fixNum[L]
      BY <2>1, <3>1
    <3> QED
      BY <1>1, <1>5, <2>1, <2>2, <3>1, <3>2 DEF DeadWrite
  <2>4. CASE pc \in {"link", "relink", "high", "give", "more"}
    <3>1. k < call.n
      BY <2>4, <1>2 DEF WriteState
    <3>2. cnt[L] # fixCnt[L] + fixNum[L] /\ cnt[L] \in Nat
      BY <2>1, <3>1, <1>2
    <3>3. \/ s = <<>> /\ Held(L, s) /\ first[L] = NULL
          \/ s # <<>> /\ first[L] = s[1] /\ IF cnt[L] = 0 THEN Len(s) = 1 ELSE last[L] = s[Len(s)]
      <4>1. CASE pc = "link" \/ (pc = "relink" /\ cnt[L] # 0)
        <5>1. Held(L, s) /\ (s = <<>> => first[L] = NULL)
          BY <4>1, <1>2 DEF WriteState
        <5>2. s # <<>> => cnt[L] # 0 /\ first[L] = s[1] /\ last[L] = s[Len(s)]
          BY <5>1, <1>2 DEF Held, Ends
        <5> QED
          BY <5>1, <5>2
      <4>2. CASE pc = "relink" /\ cnt[L] = 0
        <5>1. s = <<E>> /\ first[L] = E
          BY <4>2, <1>2 DEF WriteState
        <5> QED
          BY <5>1, <4>2
      <4>3. CASE pc \in {"high", "give", "more"}
        <5>1. Len(s) = cnt[L] + 1 /\ Ends(L, s) /\ (cnt[L] = 0 => s = <<E>>)
          BY <4>3, <1>2 DEF WriteState
        <5>2. s # <<>>
          BY <5>1, <3>2
        <5> QED
          BY <5>1, <5>2, <3>2 DEF Ends
      <4> QED
        BY <2>4, <4>1, <4>2, <4>3
    <3> QED
      BY <1>1, <1>3, <1>5, <2>1, <2>2, <3>2, <3>3 DEF DeadWrite
  <2> QED
    BY <1>7, <2>3, <2>4
<1> QED
  BY <1>3, <1>6, <1>7 DEF WritePcs

\* The user is killed: before every store, its list is one the repair can mend.
LEMMA CrashStep ==
  ASSUME NEW now, Model(now), Crash
  PROVE  Inv'
<1>1. /\ at # "none" /\ pc # "dead" /\ ~cleanup /\ pc' = "dead"
      /\ UNCHANGED <<evVars, listVars, fixVars, userVars, call, k, before>>
  BY DEF Crash
<1>2. pc' \notin InLock /\ pc' \notin Active /\ pc' \notin Post /\ pc' \notin ReadPcs /\ pc' \notin WritePcs
  BY <1>1 DEF InLock, ReadPcs, WritePcs, Active, Post
<1>3. /\ Control /\ Outside(now) /\ Loose(now) /\ Travel(now) /\ Apart(now) /\ Free(now)
      /\ now \in [Lists -> Seq(Events)]
  BY DEF Model, Good
<1>4. call' = call /\ L' = L /\ (Reading' <=> Reading)
  BY <1>1 DEF L, Reading
<1>5. at' = at /\ cleanup' = cleanup /\ ordered' = ordered /\ put' = put /\ owner' = owner /\ lock' = lock
  BY <1>1 DEF userVars, evVars, listVars
<1>6. TypeOK'
  BY <1>1 DEF Model, TypeOK, evVars, listVars, fixVars, userVars
<1>7. Control'
  <2>1. pc' \notin {"iNext", "iPrio", "iAge", "age", "lock", "idle"}
    BY <1>1
  <2> QED
    BY <2>1, <1>1, <1>2, <1>3, <1>4, <1>5 DEF Control
<1>8. Outside(now)'
  <2>1. ordered = <<>> /\ \A e \in Events : Off(now, e) => owner[e] = "att"
    BY <1>1, <1>3 DEF Outside, Control
  <2> QED
    BY <2>1, <1>2, <1>3, <1>5 DEF Outside
<1>9. Leaving'
  BY <1>2 DEF Leaving
<1>a. Loose(now)'
  BY <1>1, <1>2 DEF Loose
<1>b. Travel(now)'
  BY <1>2, <1>3, <1>5 DEF Travel
<1>c. \A l \in Lists : Kept(l) /\ KeptEvents(now[l])
  BY <1>1 DEF Kept, KeptList, KeptEvents, evVars, listVars, fixVars
<1>d. Free(now)'
  BY <1>c, <1>5, FreeSame
<1>e. ASSUME L \in Lists, lock[L]
      PROVE  IF Reading THEN DeadRead(now[L])' ELSE DeadWrite(now[L])'
  <2>1. pc \in InLock
    BY <1>e, <1>1, <1>3 DEF Control, L
  <2>2. PICK l \in Lists, s \in Seq(Events) : l = L /\ s = now[L] /\ l = L' /\ s = now[L']
    BY <1>3, <1>4, <1>e
  <2>3. Kept(l) /\ KeptEvents(s)
    BY <2>2, <1>c
  <2>4. Held(l, s) => Held(l, s)'
    BY <2>3, HeldSame DEF Kept
  <2>5. Sorted(l, s) => Sorted(l, s)'
    <3>1. \A i \in 1..Len(s) : prio'[s[i]] = prio[s[i]]
      BY <2>3 DEF KeptEvents
    <3> QED
      BY <3>1, SortedSame
  <2>6. Linked(next, s) => Linked(next', s)
    BY <1>1 DEF evVars
  <2>7. /\ fixStart' = fixStart /\ fixFirst' = fixFirst /\ fixCall' = fixCall /\ fixCnt' = fixCnt
        /\ fixNum' = fixNum /\ cnt' = cnt /\ last' = last /\ first' = first /\ before' = before
        /\ prio' = prio /\ Rest' = Rest
    BY <1>1, <1>4 DEF evVars, listVars, fixVars, Rest
  <2>8. CASE Reading
    <3>1. DeadRead(s)
      BY <2>8, <2>1, <2>2, ReadDead
    <3>2. DeadRead(s)'
      BY <3>1, <2>2, <2>4, <2>5, <2>6, <2>7, <1>4 DEF DeadRead
    <3> QED
      BY <3>2, <2>2, <2>8
  <2>9. CASE ~Reading
    <3>1. DeadWrite(s)
      BY <2>9, <2>1, <2>2, WriteDead
    <3>2. DeadWrite(s)'
      BY <3>1, <2>2, <2>4, <2>5, <2>6, <2>7, <1>4 DEF DeadWrite
    <3> QED
      BY <3>2, <2>2, <2>9
  <2> QED
    BY <2>8, <2>9
<1>f. Locked(now)'
  BY <1>e, <1>2, <1>4, <1>5 DEF Locked, L
<1>g. Good(now)'
  BY <1>3, <1>7, <1>8, <1>9, <1>a, <1>b, <1>d, <1>f DEF Good
<1> QED
  BY <1>3, <1>6, <1>g DEF Inv

-----------------------------------------------------------------------------
(* The repair.                                                             *)

\* Different events are no more than there are.
LEMMA ShortEnough ==
  ASSUME NEW s \in Seq(Events), Distinct(s)
  PROVE  Len(s) <= NEvents
<1>1. Len(s) \in Nat /\ NEvents \in Nat /\ s \in [1..Len(s) -> Events]
  BY SeqFacts, EventNumbers
<1>2. /\ IsFiniteSet(1..Len(s)) /\ Cardinality(1..Len(s)) = Len(s)
      /\ IsFiniteSet(1..NEvents) /\ Cardinality(1..NEvents) = NEvents
  <2>1. \A n \in Nat : IsFiniteSet(1..n) /\ Cardinality(1..n) = n
    BY FS_Interval
  <2> QED
    BY <1>1, <2>1
<1>3. IsFiniteSet(Events) /\ Cardinality(Events) = NEvents
  BY <1>2 DEF Events
<1>4. ASSUME Cardinality(Events) < Cardinality(1..Len(s)) PROVE FALSE
  <2>1. \E x, y \in 1..Len(s) : x # y /\ s[x] = s[y]
    BY <1>1, <1>2, <1>3, <1>4, FS_PigeonHole
  <2> QED
    BY <2>1 DEF Distinct
<1> QED
  BY <1>1, <1>2, <1>3, <1>4

\* The list l stands for s: the repair leaves it alone, or counts and gives up
\* the events of s.
Mended(l, s) ==
  \/ UNCHANGED <<owner, first, last, cnt, lasthigh>> /\ Held(l, s)
  \/ /\ s # <<>> /\ Linked(next, s) /\ Sorted(l, s) /\ owner' = Disown(ToSet(s))
     /\ first' = [first EXCEPT ![l] = s[1]] /\ last' = [last EXCEPT ![l] = s[Len(s)]]
     /\ cnt' = [cnt EXCEPT ![l] = Len(s)]
     /\ lasthigh' = IF l \in Outputs THEN [lasthigh EXCEPT ![l] = NHigh(prio, s)] ELSE lasthigh

\* The list a dead user has locked.
LEMMA DeadFacts ==
  ASSUME NEW now, Model(now), pc = "dead", NEW l \in Lists, lock[l]
  PROVE  /\ l = L /\ L \in Lists /\ call.list = l
         /\ \A m \in Lists : lock[m] <=> m = l
         /\ now[l] \in Seq(Events) /\ Len(now[l]) \in Nat /\ Distinct(now[l])
         /\ IF Reading THEN DeadRead(now[l]) ELSE DeadWrite(now[l])
         /\ before \in Seq(Events) /\ Len(before) \in Nat
         /\ first \in [Lists -> Pointers] /\ last \in [Lists -> Pointers] /\ cnt \in [Lists -> Nat]
         /\ Reading => l \in {"gcIn", "cuIn"}
         /\ ~Reading => l # "cuIn"
         /\ call.op = "new" => l = "gcIn"
<1>1. /\ l = L /\ L \in Lists /\ call.list = l /\ \A m \in Lists : lock[m] <=> m = l
  BY DEF Model, Good, Control, L
<1>2. now[l] \in Seq(Events) /\ Len(now[l]) \in Nat /\ Distinct(now[l])
  BY NowTypes, NowDistinct DEF Model, Good
<1>3. IF Reading THEN DeadRead(now[l]) ELSE DeadWrite(now[l])
  BY <1>1 DEF Model, Good, Locked
<1>4. before \in Seq(Events) /\ Len(before) \in Nat
  BY SeqFacts DEF Model, TypeOK
<1>5. first \in [Lists -> Pointers] /\ last \in [Lists -> Pointers] /\ cnt \in [Lists -> Nat]
  BY DEF Model, TypeOK
<1>6. (Reading => l \in {"gcIn", "cuIn"}) /\ (~Reading => l # "cuIn") /\ (call.op = "new" => l = "gcIn")
  BY <1>1 DEF Model, Good, Control, Reading
<1> QED
  BY <1>1, <1>2, <1>3, <1>4, <1>5, <1>6

\* et_repair_inputlist.
LEMMA RepairReadIs ==
  ASSUME NEW now, Model(now), pc = "dead", NEW l \in Lists, lock[l], RepairRead(l),
         l = "cuIn" \/ (l = "gcIn" /\ fixCall[l] = "READ")
  PROVE  /\ Mended(l, now[l]) /\ fixStart[l] = 0 /\ fixStart' = fixStart
         /\ fixFirst' = [fixFirst EXCEPT ![l] = NULL]
<1>1. /\ l = L /\ now[l] \in Seq(Events) /\ Len(now[l]) \in Nat /\ Distinct(now[l])
      /\ IF Reading THEN DeadRead(now[l]) ELSE DeadWrite(now[l])
      /\ before \in Seq(Events) /\ Len(before) \in Nat
      /\ first \in [Lists -> Pointers] /\ last \in [Lists -> Pointers] /\ cnt \in [Lists -> Nat]
      /\ Reading => l \in {"gcIn", "cuIn"}
      /\ ~Reading => l # "cuIn"
  BY DeadFacts
<1>2. PICK s \in Seq(Events) : s = now[l] /\ Len(s) \in Nat /\ Distinct(s)
  BY <1>1
<1>3. fixFirst' = [fixFirst EXCEPT ![l] = NULL] /\ UNCHANGED <<last, lasthigh, fixStart>>
  BY DEF RepairRead
<1>4. CASE fixFirst[l] = NULL \/ cnt[l] = fixCnt[l] - fixNum[l]
  <2>1. UNCHANGED <<owner, first, cnt>>
    BY <1>4 DEF RepairRead
  <2>2. Held(l, s) /\ fixStart[l] = 0
    <3>1. CASE Reading
      <4>1. DeadRead(s)
        BY <3>1, <1>1, <1>2
      <4>2. ASSUME s = before, cnt[l] = Len(s), fixCnt[l] = Len(before), fixNum[l] = call.n,
                   fixFirst[l] = before[1], call.n \in 1..Len(before)
            PROVE  FALSE
        <5>1. before[1] # NULL
          <6>1. 1 \in 1..Len(before)
            BY <4>2, <1>1
          <6>2. before[1] \in Events
            BY <6>1, <1>1, SeqFacts
          <6> QED
            BY <6>2, EventNumbers
        <5>2. cnt[l] = Len(before) - call.n
          BY <4>2, <5>1, <1>4
        <5> QED
          BY <4>2, <5>2, <1>1
      <4> QED
        BY <4>1, <4>2, <1>1 DEF DeadRead
    <3>2. CASE ~Reading
      <4>1. DeadWrite(s) /\ l = "gcIn" /\ fixCall[l] = "READ"
        BY <3>2, <1>1, <1>2
      <4> QED
        BY <4>1, <1>1 DEF DeadWrite
    <3> QED
      BY <3>1, <3>2
  <2> QED
    BY <1>2, <1>3, <2>1, <2>2 DEF Mended
<1>5. CASE ~(fixFirst[l] = NULL \/ cnt[l] = fixCnt[l] - fixNum[l])
  <2> DEFINE es == Walk(fixFirst[l], last[l], NEvents)
  <2>1. /\ owner' = Disown(ToSet(es)) /\ first' = [first EXCEPT ![l] = fixFirst[l]]
        /\ cnt' = [cnt EXCEPT ![l] = Len(es)]
    BY <1>5 DEF RepairRead
  <2>2. /\ s = before /\ Linked(next, s) /\ Sorted(l, s) /\ last[l] = s[Len(s)]
        /\ fixFirst[l] = s[1] /\ s # <<>> /\ fixStart[l] = 0 /\ l \notin Outputs
    <3>1. Reading
      BY <1>1, <1>2, <1>5 DEF DeadWrite
    <3>2. DeadRead(s)
      BY <3>1, <1>1, <1>2
    <3>3. ~(s = Rest /\ Held(l, s) /\ fixCnt[l] = Len(before) /\ fixNum[l] = call.n /\ call.n \in 1..Len(before))
      <4> SUFFICES ASSUME s = Rest, Held(l, s), fixCnt[l] = Len(before), fixNum[l] = call.n,
                          call.n \in 1..Len(before)
                   PROVE  FALSE
        OBVIOUS
      <4>1. Len(s) = Len(before) - call.n
        <5>1. call.n \in 0..Len(before)
          BY <1>1
        <5> QED
          BY <5>1, <1>1, CutIs DEF Rest
      <4> QED
        BY <4>1, <1>5 DEF Held
    <3>4. l \notin Outputs
      BY <3>1, <1>1 DEF Outputs
    <3>5. Len(before) >= 1 /\ (s = before => s # <<>>)
      BY <3>2, <1>1 DEF DeadRead
    <3> QED
      BY <3>2, <3>3, <3>4, <3>5, <1>1, <1>5 DEF DeadRead
  <2>3. es = s
    <3>1. Len(s) <= NEvents /\ NEvents \in Nat
      BY <1>2, ShortEnough, EventNumbers
    <3> QED
      BY <3>1, <2>2, <1>2, WalkIs
  <2>4. last' = [last EXCEPT ![l] = s[Len(s)]]
    BY <1>1, <1>3, <2>2
  <2> HIDE DEF es
  <2> QED
    BY <1>2, <1>3, <2>1, <2>2, <2>3, <2>4 DEF Mended
<1> QED
  BY <1>4, <1>5

\* et_repair_outputlist and et_repair_gcinputlist.
LEMMA RepairWriteIs ==
  ASSUME NEW now, Model(now), pc = "dead", NEW l \in Lists, lock[l], RepairWrite(l),
         l # "cuIn", l = "gcIn" => fixCall[l] # "READ"
  PROVE  /\ Mended(l, now[l]) /\ fixFirst[l] = NULL /\ fixFirst' = fixFirst
         /\ fixStart' = [fixStart EXCEPT ![l] = 0]
<1>1. /\ l = L /\ now[l] \in Seq(Events) /\ Len(now[l]) \in Nat /\ Distinct(now[l])
      /\ IF Reading THEN DeadRead(now[l]) ELSE DeadWrite(now[l])
      /\ before \in Seq(Events) /\ Len(before) \in Nat
      /\ first \in [Lists -> Pointers] /\ last \in [Lists -> Pointers] /\ cnt \in [Lists -> Nat]
      /\ Reading => l \in {"gcIn", "cuIn"}
  BY DeadFacts
<1>2. PICK s \in Seq(Events) : s = now[l] /\ Len(s) \in Nat /\ Distinct(s)
  BY <1>1
<1>t. fixCnt[l] \in Nat /\ fixNum[l] \in Nat /\ cnt[l] \in Nat
  BY DEF Model, TypeOK
<1> DEFINE max == fixCnt[l] + fixNum[l]
           end == IF cnt[l] = 0 THEN first[l] ELSE last[l]
           es  == Walk(first[l], end, max)
           noop == fixStart[l] = 0 \/ cnt[l] = max \/ (cnt[l] = 0 /\ first[l] = NULL)
<1>3. fixStart' = [fixStart EXCEPT ![l] = 0] /\ UNCHANGED <<first, fixFirst>>
  BY DEF RepairWrite
<1>4. CASE Reading
  <2>1. DeadRead(s) /\ l = "gcIn" /\ fixCall[l] # "READ"
    BY <1>1, <1>2, <1>4
  <2>2. fixFirst[l] = NULL /\ Held(l, s) /\ fixStart[l] = 0
    BY <2>1, <1>1 DEF DeadRead
  <2>3. UNCHANGED <<owner, last, cnt, lasthigh>>
    BY <2>2 DEF RepairWrite
  <2> QED
    BY <1>2, <1>3, <2>2, <2>3 DEF Mended
<1>5. CASE ~Reading
  <2>1. DeadWrite(s) /\ fixFirst[l] = NULL
    BY <1>1, <1>2, <1>5 DEF DeadWrite
  <2>2. s # <<>> => s[1] # NULL
    BY <1>2, SeqFacts, EventNumbers
  <2>3. CASE noop
    <3>1. UNCHANGED <<owner, last, cnt, lasthigh>>
      BY <2>3 DEF RepairWrite
    <3>2. Held(l, s)
      <4>1. CASE fixStart[l] = 0
        BY <4>1, <2>1, <1>1 DEF DeadWrite
      <4>2. CASE cnt[l] = max
        BY <4>2, <2>1, <1>1 DEF DeadWrite
      <4>3. CASE cnt[l] = 0 /\ first[l] = NULL
        BY <4>3, <2>1, <2>2, <1>1 DEF DeadWrite
      <4> QED
        BY <2>3, <4>1, <4>2, <4>3
    <3> QED
      BY <1>2, <1>3, <2>1, <3>1, <3>2 DEF Mended
  <2>4. CASE ~noop
    <3>1. /\ owner' = Disown(ToSet(es)) /\ last' = [last EXCEPT ![l] = end]
          /\ cnt' = [cnt EXCEPT ![l] = Len(es)]
          /\ lasthigh' = IF l = "gcIn" THEN lasthigh ELSE [lasthigh EXCEPT ![l] = NHigh(prio, es)]
      BY <2>4 DEF RepairWrite
    <3>2. /\ s # <<>> /\ first[l] = s[1] /\ (IF cnt[l] = 0 THEN Len(s) = 1 ELSE last[l] = s[Len(s)])
          /\ Linked(next, s) /\ Sorted(l, s) /\ Len(s) <= max
      BY <2>1, <2>4, <1>1 DEF DeadWrite, Held
    <3>3. end = s[Len(s)]
      BY <3>2
    <3>4. max \in Nat
      BY <1>t
    <3>5. es = s
      BY <3>2, <3>3, <3>4, <1>2, WalkIs
    <3>6. first' = [first EXCEPT ![l] = s[1]]
      BY <1>1, <1>3, <3>2
    <3>7. l \in Outputs <=> l # "gcIn"
      BY DEF Lists, Outputs
    <3> HIDE DEF es, end
    <3> QED
      BY <1>2, <1>3, <2>1, <3>1, <3>2, <3>3, <3>5, <3>6, <3>7 DEF Mended
  <2> QED
    BY <2>3, <2>4
<1> QED
  BY <1>4, <1>5

\* The repair mends the list.
LEMMA RepairIs ==
  ASSUME NEW now, Model(now), pc = "dead", NEW l \in Lists, lock[l], RepairList(l)
  PROVE  /\ Mended(l, now[l]) /\ fixStart'[l] = 0 /\ fixFirst'[l] = NULL
         /\ fixStart' \in [Lists -> Nat] /\ fixFirst' \in [Lists -> Pointers]
         /\ \A m \in Lists : m # l => fixStart'[m] = fixStart[m] /\ fixFirst'[m] = fixFirst[m]
<1>1. fixStart \in [Lists -> Nat] /\ fixFirst \in [Lists -> Pointers] /\ NULL \in Pointers
  BY EventNumbers DEF Model, TypeOK
<1>2. CASE l = "cuIn" \/ (l = "gcIn" /\ fixCall[l] = "READ")
  <2>1. RepairRead(l)
    BY <1>2 DEF RepairList
  <2>2. /\ Mended(l, now[l]) /\ fixStart[l] = 0 /\ fixStart' = fixStart
        /\ fixFirst' = [fixFirst EXCEPT ![l] = NULL]
    BY <1>2, <2>1, RepairReadIs
  <2> QED
    BY <1>1, <2>2
<1>3. CASE ~(l = "cuIn" \/ (l = "gcIn" /\ fixCall[l] = "READ"))
  <2>1. RepairWrite(l)
    BY <1>3 DEF RepairList
  <2>2. /\ Mended(l, now[l]) /\ fixFirst[l] = NULL /\ fixFirst' = fixFirst
        /\ fixStart' = [fixStart EXCEPT ![l] = 0]
    BY <1>3, <2>1, RepairWriteIs
  <2> QED
    BY <1>1, <2>2
<1> QED
  BY <1>2, <1>3

\* The repaired list.
LEMMA MendedHeld ==
  ASSUME NEW now, Model(now), NEW l \in Lists, Mended(l, now[l]), next' = next, prio' = prio
  PROVE  /\ Held(l, now[l])'
         /\ \A m \in Lists : m # l => KeptList(m) /\ KeptEvents(now[m])
         /\ \A e \in Events : Off(now, e) => owner'[e] = owner[e]
         /\ owner' \in [Events -> {"sys", "att"}] /\ first' \in [Lists -> Pointers]
         /\ last' \in [Lists -> Pointers] /\ cnt' \in [Lists -> Nat] /\ lasthigh' \in [Lists -> Nat]
<1>1. /\ owner \in [Events -> {"sys", "att"}] /\ first \in [Lists -> Pointers]
      /\ last \in [Lists -> Pointers] /\ cnt \in [Lists -> Nat] /\ lasthigh \in [Lists -> Nat]
  BY DEF Model, TypeOK
<1>2. PICK s \in Seq(Events) : /\ s = now[l] /\ Len(s) \in Nat /\ DOMAIN s = 1..Len(s)
                               /\ \A i \in 1..Len(s) : s[i] \in Events
                               /\ (s = <<>> <=> Len(s) = 0)
  BY NowTypes, SeqFacts
<1>3. CASE UNCHANGED <<owner, first, last, cnt, lasthigh>> /\ Held(l, s)
  <2>1. \A m \in Lists : KeptList(m) /\ KeptEvents(now[m])
    BY <1>3 DEF KeptList, KeptEvents
  <2>2. Held(l, s)'
    BY <1>2, <1>3, <2>1, HeldSame
  <2> QED
    BY <1>1, <1>2, <1>3, <2>1, <2>2
<1>4. CASE /\ s # <<>> /\ Linked(next, s) /\ Sorted(l, s) /\ owner' = Disown(ToSet(s))
           /\ first' = [first EXCEPT ![l] = s[1]] /\ last' = [last EXCEPT ![l] = s[Len(s)]]
           /\ cnt' = [cnt EXCEPT ![l] = Len(s)]
           /\ lasthigh' = IF l \in Outputs THEN [lasthigh EXCEPT ![l] = NHigh(prio, s)] ELSE lasthigh
  <2>1. Len(s) >= 1 /\ s[1] \in Pointers /\ s[Len(s)] \in Pointers
    <3>1. Len(s) >= 1 /\ 1 \in 1..Len(s) /\ Len(s) \in 1..Len(s)
      BY <1>2, <1>4
    <3> QED
      BY <3>1, <1>2, EventNumbers
  <2>2. NHigh(prio, s) \in 0..Len(s) /\ NHigh(prio, s) \in Nat
    BY <1>2, NHighBounded
  <2>3. /\ first' \in [Lists -> Pointers] /\ last' \in [Lists -> Pointers] /\ cnt' \in [Lists -> Nat]
        /\ lasthigh' \in [Lists -> Nat]
    BY <1>1, <1>2, <1>4, <2>1, <2>2
  <2>4. ToSet(s) = {s[i] : i \in 1..Len(s)}
    BY <1>2 DEF ToSet
  <2>5. /\ owner' \in [Events -> {"sys", "att"}]
        /\ \A e \in Events : owner'[e] = IF e \in ToSet(s) THEN "sys" ELSE owner[e]
    BY <1>1, <1>4 DEF Disown
  <2>6. \A e \in Events : Off(now, e) => owner'[e] = owner[e]
    BY <1>2, <2>4, <2>5 DEF Off
  <2>7. ASSUME NEW m \in Lists, m # l PROVE KeptList(m) /\ KeptEvents(now[m])
    <3>1. KeptList(m)
      BY <1>1, <1>4, <2>7 DEF KeptList
    <3>2. ASSUME NEW i \in 1..Len(now[m]) PROVE owner'[now[m][i]] = owner[now[m][i]]
      <4>1. now[m][i] \in Events
        BY NowTypes
      <4>2. ASSUME NEW j \in 1..Len(s) PROVE now[m][i] # s[j]
        BY <1>2, <2>7, OnePlace DEF Model, Good
      <4> QED
        BY <4>1, <4>2, <2>4, <2>5
    <3> QED
      BY <3>1, <3>2 DEF KeptEvents
  <2>8. Held(l, s)'
    <3>1. /\ first'[l] = s[1] /\ last'[l] = s[Len(s)] /\ cnt'[l] = Len(s)
          /\ (l \in Outputs => lasthigh'[l] = NHigh(prio, s))
      BY <1>1, <1>4
    <3>2. Given(s)'
      BY <1>2, <2>4, <2>5 DEF Given
    <3>3. Sorted(l, s)'
      BY <1>4, SortedSame
    <3>4. Counted(l, s)'
      <4> SUFFICES ASSUME l \in Outputs PROVE Ranks(s, lasthigh[l])'
        BY DEF Counted
      <4>1. l # "gcIn"
        BY DEF Outputs
      <4>2. PICK h \in Nat : Ranks(s, h)
        BY <4>1, <1>4 DEF Sorted
      <4>3. NHigh(prio, s) = h
        BY <4>2, <1>2, NHighIs DEF Ranks, IsHigh
      <4>4. lasthigh'[l] = h
        BY <3>1, <4>3
      <4> QED
        BY <4>2, <4>4 DEF Ranks, IsHigh
    <3> QED
      BY <1>4, <3>1, <3>2, <3>3, <3>4 DEF Held, Ends
  <2> QED
    BY <1>2, <2>3, <2>5, <2>6, <2>7, <2>8
<1> QED
  BY <1>2, <1>3, <1>4 DEF Mended

\* The repair as a whole.
LEMMA RepairEnd ==
  ASSUME NEW now, Model(now), pc = "dead", pc' = "idle", call' = NoCall, k' = 0, before' = <<>>,
         cleanup' = TRUE, UNCHANGED <<next, prio, age, fixCnt, fixNum, fixCall, at, put, calls, ordered>>,
         owner' \in [Events -> {"sys", "att"}], first' \in [Lists -> Pointers],
         last' \in [Lists -> Pointers], cnt' \in [Lists -> Nat], lasthigh' \in [Lists -> Nat],
         lock' \in [Lists -> BOOLEAN], fixStart' \in [Lists -> Nat], fixFirst' \in [Lists -> Pointers],
         \A l \in Lists : ~lock'[l], Free(now)',
         \A e \in Events : Off(now, e) => owner'[e] = owner[e]
  PROVE  Inv'
<1>1. /\ pc' \notin InLock \cup {"dead", "lock"} /\ pc' \notin Active /\ pc' \notin Post
      /\ pc \notin InLock \cup {"lock"}
      /\ pc' \notin ReadPcs \cup WritePcs \cup {"iNext", "iPrio", "iAge", "age", "lock"}
  BY DEF InLock, ReadPcs, WritePcs, Active, Post
<1>2. /\ Control /\ Outside(now) /\ Travel(now) /\ Apart(now) /\ now \in [Lists -> Seq(Events)]
      /\ at # "none"
  BY DEF Model, Good, Control
<1>3. call'.op = "none" /\ call'.list = "none" /\ call'.one = FALSE /\ call'.es = <<>> /\ call'.n = 0
  BY DEF NoCall
<1>4. TypeOK'
  <2>1. call' \in [op : Ops, list : Lists \cup {"none"}, es : Seq(Events), n : Nat, one : BOOLEAN]
    BY DEF NoCall, Ops
  <2>2. before' \in Seq(Events) /\ k' \in Nat /\ cleanup' \in BOOLEAN
    OBVIOUS
  <2> QED
    BY <2>1, <2>2 DEF Model, TypeOK
<1>5. Control'
  <2>1. ~Reading'
    BY <1>3 DEF Reading
  <2> QED
    BY <2>1, <1>1, <1>2, <1>3 DEF Control
<1>6. Outside(now)'
  <2>1. ordered = <<>> /\ \A e \in Events : Off(now, e) => owner[e] = "att"
    BY <1>1, <1>2 DEF Outside, Control
  <2> QED
    BY <2>1, <1>1, <1>2 DEF Outside
<1>7. Leaving'
  BY <1>1 DEF Leaving
<1>8. Loose(now)'
  BY <1>1 DEF Loose, Active, Post
<1>9. Travel(now)'
  BY <1>1, <1>2 DEF Travel
<1>a. Locked(now)'
  BY <1>1 DEF Locked
<1>b. Good(now)'
  BY <1>2, <1>5, <1>6, <1>7, <1>8, <1>9, <1>a DEF Good
<1> QED
  BY <1>2, <1>4, <1>b DEF Inv

\* The heart monitor repairs the list the user held.
LEMMA RepairStep ==
  ASSUME NEW now, Model(now), Repair
  PROVE  Inv'
<1>1. /\ pc = "dead" /\ pc' = "idle" /\ call' = NoCall /\ k' = 0 /\ before' = <<>>
      /\ cleanup' = TRUE /\ UNCHANGED <<next, prio, age, fixCnt, fixNum, fixCall, at, put, calls, ordered>>
  BY DEF Repair
<1>2. CASE /\ \A l \in Lists : ~lock[l]
           /\ UNCHANGED <<listVars, owner, fixStart, fixFirst>>
  <2>1. \A l \in Lists : ~lock'[l] /\ Kept(l) /\ KeptEvents(now[l])
    BY <1>1, <1>2 DEF Kept, KeptList, KeptEvents, listVars
  <2>2. Free(now)'
    BY <1>2, <2>1, FreeSame
  <2>3. /\ owner' \in [Events -> {"sys", "att"}] /\ first' \in [Lists -> Pointers]
        /\ last' \in [Lists -> Pointers] /\ cnt' \in [Lists -> Nat] /\ lasthigh' \in [Lists -> Nat]
        /\ lock' \in [Lists -> BOOLEAN] /\ fixStart' \in [Lists -> Nat] /\ fixFirst' \in [Lists -> Pointers]
    BY <1>2 DEF listVars, Model, TypeOK
  <2> QED
    BY <1>1, <1>2, <2>1, <2>2, <2>3, RepairEnd
<1>3. ASSUME NEW l \in Lists, lock[l], RepairList(l), lock' = [lock EXCEPT ![l] = FALSE]
      PROVE  Inv'
  <2>1. /\ Mended(l, now[l]) /\ fixStart'[l] = 0 /\ fixFirst'[l] = NULL
        /\ fixStart' \in [Lists -> Nat] /\ fixFirst' \in [Lists -> Pointers]
        /\ \A m \in Lists : m # l => fixStart'[m] = fixStart[m] /\ fixFirst'[m] = fixFirst[m]
    BY <1>1, <1>3, RepairIs
  <2>2. /\ Held(l, now[l])'
        /\ \A m \in Lists : m # l => KeptList(m) /\ KeptEvents(now[m])
        /\ \A e \in Events : Off(now, e) => owner'[e] = owner[e]
        /\ owner' \in [Events -> {"sys", "att"}] /\ first' \in [Lists -> Pointers]
        /\ last' \in [Lists -> Pointers] /\ cnt' \in [Lists -> Nat] /\ lasthigh' \in [Lists -> Nat]
    BY <1>1, <2>1, MendedHeld
  <2>3. \A m \in Lists : lock[m] <=> m = l
    BY <1>1, <1>3, DeadFacts
  <2>4. lock' \in [Lists -> BOOLEAN] /\ \A m \in Lists : ~lock'[m]
    BY <1>3, <2>3 DEF Model, TypeOK
  <2>5. Free(now)'
    <3> SUFFICES ASSUME NEW m \in Lists
                 PROVE  Held(m, now[m])' /\ fixStart'[m] = 0 /\ fixFirst'[m] = NULL
      BY Zenon DEF Free
    <3>1. CASE m = l
      BY <3>1, <2>1, <2>2
    <3>2. CASE m # l
      <4>1. Held(m, now[m]) /\ fixStart[m] = 0 /\ fixFirst[m] = NULL /\ now[m] \in Seq(Events)
        BY <3>2, <2>3, ContentsNow, NowTypes
      <4>2. Held(m, now[m])'
        BY <4>1, <3>2, <2>2, HeldSame
      <4> QED
        BY <4>1, <4>2, <3>2, <2>1
    <3> QED
      BY <3>1, <3>2
  <2> QED
    BY <1>1, <2>1, <2>2, <2>4, <2>5, RepairEnd
<1> QED
  BY <1>2, <1>3 DEF Repair

-----------------------------------------------------------------------------
(* The conductors.                                                         *)

\* The first h events of es behind the first oh of old, the others at the end.
Merged(old, oh, es, h) ==
  [i \in 1..(Len(old) + Len(es)) |->
     IF i <= oh THEN old[i] ELSE IF i <= oh + h THEN es[i - oh]
     ELSE IF i <= Len(old) + h THEN old[i - h] ELSE es[i - Len(old)]]

OldAt(oh, h, j)      == IF j <= oh THEN j ELSE j + h
NewAt(old, oh, h, j) == IF j <= h THEN j + oh ELSE j + Len(old)

MergeOf(old, oh, es, h, m) ==
  /\ m \in Seq(Events) /\ Len(m) = Len(old) + Len(es) /\ Len(m) \in Nat
  /\ \A i \in 1..Len(m) : m[i] = IF i <= oh THEN old[i] ELSE IF i <= oh + h THEN es[i - oh]
                                 ELSE IF i <= Len(old) + h THEN old[i - h] ELSE es[i - Len(old)]

\* Where the events of Merged come from: by position,
LEMMA MergedIs ==
  ASSUME NEW old \in Seq(Events), NEW es \in Seq(Events), NEW oh \in 0..Len(old), NEW h \in 0..Len(es),
         NEW m, m = Merged(old, oh, es, h)
  PROVE  MergeOf(old, oh, es, h, m)
<1>1. Len(old) \in Nat /\ Len(es) \in Nat /\ oh \in Nat /\ h \in Nat
  BY SeqFacts
<1>2. \A i \in 1..Len(old) : old[i] \in Events
  BY SeqFacts
<1>3. \A i \in 1..Len(es) : es[i] \in Events
  BY SeqFacts
<1>4. m \in [1..(Len(old) + Len(es)) -> Events]
  <2>1. ASSUME NEW i \in 1..(Len(old) + Len(es))
        PROVE  (IF i <= oh THEN old[i] ELSE IF i <= oh + h THEN es[i - oh]
                ELSE IF i <= Len(old) + h THEN old[i - h] ELSE es[i - Len(old)]) \in Events
    <3>1. CASE i <= oh
      BY <3>1, <1>1, <1>2
    <3>2. CASE ~(i <= oh) /\ i <= oh + h
      <4>1. i - oh \in 1..Len(es)
        BY <3>2, <1>1
      <4> QED
        BY <4>1, <3>2, <1>3
    <3>3. CASE ~(i <= oh) /\ ~(i <= oh + h) /\ i <= Len(old) + h
      <4>1. i - h \in 1..Len(old)
        BY <3>3, <1>1
      <4> QED
        BY <4>1, <3>3, <1>2
    <3>4. CASE ~(i <= oh) /\ ~(i <= oh + h) /\ ~(i <= Len(old) + h)
      <4>1. i - Len(old) \in 1..Len(es)
        BY <3>4, <1>1
      <4> QED
        BY <4>1, <3>4, <1>3
    <3> QED
      BY <3>1, <3>2, <3>3, <3>4
  <2> QED
    BY <2>1 DEF Merged
<1>5. Len(old) + Len(es) \in Nat
  BY <1>1
<1>6. m \in Seq(Events) /\ Len(m) = Len(old) + Len(es)
  BY <1>4, <1>5, SeqOfFunction
<1> QED
  BY <1>5, <1>6 DEF Merged, MergeOf

\* Where its events come from.
MergeFrom(old, oh, es, h, m) ==
  /\ \A i \in 1..Len(m) : \/ \E j \in 1..Len(old) : m[i] = old[j] /\ i = OldAt(oh, h, j)
                          \/ \E j \in 1..Len(es) : m[i] = es[j] /\ i = NewAt(old, oh, h, j)
  /\ \A j \in 1..Len(old) : OldAt(oh, h, j) \in 1..Len(m) /\ m[OldAt(oh, h, j)] = old[j]
  /\ \A j \in 1..Len(es) : NewAt(old, oh, h, j) \in 1..Len(m) /\ m[NewAt(old, oh, h, j)] = es[j]

\* and by event.
LEMMA MergedFrom ==
  ASSUME NEW old \in Seq(Events), NEW es \in Seq(Events), NEW oh \in 0..Len(old), NEW h \in 0..Len(es),
         NEW m, m = Merged(old, oh, es, h)
  PROVE  MergeFrom(old, oh, es, h, m)
<1>1. Len(old) \in Nat /\ Len(es) \in Nat /\ oh \in Nat /\ h \in Nat /\ oh <= Len(old) /\ h <= Len(es)
  BY SeqFacts
<1>2. /\ Len(m) = Len(old) + Len(es)
      /\ \A i \in 1..Len(m) : m[i] = IF i <= oh THEN old[i] ELSE IF i <= oh + h THEN es[i - oh]
                                     ELSE IF i <= Len(old) + h THEN old[i - h] ELSE es[i - Len(old)]
  <2>1. MergeOf(old, oh, es, h, m)
    BY MergedIs
  <2> QED
    BY <2>1 DEF MergeOf
<1>3. ASSUME NEW i \in 1..Len(m)
      PROVE  \/ \E j \in 1..Len(old) : m[i] = old[j] /\ i = OldAt(oh, h, j)
             \/ \E j \in 1..Len(es) : m[i] = es[j] /\ i = NewAt(old, oh, h, j)
  <2>1. CASE i <= oh
    <3>1. i \in 1..Len(old) /\ m[i] = old[i] /\ i = OldAt(oh, h, i)
      BY <2>1, <1>1, <1>2 DEF OldAt
    <3> QED
      BY <3>1
  <2>2. CASE ~(i <= oh) /\ i <= oh + h
    <3>1. i - oh \in 1..Len(es) /\ m[i] = es[i - oh] /\ i = NewAt(old, oh, h, i - oh)
      BY <2>2, <1>1, <1>2 DEF NewAt
    <3> QED
      BY <3>1
  <2>3. CASE ~(i <= oh) /\ ~(i <= oh + h) /\ i <= Len(old) + h
    <3>1. i - h \in 1..Len(old) /\ m[i] = old[i - h] /\ i = OldAt(oh, h, i - h)
      BY <2>3, <1>1, <1>2 DEF OldAt
    <3> QED
      BY <3>1
  <2>4. CASE ~(i <= oh) /\ ~(i <= oh + h) /\ ~(i <= Len(old) + h)
    <3>1. i - Len(old) \in 1..Len(es) /\ m[i] = es[i - Len(old)] /\ i = NewAt(old, oh, h, i - Len(old))
      BY <2>4, <1>1, <1>2 DEF NewAt
    <3> QED
      BY <3>1
  <2> QED
    BY <2>1, <2>2, <2>3, <2>4
<1>4. ASSUME NEW j \in 1..Len(old) PROVE OldAt(oh, h, j) \in 1..Len(m) /\ m[OldAt(oh, h, j)] = old[j]
  <2>1. OldAt(oh, h, j) \in 1..Len(m)
    BY <1>1, <1>2 DEF OldAt
  <2>2. CASE j <= oh
    BY <2>1, <2>2, <1>1, <1>2 DEF OldAt
  <2>3. CASE ~(j <= oh)
    <3>1. OldAt(oh, h, j) = j + h /\ ~(j + h <= oh) /\ ~(j + h <= oh + h) /\ j + h <= Len(old) + h
          /\ j + h - h = j
      BY <2>3, <1>1 DEF OldAt
    <3> QED
      BY <3>1, <2>1, <1>2
  <2> QED
    BY <2>1, <2>2, <2>3
<1>5. ASSUME NEW j \in 1..Len(es)
      PROVE  NewAt(old, oh, h, j) \in 1..Len(m) /\ m[NewAt(old, oh, h, j)] = es[j]
  <2>1. NewAt(old, oh, h, j) \in 1..Len(m)
    BY <1>1, <1>2 DEF NewAt
  <2>2. CASE j <= h
    <3>1. NewAt(old, oh, h, j) = j + oh /\ ~(j + oh <= oh) /\ j + oh <= oh + h /\ j + oh - oh = j
      BY <2>2, <1>1 DEF NewAt
    <3> QED
      BY <3>1, <2>1, <1>2
  <2>3. CASE ~(j <= h)
    <3>1. /\ NewAt(old, oh, h, j) = j + Len(old) /\ ~(j + Len(old) <= oh) /\ ~(j + Len(old) <= oh + h)
          /\ ~(j + Len(old) <= Len(old) + h) /\ j + Len(old) - Len(old) = j
      BY <2>3, <1>1 DEF NewAt
    <3> QED
      BY <3>1, <2>1, <1>2
  <2> QED
    BY <2>1, <2>2, <2>3
<1> QED
  BY <1>3, <1>4, <1>5 DEF MergeFrom

\* The pointers that make one list of the two.
Spliced(nx, old, oh, es, h) ==
  /\ \A i \in 1..(Len(old) - 1) : i # oh \/ h = 0 => nx[old[i]] = old[i + 1]
  /\ \A i \in 1..(Len(es) - 1) : i # h \/ oh = Len(old) => nx[es[i]] = es[i + 1]
  /\ oh >= 1 /\ h >= 1 => nx[old[oh]] = es[1]
  /\ h >= 1 /\ oh < Len(old) => nx[es[h]] = old[oh + 1]
  /\ h < Len(es) /\ Len(old) >= 1 /\ (oh < Len(old) \/ h = 0) => nx[old[Len(old)]] = es[h + 1]

\* Merged is linked when its pieces are.
LEMMA MergedLinked ==
  ASSUME NEW old \in Seq(Events), NEW es \in Seq(Events), NEW oh \in 0..Len(old), NEW h \in 0..Len(es),
         NEW m, m = Merged(old, oh, es, h), NEW nx, Spliced(nx, old, oh, es, h)
  PROVE  Linked(nx, m)
<1>1. Len(old) \in Nat /\ Len(es) \in Nat /\ oh \in Nat /\ h \in Nat /\ oh <= Len(old) /\ h <= Len(es)
  BY SeqFacts
<1>2. /\ Len(m) = Len(old) + Len(es)
      /\ \A i \in 1..Len(m) : m[i] = IF i <= oh THEN old[i] ELSE IF i <= oh + h THEN es[i - oh]
                                     ELSE IF i <= Len(old) + h THEN old[i - h] ELSE es[i - Len(old)]
  <2>1. MergeOf(old, oh, es, h, m)
    BY MergedIs
  <2> QED
    BY <2>1 DEF MergeOf
<1> SUFFICES ASSUME NEW i \in 1..(Len(m) - 1) PROVE nx[m[i]] = m[i + 1]
  BY DEF Linked
<1>3. i \in 1..Len(m) /\ i + 1 \in 1..Len(m) /\ i \in Nat
  BY <1>1, <1>2
<1>4. m[i + 1] = IF i + 1 <= oh THEN old[i + 1] ELSE IF i + 1 <= oh + h THEN es[i + 1 - oh]
                 ELSE IF i + 1 <= Len(old) + h THEN old[i + 1 - h] ELSE es[i + 1 - Len(old)]
  BY <1>2, <1>3
<1>5. m[i] = IF i <= oh THEN old[i] ELSE IF i <= oh + h THEN es[i - oh]
             ELSE IF i <= Len(old) + h THEN old[i - h] ELSE es[i - Len(old)]
  BY <1>2, <1>3
<1>6. CASE i < oh
  <2>1. i \in 1..(Len(old) - 1) /\ i # oh /\ m[i] = old[i] /\ m[i + 1] = old[i + 1]
    BY <1>1, <1>3, <1>4, <1>5, <1>6
  <2> QED
    BY <2>1 DEF Spliced
<1>7. CASE i = oh
  <2>1. m[i] = old[oh] /\ oh >= 1
    BY <1>1, <1>3, <1>5, <1>7
  <2>2. CASE h >= 1
    <3>1. m[i + 1] = es[1]
      BY <1>1, <1>3, <1>4, <1>7, <2>2
    <3> QED
      BY <2>1, <2>2, <3>1 DEF Spliced
  <2>3. CASE h = 0 /\ oh < Len(old)
    <3>1. m[i + 1] = old[oh + 1] /\ oh \in 1..(Len(old) - 1)
      BY <1>1, <1>3, <1>4, <1>7, <2>1, <2>3
    <3> QED
      BY <2>1, <2>3, <3>1 DEF Spliced
  <2>4. CASE h = 0 /\ oh = Len(old)
    <3>1. m[i + 1] = es[h + 1] /\ h < Len(es) /\ Len(old) >= 1
      BY <1>1, <1>2, <1>3, <1>4, <1>7, <2>1, <2>4
    <3> QED
      BY <2>1, <2>4, <3>1 DEF Spliced
  <2> QED
    BY <1>1, <2>2, <2>3, <2>4
<1>8. CASE oh < i /\ i < oh + h
  <2>1. /\ m[i] = es[i - oh] /\ m[i + 1] = es[(i - oh) + 1]
        /\ i - oh \in 1..(Len(es) - 1) /\ i - oh # h
    <3>1. ~(i <= oh) /\ i <= oh + h /\ ~(i + 1 <= oh) /\ i + 1 <= oh + h /\ i + 1 - oh = (i - oh) + 1
      BY <1>1, <1>3, <1>8
    <3>2. i - oh \in 1..(Len(es) - 1) /\ i - oh # h
      BY <1>1, <1>3, <1>8
    <3> QED
      BY <3>1, <3>2, <1>4, <1>5
  <2> QED
    BY <2>1 DEF Spliced
<1>9. CASE oh < i /\ i = oh + h
  <2>1. m[i] = es[h] /\ h >= 1
    <3>1. ~(i <= oh) /\ i <= oh + h /\ i - oh = h /\ h >= 1
      BY <1>1, <1>3, <1>9
    <3> QED
      BY <3>1, <1>5
  <2>2. CASE oh < Len(old)
    <3>1. ~(i + 1 <= oh) /\ ~(i + 1 <= oh + h) /\ i + 1 <= Len(old) + h /\ i + 1 - h = oh + 1
      BY <1>1, <1>3, <1>9, <2>2
    <3>2. m[i + 1] = old[oh + 1]
      BY <3>1, <1>4
    <3> QED
      BY <2>1, <2>2, <3>2 DEF Spliced
  <2>3. CASE oh = Len(old)
    <3>1. /\ ~(i + 1 <= oh) /\ ~(i + 1 <= oh + h) /\ ~(i + 1 <= Len(old) + h) /\ i + 1 - Len(old) = h + 1
          /\ h \in 1..(Len(es) - 1)
      BY <1>1, <1>2, <1>3, <1>9, <2>1, <2>3
    <3>2. m[i + 1] = es[h + 1]
      BY <3>1, <1>4
    <3> QED
      BY <2>1, <2>3, <3>1, <3>2 DEF Spliced
  <2> QED
    BY <1>1, <2>2, <2>3
<1>a. CASE oh + h < i /\ i < Len(old) + h
  <2>1. /\ ~(i <= oh) /\ ~(i <= oh + h) /\ i <= Len(old) + h
        /\ ~(i + 1 <= oh) /\ ~(i + 1 <= oh + h) /\ i + 1 <= Len(old) + h /\ i + 1 - h = (i - h) + 1
        /\ i - h \in 1..(Len(old) - 1) /\ i - h # oh
    BY <1>1, <1>3, <1>a
  <2>2. m[i] = old[i - h] /\ m[i + 1] = old[(i - h) + 1]
    BY <2>1, <1>4, <1>5
  <2> QED
    BY <2>1, <2>2 DEF Spliced
<1>b. CASE oh + h < i /\ i = Len(old) + h
  <2>1. /\ ~(i <= oh) /\ ~(i <= oh + h) /\ i <= Len(old) + h /\ i - h = Len(old)
        /\ ~(i + 1 <= oh) /\ ~(i + 1 <= oh + h) /\ ~(i + 1 <= Len(old) + h) /\ i + 1 - Len(old) = h + 1
        /\ h < Len(es) /\ Len(old) >= 1 /\ oh < Len(old)
    BY <1>1, <1>2, <1>3, <1>b
  <2>2. m[i] = old[Len(old)] /\ m[i + 1] = es[h + 1]
    BY <2>1, <1>4, <1>5
  <2> QED
    BY <2>1, <2>2 DEF Spliced
<1>c. CASE oh + h < i /\ Len(old) + h < i
  <2>1. /\ ~(i <= oh) /\ ~(i <= oh + h) /\ ~(i <= Len(old) + h)
        /\ ~(i + 1 <= oh) /\ ~(i + 1 <= oh + h) /\ ~(i + 1 <= Len(old) + h)
        /\ i + 1 - Len(old) = (i - Len(old)) + 1
        /\ i - Len(old) \in 1..(Len(es) - 1) /\ i - Len(old) # h
    BY <1>1, <1>2, <1>3, <1>c
  <2>2. m[i] = es[i - Len(old)] /\ m[i + 1] = es[(i - Len(old)) + 1]
    BY <2>1, <1>4, <1>5
  <2> QED
    BY <2>1, <2>2 DEF Spliced
<1> QED
  BY <1>1, <1>3, <1>6, <1>7, <1>8, <1>9, <1>a, <1>b, <1>c

\* High priority first in both lists: also in the merged one.
LEMMA MergedRanks ==
  ASSUME NEW old \in Seq(Events), NEW es \in Seq(Events), NEW oh, NEW h, Ranks(old, oh), Ranks(es, h),
         NEW m, m = Merged(old, oh, es, h)
  PROVE  Ranks(m, oh + h)
<1>1. Len(old) \in Nat /\ Len(es) \in Nat /\ oh \in Nat /\ h \in Nat /\ oh <= Len(old) /\ h <= Len(es)
      /\ oh \in 0..Len(old) /\ h \in 0..Len(es)
  BY SeqFacts DEF Ranks
<1>2. MergeOf(old, oh, es, h, m)
  BY <1>1, MergedIs
<1>3. ASSUME NEW i \in 1..Len(m) PROVE IsHigh(m[i]) <=> i <= oh + h
  <2>0. Len(m) = Len(old) + Len(es)
    BY <1>2 DEF MergeOf
  <2>1. CASE i <= oh
    <3>1. m[i] = old[i] /\ i \in 1..Len(old)
      BY <2>0, <2>1, <1>1, <1>2 DEF MergeOf
    <3>2. IsHigh(old[i])
      BY <3>1, <2>1 DEF Ranks
    <3> QED
      BY <3>1, <3>2, <2>1, <1>1
  <2>2. CASE ~(i <= oh) /\ i <= oh + h
    <3>1. m[i] = es[i - oh] /\ i - oh \in 1..Len(es) /\ i - oh <= h
      BY <2>0, <2>2, <1>1, <1>2 DEF MergeOf
    <3>2. IsHigh(es[i - oh])
      BY <3>1 DEF Ranks
    <3> QED
      BY <3>1, <3>2, <2>2
  <2>3. CASE ~(i <= oh) /\ ~(i <= oh + h) /\ i <= Len(old) + h
    <3>1. m[i] = old[i - h] /\ i - h \in 1..Len(old) /\ ~(i - h <= oh)
      BY <2>0, <2>3, <1>1, <1>2 DEF MergeOf
    <3>2. ~IsHigh(old[i - h])
      BY <3>1 DEF Ranks
    <3> QED
      BY <3>1, <3>2, <2>3
  <2>4. CASE ~(i <= oh) /\ ~(i <= oh + h) /\ ~(i <= Len(old) + h)
    <3>1. m[i] = es[i - Len(old)] /\ i - Len(old) \in 1..Len(es) /\ ~(i - Len(old) <= h)
      BY <2>0, <2>4, <1>1, <1>2 DEF MergeOf
    <3>2. ~IsHigh(es[i - Len(old)])
      BY <3>1 DEF Ranks
    <3> QED
      BY <3>1, <3>2, <2>4
  <2> QED
    BY <2>1, <2>2, <2>3, <2>4
<1>4. oh + h \in 0..Len(m)
  BY <1>1, <1>2 DEF MergeOf
<1> QED
  BY <1>3, <1>4 DEF Ranks

\* Its first and its last event.
FirstOf(old, oh, es, h) == IF Len(old) = 0 \/ (oh = 0 /\ h > 0) THEN es[1] ELSE old[1]
LastOf(old, oh, es, h)  == IF Len(old) = 0 \/ h < Len(es) \/ oh = Len(old) THEN es[Len(es)]
                           ELSE old[Len(old)]

\* Its first and its last event.
LEMMA MergedEnds ==
  ASSUME NEW old \in Seq(Events), NEW es \in Seq(Events), NEW oh \in 0..Len(old), NEW h \in 0..Len(es),
         es # <<>>, NEW m, m = Merged(old, oh, es, h)
  PROVE  m # <<>> /\ m[1] = FirstOf(old, oh, es, h) /\ m[Len(m)] = LastOf(old, oh, es, h)
<1>1. Len(old) \in Nat /\ Len(es) \in Nat /\ oh \in Nat /\ h \in Nat /\ oh <= Len(old) /\ h <= Len(es)
      /\ Len(es) >= 1
  BY SeqFacts
<1>2. MergeOf(old, oh, es, h, m)
  BY MergedIs
<1>3. Len(m) = Len(old) + Len(es) /\ m \in Seq(Events)
  BY <1>2 DEF MergeOf
<1>4. 1 \in 1..Len(m) /\ Len(m) \in 1..Len(m) /\ m # <<>>
  BY <1>1, <1>3
<1>5. m[1] = IF 1 <= oh THEN old[1] ELSE IF 1 <= oh + h THEN es[1 - oh]
             ELSE IF 1 <= Len(old) + h THEN old[1 - h] ELSE es[1 - Len(old)]
  BY <1>2, <1>4 DEF MergeOf
<1>6. m[Len(m)] = IF Len(m) <= oh THEN old[Len(m)] ELSE IF Len(m) <= oh + h THEN es[Len(m) - oh]
                  ELSE IF Len(m) <= Len(old) + h THEN old[Len(m) - h] ELSE es[Len(m) - Len(old)]
  BY <1>2, <1>4 DEF MergeOf
<1>7. m[1] = FirstOf(old, oh, es, h)
  BY <1>1, <1>5 DEF FirstOf
<1>8. m[Len(m)] = LastOf(old, oh, es, h)
  BY <1>1, <1>3, <1>6 DEF LastOf
<1> QED
  BY <1>4, <1>7, <1>8

\* Strung together, pointers that are right already stay as they are.
Piece(nx, es, a, n, s) ==
  /\ a + n <= Len(es) /\ Len(s) = n /\ \A i \in 1..n : s[i] = es[a + i]
  /\ \A i \in (a + 1)..(a + n - 1) : nx[es[i]] = es[i + 1]

\* Stringing together a piece of a linked list changes nothing.
LEMMA PieceSame ==
  ASSUME NEW nx \in [Events -> Pointers], NEW es \in Seq(Events), Distinct(es),
         NEW a \in Nat, NEW n \in Nat, NEW s \in Seq(Events), Piece(nx, es, a, n, s)
  PROVE  String(nx, s) = nx
<1>1. Len(es) \in Nat
  BY SeqFacts
<1>p. /\ a + n <= Len(es) /\ Len(s) = n /\ \A i \in 1..n : s[i] = es[a + i]
      /\ \A i \in (a + 1)..(a + n - 1) : nx[es[i]] = es[i + 1]
  BY DEF Piece
<1>2. Distinct(s)
  <2> SUFFICES ASSUME NEW i \in 1..n, NEW j \in 1..n, s[i] = s[j] PROVE i = j
    BY <1>p DEF Distinct
  <2>1. a + i \in 1..Len(es) /\ a + j \in 1..Len(es) /\ es[a + i] = es[a + j]
    BY <1>1, <1>p
  <2>2. a + i = a + j
    BY <2>1 DEF Distinct
  <2> QED
    BY <2>2
<1>3. Linked(nx, s)
  <2> SUFFICES ASSUME NEW i \in 1..(n - 1) PROVE nx[s[i]] = s[i + 1]
    BY <1>p DEF Linked
  <2>1. i \in 1..n /\ i + 1 \in 1..n /\ a + i \in (a + 1)..(a + n - 1) /\ a + (i + 1) = (a + i) + 1
    OBVIOUS
  <2>2. s[i] = es[a + i] /\ s[i + 1] = es[a + (i + 1)] /\ nx[es[a + i]] = es[(a + i) + 1]
    BY <2>1, <1>p
  <2> QED
    BY <2>1, <2>2
<1> QED
  BY <1>2, <1>3, StringSame

\* The pointers after es is inserted into old.
InsertedPointers(nx, old, oh, es, h) ==
  LET low == IF oh = 0 THEN old[1] ELSE nx[old[oh]]
      end == IF oh = Len(old) THEN es[h] ELSE old[Len(old)]
      n1  == [nx EXCEPT ![es[h]] = low]
      n2  == IF oh = 0 THEN n1 ELSE [n1 EXCEPT ![old[oh]] = es[1]]
  IN  IF h = Len(es) THEN n2 ELSE [n2 EXCEPT ![end] = es[h + 1]]

\* They change only in the two lists.
Touches(nx, ny, old, es) ==
  \A x \in Events : (\A i \in 1..Len(old) : old[i] # x) /\ (\A i \in 1..Len(es) : es[i] # x) => ny[x] = nx[x]

\* The pointers LLInsert writes.
LEMMA InsertSplices ==
  ASSUME NEW nx \in [Events -> Pointers], NEW old \in Seq(Events), NEW es \in Seq(Events),
         Distinct(old), Distinct(es), \A i \in 1..Len(old), j \in 1..Len(es) : old[i] # es[j],
         Linked(nx, old), Linked(nx, es), NEW oh \in 0..Len(old), NEW h \in 1..Len(es), Len(old) >= 1,
         NEW ny, ny = InsertedPointers(nx, old, oh, es, h)
  PROVE  ny \in [Events -> Pointers] /\ Spliced(ny, old, oh, es, h) /\ Touches(nx, ny, old, es)
<1>1. Len(old) \in Nat /\ Len(es) \in Nat /\ oh \in Nat /\ h \in Nat /\ oh <= Len(old) /\ h <= Len(es) /\ h >= 1
  BY SeqFacts
<1>2. \A i \in 1..Len(old) : old[i] \in Events /\ old[i] \in Pointers
  BY SeqFacts, EventNumbers
<1>3. \A i \in 1..Len(es) : es[i] \in Events /\ es[i] \in Pointers
  BY SeqFacts, EventNumbers
<1>4. PICK low : low = IF oh = 0 THEN old[1] ELSE nx[old[oh]]
  OBVIOUS
<1>5. PICK end : end = IF oh = Len(old) THEN es[h] ELSE old[Len(old)]
  OBVIOUS
<1>6. low \in Pointers /\ end \in Events /\ es[1] \in Pointers
  BY <1>1, <1>2, <1>3, <1>4, <1>5
<1>7. oh < Len(old) => low = old[oh + 1]
  BY <1>1, <1>4 DEF Linked
<1>8. PICK n1 \in [Events -> Pointers] : n1 = [nx EXCEPT ![es[h]] = low]
  BY <1>6
<1>9. PICK n2 \in [Events -> Pointers] : n2 = IF oh = 0 THEN n1 ELSE [n1 EXCEPT ![old[oh]] = es[1]]
  BY <1>6, <1>8
<1>a. ny = IF h = Len(es) THEN n2 ELSE [n2 EXCEPT ![end] = es[h + 1]]
  BY <1>4, <1>5, <1>8, <1>9 DEF InsertedPointers
<1>b. ny \in [Events -> Pointers]
  <2>1. h # Len(es) => h + 1 \in 1..Len(es)
    BY <1>1
  <2>2. h # Len(es) => es[h + 1] \in Pointers
    BY <2>1, <1>3
  <2> QED
    BY <2>2, <1>a
<1>c. \A x \in Events : n2[x] = IF oh # 0 /\ x = old[oh] THEN es[1] ELSE IF x = es[h] THEN low ELSE nx[x]
  BY <1>8, <1>9
<1>d. \A x \in Events : ny[x] = IF h # Len(es) /\ x = end THEN es[h + 1]
                                ELSE IF oh # 0 /\ x = old[oh] THEN es[1] ELSE IF x = es[h] THEN low ELSE nx[x]
  BY <1>a, <1>c
<1>e. h \in 1..Len(es) /\ (oh # 0 => oh \in 1..Len(old)) /\ Len(old) \in 1..Len(old)
  BY <1>1
<1>f. Touches(nx, ny, old, es)
  <2> SUFFICES ASSUME NEW x \in Events, \A i \in 1..Len(old) : old[i] # x, \A i \in 1..Len(es) : es[i] # x
               PROVE  ny[x] = nx[x]
    BY DEF Touches
  <2>1. x # es[h] /\ x # end /\ (oh # 0 => x # old[oh])
    BY <1>5, <1>e
  <2> QED
    BY <2>1, <1>d
<1>g. ASSUME NEW i \in 1..(Len(old) - 1), i # oh \/ h = 0 PROVE ny[old[i]] = old[i + 1]
  <2>1. i \in 1..Len(old) /\ i # Len(old) /\ i # oh /\ nx[old[i]] = old[i + 1]
    BY <1>1, <1>g DEF Linked
  <2>2. old[i] # es[h] /\ (oh # 0 => old[i] # old[oh]) /\ old[i] # old[Len(old)]
    BY <2>1, <1>e DEF Distinct
  <2> QED
    BY <2>1, <2>2, <1>2, <1>5, <1>d
<1>h. ASSUME NEW i \in 1..(Len(es) - 1), i # h \/ oh = Len(old) PROVE ny[es[i]] = es[i + 1]
  <2>1. i \in 1..Len(es) /\ nx[es[i]] = es[i + 1] /\ es[i] \in Events
    BY <1>1, <1>3 DEF Linked
  <2>2. (oh # 0 => es[i] # old[oh]) /\ es[i] # old[Len(old)]
    BY <2>1, <1>e
  <2>3. CASE i = h
    BY <2>1, <2>3, <1>1, <1>5, <1>d, <1>h
  <2>4. CASE i # h
    <3>1. es[i] # es[h]
      BY <2>1, <2>4, <1>e DEF Distinct
    <3> QED
      BY <3>1, <2>1, <2>2, <1>5, <1>d
  <2> QED
    BY <2>3, <2>4
<1>i. ASSUME oh >= 1 PROVE ny[old[oh]] = es[1]
  <2>1. oh \in 1..Len(old) /\ old[oh] \in Events /\ old[oh] # es[h]
    BY <1>1, <1>2, <1>e, <1>i
  <2>2. oh # Len(old) => old[oh] # old[Len(old)]
    BY <2>1, <1>e DEF Distinct
  <2> QED
    BY <2>1, <2>2, <1>1, <1>5, <1>d
<1>j. ASSUME oh < Len(old) PROVE ny[es[h]] = old[oh + 1]
  <2>1. es[h] \in Events /\ es[h] # old[Len(old)] /\ (oh # 0 => es[h] # old[oh])
    BY <1>3, <1>e
  <2> QED
    BY <2>1, <1>1, <1>5, <1>7, <1>d, <1>j
<1>k. ASSUME h < Len(es), oh < Len(old) PROVE ny[old[Len(old)]] = es[h + 1]
  BY <1>1, <1>2, <1>5, <1>d, <1>e, <1>k
<1>l. Spliced(ny, old, oh, es, h)
  BY <1>1, <1>g, <1>h, <1>i, <1>j, <1>k DEF Spliced
<1> QED
  BY <1>b, <1>f, <1>l

\* What a conductor does to the lists src and dst.
Moved(now, src, dst, oh, h) ==
  /\ oh \in 0..Len(now[dst]) /\ h \in 0..Len(now[src])
  /\ dst # "gcIn" => Ranks(now[dst], oh) /\ Ranks(now[src], h)
  /\ Spliced(next', now[dst], oh, now[src], h) /\ Touches(next, next', now[dst], now[src])
  /\ next' \in [Events -> Pointers]
  /\ first'[dst] = FirstOf(now[dst], oh, now[src], h) /\ last'[dst] = LastOf(now[dst], oh, now[src], h)
  /\ first' \in [Lists -> Pointers] /\ last' \in [Lists -> Pointers]
  /\ \A m \in Lists : m # src /\ m # dst => first'[m] = first[m] /\ last'[m] = last[m]

\* Two unlocked lists.
LEMMA TwoLists ==
  ASSUME NEW now, Model(now), NEW src \in Outputs, NEW dst \in {"gcIn", "cuIn"}, ~lock[src], ~lock[dst],
         cnt[src] > 0
  PROVE  /\ src \in Lists /\ dst \in Lists /\ src # dst
         /\ Contents(src) = now[src] /\ Contents(dst) = now[dst]
         /\ Held(src, now[src]) /\ Held(dst, now[dst])
         /\ now[src] \in Seq(Events) /\ now[dst] \in Seq(Events)
         /\ Len(now[src]) \in Nat /\ Len(now[dst]) \in Nat /\ Len(now[src]) >= 1 /\ now[src] # <<>>
         /\ Distinct(now[src]) /\ Distinct(now[dst])
         /\ \A i \in 1..Len(now[dst]), j \in 1..Len(now[src]) : now[dst][i] # now[src][j]
         /\ next \in [Events -> Pointers] /\ first \in [Lists -> Pointers] /\ last \in [Lists -> Pointers]
         /\ \E h \in 0..Len(now[src]) : Ranks(now[src], h)
         /\ \E oh \in 0..Len(now[dst]) : dst # "gcIn" => Ranks(now[dst], oh)
<1>1. src \in Lists /\ dst \in Lists /\ src # dst /\ src # "gcIn"
  BY DEF Outputs, Lists
<1>2. Contents(src) = now[src] /\ Held(src, now[src])
  BY <1>1, ContentsNow
<1>3. Contents(dst) = now[dst] /\ Held(dst, now[dst])
  BY <1>1, ContentsNow
<1>4. now[src] \in Seq(Events) /\ Len(now[src]) \in Nat /\ Distinct(now[src])
  BY <1>1, NowTypes, NowDistinct DEF Model, Good
<1>5. now[dst] \in Seq(Events) /\ Len(now[dst]) \in Nat /\ Distinct(now[dst])
  BY <1>1, NowTypes, NowDistinct DEF Model, Good
<1>6. Len(now[src]) >= 1 /\ now[src] # <<>>
  BY <1>2, <1>4 DEF Held
<1>7. \A i \in 1..Len(now[dst]), j \in 1..Len(now[src]) : now[dst][i] # now[src][j]
  BY <1>1, OnePlace DEF Model, Good
<1>8. next \in [Events -> Pointers] /\ first \in [Lists -> Pointers] /\ last \in [Lists -> Pointers]
  BY DEF Model, TypeOK
<1>9. \E h \in 0..Len(now[src]) : Ranks(now[src], h)
  BY <1>1, <1>2 DEF Held, Sorted, Ranks
<1>a. \E oh \in 0..Len(now[dst]) : dst # "gcIn" => Ranks(now[dst], oh)
  <2>1. CASE dst = "gcIn"
    BY <2>1, <1>5
  <2>2. CASE dst # "gcIn"
    BY <2>2, <1>3 DEF Held, Sorted, Ranks
  <2> QED
    BY <2>1, <2>2
<1> QED
  BY <1>1, <1>2, <1>3, <1>4, <1>5, <1>6, <1>7, <1>8, <1>9, <1>a

\* LLAppend moves the list.
LEMMA AppendMoves ==
  ASSUME NEW now, Model(now), NEW src \in Outputs, NEW dst \in {"gcIn", "cuIn"}, ~lock[src], ~lock[dst],
         cnt[src] > 0, LLAppend(src, dst, now[src]),
         dst = "gcIn" \/ ~IsHigh(now[src][1]) \/ cnt[dst] = 0
  PROVE  \E oh, h : Moved(now, src, dst, oh, h)
<1>1. PICK es \in Seq(Events), old \in Seq(Events) :
        /\ es = now[src] /\ old = now[dst] /\ src \in Lists /\ dst \in Lists /\ src # dst
        /\ Held(src, es) /\ Held(dst, old) /\ Len(es) \in Nat /\ Len(old) \in Nat /\ Len(es) >= 1
        /\ Distinct(es) /\ Distinct(old)
        /\ \A i \in 1..Len(old), j \in 1..Len(es) : old[i] # es[j]
        /\ \E h \in 0..Len(es) : Ranks(es, h)
        /\ \E oh \in 0..Len(old) : dst # "gcIn" => Ranks(old, oh)
  BY TwoLists
<1>2. next \in [Events -> Pointers] /\ first \in [Lists -> Pointers] /\ last \in [Lists -> Pointers]
  BY TwoLists
<1>3. Linked(next, es) /\ Linked(next, old) /\ cnt[dst] = Len(old)
      /\ (Len(old) # 0 => first[dst] = old[1] /\ last[dst] = old[Len(old)])
  BY <1>1 DEF Held, Ends
<1>4. String(next, es) = next
  BY <1>1, <1>2, <1>3, StringSame
<1>5. /\ 1 \in 1..Len(es) /\ Len(es) \in 1..Len(es) /\ es[1] \in Pointers /\ es[Len(es)] \in Pointers
      /\ NULL \in Pointers
  BY <1>1, SeqFacts, EventNumbers
<1>6. /\ next' = IF cnt[dst] = 0 THEN next ELSE [next EXCEPT ![last[dst]] = es[1]]
      /\ first' = [first EXCEPT ![src] = NULL, ![dst] = IF cnt[dst] = 0 THEN es[1] ELSE @]
      /\ last' = [last EXCEPT ![dst] = es[Len(es)]]
  BY <1>1, <1>4 DEF LLAppend, Last
<1>7. /\ first' \in [Lists -> Pointers] /\ last' \in [Lists -> Pointers]
      /\ \A m \in Lists : m # src /\ m # dst => first'[m] = first[m] /\ last'[m] = last[m]
      /\ first'[dst] = (IF cnt[dst] = 0 THEN es[1] ELSE first[dst]) /\ last'[dst] = es[Len(es)]
  BY <1>1, <1>2, <1>5, <1>6
<1>8. next' \in [Events -> Pointers]
  BY <1>2, <1>5, <1>6
<1>9. CASE Len(old) = 0
  <2>1. next' = next
    BY <1>3, <1>6, <1>9
  <2>2. PICK h \in 0..Len(es) : Ranks(es, h)
    BY <1>1
  <2>3. PICK oh \in 0..Len(old) : dst # "gcIn" => Ranks(old, oh)
    BY <1>1
  <2>4. Spliced(next', old, oh, es, h)
    BY <1>1, <1>3, <1>9, <2>1, <2>2, <2>3 DEF Spliced, Linked
  <2>5. Touches(next, next', old, es)
    BY <2>1 DEF Touches
  <2>6. first'[dst] = FirstOf(old, oh, es, h) /\ last'[dst] = LastOf(old, oh, es, h)
    BY <1>3, <1>7, <1>9 DEF FirstOf, LastOf
  <2>7. Moved(now, src, dst, oh, h)
    BY <1>1, <1>7, <1>8, <2>2, <2>3, <2>4, <2>5, <2>6 DEF Moved
  <2> QED
    BY <2>7
<1>a. CASE Len(old) # 0
  <2>1. next' = [next EXCEPT ![old[Len(old)]] = es[1]] /\ first'[dst] = old[1]
    BY <1>3, <1>6, <1>7, <1>a
  <2>2. 0 \in 0..Len(es) /\ (dst # "gcIn" => Ranks(es, 0))
    <3>1. ASSUME dst # "gcIn" PROVE Ranks(es, 0)
      <4>1. ~IsHigh(es[1])
        BY <3>1, <1>1, <1>3, <1>a
      <4>2. PICK h \in 0..Len(es) : Ranks(es, h)
        BY <1>1
      <4>3. ~(1 <= h)
        BY <4>1, <4>2, <1>5 DEF Ranks
      <4>4. h = 0
        BY <4>2, <4>3, <1>1
      <4> QED
        BY <4>2, <4>4
    <3> QED
      BY <3>1, <1>1
  <2>3. PICK oh \in 0..Len(old) : dst # "gcIn" => Ranks(old, oh)
    BY <1>1
  <2>4. Len(old) \in 1..Len(old) /\ old[Len(old)] \in Events /\ next'[old[Len(old)]] = es[1]
    BY <1>1, <1>2, <1>a, <2>1, SeqFacts
  <2>5. ASSUME NEW i \in 1..(Len(old) - 1) PROVE next'[old[i]] = old[i + 1]
    <3>1. i \in 1..Len(old) /\ i # Len(old) /\ next[old[i]] = old[i + 1] /\ old[i] \in Events
      BY <1>1, <1>3, SeqFacts DEF Linked
    <3>2. old[i] # old[Len(old)]
      BY <3>1, <2>4, <1>1 DEF Distinct
    <3> QED
      BY <3>1, <3>2, <1>2, <2>1
  <2>6. ASSUME NEW i \in 1..(Len(es) - 1) PROVE next'[es[i]] = es[i + 1]
    <3>1. i \in 1..Len(es) /\ next[es[i]] = es[i + 1] /\ es[i] \in Events
      BY <1>1, <1>3, SeqFacts DEF Linked
    <3>2. es[i] # old[Len(old)]
      BY <3>1, <2>4, <1>1
    <3> QED
      BY <3>1, <3>2, <1>2, <2>1
  <2>7. Spliced(next', old, oh, es, 0)
    BY <2>4, <2>5, <2>6 DEF Spliced
  <2>8. Touches(next, next', old, es)
    <3> SUFFICES ASSUME NEW x \in Events, \A i \in 1..Len(old) : old[i] # x PROVE next'[x] = next[x]
      BY DEF Touches
    <3> QED
      BY <1>2, <2>1, <2>4
  <2>9. first'[dst] = FirstOf(old, oh, es, 0) /\ last'[dst] = LastOf(old, oh, es, 0)
    BY <1>1, <1>7, <1>a, <2>1 DEF FirstOf, LastOf
  <2>a. Moved(now, src, dst, oh, 0)
    BY <1>1, <1>7, <1>8, <2>2, <2>3, <2>7, <2>8, <2>9 DEF Moved
  <2> QED
    BY <2>a
<1> QED
  BY <1>9, <1>a

\* LLInsert moves the list.
LEMMA InsertMoves ==
  ASSUME NEW now, Model(now), NEW src \in Outputs, NEW dst \in {"cuIn"}, ~lock[src], ~lock[dst],
         cnt[src] > 0, LLInsert(src, dst, now[src]), IsHigh(now[src][1]), cnt[dst] # 0
  PROVE  \E oh, h : Moved(now, src, dst, oh, h)
<1>1. PICK es \in Seq(Events), old \in Seq(Events) :
        /\ es = now[src] /\ old = now[dst] /\ src \in Lists /\ dst \in Lists /\ src # dst
        /\ Held(src, es) /\ Held(dst, old) /\ Len(es) \in Nat /\ Len(old) \in Nat /\ Len(es) >= 1
        /\ Distinct(es) /\ Distinct(old) /\ Contents(dst) = old
        /\ \A i \in 1..Len(old), j \in 1..Len(es) : old[i] # es[j]
        /\ \E h \in 0..Len(es) : Ranks(es, h)
        /\ \E oh \in 0..Len(old) : dst # "gcIn" => Ranks(old, oh)
  BY TwoLists
<1>2. next \in [Events -> Pointers] /\ first \in [Lists -> Pointers] /\ last \in [Lists -> Pointers]
  BY TwoLists
<1>3. PICK h \in 0..Len(es) : Ranks(es, h)
  BY <1>1
<1>4. PICK oh \in 0..Len(old) : Ranks(old, oh)
  BY <1>1
<1>5. /\ Linked(next, es) /\ Linked(next, old) /\ cnt[dst] = Len(old) /\ Len(old) >= 1
      /\ first[dst] = old[1] /\ last[dst] = old[Len(old)]
  BY <1>1 DEF Held, Ends
<1>6. Leading(old) = oh /\ Leading(es) = h
  BY <1>3, <1>4, LeadingIs
<1>7. h \in 1..Len(es) /\ h >= 1 /\ h \in Nat /\ h <= Len(es) /\ oh \in Nat
  <2>1. 1 \in 1..Len(es) /\ IsHigh(es[1])
    BY <1>1
  <2>2. 1 <= h
    BY <2>1, <1>3 DEF Ranks
  <2> QED
    BY <2>2, <1>1, <1>3
<1> DEFINE hs  == SubSeq(es, 1, h)
           ls  == SubSeq(es, h + 1, Len(es))
           low == IF oh = 0 THEN first[dst] ELSE next[old[oh]]
           end == IF oh = Len(old) THEN es[h] ELSE last[dst]
           n1  == [next EXCEPT ![es[h]] = low]
           n2  == IF oh = 0 THEN n1 ELSE [n1 EXCEPT ![old[oh]] = es[1]]
<1>8. /\ next' = (IF ls = <<>> THEN IF oh = 0 THEN [String(next, hs) EXCEPT ![es[h]] = low]
                                     ELSE [[String(next, hs) EXCEPT ![es[h]] = low] EXCEPT ![old[oh]] = es[1]]
                  ELSE [String(IF oh = 0 THEN [String(next, hs) EXCEPT ![es[h]] = low]
                               ELSE [[String(next, hs) EXCEPT ![es[h]] = low] EXCEPT ![old[oh]] = es[1]], ls)
                        EXCEPT ![end] = ls[1]])
      /\ first' = [first EXCEPT ![src] = NULL, ![dst] = IF oh = 0 THEN es[1] ELSE @]
      /\ last' = [last EXCEPT ![dst] = IF ls = <<>> THEN end ELSE Last(ls)]
  BY <1>1, <1>6 DEF LLInsert
<1>9. hs \in Seq(Events) /\ Len(hs) = h /\ \A i \in 1..h : hs[i] = es[0 + i]
  BY <1>1, <1>7
<1>a. String(next, hs) = next
  <2>1. \A i \in (0 + 1)..(0 + h - 1) : next[es[i]] = es[i + 1]
    BY <1>1, <1>5, <1>7 DEF Linked
  <2>2. 0 + h <= Len(es)
    BY <1>7
  <2> HIDE DEF hs
  <2>3. Piece(next, es, 0, h, hs)
    BY <1>9, <2>1, <2>2 DEF Piece
  <2> QED
    BY <1>1, <1>2, <1>7, <1>9, <2>3, PieceSame
<1>b. /\ ls \in Seq(Events) /\ Len(ls) \in Nat /\ Len(ls) = Len(es) - h
      /\ \A i \in 1..Len(ls) : ls[i] = es[h + i] /\ h + i \in 1..Len(es)
  BY <1>3, CutIs
<1>c. /\ \A i \in 1..Len(es) : es[i] \in Events /\ es[i] \in Pointers
      /\ \A i \in 1..Len(old) : old[i] \in Events /\ old[i] \in Pointers
      /\ NULL \in Pointers /\ (oh # 0 => oh \in 1..Len(old)) /\ Len(old) \in 1..Len(old)
      /\ 1 \in 1..Len(es) /\ 1 \in 1..Len(old)
  <2>1. \A i \in 1..Len(es) : es[i] \in Events /\ es[i] \in Pointers
    BY SeqFacts, EventNumbers
  <2>2. \A i \in 1..Len(old) : old[i] \in Events /\ old[i] \in Pointers
    BY SeqFacts, EventNumbers
  <2>3. /\ (oh # 0 => oh \in 1..Len(old)) /\ Len(old) \in 1..Len(old)
        /\ 1 \in 1..Len(es) /\ 1 \in 1..Len(old)
    BY <1>1, <1>4, <1>5
  <2> QED
    BY <2>1, <2>2, <2>3, EventNumbers
<1>d. low \in Pointers /\ end \in Events /\ end \in Pointers
  BY <1>2, <1>5, <1>7, <1>c
<1> HIDE DEF hs, ls, low, end
<1>e. n2 \in [Events -> Pointers] /\ \A x \in Events : x # es[h] /\ (oh # 0 => x # old[oh]) => n2[x] = next[x]
  BY <1>2, <1>c, <1>d
<1> HIDE DEF n2
<1>f. String(n2, ls) = n2
  <2>1. ASSUME NEW i \in (h + 1)..(h + Len(ls) - 1) PROVE n2[es[i]] = es[i + 1]
    <3>1. i \in 1..Len(es) /\ i \in 1..(Len(es) - 1) /\ i # h
      <4>1. h + Len(ls) = Len(es)
        BY <1>1, <1>7, <1>b
      <4>2. i \in (h + 1)..(Len(es) - 1)
        BY <4>1
      <4> QED
        BY <4>2, <1>1, <1>7
    <3>2. es[i] # es[h] /\ (oh # 0 => es[i] # old[oh]) /\ es[i] \in Events
      BY <3>1, <1>1, <1>7, <1>c DEF Distinct
    <3>3. next[es[i]] = es[i + 1]
      BY <3>1, <1>5 DEF Linked
    <3> QED
      BY <3>2, <3>3, <1>e
  <2>2. h + Len(ls) <= Len(es) /\ \A i \in 1..Len(ls) : ls[i] = es[h + i]
    BY <1>1, <1>7, <1>b
  <2>3. Piece(n2, es, h, Len(ls), ls)
    BY <2>1, <2>2 DEF Piece
  <2> QED
    BY <1>1, <1>7, <1>b, <1>e, <2>3, PieceSame
<1>g. ls = <<>> <=> h = Len(es)
  BY <1>1, <1>7, <1>b, SeqFacts
<1>h. ls # <<>> => ls[1] = es[h + 1] /\ Last(ls) = es[Len(es)]
  <2> SUFFICES ASSUME ls # <<>> PROVE ls[1] = es[h + 1] /\ ls[Len(ls)] = es[Len(es)]
    BY DEF Last
  <2>1. 1 \in 1..Len(ls) /\ Len(ls) \in 1..Len(ls) /\ h + Len(ls) = Len(es)
    BY <1>1, <1>7, <1>b, <1>g
  <2> QED
    BY <2>1, <1>b
<1>i. next' = IF h = Len(es) THEN n2 ELSE [n2 EXCEPT ![end] = es[h + 1]]
  BY <1>8, <1>a, <1>f, <1>g, <1>h DEF n2
<1>j. next' = InsertedPointers(next, old, oh, es, h)
  BY <1>i, <1>5 DEF n2, InsertedPointers, low, end
<1>k. /\ next' \in [Events -> Pointers] /\ Spliced(next', old, oh, es, h) /\ Touches(next, next', old, es)
  BY <1>j, <1>1, <1>2, <1>5, <1>7, InsertSplices
<1>l. /\ first' \in [Lists -> Pointers] /\ last' \in [Lists -> Pointers]
      /\ \A m \in Lists : m # src /\ m # dst => first'[m] = first[m] /\ last'[m] = last[m]
      /\ first'[dst] = (IF oh = 0 THEN es[1] ELSE first[dst])
      /\ last'[dst] = (IF ls = <<>> THEN end ELSE Last(ls))
  <2>1. PICK f, z : f = (IF oh = 0 THEN es[1] ELSE first[dst]) /\ z = (IF ls = <<>> THEN end ELSE Last(ls))
    OBVIOUS
  <2>2. f \in Pointers /\ z \in Pointers
    <3>1. Len(es) \in 1..Len(es)
      BY <1>1
    <3>2. f \in Pointers
      BY <2>1, <1>1, <1>2, <1>c
    <3>3. z \in Pointers
      BY <2>1, <3>1, <1>c, <1>d, <1>h
    <3> QED
      BY <3>2, <3>3
  <2>3. first' = [first EXCEPT ![src] = NULL, ![dst] = f] /\ last' = [last EXCEPT ![dst] = z]
    BY <2>1, <1>1, <1>2, <1>8
  <2> QED
    BY <2>1, <2>2, <2>3, <1>1, <1>2, <1>c
<1>m. first'[dst] = FirstOf(old, oh, es, h) /\ last'[dst] = LastOf(old, oh, es, h)
  BY <1>1, <1>5, <1>7, <1>g, <1>h, <1>l DEF FirstOf, LastOf, end
<1>n. Moved(now, src, dst, oh, h)
  BY <1>1, <1>3, <1>4, <1>k, <1>l, <1>m DEF Moved
<1> QED
  BY <1>n

\* A conductor moves a list.
LEMMA ConductIs ==
  ASSUME NEW now, Model(now), NEW s \in {"GC", "CU"}, Conduct(s)
  PROVE  \E src \in Outputs, dst \in {"gcIn", "cuIn"} :
           /\ ~lock[src] /\ ~lock[dst] /\ cnt[src] > 0
           /\ cnt' = [cnt EXCEPT ![src] = 0, ![dst] = @ + cnt[src]]
           /\ lasthigh' = [lasthigh EXCEPT ![src] = 0]
           /\ \E oh, h : Moved(now, src, dst, oh, h)
<1> DEFINE src == OutOf(s)
           dst == IF s = "GC" /\ CUActive THEN "cuIn" ELSE "gcIn"
<1>1. src \in Outputs /\ dst \in {"gcIn", "cuIn"}
  BY DEF OutOf, Outputs
<1>2. /\ cnt[src] > 0 /\ ~lock[src] /\ ~lock[dst]
      /\ IF dst = "gcIn" \/ ~IsHigh(Contents(src)[1]) \/ cnt[dst] = 0
           THEN LLAppend(src, dst, Contents(src)) ELSE LLInsert(src, dst, Contents(src))
      /\ cnt' = [cnt EXCEPT ![src] = 0, ![dst] = @ + cnt[src]]
      /\ lasthigh' = [lasthigh EXCEPT ![src] = 0]
  BY DEF Conduct
<1> HIDE DEF src, dst
<1>3. Contents(src) = now[src]
  BY <1>1, <1>2, TwoLists
<1>4. CASE dst = "gcIn" \/ ~IsHigh(now[src][1]) \/ cnt[dst] = 0
  <2>1. LLAppend(src, dst, now[src])
    BY <1>2, <1>3, <1>4
  <2>2. \E oh, h : Moved(now, src, dst, oh, h)
    BY <1>1, <1>2, <1>4, <2>1, AppendMoves
  <2> QED
    BY <1>1, <1>2, <2>2
<1>5. CASE ~(dst = "gcIn" \/ ~IsHigh(now[src][1]) \/ cnt[dst] = 0)
  <2>1. LLInsert(src, dst, now[src]) /\ dst \in {"cuIn"} /\ IsHigh(now[src][1]) /\ cnt[dst] # 0
    BY <1>1, <1>2, <1>3, <1>5
  <2>2. \E oh, h : Moved(now, src, dst, oh, h)
    BY <1>1, <1>2, <2>1, InsertMoves
  <2> QED
    BY <1>1, <1>2, <2>2
<1> QED
  BY <1>4, <1>5

\* The lists after the move.
After(now, nw, src, dst, oh, h) ==
  /\ nw[src] = <<>> /\ nw[dst] = Merged(now[dst], oh, now[src], h)
  /\ \A l \in Lists : l # src /\ l # dst => nw[l] = now[l]

\* No event is lost or doubled.
Regrouped(now, nw, src, dst) ==
  /\ Apart(nw)
  /\ \A e \in Events : Off(nw, e) <=> Off(now, e)
  /\ \A i \in 1..Len(nw[dst]) : \/ \E j \in 1..Len(now[dst]) : nw[dst][i] = now[dst][j]
                                \/ \E j \in 1..Len(now[src]) : nw[dst][i] = now[src][j]

\* A move loses no event and doubles none.
LEMMA MovedApart ==
  ASSUME NEW now \in [Lists -> Seq(Events)], Apart(now), NEW nw, NEW src \in Lists, NEW dst \in Lists, src # dst,
         NEW oh \in 0..Len(now[dst]), NEW h \in 0..Len(now[src]), After(now, nw, src, dst, oh, h)
  PROVE  Regrouped(now, nw, src, dst)
<1>1. PICK old \in Seq(Events), es \in Seq(Events) : old = now[dst] /\ es = now[src]
  OBVIOUS
<1>2. PICK m : m = Merged(old, oh, es, h) /\ m = nw[dst]
  BY <1>1 DEF After
<1>3. /\ \A i \in 1..Len(m) :
              \/ \E j \in 1..Len(old) : m[i] = old[j] /\ i = OldAt(oh, h, j)
              \/ \E j \in 1..Len(es) : m[i] = es[j] /\ i = NewAt(old, oh, h, j)
      /\ \A j \in 1..Len(old) : OldAt(oh, h, j) \in 1..Len(m) /\ m[OldAt(oh, h, j)] = old[j]
      /\ \A j \in 1..Len(es) : NewAt(old, oh, h, j) \in 1..Len(m) /\ m[NewAt(old, oh, h, j)] = es[j]
  <2>1. MergeFrom(old, oh, es, h, m)
    BY <1>1, <1>2, MergedFrom
  <2> QED
    BY <2>1 DEF MergeFrom
<1>4. Len(nw[src]) = 0
  BY DEF After
\* An event of a new list is one of an old list, and its place there tells
\* where it is now.
<1> DEFINE At(l, i, x, j) == IF x = src THEN l = dst /\ i = NewAt(old, oh, h, j)
                             ELSE IF x = dst THEN l = dst /\ i = OldAt(oh, h, j) ELSE l = x /\ i = j
<1>5. ASSUME NEW l \in Lists, NEW i \in 1..Len(nw[l])
      PROVE  \E x \in Lists : \E j \in 1..Len(now[x]) : nw[l][i] = now[x][j] /\ At(l, i, x, j)
  <2>1. CASE l = src
    BY <2>1, <1>4
  <2>2. CASE l = dst
    <3>1. CASE \E j \in 1..Len(old) : m[i] = old[j] /\ i = OldAt(oh, h, j)
      <4>1. PICK j \in 1..Len(old) : m[i] = old[j] /\ i = OldAt(oh, h, j)
        BY <3>1
      <4>2. At(l, i, dst, j)
        BY <4>1, <2>2
      <4> HIDE DEF At
      <4> QED
        BY <4>1, <4>2, <1>1, <1>2, <2>2
    <3>2. CASE \E j \in 1..Len(es) : m[i] = es[j] /\ i = NewAt(old, oh, h, j)
      <4>1. PICK j \in 1..Len(es) : m[i] = es[j] /\ i = NewAt(old, oh, h, j)
        BY <3>2
      <4>2. At(l, i, src, j)
        BY <4>1, <2>2
      <4> HIDE DEF At
      <4> QED
        BY <4>1, <4>2, <1>1, <1>2, <2>2
    <3> QED
      BY <3>1, <3>2, <2>2, <1>2, <1>3
  <2>3. CASE l # src /\ l # dst
    <3>1. nw[l] = now[l] /\ At(l, i, l, i)
      BY <2>3 DEF After
    <3> HIDE DEF At
    <3> QED
      BY <3>1
  <2> QED
    BY <2>1, <2>2, <2>3
<1>6. Apart(nw)
  <2> SUFFICES ASSUME NEW l \in Lists, NEW l2 \in Lists, NEW i \in 1..Len(nw[l]), NEW i2 \in 1..Len(nw[l2]),
                      nw[l][i] = nw[l2][i2]
               PROVE  l = l2 /\ i = i2
    BY DEF Apart
  <2>a. PICK x \in Lists : \E j \in 1..Len(now[x]) : nw[l][i] = now[x][j] /\ At(l, i, x, j)
    BY <1>5
  <2>1. PICK j \in 1..Len(now[x]) : nw[l][i] = now[x][j] /\ At(l, i, x, j)
    BY <2>a
  <2>b. PICK x2 \in Lists : \E j2 \in 1..Len(now[x2]) : nw[l2][i2] = now[x2][j2] /\ At(l2, i2, x2, j2)
    BY <1>5
  <2>2. PICK j2 \in 1..Len(now[x2]) : nw[l2][i2] = now[x2][j2] /\ At(l2, i2, x2, j2)
    BY <2>b
  <2>c. now[x][j] = now[x2][j2]
    BY <2>1, <2>2
  <2>3. x = x2 /\ j = j2
    BY <2>c DEF Apart
  <2> QED
    BY <2>1, <2>2, <2>3
<1>7. ASSUME NEW e \in Events, Off(now, e) PROVE Off(nw, e)
  <2> SUFFICES ASSUME NEW l \in Lists, NEW i \in 1..Len(nw[l]) PROVE nw[l][i] # e
    BY DEF Off
  <2> HIDE DEF At
  <2>1. \E x \in Lists : \E j \in 1..Len(now[x]) : nw[l][i] = now[x][j]
    BY <1>5
  <2> QED
    BY <2>1, <1>7 DEF Off
<1>8. ASSUME NEW e \in Events, Off(nw, e) PROVE Off(now, e)
  <2> SUFFICES ASSUME NEW l \in Lists, NEW i \in 1..Len(now[l]) PROVE now[l][i] # e
    BY DEF Off
  <2>1. CASE l = src
    <3>1. NewAt(old, oh, h, i) \in 1..Len(nw[dst]) /\ nw[dst][NewAt(old, oh, h, i)] = now[l][i]
      BY <2>1, <1>1, <1>2, <1>3
    <3> QED
      BY <3>1, <1>8 DEF Off
  <2>2. CASE l = dst
    <3>1. OldAt(oh, h, i) \in 1..Len(nw[dst]) /\ nw[dst][OldAt(oh, h, i)] = now[l][i]
      BY <2>2, <1>1, <1>2, <1>3
    <3> QED
      BY <3>1, <1>8 DEF Off
  <2>3. CASE l # src /\ l # dst
    BY <2>3, <1>8 DEF Off, After
  <2> QED
    BY <2>1, <2>2, <2>3
<1>9. \A i \in 1..Len(nw[dst]) : \/ \E j \in 1..Len(now[dst]) : nw[dst][i] = now[dst][j]
                                 \/ \E j \in 1..Len(now[src]) : nw[dst][i] = now[src][j]
  <2>1. \A i \in 1..Len(m) : (\E j \in 1..Len(old) : m[i] = old[j]) \/ (\E j \in 1..Len(es) : m[i] = es[j])
    BY <1>3
  <2> SUFFICES ASSUME NEW i \in 1..Len(nw[dst])
               PROVE  \/ \E j \in 1..Len(now[dst]) : nw[dst][i] = now[dst][j]
                      \/ \E j \in 1..Len(now[src]) : nw[dst][i] = now[src][j]
    OBVIOUS
  <2>2. i \in 1..Len(m) /\ nw[dst][i] = m[i]
    BY <1>2
  <2>3. (\E j \in 1..Len(old) : m[i] = old[j]) \/ (\E j \in 1..Len(es) : m[i] = es[j])
    BY <2>1, <2>2
  <2> QED
    BY <2>2, <2>3, <1>1
<1> QED
  BY <1>6, <1>7, <1>8, <1>9 DEF Regrouped

\* The frame of a conductor's step.
Conducts(now, src, dst, oh, h) ==
  /\ src \in Outputs /\ dst \in {"gcIn", "cuIn"} /\ ~lock[src] /\ ~lock[dst] /\ cnt[src] > 0
  /\ Moved(now, src, dst, oh, h)
  /\ cnt' = [cnt EXCEPT ![src] = 0, ![dst] = @ + cnt[src]]
  /\ lasthigh' = [lasthigh EXCEPT ![src] = 0]
  /\ UNCHANGED <<owner, prio, age, lock, fixVars, userVars, pc, call, k, before>>

\* The merged list.
LEMMA MovedHeld ==
  ASSUME NEW now, Model(now), NEW src, NEW dst, NEW oh, NEW h, Conducts(now, src, dst, oh, h),
         NEW m, m = Merged(now[dst], oh, now[src], h)
  PROVE  Held(dst, m)' /\ Held(src, <<>>)' /\ m \in Seq(Events)
<1>1. PICK es \in Seq(Events), old \in Seq(Events) :
        /\ es = now[src] /\ old = now[dst] /\ src \in Lists /\ dst \in Lists /\ src # dst
        /\ Held(src, es) /\ Held(dst, old) /\ Len(es) \in Nat /\ Len(old) \in Nat /\ es # <<>>
  BY TwoLists DEF Conducts
<1>2. /\ oh \in 0..Len(old) /\ h \in 0..Len(es) /\ (dst # "gcIn" => Ranks(old, oh) /\ Ranks(es, h))
      /\ Spliced(next', old, oh, es, h)
      /\ first'[dst] = FirstOf(old, oh, es, h) /\ last'[dst] = LastOf(old, oh, es, h)
  BY <1>1 DEF Conducts, Moved
<1>3. m = Merged(old, oh, es, h)
  BY <1>1
<1>4. MergeOf(old, oh, es, h, m) /\ MergeFrom(old, oh, es, h, m)
  BY <1>2, <1>3, MergedIs, MergedFrom
<1>5. m \in Seq(Events) /\ Len(m) = Len(old) + Len(es)
  BY <1>4 DEF MergeOf
<1>6. Linked(next', m)
  BY <1>2, <1>3, MergedLinked
<1>7. cnt'[dst] = Len(m) /\ cnt'[src] = 0 /\ lasthigh'[src] = 0 /\ owner' = owner /\ prio' = prio
  BY <1>1, <1>5 DEF Conducts, Model, TypeOK, Held
<1>8. Ends(dst, m)'
  <2>1. m # <<>> /\ m[1] = FirstOf(old, oh, es, h) /\ m[Len(m)] = LastOf(old, oh, es, h)
    <3>1. oh \in 0..Len(old) /\ h \in 0..Len(es) /\ es # <<>>
      BY <1>1, <1>2
    <3> QED
      BY <3>1, <1>3, MergedEnds
  <2> QED
    BY <2>1, <1>2 DEF Ends
<1>9. Sorted(dst, m)'
  <2> SUFFICES ASSUME dst # "gcIn" PROVE \E x \in Nat : Ranks(m, x)'
    BY DEF Sorted
  <2>1. Ranks(m, oh + h)
    BY <1>2, <1>3, MergedRanks
  <2>2. oh + h \in Nat
    BY <1>1, <1>2
  <2>3. Ranks(m, oh + h)'
    BY <2>1, <1>7 DEF Ranks, IsHigh
  <2> QED
    BY <2>2, <2>3
<1>a. Counted(dst, m)'
  BY DEF Counted, Conducts, Outputs
<1>b. Given(m)'
  <2>1. Given(old) /\ Given(es)
    BY <1>1 DEF Held
  <2>2. \A i \in 1..Len(m) : (\E j \in 1..Len(old) : m[i] = old[j]) \/ (\E j \in 1..Len(es) : m[i] = es[j])
    BY <1>4 DEF MergeFrom
  <2> QED
    BY <2>1, <2>2, <1>7 DEF Given
<1>c. Held(dst, m)'
  BY <1>6, <1>7, <1>8, <1>9, <1>a, <1>b DEF Held
<1>d. Held(src, <<>>)'
  <2>1. Ranks(<<>>, 0)'
    BY DEF Ranks
  <2>2. Linked(next', <<>>)
    BY DEF Linked
  <2>3. Given(<<>>)' /\ Ends(src, <<>>)'
    BY DEF Given, Ends
  <2>4. Sorted(src, <<>>)' /\ Counted(src, <<>>)'
    BY <2>1, <1>7 DEF Sorted, Counted
  <2>5. Len(<<>>) = 0
    OBVIOUS
  <2> QED
    BY <2>2, <2>3, <2>4, <2>5, <1>7 DEF Held
<1> QED
  BY <1>5, <1>c, <1>d

\* The other lists, and the events in none.
LEMMA MovedFrame ==
  ASSUME NEW now, Model(now), NEW src, NEW dst, NEW oh, NEW h, Conducts(now, src, dst, oh, h)
  PROVE  /\ \A l \in Lists : l # src /\ l # dst => Kept(l) /\ KeptEvents(now[l])
         /\ \A e \in Events : Off(now, e) => next'[e] = next[e]
<1>1. src \in Lists /\ dst \in Lists /\ src # dst
  BY TwoLists DEF Conducts
<1>2. Touches(next, next', now[dst], now[src])
  BY DEF Conducts, Moved
<1>3. ASSUME NEW l \in Lists, l # src, l # dst PROVE Kept(l)
  <2>1. first'[l] = first[l] /\ last'[l] = last[l]
    BY <1>3 DEF Conducts, Moved
  <2>2. cnt'[l] = cnt[l] /\ lasthigh'[l] = lasthigh[l]
    BY <1>3 DEF Conducts, Model, TypeOK
  <2> QED
    BY <2>1, <2>2 DEF Kept, KeptList, Conducts, fixVars
<1>4. ASSUME NEW l \in Lists, l # src, l # dst PROVE KeptEvents(now[l])
  <2> SUFFICES ASSUME NEW i \in 1..Len(now[l]) PROVE next'[now[l][i]] = next[now[l][i]]
    BY DEF KeptEvents, Conducts
  <2>1. now[l][i] \in Events /\ Apart(now)
    BY NowTypes DEF Model, Good
  <2>2. \A j \in 1..Len(now[dst]) : now[dst][j] # now[l][i]
    BY <1>1, <1>4, <2>1, OnePlace
  <2>3. \A j \in 1..Len(now[src]) : now[src][j] # now[l][i]
    BY <1>1, <1>4, <2>1, OnePlace
  <2> QED
    BY <2>1, <2>2, <2>3, <1>2 DEF Touches
<1>5. ASSUME NEW e \in Events, Off(now, e) PROVE next'[e] = next[e]
  BY <1>1, <1>2, <1>5 DEF Touches, Off
<1> QED
  BY <1>3, <1>4, <1>5

\* A call on another list does not notice.
LEMMA MovedLocked ==
  ASSUME NEW now, Model(now), NEW src, NEW dst, NEW oh, NEW h, Conducts(now, src, dst, oh, h),
         NEW l \in Lists, l = L, lock[l], NEW s \in Seq(Events), s = now[l]
  PROVE  /\ pc \in InLock => IF Reading THEN ReadState(s)' ELSE WriteState(s)'
         /\ pc = "dead" => IF Reading THEN DeadRead(s)' ELSE DeadWrite(s)'
         /\ Done' = Done
<1>1. l # src /\ l # dst
  BY DEF Conducts
<1>2. Kept(l) /\ KeptEvents(s)
  BY <1>1, MovedFrame
<1>3. UNCHANGED <<owner, prio, age, lock, fixVars, userVars, pc, call, k, before>>
  BY DEF Conducts
<1>4. cnt'[l] = cnt[l] /\ first'[l] = first[l] /\ last'[l] = last[l] /\ lasthigh'[l] = lasthigh[l]
  BY <1>2 DEF Kept, KeptList
<1>5. /\ L' = L /\ E' = E /\ (Reading' <=> Reading) /\ Rest' = Rest /\ (OwnerFirst' <=> OwnerFirst)
      /\ (Ranked' <=> Ranked)
  BY <1>3, <1>4 DEF L, E, Reading, Rest, OwnerFirst, Ranked, IsHigh
<1>6. Done' = Done
  BY <1>3, <1>4, <1>5 DEF Done
<1>7. Held(l, s) => Held(l, s)'
  BY <1>2, HeldSame DEF Kept
<1>8. Sorted(l, s) => Sorted(l, s)'
  BY <1>2, SortedSame DEF KeptEvents
<1>9. Linked(next, s) => Linked(next', s)
  <2> SUFFICES ASSUME Linked(next, s), NEW i \in 1..(Len(s) - 1) PROVE next'[s[i]] = s[i + 1]
    BY DEF Linked
  <2>1. i \in 1..Len(s)
    BY SeqFacts
  <2> QED
    BY <2>1, <1>2 DEF KeptEvents, Linked
<1>a. /\ fixStart' = fixStart /\ fixFirst' = fixFirst /\ fixCall' = fixCall /\ fixCnt' = fixCnt
      /\ fixNum' = fixNum /\ call' = call /\ before' = before /\ prio' = prio /\ k' = k /\ pc' = pc
      /\ owner' = owner
  BY <1>3 DEF fixVars
<1>b. (Given(s)' <=> Given(s)) /\ (Counted(l, s) => Counted(l, s)') /\ (Ends(l, s)' <=> Ends(l, s))
      /\ (Ranks(s, lasthigh[l] + 1) => Ranks(s, lasthigh[l] + 1)') /\ Spot(s)' = Spot(s)
  BY <1>4, <1>5, <1>a DEF Given, Counted, Ends, Ranks, IsHigh, Spot
<1>c. ASSUME pc = "dead", Reading PROVE DeadRead(s)'
  <2>1. DeadRead(s)
    BY <1>c, DeadFacts
  <2> QED
    BY <2>1, <1>4, <1>5, <1>7, <1>8, <1>9, <1>a DEF DeadRead
<1>d. ASSUME pc = "dead", ~Reading PROVE DeadWrite(s)'
  <2>1. DeadWrite(s)
    BY <1>d, DeadFacts
  <2> QED
    BY <2>1, <1>4, <1>5, <1>7, <1>8, <1>9, <1>a DEF DeadWrite
<1>e. ASSUME pc \in InLock, Reading PROVE ReadState(s)'
  <2>1. ReadState(s)
    BY <1>e, InsideFacts
  <2> QED
    BY <2>1, <1>4, <1>5, <1>8, <1>9, <1>a, <1>b DEF ReadState
<1>f. ASSUME pc \in InLock, ~Reading PROVE WriteState(s)'
  <2>1. WriteState(s)
    BY <1>f, InsideFacts
  <2>2. ASSUME pc = "relink", cnt[L] # 0
        PROVE  next'[E] = next[E] /\ (s # <<>> => next'[s[Len(s)]] = next[s[Len(s)]]) /\ s # <<>>
    <3>1. E \in Events /\ Off(now, E)
      BY <2>2, NextEvent DEF Done
    <3>2. s # <<>>
      BY <2>1, <2>2 DEF WriteState, Held
    <3>3. Len(s) \in 1..Len(s)
      BY <3>2, SeqFacts
    <3> QED
      BY <3>1, <3>2, <3>3, <1>2, MovedFrame DEF KeptEvents
  <2> QED
    BY <2>1, <2>2, <1>4, <1>5, <1>6, <1>7, <1>8, <1>9, <1>a, <1>b DEF WriteState
<1> QED
  BY <1>6, <1>c, <1>d, <1>e, <1>f

\* A transfer by a conductor.
LEMMA ConductStep ==
  ASSUME NEW now, Model(now), NEW c \in {"GC", "CU"}, Conduct(c)
  PROVE  Inv'
<1>1. PICK src \in Outputs, dst \in {"gcIn", "cuIn"} :
           /\ ~lock[src] /\ ~lock[dst] /\ cnt[src] > 0
           /\ cnt' = [cnt EXCEPT ![src] = 0, ![dst] = @ + cnt[src]]
           /\ lasthigh' = [lasthigh EXCEPT ![src] = 0]
           /\ \E oh, h : Moved(now, src, dst, oh, h)
  BY ConductIs
<1>2. PICK oh, h : Moved(now, src, dst, oh, h)
  BY <1>1
<1>3. /\ UNCHANGED <<owner, prio, age, lock, fixVars, userVars, pc, call, k, before>> /\ ~cleanup
  BY DEF Conduct
<1>4. Conducts(now, src, dst, oh, h)
  BY <1>1, <1>2, <1>3 DEF Conducts
<1>5. /\ src \in Lists /\ dst \in Lists /\ src # dst /\ src # "gcIn"
      /\ oh \in 0..Len(now[dst]) /\ h \in 0..Len(now[src])
  BY <1>1, <1>2 DEF Outputs, Lists, Moved
<1>6. /\ Control /\ Outside(now) /\ Loose(now) /\ Travel(now) /\ Leaving /\ Apart(now) /\ Free(now) /\ Locked(now)
      /\ now \in [Lists -> Seq(Events)]
  BY DEF Model, Good
<1>7. PICK m \in Seq(Events) : m = Merged(now[dst], oh, now[src], h) /\ Held(dst, m)' /\ Held(src, <<>>)'
  BY <1>4, MovedHeld
<1>8. PICK nw : nw = [l \in Lists |-> IF l = src THEN <<>> ELSE IF l = dst THEN m ELSE now[l]]
  OBVIOUS
<1>9. /\ nw[src] = <<>> /\ nw[dst] = m /\ \A l \in Lists : l # src /\ l # dst => nw[l] = now[l]
  BY <1>5, <1>8
<1>m. nw \in [Lists -> Seq(Events)]
  <2>1. \A l \in Lists : nw[l] \in Seq(Events)
    <3>1. <<>> \in Seq(Events)
      OBVIOUS
    <3> QED
      BY <3>1, <1>6, <1>7, <1>9
  <2> QED
    BY <2>1, <1>8
<1>a. After(now, nw, src, dst, oh, h)
  BY <1>7, <1>9 DEF After
<1>b. /\ Apart(nw)
      /\ \A e \in Events : Off(nw, e) <=> Off(now, e)
      /\ \A i \in 1..Len(nw[dst]) : \/ \E j \in 1..Len(now[dst]) : nw[dst][i] = now[dst][j]
                                    \/ \E j \in 1..Len(now[src]) : nw[dst][i] = now[src][j]
  <2>1. Regrouped(now, nw, src, dst)
    BY <1>5, <1>6, <1>a, MovedApart
  <2> QED
    BY <2>1 DEF Regrouped
<1>c. /\ at' = at /\ cleanup' = cleanup /\ ordered' = ordered /\ put' = put /\ pc' = pc /\ call' = call /\ k' = k
      /\ owner' = owner /\ lock' = lock /\ L' = L /\ (Reading' <=> Reading)
  BY <1>3 DEF userVars, L, Reading
<1>d. TypeOK'
  <2>1. cnt' \in [Lists -> Nat] /\ lasthigh' \in [Lists -> Nat]
    <3>1. cnt \in [Lists -> Nat] /\ lasthigh \in [Lists -> Nat]
      BY DEF Model, TypeOK
    <3>2. cnt[dst] + cnt[src] \in Nat
      BY <3>1, <1>5
    <3>3. [cnt EXCEPT ![src] = 0, ![dst] = @ + cnt[src]] \in [Lists -> Nat]
      BY <3>1, <3>2, <1>5
    <3> QED
      BY <3>1, <3>3, <1>1
  <2>2. next' \in [Events -> Pointers] /\ first' \in [Lists -> Pointers] /\ last' \in [Lists -> Pointers]
    BY <1>2 DEF Moved
  <2> QED
    BY <1>3, <2>1, <2>2 DEF Model, TypeOK, fixVars, userVars
<1>e. Control'
  BY <1>6, <1>c DEF Control
<1>f. Free(nw)'
  <2> SUFFICES ASSUME NEW l \in Lists, ~lock[l]
               PROVE  Held(l, nw[l])' /\ fixStart'[l] = 0 /\ fixFirst'[l] = NULL
    BY <1>c, Zenon DEF Free
  <2>1. Held(l, now[l]) /\ fixStart[l] = 0 /\ fixFirst[l] = NULL /\ now[l] \in Seq(Events)
    BY ContentsNow, NowTypes
  <2>2. fixStart' = fixStart /\ fixFirst' = fixFirst
    BY <1>3 DEF fixVars
  <2>3. Held(l, nw[l])'
    <3>1. CASE l = src
      BY <3>1, <1>7, <1>9
    <3>2. CASE l = dst
      BY <3>2, <1>7, <1>9
    <3>3. CASE l # src /\ l # dst
      <4>1. Kept(l) /\ KeptEvents(now[l])
        BY <3>3, <1>4, MovedFrame
      <4>2. Held(l, now[l])'
        BY <4>1, <2>1, HeldSame DEF Kept
      <4> QED
        BY <4>2, <3>3, <1>9
    <3> QED
      BY <3>1, <3>2, <3>3
  <2> QED
    BY <2>1, <2>2, <2>3
<1>g. Outside(nw)'
  <2>1. \A i \in 1..Len(ordered) : ordered[i] \in Events
    BY SeqFacts DEF Model, TypeOK
  <2> QED
    BY <2>1, <1>6, <1>b, <1>c DEF Outside, InCall
<1>h. Leaving'
  BY <1>6, <1>c DEF Leaving, InCall
<1>i. Loose(nw)'
  <2>1. \A i \in 1..Len(call.es) : call.es[i] \in Events
    BY SeqFacts DEF Model, TypeOK
  <2>2. Done' = Done
    <3>1. CASE pc = "relink"
      <4>1. pc \in InLock
        BY <3>1 DEF InLock, WritePcs
      <4>2. L \in Lists /\ lock[L] /\ now[L] \in Seq(Events)
        BY <4>1, InsideFacts
      <4>3. PICK l \in Lists, s \in Seq(Events) : l = L /\ s = now[l]
        BY <4>2
      <4> QED
        BY <4>2, <4>3, <1>4, MovedLocked
    <3>2. CASE pc # "relink"
      BY <3>2, <1>c DEF Done
    <3> QED
      BY <3>1, <3>2
  <2>3. pc \in {"age", "lock"} \cup InLock /\ ~Reading => Done \in Nat
    <3>1. CASE pc \in {"age", "lock"}
      BY <3>1 DEF Done, Model, TypeOK
    <3>2. CASE pc \in InLock /\ ~Reading
      BY <3>2, WriteFacts
    <3> QED
      BY <3>1, <3>2
  <2>4. pc \in {"age", "lock"} \cup InLock /\ ~Reading => \A i \in (Done + 1)..Len(call.es) : i \in 1..Len(call.es)
    BY <2>3
  <2> QED
    BY <2>1, <2>2, <2>4, <1>6, <1>b, <1>c DEF Loose
<1>j. Travel(nw)'
  <2>1. ASSUME NEW l \in Lists \ {"gcIn"}, NEW i \in 1..Len(nw[l]) PROVE nw[l][i] \in put
    <3>0. \A x \in Lists \ {"gcIn"} : \A j \in 1..Len(now[x]) : now[x][j] \in put
      BY <1>6 DEF Travel
    <3>1. CASE l = src
      BY <3>1, <1>9
    <3>2. CASE l = dst
      BY <3>0, <3>2, <1>5, <1>b
    <3>3. CASE l # src /\ l # dst
      BY <3>0, <3>3, <1>9
    <3> QED
      BY <3>1, <3>2, <3>3
  <2> QED
    BY <2>1, <1>6, <1>b, <1>c DEF Travel
<1>k. Locked(nw)'
  <2>1. ASSUME L \in Lists, lock[L]
        PROVE  /\ pc \in InLock => IF Reading THEN ReadState(nw[L])' ELSE WriteState(nw[L])'
               /\ pc = "dead" => IF Reading THEN DeadRead(nw[L])' ELSE DeadWrite(nw[L])'
    <3>1. L # src /\ L # dst
      BY <2>1, <1>1
    <3>2. PICK l \in Lists, s \in Seq(Events) : l = L /\ l = L' /\ s = now[l] /\ s = nw[l]
      BY <2>1, <3>1, <1>6, <1>9, <1>c
    <3>3. /\ pc \in InLock => IF Reading THEN ReadState(s)' ELSE WriteState(s)'
          /\ pc = "dead" => IF Reading THEN DeadRead(s)' ELSE DeadWrite(s)'
      BY <2>1, <3>2, <1>4, MovedLocked
    <3> QED
      BY <3>2, <3>3
  <2>2. pc \in InLock => L \in Lists /\ lock[L]
    BY InsideFacts
  <2> QED
    BY <2>1, <2>2, <1>c DEF Locked, L
<1>l. Good(nw)'
  BY <1>b, <1>e, <1>f, <1>g, <1>h, <1>i, <1>j, <1>k DEF Good
<1> QED
  BY <1>m, <1>d, <1>l DEF Inv

-----------------------------------------------------------------------------
(* The invariant.                                                          *)

\* The quiet states satisfy the invariant.
LEMMA InitInv ==
  ASSUME Init
  PROVE  Inv
<1>1. PICK now \in [Lists -> Ascending] :
       /\ \A l, m \in Lists : l # m => ToSet(now[l]) \cap ToSet(now[m]) = {}
       /\ owner = [e \in Events |-> IF \E l \in Lists : e \in ToSet(now[l]) THEN "sys" ELSE "att"]
       /\ \/ at = "none" /\ Owned = {} /\ now["cuIn"] = <<>>
          \/ at = "GC" /\ Owned # {} /\ now["cuIn"] = <<>>
          \/ at = "CU" /\ (Owned # {} \/ now["cuIn"] # <<>>)
       /\ next \in [Events -> Pointers]
       /\ \A l \in Lists : now[l] # <<>> => Linked(next, now[l]) /\ next[Last(now[l])] = NULL
       /\ prio \in [Events -> Priorities] /\ age \in [Events -> {"NEW", "USED"}]
       /\ \A e \in Owned : age[e] = IF at = "GC" THEN "NEW" ELSE "USED"
       /\ \A l \in Lists \ {"gcIn"} : \E h \in 0..Len(now[l]) : \A i \in 1..Len(now[l]) :
            age[now[l][i]] = "USED" /\ (IsHigh(now[l][i]) <=> i <= h)
       /\ first = [l \in Lists |-> IF now[l] = <<>> THEN NULL ELSE now[l][1]]
       /\ last = [l \in Lists |-> IF now[l] = <<>> THEN NULL ELSE Last(now[l])]
       /\ cnt = [l \in Lists |-> Len(now[l])]
       /\ lasthigh = [l \in Lists |-> IF l \in Outputs THEN NHigh(prio, now[l]) ELSE 0]
  BY DEF Init
<1>2. /\ put = {e \in Events : age[e] = "USED"} /\ lock = [l \in Lists |-> FALSE]
      /\ fixCnt = [l \in Lists |-> 0] /\ fixNum = [l \in Lists |-> 0]
      /\ fixStart = [l \in Lists |-> 0] /\ fixFirst = [l \in Lists |-> NULL]
      /\ fixCall = [l \in Lists |-> "READ"]
      /\ pc = "idle" /\ call = NoCall /\ k = 0 /\ before = <<>>
      /\ cleanup = FALSE /\ ordered = <<>>
  BY DEF Init
<1>3. \A l \in Lists :
        /\ now[l] \in Seq(Events) /\ Len(now[l]) \in Nat /\ Distinct(now[l])
        /\ ToSet(now[l]) = {now[l][i] : i \in 1..Len(now[l])} /\ \A i \in 1..Len(now[l]) : now[l][i] \in Events
        /\ (now[l] = <<>> <=> Len(now[l]) = 0)
  <2> SUFFICES ASSUME NEW l \in Lists
               PROVE  /\ now[l] \in Seq(Events) /\ Len(now[l]) \in Nat /\ Distinct(now[l])
                      /\ ToSet(now[l]) = {now[l][i] : i \in 1..Len(now[l])}
                      /\ \A i \in 1..Len(now[l]) : now[l][i] \in Events
                      /\ (now[l] = <<>> <=> Len(now[l]) = 0)
    OBVIOUS
  <2>1. now[l] \in Ascending
    OBVIOUS
  <2>2. now[l] \in Seq(Events)
    BY <2>1, AscendingIs
  <2> QED
    BY <2>1, <2>2, AscendingIs, SeqFacts
<1>4. now \in [Lists -> Seq(Events)]
  BY <1>3
<1>5. \A l \in Lists \ {"gcIn"} : \E h \in Nat : Ranks(now[l], h)
  <2> SUFFICES ASSUME NEW l \in Lists \ {"gcIn"} PROVE \E h \in Nat : Ranks(now[l], h)
    OBVIOUS
  <2>1. PICK h \in 0..Len(now[l]) : \A i \in 1..Len(now[l]) : IsHigh(now[l][i]) <=> i <= h
    BY <1>1
  <2>2. h \in Nat /\ Ranks(now[l], h)
    BY <2>1, <1>3 DEF Ranks
  <2> QED
    BY <2>2
<1>6. TypeOK
  <2>1. next \in [Events -> Pointers] /\ age \in [Events -> {"NEW", "USED"}]
    BY <1>1
  <2>2. owner \in [Events -> {"sys", "att"}]
    BY <1>1
  <2>3. prio \in [Events -> {"LOW", "HIGH"}]
    BY <1>1, ETRepairAssumption
  <2>4. first \in [Lists -> Pointers] /\ last \in [Lists -> Pointers]
    <3>1. ASSUME NEW l \in Lists, now[l] # <<>> PROVE now[l][1] \in Pointers /\ Last(now[l]) \in Pointers
      <4>1. 1 \in 1..Len(now[l]) /\ Len(now[l]) \in 1..Len(now[l])
        BY <3>1, <1>3
      <4> QED
        BY <4>1, <1>3, EventNumbers DEF Last
    <3> QED
      BY <3>1, <1>1, EventNumbers
  <2>5. cnt \in [Lists -> Nat]
    BY <1>1, <1>3
  <2>6. lasthigh \in [Lists -> Nat]
    <3>1. ASSUME NEW l \in Lists PROVE NHigh(prio, now[l]) \in Nat
      BY <1>3, NHighBounded
    <3> QED
      BY <3>1, <1>1
  <2>7. /\ lock \in [Lists -> BOOLEAN] /\ fixCnt \in [Lists -> Nat] /\ fixNum \in [Lists -> Nat]
        /\ fixStart \in [Lists -> Nat] /\ fixFirst \in [Lists -> Pointers]
        /\ fixCall \in [Lists -> {"READ", "DUMP"}]
    BY <1>2, EventNumbers
  <2>8. /\ at \in {"none", "GC", "CU"} /\ pc \in Active \cup {"idle", "dead"}
        /\ k \in Nat /\ before \in Seq(Events) /\ put \in SUBSET Events
        /\ cleanup \in BOOLEAN /\ ordered \in Seq(Events)
    <3>1. at \in {"none", "GC", "CU"}
      BY <1>1
    <3>2. pc \in Active \cup {"idle", "dead"} /\ put \in SUBSET Events /\ cleanup \in BOOLEAN
      BY <1>2
    <3>3. k \in Nat /\ before \in Seq(Events) /\ ordered \in Seq(Events)
      BY <1>2
    <3> QED
      BY <3>1, <3>2, <3>3
  <2>9. call \in [op : Ops, list : Lists \cup {"none"}, es : Seq(Events), n : Nat, one : BOOLEAN]
    BY <1>2 DEF NoCall, Ops
  <2> QED
    BY <2>1, <2>2, <2>3, <2>4, <2>5, <2>6, <2>7, <2>8, <2>9 DEF TypeOK
<1>7. /\ pc \notin InLock \cup {"dead", "lock"} /\ pc \notin Active /\ pc \notin Post
      /\ pc \notin ReadPcs \cup WritePcs \cup {"iNext", "iPrio", "iAge", "age", "lock"}
      /\ ~Reading /\ call.op = "none" /\ call.list = "none" /\ call.one = FALSE
      /\ \A l \in Lists : ~lock[l]
  BY <1>2 DEF InLock, ReadPcs, WritePcs, Active, Post, Reading, NoCall
<1>8. \A e \in Events : Off(now, e) <=> owner[e] = "att"
  <2>1. \A e \in Events : Off(now, e) <=> ~ \E l \in Lists : e \in ToSet(now[l])
    BY <1>3 DEF Off
  <2> QED
    BY <2>1, <1>1
<1>9. Control
  <2>1. at = "none" => \A e \in Events : owner[e] = "sys"
    <3>1. at = "none" => Owned = {}
      BY <1>1
    <3> QED
      BY <3>1, <1>6 DEF Owned, TypeOK
  <2> QED
    BY <2>1, <1>2, <1>7 DEF Control
<1>a. Apart(now)
  <2> SUFFICES ASSUME NEW l \in Lists, NEW m \in Lists, NEW i \in 1..Len(now[l]), NEW j \in 1..Len(now[m]),
                      now[l][i] = now[m][j]
               PROVE  l = m /\ i = j
    BY DEF Apart
  <2>1. now[l][i] \in ToSet(now[l]) /\ now[m][j] \in ToSet(now[m])
    BY <1>3
  <2>2. l = m
    BY <2>1, <1>1
  <2> QED
    BY <2>2, <1>3 DEF Distinct
<1>b. Free(now)
  <2> SUFFICES ASSUME NEW l \in Lists
               PROVE  Held(l, now[l]) /\ fixStart[l] = 0 /\ fixFirst[l] = NULL
    BY DEF Free
  <2>1. fixStart[l] = 0 /\ fixFirst[l] = NULL /\ cnt[l] = Len(now[l])
    BY <1>1, <1>2
  <2>2. Linked(next, now[l])
    <3>1. CASE now[l] = <<>>
      BY <3>1 DEF Linked
    <3>2. CASE now[l] # <<>>
      BY <3>2, <1>1
    <3> QED
      BY <3>1, <3>2
  <2>3. Ends(l, now[l])
    BY <1>1 DEF Ends, Last
  <2>4. Sorted(l, now[l])
    BY <1>5 DEF Sorted
  <2>5. Counted(l, now[l])
    <3> SUFFICES ASSUME l \in Outputs PROVE Ranks(now[l], lasthigh[l])
      BY DEF Counted
    <3>1. l # "gcIn"
      BY DEF Outputs
    <3>2. PICK h \in Nat : Ranks(now[l], h)
      BY <3>1, <1>5
    <3>3. NHigh(prio, now[l]) = h
      BY <3>2, <1>3, NHighIs DEF Ranks, IsHigh
    <3> QED
      BY <3>2, <3>3, <1>1
  <2>6. Given(now[l])
    <3> SUFFICES ASSUME NEW i \in 1..Len(now[l]) PROVE owner[now[l][i]] = "sys"
      BY DEF Given
    <3>1. now[l][i] \in Events /\ now[l][i] \in ToSet(now[l])
      BY <1>3
    <3> QED
      BY <3>1, <1>1
  <2> QED
    BY <2>1, <2>2, <2>3, <2>4, <2>5, <2>6 DEF Held
<1>c. Outside(now)
  BY <1>2, <1>7, <1>8 DEF Outside, Distinct
<1>d. Leaving /\ Loose(now) /\ Locked(now)
  BY <1>2, <1>7 DEF Leaving, Loose, Locked, Post
<1>e. Travel(now)
  <2>1. ASSUME NEW l \in Lists \ {"gcIn"}, NEW i \in 1..Len(now[l]) PROVE now[l][i] \in put
    BY <1>1, <1>2, <1>3
  <2>2. ASSUME at = "CU", NEW e \in Events, Off(now, e) PROVE e \in put
    <3>1. e \in Owned
      BY <2>2, <1>8 DEF Owned
    <3> QED
      BY <2>2, <3>1, <1>1, <1>2
  <2> QED
    BY <2>1, <2>2, <1>7 DEF Travel
<1>f. Good(now)
  BY <1>9, <1>a, <1>b, <1>c, <1>d, <1>e DEF Good
<1> QED
  BY <1>4, <1>6, <1>f DEF Inv

\* A step that changes nothing.
LEMMA StutterInv ==
  ASSUME Inv, UNCHANGED vars
  PROVE  Inv'
<1>1. /\ next' = next /\ owner' = owner /\ prio' = prio /\ age' = age
      /\ first' = first /\ last' = last /\ cnt' = cnt /\ lasthigh' = lasthigh /\ lock' = lock
      /\ fixCnt' = fixCnt /\ fixNum' = fixNum /\ fixStart' = fixStart /\ fixFirst' = fixFirst
      /\ fixCall' = fixCall /\ at' = at /\ put' = put /\ cleanup' = cleanup /\ ordered' = ordered
      /\ pc' = pc /\ call' = call /\ k' = k /\ before' = before
  BY DEF vars, evVars, listVars, fixVars, userVars
<1>2. TypeOK'
  BY <1>1 DEF Inv, TypeOK
<1>3. PICK now \in [Lists -> Seq(Events)] : Good(now)
  BY DEF Inv
<1>4. Control' /\ Leaving'
  BY <1>1, <1>3 DEF Good, Control, Leaving, InCall, Reading
<1>5. \A l \in Lists, s \in Seq(Events) : Held(l, s)' <=> Held(l, s)
  BY <1>1 DEF Held, Ends, Sorted, Counted, Ranks, IsHigh, Given
<1>6. Apart(now)' /\ Free(now)'
  BY <1>1, <1>3, <1>5 DEF Good, Apart, Free
<1>7. Outside(now)' /\ Travel(now)'
  BY <1>1, <1>3 DEF Good, Outside, InCall, Travel, Reading, L
<1>8. Done' = Done
  BY <1>1 DEF Done, L
<1>9. Loose(now)'
  BY <1>1, <1>3, <1>8 DEF Good, Loose, Reading
<1>a. Locked(now)'
  <2>1. pc \in InLock \/ (pc = "dead" /\ call.list \in Lists) => L \in Lists
    BY <1>3 DEF Good, Control, L, Active
  <2>2. ASSUME NEW s \in Seq(Events), L \in Lists
        PROVE  /\ ReadState(s)' <=> ReadState(s)
               /\ DeadRead(s)' <=> DeadRead(s)
               /\ DeadWrite(s)' <=> DeadWrite(s)
               /\ WriteState(s)' <=> WriteState(s)
    <3>1. ReadState(s)' <=> ReadState(s)
      BY <1>1 DEF ReadState, Sorted, Ranks, IsHigh, Given, Rest, L
    <3>2. Held(L, s)' <=> Held(L, s)
      BY <1>1 DEF Held, Ends, Sorted, Counted, Ranks, IsHigh, Given, L
    <3>3. DeadRead(s)' <=> DeadRead(s)
      BY <1>1, <3>2 DEF DeadRead, Sorted, Ranks, IsHigh, Rest, L
    <3>4. DeadWrite(s)' <=> DeadWrite(s)
      BY <1>1, <3>2 DEF DeadWrite, Sorted, Ranks, IsHigh, L
    <3>5. WriteState(s)' <=> WriteState(s)
      BY <1>1, <1>8, <3>2
      DEF WriteState, Ends, Sorted, Counted, Ranks, IsHigh, Given, Spot, Ranked, OwnerFirst, E, L
    <3> QED
      BY <3>1, <3>3, <3>4, <3>5
  <2>3. Locked(now)
    BY <1>3 DEF Good
  <2>4. L' = L /\ (Reading' <=> Reading)
    BY <1>1 DEF L, Reading
  <2>5. ASSUME L \in Lists
        PROVE  \E s \in Seq(Events) : s = now[L] /\ s = now[L]'
    BY <2>4, <2>5, <1>3
  <2> QED
    BY <2>1, <2>2, <2>3, <2>4, <2>5, <1>1 DEF Locked, L
<1> QED
  BY <1>2, <1>3, <1>4, <1>6, <1>7, <1>9, <1>a DEF Inv, Good

\* Every store keeps it.
LEMMA StoresInv ==
  ASSUME NEW now, Model(now), Stores
  PROVE  Inv'
<1>1. CASE Age \/ GiveUp \/ Lock
  BY <1>1, AgeStep, GiveUpStep, LockStep
<1>2. CASE RNum \/ RCnt \/ RCall \/ RFix \/ Take \/ First \/ Less \/ REnd
  BY <1>2, RNumStep, RCntStep, RCallStep, RFixStep, TakeStep, FirstStep, LessStep, REndStep
<1>3. CASE Null \/ WCnt \/ WNum \/ WCall \/ Start \/ WEnd
  BY <1>3, NullStep, WCntStep, WNumStep, WCallStep, StartStep, WEndStep
<1>4. CASE Link \/ Relink \/ High \/ Give \/ More
  BY <1>4, LinkStep, RelinkStep, HighStep, GiveStep, MoreStep
<1>5. CASE Unlock \/ INext \/ IPrio \/ IAge \/ Return
  BY <1>5, UnlockStep, INextStep, IPrioStep, IAgeStep, ReturnStep
<1> QED
  BY <1>1, <1>2, <1>3, <1>4, <1>5 DEF Stores

\* Every step keeps it.
LEMMA NextInv ==
  ASSUME Inv, [Next]_vars
  PROVE  Inv'
<1>1. PICK now : Model(now)
  BY DEF Inv, Model
<1>2. ASSUME NEW s \in {"GC", "CU"}, Attach(s) \/ Conduct(s) PROVE Inv'
  BY <1>1, <1>2, AttachStep, ConductStep
<1>3. ASSUME NEW n \in 1..MaxBatch, New(n) \/ Get(n) PROVE Inv'
  BY <1>1, <1>3, NewStep
<1>4. ASSUME NEW es \in Batches, Put(es) \/ Dump(es) PROVE Inv'
  BY <1>1, <1>4, PutStep
<1>5. ASSUME NEW e \in Owned, NEW p \in Priorities, SetPriority(e, p) PROVE Inv'
  BY <1>1, <1>5, SetPriorityStep
<1>6. CASE Stores
  BY <1>1, <1>6, StoresInv
<1>7. CASE Detach \/ Crash
  BY <1>1, <1>7, DetachStep, CrashStep
<1>8. CASE HeartMonitor
  BY <1>1, <1>8, RepairStep, FlushStep, CollectStep, RestoreStep, DetachedStep DEF HeartMonitor
<1>9. CASE UNCHANGED vars
  BY <1>9, StutterInv
<1> QED
  BY <1>2, <1>3, <1>4, <1>5, <1>6, <1>7, <1>8, <1>9 DEF Next

-----------------------------------------------------------------------------
(* Calls are atomic.                                                       *)

\* Only the end of a call and the repair release a mutex.
LEMMA LocksKept ==
  ASSUME TypeOK, Next, ~Unlock, ~Repair, NEW l \in Lists, lock[l]
  PROVE  lock'[l]
<1>1. lock' = lock => lock'[l]
  OBVIOUS
<1>2. CASE Stores
  <2>1. CASE Lock
    <3>1. lock' = [lock EXCEPT ![L] = TRUE] /\ lock \in [Lists -> BOOLEAN]
      BY <2>1 DEF Lock, TypeOK
    <3> QED
      BY <3>1
  <2>2. CASE Age \/ GiveUp \/ RNum \/ RCnt \/ RCall \/ RFix \/ Take \/ First \/ Less \/ REnd
    BY <1>1, <2>2 DEF Age, GiveUp, RNum, RCnt, RCall, RFix, Take, First, Less, REnd, listVars
  <2>3. CASE Null \/ WCnt \/ WNum \/ WCall \/ Start \/ WEnd
    BY <1>1, <2>3 DEF Null, WCnt, WNum, WCall, Start, WEnd, listVars
  <2>4. CASE Link \/ Relink \/ High \/ Give \/ More
    BY <1>1, <2>4 DEF Link, Relink, High, Give, More, listVars
  <2>5. CASE INext \/ IPrio \/ IAge \/ Return
    BY <1>1, <2>5 DEF INext, IPrio, IAge, Return, listVars
  <2> QED
    BY <1>2, <2>1, <2>2, <2>3, <2>4, <2>5 DEF Stores
<1>3. CASE Detach \/ Crash
  BY <1>1, <1>3 DEF Detach, Begin, Open, Crash, listVars
<1>4. CASE HeartMonitor
  <2>1. CASE Flush \/ Restore \/ Detached
    BY <1>1, <2>1 DEF Flush, Restore, Detached, Open, listVars
  <2>2. CASE Collect
    <3>1. UNCHANGED listVars
      BY <2>2 DEF Collect, Open
    <3> QED
      BY <1>1, <3>1 DEF listVars
  <2> QED
    BY <1>4, <2>1, <2>2 DEF HeartMonitor
<1>5. ASSUME NEW s \in {"GC", "CU"}, Attach(s) \/ Conduct(s) PROVE lock'[l]
  BY <1>1, <1>5 DEF Attach, Conduct, listVars
<1>6. ASSUME NEW n \in 1..MaxBatch, New(n) \/ Get(n) PROVE lock'[l]
  BY <1>1, <1>6 DEF New, Get, Begin, Open, listVars
<1>7. ASSUME NEW es \in Batches, Put(es) \/ Dump(es) PROVE lock'[l]
  BY <1>1, <1>7 DEF Put, Dump, Begin, Open, listVars
<1>8. ASSUME NEW e \in Owned, NEW p \in Priorities, SetPriority(e, p) PROVE lock'[l]
  BY <1>1, <1>8 DEF SetPriority, listVars
<1> QED
  BY <1>2, <1>3, <1>4, <1>5, <1>6, <1>7, <1>8 DEF Next

\* What CallsAtomic says of a step.
Whole(l) ==
  IF Reading
    THEN \E i \in {0, call.n} :
           /\ Contents(l)' = SubSeq(before, i + 1, Len(before))
           /\ pc # "dead" => i = call.n
    ELSE \E i \in 0..call.n :
           /\ Contents(l)' = Written(prio, l, before, call.es)[i]
           /\ pc # "dead" => i = call.n

\* A call that ends has happened as a whole.
LEMMA UnlockWhole ==
  ASSUME NEW now, Model(now), Unlock, NEW l \in Lists, lock[l]
  PROVE  Whole(l)
<1>1. pc = "unlock" /\ pc \in InLock /\ pc # "dead" /\ UNCHANGED <<next, first, cnt>>
  BY DEF Unlock, InLock, evVars
<1>2. l = L /\ call.n \in Nat /\ now[l] \in Seq(Events) /\ IF Reading THEN ReadState(now[l]) ELSE WriteState(now[l])
  BY <1>1, InsideFacts
<1>3. PICK s \in Seq(Events) : s = now[l]
  BY <1>2
<1>4. CASE Reading
  <2>1. ReadState(s)
    BY <1>2, <1>3, <1>4
  <2>2. Linked(next, s) /\ cnt[l] = Len(s) /\ (s # <<>> => first[l] = s[1]) /\ s = Rest
    BY <1>1, <1>2, <2>1 DEF ReadState
  <2>3. Chain(next, first[l], Len(s)) = s
    BY <2>2, ContentsAre
  <2>4. Contents(l)' = s
    BY <1>1, <2>2, <2>3 DEF Contents
  <2> QED
    BY <1>4, <2>2, <2>4 DEF Whole, Rest
<1>5. CASE ~Reading
  <2>1. WriteState(s)
    BY <1>2, <1>3, <1>5
  <2>2. Done = k
    BY <1>1 DEF Done
  <2>3. Held(L, s) /\ k = call.n /\ s = Written(prio, L, before, call.es)[k]
    BY <1>1, <2>1, <2>2 DEF WriteState
  <2>4. Linked(next, s) /\ cnt[l] = Len(s) /\ (s # <<>> => first[l] = s[1])
    BY <1>2, <2>3 DEF Held, Ends
  <2>5. Chain(next, first[l], Len(s)) = s
    BY <2>4, ContentsAre
  <2>6. Contents(l)' = s
    BY <1>1, <2>4, <2>5 DEF Contents
  <2>7. call.n \in 0..call.n
    BY <1>2
  <2> QED
    BY <1>2, <1>5, <2>3, <2>6, <2>7 DEF Whole
<1> QED
  BY <1>4, <1>5

\* After a repair it has happened as CallsAtomic says.
LEMMA RepairWhole ==
  ASSUME NEW now, Model(now), Repair, NEW l \in Lists, lock[l]
  PROVE  Whole(l)
<1>1. pc = "dead" /\ next' = next /\ prio' = prio
  BY DEF Repair
<1>2. PICK m \in Lists : lock[m] /\ RepairList(m)
  BY DEF Repair
<1>3. m = l
  BY <1>1, <1>2, DeadFacts
<1>4. /\ l = L /\ now[l] \in Seq(Events) /\ before \in Seq(Events) /\ Len(before) \in Nat
      /\ IF Reading THEN DeadRead(now[l]) ELSE DeadWrite(now[l])
  BY <1>1, DeadFacts
<1>5. Mended(l, now[l])
  BY <1>1, <1>2, <1>3, RepairIs
<1>6. Held(l, now[l])'
  BY <1>1, <1>5, MendedHeld
<1>7. PICK s \in Seq(Events) : s = now[l]
  BY <1>4
<1>8. Contents(l)' = s
  <2>1. Linked(next', s) /\ cnt'[l] = Len(s) /\ (s # <<>> => first'[l] = s[1])
    BY <1>6, <1>7 DEF Held, Ends
  <2>2. Chain(next', first'[l], Len(s)) = s
    BY <2>1, ContentsAre
  <2> QED
    BY <2>1, <2>2 DEF Contents
<1>9. CASE Reading
  <2>1. s \in {before, Rest}
    BY <1>4, <1>7, <1>9 DEF DeadRead
  <2>2. SubSeq(before, 0 + 1, Len(before)) = before
    BY <1>4
  <2> QED
    BY <1>1, <1>8, <1>9, <2>1, <2>2 DEF Whole, Rest
<1>a. CASE ~Reading
  <2>1. \E i \in 0..call.n : s = Written(prio, l, before, call.es)[i]
    BY <1>4, <1>7, <1>a DEF DeadWrite
  <2> QED
    BY <1>1, <1>8, <1>a, <2>1 DEF Whole
<1> QED
  BY <1>9, <1>a

\* No other step releases a mutex.
LEMMA StepWhole ==
  ASSUME Inv, [Next]_vars
  PROVE  [\A l \in Lists : lock[l] /\ ~lock'[l] => Whole(l)]_vars
<1> SUFFICES ASSUME Next, NEW l \in Lists, lock[l], ~lock'[l] PROVE Whole(l)
  OBVIOUS
<1>1. PICK now : Model(now)
  BY DEF Inv, Model
<1>2. Unlock \/ Repair
  BY LocksKept DEF Inv
<1> QED
  BY <1>1, <1>2, UnlockWhole, RepairWhole

-----------------------------------------------------------------------------
(* Theorems.                                                               *)

\* The invariant holds: whatever the user, the conductors and the heart
\* monitor do, every list stands for one sequence of events at every store.
THEOREM Invariance == Spec => []Inv
<1>1. Init => Inv
  BY InitInv
<1>2. Inv /\ [Next]_vars => Inv'
  BY NextInv
<1> QED
  BY <1>1, <1>2, PTL DEF Spec

\* "the repair functions will be able to return a station to a fully
\* operational, self-consistent state" (et_readwrite.c): every list nobody
\* has locked is sound, wherever its user was killed.
THEOREM Sound == Spec => []ListsSound
<1>1. Inv => ListsSound
  BY ModelSound DEF Inv, Model
<1> QED
  BY <1>1, Invariance, PTL

\* No event leaks and none is in two places (et_readwrite.c, et_restore_events).
THEOREM Conserved == Spec => []EventsConserved
<1>1. Inv => EventsConserved
  BY ModelConserved DEF Inv, Model
<1> QED
  BY <1>1, Invariance, PTL

\* Only events that were put reach CHICAGO_UNION: those a dead producer never
\* put are dumped (et_restore_events).
THEOREM OnlyPut == Spec => []OnlyPutEventsTravel
<1>1. Inv => OnlyPutEventsTravel
  BY ModelTravel DEF Inv, Model
<1> QED
  BY <1>1, Invariance, PTL

\* A read of a list takes all its events or none and a write appends a prefix
\* of its events, also when the user is killed and the list repaired.
THEOREM Atomic == Spec => CallsAtomic
<1>1. Inv /\ [Next]_vars =>
        [\A l \in Lists : lock[l] /\ ~lock'[l] =>
           IF Reading
             THEN \E i \in {0, call.n} :
                    /\ Contents(l)' = SubSeq(before, i + 1, Len(before))
                    /\ pc # "dead" => i = call.n
             ELSE \E i \in 0..call.n :
                    /\ Contents(l)' = Written(prio, l, before, call.es)[i]
                    /\ pc # "dead" => i = call.n]_vars
  BY StepWhole DEF Whole
<1> QED
  BY <1>1, Invariance, PTL DEF Spec, CallsAtomic

=============================================================================
