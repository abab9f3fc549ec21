-------------------------- MODULE ToolServerProofs --------------------------
(***************************************************************************)
(* Proofs about ToolServer, for every set of workers, queries and pages,   *)
(* every request, all lifetimes, limits and deadlines, and every fault.    *)
(***************************************************************************)
EXTENDS ToolServer, FiniteSetTheorems, SequenceTheorems, TLAPS

(* Induction over numbers, as the least counterexample.                    *)

\* The order of the numbers as a relation.
LEMMA NatOrder == \E R : IsWellFoundedOn(R, Nat) /\ \A x, y \in Nat : y < x => <<y, x>> \in R
<1>1. IsWellFoundedOn(OpToRel(<, Nat), Nat)  BY NatLessThanWellFounded
<1>2. \A x, y \in Nat : y < x => <<y, x>> \in OpToRel(<, Nat)  BY DEF OpToRel
<1> QED  BY <1>1, <1>2, Zenon

\* A set of numbers has a least one.
LEMMA LeastNumber ==
  ASSUME NEW S \in SUBSET Nat, S /= {}
  PROVE  \E x \in S : \A y \in S : x <= y
<1>1. PICK R : IsWellFoundedOn(R, Nat) /\ \A x, y \in Nat : y < x => <<y, x>> \in R
  BY NatOrder
<1>2. PICK x \in S : \A y \in S : ~(<<y, x>> \in R)  BY <1>1, WFMin
<1>3. \A y \in S : ~(y < x)  BY <1>1, <1>2
<1>4. \A y \in S : x <= y  BY <1>3
<1> QED  BY <1>4

\* What holds at 0, and at a number when it does at the one before, holds throughout.
LEMMA Throughout ==
  ASSUME NEW n \in Nat, NEW S, 0 \in S, \A i \in 1..n : i - 1 \in S => i \in S
  PROVE  \A i \in 0..n : i \in S
<1> DEFINE bad == {i \in 0..n : i \notin S}
<1>1. ASSUME bad /= {} PROVE FALSE
  <2>1. bad \in SUBSET Nat  OBVIOUS
  <2>2. PICK m \in bad : \A y \in bad : m <= y
    <3> HIDE DEF bad
    <3> QED  BY <1>1, <2>1, LeastNumber
  <2>3. m \in 1..n /\ m \notin S  BY <2>2
  <2>4. m - 1 \in 0..n /\ ~(m <= m - 1)  BY <2>3
  <2>5. m - 1 \in S  BY <2>2, <2>4
  <2> QED  BY <2>3, <2>5
<1> QED  BY <1>1

\* A step on values, taken n times, has its course.
LEMMA Course ==
  ASSUME NEW V, NEW v0 \in V, NEW n \in Nat, NEW g \in [1..n -> [V -> V]]
  PROVE  \E f \in [0..n -> V] : f[0] = v0 /\ \A i \in 1..n : f[i] = g[i][f[i - 1]]
<1> DEFINE Runs(m) == \E f \in [0..m -> V] : f[0] = v0 /\ \A i \in 1..m : f[i] = g[i][f[i - 1]]
           S       == {m \in 0..n : Runs(m)}
<1>1. Runs(0)
  <2> DEFINE f == [i \in 0..0 |-> v0]
  <2>1. f \in [0..0 -> V] /\ f[0] = v0  OBVIOUS
  <2>2. \A i \in 1..0 : f[i] = g[i][f[i - 1]]  OBVIOUS
  <2> QED  BY <2>1, <2>2
<1>2. ASSUME NEW m \in 1..n, Runs(m - 1) PROVE Runs(m)
  <2>1. PICK f \in [0..(m - 1) -> V] : f[0] = v0 /\ \A i \in 1..(m - 1) : f[i] = g[i][f[i - 1]]
    BY <1>2
  <2> DEFINE h == [i \in 0..m |-> IF i = m THEN g[m][f[m - 1]] ELSE f[i]]
  <2>2. f[m - 1] \in V /\ g[m] \in [V -> V] /\ g[m][f[m - 1]] \in V  BY <2>1
  <2>3. h \in [0..m -> V]  BY <2>1, <2>2
  <2>4. h[0] = v0 /\ \A i \in 1..m : h[i] = g[i][h[i - 1]]  BY <2>1
  <2> QED  BY <2>3, <2>4
<1>3. 0 \in S
  <2> HIDE DEF Runs
  <2> QED  BY <1>1
<1>4. \A i \in 1..n : i - 1 \in S => i \in S
  <2> HIDE DEF Runs
  <2> QED  BY <1>2
<1>5. \A i \in 0..n : i \in S
  <2> HIDE DEF S
  <2> QED  BY <1>3, <1>4, Throughout
<1> QED  BY <1>5
-----------------------------------------------------------------------------
(* The caches of the workers.                                              *)

Caches == {c \in Seq(Keys) : Len(c) <= l1Size}

\* A cache with a key at its end that was in it or for which there is room.
LEMMA L1Step ==
  ASSUME l1Size \in Nat, NEW cache \in Caches, NEW k \in Keys
  PROVE  L1Get(cache, k) \in Caches /\ L1Set(cache, k) \in Caches /\ Keeping(cache, k) \in Caches
<1>1. cache \in Seq(Keys) /\ Len(cache) \in Nat /\ Len(cache) <= l1Size /\ DOMAIN cache = 1..Len(cache)
  BY LenProperties DEF Caches
<1>2. L1Get(cache, k) \in Caches
  <2>1. CASE ~Contains(cache, k)  BY <2>1 DEF L1Get
  <2>2. CASE Contains(cache, k)
    <3> DEFINE p    == Place(cache, k)
               rest == RemoveAt(cache, p)
    <3>1. p \in 1..Len(cache)  BY <1>1, <2>2 DEF Contains, Place
    <3> HIDE DEF p
    <3>2. /\ SubSeq(cache, 1, p - 1) \in Seq(Keys) /\ Len(SubSeq(cache, 1, p - 1)) = p - 1
      BY <1>1, <3>1, ElementOfSeq, SubSeqProperties
    <3>3. /\ SubSeq(cache, p + 1, Len(cache)) \in Seq(Keys)
          /\ Len(SubSeq(cache, p + 1, Len(cache))) = Len(cache) - p
      <4>1. \A i \in (p + 1)..Len(cache) : cache[i] \in Keys  BY <1>1, <3>1, ElementOfSeq
      <4>2. p + 1 \in Int /\ Len(cache) \in Int  BY <1>1, <3>1
      <4>3. /\ SubSeq(cache, p + 1, Len(cache)) \in Seq(Keys)
            /\ Len(SubSeq(cache, p + 1, Len(cache))) =
                 IF p + 1 <= Len(cache) THEN Len(cache) - (p + 1) + 1 ELSE 0
        BY <4>1, <4>2, SubSeqProperties
      <4>4. Len(cache) \in Nat /\ p \in 1..Len(cache)  BY <1>1, <3>1
      <4>5. p + 1 <= Len(cache) => Len(cache) - (p + 1) + 1 = Len(cache) - p  BY ONLY <4>4
      <4>6. ~(p + 1 <= Len(cache)) => Len(cache) - p = 0  BY ONLY <4>4
      <4> QED  BY ONLY <4>3, <4>5, <4>6
    <3>4. rest \in Seq(Keys) /\ Len(rest) = Len(cache) - 1
      <4>1. rest = SubSeq(cache, 1, p - 1) \o SubSeq(cache, p + 1, Len(cache))  BY DEF RemoveAt
      <4>2. rest \in Seq(Keys)
            /\ Len(rest) = Len(SubSeq(cache, 1, p - 1)) + Len(SubSeq(cache, p + 1, Len(cache)))
        BY <3>2, <3>3, <4>1, ConcatProperties
      <4>3. Len(rest) = (p - 1) + (Len(cache) - p)  BY <3>2, <3>3, <4>2
      <4>4. Len(cache) \in Nat /\ p \in 1..Len(cache)  BY <1>1, <3>1
      <4>5. (p - 1) + (Len(cache) - p) = Len(cache) - 1  BY ONLY <4>4
      <4> QED  BY <4>2, <4>3, <4>5
    <3> HIDE DEF rest
    <3>5. Append(rest, k) \in Seq(Keys) /\ Len(Append(rest, k)) = Len(cache)
      <4>1. Append(rest, k) \in Seq(Keys) /\ Len(Append(rest, k)) = Len(rest) + 1
        BY <3>4, AppendProperties
      <4> QED  BY <1>1, <3>1, <3>4, <4>1
    <3>6. L1Get(cache, k) = Append(rest, k)  BY <2>2 DEF L1Get, rest, p
    <3> QED  BY <1>1, <3>5, <3>6 DEF Caches
  <2> QED  BY <2>1, <2>2
<1>3. L1Set(cache, k) \in Caches
  <2>1. CASE l1Size = 0 \/ Contains(cache, k)  BY <1>2, <2>1 DEF L1Set
  <2>2. CASE l1Size /= 0 /\ ~Contains(cache, k)
    <3> DEFINE rest == IF Len(cache) >= l1Size THEN Tail(cache) ELSE cache
    <3>1. rest \in Seq(Keys) /\ Len(rest) \in Nat /\ Len(rest) < l1Size
      <4>1. CASE Len(cache) >= l1Size
        <5>1. cache /= <<>>  BY <1>1, <2>2, <4>1
        <5>2. Tail(cache) \in Seq(Keys) /\ Len(Tail(cache)) = Len(cache) - 1
          BY <1>1, <5>1, HeadTailProperties
        <5> QED  BY <1>1, <2>2, <4>1, <5>2
      <4>2. CASE ~(Len(cache) >= l1Size)  BY <1>1, <4>2
      <4> QED  BY <4>1, <4>2
    <3>2. L1Set(cache, k) = Append(rest, k)  BY <2>2 DEF L1Set
    <3> HIDE DEF rest
    <3>3. Append(rest, k) \in Seq(Keys) /\ Len(Append(rest, k)) = Len(rest) + 1
      BY <3>1, AppendProperties
    <3> QED  BY <3>1, <3>2, <3>3 DEF Caches
  <2> QED  BY <2>1, <2>2
<1> QED  BY <1>2, <1>3 DEF Keeping
LEMMA CacheCourse ==
  ASSUME NEW v \in Caches, NEW m \in Nat, NEW h \in [1..m -> [Caches -> Caches]]
  PROVE  \E f \in [0..m -> Caches] : f[0] = v /\ \A i \in 1..m : f[i] = h[i][f[i - 1]]
BY Course

\* A lookup of any keys leaves a cache within its limit.
LEMMA LookupStep ==
  ASSUME l1Size \in Nat, NEW cache \in Caches, NEW keys \in Seq(Keys)
  PROVE  AfterLookup(cache, keys) \in Caches
<1> DEFINE n    == Len(keys)
           Read(h) == h = [i \in 0..n |-> IF i = 0 THEN cache ELSE L1Get(h[i - 1], keys[i])]
           read == CHOOSE h : Read(h)
           Kept(h) == h = [i \in 0..n |-> IF i = 0 THEN read[n] ELSE Keeping(h[i - 1], keys[i])]
           kept == CHOOSE h : Kept(h)
<1>1. n \in Nat /\ \A i \in 1..n : keys[i] \in Keys  BY LenProperties, ElementOfSeq
<1>c. cache \in Caches  OBVIOUS
<1>2. Read(read)
  <2> DEFINE g == [i \in 1..n |-> [v \in Caches |-> L1Get(v, keys[i])]]
  <2>1. g \in [1..n -> [Caches -> Caches]]  BY <1>1, L1Step
  <2>2. PICK f \in [0..n -> Caches] : f[0] = cache /\ \A i \in 1..n : f[i] = g[i][f[i - 1]]
    <3> HIDE DEF g, n
    <3>1. n \in Nat  BY <1>1
    <3> QED  BY ONLY <1>c, <2>1, <3>1, CacheCourse, ZenonT(60)
  <2>3. ASSUME NEW i \in 1..n PROVE f[i] = L1Get(f[i - 1], keys[i])
    <3>1. i - 1 \in 0..n  BY <1>1
    <3>2. f[i - 1] \in Caches  BY <2>2, <3>1, Zenon
    <3>3. g[i] = [v \in Caches |-> L1Get(v, keys[i])]  OBVIOUS
    <3> QED  BY <2>2, <3>2, <3>3
  <2>4. Read(f)  BY <1>1, <2>2, <2>3
  <2> HIDE DEF Read
  <2> QED  BY <2>4
<1>3. read[n] \in Caches
  <2> DEFINE S == {i \in 0..n : read[i] \in Caches}
  <2>1. /\ read[0] = cache /\ \A i \in 1..n : read[i] = L1Get(read[i - 1], keys[i])
    <3> HIDE DEF read
    <3> QED  BY <1>1, <1>2
  <2> HIDE DEF read
  <2>2. 0 \in S  BY <1>1, <2>1
  <2>3. ASSUME NEW i \in 1..n, i - 1 \in S PROVE i \in S
    <3>1. read[i - 1] \in Caches  BY <2>3
    <3>2. keys[i] \in Keys /\ read[i] = L1Get(read[i - 1], keys[i])  BY <1>1, <2>1
    <3>3. read[i] \in Caches  BY <3>1, <3>2, L1Step
    <3> QED  BY <1>1, <3>3
  <2>4. \A i \in 0..n : i \in S
    <3> HIDE DEF S
    <3> QED  BY <1>1, <2>2, <2>3, Throughout
  <2> QED  BY <1>1, <2>4
<1> HIDE DEF read
<1>4. Kept(kept)
  <2> DEFINE g == [i \in 1..n |-> [v \in Caches |-> Keeping(v, keys[i])]]
  <2>1. g \in [1..n -> [Caches -> Caches]]  BY <1>1, L1Step
  <2>2. PICK f \in [0..n -> Caches] : f[0] = read[n] /\ \A i \in 1..n : f[i] = g[i][f[i - 1]]
    <3> HIDE DEF g, n
    <3>1. n \in Nat  BY <1>1
    <3> QED  BY ONLY <1>3, <2>1, <3>1, CacheCourse, ZenonT(60)
  <2>3. ASSUME NEW i \in 1..n PROVE f[i] = Keeping(f[i - 1], keys[i])
    <3>1. i - 1 \in 0..n  BY <1>1
    <3>2. f[i - 1] \in Caches  BY <2>2, <3>1, Zenon
    <3>3. g[i] = [v \in Caches |-> Keeping(v, keys[i])]  OBVIOUS
    <3> QED  BY <2>2, <3>2, <3>3
  <2>4. Kept(f)  BY <1>1, <2>2, <2>3
  <2> HIDE DEF Kept
  <2> QED  BY <2>4
<1>5. kept[n] \in Caches
  <2> DEFINE S == {i \in 0..n : kept[i] \in Caches}
  <2>1. /\ kept[0] = read[n] /\ \A i \in 1..n : kept[i] = Keeping(kept[i - 1], keys[i])
    <3> HIDE DEF kept
    <3> QED  BY <1>1, <1>4
  <2> HIDE DEF kept
  <2>2. 0 \in S  BY <1>1, <1>3, <2>1
  <2>3. ASSUME NEW i \in 1..n, i - 1 \in S PROVE i \in S
    <3>1. kept[i - 1] \in Caches  BY <2>3
    <3>2. keys[i] \in Keys /\ kept[i] = Keeping(kept[i - 1], keys[i])  BY <1>1, <2>1
    <3>3. kept[i] \in Caches  BY <3>1, <3>2, L1Step
    <3> QED  BY <1>1, <3>3
  <2>4. \A i \in 0..n : i \in S
    <3> HIDE DEF S
    <3> QED  BY <1>1, <2>2, <2>3, Throughout
  <2> QED  BY <1>1, <2>4
<1>6. AfterLookup(cache, keys) = kept[n]  BY DEF AfterLookup, read, kept, n
<1> QED  BY <1>5, <1>6
-----------------------------------------------------------------------------
(* The requests, the caches and the permits: the inductive invariant.      *)

Ops        == {"search", "visit"}
Limit(op)  == IF op = "search" THEN SearchPermits ELSE VisitPermits
SearchKeys == {"search"} \X Queries
LongestTTL == Max({SearchTTL, VisitTTL, FailTTL})
Entries    == [till : 0..(MaxTime + LongestTTL), loaded : BOOLEAN]
Phases     == {"lookup", "post", "forget", "sleep", "done", "lost"}
Statuses   == {0, 200, 429, 504}
Requests   == [op : Ops, args : Seq(Queries) \union Seq(Urls), worker : Workers, deadline : Nat,
               pc : Phases, i : Nat, attempt : Nat,
               fetched : SUBSET SearchKeys, answers : Seq(Answers), status : Statuses]

\* What is kept, here and in Redis.
Stores ==
  /\ now \in 0..MaxTime /\ l1Size \in L1Sizes
  /\ l1 \in [Workers -> Caches]
  /\ redis \in [Keys -> Entries]
  /\ up \in SUBSET Workers /\ leader \in up \union {NoOne} /\ warming \in BOOLEAN
  /\ redisUp \in BOOLEAN
  /\ failedAt \in [Urls -> {-FailTTL} \union 0..MaxTime]

\* The part a of an answer to request q is about x, and not about a failure of long ago.
Own(q, a, x) ==
  a /= NoAnswer => /\ a.key \in Keys /\ a.key[2] = x
                   /\ (a.key[1] = "search") <=> (q.op = "search")
                   /\ a.key[1] = "visit_fail" /\ ~a.loaded => a.age < FailTTL

\* One request: its place is one of its own arguments, and it is answered when
\* it has a status, with 200 only when no part is missing.
Fits(q) ==
  /\ q.args \in Seq(IF q.op = "search" THEN Queries ELSE Urls)
  /\ DOMAIN q.answers = DOMAIN q.args /\ q.i \in DOMAIN q.args
  /\ (q.pc = "done") <=> (q.status /= 0)
  /\ q.status = 200 => Missing(q.answers) = {}
  /\ \A p \in DOMAIN q.args : Own(q, q.answers[p], q.args[p])

Served ==
  /\ req \in Seq(Requests)
  /\ \A r \in DOMAIN req : Fits(req[r])
  /\ permits \in [Workers -> [Ops -> Nat]]

Permitted == \A w \in Workers, op \in Ops : permits[w][op] + Cardinality(InFlight(w, op)) = Limit(op)

\* A failure in Redis that is no older than its lifetime is the last one of its page.
Negatives ==
  \A u \in Urls :
    LET e == redis[Key("visit_fail", u)]
    IN /\ failedAt[u] <= now
       /\ e.till > now /\ ~e.loaded => e.till <= failedAt[u] + FailTTL

ServerInv == Stores /\ Served /\ Permitted /\ Negatives

\* At most one thread dumps, and what it writes into the file is whole.
Dumps ==
  /\ sync \in [Syncs -> {"idle", "reading", "writing"}]
  /\ \A t \in Syncs : sync[t] /= "idle" => syncLock = t
  /\ (\E t \in Syncs : sync[t] = "writing") => temp.whole
  /\ FileWhole
-----------------------------------------------------------------------------
(* The dump: no thread of the leader writes into the file of another.      *)

THEOREM DumpsHold == Spec => []Dumps
<1>1. Init => Dumps  BY DEF Init, Dumps, NoFile, FileWhole
<1>2. Dumps /\ [Next]_vars => Dumps'
  <2> SUFFICES ASSUME Dumps, [Next]_vars PROVE Dumps'
    OBVIOUS
  <2> USE DEF Dumps, FileWhole
  <2>1. CASE UNCHANGED dumpVars  BY <2>1 DEF dumpVars
  <2>2. ASSUME NEW t \in Syncs, SyncStarts(t) PROVE Dumps'
    <3>1. "free" \notin Syncs  BY DEF Syncs
    <3>2. \A x \in Syncs : sync[x] = "idle"  BY <2>2, <3>1 DEF SyncStarts, DumpFree
    <3>3. \A x \in Syncs : sync'[x] = IF x = t THEN "reading" ELSE "idle"
      BY <2>2, <3>2 DEF SyncStarts
    <3>4. file' = file /\ syncLock' = t /\ sync' \in [Syncs -> {"idle", "reading", "writing"}]
      BY <2>2 DEF SyncStarts
    <3> QED  BY <3>3, <3>4
  <2>3. ASSUME NEW t \in Syncs, SyncReads(t) PROVE Dumps'
    <3>1. syncLock = t /\ \A x \in Syncs \ {t} : sync[x] = "idle"  BY <2>3 DEF SyncReads
    <3>2. CASE redisUp
      <4>1. /\ temp'.whole /\ sync' = [sync EXCEPT ![t] = "writing"]
            /\ UNCHANGED <<syncLock, file>>
        BY <2>3, <3>2 DEF SyncReads
      <4> QED  BY <3>1, <4>1
    <3>3. CASE ~redisUp
      <4>1. sync' = [sync EXCEPT ![t] = "idle"] /\ syncLock' = "free" /\ UNCHANGED file
        BY <2>3, <3>3 DEF SyncReads
      <4> QED  BY <3>1, <4>1
    <3> QED  BY <3>2, <3>3
  <2>4. ASSUME NEW t \in Syncs, SyncReplaces(t) PROVE Dumps'
    <3>1. syncLock = t /\ \A x \in Syncs \ {t} : sync[x] = "idle"  BY <2>4 DEF SyncReplaces
    <3>2. file' = temp /\ sync' = [sync EXCEPT ![t] = "idle"] /\ syncLock' = "free"
      BY <2>4 DEF SyncReplaces
    <3>3. temp.whole  BY <2>4 DEF SyncReplaces
    <3> QED  BY <3>1, <3>2, <3>3
  <2>5. ASSUME NEW w \in Workers, Crash(w) PROVE Dumps'
    <3>1. CASE w = leader
      <4>1. sync' = [t \in Syncs |-> "idle"] /\ UNCHANGED file  BY <2>5, <3>1 DEF Crash
      <4> QED  BY <4>1
    <3>2. CASE w /= leader
      <4>1. UNCHANGED dumpVars  BY <2>5, <3>2 DEF Crash, dumpVars
      <4> QED  BY <4>1 DEF dumpVars
    <3> QED  BY <3>1, <3>2
  <2>6. CASE MergeDumps  BY <2>6 DEF MergeDumps
  <2>7. ASSUME NEW r \in DOMAIN req, Serve(r) PROVE UNCHANGED dumpVars
    BY <2>7 DEF Serve, SearchLooksUp, VisitFailsFast, VisitLooksUp, AttemptFails, TriesAgain,
                SearchEnds, PageRead, FailureForgotten, PageUnreadable, dumpVars
  <2>8. ASSUME NEW w \in Workers, NEW call \in Calls, Receive(w, call) PROVE UNCHANGED dumpVars
    BY <2>8 DEF Receive, dumpVars
  <2>9. ASSUME NEW w \in Workers, Restart(w) PROVE UNCHANGED dumpVars
    BY <2>9 DEF Restart, dumpVars
  <2>10. Load \/ Tick \/ RedisStops \/ RedisReturns \/ UNCHANGED vars => UNCHANGED dumpVars
    BY DEF Load, Tick, RedisStops, RedisReturns, vars, dumpVars
  <2> QED  BY <2>1, <2>2, <2>3, <2>4, <2>5, <2>6, <2>7, <2>8, <2>9, <2>10 DEF Next
<1> QED  BY <1>1, <1>2, PTL DEF Spec

(* The file the leader warms up from is a whole dump at all times, however *)
(* the dumps of its two threads, failures of Redis and crashes interleave. *)
THEOREM FileWholeHolds == Spec => []FileWhole
<1>1. Dumps => FileWhole  BY DEF Dumps
<1> QED  BY <1>1, DumpsHold, PTL
-----------------------------------------------------------------------------
(* Small facts.                                                            *)

LEMMA Numbers ==
  /\ SearchTTL \in Nat /\ VisitTTL \in Nat /\ FailTTL \in Nat /\ FailTTL > 0
  /\ SearchPermits \in Nat /\ VisitPermits \in Nat /\ Deadline \in Nat
  /\ SearchAttempts \in Nat /\ VisitAttempts \in Nat
  /\ MaxTime \in Nat /\ MaxRequests \in Nat /\ MaxFaults \in Nat /\ L1Sizes \subseteq Nat
BY ToolServerAssumption DEF ToolServerAssumption

\* The longest lifetime is one of them, and that of the warm start is no longer.
LEMMA Lifetimes ==
  /\ LongestTTL \in Nat
  /\ SearchTTL \in 0..LongestTTL /\ VisitTTL \in 0..LongestTTL /\ FailTTL \in 0..LongestTTL
  /\ Max({SearchTTL, VisitTTL}) \in 0..LongestTTL
<1> DEFINE A == {SearchTTL, VisitTTL, FailTTL}
           B == {SearchTTL, VisitTTL}
<1>1. \E x \in A : \A y \in A : x >= y  BY Numbers
<1>2. \E x \in B : \A y \in B : x >= y  BY Numbers
<1>3. Max(A) \in A /\ \A y \in A : Max(A) >= y
  <2> HIDE DEF A
  <2> QED  BY <1>1, Zenon DEF Max
<1>4. Max(B) \in B /\ \A y \in B : Max(B) >= y
  <2> HIDE DEF B
  <2> QED  BY <1>2, Zenon DEF Max
<1> QED  BY <1>3, <1>4, Numbers DEF LongestTTL

LEMMA KeyFacts ==
  /\ \A x \in Queries : Key("search", x) \in SearchKeys
  /\ \A u \in Urls : Key("visit_raw", u) \in Keys /\ Key("visit_fail", u) \in Keys
  /\ SearchKeys \subseteq Keys
  /\ \A u \in Urls : Key("visit_fail", u) \notin SearchKeys
BY DEF Key, Keys, SearchKeys

\* What Redis holds after a value is stored.
LEMMA StoredStep ==
  ASSUME Stores, NEW k \in Keys, NEW ttl \in 0..LongestTTL
  PROVE  /\ Stored(redis, k, ttl) \in [Keys -> Entries]
         /\ \A x \in Keys \ {k} : Stored(redis, k, ttl)[x] = redis[x]
         /\ Stored(redis, k, ttl)[k] = IF redisUp THEN Entry(now + ttl, FALSE) ELSE redis[k]
<1>1. Entry(now + ttl, FALSE) \in Entries  BY Lifetimes, Numbers DEF Stores, Entries, Entry
<1> QED  BY <1>1 DEF Stores, Stored
-----------------------------------------------------------------------------
(* A turn of one request.                                                  *)

\* What is written into the place of a request keeps the requests.
LEMMA RequestStep ==
  ASSUME Served, NEW r \in DOMAIN req, NEW n \in Requests, Fits(n), req' = [req EXCEPT ![r] = n]
  PROVE  /\ req' \in Seq(Requests) /\ DOMAIN req' = DOMAIN req
         /\ \A x \in DOMAIN req' : Fits(req'[x])
         /\ req'[r] = n /\ \A x \in DOMAIN req \ {r} : req'[x] = req[x]
<1>1. req \in Seq(Requests) /\ DOMAIN req = 1..Len(req) /\ Len(req) \in Nat
  BY LenProperties DEF Served
<1>2. req' \in Seq(Requests) /\ Len(req') = Len(req)
      /\ \A x \in 1..Len(req) : req'[x] = IF x = r THEN n ELSE req[x]
  BY <1>1, ExceptSeq
<1>3. DOMAIN req' = DOMAIN req  BY <1>1
<1> QED  BY <1>1, <1>2, <1>3 DEF Served

\* A turn that ends a request gives its permit back, any other keeps it.
LEMMA TurnStep ==
  ASSUME Served, Permitted, NEW r \in DOMAIN req, req[r].pc \notin Over,
         NEW n \in Requests, Fits(n), req' = [req EXCEPT ![r] = n],
         n.op = req[r].op, n.worker = req[r].worker, n.pc /= "lost",
         IF n.pc = "done" THEN \E status \in Nat : Release(r, status) ELSE UNCHANGED permits
  PROVE  Served' /\ Permitted'
<1>1. /\ req' \in Seq(Requests) /\ DOMAIN req' = DOMAIN req
      /\ \A x \in DOMAIN req' : Fits(req'[x])
      /\ req'[r] = n /\ \A x \in DOMAIN req \ {r} : req'[x] = req[x]
  BY RequestStep
<1> DEFINE w0 == req[r].worker
           o0 == req[r].op
<1>2. DOMAIN req = 1..Len(req) /\ Len(req) \in Nat /\ w0 \in Workers /\ o0 \in Ops
  <2>1. req \in Seq(Requests)  BY DEF Served
  <2>2. req[r] \in Requests  BY <2>1, LenProperties, ElementOfSeq
  <2> QED  BY <2>1, <2>2, LenProperties DEF Requests
<1>3. \A w \in Workers, op \in Ops : IsFiniteSet(InFlight(w, op)) /\ Cardinality(InFlight(w, op)) \in Nat
  <2> SUFFICES ASSUME NEW w \in Workers, NEW op \in Ops
               PROVE  IsFiniteSet(InFlight(w, op)) /\ Cardinality(InFlight(w, op)) \in Nat
    OBVIOUS
  <2>1. IsFiniteSet(1..Len(req))
    <3>1. 1 \in Int /\ Len(req) \in Int  BY <1>2
    <3> QED  BY ONLY <3>1, FS_Interval
  <2>2. InFlight(w, op) \in SUBSET (1..Len(req))  BY <1>2 DEF InFlight
  <2> QED  BY <2>1, <2>2, FS_Subset, FS_CardinalityType
<1>4. r \in InFlight(w0, o0)  BY DEF InFlight
<1>5. CASE n.pc /= "done"
  <2>1. n.pc \notin Over  BY <1>5 DEF Over
  <2>2. UNCHANGED permits  BY <1>5
  <2>3. \A w, op : InFlight(w, op)' = InFlight(w, op)  BY <1>1, <2>1 DEF InFlight, Over
  <2> QED  BY <1>1, <2>2, <2>3 DEF Served, Permitted, Limit, Ops
<1>6. CASE n.pc = "done"
  <2>1. permits' = [permits EXCEPT ![w0][o0] = @ + 1]  BY <1>6 DEF Release
  <2>2. /\ permits' \in [Workers -> [Ops -> Nat]]
        /\ \A w \in Workers, op \in Ops :
             permits'[w][op] = IF w = w0 /\ op = o0 THEN permits[w][op] + 1 ELSE permits[w][op]
    BY <1>2, <2>1 DEF Served
  <2>3. \A w, op : InFlight(w, op)' = IF w = w0 /\ op = o0 THEN InFlight(w, op) \ {r} ELSE InFlight(w, op)
    BY <1>1, <1>6 DEF InFlight, Over
  <2>4. Cardinality(InFlight(w0, o0) \ {r}) = Cardinality(InFlight(w0, o0)) - 1
    <3>1. IsFiniteSet(InFlight(w0, o0))  BY <1>2, <1>3
    <3> QED  BY ONLY <1>4, <3>1, FS_RemoveElement
  <2>5. ASSUME NEW w \in Workers, NEW op \in Ops
        PROVE  permits'[w][op] + Cardinality(InFlight(w, op)') = Limit(op)
    <3>1. permits[w][op] + Cardinality(InFlight(w, op)) = Limit(op) /\ permits[w][op] \in Nat
      BY DEF Permitted, Served
    <3>2. CASE w = w0 /\ op = o0
      <4>1. permits'[w][op] = permits[w][op] + 1
            /\ Cardinality(InFlight(w, op)') = Cardinality(InFlight(w, op)) - 1
        BY <2>2, <2>3, <2>4, <3>2
      <4>2. Cardinality(InFlight(w, op)) \in Nat  BY <1>3
      <4> QED  BY <3>1, <4>1, <4>2
    <3>3. CASE ~(w = w0 /\ op = o0)
      <4>1. permits'[w][op] = permits[w][op] /\ InFlight(w, op)' = InFlight(w, op)
        BY <2>2, <2>3, <3>3
      <4> QED  BY <3>1, <4>1
    <3> QED  BY <3>2, <3>3
  <2>6. Served'  BY <1>1, <2>2 DEF Served
  <2>7. Permitted'  BY <2>5 DEF Permitted, Limit
  <2> QED  BY <2>6, <2>7
<1> QED  BY <1>5, <1>6
LEMMA FirstOfIsOne ==
  ASSUME NEW S \in SUBSET Nat, S /= {}
  PROVE  FirstOf(S) \in S
<1>1. \E p \in S : \A q \in S : p <= q  BY LeastNumber
<1> QED  BY <1>1, Zenon DEF FirstOf


\* A request with another value in one of its fields, in several of them, is one still.
LEMMA OtherField ==
  ASSUME NEW A, NEW B, NEW C, NEW D, NEW E, NEW F, NEW G, NEW H, NEW I, NEW J,
         NEW q \in [op : A, args : B, worker : C, deadline : D, pc : E, i : F, attempt : G,
                    fetched : H, answers : I, status : J]
  PROVE  LET R == [op : A, args : B, worker : C, deadline : D, pc : E, i : F, attempt : G,
                   fetched : H, answers : I, status : J]
         IN /\ \A x \in E : [q EXCEPT !.pc = x] \in R
            /\ \A x \in F : [q EXCEPT !.i = x] \in R
            /\ \A x \in G : [q EXCEPT !.attempt = x] \in R
            /\ \A x \in H : [q EXCEPT !.fetched = x] \in R
            /\ \A x \in I : [q EXCEPT !.answers = x] \in R
            /\ \A x \in J : [q EXCEPT !.status = x] \in R
OBVIOUS

LEMMA OtherValue ==
  ASSUME NEW q \in Requests
  PROVE  /\ \A x \in Phases : [q EXCEPT !.pc = x] \in Requests
         /\ \A x \in Nat : [q EXCEPT !.i = x] \in Requests /\ [q EXCEPT !.attempt = x] \in Requests
         /\ \A x \in SUBSET SearchKeys : [q EXCEPT !.fetched = x] \in Requests
         /\ \A x \in Seq(Answers) : [q EXCEPT !.answers = x] \in Requests
         /\ \A x \in Statuses : [q EXCEPT !.status = x] \in Requests
BY OtherField DEF Requests

LEMMA OtherValues ==
  ASSUME NEW q \in Requests, NEW answers \in Seq(Answers), NEW fetched \in SUBSET SearchKeys,
         NEW attempt \in Nat, NEW status \in Statuses, NEW i \in Nat, NEW pc \in Phases
  PROVE  [q EXCEPT !.answers = answers, !.fetched = fetched, !.attempt = attempt,
                   !.status = status, !.pc = pc, !.i = i] \in Requests
<1> DEFINE q1 == [q  EXCEPT !.answers = answers]
           q2 == [q1 EXCEPT !.fetched = fetched]
           q3 == [q2 EXCEPT !.attempt = attempt]
           q4 == [q3 EXCEPT !.status = status]
           q5 == [q4 EXCEPT !.pc = pc]
           q6 == [q5 EXCEPT !.i = i]
<1>1. q1 \in Requests  BY OtherValue
<1>2. q2 \in Requests  BY <1>1, OtherValue
<1>3. q3 \in Requests  BY <1>2, OtherValue
<1>4. q4 \in Requests  BY <1>3, OtherValue
<1>5. q5 \in Requests  BY <1>4, OtherValue
<1>6. q6 \in Requests  BY <1>5, OtherValue
<1> QED  BY ONLY <1>6

\* To go on to the next argument, to the answer or to a 504 is such a turn.
LEMMA ProceedsStep ==
  ASSUME Stores, Served, Permitted, NEW r \in DOMAIN req, req[r].pc \notin Over,
         NEW answers \in [DOMAIN req[r].args -> Answers],
         \A p \in DOMAIN req[r].args : Own(req[r], answers[p], req[r].args[p]),
         NEW fetched \in SUBSET SearchKeys, NEW pc \in {"lookup", "post"},
         Proceeds(r, answers, fetched, pc)
  PROVE  Served' /\ Permitted'
<1> DEFINE q      == req[r]
           rest   == Missing(answers)
           status == CASE rest = {} -> 200 [] rest /= {} /\ Expired(r) -> 504 [] OTHER -> 0
           n      == [q EXCEPT !.answers = answers, !.fetched = fetched, !.attempt = 0,
                               !.status = status, !.pc = IF status = 0 THEN pc ELSE "done",
                               !.i = IF rest = {} THEN q.i ELSE FirstOf(rest)]
<1>1. q \in Requests /\ Fits(q)
  <2>1. req \in Seq(Requests) /\ Fits(req[r])  BY DEF Served
  <2>2. r \in 1..Len(req)  BY <2>1, LenProperties
  <2> QED  BY <2>1, <2>2, ElementOfSeq
<1>2. status \in {0, 200, 504} /\ (status = 200 => rest = {})  OBVIOUS
<1>3. q.args \in Seq(Queries) \union Seq(Urls) /\ Len(q.args) \in Nat /\ DOMAIN q.args = 1..Len(q.args)
  <2>1. q.args \in Seq(Queries) \union Seq(Urls)  BY <1>1 DEF Requests
  <2> QED  BY <2>1, LenProperties
<1>4. answers \in Seq(Answers) /\ DOMAIN answers = DOMAIN q.args
  <2>1. answers \in [1..Len(q.args) -> Answers]  BY <1>3
  <2>2. answers \in Seq(Answers)  BY <1>3, <2>1, SeqDef
  <2> QED  BY <2>2
<1>5. q.i \in DOMAIN q.args  BY <1>1 DEF Fits
<1>6. rest /= {} => FirstOf(rest) \in DOMAIN q.args
  <2>1. rest \in SUBSET DOMAIN q.args /\ rest \in SUBSET Nat  BY <1>3, <1>4 DEF Missing
  <2> QED  BY <2>1, FirstOfIsOne
<1> HIDE DEF rest, status
<1>7. n.i \in DOMAIN q.args /\ n.i \in Nat
  <2>1. n.i = IF rest = {} THEN q.i ELSE FirstOf(rest)  BY <1>1 DEF Requests
  <2> QED  BY <1>3, <1>5, <1>6, <2>1
<1>8. /\ n.op = q.op /\ n.args = q.args /\ n.worker = q.worker /\ n.answers = answers
      /\ n.fetched = fetched /\ n.status = status /\ n.pc = IF status = 0 THEN pc ELSE "done"
  BY <1>1 DEF Requests
<1>9. n \in Requests
  <2>1. (IF rest = {} THEN q.i ELSE FirstOf(rest)) \in Nat  BY <1>3, <1>5, <1>6
  <2>2. (IF status = 0 THEN pc ELSE "done") \in Phases  BY DEF Phases
  <2>3. status \in Statuses /\ answers \in Seq(Answers) /\ 0 \in Nat  BY <1>2, <1>4 DEF Statuses
  <2> QED  BY <1>1, <2>1, <2>2, <2>3, OtherValues, ZenonT(60)
<1> HIDE DEF n
<1>10. Fits(n)
  <2>1. \A p \in DOMAIN n.args : Own(n, n.answers[p], n.args[p])  BY <1>8 DEF Own
  <2>2. n.args \in Seq(IF n.op = "search" THEN Queries ELSE Urls)
    <3>1. q.args \in Seq(IF q.op = "search" THEN Queries ELSE Urls)  BY <1>1 DEF Fits
    <3> QED  BY <1>8, <3>1
  <2>3. n.status = 200 => Missing(n.answers) = {}  BY <1>2, <1>8 DEF rest
  <2>4. (n.pc = "done") <=> (n.status /= 0)  BY <1>8
  <2>5. DOMAIN n.answers = DOMAIN n.args /\ n.i \in DOMAIN n.args  BY <1>4, <1>7, <1>8
  <2> QED  BY <2>1, <2>2, <2>3, <2>4, <2>5 DEF Fits
<1>11. /\ req' = [req EXCEPT ![r] = n]
       /\ IF status = 0 THEN UNCHANGED permits ELSE Release(r, status)
  <2>1. /\ req' = [req EXCEPT ![r].answers = answers, ![r].fetched = fetched, ![r].attempt = 0,
                              ![r].status = status, ![r].pc = IF status = 0 THEN pc ELSE "done",
                              ![r].i  = IF rest = {} THEN @ ELSE FirstOf(rest)]
        /\ IF status = 0 THEN UNCHANGED permits ELSE Release(r, status)
    BY DEF Proceeds, status, rest
  <2>2. req \in Seq(Requests)  BY DEF Served
  <2> QED  BY <2>1, <2>2 DEF n
<1>12. n.pc /= "lost" /\ (n.pc = "done" <=> status /= 0) /\ status \in Nat  BY <1>2, <1>8
<1>13. IF n.pc = "done" THEN \E x \in Nat : Release(r, x) ELSE UNCHANGED permits
  BY <1>11, <1>12
<1> QED  BY <1>8, <1>9, <1>10, <1>11, <1>12, <1>13, TurnStep
-----------------------------------------------------------------------------
(* What a turn reads and writes.                                           *)

LEMMA RequestFacts ==
  ASSUME Served, NEW r \in DOMAIN req
  PROVE  /\ req[r] \in Requests /\ Fits(req[r])
         /\ req[r].worker \in Workers /\ req[r].op \in Ops
         /\ DOMAIN req[r].args = 1..Len(req[r].args) /\ Len(req[r].args) \in Nat
         /\ req[r].i \in DOMAIN req[r].args
         /\ req[r].answers \in [DOMAIN req[r].args -> Answers]
         /\ req[r].fetched \in SUBSET SearchKeys
<1> DEFINE q == req[r]
<1>1. req \in Seq(Requests) /\ Fits(q)  BY DEF Served
<1>2. q \in Requests  BY <1>1, LenProperties, ElementOfSeq
<1>3. /\ q.worker \in Workers /\ q.op \in Ops /\ q.fetched \in SUBSET SearchKeys
      /\ q.args \in Seq(Queries) \union Seq(Urls) /\ q.answers \in Seq(Answers)
  BY <1>2 DEF Requests
<1>4. DOMAIN q.args = 1..Len(q.args) /\ Len(q.args) \in Nat  BY <1>3, LenProperties
<1>5. q.answers \in [DOMAIN q.answers -> Answers]
  <2>1. q.answers \in [1..Len(q.answers) -> Answers] /\ DOMAIN q.answers = 1..Len(q.answers)
    BY <1>3, LenProperties
  <2> QED  BY <2>1
<1>6. DOMAIN q.answers = DOMAIN q.args /\ q.i \in DOMAIN q.args  BY <1>1 DEF Fits
<1> QED  BY <1>1, <1>2, <1>3, <1>4, <1>5, <1>6

LEMMA ArgumentFacts ==
  ASSUME Served, NEW r \in DOMAIN req, NEW p \in DOMAIN req[r].args
  PROVE  /\ req[r].op = "search" => req[r].args[p] \in Queries
         /\ req[r].op = "visit" => req[r].args[p] \in Urls
<1>1. /\ Fits(req[r]) /\ p \in 1..Len(req[r].args)  BY RequestFacts
<1>2. req[r].args \in Seq(IF req[r].op = "search" THEN Queries ELSE Urls)  BY <1>1 DEF Fits
<1>3. CASE req[r].op = "search"
  <2>1. req[r].args \in Seq(Queries)  BY <1>2, <1>3
  <2>2. req[r].args[p] \in Queries  BY <1>1, <2>1, ElementOfSeq
  <2> QED  BY <1>3, <2>2
<1>4. CASE req[r].op = "visit"
  <2>1. req[r].args \in Seq(Urls)  BY <1>2, <1>4
  <2>2. req[r].args[p] \in Urls  BY <1>1, <2>1, ElementOfSeq
  <2> QED  BY <1>4, <2>2
<1> QED  BY <1>3, <1>4

\* A part that is from a key is an answer to what the key is about.
LEMMA FromKey ==
  ASSUME NEW q, NEW k \in Keys, k[1] /= "visit_fail", (k[1] = "search") <=> (q.op = "search")
  PROVE  From(k) \in Answers /\ Own(q, From(k), k[2])
<1>1. 0 \in 0..(MaxTime + FailTTL)  BY Numbers
<1> QED  BY <1>1 DEF From, Answers, Own

LEMMA NoneYet == \A q, x : NoAnswer \in Answers /\ Own(q, NoAnswer, x)
<1>1. 0 \in 0..(MaxTime + FailTTL)  BY Numbers
<1> QED  BY <1>1 DEF From, Answers, Own, NoAnswer

\* The parts of an answer with another one at the place of the request.
LEMMA FillStep ==
  ASSUME Served, NEW r \in DOMAIN req, NEW a \in Answers, Own(req[r], a, req[r].args[req[r].i])
  PROVE  LET answers == [req[r].answers EXCEPT ![req[r].i] = a]
         IN /\ answers \in [DOMAIN req[r].args -> Answers]
            /\ \A p \in DOMAIN req[r].args : Own(req[r], answers[p], req[r].args[p])
<1>1. \A p \in DOMAIN req[r].args : Own(req[r], req[r].answers[p], req[r].args[p])
  BY RequestFacts DEF Fits
<1>2. req[r].answers \in [DOMAIN req[r].args -> Answers]  BY RequestFacts
<1> HIDE DEF Own
<1> QED  BY <1>1, <1>2

LEMMA CacheOfWorker ==
  ASSUME Stores, NEW w \in Workers, NEW c \in Caches,
         l1' = [l1 EXCEPT ![w] = c], UNCHANGED l1Size
  PROVE  l1' \in [Workers -> Caches']
<1>1. Caches' = Caches  BY DEF Caches, Keys
<1> QED  BY <1>1 DEF Stores

\* What is not about Redis and the failures leaves them as they are.
LEMMA SameNegatives ==
  ASSUME Negatives, UNCHANGED <<now, redis, failedAt>>
  PROVE  Negatives'
BY DEF Negatives, Key
LEMMA SameProcesses ==
  ASSUME Stores, UNCHANGED <<now, l1Size, procVars>>, l1' \in [Workers -> Caches'],
         redis' \in [Keys -> Entries], failedAt' \in [Urls -> {-FailTTL} \union 0..MaxTime]
  PROVE  Stores'
<1>1. Keys' = Keys /\ Entries' = Entries  BY DEF Keys, Entries, LongestTTL
<1> QED  BY <1>1 DEF Stores, procVars

LEMMA SameStores ==
  ASSUME Stores, UNCHANGED <<now, l1Size, l1, redis, failedAt, procVars>>
  PROVE  Stores'
<1>1. Caches' = Caches  BY DEF Caches, Keys
<1>2. l1' \in [Workers -> Caches'] /\ redis' \in [Keys -> Entries]
      /\ failedAt' \in [Urls -> {-FailTTL} \union 0..MaxTime]
  BY <1>1 DEF Stores
<1> QED  BY <1>2, SameProcesses
-----------------------------------------------------------------------------
(* One lemma per turn of a request.                                        *)

LEMMA SearchLooksUpKeeps ==
  ASSUME ServerInv, NEW r \in DOMAIN req, SearchLooksUp(r)
  PROVE  ServerInv'
<1> DEFINE q       == req[r]
           cache   == l1[q.worker]
           keys    == [p \in DOMAIN q.args |-> Key("search", q.args[p])]
           answers == [p \in DOMAIN keys |-> IF Found(cache, keys[p]) THEN From(keys[p]) ELSE NoAnswer]
<1>1. Stores /\ Served /\ Permitted /\ Negatives  BY DEF ServerInv
<1>2. q.op = "search" /\ q.pc \notin Over  BY DEF SearchLooksUp, Over
<1>3. \A p \in DOMAIN q.args : keys[p] = <<"search", q.args[p]>> /\ keys[p] \in Keys
  BY <1>1, <1>2, ArgumentFacts, KeyFacts DEF Key
<1>4. /\ l1' = [l1 EXCEPT ![q.worker] = AfterLookup(cache, keys)]
      /\ Proceeds(r, answers, {}, "post")
      /\ UNCHANGED <<now, l1Size, redis, failedAt, procVars>>
  BY DEF SearchLooksUp
<1>5. Stores'
  <2>1. q.worker \in Workers /\ DOMAIN q.args = 1..Len(q.args) /\ Len(q.args) \in Nat
    BY <1>1, RequestFacts
  <2>2. keys \in Seq(Keys)
    <3>1. keys \in [1..Len(q.args) -> Keys]  BY <1>3, <2>1
    <3> HIDE DEF keys
    <3> QED  BY <2>1, <3>1, SeqDef
  <2>3. cache \in Caches /\ l1Size \in Nat  BY <1>1, <2>1, Numbers DEF Stores
  <2> HIDE DEF keys, cache
  <2>4. AfterLookup(cache, keys) \in Caches  BY <2>2, <2>3, LookupStep
  <2>5. l1' \in [Workers -> Caches']  BY <1>1, <1>4, <2>1, <2>4, CacheOfWorker
  <2>6. redis' \in [Keys -> Entries] /\ failedAt' \in [Urls -> {-FailTTL} \union 0..MaxTime]
    BY <1>1, <1>4 DEF Stores
  <2> QED  BY <1>1, <1>4, <2>5, <2>6, SameProcesses
<1>6. Served' /\ Permitted'
  <2>1. ASSUME NEW p \in DOMAIN q.args
        PROVE  answers[p] \in Answers /\ Own(q, answers[p], q.args[p])
    <3>1. answers[p] = IF Found(cache, keys[p]) THEN From(keys[p]) ELSE NoAnswer  OBVIOUS
    <3>2. From(keys[p]) \in Answers /\ Own(q, From(keys[p]), q.args[p])
      <4>1. keys[p] \in Keys /\ keys[p][1] = "search" /\ keys[p][2] = q.args[p]  BY <1>3
      <4> HIDE DEF keys
      <4> QED  BY <1>2, <4>1, FromKey
    <3> HIDE DEF answers, keys
    <3> QED  BY <3>1, <3>2, NoneYet
  <2>2. answers \in [DOMAIN q.args -> Answers]  BY <2>1
  <2> HIDE DEF answers
  <2> QED  BY <1>1, <1>2, <1>4, <2>1, <2>2, ProceedsStep
<1>7. Negatives'  BY <1>1, <1>4, SameNegatives
<1> QED  BY <1>5, <1>6, <1>7 DEF ServerInv

\* A page whose failure is alive in Redis failed a short time ago.
LEMMA VisitFailsFastKeeps ==
  ASSUME ServerInv, NEW r \in DOMAIN req, VisitFailsFast(r)
  PROVE  ServerInv'
<1> DEFINE q == req[r]
           u == Page(r)
           k == Fails(r)
           a == [key |-> k, age |-> now - failedAt[u], loaded |-> redis[k].loaded]
<1>1. Stores /\ Served /\ Permitted /\ Negatives  BY DEF ServerInv
<1>2. q.op = "visit" /\ q.pc \notin Over /\ Alive(k)  BY DEF VisitFailsFast, Over
<1>3. u \in Urls /\ k = Key("visit_fail", u) /\ k \in Keys
  BY <1>1, <1>2, RequestFacts, ArgumentFacts, KeyFacts DEF Page, Fails
<1>4. /\ Proceeds(r, [q.answers EXCEPT ![q.i] = a], {}, "lookup")
      /\ UNCHANGED <<now, l1Size, l1, redis, failedAt, procVars>>
  BY DEF VisitFailsFast
<1>5. a \in Answers /\ Own(q, a, q.args[q.i])
  <2>1. /\ now \in 0..MaxTime /\ failedAt[u] \in {-FailTTL} \union 0..MaxTime /\ failedAt[u] <= now
        /\ redis[k] \in Entries
    BY <1>1, <1>3 DEF Stores, Negatives
  <2>2. now - failedAt[u] \in 0..(MaxTime + FailTTL)  BY <2>1, Numbers
  <2>3. redis[k].loaded \in BOOLEAN /\ redis[k].till \in Int  BY <2>1, Lifetimes, Numbers DEF Entries
  <2>4. ~redis[k].loaded => now - failedAt[u] < FailTTL
    <3>1. redis[k].till > now  BY <1>2 DEF Alive
    <3>2. ~redis[k].loaded => redis[k].till <= failedAt[u] + FailTTL  BY <1>1, <1>3, <3>1 DEF Negatives
    <3>3. now \in Int /\ failedAt[u] \in Int /\ FailTTL \in Int  BY <2>1, Numbers
    <3> QED  BY <2>3, <3>1, <3>2, <3>3
  <2>5. k[1] = "visit_fail" /\ k[2] = q.args[q.i]  BY <1>3 DEF Key, Page
  <2> HIDE DEF k, u
  <2>6. a \in Answers  BY <1>3, <2>2, <2>3 DEF Answers
  <2> QED  BY <1>2, <1>3, <2>4, <2>5, <2>6 DEF Own
<1> HIDE DEF a
<1>6. Served' /\ Permitted'
  <2> DEFINE answers == [q.answers EXCEPT ![q.i] = a]
  <2>1. /\ answers \in [DOMAIN q.args -> Answers]
        /\ \A p \in DOMAIN q.args : Own(q, answers[p], q.args[p])
    BY <1>1, <1>5, FillStep
  <2>2. Proceeds(r, answers, {}, "lookup")  BY <1>4
  <2> HIDE DEF answers
  <2> QED  BY <1>1, <1>2, <2>1, <2>2, ProceedsStep
<1>7. Stores' /\ Negatives'  BY <1>1, <1>4, SameStores, SameNegatives
<1> QED  BY <1>6, <1>7 DEF ServerInv
LEMMA VisitLooksUpKeeps ==
  ASSUME ServerInv, NEW r \in DOMAIN req, VisitLooksUp(r)
  PROVE  ServerInv'
<1> DEFINE q     == req[r]
           cache == l1[q.worker]
           k     == Raw(r)
<1>1. Stores /\ Served /\ Permitted /\ Negatives  BY DEF ServerInv
<1>2. q.op = "visit" /\ q.pc \notin Over  BY DEF VisitLooksUp, Over
<1>3. k \in Keys /\ k[1] = "visit_raw" /\ k[2] = q.args[q.i]
  BY <1>1, <1>2, RequestFacts, ArgumentFacts, KeyFacts DEF Page, Raw, Key
<1>4. /\ l1' = [l1 EXCEPT ![q.worker] = AfterLookup(cache, <<k>>)]
      /\ \/ Proceeds(r, [q.answers EXCEPT ![q.i] = From(k)], {}, "lookup")
         \/ Proceeds(r, q.answers, {}, "post")
      /\ UNCHANGED <<now, l1Size, redis, failedAt, procVars>>
  BY DEF VisitLooksUp
<1> HIDE DEF k
<1>5. Stores'
  <2>1. q.worker \in Workers  BY <1>1, RequestFacts
  <2>2. <<k>> \in Seq(Keys)  BY <1>3
  <2>3. cache \in Caches /\ l1Size \in Nat  BY <1>1, <2>1, Numbers DEF Stores
  <2> HIDE DEF cache
  <2>4. AfterLookup(cache, <<k>>) \in Caches  BY <2>2, <2>3, LookupStep
  <2>5. l1' \in [Workers -> Caches']  BY <1>1, <1>4, <2>1, <2>4, CacheOfWorker
  <2>6. redis' \in [Keys -> Entries] /\ failedAt' \in [Urls -> {-FailTTL} \union 0..MaxTime]
    BY <1>1, <1>4 DEF Stores
  <2> QED  BY <1>1, <1>4, <2>5, <2>6, SameProcesses
<1>6. Served' /\ Permitted'
  <2>1. CASE Proceeds(r, [q.answers EXCEPT ![q.i] = From(k)], {}, "lookup")
    <3> DEFINE answers == [q.answers EXCEPT ![q.i] = From(k)]
    <3>1. From(k) \in Answers /\ Own(q, From(k), q.args[q.i])  BY <1>2, <1>3, FromKey
    <3>2. /\ answers \in [DOMAIN q.args -> Answers]
          /\ \A p \in DOMAIN q.args : Own(q, answers[p], q.args[p])
      BY <1>1, <3>1, FillStep
    <3>3. Proceeds(r, answers, {}, "lookup")  BY <2>1
    <3> HIDE DEF answers
    <3> QED  BY <1>1, <1>2, <3>2, <3>3, ProceedsStep
  <2>2. CASE Proceeds(r, q.answers, {}, "post")
    <3>1. /\ q.answers \in [DOMAIN q.args -> Answers]
          /\ \A p \in DOMAIN q.args : Own(q, q.answers[p], q.args[p])
      BY <1>1, RequestFacts DEF Fits
    <3> QED  BY <1>1, <1>2, <2>2, <3>1, ProceedsStep
  <2> QED  BY <1>4, <2>1, <2>2
<1>7. Negatives'  BY <1>1, <1>4, SameNegatives
<1> QED  BY <1>5, <1>6, <1>7 DEF ServerInv

\* A request that only waits, is sent again or runs out of time.
Waits(r, pc, attempt) ==
  [req[r] EXCEPT !.pc = IF Expired(r) THEN "done" ELSE pc, !.attempt = attempt,
                 !.status = IF Expired(r) THEN 504 ELSE 0]

LEMMA WaitStep ==
  ASSUME ServerInv, NEW r \in DOMAIN req, req[r].pc \notin Over, NEW attempt \in Nat,
         NEW pc \in Phases \ Over, req' = [req EXCEPT ![r] = Waits(r, pc, attempt)],
         IF Expired(r) THEN Release(r, 504) ELSE UNCHANGED permits,
         UNCHANGED <<now, l1Size, l1, redis, failedAt, procVars>>
  PROVE  ServerInv'
<1> DEFINE n  == Waits(r, pc, attempt)
           q  == req[r]
           p  == IF Expired(r) THEN "done" ELSE pc
           s  == IF Expired(r) THEN 504 ELSE 0
           n1 == [q  EXCEPT !.pc = p]
           n2 == [n1 EXCEPT !.attempt = attempt]
           n3 == [n2 EXCEPT !.status = s]
<1>1. Stores /\ Served /\ Permitted /\ Negatives  BY DEF ServerInv
<1>2. q \in Requests /\ Fits(q)  BY <1>1, RequestFacts
<1>3. p \in Phases /\ s \in Statuses /\ p /= "lost" /\ (p = "done" <=> s /= 0) /\ s /= 200
      /\ (p = "done" <=> Expired(r))
  BY DEF Phases, Statuses, Over
<1> HIDE DEF p, s
<1>4. n \in Requests
  <2>1. n1 \in Requests  BY <1>2, <1>3, OtherValue
  <2>2. n2 \in Requests  BY <2>1, OtherValue
  <2>3. n3 \in Requests  BY <1>3, <2>2, OtherValue
  <2>4. n = n3  BY DEF Waits, p, s
  <2> QED  BY <2>3, <2>4
<1>5. /\ n.op = q.op /\ n.args = q.args /\ n.worker = q.worker /\ n.answers = q.answers
      /\ n.i = q.i /\ n.pc = p /\ n.status = s
  BY <1>2 DEF Requests, Waits, p, s
<1>s. req' = [req EXCEPT ![r] = n]  OBVIOUS
<1> HIDE DEF n
<1>6. Fits(n)  BY <1>2, <1>3, <1>5 DEF Fits, Own
<1>7. n.pc /= "lost" /\ IF n.pc = "done" THEN \E x \in Nat : Release(r, x) ELSE UNCHANGED permits
  BY <1>3, <1>5
<1>8. Served' /\ Permitted'
  <2>1. req[r].pc \notin Over /\ req' = [req EXCEPT ![r] = n]  BY <1>s
  <2>2. n.op = req[r].op /\ n.worker = req[r].worker  BY <1>5
  <2> HIDE DEF q
  <2> QED  BY ONLY <1>1, <1>4, <1>6, <1>7, <2>1, <2>2, r \in DOMAIN req, TurnStep
<1>9. Stores' /\ Negatives'  BY <1>1, SameStores, SameNegatives
<1> QED  BY <1>8, <1>9 DEF ServerInv

LEMMA AttemptFailsKeeps ==
  ASSUME ServerInv, NEW r \in DOMAIN req, AttemptFails(r)
  PROVE  ServerInv'
<1> DEFINE n == Waits(r, "sleep", req[r].attempt)
<1>1. Served  BY DEF ServerInv
<1>2. req[r] \in Requests  BY <1>1, RequestFacts
<1>3. req[r].attempt \in Nat /\ req[r].pc \notin Over  BY <1>2 DEF Requests, AttemptFails, Over
<1>4. /\ IF Expired(r) THEN Release(r, 504) ELSE UNCHANGED permits
      /\ UNCHANGED <<now, l1Size, l1, redis, failedAt, procVars>>
  BY DEF AttemptFails
<1>5. req' = [req EXCEPT ![r] = n]
  <2>1. req' = [req EXCEPT ![r] = [req[r] EXCEPT !.pc = IF Expired(r) THEN "done" ELSE "sleep",
                                                 !.status = IF Expired(r) THEN 504 ELSE 0]]
    BY <1>1, ZenonT(60) DEF AttemptFails, Served
  <2>2. n = [req[r] EXCEPT !.pc = IF Expired(r) THEN "done" ELSE "sleep",
                           !.status = IF Expired(r) THEN 504 ELSE 0]
    BY <1>2, ZenonT(60) DEF Requests, Waits
  <2> QED  BY <2>1, <2>2
<1>6. "sleep" \in Phases \ Over  BY DEF Phases, Over
<1> QED  BY <1>3, <1>4, <1>5, <1>6, WaitStep

LEMMA TriesAgainKeeps ==
  ASSUME ServerInv, NEW r \in DOMAIN req, TriesAgain(r)
  PROVE  ServerInv'
<1> DEFINE n == Waits(r, "post", Attempts(r))
<1>1. Served  BY DEF ServerInv
<1>2. req[r] \in Requests  BY <1>1, RequestFacts
<1>3. Attempts(r) \in Nat /\ req[r].pc \notin Over  BY <1>2 DEF Requests, TriesAgain, Attempts, Over
<1>4. /\ IF Expired(r) THEN Release(r, 504) ELSE UNCHANGED permits
      /\ UNCHANGED <<now, l1Size, l1, redis, failedAt, procVars>>
  BY DEF TriesAgain
<1>5. req' = [req EXCEPT ![r] = n]  BY <1>1, ZenonT(60) DEF TriesAgain, Served, Waits
<1>6. "post" \in Phases \ Over  BY DEF Phases, Over
<1> QED  BY <1>3, <1>4, <1>5, <1>6, WaitStep
\* An answer from an HTTP request is one to the argument the request is at.
LEMMA AnsweredStep ==
  ASSUME Stores, Served, Permitted, NEW r \in DOMAIN req, req[r].pc \notin Over,
         NEW k \in Keys, k[1] /= "visit_fail", (k[1] = "search") <=> (req[r].op = "search"),
         k[2] = Page(r), NEW fetched \in SUBSET SearchKeys, NEW pc \in {"lookup", "post"},
         Proceeds(r, Filled(r, k), fetched, pc)
  PROVE  Served' /\ Permitted'
<1> DEFINE q       == req[r]
           answers == [q.answers EXCEPT ![q.i] = From(k)]
<1>1. From(k) \in Answers /\ Own(q, From(k), q.args[q.i])
  BY FromKey DEF Page
<1>2. /\ answers \in [DOMAIN q.args -> Answers]
      /\ \A p \in DOMAIN q.args : Own(q, answers[p], q.args[p])
  BY <1>1, FillStep
<1>3. Proceeds(r, answers, fetched, pc)  BY DEF Filled
<1> HIDE DEF answers
<1> QED  BY <1>2, <1>3, ProceedsStep

\* A search writes into the places of searches only.
LEMMA SearchEndsKeeps ==
  ASSUME ServerInv, NEW r \in DOMAIN req, SearchEnds(r)
  PROVE  ServerInv'
<1> DEFINE q       == req[r]
           k       == Key("search", Page(r))
           answers == Filled(r, k)
           fetched == q.fetched \union {k}
<1>1. Stores /\ Served /\ Permitted /\ Negatives  BY DEF ServerInv
<1>2. q.op = "search" /\ q.pc \notin Over  BY DEF SearchEnds, Over
<1>3. k \in SearchKeys /\ k \in Keys /\ k[1] = "search" /\ k[2] = Page(r)
  BY <1>1, <1>2, RequestFacts, ArgumentFacts, KeyFacts DEF Page, Key
<1>4. fetched \in SUBSET SearchKeys /\ fetched \in SUBSET Keys
  <2>1. q.fetched \in SUBSET SearchKeys  BY <1>1, RequestFacts
  <2> HIDE DEF k
  <2> QED  BY <1>3, <2>1, KeyFacts
<1>5. /\ Proceeds(r, answers, fetched, "post")
      /\ UNCHANGED <<now, l1Size, failedAt, procVars>>
  BY DEF SearchEnds
<1>6. \/ /\ l1' = [l1 EXCEPT ![q.worker] = L1Set(l1[q.worker], k)]
         /\ redis' = Stored(redis, k, SearchTTL)
      \/ /\ UNCHANGED l1
         /\ \/ UNCHANGED redis
            \/ redis' = [x \in Keys |-> IF x \in fetched THEN Stored(redis, x, SearchTTL)[x] ELSE redis[x]]
  BY DEF SearchEnds
<1> HIDE DEF fetched, answers, k
<1>7. Served' /\ Permitted'
  <2>1. Proceeds(r, Filled(r, k), fetched, "post")  BY <1>5 DEF answers
  <2>2. k[1] /= "visit_fail" /\ ((k[1] = "search") <=> (q.op = "search"))  BY <1>2, <1>3
  <2> QED  BY <1>1, <1>2, <1>3, <1>4, <2>1, <2>2, AnsweredStep
<1>8. l1' \in [Workers -> Caches']
  <2>1. CASE UNCHANGED l1
    <3>1. Caches' = Caches  BY <1>5 DEF Caches, Keys
    <3> QED  BY <1>1, <2>1, <3>1 DEF Stores
  <2>2. CASE l1' = [l1 EXCEPT ![q.worker] = L1Set(l1[q.worker], k)]
    <3>1. q.worker \in Workers  BY <1>1, RequestFacts
    <3>2. l1[q.worker] \in Caches /\ l1Size \in Nat  BY <1>1, <3>1, Numbers DEF Stores
    <3>3. L1Set(l1[q.worker], k) \in Caches  BY <1>3, <3>2, L1Step
    <3> QED  BY <1>1, <1>5, <2>2, <3>1, <3>3, CacheOfWorker
  <2> QED  BY <1>6, <2>1, <2>2
<1>9. redis' \in [Keys -> Entries] /\ \A x \in Keys \ SearchKeys : redis'[x] = redis[x]
  <2>1. SearchTTL \in 0..LongestTTL /\ redis \in [Keys -> Entries]  BY <1>1, Lifetimes DEF Stores
  <2>2. CASE redis' = Stored(redis, k, SearchTTL)
    <3>1. /\ Stored(redis, k, SearchTTL) \in [Keys -> Entries]
          /\ \A x \in Keys \ {k} : Stored(redis, k, SearchTTL)[x] = redis[x]
      BY <1>1, <1>3, <2>1, StoredStep
    <3> QED  BY <1>3, <2>2, <3>1
  <2>3. CASE UNCHANGED redis  BY <2>1, <2>3
  <2>4. CASE redis' = [x \in Keys |-> IF x \in fetched THEN Stored(redis, x, SearchTTL)[x] ELSE redis[x]]
    <3>1. \A x \in Keys : Stored(redis, x, SearchTTL)[x] \in Entries  BY <1>1, <2>1, StoredStep
    <3>2. redis' \in [Keys -> Entries]  BY <2>1, <2>4, <3>1
    <3>3. \A x \in Keys \ SearchKeys : redis'[x] = redis[x]  BY <1>4, <2>4
    <3> QED  BY <3>2, <3>3
  <2> QED  BY <1>6, <2>2, <2>3, <2>4
<1>10. Stores'
  <2>1. failedAt' \in [Urls -> {-FailTTL} \union 0..MaxTime]  BY <1>1, <1>5 DEF Stores
  <2> QED  BY <1>1, <1>5, <1>8, <1>9, <2>1, SameProcesses
<1>11. Negatives'
  <2>1. \A u \in Urls : redis'[Key("visit_fail", u)] = redis[Key("visit_fail", u)]
    BY <1>9, KeyFacts
  <2> QED  BY <1>1, <1>5, <2>1 DEF Negatives, Key
<1> QED  BY <1>7, <1>10, <1>11 DEF ServerInv

\* A page that is read is stored, and its failure is still there.
LEMMA PageReadKeeps ==
  ASSUME ServerInv, NEW r \in DOMAIN req, PageRead(r)
  PROVE  ServerInv'
<1> DEFINE q == req[r]
           k == Raw(r)
           n == [q EXCEPT !.pc = "forget"]
<1>1. Stores /\ Served /\ Permitted /\ Negatives  BY DEF ServerInv
<1>2. q.op = "visit" /\ q.pc \notin Over /\ q.pc = "post"  BY DEF PageRead, Over
<1>3. k \in Keys /\ \A u \in Urls : Key("visit_fail", u) \in Keys \ {k}
  BY <1>1, <1>2, RequestFacts, ArgumentFacts, KeyFacts DEF Page, Raw, Key
<1>4. /\ l1' = [l1 EXCEPT ![q.worker] = L1Set(l1[q.worker], k)]
      /\ redis' = Stored(redis, k, VisitTTL)
      /\ req' = [req EXCEPT ![r].pc = "forget"]
      /\ UNCHANGED <<now, l1Size, permits, failedAt, procVars>>
  BY DEF PageRead
<1> HIDE DEF k
<1>5. q \in Requests /\ Fits(q)  BY <1>1, RequestFacts
<1>6. n \in Requests
  <2>1. "forget" \in Phases  BY DEF Phases
  <2> QED  BY <1>5, <2>1, OtherValue
<1>7. /\ n.op = q.op /\ n.args = q.args /\ n.worker = q.worker /\ n.answers = q.answers
      /\ n.i = q.i /\ n.status = q.status /\ n.pc = "forget"
  BY <1>5 DEF Requests
<1>8. Fits(n)
  <2>1. q.status = 0  BY <1>2, <1>5 DEF Fits
  <2> HIDE DEF n
  <2> QED  BY <1>5, <1>7, <2>1 DEF Fits, Own
<1>9. req' = [req EXCEPT ![r] = n]  BY <1>1, <1>4 DEF Served
<1>10. Served' /\ Permitted'
  <2>1. n.pc /= "lost" /\ n.pc /= "done"  BY <1>7
  <2> HIDE DEF n
  <2>2. IF n.pc = "done" THEN \E x \in Nat : Release(r, x) ELSE UNCHANGED permits  BY <1>4, <2>1
  <2>3. req[r].pc \notin Over /\ n.op = req[r].op /\ n.worker = req[r].worker  BY <1>2, <1>7
  <2> HIDE DEF q
  <2> QED  BY ONLY <1>1, <1>6, <1>8, <1>9, <2>1, <2>2, <2>3, r \in DOMAIN req, TurnStep
<1>11. /\ redis' \in [Keys -> Entries]
       /\ \A u \in Urls : redis'[Key("visit_fail", u)] = redis[Key("visit_fail", u)]
  <2>1. VisitTTL \in 0..LongestTTL  BY Lifetimes
  <2>2. /\ Stored(redis, k, VisitTTL) \in [Keys -> Entries]
        /\ \A x \in Keys \ {k} : Stored(redis, k, VisitTTL)[x] = redis[x]
    BY <1>1, <1>3, <2>1, StoredStep
  <2> QED  BY <1>3, <1>4, <2>2
<1>12. Stores'
  <2>1. q.worker \in Workers  BY <1>1, RequestFacts
  <2>2. l1[q.worker] \in Caches /\ l1Size \in Nat  BY <1>1, <2>1, Numbers DEF Stores
  <2>3. L1Set(l1[q.worker], k) \in Caches  BY <1>3, <2>2, L1Step
  <2>4. l1' \in [Workers -> Caches']  BY <1>1, <1>4, <2>1, <2>3, CacheOfWorker
  <2>5. failedAt' \in [Urls -> {-FailTTL} \union 0..MaxTime]  BY <1>1, <1>4 DEF Stores
  <2> QED  BY <1>1, <1>4, <1>11, <2>4, <2>5, SameProcesses
<1>13. Negatives'  BY <1>1, <1>4, <1>11 DEF Negatives, Key
<1> QED  BY <1>10, <1>12, <1>13 DEF ServerInv

\* Its failure is taken out of Redis, if Redis hears of it.
LEMMA FailureForgottenKeeps ==
  ASSUME ServerInv, NEW r \in DOMAIN req, FailureForgotten(r)
  PROVE  ServerInv'
<1> DEFINE q == req[r]
           k == Raw(r)
           e == Fails(r)
<1>1. Stores /\ Served /\ Permitted /\ Negatives  BY DEF ServerInv
<1>2. q.op = "visit" /\ q.pc \notin Over  BY DEF FailureForgotten, Over
<1>3. /\ Page(r) \in Urls /\ k \in Keys /\ e \in Keys /\ e = Key("visit_fail", Page(r))
      /\ k[1] = "visit_raw" /\ k[2] = Page(r)
      /\ \A u \in Urls : Key("visit_fail", u) \in Keys /\ (Key("visit_fail", u) = e <=> u = Page(r))
  BY <1>1, <1>2, RequestFacts, ArgumentFacts, KeyFacts DEF Page, Raw, Fails, Key
<1>4. /\ redis' = IF redisUp THEN [redis EXCEPT ![e] = Gone] ELSE redis
      /\ failedAt' = IF redisUp THEN [failedAt EXCEPT ![Page(r)] = -FailTTL] ELSE failedAt
      /\ Proceeds(r, Filled(r, k), {}, "lookup")
      /\ UNCHANGED <<now, l1Size, l1, procVars>>
  BY DEF FailureForgotten, WithoutFailure
<1> HIDE DEF k, e
<1>5. Served' /\ Permitted'
  <2>1. k[1] /= "visit_fail" /\ ((k[1] = "search") <=> (q.op = "search"))  BY <1>2, <1>3
  <2>2. {} \in SUBSET SearchKeys /\ "lookup" \in {"lookup", "post"}  OBVIOUS
  <2> QED  BY <1>1, <1>2, <1>3, <1>4, <2>1, <2>2, AnsweredStep
<1>6. Gone \in Entries
  <2>1. 0 \in 0..(MaxTime + LongestTTL)  BY Lifetimes, Numbers
  <2> QED  BY <2>1 DEF Gone, Entry, Entries
<1>7. /\ redis' \in [Keys -> Entries] /\ failedAt' \in [Urls -> {-FailTTL} \union 0..MaxTime]
      /\ \A u \in Urls : /\ failedAt'[u] = IF redisUp /\ u = Page(r) THEN -FailTTL ELSE failedAt[u]
                         /\ redis'[Key("visit_fail", u)] = IF redisUp /\ u = Page(r) THEN Gone
                                                           ELSE redis[Key("visit_fail", u)]
  BY <1>1, <1>3, <1>4, <1>6 DEF Stores
<1>8. Stores'
  <2>1. Caches' = Caches  BY <1>4 DEF Caches, Keys
  <2>2. l1' \in [Workers -> Caches']  BY <1>1, <1>4, <2>1 DEF Stores
  <2> QED  BY <1>1, <1>4, <1>7, <2>2, SameProcesses
<1>9. Negatives'
  <2> SUFFICES ASSUME NEW u \in Urls
               PROVE  LET x == redis'[Key("visit_fail", u)]
                      IN /\ failedAt'[u] <= now
                         /\ x.till > now /\ ~x.loaded => x.till <= failedAt'[u] + FailTTL
    BY <1>4 DEF Negatives, Key
  <2>1. CASE redisUp /\ u = Page(r)
    <3>1. failedAt'[u] = -FailTTL /\ redis'[Key("visit_fail", u)] = Gone  BY <1>7, <2>1
    <3>2. now \in Nat /\ FailTTL \in Nat  BY <1>1, Numbers DEF Stores
    <3>3. Gone.till = 0 /\ Gone.loaded = FALSE  BY DEF Gone, Entry
    <3> QED  BY <3>1, <3>2, <3>3
  <2>2. CASE ~(redisUp /\ u = Page(r))
    <3>1. failedAt'[u] = failedAt[u] /\ redis'[Key("visit_fail", u)] = redis[Key("visit_fail", u)]
      BY <1>7, <2>2
    <3> QED  BY <1>1, <3>1 DEF Negatives
  <2> QED  BY <2>1, <2>2
<1> QED  BY <1>5, <1>8, <1>9 DEF ServerInv
\* A page that cannot be read leaves a failure of this moment.
LEMMA PageUnreadableKeeps ==
  ASSUME ServerInv, NEW r \in DOMAIN req, PageUnreadable(r)
  PROVE  ServerInv'
<1> DEFINE q == req[r]
           k == Raw(r)
           e == Fails(r)
<1>1. Stores /\ Served /\ Permitted /\ Negatives  BY DEF ServerInv
<1>2. q.op = "visit" /\ q.pc \notin Over  BY DEF PageUnreadable, Over
<1>3. /\ Page(r) \in Urls /\ k \in Keys /\ e \in Keys /\ e = Key("visit_fail", Page(r))
      /\ k[1] = "visit_raw" /\ k[2] = Page(r)
      /\ \A u \in Urls : Key("visit_fail", u) \in Keys /\ (Key("visit_fail", u) = e <=> u = Page(r))
  BY <1>1, <1>2, RequestFacts, ArgumentFacts, KeyFacts DEF Page, Raw, Fails, Key
<1>4. /\ redis' = Stored(redis, e, FailTTL)
      /\ failedAt' = IF redisUp THEN [failedAt EXCEPT ![Page(r)] = now] ELSE failedAt
      /\ Proceeds(r, Filled(r, k), {}, "lookup")
      /\ UNCHANGED <<now, l1Size, l1, procVars>>
  BY DEF PageUnreadable
<1> HIDE DEF k, e
<1>5. Served' /\ Permitted'
  <2>1. k[1] /= "visit_fail" /\ ((k[1] = "search") <=> (q.op = "search"))  BY <1>2, <1>3
  <2>2. {} \in SUBSET SearchKeys /\ "lookup" \in {"lookup", "post"}  OBVIOUS
  <2> QED  BY <1>1, <1>2, <1>3, <1>4, <2>1, <2>2, AnsweredStep
<1>6. /\ redis' \in [Keys -> Entries] /\ \A x \in Keys \ {e} : redis'[x] = redis[x]
      /\ redis'[e] = IF redisUp THEN Entry(now + FailTTL, FALSE) ELSE redis[e]
  BY <1>1, <1>3, <1>4, Lifetimes, StoredStep, ZenonT(60)
<1>7. /\ failedAt' \in [Urls -> {-FailTTL} \union 0..MaxTime]
      /\ \A u \in Urls : failedAt'[u] = IF redisUp /\ u = Page(r) THEN now ELSE failedAt[u]
  BY <1>1, <1>3, <1>4 DEF Stores
<1>8. Stores'
  <2>1. Caches' = Caches  BY <1>4 DEF Caches, Keys
  <2>2. l1' \in [Workers -> Caches']  BY <1>1, <1>4, <2>1 DEF Stores
  <2> QED  BY <1>1, <1>4, <1>6, <1>7, <2>2, SameProcesses
<1>9. Negatives'
  <2> SUFFICES ASSUME NEW u \in Urls
               PROVE  LET x == redis'[Key("visit_fail", u)]
                      IN /\ failedAt'[u] <= now
                         /\ x.till > now /\ ~x.loaded => x.till <= failedAt'[u] + FailTTL
    BY <1>4 DEF Negatives, Key
  <2>1. CASE redisUp /\ u = Page(r)
    <3>1. failedAt'[u] = now /\ redis'[Key("visit_fail", u)] = Entry(now + FailTTL, FALSE)
      BY <1>3, <1>6, <1>7, <2>1
    <3>2. now \in Nat /\ FailTTL \in Nat  BY <1>1, Numbers DEF Stores
    <3> QED  BY <3>1, <3>2 DEF Entry
  <2>2. CASE ~(redisUp /\ u = Page(r))
    <3>1. failedAt'[u] = failedAt[u] /\ redis'[Key("visit_fail", u)] = redis[Key("visit_fail", u)]
      BY <1>3, <1>6, <1>7, <2>2
    <3> QED  BY <1>1, <3>1 DEF Negatives
  <2> QED  BY <2>1, <2>2
<1> QED  BY <1>5, <1>8, <1>9 DEF ServerInv
-----------------------------------------------------------------------------
(* The other steps.                                                        *)

LEMMA FlightFacts ==
  ASSUME Served, NEW w \in Workers, NEW op \in Ops
  PROVE  /\ IsFiniteSet(InFlight(w, op)) /\ Cardinality(InFlight(w, op)) \in Nat
         /\ DOMAIN req = 1..Len(req) /\ Len(req) \in Nat
<1>1. DOMAIN req = 1..Len(req) /\ Len(req) \in Nat  BY LenProperties DEF Served
<1>2. IsFiniteSet(1..Len(req))
  <2>1. 1 \in Int /\ Len(req) \in Int  BY <1>1
  <2> QED  BY ONLY <2>1, FS_Interval
<1>3. InFlight(w, op) \in SUBSET (1..Len(req))  BY <1>1 DEF InFlight
<1> QED  BY <1>1, <1>2, <1>3, FS_Subset, FS_CardinalityType

\* A call that is admitted takes a permit, one that is not is answered at once.
LEMMA ReceiveKeeps ==
  ASSUME ServerInv, NEW w0 \in Workers, NEW call \in Calls, Receive(w0, call)
  PROVE  ServerInv'
<1> DEFINE admitted == permits[w0][call.op] > 0
           o0 == call.op
           answers == [p \in DOMAIN call.args |-> NoAnswer]
           n == [op |-> call.op, args |-> call.args, worker |-> w0, deadline |-> now + Deadline,
                 pc |-> IF admitted THEN "lookup" ELSE "done", i |-> 1, attempt |-> 0,
                 fetched |-> {}, answers |-> answers, status |-> IF admitted THEN 0 ELSE 429]
           l == Len(req) + 1
<1>1. Stores /\ Served /\ Permitted /\ Negatives  BY DEF ServerInv
<1>2. /\ req' = Append(req, n)
      /\ permits' = IF admitted THEN [permits EXCEPT ![w0][o0] = @ - 1] ELSE permits
      /\ UNCHANGED <<now, l1Size, l1, redis, failedAt, procVars>>
  BY DEF Receive
<1>3. /\ o0 \in Ops /\ call.args \in Seq(IF o0 = "search" THEN Queries ELSE Urls)
      /\ call.args \in Seq(Queries) \union Seq(Urls) /\ call.args /= <<>>
  BY ToolServerAssumption DEF ToolServerAssumption, Ops
<1>4. DOMAIN call.args = 1..Len(call.args) /\ Len(call.args) \in Nat /\ 1 \in DOMAIN call.args
  <2>1. DOMAIN call.args = 1..Len(call.args) /\ Len(call.args) \in Nat  BY <1>3, LenProperties
  <2>2. Len(call.args) /= 0  BY <1>3, EmptySeq
  <2> QED  BY <2>1, <2>2
<1>5. answers \in Seq(Answers) /\ DOMAIN answers = DOMAIN call.args
  <2>1. answers \in [1..Len(call.args) -> Answers]  BY <1>4, NoneYet
  <2> QED  BY <1>4, <2>1, SeqDef
<1>6. n \in Requests
  <2>1. now + Deadline \in Nat /\ 1 \in Nat /\ 0 \in Nat /\ {} \in SUBSET SearchKeys
    BY <1>1, Numbers DEF Stores
  <2>2. (IF admitted THEN "lookup" ELSE "done") \in Phases
        /\ (IF admitted THEN 0 ELSE 429) \in Statuses
    BY DEF Phases, Statuses
  <2> HIDE DEF answers, admitted
  <2> QED  BY <1>3, <1>5, <2>1, <2>2 DEF Requests
<1>7. Fits(n)
  <2>1. \A p \in DOMAIN n.args : Own(n, n.answers[p], n.args[p])  BY NoneYet
  <2>2. n.status /= 200 /\ ((n.pc = "done") <=> (n.status /= 0))  OBVIOUS
  <2>3. n.op = o0 /\ n.args = call.args /\ n.answers = answers /\ n.i = 1  OBVIOUS
  <2> HIDE DEF n, answers
  <2> QED  BY <1>3, <1>4, <1>5, <2>1, <2>2, <2>3 DEF Fits
<1>8. n.op = o0 /\ n.worker = w0 /\ n.pc = IF admitted THEN "lookup" ELSE "done"  OBVIOUS
<1> HIDE DEF n, admitted, answers
<1>9. /\ req \in Seq(Requests) /\ DOMAIN req = 1..Len(req) /\ Len(req) \in Nat
      /\ \A w \in Workers, op \in Ops : IsFiniteSet(InFlight(w, op)) /\ Cardinality(InFlight(w, op)) \in Nat
  BY <1>1, <1>3, FlightFacts DEF Served
<1>10. /\ req' \in Seq(Requests) /\ DOMAIN req' = DOMAIN req \union {l} /\ l \notin DOMAIN req
       /\ req'[l] = n /\ \A x \in DOMAIN req : req'[x] = req[x]
  <2>1. /\ req' \in Seq(Requests) /\ Len(req') = l /\ req'[l] = n
        /\ \A x \in 1..Len(req) : req'[x] = req[x]
    BY <1>2, <1>6, <1>9, AppendProperties
  <2>2. DOMAIN req' = 1..l  BY <2>1, LenProperties
  <2> QED  BY <1>9, <2>1, <2>2
<1>11. \A x \in DOMAIN req' : Fits(req'[x])  BY <1>1, <1>7, <1>10 DEF Served
<1> HIDE DEF l
<1>12. ASSUME ~admitted PROVE Served' /\ Permitted'
  <2>1. UNCHANGED permits  BY <1>2, <1>12
  <2>2. \A w, op : InFlight(w, op)' = InFlight(w, op)  BY <1>8, <1>10, <1>12 DEF InFlight, Over
  <2> QED  BY <1>1, <1>10, <1>11, <2>1, <2>2 DEF Served, Permitted, Limit, Ops
<1>13. ASSUME admitted PROVE Served' /\ Permitted'
  <2>1. permits' = [permits EXCEPT ![w0][o0] = @ - 1] /\ permits[w0][o0] > 0
    BY <1>2, <1>13 DEF admitted
  <2>2. /\ permits' \in [Workers -> [Ops -> Nat]]
        /\ \A w \in Workers, op \in Ops :
             permits'[w][op] = IF w = w0 /\ op = o0 THEN permits[w][op] - 1 ELSE permits[w][op]
    <3>1. permits \in [Workers -> [Ops -> Nat]] /\ permits[w0][o0] - 1 \in Nat
      BY <1>1, <1>3, <2>1 DEF Served
    <3> QED  BY <1>3, <2>1, <3>1
  <2>3. \A w, op : InFlight(w, op)' = IF w = w0 /\ op = o0 THEN InFlight(w, op) \union {l} ELSE InFlight(w, op)
    BY <1>8, <1>10, <1>13 DEF InFlight, Over
  <2>4. Cardinality(InFlight(w0, o0) \union {l}) = Cardinality(InFlight(w0, o0)) + 1
    <3>1. l \notin InFlight(w0, o0)  BY <1>10 DEF InFlight
    <3>2. IsFiniteSet(InFlight(w0, o0))  BY <1>3, <1>9
    <3> QED  BY ONLY <3>1, <3>2, FS_AddElement
  <2>5. ASSUME NEW w \in Workers, NEW op \in Ops
        PROVE  permits'[w][op] + Cardinality(InFlight(w, op)') = Limit(op)
    <3>1. /\ permits[w][op] + Cardinality(InFlight(w, op)) = Limit(op) /\ permits[w][op] \in Nat
          /\ Cardinality(InFlight(w, op)) \in Nat
      BY <1>1, <1>9 DEF Permitted, Served
    <3>2. CASE w = w0 /\ op = o0
      <4>1. permits'[w][op] = permits[w][op] - 1
            /\ Cardinality(InFlight(w, op)') = Cardinality(InFlight(w, op)) + 1
        BY <2>2, <2>3, <2>4, <3>2
      <4> QED  BY <3>1, <4>1
    <3>3. CASE ~(w = w0 /\ op = o0)
      <4>1. permits'[w][op] = permits[w][op] /\ InFlight(w, op)' = InFlight(w, op)
        BY <2>2, <2>3, <3>3
      <4> QED  BY <3>1, <4>1
    <3> QED  BY <3>2, <3>3
  <2>6. Served'  BY <1>10, <1>11, <2>2 DEF Served
  <2>7. Permitted'  BY <2>5 DEF Permitted, Limit
  <2> QED  BY <2>6, <2>7
<1>14. Served' /\ Permitted'  BY <1>12, <1>13
<1>15. Stores' /\ Negatives'  BY <1>1, <1>2, SameStores, SameNegatives
<1> QED  BY <1>14, <1>15 DEF ServerInv
LEMMA SameRequests ==
  ASSUME Served, Permitted, UNCHANGED <<permits, req>>
  PROVE  Served' /\ Permitted'
<1>1. Served'  BY DEF Served
<1>2. \A w, op : InFlight(w, op)' = InFlight(w, op)  BY DEF InFlight
<1>3. Permitted'  BY <1>2 DEF Permitted
<1> QED  BY <1>1, <1>3

\* The warm start writes entries that are marked as loaded.
LEMMA LoadKeeps ==
  ASSUME ServerInv, Load
  PROVE  ServerInv'
<1> DEFINE e == Entry(now + Max({SearchTTL, VisitTTL}), TRUE)
<1>1. Stores /\ Served /\ Permitted /\ Negatives  BY DEF ServerInv
<1>2. /\ warming' = FALSE
      /\ redis' = [k \in Keys |-> IF redisUp /\ k \in warmFile THEN e ELSE redis[k]]
      /\ UNCHANGED <<now, l1Size, l1, permits, req, failedAt, up, leader, redisUp>>
  BY DEF Load
<1>3. e \in Entries /\ e.loaded
  <2>1. now + Max({SearchTTL, VisitTTL}) \in 0..(MaxTime + LongestTTL)
    BY <1>1, Lifetimes, Numbers DEF Stores
  <2> QED  BY <2>1 DEF Entry, Entries
<1> HIDE DEF e
<1>4. redis' \in [Keys -> Entries] /\ \A k \in Keys : redis'[k] = e \/ redis'[k] = redis[k]
  BY <1>1, <1>2, <1>3 DEF Stores
<1>5. Caches' = Caches  BY <1>2 DEF Caches
<1>6. Stores'  BY <1>1, <1>2, <1>4, <1>5 DEF Stores
<1>7. Served' /\ Permitted'
  BY <1>1, <1>2, SameRequests
<1>8. Negatives'
  <2> SUFFICES ASSUME NEW u \in Urls
               PROVE  LET x == redis'[Key("visit_fail", u)]
                      IN /\ failedAt[u] <= now
                         /\ x.till > now /\ ~x.loaded => x.till <= failedAt[u] + FailTTL
    BY <1>2 DEF Negatives, Key
  <2>1. redis'[Key("visit_fail", u)] = e \/ redis'[Key("visit_fail", u)] = redis[Key("visit_fail", u)]
    BY <1>4, KeyFacts
  <2> QED  BY <1>1, <1>3, <2>1 DEF Negatives
<1> QED  BY <1>6, <1>7, <1>8 DEF ServerInv

\* Time only takes entries out of Redis.
LEMMA TickKeeps ==
  ASSUME ServerInv, Tick
  PROVE  ServerInv'
<1>1. Stores /\ Served /\ Permitted /\ Negatives  BY DEF ServerInv
<1>2. /\ now < MaxTime /\ now' = now + 1
      /\ redis' = [k \in Keys |-> IF redis[k].till > now' THEN redis[k] ELSE Gone]
      /\ UNCHANGED <<l1Size, l1, permits, req, failedAt, procVars>>
  BY DEF Tick
<1>3. Gone \in Entries /\ Gone.till = 0
  <2>1. 0 \in 0..(MaxTime + LongestTTL)  BY Lifetimes, Numbers
  <2> QED  BY <2>1 DEF Gone, Entry, Entries
<1>4. redis' \in [Keys -> Entries] /\ \A k \in Keys : redis'[k] = Gone \/ redis'[k] = redis[k]
  BY <1>1, <1>2, <1>3 DEF Stores
<1>5. Caches' = Caches  BY <1>2 DEF Caches
<1>6. now' \in 0..MaxTime /\ now \in Nat  BY <1>1, <1>2, Numbers DEF Stores
<1>7. Stores'  BY <1>1, <1>2, <1>4, <1>5, <1>6 DEF Stores, procVars
<1>8. Served' /\ Permitted'
  BY <1>1, <1>2, SameRequests
<1>9. Negatives'
  <2> SUFFICES ASSUME NEW u \in Urls
               PROVE  LET x == redis'[Key("visit_fail", u)]
                      IN /\ failedAt[u] <= now'
                         /\ x.till > now' /\ ~x.loaded => x.till <= failedAt[u] + FailTTL
    BY <1>2 DEF Negatives, Key
  <2>1. redis'[Key("visit_fail", u)] = Gone \/ redis'[Key("visit_fail", u)] = redis[Key("visit_fail", u)]
    BY <1>4, KeyFacts
  <2>2. failedAt[u] \in Int /\ redis[Key("visit_fail", u)].till \in Int
    BY <1>1, KeyFacts, Numbers, Lifetimes DEF Stores, Entries
  <2>3. /\ failedAt[u] <= now
        /\ redis[Key("visit_fail", u)].till > now /\ ~redis[Key("visit_fail", u)].loaded
             => redis[Key("visit_fail", u)].till <= failedAt[u] + FailTTL
    BY <1>1 DEF Negatives
  <2> QED  BY <1>2, <1>3, <1>6, <2>1, <2>2, <2>3
<1> QED  BY <1>7, <1>8, <1>9 DEF ServerInv

\* A worker that dies takes its requests with it, and its permits are new.
LEMMA CrashKeeps ==
  ASSUME ServerInv, NEW w0 \in Workers, Crash(w0)
  PROVE  ServerInv'
<1>1. Stores /\ Served /\ Permitted /\ Negatives  BY DEF ServerInv
<1>2. /\ w0 \in up /\ up' = up \ {w0} /\ l1' = [l1 EXCEPT ![w0] = <<>>]
      /\ permits' = [permits EXCEPT ![w0] = [search |-> SearchPermits, visit |-> VisitPermits]]
      /\ req' = [r \in DOMAIN req |-> IF req[r].worker = w0 /\ req[r].pc \notin Over
                                         THEN [req[r] EXCEPT !.pc = "lost"] ELSE req[r]]
      /\ UNCHANGED <<now, l1Size, redis, failedAt, redisUp>>
  BY DEF Crash
<1>3. Stores'
  <2>1. leader' \in up' \union {NoOne} /\ warming' \in BOOLEAN
    <3>1. CASE w0 = leader  BY <1>1, <3>1 DEF Crash, Stores
    <3>2. CASE w0 /= leader  BY <1>1, <1>2, <3>2 DEF Crash, Stores
    <3> QED  BY <3>1, <3>2
  <2>2. <<>> \in Caches
    <3>1. <<>> \in Seq(Keys) /\ Len(<<>>) = 0 /\ l1Size \in Nat  BY <1>1, EmptySeq, Numbers DEF Stores
    <3> QED  BY <3>1 DEF Caches
  <2>3. l1' \in [Workers -> Caches']  BY <1>1, <1>2, <2>2, CacheOfWorker
  <2> QED  BY <1>1, <1>2, <2>1, <2>3 DEF Stores
<1>4. DOMAIN req = 1..Len(req) /\ Len(req) \in Nat  BY <1>1, LenProperties DEF Served
<1>5. ASSUME NEW r \in DOMAIN req
      PROVE  /\ req'[r] \in Requests /\ Fits(req'[r])
             /\ req'[r].worker = req[r].worker /\ req'[r].op = req[r].op
             /\ req'[r].pc \notin Over <=> req[r].pc \notin Over /\ req[r].worker /= w0
  <2>1. req[r] \in Requests /\ Fits(req[r])  BY <1>1, RequestFacts
  <2>2. CASE req[r].worker = w0 /\ req[r].pc \notin Over
    <3> DEFINE n == [req[r] EXCEPT !.pc = "lost"]
    <3>1. "lost" \in Phases  BY DEF Phases
    <3>2. n \in Requests  BY <2>1, <3>1, OtherValue
    <3>3. /\ n.op = req[r].op /\ n.args = req[r].args /\ n.worker = w0 /\ n.answers = req[r].answers
          /\ n.i = req[r].i /\ n.pc = "lost" /\ n.status = req[r].status
      BY <2>1, <2>2 DEF Requests
    <3>4. req[r].pc /= "done"  BY <2>2 DEF Over
    <3>5. req'[r] = n  BY <1>2, <2>2
    <3> HIDE DEF n
    <3>6. Fits(n)  BY <2>1, <3>3, <3>4 DEF Fits, Own
    <3> QED  BY <2>2, <3>2, <3>3, <3>5, <3>6 DEF Over
  <2>3. CASE ~(req[r].worker = w0 /\ req[r].pc \notin Over)
    <3>1. req'[r] = req[r]  BY <1>2, <2>3
    <3> QED  BY <2>1, <2>3, <3>1
  <2> QED  BY <2>2, <2>3
<1>6. DOMAIN req' = DOMAIN req  BY <1>2
<1>7. req' \in Seq(Requests)
  <2>1. req' \in [1..Len(req) -> Requests]  BY <1>2, <1>4, <1>5
  <2> QED  BY <1>4, <2>1, SeqDef
<1>8. /\ permits' \in [Workers -> [Ops -> Nat]]
      /\ \A w \in Workers, op \in Ops : permits'[w][op] = IF w = w0 THEN Limit(op) ELSE permits[w][op]
  <2>1. [search |-> SearchPermits, visit |-> VisitPermits] \in [Ops -> Nat]  BY Numbers DEF Ops
  <2>2. \A op \in Ops : [search |-> SearchPermits, visit |-> VisitPermits][op] = Limit(op)
    BY DEF Ops, Limit
  <2> QED  BY <1>1, <1>2, <2>1, <2>2 DEF Served
<1>9. \A w, op : InFlight(w, op)' = IF w = w0 THEN {} ELSE InFlight(w, op)
  BY <1>5, <1>6 DEF InFlight
<1>10. Served'  BY <1>5, <1>6, <1>7, <1>8 DEF Served
<1>11. Permitted'
  <2>1. ASSUME NEW w \in Workers, NEW op \in Ops
        PROVE  permits'[w][op] + Cardinality(InFlight(w, op)') = Limit(op)
    <3>1. CASE w = w0
      <4>1. Cardinality(InFlight(w, op)') = 0 /\ permits'[w][op] = Limit(op)
        BY <1>8, <1>9, <3>1, FS_EmptySet
      <4>2. Limit(op) \in Nat  BY Numbers DEF Limit
      <4> QED  BY <4>1, <4>2
    <3>2. CASE w /= w0
      <4>1. permits'[w][op] = permits[w][op] /\ InFlight(w, op)' = InFlight(w, op)
        BY <1>8, <1>9, <3>2
      <4> QED  BY <1>1, <4>1 DEF Permitted
    <3> QED  BY <3>1, <3>2
  <2> QED  BY <2>1 DEF Permitted, Limit
<1>12. Negatives'  BY <1>1, <1>2, SameNegatives
<1> QED  BY <1>3, <1>10, <1>11, <1>12 DEF ServerInv

\* What touches neither a request nor a cache.
LEMMA ProcessStep ==
  ASSUME ServerInv, UNCHANGED <<now, l1Size, serveVars>>,
         up' \in SUBSET Workers, leader' \in up' \union {NoOne}, warming' \in BOOLEAN, redisUp' \in BOOLEAN
  PROVE  ServerInv'
<1>1. Stores /\ Served /\ Permitted /\ Negatives  BY DEF ServerInv
<1>2. UNCHANGED <<now, l1Size, l1, redis, permits, req, failedAt>>  BY DEF serveVars
<1>3. Caches' = Caches  BY <1>2 DEF Caches
<1>4. Stores'  BY <1>1, <1>2, <1>3 DEF Stores
<1>5. Served' /\ Permitted'
  BY <1>1, <1>2, SameRequests
<1>6. Negatives'  BY <1>1, <1>2, SameNegatives
<1> QED  BY <1>4, <1>5, <1>6 DEF ServerInv
-----------------------------------------------------------------------------
(* The theorems.                                                           *)

LEMMA ServerInit == Init => ServerInv
<1> SUFFICES ASSUME Init PROVE ServerInv
  OBVIOUS
<1> USE DEF Init
<1>1. Stores
  <2>1. leader \in Workers  BY ToolServerAssumption DEF ToolServerAssumption
  <2>2. now \in 0..MaxTime  BY Numbers
  <2>3. <<>> \in Caches
    <3>1. <<>> \in Seq(Keys) /\ Len(<<>>) = 0 /\ l1Size \in Nat  BY EmptySeq, Numbers
    <3> QED  BY <3>1 DEF Caches
  <2>4. l1 \in [Workers -> Caches]  BY <2>3
  <2>5. Gone \in Entries
    <3>1. 0 \in 0..(MaxTime + LongestTTL)  BY Lifetimes, Numbers
    <3> QED  BY <3>1 DEF Gone, Entry, Entries
  <2>6. redis \in [Keys -> Entries]  BY <2>5
  <2>7. failedAt \in [Urls -> {-FailTTL} \union 0..MaxTime]  OBVIOUS
  <2>8. up \in SUBSET Workers /\ leader \in up \union {NoOne} /\ warming \in BOOLEAN /\ redisUp \in BOOLEAN
    BY <2>1
  <2> QED  BY <2>2, <2>4, <2>6, <2>7, <2>8 DEF Stores
<1>2. req \in Seq(Requests) /\ DOMAIN req = {}
  <2>1. req = <<>>  OBVIOUS
  <2>2. req \in Seq(Requests) /\ Len(req) = 0  BY <2>1, EmptySeq
  <2>3. DOMAIN req = 1..0  BY <2>2, LenProperties
  <2> QED  BY <2>2, <2>3
<1>3. \A w \in Workers : permits[w] = [search |-> SearchPermits, visit |-> VisitPermits]  OBVIOUS
<1>4. permits \in [Workers -> [Ops -> Nat]]
      /\ \A w \in Workers, op \in Ops : permits[w][op] = Limit(op) /\ Limit(op) \in Nat
  <2>1. [search |-> SearchPermits, visit |-> VisitPermits] \in [Ops -> Nat]  BY Numbers DEF Ops
  <2>2. \A op \in Ops : [search |-> SearchPermits, visit |-> VisitPermits][op] = Limit(op)
    BY DEF Ops, Limit
  <2>3. \A op \in Ops : Limit(op) \in Nat  BY Numbers DEF Limit
  <2> QED  BY <2>1, <2>2, <2>3
<1>5. Served  BY <1>2, <1>4 DEF Served
<1>6. Permitted
  <2>1. \A w, op : InFlight(w, op) = {}  BY <1>2 DEF InFlight
  <2>2. Cardinality({}) = 0  BY FS_EmptySet
  <2>3. ASSUME NEW w \in Workers, NEW op \in Ops
        PROVE  permits[w][op] + Cardinality(InFlight(w, op)) = Limit(op)
    <3>1. Cardinality(InFlight(w, op)) = 0  BY <2>1, <2>2
    <3>2. permits[w][op] = Limit(op) /\ Limit(op) \in Nat  BY <1>4
    <3> QED  BY <3>1, <3>2
  <2> QED  BY <2>3 DEF Permitted
<1>7. Negatives
  <2> SUFFICES ASSUME NEW u \in Urls
               PROVE  LET e == redis[Key("visit_fail", u)]
                      IN /\ failedAt[u] <= now
                         /\ e.till > now /\ ~e.loaded => e.till <= failedAt[u] + FailTTL
    BY DEF Negatives
  <2>1. redis[Key("visit_fail", u)] = Gone /\ failedAt[u] = -FailTTL /\ now = 0  BY KeyFacts
  <2>2. Gone.till = 0  BY DEF Gone, Entry
  <2> QED  BY <2>1, <2>2, Numbers
<1> QED  BY <1>1, <1>5, <1>6, <1>7 DEF ServerInv

LEMMA ServerNext == ServerInv /\ [Next]_vars => ServerInv'
<1> SUFFICES ASSUME ServerInv, [Next]_vars PROVE ServerInv'
  OBVIOUS
<1>1. ASSUME NEW w \in Workers, NEW call \in Calls, Receive(w, call) PROVE ServerInv'
  BY <1>1, ReceiveKeeps
<1>2. ASSUME NEW r \in DOMAIN req, Serve(r) PROVE ServerInv'
  BY <1>2, SearchLooksUpKeeps, VisitFailsFastKeeps, VisitLooksUpKeeps, AttemptFailsKeeps,
     TriesAgainKeeps, SearchEndsKeeps, PageReadKeeps, FailureForgottenKeeps,
     PageUnreadableKeeps DEF Serve
<1>3. CASE Load  BY <1>3, LoadKeeps
<1>4. CASE Tick  BY <1>4, TickKeeps
<1>5. ASSUME NEW w \in Workers, Crash(w) PROVE ServerInv'  BY <1>5, CrashKeeps
<1>6. Stores  BY DEF ServerInv
<1>7. ASSUME NEW w \in Workers, Restart(w) PROVE ServerInv'
  <2>1. /\ up' = up \union {w} /\ UNCHANGED <<now, l1Size, serveVars, redisUp>>
        /\ \/ leader' = w /\ warming' = TRUE
           \/ UNCHANGED <<leader, warming>>
    BY <1>7 DEF Restart
  <2>2. up' \in SUBSET Workers /\ leader' \in up' \union {NoOne} /\ warming' \in BOOLEAN /\ redisUp' \in BOOLEAN
    BY <1>6, <2>1 DEF Stores
  <2> QED  BY <2>1, <2>2, ProcessStep
<1>8. ASSUME UNCHANGED <<now, l1Size, serveVars, up, leader, warming>>, redisUp' \in BOOLEAN
      PROVE  ServerInv'
  <2>1. up' \in SUBSET Workers /\ leader' \in up' \union {NoOne} /\ warming' \in BOOLEAN
    BY <1>6, <1>8 DEF Stores
  <2> QED  BY <1>8, <2>1, ProcessStep
<1>9. CASE RedisStops \/ RedisReturns  BY <1>8, <1>9 DEF RedisStops, RedisReturns
<1>10. redisUp \in BOOLEAN  BY <1>6 DEF Stores
<1>11. ASSUME NEW t \in Syncs, SyncStarts(t) \/ SyncReads(t) \/ SyncReplaces(t) PROVE ServerInv'
  BY <1>8, <1>10, <1>11 DEF SyncStarts, SyncReads, SyncReplaces, procVars
<1>12. CASE MergeDumps  BY <1>8, <1>10, <1>12 DEF MergeDumps, procVars
<1>13. CASE UNCHANGED vars  BY <1>8, <1>10, <1>13 DEF vars, procVars
<1> QED  BY <1>1, <1>2, <1>3, <1>4, <1>5, <1>7, <1>9, <1>11, <1>12, <1>13 DEF Next

THEOREM ServerInvHolds == Spec => []ServerInv
BY ServerInit, ServerNext, PTL DEF Spec

\* What the answers of a request are, under the invariant.
LEMMA PartFacts ==
  ASSUME ServerInv, NEW r \in DOMAIN req, NEW p \in DOMAIN req[r].args
  PROVE  /\ Own(req[r], req[r].answers[p], req[r].args[p]) /\ req[r].answers[p] \in Answers
         /\ req[r].status = 200 => req[r].answers[p] /= NoAnswer
<1>1. Served  BY DEF ServerInv
<1>2. Fits(req[r]) /\ req[r].answers \in [DOMAIN req[r].args -> Answers]  BY <1>1, RequestFacts
<1> QED  BY <1>2 DEF Fits, Missing

(* No worker gives out more answers than it has permits, and each request  *)
(* gives its permit back once, however it ends and whoever dies; the caches*)
(* stay within their limit.                                                *)
THEOREM ConsistentHolds == Spec => []Consistent
<1>1. ServerInv => Consistent
  <2> SUFFICES ASSUME ServerInv PROVE Consistent
    OBVIOUS
  <2>1. Stores /\ Served /\ Permitted  BY DEF ServerInv
  <2>2. \A w \in Workers : Len(l1[w]) <= l1Size /\ \A i \in DOMAIN l1[w] : l1[w][i] \in Keys
    <3>1. \A w \in Workers : l1[w] \in Seq(Keys) /\ Len(l1[w]) <= l1Size  BY <2>1 DEF Stores, Caches
    <3>2. \A w \in Workers : DOMAIN l1[w] = 1..Len(l1[w])  BY <3>1, LenProperties
    <3> QED  BY <3>1, <3>2, ElementOfSeq
  <2>3. redis \in [Keys -> [till : 0..(MaxTime + Max({SearchTTL, VisitTTL, FailTTL})), loaded : BOOLEAN]]
    BY <2>1 DEF Stores, Entries, LongestTTL
  <2>4. ASSUME NEW r \in DOMAIN req
        PROVE  /\ req[r].pc \in {"lookup", "post", "forget", "sleep"} \union Over
               /\ req[r].status \in {0, 200, 429, 504} /\ (req[r].pc = "done" <=> req[r].status /= 0)
               /\ \A p \in DOMAIN req[r].args : req[r].answers[p] \in Answers
    <3>1. req[r] \in Requests /\ Fits(req[r])  BY <2>1, RequestFacts
    <3>2. req[r].pc \in Phases /\ req[r].status \in Statuses  BY <3>1 DEF Requests
    <3> QED  BY <3>1, <3>2, PartFacts DEF Phases, Statuses, Over, Fits
  <2>5. TypeOK  BY <2>1, <2>2, <2>3, <2>4 DEF TypeOK, Stores
  <2>6. PermitsKept
    <3>1. "search" \in Ops /\ "visit" \in Ops /\ Limit("search") = SearchPermits
          /\ Limit("visit") = VisitPermits
      BY DEF Ops, Limit
    <3> QED  BY <2>1, <3>1 DEF Permitted, PermitsKept
  <2> QED  BY <2>5, <2>6 DEF Consistent
<1> QED  BY <1>1, ServerInvHolds, PTL

(* Every part of an answer is about its own place in the request, and a 200*)
(* has all its parts, for every interleaving of the requests of a worker.  *)
THEOREM AnswersOwnHolds == Spec => []AnswersOwn
<1>1. ServerInv => AnswersOwn  BY PartFacts DEF AnswersOwn, Own
<1> QED  BY <1>1, ServerInvHolds, PTL

(* A cached failure that is answered is younger than the lifetime of a     *)
(* failure, and no deletion that Redis heard came after it, whatever fault *)
(* falls between storing a page and deleting its failure.                  *)
THEOREM NegativeRecentHolds == Spec => []NegativeRecent
<1>1. ServerInv => NegativeRecent  BY PartFacts DEF NegativeRecent, Own
<1> QED  BY <1>1, ServerInvHolds, PTL
=============================================================================
