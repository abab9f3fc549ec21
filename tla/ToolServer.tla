----------------------------- MODULE ToolServer -----------------------------
(***************************************************************************)
(* The search and visit service (tool_server/                              *)
(* api_server_deepresearch_redis.py): worker processes, each one event loop*)
(* with a cache of its own, one Redis behind them, and a leader that dumps *)
(* Redis into a file and warms Redis up from a file.  A request is a series*)
(* of turns of its event loop, from one HTTP answer to the next HTTP       *)
(* request; a turn is one step here with its Redis commands, but for the   *)
(* two that follow a page that was read: the loop waits for both, while    *)
(* the other processes go on.                                              *)
(***************************************************************************)
EXTENDS Integers, Sequences, FiniteSets, SequencesExt

CONSTANTS Workers, Queries, Urls,
          Calls,               \* what clients ask: [op, args]
          L1Sizes,             \* L1_CACHE_MAXSIZE, one of these
          SearchTTL, VisitTTL, FailTTL,   \* lifetimes in Redis, in ticks
          SearchPermits, VisitPermits,    \* the semaphores of one process
          Deadline,            \* *_REQUEST_TIMEOUT_SECONDS less the margin, in ticks
          SearchAttempts, VisitAttempts,  \* HTTP requests for one query, for one page
          MaxRequests, MaxTime, MaxFaults   \* bounds

NoOne == "no one"

ASSUME ToolServerAssumption ==
  /\ Workers /= {} /\ NoOne \notin Workers
  /\ \A c \in Calls : \/ c.op = "search" /\ c.args \in Seq(Queries) \ {<<>>}
                      \/ c.op = "visit" /\ c.args \in Seq(Urls) \ {<<>>}
  /\ L1Sizes \subseteq Nat
  /\ {SearchTTL, VisitTTL, FailTTL, SearchPermits, VisitPermits, Deadline, SearchAttempts,
      VisitAttempts} \subseteq Nat \ {0}
  /\ {MaxRequests, MaxTime, MaxFaults} \subseteq Nat

Syncs == {"periodic", "endpoint"}   \* the threads that call sync_to_json

VARIABLES now,
          l1Size,
          l1,        \* l1[w]: the worker's cache, [key, value], least recent first
          redis,     \* redis[k]: value and end of its life
          permits,   \* permits[w][op]: what is left of the semaphore
          req,       \* the requests, in the order of their arrival
          up, leader, warming, redisUp,
          faults,    \* crashes of workers and outages of Redis
          syncLock, sync, temp, file,
          warmFile,  \* what the operator has made of the dumps
          failedAt   \* when the page failed as Redis last heard; deleted or none, -FailTTL

serveVars == <<l1, redis, permits, req, failedAt>>
dumpVars  == <<syncLock, sync, temp, file, warmFile>>
procVars  == <<up, leader, warming, redisUp, faults>>
vars == <<now, l1Size, serveVars, dumpVars, procVars>>

Key(kind, x) == <<kind, x>>
Keys == ({"search"} \X Queries) \union ({"visit_raw", "visit_fail"} \X Urls)

\* A value is known by its key; loaded: it came back from a file.
Entry(till, loaded) == [till |-> till, loaded |-> loaded]
Gone == Entry(0, FALSE)

\* The part of an answer that stands for one argument of the request: where
\* it is from and, for a failure that was cached, how long ago the page failed.
From(key) == [key |-> key, age |-> 0, loaded |-> FALSE]
NoAnswer  == From(<<>>)

NoFile    == [whole |-> FALSE, data |-> {}]   \* or one that was only opened

\* The workers that race for the lock of the leader at startup are alike.
Init ==
  /\ now = 0 /\ l1Size \in L1Sizes
  /\ l1 = [w \in Workers |-> <<>>]
  /\ redis = [k \in Keys |-> Gone]
  /\ permits = [w \in Workers |-> [search |-> SearchPermits, visit |-> VisitPermits]]
  /\ req = <<>>
  /\ up = Workers /\ leader = (CHOOSE w \in Workers : TRUE) /\ warming = FALSE
  /\ redisUp = TRUE /\ faults = 0
  /\ syncLock = "free" /\ sync = [t \in Syncs |-> "idle"]
  /\ temp = NoFile
  /\ file = [whole |-> TRUE, data |-> {}] /\ warmFile = {}
  /\ failedAt = [u \in Urls |-> -FailTTL]

Alive(k) == redisUp /\ redis[k].till > now
Stored(store, k, ttl) == IF redisUp THEN [store EXCEPT ![k] = Entry(now + ttl, FALSE)] ELSE store
-----------------------------------------------------------------------------
(* L1LRUCache, _cache_get, _cache_set.                                     *)
Place(cache, k) == CHOOSE p \in DOMAIN cache : cache[p] = k
L1Get(cache, k) == IF Contains(cache, k) THEN Append(RemoveAt(cache, Place(cache, k)), k) ELSE cache

\* set(): a key that is there becomes the most recent.
L1Set(cache, k) ==
  IF l1Size = 0 THEN cache
  ELSE IF Contains(cache, k) THEN L1Get(cache, k)
  ELSE Append(IF Len(cache) >= l1Size THEN Tail(cache) ELSE cache, k)

\* All keys are looked up here first, what is missing then in Redis; what
\* Redis has is kept here too.
Found(cache, k) == Contains(cache, k) \/ Alive(k)
Keeping(cache, k) == IF ~Contains(cache, k) /\ Alive(k) THEN L1Set(cache, k) ELSE cache
AfterLookup(cache, keys) ==
  LET read[n \in 0..Len(keys)] ==
        IF n = 0 THEN cache ELSE L1Get(read[n - 1], keys[n])
      kept[n \in 0..Len(keys)] ==
        IF n = 0 THEN read[Len(keys)] ELSE Keeping(kept[n - 1], keys[n])
  IN kept[Len(keys)]
-----------------------------------------------------------------------------
(* Requests.                                                               *)
Over == {"done", "lost"}
InFlight(w, op) == {r \in DOMAIN req : req[r].worker = w /\ req[r].op = op /\ req[r].pc \notin Over}

\* The client of Redis is synchronous: nothing else runs on the loop.
LoopFree(w) == \A r \in DOMAIN req : ~(req[r].worker = w /\ req[r].pc = "forget")
Missing(answers) == {p \in DOMAIN answers : answers[p] = NoAnswer}
FirstOf(S) == CHOOSE p \in S : \A q \in S : p <= q

\* Mutant: only a request that is answered gives its permit back.
Release_IfAnswered(r, status) ==
  permits' = IF status = 200 THEN [permits EXCEPT ![req[r].worker][req[r].op] = @ + 1] ELSE permits

\* The finally of both endpoints.
Release(r, status) == permits' = [permits EXCEPT ![req[r].worker][req[r].op] = @ + 1]

\* _check_deadline.
Expired(r) == now >= req[r].deadline

(* Go on at pc with the first argument without an answer: the deadline is  *)
(* looked at before each of them.                                          *)
Proceeds(r, answers, fetched, pc) ==
  LET rest   == Missing(answers)
      status == CASE rest = {} -> 200 [] rest /= {} /\ Expired(r) -> 504 [] OTHER -> 0
  IN /\ req' = [req EXCEPT ![r].answers = answers, ![r].fetched = fetched, ![r].attempt = 0,
                           ![r].status = status, ![r].pc = IF status = 0 THEN pc ELSE "done",
                           ![r].i  = IF rest = {} THEN @ ELSE FirstOf(rest)]
     /\ IF status = 0 THEN UNCHANGED permits ELSE Release(r, status)

(* search_endpoint, visit_endpoint: 429 when no permit is left.            *)
Receive(w, call) ==
  /\ w \in up /\ Len(req) < MaxRequests /\ LoopFree(w)
  /\ LET admitted == permits[w][call.op] > 0
     IN /\ req' = Append(req,
             [op |-> call.op, args |-> call.args, worker |-> w, deadline |-> now + Deadline,
              pc |-> IF admitted THEN "lookup" ELSE "done", i |-> 1, attempt |-> 0,
              fetched |-> {}, answers |-> [p \in DOMAIN call.args |-> NoAnswer],
              status |-> IF admitted THEN 0 ELSE 429])
        /\ permits' = IF admitted THEN [permits EXCEPT ![w][call.op] = @ - 1] ELSE permits
  /\ UNCHANGED <<now, l1Size, l1, redis, failedAt, dumpVars, procVars>>

(* search, search_batch: all the lookups.                                  *)
SearchLooksUp(r) ==
  /\ req[r].op = "search" /\ req[r].pc = "lookup"
  /\ LET cache == l1[req[r].worker]
         keys  == [p \in DOMAIN req[r].args |-> Key("search", req[r].args[p])]
     IN /\ l1' = [l1 EXCEPT ![req[r].worker] = AfterLookup(cache, keys)]
        /\ Proceeds(r, [p \in DOMAIN keys |-> IF Found(cache, keys[p]) THEN From(keys[p]) ELSE NoAnswer],
                    {}, "post")
  /\ UNCHANGED <<now, l1Size, redis, failedAt, dumpVars, procVars>>

Page(r)  == req[r].args[req[r].i]
Raw(r)   == Key("visit_raw", Page(r))
Fails(r) == Key("visit_fail", Page(r))

(* visit_url: a failure that is cached answers before any cached page does.*)
VisitFailsFast(r) ==
  /\ req[r].op = "visit" /\ req[r].pc = "lookup" /\ Alive(Fails(r))
  /\ Proceeds(r, [req[r].answers EXCEPT ![req[r].i] =
                    [key |-> Fails(r), age |-> now - failedAt[Page(r)], loaded |-> redis[Fails(r)].loaded]],
              {}, "lookup")
  /\ UNCHANGED <<now, l1Size, l1, redis, failedAt, dumpVars, procVars>>

(* visit_url: the cached page, or the deadline and the HTTP request.       *)
VisitLooksUp(r) ==
  /\ req[r].op = "visit" /\ req[r].pc = "lookup" /\ ~Alive(Fails(r))
  /\ LET cache == l1[req[r].worker]
     IN /\ l1' = [l1 EXCEPT ![req[r].worker] = AfterLookup(cache, <<Raw(r)>>)]
        /\ IF Found(cache, Raw(r))
             THEN Proceeds(r, [req[r].answers EXCEPT ![req[r].i] = From(Raw(r))], {}, "lookup")
             ELSE Proceeds(r, req[r].answers, {}, "post")
  /\ UNCHANGED <<now, l1Size, redis, failedAt, dumpVars, procVars>>

LastAttempt(r) ==
  req[r].attempt + 1 = IF req[r].op = "search" THEN SearchAttempts ELSE VisitAttempts

\* Mutant: the attempts are not counted.
Attempts_NotCounted(r) == req[r].attempt

Attempts(r) == req[r].attempt + 1

(* An HTTP request fails and is not the last: a 504 when the deadline      *)
(* leaves no time to sleep, and one more request after the sleep.          *)
AttemptFails(r) ==
  /\ req[r].pc = "post" /\ ~LastAttempt(r)
  /\ req' = [req EXCEPT ![r].pc = IF Expired(r) THEN "done" ELSE "sleep",
                        ![r].status = IF Expired(r) THEN 504 ELSE 0]
  /\ IF Expired(r) THEN Release(r, 504) ELSE UNCHANGED permits
  /\ UNCHANGED <<now, l1Size, l1, redis, failedAt, dumpVars, procVars>>

TriesAgain(r) ==
  /\ req[r].pc = "sleep"
  /\ req' = [req EXCEPT ![r].pc = IF Expired(r) THEN "done" ELSE "post", ![r].attempt = Attempts(r),
                        ![r].status = IF Expired(r) THEN 504 ELSE 0]
  /\ IF Expired(r) THEN Release(r, 504) ELSE UNCHANGED permits
  /\ UNCHANGED <<now, l1Size, l1, redis, failedAt, dumpVars, procVars>>

\* Mutant: a result goes to the next place after the answers there are.
Filled_ByTurn(r, k) ==
  [req[r].answers EXCEPT ![Len(req[r].answers) - Cardinality(Missing(req[r].answers)) + 1] = From(k)]

Filled(r, k) == [req[r].answers EXCEPT ![req[r].i] = From(k)]

(* A search is answered, or has failed for the last time: the text of the  *)
(* failure is a result like any other.  A batch stores what it has fetched *)
(* when it has all its answers, and in Redis only.                         *)
SearchEnds(r) ==
  /\ req[r].op = "search" /\ req[r].pc = "post"
  /\ LET k == Key("search", Page(r))
         answers == Filled(r, k)
         fetched == req[r].fetched \union {k}
     IN /\ Proceeds(r, answers, fetched, "post")
        /\ IF Len(req[r].args) = 1
             THEN /\ l1' = [l1 EXCEPT ![req[r].worker] = L1Set(@, k)]
                  /\ redis' = Stored(redis, k, SearchTTL)
             ELSE /\ UNCHANGED l1
                  /\ redis' = IF Missing(answers) = {}
                                THEN [x \in Keys |-> IF x \in fetched THEN Stored(redis, x, SearchTTL)[x]
                                                                      ELSE redis[x]]
                                ELSE redis
  /\ UNCHANGED <<now, l1Size, failedAt, dumpVars, procVars>>

(* The page is read and cached.                                            *)
PageRead(r) ==
  /\ req[r].op = "visit" /\ req[r].pc = "post"
  /\ l1' = [l1 EXCEPT ![req[r].worker] = L1Set(@, Raw(r))]
  /\ redis' = Stored(redis, Raw(r), VisitTTL)
  /\ req' = [req EXCEPT ![r].pc = "forget"]
  /\ UNCHANGED <<now, l1Size, permits, failedAt, dumpVars, procVars>>

\* Mutant: the failure of an earlier read stays behind a page that was read.
WithoutFailure_Kept(r) == redis

WithoutFailure(r) == IF redisUp THEN [redis EXCEPT ![Fails(r)] = Gone] ELSE redis

(* The failure of an earlier read is deleted, by a command of its own: when*)
(* the process or Redis has stopped in between it stays with the page.     *)
FailureForgotten(r) ==
  /\ req[r].op = "visit" /\ req[r].pc = "forget"
  /\ redis' = WithoutFailure(r)
  /\ failedAt' = IF redisUp THEN [failedAt EXCEPT ![Page(r)] = -FailTTL] ELSE failedAt
  /\ Proceeds(r, Filled(r, Raw(r)), {}, "lookup")
  /\ UNCHANGED <<now, l1Size, l1, dumpVars, procVars>>

(* The page is not read for the last time.                                 *)
PageUnreadable(r) ==
  /\ req[r].op = "visit" /\ req[r].pc = "post" /\ LastAttempt(r)
  /\ redis' = Stored(redis, Fails(r), FailTTL)
  /\ failedAt' = IF redisUp THEN [failedAt EXCEPT ![Page(r)] = now] ELSE failedAt
  /\ Proceeds(r, Filled(r, Raw(r)), {}, "lookup")
  /\ UNCHANGED <<now, l1Size, l1, dumpVars, procVars>>
-----------------------------------------------------------------------------
(* The dump of Redis and the warm start.                                   *)
\* Mutant: the lock of the dump is not respected.
DumpFree_Always == TRUE

DumpFree == syncLock = "free"

(* sync_to_json; POST /sync_cache at a worker that is not the leader is    *)
(* answered 503, one that finds the lock taken does nothing.               *)
SyncStarts(t) ==
  /\ leader \in up /\ sync[t] = "idle" /\ DumpFree
  /\ syncLock' = t /\ sync' = [sync EXCEPT ![t] = "reading"]
  /\ temp' = NoFile
  /\ UNCHANGED <<now, l1Size, serveVars, file, warmFile, procVars>>

\* scan_iter and mget of one batch; an exception of Redis ends the dump.
SyncReads(t) ==
  /\ sync[t] = "reading"
  /\ IF redisUp
       THEN /\ temp' = [whole |-> TRUE, data |-> {k \in Keys : Alive(k)}]
            /\ sync' = [sync EXCEPT ![t] = "writing"]
            /\ UNCHANGED syncLock
       ELSE /\ sync' = [sync EXCEPT ![t] = "idle"] /\ syncLock' = "free"
            /\ UNCHANGED temp
  /\ UNCHANGED <<now, l1Size, serveVars, file, warmFile, procVars>>

SyncReplaces(t) ==
  /\ sync[t] = "writing"
  /\ file' = temp /\ temp' = NoFile
  /\ sync' = [sync EXCEPT ![t] = "idle"] /\ syncLock' = "free"
  /\ UNCHANGED <<now, l1Size, serveVars, warmFile, procVars>>

(* merge_deepresearch_caches over the dump and the warm file there is, run *)
(* by the operator before a leader is started again.                       *)
MergeDumps ==
  /\ leader = NoOne /\ file.whole /\ ~(file.data \subseteq warmFile)
  /\ warmFile' = file.data \union warmFile
  /\ UNCHANGED <<now, l1Size, serveVars, syncLock, sync, temp, file, procVars>>

(* load_from_json: one lifetime for every key.                             *)
Load ==
  /\ warming /\ warming' = FALSE
  /\ redis' = [k \in Keys |-> IF redisUp /\ k \in warmFile THEN Entry(now + Max({SearchTTL, VisitTTL}), TRUE)
                                                           ELSE redis[k]]
  /\ UNCHANGED <<now, l1Size, l1, permits, req, failedAt, dumpVars, up, leader, redisUp, faults>>
-----------------------------------------------------------------------------
(* The environment.  Redis drops what has reached the end of its life.     *)
Tick ==
  /\ now < MaxTime /\ now' = now + 1
  /\ redis' = [k \in Keys |-> IF redis[k].till > now' THEN redis[k] ELSE Gone]
  /\ UNCHANGED <<l1Size, l1, permits, req, failedAt, dumpVars, procVars>>

(* A worker dies with its cache, its requests and its semaphores, and the  *)
(* system frees the locks it held; a dump it was writing stays in the      *)
(* temporary file.                                                         *)
Crash(w) ==
  /\ w \in up /\ faults < MaxFaults
  /\ up' = up \ {w} /\ faults' = faults + 1
  /\ l1' = [l1 EXCEPT ![w] = <<>>]
  /\ permits' = [permits EXCEPT ![w] = [search |-> SearchPermits, visit |-> VisitPermits]]
  /\ req' = [r \in DOMAIN req |-> IF req[r].worker = w /\ req[r].pc \notin Over
                                     THEN [req[r] EXCEPT !.pc = "lost"] ELSE req[r]]
  /\ IF w = leader
       THEN /\ leader' = NoOne /\ warming' = FALSE
            /\ sync' = [t \in Syncs |-> "idle"] /\ syncLock' = "free"
       ELSE UNCHANGED <<leader, warming, sync, syncLock>>
  /\ UNCHANGED <<now, l1Size, redis, failedAt, temp, file, warmFile, redisUp>>

(* on_startup: the lock of the leader is tried once.                       *)
Restart(w) ==
  /\ w \in Workers \ up /\ up' = up \union {w}
  /\ IF leader = NoOne THEN leader' = w /\ warming' = TRUE
                       ELSE UNCHANGED <<leader, warming>>
  /\ UNCHANGED <<now, l1Size, serveVars, dumpVars, redisUp, faults>>

RedisStops ==
  /\ redisUp /\ faults < MaxFaults /\ redisUp' = FALSE /\ faults' = faults + 1
  /\ UNCHANGED <<now, l1Size, serveVars, dumpVars, up, leader, warming>>
RedisReturns ==
  /\ ~redisUp /\ redisUp' = TRUE
  /\ UNCHANGED <<now, l1Size, serveVars, dumpVars, up, leader, warming, faults>>
-----------------------------------------------------------------------------
Serve(r) ==
  \/ /\ LoopFree(req[r].worker)
     /\ \/ SearchLooksUp(r) \/ VisitFailsFast(r) \/ VisitLooksUp(r)
        \/ AttemptFails(r) \/ TriesAgain(r)
        \/ SearchEnds(r) \/ PageRead(r) \/ PageUnreadable(r)
  \/ FailureForgotten(r)

Next ==
  \/ \E w \in Workers, call \in Calls : Receive(w, call)
  \/ \E r \in DOMAIN req : Serve(r)
  \/ \E t \in Syncs : SyncStarts(t) \/ SyncReads(t) \/ SyncReplaces(t)
  \/ MergeDumps \/ Load \/ Tick
  \/ \E w \in Workers : Crash(w) \/ Restart(w)
  \/ RedisStops \/ RedisReturns

\* Every HTTP request has a timeout and the event loops run: some request goes
\* on while one can.
Spec == Init /\ [][Next]_vars /\ WF_vars(\E r \in DOMAIN req : Serve(r))
-----------------------------------------------------------------------------
Answers == [key : {<<>>} \union Keys, age : 0..(MaxTime + FailTTL), loaded : BOOLEAN]

(* The type of the state.                                                  *)
TypeOK ==
  /\ now \in 0..MaxTime /\ l1Size \in L1Sizes
  /\ \A w \in Workers : Len(l1[w]) <= l1Size /\ \A i \in DOMAIN l1[w] : l1[w][i] \in Keys
  /\ redis \in [Keys -> [till : 0..(MaxTime + Max({SearchTTL, VisitTTL, FailTTL})), loaded : BOOLEAN]]
  /\ \A r \in DOMAIN req :
       /\ req[r].pc \in {"lookup", "post", "forget", "sleep"} \union Over
       /\ req[r].status \in {0, 200, 429, 504} /\ (req[r].pc = "done" <=> req[r].status /= 0)
       /\ \A p \in DOMAIN req[r].args : req[r].answers[p] \in Answers
  /\ leader \in up \union {NoOne}
  /\ failedAt \in [Urls -> {-FailTTL} \union 0..MaxTime]

(* The permits of a process are all accounted for: what the semaphores have*)
(* left and the requests that are being served make up the limit, however a*)
(* request ends - answered, failed, out of time or with its process.       *)
PermitsKept ==
  \A w \in Workers : /\ permits[w].search + Cardinality(InFlight(w, "search")) = SearchPermits
                      /\ permits[w].visit + Cardinality(InFlight(w, "visit")) = VisitPermits

(* The state has its type - no cache of a process is larger than its limit *)
(* - and the permits are accounted for.                                    *)
Consistent == TypeOK /\ PermitsKept

(* Every part of an answer is about the query or the page at its place in  *)
(* the request, whatever mix of caches and HTTP requests the parts are from*)
(* and whatever other requests ran in between; a 200 has all its parts.    *)
AnswersOwn ==
  \A r \in DOMAIN req : \A p \in DOMAIN req[r].args :
    LET a == req[r].answers[p] IN
    /\ a /= NoAnswer => /\ a.key[2] = req[r].args[p]
                        /\ (a.key[1] = "search") <=> (req[r].op = "search")
    /\ req[r].status = 200 => a /= NoAnswer

(* A page that is answered as unreadable from the cache of failures did    *)
(* fail within the lifetime of a failure, and no read of it has reached the*)
(* deletion of the failure since with Redis to hear it - unless the failure*)
(* came back from a file.  (A read that was cut short after the page was   *)
(* stored does leave the failure before it, for the rest of its life.)     *)
NegativeRecent ==
  \A r \in DOMAIN req : \A p \in DOMAIN req[r].args :
    LET a == req[r].answers[p] IN
    a /= NoAnswer /\ a.key[1] = "visit_fail" /\ ~a.loaded => a.age < FailTTL

(* The file is a whole dump at all times: the threads that dump do not     *)
(* write into each other's temporary file, and a dump that an exception or *)
(* a crash cuts short does not reach the file.                             *)
FileWhole == file.whole

(* A request that is accepted is answered, unless its process dies.  (As   *)
(* MaxRequests are all that come, this is that none is left open for ever.)*)
Answered == <>[](\A r \in DOMAIN req : req[r].pc \in Over)
=============================================================================
