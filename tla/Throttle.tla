------------------------------ MODULE Throttle ------------------------------
(***************************************************************************)
(* The two throttles with a sliding window, for one key: isLimited of       *)
(* RateLimiterService (common/services/rate-limiter.service.ts), which      *)
(* counts in Redis and, without it, in the process; and the lookups of an   *)
(* intake link in SchoolsService (modules/schools/schools.service.ts),      *)
(* which count a miss only when the query has come back.                   *)
(*                                                                         *)
(* A count holds the hits of each tick.  One address looks for one token;   *)
(* the count for an address alone, which refuses some more, is left out.    *)
(***************************************************************************)
EXTENDS Naturals, FiniteSets

CONSTANTS
  Slot,
  Window,      \* windowMs, PUBLIC_LINK_LOOKUP_WINDOW_MS
  Limit,       \* the hits isLimited lets through in a window
  LookupLimit, \* PUBLIC_LINK_LOOKUP_LIMIT
  MissLimit,   \* PUBLIC_LINK_MISS_LIMIT
  LastTick,    \* bound on the time
  MaxHits,     \* bound on the hits in a tick
  MaxLoad,     \* how many requests are in flight at most
  MaxRestarts  \* bound on the restarts of the process

VARIABLES
  load,       \* how many requests overlap at most
  now,
  redisReady,
  count,      \* the hits recorded: in Redis, in the process ("local") and, in
              \* publicLookupMap, "lookups" and "misses"
  passed,     \* the hits let through, by store, and the lookups
              \* that missed (history)
  found,      \* the link exists
  lookReq,    \* the lookup in flight in each slot
  restarts    \* how often the process was restarted

vars == <<load, now, redisReady, count, passed, found, lookReq, restarts>>

----------------------------------------------------------------------------
Tick == 1..LastTick
None == [t \in Tick |-> 0]
Idle == [op |-> "idle"]
Busy == {sl \in Slot : lookReq[sl] # Idle}
Pass(what) == passed' = [passed EXCEPT ![what][now] = @ + 1]
Count(stores) ==
  /\ \A s \in stores : count[s][now] < MaxHits
  /\ count' = [s \in DOMAIN count |->
       IF s \in stores THEN [count[s] EXCEPT ![now] = @ + 1] ELSE count[s]]

(* The hits of some ticks: the i-th of tick t is <<t, i>>.                 *)
HitsIn(hits, ticks) == UNION {{t} \X (1..hits[t]) : t \in ticks}

(* fault: the entry at the edge of the window is dropped too early *)
RecentFaultEdge(hits) == Cardinality(HitsIn(hits, {t \in Tick : t <= now /\ t + Window > now + 1}))

Recent(hits) == Cardinality(HitsIn(hits, {t \in Tick : t <= now /\ t + Window > now}))

----------------------------------------------------------------------------
(* isLimitedRedis: the transaction records the hit and counts.             *)
(* isLimitedLocal, without Redis or after an error of it, which may have    *)
(* recorded the hit all the same                                           *)
HitRedis ==
  /\ redisReady
  /\ Count({"redis"})
  /\ IF Recent(count'["redis"]) > Limit THEN passed' = passed ELSE Pass("redis")
  /\ UNCHANGED <<load, now, redisReady, found, lookReq, restarts>>

HitLocal ==
  /\ Count({"local"}) \/ (redisReady /\ Count({"redis", "local"}))
  /\ IF Recent(count'["local"]) > Limit THEN passed' = passed ELSE Pass("local")
  /\ UNCHANGED <<load, now, redisReady, found, lookReq, restarts>>

RedisComesAndGoes ==
  /\ redisReady' = ~redisReady
  /\ UNCHANGED <<load, now, count, passed, found, lookReq, restarts>>

----------------------------------------------------------------------------
(* assertPublicLookupRateLimit: up to the query nothing is awaited          *)
BeginLookup(sl) ==
  /\ sl \notin Busy /\ Cardinality(Busy) < load
  /\ Count({"lookups"})
  /\ lookReq' =
       IF Recent(count'["lookups"]) > LookupLimit \/ Recent(count["misses"]) >= MissLimit
       THEN lookReq ELSE [lookReq EXCEPT ![sl] = [op |-> "find"]]
  /\ UNCHANGED <<load, now, redisReady, passed, found, restarts>>

(* recordPublicLookupMiss, recordPublicLookupSuccess                        *)
FindLink(sl) ==
  /\ lookReq[sl].op = "find"
  /\ \/ found /\ count' = [count EXCEPT !["misses"] = None] /\ passed' = passed
     \/ ~found /\ Count({"misses"}) /\ Pass("miss")
  /\ lookReq' = [lookReq EXCEPT ![sl] = Idle]
  /\ UNCHANGED <<load, now, redisReady, found, restarts>>

----------------------------------------------------------------------------
TimePasses ==
  /\ now < LastTick
  /\ now' = now + 1
  /\ UNCHANGED <<load, redisReady, count, passed, found, lookReq, restarts>>

LinkExpires ==
  /\ found
  /\ found' = FALSE
  /\ UNCHANGED <<load, now, redisReady, count, passed, lookReq, restarts>>

ProcessRestart ==
  /\ restarts < MaxRestarts
  /\ restarts' = restarts + 1
  /\ count' = [s \in DOMAIN count |-> IF s = "redis" THEN count[s] ELSE None]
  /\ lookReq' = [sl \in Slot |-> Idle]
  /\ UNCHANGED <<load, now, redisReady, passed, found>>

Init ==
  /\ load \in 1..MaxLoad
  /\ now = 1
  /\ redisReady \in BOOLEAN
  /\ count = [s \in {"redis", "local", "lookups", "misses"} |-> None]
  /\ passed = [what \in {"redis", "local", "miss"} |-> None]
  /\ found \in BOOLEAN
  /\ lookReq = [sl \in Slot |-> Idle]
  /\ restarts = 0

Next ==
  \/ HitRedis \/ HitLocal \/ RedisComesAndGoes
  \/ \E sl \in Slot : BeginLookup(sl) \/ FindLink(sl)
  \/ TimePasses \/ LinkExpires \/ ProcessRestart

Spec == Init /\ [][Next]_vars

----------------------------------------------------------------------------
(* Properties *)

Within(hits, t) == Cardinality(HitsIn(hits, {u \in Tick : t <= u /\ u < t + Window}))

(* In any window each store lets Limit hits through, the process's own once *)
(* more after each restart; and a token that leads nowhere is tried         *)
(* MissLimit times, once more for each further lookup that overlaps.        *)
WindowHolds ==
  \A t \in Tick :
    /\ Within(passed["redis"], t) <= Limit
    /\ Within(passed["local"], t) <= Limit * (1 + restarts)
    /\ Within(passed["miss"], t) <= (MissLimit + load - 1) * (1 + restarts)
=============================================================================
