------------------------------ MODULE Toggles -------------------------------
(***************************************************************************)
(* A feature toggle on its way to the routes it gates: the toggle-service's*)
(* table and Redis cache (toggle-service handlers), the client's cache     *)
(* (toggle-client) and the gate middleware of the APIs.  Time passes in    *)
(* ticks; a fetch ends within InFlight of them, the client's timeout, and  *)
(* a PUT within PutTime, the timeout of the toggle-service's middleware.   *)
(***************************************************************************)
EXTENDS Integers, FiniteSets, FiniteSetsExt

CONSTANTS
  Callers,     \* concurrent requests of an API process, which share its client
  Consoles,    \* concurrent PUT requests of administrators
  RedisTTL,    \* cacheTTL of the toggle-service
  ClientTTL,   \* DefaultTTL of the toggle client
  InFlight,    \* timeout of a fetch
  PutTime,     \* timeout of a PUT
  MaxPuts,     \* bound on the PUT requests
  NoEntry, NoTask

ASSUME TogglesAssumption ==
  /\ RedisTTL \in Nat \ {0} /\ ClientTTL \in Nat \ {0} /\ InFlight \in Nat /\ PutTime \in Nat
  /\ MaxPuts \in Nat

VARIABLES
  toggle,     \* feature_toggles.enabled
  since,      \* ticks since it last became FALSE, up to the bound
  redis,      \* toggles:<module>, with the ticks it still lives
  cache,      \* the client's entry, with the ticks it stays fresh
  fetch,      \* the fetch every caller has under way
  put,        \* the PUT every console has under way
  puts

toggleVars == <<toggle, since, redis, cache, fetch, put, puts>>

(* the longest a disabled module may stay served *)
Lag == Max({InFlight, PutTime}) + RedisTTL + InFlight + ClientTTL

TogglesInit ==
  /\ toggle = TRUE
  /\ since = 0
  /\ redis = NoEntry
  /\ cache = NoEntry
  /\ fetch = [g \in Callers |-> NoTask]
  /\ put = [c \in Consoles |-> NoTask]
  /\ puts = 0

Entry(enabled, ttl) == [enabled |-> enabled, left |-> ttl]
Task(pc, enabled) == [pc |-> pc, enabled |-> enabled, age |-> 0]
Fetching(g, pc) == fetch[g] # NoTask /\ fetch[g].pc = pc
Fetches(g, task) == fetch' = [fetch EXCEPT ![g] = task]
-----------------------------------------------------------------------------
(* gate.Module and IsEnabled: a fresh entry answers, else a fetch begins, with
   the client's mutex released. *)
Fresh == cache # NoEntry

IsEnabled(g) ==
  /\ fetch[g] = NoTask
  /\ ~Fresh
  /\ Fetches(g, Task("redis", FALSE))
  /\ UNCHANGED <<toggle, since, redis, cache, put, puts>>

(* Get: Redis, then the table, then Redis again with what the table said.  An
   error of Redis is a miss, or a Set that does not happen. *)
GetFromRedis(g, up) ==
  /\ Fetching(g, "redis")
  /\ Fetches(g, [fetch[g] EXCEPT
       !.pc = IF up /\ redis # NoEntry THEN "reply" ELSE "table",
       !.enabled = up /\ redis # NoEntry /\ redis.enabled])
  /\ UNCHANGED <<toggle, since, redis, cache, put, puts>>

GetFromTable(g) ==
  /\ Fetching(g, "table")
  /\ Fetches(g, [fetch[g] EXCEPT !.pc = "fill", !.enabled = toggle])
  /\ UNCHANGED <<toggle, since, redis, cache, put, puts>>

FillRedis(g, up) ==
  /\ Fetching(g, "fill")
  /\ redis' = IF up THEN Entry(fetch[g].enabled, RedisTTL) ELSE redis
  /\ Fetches(g, [fetch[g] EXCEPT !.pc = "reply"])
  /\ UNCHANGED <<toggle, since, cache, put, puts>>

(* The answer, or an error or a timeout, which counts as disabled, is cached
   for ClientTTL from now. *)
StoreAnswer(g, ok) ==
  /\ fetch[g] # NoTask
  /\ ok => Fetching(g, "reply")
  /\ cache' = Entry(ok /\ fetch[g].enabled, ClientTTL)
  /\ Fetches(g, NoTask)
  /\ UNCHANGED <<toggle, since, redis, put, puts>>

(* Put: the table, then Redis, then toggle.changed, to which nothing in the
   APIs listens. *)
PutTable(c, enabled) ==
  /\ put[c] = NoTask
  /\ puts < MaxPuts
  /\ puts' = puts + 1
  /\ toggle' = enabled
  /\ since' = IF enabled \/ toggle THEN 0 ELSE since
  /\ put' = [put EXCEPT ![c] = Task("refresh", enabled)]
  /\ UNCHANGED <<redis, cache, fetch>>

PutRedis(c, up) ==
  /\ put[c] # NoTask
  /\ redis' = IF up THEN Entry(put[c].enabled, RedisTTL) ELSE redis
  /\ put' = [put EXCEPT ![c] = NoTask]
  /\ UNCHANGED <<toggle, since, cache, fetch, puts>>

(* One tick: requests age, and entries run out. *)
Lives(entry) == IF entry.left = 1 THEN NoEntry ELSE [entry EXCEPT !.left = @ - 1]
Ages(tasks) == [x \in DOMAIN tasks |-> IF tasks[x] = NoTask THEN NoTask ELSE [tasks[x] EXCEPT !.age = @ + 1]]
InTime(tasks, limit) == \A x \in DOMAIN tasks : tasks[x] # NoTask => tasks[x].age < limit

Tick ==
  /\ InTime(fetch, InFlight) /\ InTime(put, PutTime)
  /\ since' = IF toggle \/ since > Lag THEN since ELSE since + 1
  /\ redis' = IF redis = NoEntry THEN NoEntry ELSE Lives(redis)
  /\ cache' = IF cache = NoEntry THEN NoEntry ELSE Lives(cache)
  /\ fetch' = Ages(fetch)
  /\ put' = Ages(put)
  /\ UNCHANGED <<toggle, puts>>

TogglesNext ==
  \/ \E g \in Callers :
       \/ IsEnabled(g)
       \/ GetFromTable(g)
       \/ \E up \in BOOLEAN : GetFromRedis(g, up) \/ FillRedis(g, up)
       \/ \E ok \in BOOLEAN : StoreAnswer(g, ok)
  \/ \E c \in Consoles :
       \/ \E enabled \in BOOLEAN : PutTable(c, enabled)
       \/ \E up \in BOOLEAN : PutRedis(c, up)
  \/ Tick
-----------------------------------------------------------------------------
(* Once a module has been disabled for Lag, the gate lets no request through,
   also when a late Get or an overtaken PUT put the old value back into Redis,
   or a slower fetch overwrote a newer answer (Get, Put, IsEnabled). *)
DisabledModuleLapses ==
  ~toggle /\ since > Lag =>
    /\ Fresh => ~cache.enabled
    /\ \A g \in Callers : Fetching(g, "reply") => ~fetch[g].enabled
=============================================================================
