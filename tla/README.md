# Krawl, specified and verified

Krawl is a web honeypot: it answers every request with bait, records what the
client did, classifies clients, and bans those that crawl too much. It runs as
one process over SQLite (*standalone*) or as several replicas ("pods") over one
PostgreSQL and one Redis (*scalable*). This directory holds TLA+ models of the
parts of it where several threads, pods or stores must agree, the TLC runs that
check them, and TLAPS proofs for every number of pods, clients and every setting.

Paths below are relative to `src/src/` unless they say otherwise.

## 1. Inventory

| component | state it keeps | operations | talks to |
|---|---|---|---|
| ban cache `ban_cache.py` | `_banned` (frozen set), `_ready`; per process | `add`, `refresh`, `is_ready`, `is_banned` | the database (`get_banned_ips`), the middleware, the scheduler |
| ban decision `middleware/ban_check.py`, `database/ip_stats.py`, `database/core.py` | ban columns of `ip_stats`; a cached answer per IP in Redis | `get_ban_info`, `_update_ip_stats`, `increment_page_visit`, overrides and exemption | ban cache, Redis (`dashboard_cache.py`), the routes |
| expired bans, row deletion `database/startup.py`, `tasks/purge.py`, `tasks/db_retention.py` | the same rows | `clear_expired_bans`, purges, retention | the database only: no cache is told |
| write buffer `database/core.py`, `tasks/flush_access_logs.py` | `_write_buffer`, `_buffer_bytes`, `_dropped_rows`; per process | append, pop a batch, bulk insert, requeue | request handlers, the scheduler, the panel |
| scheduler and leases `tasks_master.py`, `task_lock.py` | one scheduler per pod; lease, run lock and last-run keys in Redis | claim, skip, record, manual run (`routes/api.py`) | every task |
| metric counters `metrics_counters.py`, `tasks/metrics_flush.py` | Redis counters, seed marker, `metrics_summary`, deleted tallies | increment after commit, seed, reconcile, flush | ingestion, retention, Prometheus |
| payload hashing `tasks/hash_payloads.py`, `database/payloads.py` | watermark, digests, clusters | hash a chunk, assign a cluster, advance; the cluster of a captured file at recording time (`tracker.py`) | access logs, retention |
| retention `tasks/db_retention.py`, `tasks/pre_retention_cleanup.py` | access logs, captures, rows, tallies | batched deletes, reclassification | counters, hashing |
| analysis `tasks/analyze_ips.py`, `tasks/flag_stale_ips.py`, `database/ip_stats.py` | categories, their history, the need_reevaluation flag | queue, score, write the row, clear the flag; flag stale rows; set by hand | access logs |
| dashboard login `auth_store.py`, `routes/api.py` | attempts and sessions (Redis or memory) | login, lockout, logout | - |
| banlist sync (not modelled) `banlist_sync.py`, `tasks/refresh_banlist.py` | `_global_banlist` per process, a published copy in Redis | fetch, publish, adopt | leases, middleware |
| Cloudflare `webhooks.py`, `tasks/sync_cloudflare.py` | one configuration document, a remote list | save, sync | Cloudflare |
| trap requests `routes/honeypot.py`, `dependencies.py`, `middleware/`, `tracker.py` | what a request has already recorded; the canary counter | ban check, deception, tracking, trap page | buffer, rows, generated pages |
| generated pages `generative_ai.py`, `database/generated_pages.py` | pages, daily count | look up, generate, save, upload, delete, import | a language model |
| dashboard panels `routes/htmx.py`, `routes/api.py`, `dashboard_cache.py`, `tasks/dashboard_warmup.py` | five kinds of entries in Redis | look up, query, store, warm up, invalidate | database, writes of the operator and retention |
| the rest: bait text, configuration, geolocation, backups, exporters | none that several actors share | | |

**Interactions.** A request passes the ban middleware (set, then Redis, then row),
is served by a route, and is recorded: its access log goes to the buffer (or
straight to the table in standalone mode), its counters go to the row of its IP
in a transaction, which may ban the IP and then has to tell the caches. Tasks
run in threads of every pod beside the requests; some on every pod (flush, ban
cache), some on one pod per occurrence. The maintenance panel runs any task by
hand, beside its scheduled runs. The operator overrides bans from the dashboard.

**What is hard.** Three copies of a ban with three lifetimes; a cache filled from
a query that is old when it is stored; commits and cache deletions in either
order; read-modify-write transactions under READ COMMITTED; leases that have to
outlast a jitter and to end before a period; buffers that are full when work is
put back; pods that die anywhere; Redis that raises. PROJECT.json lists these
places one by one under `hazards`.

**What makes each component correct.**
- ban cache: a set that may answer "not banned" misses nothing older than the
  query it came from; a lasting ban reaches every pod.
- enforcement: the shortcut never contradicts the full lookup; no cached
  answer contradicts the row unless a change overtook it or was lost on it.
- write buffer: memory stays within its budget; what is lost is counted; nothing
  is inserted twice; everything leaves in the end.
- leases: every occurrence runs, and once; one manual run at a time, as long as none
  outlives its lock.
- counters: a reconcile makes them equal to rows plus tallies and they drift only
  in between.
- hashing: nothing but a late commit is skipped by the watermark; one run never
  splits a campaign; a campaign counts all its members. retention: what matches no
  rule is released; the campaign of a log on its way may go, and the log must get
  another.
- analysis: enough attack patterns decide; every request within reach is looked at; everybody's turn comes;
  a category set by hand is not asked for again by the clock.
- login: a lockout is served in full and doubles. Cloudflare: the remote list comes
  to hold the bans whatever the writers of the one document undo of each other.
- requests: recorded once, answered always. pages: the daily limit with its known
  overshoot; an operator's page stays.
- panels: a write shows after its invalidation; nothing shown is older than its keys.
- banlist (planned): pods converge on the published list.

## 2. Modules

| module | models | checked by | proofs |
|---|---|---|---|
| `BanCache` | the set of each pod over an arbitrary list of banned IPs | `ban_cache` | `BanCacheProofs` |
| `BanEnforcement` (+ `MCBanEnforcement`) | rows, Redis answers, requests, overrides, cleanups, retention, time; refines `BanCache` | `ban_enforcement` | `BanEnforcementProofs` |
| `BanAnswers` | `BanEnforcement` with a record of the answers in Redis that a change may have missed | `ban_enforcement` | `BanEnforcementProofs` |
| `WriteBuffer` | the buffer of one pod, its flushes and the table behind it | `write_buffer` | `RecordingProofs` |
| `TaskLease` | one `single_pod` cron task on all pods | `task_lease` | `TaskProofs` |
| `MetricsCounters` (+ `MCMetricsCounters`) | the shared counters, their rows and tallies, seeding, reconcile, flush | `metrics_retention`, `metrics_converge` | `RecordingProofs` |
| `PayloadHashing`, `Retention` (+ `MCRetention`) | ids, watermark, campaigns; extended by the cleanup and the deletion of old logs | `campaigns` | `RetentionProofs` |
| `Analysis` (+ `MCAnalysis`) | the queue, the score and the category of addresses | `analysis` | `TaskProofs` |
| `DashboardAuth` | attempts, lockouts and sessions of one address | `dashboard_auth` | `DashboardProofs` |
| `CloudflareConfig` | the document, the remote list, the ruleset | `cloudflare_config` | `CloudflareConfigProofs` |
| `TrapRequests` (+ `MCTrapRequests`) | a request from the ban check to its answer, and the generated pages | `trap_requests` | `TrapRequestsProofs` |
| `DashboardCache`, `DashboardPanels` | the cached panels: how they are looked up, stored, warmed and dropped; which panel uses what | `dashboard_cache` | `DashboardProofs` |

A proof module may extend two components that share nothing. The definitions of one
of the two then carry its name (`LeaseSpec`, `CacheSpec`, `CountersSpec`), the others
are the plain `Init`, `Next` and `Spec`.

### BanCache
`banned`, `ready` are the two module variables; `listed` is what `get_banned_ips`
would return now, and `DbChanges` changes it at will. `refresh()` is two steps,
`RefreshRead` (the query, outside the lock) and one of `RefreshSwap`,
`RefreshOverflow` (past the cap), `RefreshFail`. `unseen` and `since` are history:
the IPs listed since the query a set, or a refresh under way, comes from. The
module is both the model of the file and the abstract specification of what the
rest may do to the sets.

### BanEnforcement
- `row` keeps the ban columns; a ban is its age (`ban_timestamp` against now), the
  multiplier is the function `BanMultiplier` of the violations, as the code
  computes it whenever it writes one. Visits saturate at the limit, violations
  past the exponent, ages past the widest window: beyond, no line of the code
  tells values apart.
- `answer` is the Redis entry `ban:<ip>` with the time it has left; it only exists
  when `Scalable`. In standalone mode the calls are no-ops.
- `worker` is a request thread, cut where it talks to a store: `Begin` (the set),
  `LookupCached`, `LookupRow` then `FillAnswer` (get_ban_info), `ReadRow` ..
  `Commit` or `Rollback` with `Publish` before the commit for `record_access`
  and after it for `increment_page_visit`. `DeferRow` is the first-seen IPv6
  address that gets no row. `LookupFails` is the handler that reads any error as
  "not banned"; `RedisFails` is a call outside such a handler.
- `operator`: an override commits (`OperatorWrites`) and is published in a second
  step, which may raise (`OperatorFails`: the dashboard is told that the IP was not
  found).
- `cleanup`, `expired`: `clear_expired_bans`, at startup before the pod serves
  (`Restart`) and from the panel while it does (`Purge`), reads elapsed bans
  first and commits later (`ClearExpiredBans`).
- A commit writes the columns its transaction changed over whatever the row holds
  by then, which is what READ COMMITTED and an ORM update do.
- `Tick` ages bans and answers.

### BanAnswers
Two history variables beside `BanEnforcement`, which is left as it is: `overtaken`
are the lookups whose row changed after they read it, `doubtful` the IPs whose cached
answer came from such a lookup or stayed over a change that nobody publishes
(`Lost`: the answer was deleted before the commit, never is, or the one who would
delete it failed or was stopped). `Announced` is the time between a commit and its
publication. `AnswersFollow` says that these are all the ways in which an answer can
contradict the row.

### WriteBuffer
The deque, the byte count, the drop counter; `batch[f]` and `total[f]` are the
locals of a flush. `Buffer` is the whole append with both kinds of eviction.
`InsertFails` and `CommitUnacknowledged` put the batch back as the `except`
branch does, stripped of the fields the insert popped, on a deque whose maxlen
cuts the other end. `Crash` loses the memory. An entry is a number, a size and
whether it is still whole. `Held`, the sum of sizes, counts the units of the byte
budget that entries take (`Units`), which is what a proof can add up.

### TaskLease
An occurrence is a multiple of `Period`; a pod fires it up to `TaskJitter` late
(`at[p]`), and claims, skips, or misses it (Redis raised, or its previous run is
not over: max_instances = 1). Runs have any length. `RunNow`/`RunNowEnds` are a
manual run with its own lock, which expires while the run goes on and which the end
of a run deletes, whoever holds it; `lapsed` is history: a run has outlived its lock,
and some run has been under way ever since. `Network` makes Redis answer or not; `Crash` and
`Restart` are the pods. The jitter is taken as `tasks_master.py` requests it from
the scheduler library, which is outside this repository; APScheduler 3 is known to
drop the argument when it is handed a ready-made trigger, and then pods differ
by clock skew only: every guarantee below needs an upper bound on the lateness,
and keeps it. Interval tasks and tasks that also run when loaded are outside the
module: their occurrences count from the start of each pod.

### MetricsCounters
- In Redis: `counter`, the estimator `seen` (a HyperLogLog, taken as exact), the
  seed marker `seeded` and the reconcile `lease`. In the database: `requests`
  (total_requests of each row, 0 without a row), `tally` (the `_deleted` rows of
  metrics_summary, absent while zero) and `summary` (its snapshot).
  total_accesses and unique_ips stand for the tallied counters, unique_paths for
  the estimated one. `Counted` is the set of requests that rows count, so that a sum
  over rows (`Amount`) is its cardinality.
- A request (`ReadRow`, `CommitRow` or `DeferRow` or `Rollback`, `Count`) counts
  after its commit. Its log goes through the write buffer, so what access_logs
  holds of the `visited` paths is any subset, and a suspicious log is stored
  (`Preserve`) while the update of its row may still wait for a lock.
- A retention run deletes and locks the rows that are `stale` and not `preserved`,
  reads the tallies, and commits both; `Unlocked` is the row lock that updates,
  other runs and purges wait for. `Purge` deletes without a tally.
- The recompute of `reconcile` and of a first start is cut at each query; the
  seeding of a pod at the marker, the estimator and the counters. Setting the
  six counters, and reading them in a flush, are one step each.
- `CountFails`, `RetentionFails`, `TalliesUnread` (a failed query reads as "no
  tallies"), `RecountFails`, `FlushFails`, `SnapshotUnread`, `SeedFails`, `PodCrash` and
  `Wipe` are the faults.

### PayloadHashing and Retention
- A log is a number, its id; `row` says how far its insert is, so an id can be
  taken (`Insert`, in order) and committed (`Commit`, in any order). A body hashes
  to a number, or is `blank`; campaigns are near when numbers are.
- A hasher is cut at its transactions: `ReadWatermark`, `PendingLogIds` with the
  clusters it will know (`reps`), `ReadChunk`, one `Assign` per row (its own
  transaction, which raises the count), `Stamp` for the chunk, `AdvanceWatermark`,
  and then the files. Batches and chunks are sets of ids: `FirstOf` takes the lowest
  ones where the query orders and limits; the rows of a chunk come in any order, as
  its query asks for none. `StampRefused` is the foreign key; `Crash` is anywhere.
- `Capture` is `record_access` of a request with a file: it joins or starts a
  campaign before anything is stored; `InsertCaptured` needs it to be there still.
- `Retention` adds what is `old` and `suspicious`: `Unflag` is a batch of
  pre-retention-cleanup, `DeleteBatch` and `SweepClusters` are db-retention.
- `overtaken`, `unseen` and `blind` are history: the logs that committed late, and
  the clusters a hasher could not know of when it started one.

### Analysis
`order` is last_analysis as a queue, `aged` its stale part; `flag` and `manual`
are columns. A request sets the flag at once, and its log arrives later (`Store`).
An analyst takes a batch, the head of one of the `Queues` (the orders of the
addresses that need it in which the never analysed come first, then the oldest
analyses: `MayPrecede`), reads the rows of one address that `InReach` gives it (the
newest `MaxAccesses`, 10000 in the code, of thirty days: `later` is their order, and
`Outdate` the thirty days), scores them (`Analyse`, `MarkAnalysed`), loads the row and
commits what it changed. `Signals` compares with the thresholds of config.yaml, the
one of attack patterns included: it counts the patterns found in all requests, each
once. `Weights` are those wordlists.json ships; `CountsFor` and `Best` are the scores
of the code, ties included; `Raise` is the division by a zero mean, which ends the
run. Whether times between three or more requests vary is chosen, not computed.

### DashboardAuth
`record` is the entry of an address with the time it has left, `login` what each
pod handles: it compares the password with the record it read (`Compare`) and
writes that record, counted up (`WriteFailure`), or clears it. `lockout`,
`guesses`, `elapsed` are history; `crossed` marks histories in which a login wrote
over what another had written since it read.

### CloudflareConfig
`doc` is the file every writer reads and overwrites as a whole; `proc` is the
scheduler's thread and the event loop (handlers run one at a time) with the
copies they hold: a sync is `StartSync` .. `FinishSync`, a save `SaveSettings` ..
`StoreRule`. `remote` and `rules` are Cloudflare, modelled from the calls made to it.
The zone is taken as configured. `Crash` may leave a file cut short, which is read
as the defaults.

### TrapRequests
A request goes through `BanCheck`, `Deceive`, `Track`, `TrapPage`, a random error,
`ShouldUseAi`, `Lookup`, `Limit`, the model, `SavePage`, or ends in
`GeneratePage`. What a pattern matches is a field of its shape. A row of
generated_pages is who wrote it and whether today; `Upload`, `Delete`, `Import`
with `SaveImport`, and `Midnight` happen beside requests.

### DashboardCache and DashboardPanels
`DashboardPanels` is the table of the 17 cached panels, one definition per
endpoint: which tiers it looks into, which of them the warm-up stores *under the
same key*, and whether its total comes from the count entry. `DashboardCache` is
what any of them does: `Ask`, `LookWarm`, `LookTable`, the query (a counted one in three
steps), `Answer`; the warm-up, which stores lists and tables as it goes and blobs at
the end, but for those that aggregation cuts out of a list it has just stored (`early`:
the paths and the user agents), which follow in a step of their own; a write, whose invalidation drops the table keys (`scan`: those left) one after the
other. The task keeps in `todo` the panels it has still to query and in `kept` the
blobs it has still to store. The data of
an entry is the age of its rows and of its total, and whether a write came since.
The endpoint of the map's top addresses is left out: it reads a blob cut out of
another panel's list.

## 3. Runs

Passing runs:

| run | instance | shows |
|---|---|---|
| `ban_cache` | 1 pod, 2 IPs, 2 refreshers, cap 1 | `MissesOnlyTheWindow` with overlapping refreshes and both sides of the cap; `BansSpread` |
| `ban_enforcement` | 1 pod, 1 IP, 1 thread, limit 2, ban 1 tick doubling once, TTL 1, all overrides, purge, Redis faults | `FastPathSound`, `ImplementsBanCache`, `AnswersFollow` |
| `write_buffer` | 3 requests of size 1 or 3, 2 rows, 3 bytes, batches of 2, 2 flushers | budget, counts, no duplicate, drain |
| `task_lease` | 2 pods, period 6, jitter 2, slack 1, 2 occurrences and a bit, a run lock of 2, manual runs of up to 4 | once, none skipped, one manual run until one outlives its lock |
| `metrics_retention` | 2 retention runs, 2 IPs (one that may be deferred), 2 requests, 1 fault, no suspicious traffic | rows plus tallies keep the total |
| `metrics_converge` | 1 retention thread, 1 flush, 1 request of 1 suspicious or deferred IP, 3 faults | counters and snapshot converge to rows plus tallies |
| `campaigns` | 2 logs with near digests, the second with a file, chunks of 1, 2 hashers, 3 cluster ids, 1 crash, loss, manual start or bad digest | skipping, splitting, counting; every log gets a campaign or is deleted |
| `dashboard_auth` | 2 pods, 2 attempts, 3 lockouts of 1, 2 and 4 ticks, records that live 3 | lockouts are served and double, unless logins overlap |
| `cloudflare_config` | 2 accounts, 2 IPs (one timed out), the task and the web loop, 4 events | the list is reached; a deletion sticks; rules of others stay |
| `analysis` | 2 addresses, 3 requests (an attack on a trap path, a POST to it, another attack), threshold of 2 patterns, 2 requests read, batches of 1, 2 analysts, 1 event | verdicts, manual categories, no request and no address forgotten |
| `trap_requests` | 2 requests, one of every shape, 4 pages, limit 1, 1 failed count | recorded once, bounded generation, operator's pages, answers |
| `dashboard_cache` | 1 reader, the warm-up, 1 write, 2 panels (every tier with a total; hot only), lifetimes 1 and 2 | writes show, ages are bounded |

All runs pass. Where the code does something else than its comments or docs say,
the properties state what does hold, with the exception named in the formula
(`overtaken`, `doubtful`, `lapsed`, `crossed`, `blind`, `late`, `unread`, `miscounts`, `unseen`), and `findings` in PROJECT.json
describes the disagreement with both lines. The six found with the ban, buffer
and counter modules had counterexample runs of their own, which have given way
to the runs of the newer modules: a refresh that swaps out a ban added while
it queried; an answer cached again before the ban commits; a purge that clears
a new ban; a requeue that loses fields, and one that drops entries uncounted;
two retention runs that overwrite each other's tallies. The models still
contain these behaviours; the exceptions in the properties, or a fault-free
instance, keep the passing runs apart from them.

**Bounds and why they are enough.** *Ban cache*: pods do not interact but through
`listed`, which changes freely, so one pod stands for all; two IPs and a cap of
one give sets below, at and above the cap; two refreshers are all that can
overlap (scheduler, panel). *Ban enforcement*: IPs do not interact but in the set
(two in `ban_cache`); limit 2 gives a visit that bans and one that does not, two
durations make the backoff and its clamp differ; one thread beside the operator,
cleanup, retention and Redis already interleaves every pair of writers, and
the proofs remove all these bounds for
the safety properties. *Write buffer*: one entry more than rows, a size that
fills the budget alone and one that does not, batches smaller than a run's
maximum. *Leases*: two occurrences show a lease that reaches into the next one;
two pods are the pair every property speaks of; manual runs may take twice as long
as their lock, so that one overtakes the next; times are scaled down, and the
proofs hold for the true ones. *Counters*: two rows are needed for two retention
runs that delete different ones, two requests to make both, or one row and an
update of it; four to reach the lost tally, which needs an earlier tally. Two pods
differ from one only in the marker and the lease, which are in Redis; a pod that
crashes and starts again meets both. The run for convergence needs three faults for a
wipe, a crash and a seeding that fails. `metrics_retention` is about benign
traffic because the property is false beyond it (the finding at
`tasks/db_retention.py:244`).
Retention runs are interchangeable there, hence the symmetry; the run for liveness
uses none. *Campaigns*: two logs with near digests are what two hashers need to
split a campaign, one hasher to join its own, and the watermark to pass a late
commit; three cluster ids leave a fresh one beside two in use; one event is a crash
or a loss or a manual run, and the hashers already overlap with it. *Login*: three
lockouts show the doubling and its loss (a record that would die before its
lockout: 4 ticks against 3); logins of the same address overlap on two pods.
*Cloudflare*: two accounts are needed for a list id of the wrong one, four events
for a save, a ban, a deletion and a crash or failure. *Analysis*: batches of one
with two addresses make one wait; three requests give every pair of features that
thresholds tell apart, one pattern below the threshold of attacks and two that reach
it; two requests read leave one of three behind, and since timing needs three it never
varies in the run: `AttacksDecide` covers that. The second address sends one request
only, so that the run ends in time. *Requests*: two overlap at the limit, of one page each. *Panels*: the
panel `all_ips` is the only one with a total and, with a list, a table and the blob at
the end, has most tiers; the hot one is apart. That the warm-up stores a *table*, or a
blob *early*, is not in this instance: sets of more panels, tiers or readers take too
many states to be a run of their own. `Shown` and `NeverStaler` are for any of the
17 panels, with aggregation and without.

**Fairness.** The scheduled refresh and the scheduled flush are started
again for ever (WF on their start), a flush that has begun goes on, and the
database does not refuse for ever what is tried for ever (SF on the swap and on the
insert). Nothing started by hand is assumed to start. In `MetricsCounters` the
threads of retention, flush and seeding go on, the two tasks are scheduled for
ever, and the lease of the reconcile expires; requests and faults are bounded, so
"in the end" is after the last of them. `TaskLease` has no fairness:
its properties are safety properties, and so are those of `BanEnforcement`,
`DashboardAuth` and `DashboardCache`. In `Retention` inserts commit, the scheduled hasher runs every
minute and its chunk is not refused for ever (SF on `Stamp`: retention deletes a
campaign under it only so often), the clock goes on and the cleanup runs;
`DeleteBatch` and hashers started by hand need not. In `Analysis` the flush, the
clock, the stale sweep and the scheduled analyst go on, and bursts end. In
`CloudflareConfig` the task runs every minute and a handler that was started goes
on. In `TrapRequests` every step of the code happens; the model need not answer
(its timeout, `ModelFails`, is a step of the code). The fairness of the analyst
and of requests is written `[]<>~enabled \/ []<>step`: weak fairness of a
disjunction whose enabling condition is known, in a form TLC checks faster.

**Mutants.** Every property of a passing run is listed with a plausible bug (an operator
marked "A bug:" in the modules) under which TLC finds it violated.

## 4. Proofs

- `BanCacheProofs!FastPathSafe`: `MissesOnlyTheWindow` for any pods, refreshers,
  IPs and cap. It is not inductive: a swap takes its truth from the query some
  steps earlier. The invariant adds that each refresh under way misses only what
  was listed since its query (`RefreshesMissOnlyTheWindow`).
- `BanEnforcementProofs`: `IInv` is the type invariant with the soundness of
  requests (whose IP is one). From it
  every action is shown to be a step of `BanCache` or none (`Implements`): writers of
  rows are `DbChanges`, publications are `Add`, restarts are `Forget`. `FastPath`
  then needs only `BannedAreListed` (whoever `get_ban_info` calls banned satisfies
  the wide predicate), which is arithmetic on the backoff: 2^e is bounded by its
  mirror constant (`BanTimesAssumption`), so no ban outlives the widest window.
- `BanEnforcementProofs`, answers: `Follows` (`AnswersFollow`) is not inductive, for
  time ends bans and answers apart. The invariant adds that a lookup nothing overtook
  holds the verdict and the lifetime its row gives (`LookupsExact`), and that an answer
  nothing made doubtful does not outlive the ban it reports, unless that is forced
  (`AnswersAgree`). `Effects` lists what any step but the clock's may do to an answer,
  to its announcement, to an override and to a lookup under way; `AnswersAge` is the
  clock, which takes as much off the answer as off the ban (`BanRunsDown`).
- `TaskProofs`, leases: `Once` assumes that the lease outlasts the jitter,
  `EveryOccurrenceRuns` that lease plus jitter fit in the period; they rest on
  `Planned` (a pod fires an occurrence at most the jitter late), `StartsCovered` (the
  lease still covers every start) and `LeaseTaken`. `TwelveMinutesSuffice` puts the
  constants of the code in: with 240 seconds of jitter both assumptions hold from a
  period of 720 seconds. Between 246 and 720 seconds only `Once` is covered, below only
  tasks without jitter are. `OneManual` needs no assumption: while no run has
  outlived its lock, the lock there is that of the one run, for its end is later than
  the clock.
- `TaskProofs`, analysis: `AInv` is the type invariant with two facts that make a run
  go on: one under way has addresses left in its batch, and a verdict is what some
  timing makes of the requests that were read (`Scored`). `AttacksDecide`
  (`AttackDecides`) follows from it and from `ScoresBounded`: the score of a category
  is an explicit sum over the five features, every other sum stays below the weight
  of an attack, and `BestIsLargest` carries that through the ties. The number of
  patterns that count is any (`AttackUrlsThreshold`), and so are the other thresholds. `ManualStays`
  (`ManualSticks`) is an action property: an address is settled while its row is
  analysed, set by hand and unflagged and no run has it in its batch, and each step of
  a run (`AnalystSpares`) and of everybody else (`OthersSpare`) leaves it so, but for
  the operator, a deletion and a suspicious request. A batch never holds an address
  that does not need it (`SelectedNeed`), which is where the queue comes in.

- `DashboardProofs`, login: `Served` (`LockoutHolds`) needs that a record outlives its
  lockout (`Outlives`), that the history of lockouts never exceeds the stored one
  unless logins overlapped (`Imposed`), and that who has read a record read it
  unlocked (`ReadersServed`). `GuessesPaid` (`GuessesCostTime`) keeps books: a
  record, and each copy that was read of it, has paid for its rounds
  of attempts with the lockouts between them, but for what is left of the last one
  (`Paid`, `RecordPaid`, `ReadsPaid`), and a record that is gone leaves the bound
  behind (`GonePaid`). The powers of two are assumed to double
  (`PowersAssumption`): exponents are beyond the solver, and TLC evaluates it.
- `DashboardProofs`, panels: `DInv` says of every entry that its data is as young as the
  time it has lived (`EntriesOK`), of readers and the warm-up that what they hold is
  as young as the time they have been under way, a total from the table cache apart
  (`ReadersOK`, `WarmOK`), and that the scan of an invalidation has still to come to
  whatever misses the write and was there when it began (`ScanOK`). `Shown`
  (`WritesShow`) and `NeverStaler` (`NeverOlder`) follow, for any set of panels and any
  lifetimes, also with Aggregation either way.
- `CloudflareConfigProofs`: `Deletion` (`DeletionSticks`) from `NobodyHolds`: after a
  deletion nobody holds an older document, since every reader needs an account in
  it. `RulesKept` (`OthersRulesKept`) from `HoldsRules`: what is about to replace the
  rules holds those that are there, unless one was added since.
- `TrapRequestsProofs`: `Once` (`RecordedOnce`) from `Recorded`, what has been recorded
  of a request at each place. `OperatorsStay` (`OperatorsPageStays`) from
  `LateKnown`: who may still write a page over an operator's is marked. `Bounded`
  (`GenerationBounded`) counts the pages written and the requests already allowed
  to write one (`Granted`): a count below the limit admits at most everybody, a
  failed count one more, a save turns an allowance into a page.

- `RecordingProofs`, buffer: `BytesCover` and `Budget` rest on what sizes add up to
  (`HeldAdds`, `HeldSplits`): the count that a step assigns is compared with the
  split of the sequence it cuts, and `EvictedEnds` says that the eviction loop
  stops. The byte count keeps its type only because it covers what is held, and a
  run's counter because a run with a batch in hand has room for it (`MemoryInv`).
  `InsertedOnce` (`StoredOnce`) is not inductive: an insert is safe because every
  request is in memory once, in the buffer or in one batch, and is stored already
  only if it is marked doubtful (`OnceInv`). From the same invariant `LossesCounted`
  shows that the requests an append evicts are as many as it counts: each is a
  request of its own, nowhere else in memory and not stored.
- `RecordingProofs`, counters: `CountersTyped` needs that no row counts more requests
  than were made, and one less while a request that read it is under way
  (`CountersInv`). `DeletedIsTallied` (`RetentionKeepsTotals`) is for any number of runs:
  `OneRun` says that one run at a time has rows deleted, that those stay past the
  cutoff until it commits, and that the tallies are still what it read. It holds
  because a second run would have to wait for a row of the first, which is the premise
  `StillBenign` of the theorem: of the rows a run has deleted, a suspicious log has not
  taken them all out of the reach of the next one. Without it the theorem is false
  (the finding at `tasks/db_retention.py:244`). `AmountSplits` is the sum: deleting
  rows splits the set of counted requests in two.
- `RetentionProofs`: `NeverSplitsWhatItSaw` (`CampaignsApart`) needs that a campaign a
  hasher does not know started since it loaded them (`CampaignInv`): what it could not
  see, `unseen` keeps. `CountsCover` (`CountCoversMembers`) is false step by step,
  since a count grows before its row is stamped; `CountInv` adds the assignments on
  their way (`Pending`), and a stamp turns them into members without making more.
  `WatermarkSkipsOnlyOvertaken` (`SkipsOnlyOvertaken`) follows a run (`MarkInv`): it
  starts no further than the mark, holds only ids that were visible, has in hand every
  overlooked log up to the last id it read (`HoldsOverlooked`: its batch, or the part
  of its chunk not stamped yet), and what is left of its batch comes after its chunk.
  `Commit` is where the exception comes from: the log is past everybody's reach, or
  overtaken. `FirstOfIsPrefix` is the lemma about the ordered, limited query.

Each component also has its types proved (`TypeCorrect`, `LeaseTypeCorrect` which no run
lists, `CountersTyped`; the types of the panels are part of `DInv`), which the invariants rest
on.

Assumptions are `BanTimesAssumption`, `ActorsAssumption`, `SchedulerAssumption`,
`TaskTimesAssumption`, `AuthAssumption`, `PowersAssumption`, `CloudflareAssumption`,
`TrapAssumption`, `BufferAssumption`, `AnalysisAssumption` (finitely many addresses, which
are numbers, requests and patterns), `CacheAssumption` and `PanelsAssumption` (what is warmed is a tier of the panel),
`MetricsAssumption` (finitely many addresses and paths), `HashingAssumption` (finitely many
logs and hashers: their numbers are otherwise free), `RetentionAssumption`; TLC evaluates
all of them in the runs.

**Model-checked only**: the liveness properties (`BansSpread`,
`BufferDrains`, `CountersConverge`, `GetsACampaign`, `ReleasedIfRoom`, `SyncReaches`,
`LogsGetAnalysed`, `NothingStarves`, `AllAnswered`), which need fairness and are out of
the prover's reach. Every safety property of every run is a theorem,
`RetentionKeepsTotals` under the premise above. Type invariants are listed by few runs:
the others' properties visit the same states, and the types are proved.

Induction over data is out of the prover's reach where a theorem of the library takes
the predicate as a parameter, and so is what folds and recursive functions compute for
every input. Two ways around it are used here. Sums are cardinalities: a sequence
holds as many units as the set of its units has elements, rows count as many requests
as `Counted` has elements, and bijections and disjoint unions do the adding (`HeldAdds`,
`AmountSplits`). And a
least counterexample stands for an induction: `LeastExists` gives the least element
of a set of numbers from the well-foundedness of their order, once for each set it
is needed for (`MinIsLeast`, `MaxIsGreatest`, `NoMatchNoneNear`, `EvictedEnds`).

**Not modelled and why**: PROJECT.json `components` gives a reason for each part.

## 5. Plan

In this order; each module with its run, its mutants and, where named, theorems.

1. `BanlistSync` on top of `TaskLease`: fetch, publish, adopt; theorem: a pod only
   holds a list somebody fetched.
2. `DashboardAuth` in standalone mode as a run of its own, and the in-memory tier of
   `dashboard_cache.py`.
3. Two readers in `DashboardCache`, if the data of an entry can be made smaller.
4. The write of captured credentials and the category history, next to the rows they
   belong to.
