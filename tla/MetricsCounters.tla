-------------------------- MODULE MetricsCounters --------------------------
(***************************************************************************)
(* The cumulative metrics of scalable mode (src/src/metrics_counters.py):  *)
(* counters in Redis that every request increments after its commit, the   *)
(* rows they are recounted from, the tallies in which retention keeps what *)
(* it deleted, the snapshot in metrics_summary, and the pod that seeds the *)
(* counters.                                                               *)
(*                                                                         *)
(* Three counters stand for all: total_accesses and unique_ips, which are  *)
(* tallied, and unique_paths, which an estimator in Redis counts; the      *)
(* estimator is taken as exact, which it is for few members.  A request, a *)
(* retention run and a flush are threads, cut where they talk to a store.  *)
(***************************************************************************)
EXTENDS Integers, FiniteSets, FiniteSetsExt

CONSTANTS
  Pods,
  Workers,      \* request threads
  Cleaners,     \* threads that run the retention task
  FlushThreads, \* threads that run the metrics-flush task
  PodOf,        \* PodOf[t]: the pod thread t runs in
  Ips, Paths,
  Suspicious,   \* the addresses that send suspicious requests
  Deferrable,   \* the IPv6 addresses, whose first visit gets no row
  MaxRequests,  \* bound: how many requests are made
  MaxFaults     \* bound: how often something fails

MetricsAssumption ==
  /\ PodOf \in [Workers \cup Cleaners \cup FlushThreads -> Pods]
  /\ Deferrable \subseteq Ips /\ Suspicious \subseteq Ips
  /\ MaxRequests \in Nat /\ MaxFaults \in Nat
  /\ (Cleaners \cup FlushThreads) \cap Pods = {}
  /\ IsFiniteSet(Ips) /\ IsFiniteSet(Paths)
ASSUME MetricsAssumption

VARIABLES
  requests,   \* requests[ip]: total_requests of the row of ip, 0 when it has none
  stale,      \* the IPs not seen since the cutoff of retention
  preserved,  \* the IPs with a suspicious log in access_logs
  tally,      \* the deleted tallies
  visited,    \* the paths handed to access_logs so far
  summary,    \* the snapshot in metrics_summary, or NoSnapshot
  counter,    \* the counters in Redis
  seen,       \* the estimator of paths in Redis
  seeded,     \* the seed marker in Redis
  lease,      \* the lease of the reconcile is held
  pod,        \* pod[p]: down, how far it is with seeding, or up
  worker,     \* worker[w]: where its request stands
  cleaner,    \* cleaner[c]: where its retention run stands
  recount,    \* recount[t]: the recompute a cleaner or a starting pod is in
  flusher,    \* flusher[f]: the values it is about to store, or NoSnapshot
  made,       \* bound: the requests made so far
  faults      \* bound: the faults so far

db == <<requests, stale, preserved, tally, visited, summary>>
redis == <<counter, seen, seeded, lease>>
threads == <<pod, worker, cleaner, recount, flusher>>
countersVars == <<db, redis, threads, made, faults>>

-----------------------------------------------------------------------------
Tallied == {"total_accesses", "unique_ips"}      \* _TALLIED_METRICS
Heavy == Tallied \cup {"unique_paths"}           \* HEAVY_METRICS
Zero == [m \in Tallied |-> 0]
Unset == [m \in Heavy |-> 0]
NoSnapshot == [m \in Heavy |-> -1]

(* The requests that the rows of these IPs count: as many as their sum. *)
Counted(ips) == UNION {{ip} \X (1 .. requests[ip]) : ip \in ips}

(* _compute_dashboard_counts_sql: what the rows of these IPs amount to. *)
Amount(ips) ==
  [m \in Tallied |-> IF m = "unique_ips" THEN Cardinality({ip \in ips : requests[ip] > 0})
                                         ELSE Cardinality(Counted(ips))]

(* The total ever observed, as the database knows it. *)
Total(m) == Amount(Ips)[m] + tally[m]

Plus(f, g) == [m \in Tallied |-> f[m] + g[m]]

(* The tallied counters, and the estimator's count for the other. *)
WithPaths(values) == [m \in Heavy |-> IF m \in Tallied THEN values[m] ELSE Cardinality(seen)]

Idle == [step |-> "idle", ip |-> "none", path |-> "none", read |-> 0, new |-> FALSE]
NoRun == [step |-> "idle", rows |-> {}, read |-> Zero]
NoRecount == [step |-> "idle", counts |-> Zero, tallies |-> Zero]

Up(t) == pod[PodOf[t]] = "up"
Fault == faults < MaxFaults /\ faults' = faults + 1

(* A bug: SELECT first and delete at the commit, so that nothing waits.       *)
UnlockedUntilCommit(ip) == TRUE

(* No retention run holds a lock on the row of ip: it has not deleted it, or  *)
(* is done with it.                                                          *)
Unlocked(ip) == \A c \in Cleaners : ip \notin cleaner[c].rows

-----------------------------------------------------------------------------
(* A request: persist_access puts its log on the write buffer, reads the row, *)
(* commits it, and counts.                                                   *)
ReadRow(w, ip, path) ==
  /\ Up(w)
  /\ worker[w].step = "idle"
  /\ made < MaxRequests
  /\ made' = made + 1
  /\ worker' = [worker EXCEPT ![w] = [step |-> "commit", ip |-> ip, path |-> path,
                                      read |-> requests[ip], new |-> FALSE]]
  /\ visited' = visited \cup {path}
  /\ UNCHANGED <<requests, stale, preserved, tally, summary, redis, pod, cleaner, recount, flusher, faults>>

(* The ORM writes what it read plus one.  The insert of a row that exists by  *)
(* now fails, and so does the update of one that is gone; both wait for a    *)
(* retention run that has deleted the row to end.                            *)
CommitRow(w) ==
  LET r == worker[w] IN
  /\ r.step = "commit"
  /\ Unlocked(r.ip)
  /\ (r.read = 0) = (requests[r.ip] = 0)
  /\ requests' = [requests EXCEPT ![r.ip] = r.read + 1]
  /\ stale' = stale \ {r.ip}
  /\ worker' = [worker EXCEPT ![w].step = "count", ![w].new = r.read = 0]
  /\ UNCHANGED <<preserved, tally, visited, summary, redis, pod, cleaner, recount, flusher, made, faults>>

(* A first-seen IPv6 address: its visit is logged and counted, but no row is. *)
DeferRow(w) ==
  LET r == worker[w] IN
  /\ r.step = "commit"
  /\ r.read = 0 /\ r.ip \in Deferrable
  /\ worker' = [worker EXCEPT ![w].step = "count"]
  /\ UNCHANGED <<db, redis, pod, cleaner, recount, flusher, made, faults>>

(* The transaction raised: rolled back, and nothing is counted. *)
Rollback(w) ==
  LET r == worker[w] IN
  /\ r.step = "commit"
  /\ Unlocked(r.ip)
  /\ (r.read = 0) # (requests[r.ip] = 0)
  /\ worker' = [worker EXCEPT ![w] = Idle]
  /\ UNCHANGED <<db, redis, pod, cleaner, recount, flusher, made, faults>>

Count(w) ==
  LET r == worker[w] IN
  /\ r.step = "count"
  /\ counter' = [counter EXCEPT !["total_accesses"] = @ + 1,
                                !["unique_ips"] = IF r.new THEN @ + 1 ELSE @]
  /\ seen' = seen \cup {r.path}
  /\ worker' = [worker EXCEPT ![w] = Idle]
  /\ UNCHANGED <<db, seeded, lease, pod, cleaner, recount, flusher, made, faults>>

(* Redis raises: at the first counter, or at the one after it. *)
CountFails(w) ==
  /\ worker[w].step = "count"
  /\ Fault
  /\ \/ UNCHANGED counter
     \/ counter' = [counter EXCEPT !["total_accesses"] = @ + 1]
  /\ worker' = [worker EXCEPT ![w] = Idle]
  /\ UNCHANGED <<db, seen, seeded, lease, pod, cleaner, recount, flusher, made>>

Proceed(w) == CommitRow(w) \/ DeferRow(w) \/ Rollback(w) \/ Count(w)

-----------------------------------------------------------------------------
(* The retention task.  The row of ip passes the cutoff.                     *)
Age(ip) ==
  /\ requests[ip] > 0
  /\ stale' = stale \cup {ip}
  /\ UNCHANGED <<requests, preserved, tally, visited, summary, redis, threads, made, faults>>

(* The write buffer inserts a suspicious log on its own: no lock of the row   *)
(* holds it up, and the update of the row may come later.                    *)
Preserve(ip) ==
  /\ ip \in Suspicious
  /\ \/ requests[ip] > 0 /\ ip \notin stale
     \/ \E w \in Workers : worker[w].step = "commit" /\ worker[w].ip = ip
  /\ preserved' = preserved \cup {ip}
  /\ UNCHANGED <<requests, stale, tally, visited, summary, redis, threads, made, faults>>

(* A purge from the panel deletes the row and the logs of an ignored or IPv6  *)
(* address, and tallies nothing.                                             *)
Purge(ip) ==
  /\ requests[ip] > 0 /\ Unlocked(ip)
  /\ requests' = [requests EXCEPT ![ip] = 0]
  /\ stale' = stale \ {ip}
  /\ preserved' = preserved \ {ip}
  /\ UNCHANGED <<tally, visited, summary, redis, threads, made, faults>>

(* A run.  Benign logs go first, in transactions of their own. *)
DeleteLogs(c) ==
  /\ Up(c)
  /\ cleaner[c].step = "idle" /\ recount[c].step = "idle"
  /\ cleaner' = [cleaner EXCEPT ![c].step = "rows"]
  /\ UNCHANGED <<db, redis, pod, worker, recount, flusher, made, faults>>

(* DELETE .. RETURNING: it waits for a run that has deleted one of the rows. *)
DeleteRows(c) ==
  /\ cleaner[c].step = "rows"
  /\ \A ip \in stale \ preserved : Unlocked(ip)
  /\ cleaner' = [cleaner EXCEPT ![c].step = "tally", ![c].rows = stale \ preserved]
  /\ UNCHANGED <<db, redis, pod, worker, recount, flusher, made, faults>>

(* _bump_deleted_tally, up to the answer of its query. *)
ReadTallies(c) ==
  /\ cleaner[c].step = "tally"
  /\ cleaner' = [cleaner EXCEPT ![c].step = "save", ![c].read = tally]
  /\ UNCHANGED <<db, redis, pod, worker, recount, flusher, made, faults>>

(* The first run that tallies inserts the tallies; a second one that read     *)
(* none inserts them as well, and fails.                                      *)
TalliesInserted(c) == cleaner[c].rows # {} /\ cleaner[c].read = Zero /\ tally # Zero

(* Rows and tallies commit together; then the reconcile. *)
CommitRetention(c) ==
  LET gone == IF TalliesInserted(c) THEN {} ELSE cleaner[c].rows IN
  /\ cleaner[c].step = "save"
  /\ requests' = [ip \in Ips |-> IF ip \in gone THEN 0 ELSE requests[ip]]
  /\ stale' = stale \ gone
  /\ tally' = IF gone = {} THEN tally ELSE Plus(cleaner[c].read, Amount(gone))
  /\ cleaner' = [cleaner EXCEPT ![c] =
                   [NoRun EXCEPT !.step = IF TalliesInserted(c) THEN "idle" ELSE "reconcile"]]
  /\ UNCHANGED <<preserved, visited, summary, redis, pod, worker, recount, flusher, made, faults>>

(* An error ends the run, and rolls its transaction back. *)
RetentionFails(c) ==
  /\ cleaner[c].step # "idle"
  /\ Fault
  /\ cleaner' = [cleaner EXCEPT ![c] = NoRun]
  /\ UNCHANGED <<db, redis, pod, worker, recount, flusher, made>>

(* reconcile: one pod in 600 seconds. *)
Reconcile(c) ==
  /\ cleaner[c].step = "reconcile"
  /\ cleaner' = [cleaner EXCEPT ![c] = NoRun]
  /\ lease' = TRUE
  /\ recount' = [recount EXCEPT ![c].step = IF lease THEN "idle" ELSE "count"]
  /\ UNCHANGED <<db, counter, seen, seeded, pod, worker, flusher, made, faults>>

LeaseExpires ==
  /\ lease
  /\ lease' = FALSE
  /\ UNCHANGED <<db, counter, seen, seeded, threads, made, faults>>

Retain(c) ==
  DeleteRows(c) \/ ReadTallies(c) \/ CommitRetention(c) \/ Reconcile(c)

-----------------------------------------------------------------------------
(* _recompute_heavy, in a reconcile or in the seeding of the first pod: each *)
(* query is a transaction of its own, and requests go on in between.         *)
ReadCounts(t) ==
  /\ recount[t].step = "count"
  /\ recount' = [recount EXCEPT ![t].step = "tallies", ![t].counts = Amount(Ips)]
  /\ UNCHANGED <<db, redis, pod, worker, cleaner, flusher, made, faults>>

(* A bug: the tallies left out of the recompute. *)
ForgetDeleted(t) ==
  /\ recount[t].step = "tallies"
  /\ recount' = [recount EXCEPT ![t].step = "set"]
  /\ UNCHANGED <<db, redis, pod, worker, cleaner, flusher, made, faults>>

ReadDeleted(t) ==
  /\ recount[t].step = "tallies"
  /\ recount' = [recount EXCEPT ![t].step = "set", ![t].tallies = tally]
  /\ UNCHANGED <<db, redis, pod, worker, cleaner, flusher, made, faults>>

(* get_deleted_tallies answers a failed query with no tallies at all. *)
TalliesUnread(t) ==
  /\ recount[t].step = "tallies"
  /\ Fault
  /\ recount' = [recount EXCEPT ![t].step = "set"]
  /\ UNCHANGED <<db, redis, pod, worker, cleaner, flusher, made>>

SetCounters(t) ==
  /\ recount[t].step = "set"
  /\ counter' = WithPaths(Plus(recount[t].counts, recount[t].tallies))
  /\ recount' = [recount EXCEPT ![t] = [NoRecount EXCEPT !.step = "save"]]
  /\ UNCHANGED <<db, seen, seeded, lease, pod, worker, cleaner, flusher, made, faults>>

(* The end of a recompute; a pod that seeded comes up. *)
Done(t) ==
  /\ recount' = [recount EXCEPT ![t] = NoRecount]
  /\ pod' = IF t \in Pods THEN [pod EXCEPT ![t] = "up"] ELSE pod

SaveSummary(t) ==
  /\ recount[t].step = "save"
  /\ summary' = counter
  /\ Done(t)
  /\ UNCHANGED <<requests, stale, preserved, tally, visited, redis, worker, cleaner, flusher, made, faults>>

RecountFails(t) ==
  /\ recount[t].step # "idle"
  /\ Fault
  /\ Done(t)
  /\ UNCHANGED <<db, redis, worker, cleaner, flusher, made>>

Recount(t) == ReadCounts(t) \/ ReadDeleted(t) \/ SetCounters(t) \/ SaveSummary(t)

-----------------------------------------------------------------------------
(* The metrics-flush task, on every pod: align unique_paths, read all.       *)
ReadCounters(f) ==
  /\ Up(f)
  /\ flusher[f] = NoSnapshot
  /\ counter' = WithPaths(counter)
  /\ flusher' = [flusher EXCEPT ![f] = WithPaths(counter)]
  /\ UNCHANGED <<db, seen, seeded, lease, pod, worker, cleaner, recount, made, faults>>

StoreSnapshot(f) ==
  /\ flusher[f] # NoSnapshot
  /\ summary' = flusher[f]
  /\ flusher' = [flusher EXCEPT ![f] = NoSnapshot]
  /\ UNCHANGED <<requests, stale, preserved, tally, visited, redis, pod, worker, cleaner, recount, made, faults>>

(* The errors of the task and of the upsert are logged, and end the flush. *)
FlushFails(f) ==
  /\ flusher[f] # NoSnapshot
  /\ Fault
  /\ flusher' = [flusher EXCEPT ![f] = NoSnapshot]
  /\ UNCHANGED <<db, redis, pod, worker, cleaner, recount, made>>

-----------------------------------------------------------------------------
(* bootstrap: the pod that sets the marker seeds, the others serve. *)
Start(p) ==
  /\ pod[p] = "down"
  /\ pod' = [pod EXCEPT ![p] = IF seeded THEN "up" ELSE "seeding"]
  /\ seeded' = TRUE
  /\ UNCHANGED <<db, counter, seen, lease, worker, cleaner, recount, flusher, made, faults>>

(* The estimator is rebuilt, if it is empty, from what access_logs has of the *)
(* paths: the rest is buffered, lost with a buffer, deleted, or unreadable.  *)
SeedPaths(p) ==
  /\ pod[p] = "seeding"
  /\ \E logged \in SUBSET visited : seen' = IF seen = {} THEN logged ELSE seen
  /\ pod' = [pod EXCEPT ![p] = "loading"]
  /\ UNCHANGED <<db, counter, seeded, lease, worker, cleaner, recount, flusher, made, faults>>

(* The counters come from the snapshot, unique_paths at least so. *)
LoadSnapshot(p) ==
  /\ pod[p] = "loading" /\ recount[p].step = "idle"
  /\ summary # NoSnapshot
  /\ counter' = [summary EXCEPT !["unique_paths"] = Max({@, Cardinality(seen)})]
  /\ pod' = [pod EXCEPT ![p] = "up"]
  /\ UNCHANGED <<db, seen, seeded, lease, worker, cleaner, recount, flusher, made, faults>>

(* Without a snapshot they are recomputed. *)
FirstRecount(p) ==
  /\ pod[p] = "loading" /\ recount[p].step = "idle"
  /\ summary = NoSnapshot
  /\ recount' = [recount EXCEPT ![p].step = "count"]
  /\ UNCHANGED <<db, redis, pod, worker, cleaner, flusher, made, faults>>

(* So they are if the query of the snapshot fails: it is answered with {}. *)
SnapshotUnread(p) ==
  /\ pod[p] = "loading" /\ recount[p].step = "idle"
  /\ Fault
  /\ recount' = [recount EXCEPT ![p].step = "count"]
  /\ UNCHANGED <<db, redis, pod, worker, cleaner, flusher, made>>

(* Seeding never blocks startup. *)
SeedFails(p) ==
  /\ pod[p] \in {"seeding", "loading"} /\ recount[p].step = "idle"
  /\ Fault
  /\ pod' = [pod EXCEPT ![p] = "up"]
  /\ UNCHANGED <<db, redis, worker, cleaner, recount, flusher, made>>

Boot(p) == Start(p) \/ SeedPaths(p) \/ LoadSnapshot(p) \/ FirstRecount(p)

(* A pod dies with its threads; what they had not committed is undone.       *)
PodCrash(p) ==
  /\ pod[p] # "down"
  /\ Fault
  /\ pod' = [pod EXCEPT ![p] = "down"]
  /\ worker' = [w \in Workers |-> IF PodOf[w] = p THEN Idle ELSE worker[w]]
  /\ cleaner' = [c \in Cleaners |-> IF PodOf[c] = p THEN NoRun ELSE cleaner[c]]
  /\ flusher' = [f \in FlushThreads |-> IF PodOf[f] = p THEN NoSnapshot ELSE flusher[f]]
  /\ recount' = [t \in Cleaners \cup Pods |->
                   IF t = p \/ (t \in Cleaners /\ PodOf[t] = p) THEN NoRecount ELSE recount[t]]
  /\ UNCHANGED <<db, redis, made>>

(* Redis is wiped. *)
Wipe ==
  /\ Fault
  /\ counter' = Unset /\ seen' = {} /\ seeded' = FALSE /\ lease' = FALSE
  /\ UNCHANGED <<db, threads, made>>

CountersInit ==
  /\ requests = [ip \in Ips |-> 0] /\ stale = {} /\ preserved = {}
  /\ tally = Zero /\ visited = {} /\ summary = NoSnapshot
  /\ counter = Unset /\ seen = {} /\ seeded = FALSE /\ lease = FALSE
  /\ pod = [p \in Pods |-> "down"]
  /\ worker = [w \in Workers |-> Idle]
  /\ cleaner = [c \in Cleaners |-> NoRun]
  /\ recount = [t \in Cleaners \cup Pods |-> NoRecount]
  /\ flusher = [f \in FlushThreads |-> NoSnapshot]
  /\ made = 0 /\ faults = 0

CountersNext ==
  \/ \E w \in Workers, ip \in Ips, path \in Paths : ReadRow(w, ip, path)
  \/ \E w \in Workers : Proceed(w) \/ CountFails(w)
  \/ \E ip \in Ips : Age(ip) \/ Preserve(ip) \/ Purge(ip)
  \/ \E c \in Cleaners : DeleteLogs(c) \/ Retain(c) \/ RetentionFails(c)
  \/ \E t \in Cleaners \cup Pods : Recount(t) \/ TalliesUnread(t) \/ RecountFails(t)
  \/ \E f \in FlushThreads : ReadCounters(f) \/ StoreSnapshot(f) \/ FlushFails(f)
  \/ \E p \in Pods : Boot(p) \/ SnapshotUnread(p) \/ SeedFails(p) \/ PodCrash(p)
  \/ LeaseExpires \/ Wipe

(* Retention and flush are scheduled for ever, threads run on, the lease has  *)
(* an expiry, and pods are started again.                                    *)
CountersFairness ==
  /\ WF_countersVars(LeaseExpires)
  /\ \A w \in Workers : WF_countersVars(Proceed(w))
  /\ \A c \in Cleaners : WF_countersVars(DeleteLogs(c)) /\ WF_countersVars(Retain(c))
  /\ \A t \in Cleaners \cup Pods : WF_countersVars(Recount(t))
  /\ \A f \in FlushThreads : WF_countersVars(ReadCounters(f)) /\ WF_countersVars(StoreSnapshot(f))
  /\ \A p \in Pods : WF_countersVars(Boot(p))

CountersSpec == CountersInit /\ [][CountersNext]_countersVars /\ CountersFairness

-----------------------------------------------------------------------------
Counts == [Tallied -> Nat]

CountersTypeOK ==
  /\ requests \in [Ips -> 0 .. MaxRequests]
  /\ stale \in SUBSET {ip \in Ips : requests[ip] > 0}
  /\ tally \in Counts
  /\ preserved \in SUBSET Suspicious
  /\ visited \in SUBSET Paths
  /\ summary \in [Heavy -> Nat] \cup {NoSnapshot}
  /\ counter \in [Heavy -> Nat]
  /\ seen \in SUBSET Paths
  /\ seeded \in BOOLEAN /\ lease \in BOOLEAN
  /\ pod \in [Pods -> {"down", "seeding", "loading", "up"}]
  /\ worker \in [Workers -> [step : {"idle", "commit", "count"}, ip : Ips \cup {"none"},
                             path : Paths \cup {"none"}, read : 0 .. MaxRequests, new : BOOLEAN]]
  /\ cleaner \in [Cleaners -> [step : {"idle", "rows", "tally", "save", "reconcile"},
                               rows : SUBSET Ips, read : Counts]]
  /\ recount \in [Cleaners \cup Pods -> [step : {"idle", "count", "tallies", "set", "save"},
                                         counts : Counts, tallies : Counts]]
  /\ flusher \in [FlushThreads -> [Heavy -> Nat] \cup {NoSnapshot}]
  /\ made \in 0 .. MaxRequests /\ faults \in 0 .. MaxFaults

(* What a retention run deletes it tallies, exactly, also when two runs       *)
(* overlap: "tally exactly the rows THIS run deleted .. keeping the           *)
(* cumulative counts correct without cross-pod coordination".  The bump reads *)
(* the tally and writes it back, so this rests on the locks of deleted rows:  *)
(* the runs overlap in one, unless a suspicious log takes the row out of the  *)
(* reach of the second.                                                       *)
RetentionKeepsTotals ==
  [][\A c \in Cleaners :
       cleaner[c].step = "save" /\ cleaner'[c].step = "reconcile"
       => \A m \in Tallied : Total(m)' = Total(m)]_countersVars

(* Once requests and failures end -- both are bounded here -- the counters and *)
(* the snapshot come to be what the database knows, whatever was lost,        *)
(* overwritten, wiped, counted twice or counted without a row before         *)
(* ("correcting any event-driven drift").                                    *)
CountersConverge ==
  <>[](\A m \in Tallied : counter[m] = Total(m) /\ summary[m] = counter[m])
=============================================================================
