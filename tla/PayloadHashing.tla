--------------------------- MODULE PayloadHashing ---------------------------
(***************************************************************************)
(* The hash-payloads task (src/src/tasks/hash_payloads.py): flagged        *)
(* requests and captured files get a TLSH digest and join a campaign, the  *)
(* nearest cluster within the threshold or a new one                       *)
(* (src/src/database/payloads.py).  A watermark over the ids of the access *)
(* logs says where the next run starts.                                    *)
(*                                                                         *)
(* Every log here carries a detection; what tlsh_hash gives for its body,  *)
(* and for a file in it, is a number, and distances between digests are    *)
(* distances between numbers.  Ids are given when a log is inserted, and logs become visible *)
(* when their transaction commits.                                         *)
(***************************************************************************)
EXTENDS Integers, FiniteSets, FiniteSetsExt

CONSTANTS
  Logs,          \* bound: the ids access logs may get, 1 .. n
  Digest,        \* Digest[l]: what the body of l hashes to, and its file, if they do
  Threshold,     \* KRAWL_TLSH_CLUSTER_THRESHOLD
  Hashers,       \* the threads that may run the task, of any pod
  Scheduled,     \* the one the scheduler runs; the others are started by hand
  MaxLogsPerRun, \* MAX_LOGS_PER_RUN
  ChunkSize,     \* CHUNK_SIZE
  FileLogs,      \* bound: the logs whose request may carry a file
  MaxFilesPerRun, \* MAX_FILES_PER_RUN
  ClusterIds,    \* bound: the ids clusters may have at a time
  MaxEvents,     \* bound: how often in all the task is started by hand, a pod dies,
                 \* a captured request is lost, or a body or a file has no digest
  None           \* no digest, no cluster (NULL)

FileStates == {"none", "unhashed", "hashed"}

HashingAssumption ==
  /\ Logs \in SUBSET (Nat \ {0}) /\ IsFiniteSet(Logs) /\ Digest \in [Logs -> Int]
  /\ None \notin ClusterIds \cup Int
  /\ {Threshold, MaxEvents} \subseteq Nat
  /\ Scheduled \in Hashers /\ IsFiniteSet(Hashers)
  /\ FileLogs \subseteq Logs
  /\ {MaxLogsPerRun, ChunkSize, MaxFilesPerRun} \subseteq Nat \ {0}
ASSUME HashingAssumption

VARIABLES
  row,       \* row[l]: absent, captured (in a write buffer), open (inserted, not
             \* committed), visible, or gone
  blank,     \* the logs whose body has no digest: it is too short
  cluster,   \* cluster[l]: cluster_id of the detections of l, or None
  file,      \* file[l]: the file captured with l: none, unhashed (no tlsh_hash)
             \* or hashed
  fileCluster, \* fileCluster[l]: cluster_id of that file, or None
  clusters,  \* the rows of payload_clusters
  rep,       \* rep[c]: representative_hash
  count,     \* count[c]: capture_count
  watermark,
  pc,        \* pc[h]: where hasher h is
  from,      \* from[h]: the watermark it read
  batch,     \* batch[h]: the ids of its run still to be hashed, then of its files
  chunk,     \* chunk[h]: the ids of the chunk it is in
  read,      \* read[h]: the rows of that chunk it read and has not assigned yet
  stamps,    \* stamps[h]: the assignments of that chunk, not yet written
  reps,      \* reps[h]: the clusters it knows
  events,    \* how many of the events that MaxEvents bounds there were
  overtaken, \* history: the logs that committed when a run was past their id
  unseen,    \* history: unseen[h]: clusters started by others since h loaded reps
  blind      \* history: blind[c]: the clusters whoever started c had not seen

logVars == <<row, blank, overtaken>>
clusterVars == <<clusters, rep, count, blind>>
hasherVars == <<pc, from, batch, chunk, read, stamps, reps, unseen>>
fileVars == <<file, fileCluster>>
vars == <<logVars, fileVars, cluster, clusterVars, watermark, hasherVars, events>>

TypeOK ==
  /\ row \in [Logs -> {"absent", "captured", "open", "visible", "gone"}]
  /\ blank \in SUBSET Logs
  /\ cluster \in [Logs -> ClusterIds \cup {None}]
  /\ file \in [Logs -> FileStates]
  /\ fileCluster \in [Logs -> ClusterIds \cup {None}]
  /\ clusters \in SUBSET ClusterIds
  /\ rep \in [ClusterIds -> Int \cup {None}]
  /\ count \in [ClusterIds -> Nat]
  /\ watermark \in Logs \cup {0}
  /\ pc \in [Hashers -> {"idle", "query", "chunk", "assign", "advance", "files", "file"}]
  /\ from \in [Hashers -> Logs \cup {0}]
  /\ batch \in [Hashers -> SUBSET Logs] /\ chunk \in [Hashers -> SUBSET Logs]
  /\ \A h \in Hashers : /\ Cardinality(batch[h]) <= MaxLogsPerRun \/ Cardinality(batch[h]) <= MaxFilesPerRun
                        /\ Cardinality(chunk[h]) <= ChunkSize
  /\ read \in [Hashers -> SUBSET Logs]
  /\ stamps \in [Hashers -> SUBSET (Logs \X (ClusterIds \cup {None}))]
  /\ reps \in [Hashers -> SUBSET ClusterIds]
  /\ events \in 0 .. MaxEvents
  /\ overtaken \in SUBSET Logs
  /\ unseen \in [Hashers -> SUBSET ClusterIds]
  /\ blind \in [ClusterIds -> SUBSET ClusterIds]

Init ==
  /\ row = [l \in Logs |-> "absent"] /\ blank = {}
  /\ cluster = [l \in Logs |-> None]
  /\ file = [l \in Logs |-> "none"] /\ fileCluster = [l \in Logs |-> None]
  /\ clusters = {} /\ rep = [c \in ClusterIds |-> None]
  /\ count = [c \in ClusterIds |-> 0]
  /\ watermark = 0
  /\ pc = [h \in Hashers |-> "idle"]
  /\ from = [h \in Hashers |-> 0]
  /\ batch = [h \in Hashers |-> {}] /\ chunk = [h \in Hashers |-> {}]
  /\ read = [h \in Hashers |-> {}] /\ stamps = [h \in Hashers |-> {}] /\ reps = [h \in Hashers |-> {}]
  /\ events = 0 /\ overtaken = {}
  /\ unseen = [h \in Hashers |-> {}] /\ blind = [c \in ClusterIds |-> {}]

Event == events < MaxEvents /\ events' = events + 1

Visible == {l \in Logs : row[l] = "visible"}
Goto(h, where) == pc' = [pc EXCEPT ![h] = where]

-----------------------------------------------------------------------------
Distance(a, b) == IF a < b THEN b - a ELSE a - b
Near(a, b) == Distance(a, b) <= Threshold

(* The known clusters a digest may join: the nearest within the threshold. *)
Matches(known, d) ==
  LET near == {c \in known : Near(d, rep[c])}
  IN  {c \in near : \A b \in near : Distance(d, rep[c]) <= Distance(d, rep[b])}

(* Ids are uuids: that of a cluster nothing names any more stands for a new one. *)
Fresh ==
  ClusterIds \ (clusters \cup {cluster[l] : l \in Logs} \cup {fileCluster[l] : l \in Logs}
                \cup UNION {reps[h] \cup {s[2] : s \in stamps[h]} : h \in Hashers})

(* assign_cluster(), one transaction: join the nearest known cluster, whose *)
(* count grows in SQL if the row is still there ...                         *)
JoinCluster(known, d, c) ==
  /\ c \in Matches(known, d)
  /\ count' = IF c \in clusters THEN [count EXCEPT ![c] = @ + 1] ELSE count
  /\ UNCHANGED <<clusters, rep, blind>>

(* A bug: capture_count left to its default. *)
StartUncounted(c, d, hidden) ==
  /\ Fresh # {} /\ c = (CHOOSE f \in Fresh : TRUE)
  /\ clusters' = clusters \cup {c}
  /\ rep' = [rep EXCEPT ![c] = d]
  /\ count' = [count EXCEPT ![c] = 0]
  /\ blind' = [b \in ClusterIds |-> IF b = c THEN hidden ELSE blind[b] \ {c}]

(* ... or start one. *)
StartCluster(c, d, hidden) ==
  /\ Fresh # {} /\ c = (CHOOSE f \in Fresh : TRUE)
  /\ clusters' = clusters \cup {c}
  /\ rep' = [rep EXCEPT ![c] = d]
  /\ count' = [count EXCEPT ![c] = 1]
  /\ blind' = [b \in ClusterIds |-> IF b = c THEN hidden ELSE blind[b] \ {c}]

-----------------------------------------------------------------------------
(* record_access of a request that carries a file with a digest: before     *)
(* anything is stored, assign_cluster reads the clusters and joins one or    *)
(* starts one; the id waits with the request in the buffer.                  *)
Capture(l) ==
  /\ row[l] = "absent" /\ l \in FileLogs
  /\ row' = [row EXCEPT ![l] = "captured"]
  /\ file' = [file EXCEPT ![l] = "hashed"]
  /\ \E c \in ClusterIds :
       /\ fileCluster' = [fileCluster EXCEPT ![l] = c]
       /\ \/ JoinCluster(clusters, Digest[l], c)
             /\ UNCHANGED unseen
          \/ Matches(clusters, Digest[l]) = {}
             /\ StartCluster(c, Digest[l], {})
             /\ unseen' = [g \in Hashers |-> unseen[g] \cup {c}]
  /\ UNCHANGED <<blank, overtaken, cluster, watermark, pc, from, batch, chunk, read, stamps, reps, events>>

(* The pod dies, or its buffer is full: the request is lost, its count is not. *)
Lose(l) ==
  /\ row[l] = "captured"
  /\ Event
  /\ row' = [row EXCEPT ![l] = "absent"]
  /\ file' = [file EXCEPT ![l] = "none"]
  /\ fileCluster' = [fileCluster EXCEPT ![l] = None]
  /\ UNCHANGED <<blank, overtaken, cluster, clusterVars, watermark, hasherVars>>

(* The log takes the next id, with its detections unhashed. *)
Stored(l) ==
  /\ \A k \in Logs : k < l => row[k] \notin {"absent", "captured"}
  /\ row' = [row EXCEPT ![l] = "open"]
  /\ UNCHANGED <<fileCluster, cluster, clusterVars, watermark, hasherVars, overtaken>>

(* _insert_access_log_batch, or the standalone insert, of a request without a *)
(* file, or with one that has no digest: too small, or no TLSH extension then. *)
(* Its body may be too short to have one.                                      *)
Insert(l) ==
  /\ row[l] = "absent"
  /\ Stored(l)
  /\ \/ UNCHANGED <<file, blank, events>>
     \/ l \in FileLogs /\ file' = [file EXCEPT ![l] = "unhashed"] /\ Event /\ UNCHANGED blank
     \/ blank' = blank \cup {l} /\ Event /\ UNCHANGED file

(* The same of a request whose file has a cluster.  The foreign key refuses   *)
(* it when retention has deleted the cluster meanwhile: the batch goes back   *)
(* to the buffer as it is.                                                    *)
InsertCaptured(l) ==
  /\ row[l] = "captured" /\ fileCluster[l] \in clusters
  /\ Stored(l)
  /\ UNCHANGED <<file, blank, events>>

(* Some run has read, or the watermark has passed, ids beyond l. *)
Passed(l) ==
  \/ watermark > l
  \/ \E h \in Hashers : pc[h] \in {"chunk", "assign", "advance"}
                        /\ \E k \in batch[h] \cup chunk[h] : k > l

(* The transaction of l commits, possibly after that of a larger id. *)
Commit(l) ==
  /\ row[l] = "open"
  /\ row' = [row EXCEPT ![l] = "visible"]
  /\ overtaken' = IF Passed(l) THEN overtaken \cup {l} ELSE overtaken
  /\ UNCHANGED <<blank, fileVars, cluster, clusterVars, watermark, hasherVars, events>>

-----------------------------------------------------------------------------
(* main(): _read_watermark, in a session of its own. *)
ReadWatermark(h) ==
  /\ pc[h] = "idle"
  /\ IF h = Scheduled THEN UNCHANGED events ELSE Event
  /\ Goto(h, "query")
  /\ from' = [from EXCEPT ![h] = watermark]
  /\ UNCHANGED <<logVars, fileVars, cluster, clusterVars, watermark, batch, chunk, read, stamps, reps, unseen>>

(* The first n of a set of ids: ordered, with a limit. *)
FirstOf(ids, n) == {l \in ids : Cardinality({k \in ids : k < l}) < n}

(* cluster_reps(). *)
ClusterReps(h) ==
  /\ reps' = [reps EXCEPT ![h] = clusters]
  /\ unseen' = [unseen EXCEPT ![h] = {}]

(* _pending_log_ids, then cluster_reps. *)
PendingLogIds(h) ==
  /\ pc[h] = "query"
  /\ batch' = [batch EXCEPT ![h] = FirstOf({l \in Visible : l > from[h]}, MaxLogsPerRun)]
  /\ from' = [from EXCEPT ![h] = 0]
  /\ ClusterReps(h)
  /\ Goto(h, IF batch'[h] = {} THEN "files" ELSE "chunk")
  /\ UNCHANGED <<logVars, fileVars, cluster, clusterVars, watermark, chunk, read, stamps, events>>

(* The rows of the next chunk are read. *)
ReadChunk(h) ==
  /\ pc[h] = "chunk"
  /\ chunk' = [chunk EXCEPT ![h] = FirstOf(batch[h], ChunkSize)]
  /\ batch' = [batch EXCEPT ![h] = @ \ chunk'[h]]
  /\ read' = [read EXCEPT ![h] = chunk'[h] \cap Visible]
  /\ Goto(h, "assign")
  /\ UNCHANGED <<logVars, fileVars, cluster, clusterVars, watermark, from, stamps, reps,
                 unseen, events>>

(* A hasher joins a cluster it knows ... *)
Join(h, d, c) ==
  /\ JoinCluster(reps[h], d, c)
  /\ UNCHANGED <<reps, unseen>>

UnseenByOthers(h, c) ==
  unseen' = [g \in Hashers |-> IF g = h THEN unseen[h] ELSE unseen[g] \cup {c}]

(* A bug: a new cluster that the batch does not remember. *)
FoundForgotten(h, d, c) ==
  /\ Matches(reps[h], d) = {}
  /\ StartCluster(c, d, unseen[h])
  /\ UnseenByOthers(h, c)
  /\ UNCHANGED reps

(* ... or starts one, and remembers it for the rest of the batch. *)
Found(h, d, c) ==
  /\ Matches(reps[h], d) = {}
  /\ StartCluster(c, d, unseen[h])
  /\ UnseenByOthers(h, c)
  /\ reps' = [reps EXCEPT ![h] = @ \cup {c}]

(* The row l gets a cluster, to be written later. *)
AssignCluster(h, l, d) ==
  \E c \in ClusterIds :
    /\ Join(h, d, c) \/ Found(h, d, c)
    /\ stamps' = [stamps EXCEPT ![h] = @ \cup {<<l, c>>}]

(* The next row of the chunk, in whatever order they came, has a body that   *)
(* hashes ...                                                                *)
Assign(h) ==
  /\ pc[h] = "assign"
  /\ \E l \in read[h] \ blank :
       /\ AssignCluster(h, l, Digest[l])
       /\ read' = [read EXCEPT ![h] = @ \ {l}]
  /\ UNCHANGED <<logVars, fileVars, cluster, watermark, pc, from, batch, chunk, events>>

(* ... or one that does not, and is passed for good. *)
AssignNothing(h) ==
  /\ pc[h] = "assign"
  /\ \E l \in read[h] \cap blank :
       /\ stamps' = [stamps EXCEPT ![h] = @ \cup {<<l, None>>}]
       /\ read' = [read EXCEPT ![h] = @ \ {l}]
  /\ UNCHANGED <<logVars, fileVars, cluster, clusterVars, watermark, pc, from, batch, chunk,
                 reps, unseen, events>>

(* The foreign key of cluster_id refuses a cluster that retention deleted    *)
(* meanwhile, and an update of a deleted row writes nothing.                 *)
CanStamp(h) == \A s \in stamps[h] : s[2] \in clusters \cup {None} \/ row[s[1]] # "visible"

Stamped(h, column) ==
  [l \in Logs |-> IF row[l] = "visible" /\ \E s \in stamps[h] : s[1] = l
                  THEN (CHOOSE s \in stamps[h] : s[1] = l)[2] ELSE column[l]]

(* The assignments of the chunk are written in one transaction. *)
Stamp(h) ==
  /\ pc[h] = "assign" /\ read[h] = {}
  /\ CanStamp(h)
  /\ cluster' = Stamped(h, cluster)
  /\ stamps' = [stamps EXCEPT ![h] = {}]
  /\ Goto(h, "advance")
  /\ UNCHANGED <<logVars, fileVars, clusterVars, watermark, from, batch, chunk, read, reps, unseen,
                 events>>

(* _advance_watermark to the last id of the chunk, never back. *)
AdvanceWatermark(h) ==
  /\ pc[h] = "advance"
  /\ watermark' = Max(chunk[h] \cup {watermark})
  /\ chunk' = [chunk EXCEPT ![h] = {}]
  /\ Goto(h, IF batch[h] = {} THEN "files" ELSE "chunk")
  /\ UNCHANGED <<logVars, fileVars, cluster, clusterVars, from, batch, read, stamps, reps, unseen,
                 events>>

-----------------------------------------------------------------------------
UnhashedFiles == {l \in Visible : file[l] = "unhashed"}

(* _hash_files: the oldest captured files that have no digest. *)
QueryFiles(h) ==
  /\ pc[h] = "files" /\ UnhashedFiles # {}
  /\ batch' = [batch EXCEPT ![h] = FirstOf(UnhashedFiles, MaxFilesPerRun)]
  /\ ClusterReps(h)
  /\ Goto(h, "file")
  /\ UNCHANGED <<logVars, fileVars, cluster, clusterVars, watermark, from, chunk, read, stamps, events>>

(* The raw request is parsed again.  The file that did not hash in the       *)
(* request does not hash now ...                                             *)
SkipFile(h) ==
  /\ pc[h] = "file" /\ batch[h] # {} /\ stamps[h] = {}
  /\ batch' = [batch EXCEPT ![h] = @ \ {Min(@)}]
  /\ UNCHANGED <<logVars, fileVars, cluster, clusterVars, watermark, pc, from, chunk, read, stamps, reps, unseen, events>>

(* ... unless it was the extension that was missing.                         *)
AssignFile(h) ==
  /\ pc[h] = "file" /\ batch[h] # {} /\ stamps[h] = {}
  /\ AssignCluster(h, Min(batch[h]), Digest[Min(batch[h])])
  /\ UNCHANGED <<logVars, fileVars, cluster, watermark, pc, from, batch, chunk, read, events>>

StampFile(h) ==
  /\ pc[h] = "file" /\ stamps[h] # {}
  /\ CanStamp(h)
  /\ fileCluster' = Stamped(h, fileCluster)
  /\ file' = [l \in Logs |-> IF row[l] = "visible" /\ l = Min(batch[h]) THEN "hashed" ELSE file[l]]
  /\ stamps' = [stamps EXCEPT ![h] = {}]
  /\ batch' = [batch EXCEPT ![h] = @ \ {Min(@)}]
  /\ UNCHANGED <<logVars, cluster, clusterVars, watermark, pc, from, chunk, read, reps, unseen,
                 events>>

-----------------------------------------------------------------------------
(* h is idle again and holds nothing. *)
Stopped(h) ==
  /\ Goto(h, "idle")
  /\ from' = [from EXCEPT ![h] = 0]
  /\ batch' = [batch EXCEPT ![h] = {}] /\ chunk' = [chunk EXCEPT ![h] = {}]
  /\ read' = [read EXCEPT ![h] = {}] /\ stamps' = [stamps EXCEPT ![h] = {}]
  /\ reps' = [reps EXCEPT ![h] = {}]
  /\ unseen' = [unseen EXCEPT ![h] = {}]
  /\ UNCHANGED <<logVars, fileVars, cluster, clusterVars, watermark>>

Done(h) ==
  /\ \/ pc[h] = "files" /\ UnhashedFiles = {}
     \/ pc[h] = "file" /\ batch[h] = {}
  /\ Stopped(h)
  /\ UNCHANGED events

(* A bug: the refused update is logged and the run goes on. *)
RefusalSwallowed(h) ==
  /\ pc[h] = "assign" /\ read[h] = {} /\ ~CanStamp(h)
  /\ stamps' = [stamps EXCEPT ![h] = {}]
  /\ Goto(h, "advance")
  /\ UNCHANGED <<logVars, fileVars, cluster, clusterVars, watermark, from, batch, chunk, read,
                 reps, unseen, events>>

(* A bug: the refused update is tried again in the same run. *)
RefusalRetried(h) ==
  /\ pc[h] = "assign" /\ read[h] = {} /\ ~CanStamp(h)
  /\ UNCHANGED vars

(* A refused update raises out of main(): the next run starts from the mark. *)
StampRefused(h) ==
  /\ \/ pc[h] = "assign" /\ read[h] = {}
     \/ pc[h] = "file" /\ stamps[h] # {}
  /\ ~CanStamp(h)
  /\ Stopped(h)
  /\ UNCHANGED events

(* The pod dies: what it assigned stays counted. *)
Crash(h) ==
  /\ pc[h] # "idle"
  /\ Event
  /\ Stopped(h)

HasherStep(h) ==
  \/ ReadWatermark(h) \/ PendingLogIds(h) \/ ReadChunk(h)
  \/ Assign(h) \/ AssignNothing(h) \/ Stamp(h) \/ AdvanceWatermark(h)
  \/ QueryFiles(h) \/ SkipFile(h) \/ AssignFile(h) \/ StampFile(h)
  \/ Done(h) \/ StampRefused(h)

Hashing ==
  \/ \E l \in Logs : Capture(l) \/ Lose(l) \/ Insert(l) \/ InsertCaptured(l) \/ Commit(l)
  \/ \E h \in Hashers : HasherStep(h) \/ Crash(h)
=============================================================================
