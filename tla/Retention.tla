----------------------------- MODULE Retention -----------------------------
(***************************************************************************)
(* What happens to access logs past the retention period, next to the      *)
(* hashing of PayloadHashing: pre-retention-cleanup takes the flag from    *)
(* old suspicious logs that no longer match any rule                       *)
(* (src/src/tasks/pre_retention_cleanup.py), and db-retention deletes old  *)
(* unflagged logs in batches and then the campaigns nobody belongs to      *)
(* (src/src/tasks/db_retention.py).                                        *)
(*                                                                         *)
(* Logs of honeypot paths are kept by both and have no part here; the rows *)
(* of ip_stats that retention deletes afterwards are in MetricsCounters.   *)
(* The database enforces its foreign keys, as PostgreSQL does.             *)
(***************************************************************************)
EXTENDS PayloadHashing

CONSTANTS
  Matching,        \* the logs that _is_still_suspicious finds to match a rule
  BatchSize,       \* BATCH_SIZE of pre-retention-cleanup
  DeleteBatchSize  \* DELETE_BATCH_SIZE of db-retention

RetentionAssumption ==
  /\ Matching \subseteq Logs
  /\ {BatchSize, DeleteBatchSize} \subseteq Nat \ {0}
ASSUME RetentionAssumption

VARIABLES
  old,        \* the logs past the cutoff
  suspicious  \* the logs with is_suspicious set

retentionVars == <<old, suspicious>>
allVars == <<vars, retentionVars>>

RetentionTypeOK ==
  /\ TypeOK
  /\ old \in SUBSET Visible
  /\ suspicious \in SUBSET Logs

RetentionInit ==
  /\ Init
  /\ old = {} /\ suspicious = Logs

-----------------------------------------------------------------------------
(* The clock moves the cutoff past the oldest log that is left. *)
Age ==
  /\ Visible \ old # {}
  /\ old' = old \cup {Min(Visible \ old)}
  /\ UNCHANGED <<vars, suspicious>>

(* Both tasks work in batches that depend on nothing but the tables, each in  *)
(* a transaction; a run is some batches, and where it fails or ends the next  *)
(* one goes on.  The queries have no order: rows come as the table has them.  *)

(* A bug: a batch is released as a whole or not at all. *)
UnflagWhole ==
  LET candidates == FirstOf(old \cap suspicious, BatchSize)
  IN  /\ candidates # {} /\ candidates \cap Matching = {}
      /\ suspicious' = suspicious \ candidates
      /\ UNCHANGED <<vars, old>>

(* pre_retention_cleanup, a batch: the logs in it that match nothing any more *)
(* lose the flag.  When there are none the run is over.                       *)
Unflag ==
  LET candidates == FirstOf(old \cap suspicious, BatchSize)
  IN  /\ candidates \ Matching # {}
      /\ suspicious' = suspicious \ (candidates \ Matching)
      /\ UNCHANGED <<vars, old>>

(* db_retention, a batch of logs with their detections and, by cascade, files. *)
DeleteBatch ==
  LET ids == FirstOf(old \ suspicious, DeleteBatchSize)
  IN  /\ ids # {}
      /\ row' = [l \in Logs |-> IF l \in ids THEN "gone" ELSE row[l]]
      /\ cluster' = [l \in Logs |-> IF l \in ids THEN None ELSE cluster[l]]
      /\ file' = [l \in Logs |-> IF l \in ids THEN "none" ELSE file[l]]
      /\ fileCluster' = [l \in Logs |-> IF l \in ids THEN None ELSE fileCluster[l]]
      /\ old' = old \ ids
      /\ UNCHANGED <<blank, overtaken, clusterVars, watermark, hasherVars, events, suspicious>>

Members(c) == {l \in Logs : cluster[l] = c \/ (row[l] \in {"open", "visible"} /\ fileCluster[l] = c)}

(* The orphan sweep: campaigns with no detection and no file go.  One that   *)
(* only a file not committed yet belongs to makes the whole delete fail.     *)
SweepClusters ==
  /\ \E c \in clusters : Members(c) = {}
  /\ \A c \in clusters : Members(c) # {} => \E l \in Members(c) : row[l] = "visible"
  /\ clusters' = {c \in clusters : Members(c) # {}}
  /\ UNCHANGED <<logVars, fileVars, cluster, rep, count, blind, watermark, hasherVars, events,
                 retentionVars>>

Next ==
  \/ Hashing /\ UNCHANGED retentionVars
  \/ Age
  \/ Unflag
  \/ DeleteBatch
  \/ SweepClusters

(* The scheduler starts the hasher every minute and the cleanup every day,   *)
(* and the pods do not die for ever.  Logs age.  Nobody has to start a       *)
(* hasher by hand, and retention need not run.                               *)
Fairness ==
  /\ \A l \in Logs : WF_allVars(Commit(l) /\ UNCHANGED retentionVars)
  /\ WF_allVars(HasherStep(Scheduled) /\ UNCHANGED retentionVars)
  /\ SF_allVars(Stamp(Scheduled) /\ UNCHANGED retentionVars)
  /\ WF_allVars(Age)
  /\ WF_allVars(Unflag)

Spec == RetentionInit /\ [][Next]_allVars /\ Fairness

-----------------------------------------------------------------------------
(* The watermark leaves no log behind that was visible when a run passed its *)
(* id: what has a digest below the mark has a campaign, unless its           *)
(* transaction committed late.  A crash, a second hasher, a refused write or *)
(* a deleted campaign between the steps of a run skips nothing.              *)
SkipsOnlyOvertaken ==
  \A l \in Visible :
    l <= watermark /\ l \notin blank /\ cluster[l] = None => l \in overtaken

(* Two campaigns whose representatives are within the threshold come from    *)
(* hashers that ran at the same time: one run, or two in sequence, never     *)
(* splits a campaign.                                                        *)
CampaignsApart ==
  \A b, c \in clusters :
    b # c /\ Near(rep[b], rep[c]) => b \in blind[c] \/ c \in blind[b]

(* What a campaign has counted is at least what belongs to it, so a campaign *)
(* is not hidden from the panel for a lost increment.                        *)
CountCoversMembers ==
  \A c \in clusters :
    count[c] >= Cardinality({l \in Logs : cluster[l] = c})
                + Cardinality({l \in Logs : fileCluster[l] = c})

(* A log that hashes is in the end in a campaign, or deleted. *)
GetsACampaign ==
  \A l \in Logs :
    row[l] = "visible" /\ l \notin blank \cup overtaken
      ~> cluster[l] # None \/ row[l] = "gone"

(* An old log that matches no rule loses its flag, as long as the logs that  *)
(* are kept do not fill a batch of the cleanup.                              *)
ReleasedIfRoom ==
  \A l \in Logs :
    [](Cardinality(old \cap suspicious \cap Matching) < BatchSize)
      => (l \in old \ Matching ~> l \notin suspicious)
=============================================================================
