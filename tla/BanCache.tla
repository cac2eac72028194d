------------------------------ MODULE BanCache ------------------------------
(***************************************************************************)
(* The in-process set of banned IPs (src/src/ban_cache.py) that lets the   *)
(* ban middleware skip the database, as one process of every pod keeps it. *)
(*                                                                         *)
(* The database is seen only through `listed', the answer its query        *)
(* get_banned_ips would give: the IPs that MIGHT be banned.  How a row     *)
(* comes to be listed is the business of BanEnforcement, which this module *)
(* is an abstraction of.                                                   *)
(*                                                                         *)
(* A refresh is two steps, because refresh() queries the database outside  *)
(* its lock and swaps the set afterwards; two refreshes of one process may *)
(* overlap, the scheduler's and one started from the maintenance panel.    *)
(***************************************************************************)
EXTENDS Naturals, FiniteSets

CONSTANTS
  Pods,          \* the replicas, one process each
  Ips,           \* the client addresses
  Refreshers,    \* the threads of a process that may run a refresh
  Scheduler,     \* the one among them that the scheduler runs
  MaxBannedIps   \* MAX_BANNED_IPS, the cap on the set

SchedulerAssumption == Scheduler \in Refreshers
ASSUME SchedulerAssumption

VARIABLES
  listed,    \* the IPs get_banned_ips would return now
  banned,    \* banned[p]: _banned, the set held by pod p
  ready,     \* ready[p]: _ready, whether that set may answer "not banned"
  reading,   \* reading[p]: the refreshers of p between their query and their swap
  fetched,   \* fetched[p][r]: what refresher r of p got from its query
  unseen,    \* history: the IPs listed since the query whose answer banned[p] is
  since      \* history: the IPs listed since refresher r of p queried

cacheVars == <<banned, ready, reading, fetched, unseen, since>>
vars == <<listed, cacheVars>>

TypeOK ==
  /\ listed \in SUBSET Ips
  /\ banned \in [Pods -> SUBSET Ips]
  /\ ready \in [Pods -> BOOLEAN]
  /\ reading \in [Pods -> SUBSET Refreshers]
  /\ fetched \in [Pods -> [Refreshers -> SUBSET Ips]]
  /\ unseen \in [Pods -> SUBSET Ips]
  /\ since \in [Pods -> [Refreshers -> SUBSET Ips]]

CacheInit ==
  /\ banned = [p \in Pods |-> {}]
  /\ ready = [p \in Pods |-> FALSE]
  /\ reading = [p \in Pods |-> {}]
  /\ fetched = [p \in Pods |-> [r \in Refreshers |-> {}]]
  /\ unseen = [p \in Pods |-> {}]
  /\ since = [p \in Pods |-> [r \in Refreshers |-> {}]]

Init ==
  /\ listed \in SUBSET Ips
  /\ CacheInit

-----------------------------------------------------------------------------
(* What the history variables record of IPs that enter the list. *)
Overlooked(new) ==
  /\ unseen' = [p \in Pods |-> unseen[p] \cup new]
  /\ since' = [p \in Pods |-> [r \in Refreshers |-> since[p][r] \cup new]]

(* The database changes under the caches: bans commit, expire, are lifted. *)
DbChanges ==
  \E now \in SUBSET Ips :
    /\ listed' = now
    /\ Overlooked(now \ listed)
    /\ UNCHANGED <<banned, ready, reading, fetched>>

(* A bug: add() without sanitize_ip. *)
AddUnsanitized(p, ip) ==
  /\ banned' = [banned EXCEPT ![p] = @ \cup {<<ip>>}]
  /\ UNCHANGED <<ready, reading, fetched, unseen, since>>

(* add(): a ban this process applies is put in its set at once. *)
Add(p, ip) ==
  /\ banned' = [banned EXCEPT ![p] = @ \cup {ip}]
  /\ UNCHANGED <<ready, reading, fetched, unseen, since>>

(* refresh(), up to the answer of the query. *)
RefreshRead(p, r) ==
  /\ r \notin reading[p]
  /\ reading' = [reading EXCEPT ![p] = @ \cup {r}]
  /\ fetched' = [fetched EXCEPT ![p][r] = listed]
  /\ since' = [since EXCEPT ![p][r] = {}]
  /\ UNCHANGED <<banned, ready, unseen>>

Finish(p, r) ==
  /\ r \in reading[p]
  /\ reading' = [reading EXCEPT ![p] = @ \ {r}]
  /\ fetched' = [fetched EXCEPT ![p][r] = {}]
  /\ since' = [since EXCEPT ![p][r] = {}]

(* A bug: the cap reached, the set kept and still trusted. *)
OverflowStillTrusted(p, r) ==
  /\ Finish(p, r)
  /\ Cardinality(fetched[p][r]) > MaxBannedIps
  /\ UNCHANGED <<banned, ready, unseen>>

(* refresh(), past the cap: the set is left alone and no longer trusted. *)
RefreshOverflow(p, r) ==
  /\ Finish(p, r)
  /\ Cardinality(fetched[p][r]) > MaxBannedIps
  /\ ready' = [ready EXCEPT ![p] = FALSE]
  /\ UNCHANGED <<banned, unseen>>

(* A bug: the query's answer cut at the cap, and trusted. *)
SwapTruncated(p, r) ==
  /\ Finish(p, r)
  /\ \E kept \in SUBSET fetched[p][r] :
       /\ Cardinality(kept) <= MaxBannedIps
       /\ banned' = [banned EXCEPT ![p] = kept]
  /\ ready' = [ready EXCEPT ![p] = TRUE]
  /\ unseen' = [unseen EXCEPT ![p] = since[p][r]]

(* refresh(), the swap: the whole set is replaced by the query's answer. *)
RefreshSwap(p, r) ==
  /\ Finish(p, r)
  /\ Cardinality(fetched[p][r]) <= MaxBannedIps
  /\ banned' = [banned EXCEPT ![p] = fetched[p][r]]
  /\ ready' = [ready EXCEPT ![p] = TRUE]
  /\ unseen' = [unseen EXCEPT ![p] = since[p][r]]

(* refresh() raising out of its query: the job fails, nothing is assigned. *)
RefreshFail(p, r) ==
  /\ Finish(p, r)
  /\ UNCHANGED <<banned, ready, unseen>>

(* The process dies and starts again with the module's initial values. *)
Forget(p) ==
  /\ banned' = [banned EXCEPT ![p] = {}]
  /\ ready' = [ready EXCEPT ![p] = FALSE]
  /\ reading' = [reading EXCEPT ![p] = {}]
  /\ fetched' = [fetched EXCEPT ![p] = [r \in Refreshers |-> {}]]
  /\ unseen' = [unseen EXCEPT ![p] = {}]
  /\ since' = [since EXCEPT ![p] = [r \in Refreshers |-> {}]]

Refresh(p, r) ==
  \/ RefreshRead(p, r)
  \/ RefreshOverflow(p, r)
  \/ RefreshSwap(p, r)
  \/ RefreshFail(p, r)

PodStep(p) ==
  \/ \E r \in Refreshers : Refresh(p, r)
  \/ \E ip \in Ips : Add(p, ip)
  \/ Forget(p)

Next ==
  \/ DbChanges
  \/ \E p \in Pods : PodStep(p) /\ UNCHANGED listed

(* What the scheduling justifies: the refresh job (every 30 s, and at start) *)
(* is started again for ever, and the database does not refuse every query.  *)
(* Nobody has to start a refresh from the panel, nor need it ever end.       *)
Answered(p, r) == (RefreshSwap(p, r) \/ RefreshOverflow(p, r)) /\ UNCHANGED listed

Fairness ==
  \A p \in Pods :
    /\ WF_vars(RefreshRead(p, Scheduler) /\ UNCHANGED listed)
    /\ SF_vars(Answered(p, Scheduler))

Safety == Init /\ [][Next]_vars

Spec == Safety /\ Fairness

-----------------------------------------------------------------------------
(* While the set may answer "not banned", every IP the database lists is in *)
(* it, except for IPs listed after the query the set was filled from: the   *)
(* window refresh_ban_cache.py describes, and nothing older.                *)
MissesOnlyTheWindow ==
  \A p \in Pods : ready[p] => listed \subseteq banned[p] \cup unseen[p]

(* An IP that stays listed is in the end in every set that may answer.      *)
BansSpread ==
  \A p \in Pods, ip \in Ips :
    <>[](ip \in listed) => <>[](ready[p] => ip \in banned[p])
=============================================================================
