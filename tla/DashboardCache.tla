--------------------------- MODULE DashboardCache ---------------------------
(***************************************************************************)
(* What the dashboard shows in scalable mode: the panels that any pod      *)
(* renders from Redis (src/src/dashboard_cache.py, src/src/routes/htmx.py, *)
(* src/src/routes/api.py), the task that warms them, and the writes that   *)
(* invalidate them.                                                        *)
(*                                                                         *)
(* An answer is kept under a key made of a tier and a panel.  Of its data  *)
(* only what its readers could complain about is kept: how long ago its    *)
(* rows, and the total printed with them, were read from the database, and *)
(* whether a write has come since.  Times are in ticks.                    *)
(***************************************************************************)
EXTENDS DashboardPanels, Integers

CONSTANTS
  Readers,    \* bound: the requests for a panel under way at the same time
  Panels,     \* bound: the panels asked for, some of AllPanels
  BlobTTL,    \* _REDIS_TTL
  TableTTL,   \* _REDIS_TABLE_TTL
  HotTTL,     \* _REDIS_SHORT_TTL
  MaxHeld     \* bound: how long a query, or the warm-up, holds what it has read

CacheAssumption ==
  /\ Panels \subseteq DOMAIN AllPanels
  /\ \A p \in DOMAIN AllPanels :
       AllPanels[p].warmed \subseteq AllPanels[p].tiers /\ AllPanels[p].tiers \subseteq AllTiers
  /\ {BlobTTL, TableTTL, HotTTL, MaxHeld} \subseteq Nat \ {0}
ASSUME CacheAssumption

Tiers == [p \in Panels |-> AllPanels[p].tiers]
Warmed == [p \in Panels |-> AllPanels[p].warmed]
Counted == {p \in Panels : AllPanels[p].counted}
Early == {p \in Panels : AllPanels[p].early}

VARIABLES
  entry,   \* entry[k]: what Redis has under key k, how long it lives on, and
           \* whether it was stored while an invalidation runs
  reader,  \* reader[r]: where request r stands, for which panel, with what data
  warmup,  \* the same of the task
  todo,    \* the panels it has still to query
  kept,    \* kept[p]: the blob of p that it has still to store
  write,   \* the operator's request: idle, committed, or invalidating
  scan     \* the keys the invalidation has still to drop

warmVars == <<warmup, todo, kept>>
writeVars == <<write, scan>>
cacheVars == <<entry, reader, warmVars, writeVars>>

-----------------------------------------------------------------------------
CountKey == <<"table", "count">>
StatsKey == <<"blob", "stats">>
Keys == (UNION {Tiers[p] \X {p} : p \in Panels}) \cup {CountKey, StatsKey}
TableKeys == {k \in Keys : k[1] = "table"}

TTL(k) == CASE k[1] = "table" -> TableTTL [] k[1] = "hot" -> HotTTL [] OTHER -> BlobTTL

(* Data read from the database: the age of its rows and of its total, and what *)
(* it misses: a write committed since, while its invalidation is under way, or *)
(* (lost) one that the invalidation should have shown.  What was on its way    *)
(* when the invalidation ended, or stored during it, is excused.               *)
Fresh == [rows |-> 0, total |-> 0, misses |-> "nothing"]
NoEntry == [left |-> 0, data |-> Fresh, during |-> FALSE]

(* Where a request or the task stands, for which panel, what it has read, and *)
(* how long the query, or the whole warm-up, has taken.                       *)
At(where, p) == [at |-> where, panel |-> p, data |-> Fresh, held |-> 0]
NoPanel == "none"
NoRequest == At("free", NoPanel)
Idle == At("idle", NoPanel)
NoData == [Fresh EXCEPT !.misses = "no data"]

Live(k) == entry[k].left > 0

CacheInit ==
  /\ entry = [k \in Keys |-> NoEntry]
  /\ reader = [r \in Readers |-> NoRequest]
  /\ warmup = Idle /\ todo = {} /\ kept = [p \in Panels |-> NoData]
  /\ write = "idle" /\ scan = {}

(* What the other tiers miss is not kept: no write drops them. *)
Unmarked(d) == [d EXCEPT !.misses = "nothing"]

(* The total of a list is its length. *)
Kept(k, d) ==
  CASE k[1] = "table" -> d
    [] k[1] = "agg" -> [Unmarked(d) EXCEPT !.total = d.rows]
    [] OTHER -> Unmarked(d)

(* setex, and the push of a list under its staging name. *)
Stored(keys, d) ==
  [k \in Keys |->
     IF k \in keys
     THEN [left |-> TTL(k), data |-> Kept(k, d), during |-> k \in TableKeys /\ write = "scan"]
     ELSE entry[k]]

-----------------------------------------------------------------------------
(* A query for panel p.  That of a counted panel takes its total from the     *)
(* table cache, or counts and stores what it counted, and then reads the rows *)
(* (get_all_ips_paginated); any other reads both at once.                     *)
Query(p) == At(IF p \in Counted THEN "count" ELSE "rows", p)

Advanced(q) ==
  CASE q.at = "count" /\ Live(CountKey) ->
         [q EXCEPT !.at = "rows", !.data = [entry[CountKey].data EXCEPT !.rows = 0]]
    [] q.at = "count" /\ ~Live(CountKey) -> [q EXCEPT !.at = "counted", !.data = Fresh]
    [] q.at = "counted" -> [q EXCEPT !.at = "rows"]
    [] q.at = "rows" /\ q.panel \in Counted -> [q EXCEPT !.at = "read", !.data.rows = 0]
    [] q.at = "rows" /\ q.panel \notin Counted -> [q EXCEPT !.at = "read", !.data = Fresh]

Querying(q) == q.at \in {"count", "counted", "rows"}
HasData(q) == Querying(q) \/ q.at = "read"

(* A bug: the total that is found is kept for another two minutes. *)
CountRenewed(q) ==
  IF q.at = "counted" THEN Stored({CountKey}, q.data)
  ELSE IF q.at = "count" /\ Live(CountKey) THEN [entry EXCEPT ![CountKey].left = TableTTL]
  ELSE entry

(* What the step of the query does to the cache. *)
CountStored(q) == IF q.at = "counted" THEN Stored({CountKey}, q.data) ELSE entry

-----------------------------------------------------------------------------
(* is_warm: the warm-up has come to its last stores. *)
IsWarm == Live(StatsKey)

(* An endpoint is asked for panel p. *)
Ask(r, p) ==
  /\ reader[r] = NoRequest
  /\ reader' = [reader EXCEPT ![r] =
       At(IF IsWarm /\ Tiers[p] \cap WarmTiers # {} THEN "warm" ELSE "table", p)]
  /\ UNCHANGED <<entry, warmVars, writeVars>>

(* It looks in the warmed tiers; what has expired since is_warm is not there. *)
LookWarm(r) ==
  LET p == reader[r].panel IN
  /\ reader[r].at = "warm"
  /\ reader' = [reader EXCEPT ![r] =
       IF \E t \in Tiers[p] \cap WarmTiers : Live(<<t, p>>) THEN NoRequest
       ELSE [@ EXCEPT !.at = "table"]]
  /\ UNCHANGED <<entry, warmVars, writeVars>>

(* It looks in the table or the hot cache, if it uses one, and else asks the *)
(* database.                                                                 *)
LookTable(r) ==
  LET p == reader[r].panel IN
  /\ reader[r].at = "table"
  /\ reader' = [reader EXCEPT ![r] =
       IF \E t \in Tiers[p] \ WarmTiers : Live(<<t, p>>) THEN NoRequest ELSE Query(p)]
  /\ UNCHANGED <<entry, warmVars, writeVars>>

ReaderQueries(r) ==
  /\ Querying(reader[r])
  /\ reader' = [reader EXCEPT ![r] = Advanced(@)]
  /\ entry' = CountStored(reader[r])
  /\ UNCHANGED <<warmVars, writeVars>>

(* The endpoint stores its answer, if it uses one of the two, and gives it. *)
Answer(r) ==
  LET p == reader[r].panel IN
  /\ reader[r].at = "read"
  /\ entry' = Stored({<<t, p>> : t \in Tiers[p] \ WarmTiers}, reader[r].data)
  /\ reader' = [reader EXCEPT ![r] = NoRequest]
  /\ UNCHANGED <<warmVars, writeVars>>

(* The database or Redis raises: the request fails. *)
ReaderFails(r) ==
  /\ reader[r] # NoRequest
  /\ reader' = [reader EXCEPT ![r] = NoRequest]
  /\ UNCHANGED <<entry, warmVars, writeVars>>

-----------------------------------------------------------------------------
(* The warm-up, main of dashboard_warmup.py: it queries the panels one after  *)
(* the other, stores their lists and pages as it goes, and keeps the blobs,   *)
(* which it stores at the end, after the one that is_warm looks for, but for  *)
(* those that follow their list.                                              *)
WarmUp ==
  /\ warmup = Idle
  /\ warmup' = At("next", NoPanel)
  /\ todo' = {p \in Panels : Warmed[p] # {}}
  /\ UNCHANGED <<entry, reader, kept, writeVars>>

WarmNext(p) ==
  /\ warmup.at = "next" /\ p \in todo
  /\ \A o \in Early : kept[o] = NoData
  /\ warmup' = [Query(p) EXCEPT !.held = warmup.held]
  /\ todo' = todo \ {p}
  /\ UNCHANGED <<entry, reader, kept, writeVars>>

WarmQueries ==
  /\ Querying(warmup)
  /\ warmup' = Advanced(warmup)
  /\ entry' = CountStored(warmup)
  /\ UNCHANGED <<reader, todo, kept, writeVars>>

(* set_cached_list and set_cached_table; a blob waits. *)
WarmStores ==
  LET p == warmup.panel IN
  /\ warmup.at = "read"
  /\ entry' = Stored({<<t, p>> : t \in Warmed[p] \ {"blob"}}, warmup.data)
  /\ warmup' = [At("next", NoPanel) EXCEPT !.held = warmup.held]
  /\ kept' = IF "blob" \in Warmed[p] THEN [kept EXCEPT ![p] = Unmarked(warmup.data)] ELSE kept
  /\ UNCHANGED <<reader, todo, writeVars>>

(* set_cached("stats", ...), and the blobs after it. *)
WarmStats ==
  /\ warmup.at = "next" /\ todo = {}
  /\ \A o \in Early : kept[o] = NoData
  /\ entry' = Stored({StatsKey}, Fresh)
  /\ warmup' = [warmup EXCEPT !.at = "blobs"]
  /\ UNCHANGED <<reader, todo, kept, writeVars>>

WarmBlob(p) ==
  /\ warmup.at = IF p \in Early THEN "next" ELSE "blobs"
  /\ kept[p] # NoData
  /\ entry' = Stored({<<"blob", p>>}, kept[p])
  /\ kept' = [kept EXCEPT ![p] = NoData]
  /\ UNCHANGED <<reader, warmup, todo, writeVars>>

(* It is done, or a query or a store raised, or its pod died. *)
WarmEnds ==
  /\ warmup # Idle
  /\ warmup' = Idle /\ todo' = {} /\ kept' = [p \in Panels |-> NoData]
  /\ UNCHANGED <<entry, reader, writeVars>>

-----------------------------------------------------------------------------
(* The data of a query, of all readers, of some entries, mapped by F. *)
InQuery(q, F(_)) == IF HasData(q) THEN [q EXCEPT !.data = F(@)] ELSE q

InReaders(F(_)) == [r \in Readers |-> InQuery(reader[r], F)]

InEntries(keys, F(_)) ==
  [k \in Keys |-> IF k \in keys /\ Live(k) THEN [entry[k] EXCEPT !.data = F(@)] ELSE entry[k]]

Missing(d) == IF d.misses = "nothing" THEN [d EXCEPT !.misses = "a write"] ELSE d
Excused(d) == IF d.misses = "a write" THEN Unmarked(d) ELSE d
Lost(d) == IF d.misses = "a write" THEN [d EXCEPT !.misses = "lost"] ELSE d

(* An operator overrides a ban, exempts or tracks an address, or a retention   *)
(* run deletes rows: the write commits,                                        *)
Commit ==
  /\ write = "idle"
  /\ write' = "committed"
  /\ entry' = InEntries(TableKeys, Missing)
  /\ reader' = InReaders(Missing) /\ warmup' = InQuery(warmup, Missing)
  /\ UNCHANGED <<todo, kept, scan>>

(* A bug: the totals are not among the keys that are dropped. *)
InvalidatePanels ==
  /\ write = "committed"
  /\ write' = "scan" /\ scan' = {k \in TableKeys \ {CountKey} : Live(k)}
  /\ UNCHANGED <<entry, reader, warmVars>>

(* and invalidate_table_cache scans the keys of the table cache.  It passes    *)
(* those that are there from beginning to end, in any order, and may not pass  *)
(* those stored meanwhile.                                                     *)
Invalidate ==
  /\ write = "committed"
  /\ write' = "scan" /\ scan' = {k \in TableKeys : Live(k)}
  /\ UNCHANGED <<entry, reader, warmVars>>

InvalidateKey(k) ==
  /\ write = "scan" /\ k \in scan
  /\ scan' = scan \ {k}
  /\ entry' = [entry EXCEPT ![k] = NoEntry]
  /\ UNCHANGED <<reader, warmVars, write>>

Settled(entries) == [k \in Keys |-> [entries[k] EXCEPT !.during = FALSE]]

Invalidated ==
  /\ write = "scan" /\ scan = {}
  /\ write' = "idle"
  /\ reader' = InReaders(Excused) /\ warmup' = InQuery(warmup, Excused)
  /\ entry' = Settled([k \in Keys |->
       IF k \notin TableKeys THEN entry[k]
       ELSE [entry[k] EXCEPT !.data = IF entry[k].during THEN Excused(@) ELSE Lost(@)]])
  /\ UNCHANGED <<todo, kept, scan>>

(* Redis raises, or the pod dies: the write is committed all the same. *)
InvalidationFails ==
  /\ write # "idle"
  /\ write' = "idle" /\ scan' = {}
  /\ entry' = Settled(entry)
  /\ UNCHANGED <<reader, warmVars>>

-----------------------------------------------------------------------------
Older(d) == [d EXCEPT !.rows = @ + 1, !.total = @ + 1]

(* Time passes.  No query and no warm-up lasts longer than MaxHeld. *)
CacheTick ==
  LET UnderWay(q) == q.at \notin {"free", "idle", "warm", "table"}
      Later(q) == IF UnderWay(q) THEN [InQuery(q, Older) EXCEPT !.held = @ + 1] ELSE q
      aged == InEntries(Keys, Older)
  IN  /\ \A r \in Readers : UnderWay(reader[r]) => reader[r].held < MaxHeld
      /\ UnderWay(warmup) => warmup.held < MaxHeld
      /\ entry' = [k \in Keys |-> IF entry[k].left <= 1 THEN NoEntry
                                  ELSE [aged[k] EXCEPT !.left = @ - 1]]
      /\ reader' = [r \in Readers |-> Later(reader[r])]
      /\ warmup' = Later(warmup)
      /\ kept' = [p \in Panels |-> IF kept[p] = NoData THEN NoData ELSE Older(kept[p])]
      /\ UNCHANGED <<todo, writeVars>>

CacheNext ==
  \/ \E r \in Readers :
       \/ \E p \in Panels : Ask(r, p)
       \/ LookWarm(r) \/ LookTable(r) \/ ReaderQueries(r) \/ Answer(r) \/ ReaderFails(r)
  \/ WarmUp \/ WarmQueries \/ WarmStores \/ WarmStats \/ WarmEnds
  \/ \E p \in Panels : WarmNext(p) \/ WarmBlob(p)
  \/ Commit \/ Invalidate \/ Invalidated \/ InvalidationFails
  \/ \E k \in TableKeys : InvalidateKey(k)
  \/ CacheTick

CacheSpec == CacheInit /\ [][CacheNext]_cacheVars

-----------------------------------------------------------------------------
(* A write that is committed and whose invalidation is done shows in every     *)
(* page and total of the table cache, but for those that were fetched or       *)
(* stored while it was under way (src/src/database/ip_stats.py:1041).          *)
WritesShow == \A k \in TableKeys : Live(k) => entry[k].data.misses # "lost"

(* What a panel shows was read from the database no longer ago than its key    *)
(* lives and a query takes.  A total may be older: it may have lived for as    *)
(* long under its own key, with the query that counted it, before the query    *)
(* that printed it (src/src/database/ip_stats.py:1041).                        *)
NeverOlder ==
  \A k \in Keys \ {StatsKey} : Live(k) =>
    LET since == TTL(k) - entry[k].left + MaxHeld
    IN  /\ entry[k].data.rows <= since
        /\ entry[k].data.total <=
             since + (IF k = CountKey \/ k[1] = "agg" \/ k[2] \notin Counted THEN 0
                      ELSE TableTTL + MaxHeld)
=============================================================================
