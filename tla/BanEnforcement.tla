--------------------------- MODULE BanEnforcement ---------------------------
(***************************************************************************)
(* How a client gets banned and how the ban is enforced: the ip_stats rows *)
(* of the shared database, the answers of get_ban_info cached in Redis,    *)
(* the in-process set of BanCache, the middleware that reads all three,    *)
(* the request handlers that count visits and ban, the operator's          *)
(* overrides, the cleanup of expired bans and the deletion of rows.        *)
(*                                                                         *)
(* A request is a sequence of steps of a worker thread, cut wherever the   *)
(* code talks to the database or to Redis.  Time is relative: a row keeps  *)
(* the age of its ban, a cached answer the time it has left, and Tick      *)
(* moves both.                                                             *)
(***************************************************************************)
EXTENDS Integers, FiniteSets

CONSTANTS
  Pods, Ips, Refreshers, Scheduler, MaxBannedIps,   \* see BanCache
  Workers,            \* request threads
  PodOf,              \* PodOf[w]: the pod worker w runs in
  MaxPagesLimit,      \* max_pages_limit: visits before a ban
  BanDuration,        \* ban_duration_seconds, in ticks
  MaxBanExponent,     \* MAX_BAN_EXPONENT of database/core.py
  MaxBanMultiplier,   \* _MAX_BAN_MULTIPLIER of database/ip_stats.py, its mirror
  ShortTTL,           \* _REDIS_SHORT_TTL, in ticks
  Scalable,           \* TRUE: Redis is there; FALSE: standalone, caching is a no-op
  RedisFaults,        \* TRUE: a call to Redis may raise
  OperatorActions     \* what an operator may do from the dashboard

BanTimesAssumption ==
  /\ BanDuration \in Nat \ {0} /\ ShortTTL \in Nat \ {0}
  /\ MaxPagesLimit \in Nat /\ MaxBanExponent \in Nat /\ MaxBanMultiplier \in Nat
  /\ \A e \in 0 .. MaxBanExponent : 2 ^ e \in 1 .. MaxBanMultiplier
ASSUME BanTimesAssumption

Overrides == {"ban", "unban", "reset", "exempt", "unexempt"}

ActorsAssumption ==
  /\ PodOf \in [Workers -> Pods]
  /\ Scheduler \in Refreshers
  /\ OperatorActions \subseteq Overrides \cup {"purge"}
  /\ "none" \notin Ips
ASSUME ActorsAssumption

VARIABLES
  row,       \* row[ip]: the ban columns of ip's ip_stats row
  answer,    \* answer[ip]: the get_ban_info answer Redis holds for ip
  worker,    \* worker[w]: where the request of w stands
  operator,  \* operator[p]: the override request pod p is serving
  cleanup,   \* cleanup[p]: what pod p clears expired bans for, if it does
  expired,   \* expired[p]: the rows it read as expired
  banned, ready, reading, fetched, unseen, since   \* see BanCache

cacheVars == <<banned, ready, reading, fetched, unseen, since>>
vars == <<row, answer, worker, operator, cleanup, expired, cacheVars>>

-----------------------------------------------------------------------------
(* The row.  Visits and violations saturate where the code stops telling    *)
(* their values apart; the age of a ban saturates past the widest window.   *)
NoBan == -1
WidestWindow == BanDuration * MaxBanMultiplier
Ages == NoBan .. WidestWindow + 1
Violations == 0 .. MaxBanExponent + 1

NoRow ==
  [known |-> FALSE, visits |-> 0, violations |-> 0, age |-> NoBan,
   override |-> "auto", exempt |-> FALSE]

Rows ==
  [known : BOOLEAN, visits : 0 .. MaxPagesLimit, violations : Violations, age : Ages,
   override : {"auto", "ban", "unban"}, exempt : BOOLEAN]

AtMost(n, bound) == IF n > bound THEN bound ELSE n
Larger(m, n) == IF m > n THEN m ELSE n

(* A bug: the backoff before it was clamped. *)
UnclampedMultiplier(violations) == 2 ^ violations

(* _ban_multiplier_for: 2 ** min(max(violations - 1, 0), MAX_BAN_EXPONENT). *)
BanMultiplier(violations) == 2 ^ AtMost(Larger(violations - 1, 0), MaxBanExponent)

EffectiveDuration(r) == BanDuration * BanMultiplier(r.violations)

RemainingBan(r) == IF r.age = NoBan THEN 0 ELSE Larger(0, EffectiveDuration(r) - r.age)

(* What get_ban_info makes of a row: the override, then the exemption, then  *)
(* the time the ban has left.                                               *)
IsBanned(r) ==
  \/ r.override = "ban"
  \/ r.override = "auto" /\ ~r.exempt /\ RemainingBan(r) > 0

(* How long get_ban_info lets Redis keep its answer. *)
AnswerTTL(r) ==
  IF r.override = "ban" THEN BanDuration
  ELSE IF IsBanned(r) THEN Larger(RemainingBan(r), 1)
  ELSE ShortTTL

(* A bug: get_banned_ips without the forced bans. *)
TimeBansOnly(r) == r.age # NoBan /\ r.age <= WidestWindow

(* The predicate of get_banned_ips: wide on purpose. *)
MightBeBanned(r) ==
  \/ r.override = "ban"
  \/ r.age # NoBan /\ r.age <= WidestWindow

Listed == {ip \in Ips : MightBeBanned(row[ip])}

Cache == INSTANCE BanCache WITH listed <- Listed

(* Every write of rows; the history variables see the IPs it lists. *)
WriteRows(newRow) ==
  /\ row' = newRow
  /\ Cache!Overlooked({ip \in Ips : MightBeBanned(newRow[ip]) /\ ~MightBeBanned(row[ip])})

SameCache == UNCHANGED <<banned, ready, reading, fetched>>

-----------------------------------------------------------------------------
(* Redis. *)
NoAnswer == [ttl |-> 0, banned |-> FALSE]
Answers == [ttl : 0 .. Larger(WidestWindow, ShortTTL), banned : BOOLEAN]
Cached(ip) == answer[ip].ttl > 0

(* set_cached_short and delete_cached_short: no-ops in standalone mode. *)
SetAnswer(ip, verdict, ttl) ==
  answer' = [answer EXCEPT ![ip] = IF Scalable THEN [ttl |-> ttl, banned |-> verdict] ELSE @]

DeleteAnswer(ip) == answer' = [answer EXCEPT ![ip] = NoAnswer]

-----------------------------------------------------------------------------
(* A request.  `banned' and `ttl' are the answer get_ban_info computed and   *)
(* has not cached yet; the other fields are what a transaction read from the *)
(* row and will write.                                                      *)
Steps == {"idle", "lookup", "fill", "serve", "publish", "commit", "count"}
Kinds == {"none", "record", "touch", "increment"}

Requests ==
  [step : Steps, ip : Ips \cup {"none"}, kind : Kinds, verdict : BOOLEAN,
   ttl : 0 .. Larger(WidestWindow, ShortTTL), known : BOOLEAN,
   visits : 0 .. MaxPagesLimit, ban : BOOLEAN, violations : Violations]

Idle ==
  [step |-> "idle", ip |-> "none", kind |-> "none", verdict |-> FALSE, ttl |-> 0,
   known |-> FALSE, visits |-> 0, ban |-> FALSE, violations |-> 0]

At(ip, step) == [Idle EXCEPT !.ip = ip, !.step = step]

Goes(w, request) == worker' = [worker EXCEPT ![w] = request]

Pod(w) == PodOf[w]

(* A pod accepts requests and runs tasks once its startup cleanup is over. *)
Up(p) == cleanup[p] # "startup"

(* The middleware's fast path: a ready set that misses the IP is conclusive. *)
Begin(w, ip) ==
  /\ worker[w].step = "idle"
  /\ Up(Pod(w))
  /\ Goes(w, At(ip, IF ready[Pod(w)] /\ ip \notin banned[Pod(w)] THEN "serve" ELSE "lookup"))
  /\ UNCHANGED <<row, answer, operator, cleanup, expired, cacheVars>>

(* The answer of the ban check: 429, or on to the handler. *)
Decide(w, ip, verdict) == Goes(w, IF verdict THEN Idle ELSE At(ip, "serve"))

LookupCached(w) ==
  LET ip == worker[w].ip IN
  /\ worker[w].step = "lookup"
  /\ Cached(ip)
  /\ Decide(w, ip, answer[ip].banned)
  /\ UNCHANGED <<row, answer, operator, cleanup, expired, cacheVars>>

LookupRow(w) ==
  LET ip == worker[w].ip IN
  /\ worker[w].step = "lookup"
  /\ ~Cached(ip)
  /\ Goes(w, [At(ip, "fill") EXCEPT !.verdict = IsBanned(row[ip]), !.ttl = AnswerTTL(row[ip])])
  /\ UNCHANGED <<row, answer, operator, cleanup, expired, cacheVars>>

FillAnswer(w) ==
  LET ip == worker[w].ip IN
  /\ worker[w].step = "fill"
  /\ SetAnswer(ip, worker[w].verdict, worker[w].ttl)
  /\ Decide(w, ip, worker[w].verdict)
  /\ UNCHANGED <<row, operator, cleanup, expired, cacheVars>>

(* An error in the query, or in storing the answer, reads as "not banned". *)
LookupFails(w) ==
  /\ \/ worker[w].step = "lookup" /\ ~Cached(worker[w].ip)
     \/ worker[w].step = "fill" /\ Scalable /\ RedisFaults
  /\ Goes(w, At(worker[w].ip, "serve"))
  /\ UNCHANGED <<row, answer, operator, cleanup, expired, cacheVars>>

(* Redis raises.  Asked for the cached answer, the request fails; asked to     *)
(* forget it, record_access rolls its transaction back, while the ban of      *)
(* increment_page_visit is committed and stays unpublished.                   *)
RedisFails(w) ==
  /\ Scalable /\ RedisFaults
  /\ worker[w].step \in {"lookup", "publish"}
  /\ Goes(w, Idle)
  /\ UNCHANGED <<row, answer, operator, cleanup, expired, cacheVars>>

(* The transaction reads the row and computes what it will write.  `record'  *)
(* is record_access counting the visit, `touch' record_access not counting   *)
(* it, `increment' the separate increment_page_visit; only `record' treats a *)
(* limit of 0 as "never ban", and `increment' never bans a new row.          *)
Transaction(ip, kind) ==
  LET r == row[ip]
      visits == IF kind = "touch" THEN r.visits ELSE AtMost(r.visits + 1, MaxPagesLimit)
      ban == \/ kind = "record" /\ MaxPagesLimit > 0 /\ visits >= MaxPagesLimit
             \/ kind = "increment" /\ r.known /\ visits >= MaxPagesLimit
  IN  [At(ip, IF kind = "record" /\ ban THEN "publish" ELSE "commit") EXCEPT
         !.kind = kind, !.known = r.known, !.visits = visits, !.ban = ban,
         !.violations = IF ban THEN AtMost(r.violations + 1, MaxBanExponent + 1)
                        ELSE r.violations]

ReadRow(w) ==
  /\ \/ worker[w].step = "serve" /\ \E kind \in {"record", "touch"} :
           Goes(w, Transaction(worker[w].ip, kind))
     \/ worker[w].step = "count" /\ Goes(w, Transaction(worker[w].ip, "increment"))
  /\ UNCHANGED <<row, answer, operator, cleanup, expired, cacheVars>>

(* Where a request goes when its transaction is over: the routes that record *)
(* in a dependency are either done, or trap pages that count the visit now.  *)
Over(w) ==
  \/ Goes(w, Idle)
  \/ worker[w].kind = "touch" /\ Goes(w, At(worker[w].ip, "count"))

(* A first-seen IPv6 address that did nothing suspicious gets no row; a GET   *)
(* of a login path counts the visit all the same.                            *)
DeferRow(w) ==
  LET ip == worker[w].ip IN
  /\ worker[w].step = "serve"
  /\ ~row[ip].known
  /\ Goes(w, Idle) \/ Goes(w, At(ip, "count"))
  /\ UNCHANGED <<row, answer, operator, cleanup, expired, cacheVars>>

(* Make a ban known to the caches in front of the query.  _update_ip_stats   *)
(* does it before its transaction commits, increment_page_visit after.       *)
Publish(w) ==
  LET ip == worker[w].ip IN
  /\ worker[w].step = "publish"
  /\ DeleteAnswer(ip)
  /\ Cache!Add(Pod(w), ip)
  /\ Goes(w, IF worker[w].kind = "record" THEN [worker[w] EXCEPT !.step = "commit"] ELSE Idle)
  /\ UNCHANGED <<row, operator, cleanup, expired>>

(* The commit writes the columns the transaction changed, whatever others    *)
(* wrote since it read.  It fails when it inserts a row that exists by now   *)
(* or updates one that is gone.                                             *)
Written(w) ==
  LET t == worker[w]
      r == row[t.ip]
  IN  [r EXCEPT !.known = TRUE,
                !.visits = IF t.kind = "touch" THEN @ ELSE t.visits,
                !.violations = IF t.ban THEN t.violations ELSE @,
                !.age = IF t.ban THEN 0 ELSE @]

Commit(w) ==
  LET t == worker[w] IN
  /\ t.step = "commit"
  /\ t.known = row[t.ip].known
  /\ WriteRows([row EXCEPT ![t.ip] = Written(w)])
  /\ IF t.kind = "increment" /\ t.known /\ Written(w).age # NoBan
     THEN Goes(w, [t EXCEPT !.step = "publish"])
     ELSE Over(w)
  /\ SameCache
  /\ UNCHANGED <<answer, operator, cleanup, expired>>

(* An error in the transaction: rolled back, and the request goes on. *)
Rollback(w) ==
  /\ worker[w].step = "commit"
  /\ Over(w)
  /\ UNCHANGED <<row, answer, operator, cleanup, expired, cacheVars>>

Proceed(w) ==
  \/ LookupCached(w) \/ LookupRow(w) \/ FillAnswer(w) \/ LookupFails(w) \/ RedisFails(w)
  \/ ReadRow(w) \/ DeferRow(w) \/ Publish(w) \/ Commit(w) \/ Rollback(w)

-----------------------------------------------------------------------------
(* The operator: force_ban creates a missing row, the others need one.  The   *)
(* error is what the dashboard was last told.                                 *)
NoRequest == [ip |-> "none", ban |-> FALSE, error |-> FALSE]
Failed == [NoRequest EXCEPT !.error = TRUE]
Serving(p) == operator[p].ip # "none"

Overridden(r, action) ==
  CASE action = "ban" -> [r EXCEPT !.known = TRUE, !.override = "ban"]
    [] action = "unban" -> [r EXCEPT !.override = "unban"]
    [] action = "reset" -> [r EXCEPT !.override = "auto"]
    [] action = "exempt" -> [r EXCEPT !.exempt = TRUE]
    [] action = "unexempt" -> [r EXCEPT !.exempt = FALSE]

OperatorWrites(p, ip, action) ==
  /\ Up(p)
  /\ ~Serving(p)
  /\ row[ip].known \/ action = "ban"
  /\ WriteRows([row EXCEPT ![ip] = Overridden(@, action)])
  /\ operator' = [operator EXCEPT ![p] = [ip |-> ip, ban |-> action = "ban", error |-> FALSE]]
  /\ SameCache
  /\ UNCHANGED <<answer, worker, cleanup, expired>>

(* A bug: lifting a ban drops the IP from the set at once. *)
PublishDropsTheIp(p) ==
  LET ip == operator[p].ip IN
  /\ Serving(p)
  /\ DeleteAnswer(ip)
  /\ banned' = [banned EXCEPT ![p] = IF operator[p].ban THEN @ \cup {ip} ELSE @ \ {ip}]
  /\ operator' = [operator EXCEPT ![p] = NoRequest]
  /\ UNCHANGED <<row, worker, cleanup, expired, ready, reading, fetched, unseen, since>>

(* A bug: an override is published only when it bans. *)
PublishBansOnly(p) ==
  LET ip == operator[p].ip IN
  /\ Serving(p)
  /\ IF operator[p].ban THEN DeleteAnswer(ip) /\ Cache!Add(p, ip) ELSE UNCHANGED <<answer, cacheVars>>
  /\ operator' = [operator EXCEPT ![p] = NoRequest]
  /\ UNCHANGED <<row, worker, cleanup, expired>>

(* _publish_ban_change, and the deletion of set_timeout_exempt. *)
OperatorPublishes(p) ==
  LET ip == operator[p].ip IN
  /\ Serving(p)
  /\ DeleteAnswer(ip)
  /\ IF operator[p].ban THEN Cache!Add(p, ip) ELSE UNCHANGED cacheVars
  /\ operator' = [operator EXCEPT ![p] = NoRequest]
  /\ UNCHANGED <<row, worker, cleanup, expired>>

(* Redis raises where it should forget the answer: the override is committed *)
(* and unpublished, and the dashboard is told that the IP was not found.      *)
OperatorFails(p) ==
  /\ Scalable /\ RedisFaults
  /\ Serving(p)
  /\ operator' = [operator EXCEPT ![p] = Failed]
  /\ UNCHANGED <<row, answer, worker, cleanup, expired, cacheVars>>

-----------------------------------------------------------------------------
BanElapsed(r) == r.age # NoBan /\ r.age > EffectiveDuration(r)
Expired == {ip \in Ips : BanElapsed(row[ip])}

(* A pod dies, and starts again with the query of the startup cleanup. *)
Restart(p) ==
  /\ cleanup' = [cleanup EXCEPT ![p] = "startup"]
  /\ expired' = [expired EXCEPT ![p] = Expired]
  /\ worker' = [w \in Workers |-> IF Pod(w) = p THEN Idle ELSE worker[w]]
  /\ operator' = [operator EXCEPT ![p] = NoRequest]
  /\ Cache!Forget(p)
  /\ UNCHANGED <<row, answer>>

(* The purge task, started from the maintenance panel for the expired bans. *)
Purge(p) ==
  /\ "purge" \in OperatorActions
  /\ cleanup[p] = "none"
  /\ cleanup' = [cleanup EXCEPT ![p] = "purge"]
  /\ expired' = [expired EXCEPT ![p] = Expired]
  /\ UNCHANGED <<row, answer, worker, operator, cacheVars>>

(* clear_expired_bans commits: the rows it read as expired are cleared,        *)
(* whatever others wrote since.  If one of them is gone all is rolled back.   *)
ClearExpiredBans(p) ==
  /\ cleanup[p] # "none"
  /\ cleanup' = [cleanup EXCEPT ![p] = "none"]
  /\ expired' = [expired EXCEPT ![p] = {}]
  /\ IF \A ip \in expired[p] : row[ip].known
     THEN WriteRows([ip \in Ips |-> IF ip \in expired[p]
                                    THEN [row[ip] EXCEPT !.age = NoBan, !.visits = 0]
                                    ELSE row[ip]])
     ELSE UNCHANGED <<row, unseen, since>>
  /\ SameCache
  /\ UNCHANGED <<answer, worker, operator>>

(* Retention deletes the row of an IP not seen for longer than any time-ban  *)
(* lasts, its override included; the purge task deletes rows of any age.     *)
RowDeleted(ip) ==
  /\ row[ip].known
  /\ \E p \in Pods : Up(p)
  /\ row[ip].age = NoBan \/ BanElapsed(row[ip]) \/ "purge" \in OperatorActions
  /\ WriteRows([row EXCEPT ![ip] = NoRow])
  /\ SameCache
  /\ UNCHANGED <<answer, worker, operator, cleanup, expired>>

Older(r) == [r EXCEPT !.age = IF @ = NoBan THEN NoBan ELSE AtMost(@ + 1, WidestWindow + 1)]

Tick ==
  /\ WriteRows([ip \in Ips |-> Older(row[ip])])
  /\ answer' = [ip \in Ips |-> IF answer[ip].ttl > 1 THEN [answer[ip] EXCEPT !.ttl = @ - 1]
                                                    ELSE NoAnswer]
  /\ SameCache
  /\ UNCHANGED <<worker, operator, cleanup, expired>>

RefreshCache(p, r) ==
  /\ Up(p)
  /\ Cache!Refresh(p, r)
  /\ UNCHANGED <<row, answer, worker, operator, cleanup, expired>>

Init ==
  /\ row = [ip \in Ips |-> NoRow]
  /\ answer = [ip \in Ips |-> NoAnswer]
  /\ worker = [w \in Workers |-> Idle]
  /\ operator = [p \in Pods |-> NoRequest]
  /\ cleanup = [p \in Pods |-> "startup"]
  /\ expired = [p \in Pods |-> {}]
  /\ Cache!CacheInit

Next ==
  \/ \E w \in Workers, ip \in Ips : Begin(w, ip)
  \/ \E w \in Workers : Proceed(w)
  \/ \E p \in Pods, ip \in Ips, action \in OperatorActions \cap Overrides : OperatorWrites(p, ip, action)
  \/ \E p \in Pods : OperatorPublishes(p) \/ OperatorFails(p)
  \/ \E p \in Pods : Restart(p) \/ Purge(p) \/ ClearExpiredBans(p)
  \/ \E p \in Pods, r \in Refreshers : RefreshCache(p, r)
  \/ \E ip \in Ips : RowDeleted(ip)
  \/ Tick

Spec == Init /\ [][Next]_vars

TypeOK ==
  /\ row \in [Ips -> Rows]
  /\ answer \in [Ips -> Answers]
  /\ worker \in [Workers -> Requests]
  /\ operator \in [Pods -> [ip : Ips \cup {"none"}, ban : BOOLEAN, error : BOOLEAN]]
  /\ cleanup \in [Pods -> {"none", "startup", "purge"}]
  /\ expired \in [Pods -> SUBSET Ips]
  /\ Cache!TypeOK

-----------------------------------------------------------------------------
(* The fast path of the middleware never contradicts get_ban_info: an IP a   *)
(* ready set misses is one get_ban_info would let pass, unless its row was   *)
(* listed after the query the set was filled from.  The set is filled with   *)
(* a wide predicate and consulted ticks and overrides later.                 *)
FastPathSound ==
  \A p \in Pods, ip \in Ips :
    ready[p] /\ ip \notin banned[p] \cup unseen[p] => ~IsBanned(row[ip])

(* Rows, requests, overrides and restarts change the in-process sets and     *)
(* the list they are filled from only the way BanCache says.                 *)
ImplementsBanCache == Cache!Safety
=============================================================================
