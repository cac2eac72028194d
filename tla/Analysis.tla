------------------------------ MODULE Analysis ------------------------------
(***************************************************************************)
(* The analyze-ips task (src/src/tasks/analyze_ips.py): every minute the   *)
(* addresses that need it are scored from their requests and put in a      *)
(* category (src/src/database/ip_stats.py).  Requests ask for a new        *)
(* analysis, and so does flag-stale-ips after five days                    *)
(* (src/src/tasks/flag_stale_ips.py); an operator may set a category by    *)
(* hand.                                                                   *)
(*                                                                         *)
(* Requests are members of Logs with the features the analysis looks at.   *)
(* It looks at the newest rows of the last thirty days only.  The category *)
(* history, a row per change, is not modelled, nor that retention deletes  *)
(* single requests of an address that stays.  The weights of the signals   *)
(* are those wordlists.json ships, and some attack pattern is configured.  *)
(***************************************************************************)
EXTENDS Integers, Sequences, FiniteSets, FiniteSetsExt, SequencesExt

CONSTANTS
  Ips,         \* bound: the addresses that send requests, numbers
  Logs,        \* bound: the requests
  MaySend,     \* bound: MaySend[i]: those that may come from i
  AttackPatterns, \* the names in attack_patterns of wordlists.json
  Feature,     \* Feature[l]: what a request shows: risky method, path in robots.txt,
               \* user agent, the attack patterns in its path, and is_suspicious
  RiskyPercent, RobotsPercent, AgentsThreshold, AttackUrlsThreshold,
               \* the thresholds of config.yaml
  MaxAccesses, \* how many requests an analysis reads at most
  Analysts,    \* the threads that may run the task, of any pod
  Scheduled,   \* the one the scheduler runs
  MaxIps,      \* MAX_IPS_PER_RUN
  MaxEvents,   \* bound: how often in all a run is started by hand or dies, a commit
               \* fails, a request or an address gets too old, or a category is set
               \* by hand
  None         \* no category (NULL)

AnalysisAssumption ==
  /\ Ips \in SUBSET Nat /\ IsFiniteSet(Ips) /\ None \notin Ips
  /\ MaySend \in [Ips -> SUBSET Logs]
  /\ IsFiniteSet(Logs) /\ IsFiniteSet(AttackPatterns)
  /\ Feature \in [Logs -> [risky : BOOLEAN, robots : BOOLEAN, agent : Nat,
                           attacks : SUBSET AttackPatterns, suspicious : BOOLEAN]]
  /\ {RiskyPercent, RobotsPercent, AgentsThreshold, AttackUrlsThreshold, MaxEvents} \subseteq Nat
  /\ Scheduled \in Analysts /\ {MaxIps, MaxAccesses} \subseteq Nat \ {0}
ASSUME AnalysisAssumption

VARIABLES
  rows,      \* the addresses with a row in ip_stats
  category, manual, flag, \* category, manual_category and need_reevaluation of a row
  order,     \* the rows that were analysed, the oldest last_analysis first
  aged,      \* the first of them, whose last_analysis is more than five days ago
  ipOf,      \* ipOf[l]: who sent request l, or None
  later,     \* later[l]: the requests of the same address that came after l
  stored,    \* the requests in access_logs; the others wait in a write buffer
  dated,     \* the requests that are more than thirty days old
  burst,     \* the addresses whose requests in the timing window carry one timestamp
  pc,        \* pc[a]: where analyst a is
  batch,     \* batch[a]: the addresses it still has to analyse
  read,      \* read[a]: the requests of the first of them that it read
  verdict,   \* verdict[a]: the category it inferred from them
  loaded,    \* loaded[a]: the row as it loaded it
  events,    \* how many of the events that MaxEvents bounds there were
  considered \* history: the requests some committed analysis was based on

rowVars == <<rows, category, manual, flag, order, aged>>
logVars == <<ipOf, later, stored, dated, burst>>
analystVars == <<pc, batch, read, verdict, loaded>>
vars == <<rowVars, logVars, analystVars, events, considered>>

Categories == <<"attacker", "good_crawler", "bad_crawler", "regular_user">>
NoRow == [exists |-> FALSE, category |-> None, flag |-> FALSE]

TypeOK ==
  /\ rows \in SUBSET Ips
  /\ category \in [Ips -> ToSet(Categories) \cup {None}]
  /\ manual \in [Ips -> BOOLEAN] /\ flag \in [Ips -> BOOLEAN]
  /\ order \in Seq(rows) /\ IsInjective(order) /\ aged \subseteq ToSet(order)
  /\ ipOf \in [Logs -> Ips \cup {None}] /\ later \in [Logs -> SUBSET Logs]
  /\ stored \in SUBSET Logs /\ dated \in SUBSET Logs /\ burst \in SUBSET Ips
  /\ pc \in [Analysts -> {"idle", "read", "load", "commit"}]
  /\ batch \in [Analysts -> Seq(Ips)] /\ \A a \in Analysts : Len(batch[a]) <= MaxIps
  /\ read \in [Analysts -> SUBSET Logs]
  /\ verdict \in [Analysts -> ToSet(Categories) \cup {None}]
  /\ loaded \in [Analysts -> [exists : BOOLEAN, category : ToSet(Categories) \cup {None}, flag : BOOLEAN]]
  /\ events \in 0 .. MaxEvents
  /\ considered \in SUBSET Logs

Init ==
  /\ rows = {} /\ category = [i \in Ips |-> None]
  /\ manual = [i \in Ips |-> FALSE] /\ flag = [i \in Ips |-> FALSE]
  /\ order = <<>> /\ aged = {}
  /\ ipOf = [l \in Logs |-> None] /\ later = [l \in Logs |-> {}]
  /\ stored = {} /\ dated = {} /\ burst = {}
  /\ pc = [a \in Analysts |-> "idle"] /\ batch = [a \in Analysts |-> <<>>]
  /\ read = [a \in Analysts |-> {}] /\ verdict = [a \in Analysts |-> None]
  /\ loaded = [a \in Analysts |-> NoRow]
  /\ events = 0 /\ considered = {}

Event == events < MaxEvents /\ events' = events + 1
Goto(a, where) == pc' = [pc EXCEPT ![a] = where]
Analysed == ToSet(order)

-----------------------------------------------------------------------------
(* The signals of a set of requests and what each is worth to a category.   *)

Percent(part, whole) == (100 * Cardinality(part)) \div Cardinality(whole)

(* The attack patterns found in some request, each counted once. *)
AttacksIn(ls) == UNION {Feature[l].attacks : l \in ls}

(* Whether the times between the requests of the last minutes vary is data:  *)
(* uneven says so.                                                           *)
Signals(ls, uneven) ==
  [risky  |-> /\ 100 * Cardinality(ls) > RiskyPercent
              /\ Percent({l \in ls : Feature[l].risky}, ls) >= RiskyPercent,
   robots |-> Percent({l \in ls : Feature[l].robots}, ls) >= RobotsPercent,
   uneven |-> uneven,
   agents |-> Cardinality({Feature[l].agent : l \in ls}) >= AgentsThreshold,
   attack |-> Cardinality(AttacksIn(ls)) >= AttackUrlsThreshold]

(* A bug: the weight of an attack is that of a mid signal. *)
LightWeights(c) ==
  CASE c = "attacker"     -> [risky |-> 6, robots |-> 4, uneven |-> 3, agents |-> 2, attack |-> 5]
    [] c = "good_crawler" -> [risky |-> 1, robots |-> 0, uneven |-> 0, agents |-> 0, attack |-> 0]
    [] c = "bad_crawler"  -> [risky |-> 2, robots |-> 6, uneven |-> 0, agents |-> 6, attack |-> 4]
    [] c = "regular_user" -> [risky |-> 0, robots |-> 0, uneven |-> 8, agents |-> 3, attack |-> 0]

Weights(c) ==
  CASE c = "attacker"     -> [risky |-> 6, robots |-> 4, uneven |-> 3, agents |-> 2, attack |-> 15]
    [] c = "good_crawler" -> [risky |-> 1, robots |-> 0, uneven |-> 0, agents |-> 0, attack |-> 0]
    [] c = "bad_crawler"  -> [risky |-> 2, robots |-> 6, uneven |-> 0, agents |-> 6, attack |-> 4]
    [] c = "regular_user" -> [risky |-> 0, robots |-> 0, uneven |-> 8, agents |-> 3, attack |-> 0]

(* The signals that count for a category. *)
CountsFor(c, s) ==
  CASE c = "attacker"     -> {k \in DOMAIN s : s[k]}
    [] c = "good_crawler" -> IF s.risky THEN {} ELSE {"risky"}
    [] c = "bad_crawler"  -> {k \in {"risky", "robots", "agents"} : s[k]}
    [] c = "regular_user" -> {k \in {"uneven"} : s[k]}

Score(c, s) ==
  LET Worth(k) == IF k \in CountsFor(c, s) THEN Weights(c)[k] ELSE 0
  IN  Worth("risky") + Worth("robots") + Worth("uneven") + Worth("agents") + Worth("attack")

(* max() over the scores: the first category that has the largest. *)
Best(s) ==
  LET scores == [k \in DOMAIN Categories |-> Score(Categories[k], s)]
  IN  Categories[Min({k \in DOMAIN scores : \A j \in DOMAIN scores : scores[j] <= scores[k]})]

Verdict ==
  [uneven \in BOOLEAN |-> [ls \in (SUBSET Logs) \ {{}} |-> Best(Signals(ls, uneven))]]

-----------------------------------------------------------------------------
(* A request of i: its row is counted up or made, and wants an analysis when *)
(* the request is suspicious; the request itself goes to access_logs later   *)
(* in scalable mode.                                                         *)
Request(i, l) ==
  /\ ipOf[l] = None
  /\ rows' = rows \cup {i}
  /\ flag' = IF Feature[l].suspicious THEN [flag EXCEPT ![i] = TRUE] ELSE flag
  /\ ipOf' = [ipOf EXCEPT ![l] = i]
  /\ later' = [m \in Logs |-> IF ipOf[m] = i THEN later[m] \cup {l} ELSE later[m]]
  /\ burst' \in {burst \ {i}} \cup {burst \cup {i} : k \in {m \in Logs \ dated : ipOf[m] = i}}
  /\ UNCHANGED <<category, manual, order, aged, stored, dated, analystVars, events, considered>>

(* The flush inserts it. *)
Store(l) ==
  /\ ipOf[l] # None /\ l \notin stored
  /\ stored' = stored \cup {l}
  /\ UNCHANGED <<rowVars, ipOf, later, dated, burst, analystVars, events, considered>>

(* Time passes: the requests of i leave the timing window ... *)
Calm(i) ==
  /\ i \in burst
  /\ burst' = burst \ {i}
  /\ UNCHANGED <<rowVars, ipOf, later, stored, dated, analystVars, events, considered>>

(* ... the oldest request of an address, and not one of a burst, leaves the  *)
(* thirty days that an analysis looks back ...                               *)
Outdate(l) ==
  /\ ipOf[l] # None /\ l \notin dated /\ \A m \in Logs : l \in later[m] => m \in dated
  /\ ipOf[l] \in burst => Cardinality(later[l]) > 1
  /\ Event
  /\ dated' = dated \cup {l}
  /\ UNCHANGED <<rowVars, ipOf, later, stored, burst, analystVars, considered>>

(* ... and the oldest analysis that was not is five days old. *)
Age ==
  /\ \E n \in DOMAIN order :
       /\ order[n] \notin aged /\ \A m \in 1 .. n - 1 : order[m] \in aged
       /\ aged' = aged \cup {order[n]}
  /\ UNCHANGED <<rows, category, manual, flag, order, logVars, analystVars, events, considered>>

(* Retention: an address none of whose requests is suspicious goes with them. *)
Retire(i) ==
  LET mine == {l \in Logs : ipOf[l] = i}
  IN  /\ i \in rows /\ mine \subseteq stored /\ \A l \in mine : ~Feature[l].suspicious
      /\ Event
      /\ rows' = rows \ {i}
      /\ category' = [category EXCEPT ![i] = None]
      /\ manual' = [manual EXCEPT ![i] = FALSE] /\ flag' = [flag EXCEPT ![i] = FALSE]
      /\ order' = RemoveFirst(order, i) /\ aged' = aged \ {i}
      /\ ipOf' = [l \in Logs |-> IF l \in mine THEN None ELSE ipOf[l]]
      /\ later' = [l \in Logs |-> IF l \in mine THEN {} ELSE later[l]]
      /\ stored' = stored \ mine /\ dated' = dated \ mine /\ burst' = burst \ {i}
      /\ considered' = considered \ mine
      /\ UNCHANGED analystVars

(* manual_update_category. *)
ManualUpdate(i, c) ==
  /\ i \in rows
  /\ Event
  /\ category' = [category EXCEPT ![i] = c]
  /\ manual' = [manual EXCEPT ![i] = TRUE]
  /\ UNCHANGED <<rows, flag, order, aged, logVars, analystVars, considered>>

(* A bug: the update does not spare the addresses set by hand. *)
FlagAllStale ==
  LET stale == {i \in aged : ~flag[i]}
  IN  /\ stale # {}
      /\ flag' = [i \in Ips |-> flag[i] \/ i \in stale]
      /\ UNCHANGED <<rows, category, manual, order, aged, logVars, analystVars, events, considered>>

(* A bug: the filter on the flag is Python's `not`, which is false for a column. *)
FlagNothing ==
  LET stale == {i \in aged : FALSE /\ ~manual[i]}
  IN  /\ stale # {}
      /\ flag' = [i \in Ips |-> flag[i] \/ i \in stale]
      /\ UNCHANGED <<rows, category, manual, order, aged, logVars, analystVars, events, considered>>

(* flag_stale_ips_for_reevaluation. *)
FlagStale ==
  LET stale == {i \in aged : ~flag[i] /\ ~manual[i]}
  IN  /\ stale # {}
      /\ flag' = [i \in Ips |-> flag[i] \/ i \in stale]
      /\ UNCHANGED <<rows, category, manual, order, aged, logVars, analystVars, events, considered>>

-----------------------------------------------------------------------------
Needs(i) == i \in rows /\ (flag[i] \/ i \notin Analysed)

(* A bug: the batch is the head of the sorted addresses. *)
ByAddress == {SetToSortSeq({i \in rows : Needs(i)}, <)}

(* get_ips_needing_reevaluation: those never analysed first (the order of     *)
(* their last requests is not modelled), then the oldest analyses.            *)
MayPrecede(i, j) ==
  i \notin Analysed \/ \E m, n \in DOMAIN order : m < n /\ order[m] = i /\ order[n] = j

Queues ==
  {queue \in SetToSeqs({i \in rows : Needs(i)}) :
     \A m, n \in DOMAIN queue : m < n => MayPrecede(queue[m], queue[n])}

SelectBatch(a) ==
  /\ pc[a] = "idle"
  /\ \E i \in rows : Needs(i)
  /\ IF a = Scheduled THEN UNCHANGED events ELSE Event
  /\ \E queue \in Queues :
       /\ batch' = [batch EXCEPT ![a] = SubSeq(queue, 1, Min({MaxIps, Len(queue)}))]
  /\ Goto(a, "read")
  /\ UNCHANGED <<rowVars, logVars, read, verdict, loaded, considered>>

First(a) == Head(batch[a])

(* get_list: the rows of the last thirty days, newest first, up to a limit.  *)
(* Of two with one timestamp the one that came last counts as the newest.    *)
InReach(l) ==
  l \in stored \ dated /\ Cardinality(later[l] \cap (stored \ dated)) < MaxAccesses

Accesses(a) == {l \in Logs : ipOf[l] = First(a) /\ InReach(l)}

(* The run goes on to the next address of its batch, or is over. *)
NextIp(a) ==
  /\ batch' = [batch EXCEPT ![a] = Tail(@)]
  /\ Goto(a, IF Len(batch[a]) = 1 THEN "idle" ELSE "read")
  /\ read' = [read EXCEPT ![a] = {}]
  /\ verdict' = [verdict EXCEPT ![a] = None]
  /\ loaded' = [loaded EXCEPT ![a] = NoRow]

(* last_analysis of i is now. *)
Stamp(i) ==
  /\ order' = Append(RemoveFirst(order, i), i)
  /\ aged' = aged \ {i}

(* mark_analysed: nothing to score, but the flag has to clear. *)
MarkAnalysed(a) ==
  /\ pc[a] = "read" /\ Accesses(a) = {}
  /\ IF First(a) \in rows
     THEN Stamp(First(a)) /\ flag' = [flag EXCEPT ![First(a)] = FALSE]
     ELSE UNCHANGED <<order, aged, flag>>
  /\ NextIp(a)
  /\ UNCHANGED <<rows, category, manual, logVars, events, considered>>

(* The requests are read and scored.  One interval alone does not vary. *)
Analyse(a) ==
  /\ pc[a] = "read" /\ Accesses(a) # {}
  /\ read' = [read EXCEPT ![a] = Accesses(a)]
  /\ \E uneven \in IF Cardinality(Accesses(a)) > 2 THEN BOOLEAN ELSE {FALSE} :
       verdict' = [verdict EXCEPT ![a] = Verdict[uneven][Accesses(a)]]
  /\ Goto(a, "load")
  /\ UNCHANGED <<rowVars, logVars, batch, loaded, events, considered>>

Stop(a) ==
  /\ Goto(a, "idle")
  /\ batch' = [batch EXCEPT ![a] = <<>>] /\ read' = [read EXCEPT ![a] = {}]
  /\ verdict' = [verdict EXCEPT ![a] = None] /\ loaded' = [loaded EXCEPT ![a] = NoRow]
  /\ UNCHANGED <<rowVars, logVars, considered>>

(* The intervals in the window are all zero: the division by their mean ends *)
(* the run, and with it the rest of the batch.                               *)
Raise(a) ==
  /\ pc[a] = "read" /\ Cardinality(Accesses(a)) > 1 /\ First(a) \in burst
  /\ Stop(a)
  /\ UNCHANGED events

(* The pod dies. *)
Die(a) ==
  /\ pc[a] # "idle"
  /\ Event
  /\ Stop(a)

(* update_ip_stats_analysis loads the row ... *)
LoadRow(a) ==
  /\ pc[a] = "load"
  /\ loaded' = [loaded EXCEPT ![a] =
       IF First(a) \in rows
       THEN [exists |-> TRUE, category |-> category[First(a)], flag |-> flag[First(a)]]
       ELSE NoRow]
  /\ Goto(a, "commit")
  /\ UNCHANGED <<rowVars, logVars, batch, read, verdict, events, considered>>

(* ... and writes the columns it changed, or a row when there was none.       *)
CommitRow(a) ==
  LET i == First(a) IN
  /\ pc[a] = "commit" /\ loaded[a].exists = (i \in rows)
  /\ rows' = rows \cup {i}
  /\ category' = IF verdict[a] = loaded[a].category THEN category
                 ELSE [category EXCEPT ![i] = verdict[a]]
  /\ flag' = IF loaded[a].flag THEN [flag EXCEPT ![i] = FALSE] ELSE flag
  /\ Stamp(i)
  /\ considered' = considered \cup (read[a] \cap stored)
  /\ NextIp(a)
  /\ UNCHANGED <<manual, logVars, events>>

(* An error at the commit is logged and the run goes on: the row was deleted  *)
(* or made meanwhile, or the database fails.                                  *)
CommitFails(a) ==
  /\ pc[a] = "commit"
  /\ IF loaded[a].exists = (First(a) \in rows) THEN Event ELSE UNCHANGED events
  /\ NextIp(a)
  /\ UNCHANGED <<rowVars, logVars, considered>>

AnalystStep(a) ==
  \/ SelectBatch(a)
  \/ MarkAnalysed(a) \/ Analyse(a) \/ Raise(a)
  \/ LoadRow(a) \/ CommitRow(a) \/ CommitFails(a)

Next ==
  \/ \E i \in Ips : \E l \in MaySend[i] : Request(i, l)
  \/ \E l \in Logs : Store(l) \/ Outdate(l)
  \/ \E i \in Ips : Calm(i) \/ Retire(i)
  \/ Age
  \/ \E i \in Ips, c \in ToSet(Categories) : ManualUpdate(i, c)
  \/ FlagStale
  \/ \E a \in Analysts : AnalystStep(a) \/ Die(a)

CanStep(a) == pc[a] # "idle" \/ \E i \in rows : Needs(i)

(* The flush and both tasks are scheduled, and time passes.  Nobody has to    *)
(* send a request, set a category or start a run by hand.  The last conjunct  *)
(* is weak fairness of AnalystStep(Scheduled), with what enables it written   *)
(* out.                                                                       *)
Fairness ==
  /\ WF_vars(\E l \in Logs : Store(l)) /\ WF_vars(\E i \in Ips : Calm(i)) /\ WF_vars(Age)
  /\ WF_vars(FlagStale)
  /\ []<>(~CanStep(Scheduled)) \/ []<><<AnalystStep(Scheduled)>>_vars

Spec == Init /\ [][Next]_vars /\ Fairness

-----------------------------------------------------------------------------
(* As many attack patterns as the configured threshold, in whichever of the   *)
(* requests that were read, outweigh all else the address does: its verdict   *)
(* is "attacker", the other categories never reach their weight.              *)
AttackDecides ==
  \A a \in Analysts :
    pc[a] \in {"load", "commit"} /\ Cardinality(AttacksIn(read[a])) >= AttackUrlsThreshold
      => verdict[a] = "attacker"

(* A category set by hand, on an address that is not waiting for an analysis, *)
(* stays until the operator changes it, a suspicious request asks for a new   *)
(* analysis, or the row goes: the sweep over stale addresses spares it.       *)
Settled(i) ==
  i \in rows /\ manual[i] /\ ~Needs(i) /\ \A a \in Analysts : i \notin ToSet(batch[a])

ManualSticks ==
  [][\A i \in Ips : Settled(i) =>
       /\ category'[i] = category[i] \/ i \notin rows'
          \/ \E c \in ToSet(Categories) : ManualUpdate(i, c)
       /\ Settled(i)' \/ i \notin rows'
          \/ \E l \in MaySend[i] : Feature[l].suspicious /\ Request(i, l)]_vars

(* Every stored request is in the end part of an analysis, though it reached  *)
(* access_logs after the analysis it had asked for, or came while that one    *)
(* was clearing the flag; unless it falls out of what an analysis reads (the  *)
(* newest MaxAccesses rows of thirty days), is deleted, or its address is set *)
(* by hand.                                                                   *)
LogsGetAnalysed ==
  \A l \in Logs :
    l \in stored ~> l \in considered \/ ~InReach(l) \/ manual[ipOf[l]]

(* With more addresses than a run takes, each one's turn comes. *)
NothingStarves == \A i \in Ips : Needs(i) ~> ~Needs(i)
=============================================================================
