-------------------------- MODULE CloudflareConfig --------------------------
(***************************************************************************)
(* The banlist that Krawl keeps at Cloudflare, and the document it keeps    *)
(* about it (src/src/webhooks.py, src/src/tasks/sync_cloudflare.py, the     *)
(* cloudflare routes of src/src/routes/api.py).                             *)
(*                                                                          *)
(* Everybody reads the whole document, works, and writes the whole document *)
(* back, while the others do the same: the scheduled sync, one started from *)
(* the panel, and the handlers that save or delete the configuration, which *)
(* the event loop runs one at a time.  A lock guards each read and each     *)
(* write, not what is between them.                                         *)
(*                                                                          *)
(* Of the document there is what steers a sync; a list has the configured   *)
(* name, which Cloudflare keeps unique in an account.  Credentials from the *)
(* environment are left out.                                                *)
(***************************************************************************)
EXTENDS Integers, FiniteSets

CONSTANTS
  Procs,      \* those that may sync: the scheduler's thread and the event loop
  Web,        \* the event loop, which alone saves and deletes the document
  Accounts,
  ListIds,    \* bound: the ids of lists that are around at a time
  Ips,
  TimedOut,   \* the addresses that are banned for a time, by another query
  MaxEvents,  \* bound: what the operator, Cloudflare and faults do in all
  None        \* no account, no list

CloudflareAssumption ==
  /\ Web \in Procs /\ TimedOut \subseteq Ips /\ MaxEvents \in Nat
  /\ None \notin Accounts \cup ListIds
ASSUME CloudflareAssumption

VARIABLES
  doc,    \* data/webhooks.json: enabled, account, list
  proc,   \* proc[p]: where p is, the document it holds, the one it loaded to put
          \* an id into, the addresses to push, the list id, and if it is retrying
  remote, \* remote[a]: the list of the account: id and items
  rules,  \* the WAF rules of the zone: ours, and those of others
  bans,   \* the public addresses that are banned
  events,
  deleted, \* history: the document was deleted, and nobody was at work on it
  unread  \* history: a rule that p does not know was added since p read the rules

vars == <<doc, proc, remote, rules, bans, events, deleted, unread>>

Documents == [enabled : BOOLEAN, account : Accounts \cup {None}, list : ListIds \cup {None}]
Default == [enabled |-> FALSE, account |-> None, list |-> None]

Syncing == {"collect", "find", "load", "create", "post", "saveId", "put", "finish"}
Saving == {"store", "newList", "storeList", "getRules", "putRules", "storeRule"}
Idle == [at |-> "idle", cfg |-> Default, other |-> Default, ips |-> {}, id |-> None,
         again |-> FALSE, rules |-> {}]

TypeOK ==
  /\ doc \in Documents
  /\ proc \in [Procs -> [at : {"idle"} \cup Syncing \cup Saving, cfg : Documents,
                         other : Documents, ips : SUBSET Ips, id : ListIds \cup {None},
                         again : BOOLEAN, rules : SUBSET {"ours", "theirs"}]]
  /\ \A p \in Procs \ {Web} : proc[p].at \notin Saving
  /\ \A p \in Procs : proc[p].at # "idle" => proc[p].cfg.account # None
  /\ remote \in [Accounts -> [id : ListIds \cup {None}, items : SUBSET Ips]]
  /\ rules \in SUBSET {"ours", "theirs"}
  /\ bans \in SUBSET Ips
  /\ events \in 0 .. MaxEvents
  /\ deleted \in BOOLEAN /\ unread \in BOOLEAN

Init ==
  /\ doc = Default
  /\ proc = [p \in Procs |-> Idle]
  /\ remote = [a \in Accounts |-> [id |-> None, items |-> {}]]
  /\ rules = {}
  /\ bans = {}
  /\ events = 0 /\ deleted = FALSE /\ unread = FALSE

Event == events < MaxEvents /\ events' = events + 1

At(p, where) == proc[p].at = where
Goto(p, where) == proc' = [proc EXCEPT ![p].at = where]
Quiet == \A p \in Procs : At(p, "idle")

(* A new list has an id that nobody knows. *)
Fresh ==
  ListIds \ ({doc.list} \cup {remote[a].id : a \in Accounts}
             \cup UNION {{proc[p].cfg.list, proc[p].other.list, proc[p].id} : p \in Procs})

-----------------------------------------------------------------------------
(* main() of the task, and the sync route: the document is read.  The task *)
(* wants it enabled.                                                       *)
StartSync(p) ==
  /\ At(p, "idle") /\ doc.account # None
  /\ IF p = Web THEN Event ELSE doc.enabled /\ UNCHANGED events
  /\ proc' = [proc EXCEPT ![p] = [Idle EXCEPT !.at = "collect", !.cfg = doc, !.id = doc.list]]
  /\ UNCHANGED <<doc, remote, rules, bans, deleted, unread>>

(* A query that fails leaves its addresses out.  With none the sync is over. *)
CollectIps(p) ==
  /\ At(p, "collect")
  /\ \E failed \in {{}, TimedOut, Ips \ TimedOut, Ips} :
       /\ IF failed = {} THEN UNCHANGED events ELSE Event
       /\ proc' = [proc EXCEPT ![p].ips = bans \ failed,
                               ![p].at = IF bans \ failed = {} THEN "finish"
                                         ELSE IF proc[p].id = None THEN "find" ELSE "put"]
  /\ UNCHANGED <<doc, remote, rules, bans, deleted, unread>>

(* _find_list_by_name(): a list that is there is taken; when there is none, *)
(* or the call fails, one is created.                                       *)
FindListByName(p) ==
  /\ At(p, "find")
  /\ \E ok \in BOOLEAN :
       LET found == IF ok THEN remote[proc[p].cfg.account].id ELSE None
       IN  /\ IF ok THEN UNCHANGED events ELSE Event
           /\ proc' = [proc EXCEPT ![p].id = found,
                                   ![p].at = IF found = None THEN "create" ELSE "load"]
  /\ UNCHANGED <<doc, remote, rules, bans, deleted, unread>>

(* The document is loaded to put the id into: after the list was found, but *)
(* before it is created (_create_list_and_save).                            *)
LoadConfig(p) ==
  /\ At(p, "load") \/ At(p, "create")
  /\ proc' = [proc EXCEPT ![p].other = doc,
                          ![p].at = IF At(p, "load") THEN "saveId" ELSE "post"]
  /\ UNCHANGED <<doc, remote, rules, bans, events, deleted, unread>>

(* cf_create_list(): the name may be taken in the account. *)
Created(a, id) ==
  /\ remote[a].id = None
  /\ Fresh # {} /\ id = (CHOOSE i \in Fresh : TRUE)
  /\ remote' = [remote EXCEPT ![a] = [id |-> id, items |-> {}]]
  /\ UNCHANGED events

NotCreated(a) ==
  /\ IF remote[a].id = None THEN Event ELSE UNCHANGED events
  /\ UNCHANGED remote

CreateList(p) ==
  /\ At(p, "post")
  /\ \/ \E id \in ListIds :
          /\ Created(proc[p].cfg.account, id)
          /\ proc' = [proc EXCEPT ![p].id = id, ![p].at = "saveId"]
     \/ NotCreated(proc[p].cfg.account) /\ Goto(p, "finish")
  /\ UNCHANGED <<doc, rules, bans, deleted, unread>>

SaveListId(p) ==
  /\ At(p, "saveId")
  /\ doc' = [proc[p].other EXCEPT !.list = proc[p].id]
  /\ proc' = [proc EXCEPT ![p].other = Default, ![p].at = "put"]
  /\ UNCHANGED <<remote, rules, bans, events, deleted, unread>>

(* A bug: a list that is gone is an error like any other. *)
ReplaceItemsOrGiveUp(p) ==
  /\ At(p, "put")
  /\ LET a == proc[p].cfg.account
     IN  \/ /\ remote[a].id = proc[p].id
            /\ remote' = [remote EXCEPT ![a].items = proc[p].ips]
            /\ Goto(p, "finish") /\ UNCHANGED events
         \/ /\ remote[a].id # proc[p].id
            /\ Goto(p, "finish") /\ UNCHANGED <<remote, events>>
         \/ Event /\ Goto(p, "finish") /\ UNCHANGED remote
  /\ UNCHANGED <<doc, rules, bans, deleted, unread>>

(* cf_replace_items(): all items of the list are replaced.  If the list is *)
(* gone it is looked for, or created, once.                                *)
ReplaceItems(p) ==
  /\ At(p, "put")
  /\ LET a == proc[p].cfg.account
     IN  \/ /\ remote[a].id = proc[p].id
            /\ remote' = [remote EXCEPT ![a].items = proc[p].ips]
            /\ Goto(p, "finish") /\ UNCHANGED events
         \/ /\ remote[a].id # proc[p].id
            /\ proc' = [proc EXCEPT ![p].again = TRUE,
                                    ![p].at = IF proc[p].again THEN "finish" ELSE "find"]
            /\ UNCHANGED <<remote, events>>
         \/ Event /\ Goto(p, "finish") /\ UNCHANGED remote
  /\ UNCHANGED <<doc, rules, bans, deleted, unread>>

(* The caller stores the time and the status of the sync in the document it *)
(* read at the start, and writes that.                                      *)
FinishSync(p) ==
  /\ At(p, "finish")
  /\ doc' = proc[p].cfg
  /\ proc' = [proc EXCEPT ![p] = Idle]
  /\ UNCHANGED <<remote, rules, bans, events, deleted, unread>>

Sync(p) ==
  \/ StartSync(p) \/ CollectIps(p) \/ FindListByName(p) \/ LoadConfig(p)
  \/ CreateList(p) \/ SaveListId(p) \/ ReplaceItems(p) \/ FinishSync(p)

-----------------------------------------------------------------------------
(* webhook_cloudflare_save: the connection was tested; the list is kept if the *)
(* account is the same.                                                        *)
SaveSettings(a, on) ==
  /\ At(Web, "idle") /\ Event
  /\ proc' = [proc EXCEPT ![Web] =
       [Idle EXCEPT !.at = "store",
                    !.cfg = [enabled |-> on, account |-> a,
                             list |-> IF doc.account = a THEN doc.list ELSE None]]]
  /\ UNCHANGED <<doc, remote, rules, bans, deleted, unread>>

StoreSettings ==
  /\ At(Web, "store")
  /\ doc' = proc[Web].cfg
  /\ deleted' = FALSE
  /\ Goto(Web, IF proc[Web].cfg.list = None THEN "newList" ELSE "getRules")
  /\ UNCHANGED <<remote, rules, bans, events, unread>>

(* A list is created at once; an error is a warning. *)
CreateFirstList ==
  /\ At(Web, "newList")
  /\ \/ \E id \in ListIds :
          /\ Created(proc[Web].cfg.account, id)
          /\ proc' = [proc EXCEPT ![Web].cfg.list = id, ![Web].at = "storeList"]
     \/ NotCreated(proc[Web].cfg.account) /\ Goto(Web, "getRules")
  /\ UNCHANGED <<doc, rules, bans, deleted, unread>>

StoreList ==
  /\ At(Web, "storeList")
  /\ doc' = proc[Web].cfg
  /\ Goto(Web, "getRules")
  /\ UNCHANGED <<remote, rules, bans, events, deleted, unread>>

(* cf_ensure_custom_rule(): the ruleset is read ... *)
GetRules ==
  /\ At(Web, "getRules")
  /\ \/ /\ proc' = [proc EXCEPT ![Web].rules = rules,
                                 ![Web].at = IF "ours" \in rules THEN "storeRule" ELSE "putRules"]
        /\ unread' = FALSE
        /\ UNCHANGED events
     \/ Event /\ Goto(Web, "storeRule") /\ UNCHANGED unread
  /\ UNCHANGED <<doc, remote, rules, bans, deleted>>

(* A bug: the ruleset is replaced by the new rule. *)
PutOurRule ==
  /\ At(Web, "putRules")
  /\ rules' = {"ours"}
  /\ proc' = [proc EXCEPT ![Web].rules = {}, ![Web].at = "storeRule"]
  /\ UNCHANGED <<doc, remote, bans, events, deleted, unread>>

(* ... and replaced by what was read and the new rule.  A failed request is *)
(* a warning.                                                              *)
PutRules ==
  /\ At(Web, "putRules")
  /\ \/ rules' = proc[Web].rules \cup {"ours"} /\ UNCHANGED events
     \/ Event /\ UNCHANGED rules
  /\ proc' = [proc EXCEPT ![Web].rules = {}, ![Web].at = "storeRule"]
  /\ UNCHANGED <<doc, remote, bans, deleted, unread>>

StoreRule ==
  /\ At(Web, "storeRule")
  /\ doc' = proc[Web].cfg
  /\ proc' = [proc EXCEPT ![Web] = Idle]
  /\ UNCHANGED <<remote, rules, bans, events, deleted, unread>>

(* webhook_status, when the name of the zone is still unknown: what it read *)
(* is written back once Cloudflare has answered.                            *)
BackfillZone ==
  /\ At(Web, "idle") /\ doc.account # None /\ Event
  /\ proc' = [proc EXCEPT ![Web] = [Idle EXCEPT !.at = "storeRule", !.cfg = doc]]
  /\ UNCHANGED <<doc, remote, rules, bans, deleted, unread>>

Save ==
  \/ \E a \in Accounts, on \in BOOLEAN : SaveSettings(a, on)
  \/ StoreSettings \/ CreateFirstList \/ StoreList
  \/ GetRules \/ PutRules \/ StoreRule \/ BackfillZone

(* A bug: deleting only switches the sync off. *)
DisableConfig ==
  /\ At(Web, "idle") /\ Event
  /\ doc' = [doc EXCEPT !.enabled = FALSE]
  /\ deleted' = Quiet
  /\ UNCHANGED <<proc, remote, rules, bans, unread>>

(* webhook_cloudflare_delete. *)
DeleteConfig ==
  /\ At(Web, "idle") /\ Event
  /\ doc' = Default
  /\ deleted' = Quiet
  /\ UNCHANGED <<proc, remote, rules, bans, unread>>

-----------------------------------------------------------------------------
(* The pod dies.  save_config() empties the file and then fills it: who dies *)
(* in between leaves one that load_config() reads as the defaults.           *)
Crash ==
  /\ ~Quiet /\ Event
  /\ proc' = [p \in Procs |-> Idle]
  /\ \/ UNCHANGED doc
     \/ /\ \E p \in Procs : proc[p].at \in {"saveId", "finish", "store", "storeList", "storeRule"}
        /\ doc' = Default
  /\ UNCHANGED <<remote, rules, bans, deleted, unread>>

(* The banned addresses change. *)
BansChange ==
  /\ Event
  /\ \E b \in SUBSET Ips : b # bans /\ bans' = b
  /\ UNCHANGED <<doc, proc, remote, rules, deleted, unread>>

(* Somebody deletes the list, or adds a rule, at Cloudflare. *)
ListDeleted(a) ==
  /\ remote[a].id # None /\ Event
  /\ remote' = [remote EXCEPT ![a] = [id |-> None, items |-> {}]]
  /\ UNCHANGED <<doc, proc, rules, bans, deleted, unread>>

RuleAdded ==
  /\ "theirs" \notin rules /\ Event
  /\ rules' = rules \cup {"theirs"}
  /\ unread' = TRUE
  /\ UNCHANGED <<doc, proc, remote, bans, deleted>>

Next ==
  \/ \E p \in Procs : Sync(p)
  \/ Save
  \/ DeleteConfig
  \/ Crash
  \/ BansChange
  \/ \E a \in Accounts : ListDeleted(a)
  \/ RuleAdded

(* The task runs every minute, and a handler that was started goes on. *)
Fairness ==
  /\ \A p \in Procs \ {Web} : WF_vars(Sync(p))
  /\ WF_vars(~At(Web, "idle") /\ (Sync(Web) \/ Save))

Spec == Init /\ [][Next]_vars /\ Fairness

-----------------------------------------------------------------------------
(* The list at Cloudflare comes to hold what is banned: once the document    *)
(* stays enabled for an account and somebody stays banned, whatever list ids *)
(* were lost to a stale write, of which account, or deleted at Cloudflare.   *)
SyncReaches ==
  \A a \in Accounts :
    <>[](doc.enabled /\ doc.account = a /\ bans # {}) => <>[](remote[a].items = bans)

(* A configuration that was deleted when no sync and no handler was at work  *)
(* stays deleted, with its token, until somebody saves one.  With a sync in  *)
(* flight it comes back when the sync writes what it had read.               *)
DeletionSticks == deleted => doc = Default

(* The rules that others have in the zone survive the rule for the banlist   *)
(* (cf_ensure_custom_rule: "carry over existing rules"), but for one that is *)
(* added between the read and the write.                                     *)
OthersRulesKept ==
  [][\A r \in rules : r \notin rules' => unread]_vars
=============================================================================
