----------------------- MODULE CloudflareConfigProofs -----------------------
(***************************************************************************)
(* The Cloudflare configuration, for any number of processes, accounts,    *)
(* lists and addresses: its types, that a deletion sticks, and that the     *)
(* rules of others are kept.                                               *)
(***************************************************************************)
EXTENDS CloudflareConfig, TLAPS

LEMMA WebRuns == Web \in Procs
  BY CloudflareAssumption DEF CloudflareAssumption

LEMMA DefaultTyped == Default \in Documents
  BY DEF Default, Documents

Processes ==
  [at : {"idle"} \cup Syncing \cup Saving, cfg : Documents, other : Documents,
   ips : SUBSET Ips, id : ListIds \cup {None}, again : BOOLEAN,
   rules : SUBSET {"ours", "theirs"}]

LEMMA IdleTyped == Idle \in Processes /\ Idle.at = "idle"
  BY DefaultTyped DEF Idle, Processes

(* What TypeOK says of one process. *)
ProcTyped(p, q) ==
  /\ q \in Processes
  /\ p # Web => q.at \notin Saving
  /\ q.at # "idle" => q.cfg.account # None

LEMMA TypeSplit ==
  TypeOK <=> /\ doc \in Documents
             /\ proc \in [Procs -> Processes] /\ \A p \in Procs : ProcTyped(p, proc[p])
             /\ remote \in [Accounts -> [id : ListIds \cup {None}, items : SUBSET Ips]]
             /\ rules \in SUBSET {"ours", "theirs"}
             /\ bans \in SUBSET Ips
             /\ events \in 0 .. MaxEvents
             /\ deleted \in BOOLEAN /\ unread \in BOOLEAN
  BY DEF TypeOK, Processes, ProcTyped

LEMMA TypeJoin ==
  ASSUME doc' \in Documents,
         proc' \in [Procs -> Processes], \A p \in Procs : ProcTyped(p, proc'[p]),
         remote' \in [Accounts -> [id : ListIds \cup {None}, items : SUBSET Ips]],
         rules' \in SUBSET {"ours", "theirs"},
         bans' \in SUBSET Ips,
         events' \in 0 .. MaxEvents,
         deleted' \in BOOLEAN, unread' \in BOOLEAN
  PROVE  TypeOK'
  BY DEF TypeOK, Processes, ProcTyped

LEMMA InitTyped == Init => TypeOK
<1> SUFFICES ASSUME Init PROVE TypeOK
  OBVIOUS
<1>1. proc \in [Procs -> Processes] /\ \A p \in Procs : ProcTyped(p, proc[p])
  BY IdleTyped DEF Init, ProcTyped, Saving
<1>2. remote \in [Accounts -> [id : ListIds \cup {None}, items : SUBSET Ips]]
  BY DEF Init
<1>3. events \in 0 .. MaxEvents
  BY CloudflareAssumption DEF Init, CloudflareAssumption
<1> QED
  BY <1>1, <1>2, <1>3, TypeSplit, DefaultTyped DEF Init

(* The work of one process leaves the others typed. *)
LEMMA ProcChanges ==
  ASSUME TypeOK, NEW p \in Procs, NEW q, ProcTyped(p, q), proc' = [proc EXCEPT ![p] = q]
  PROVE  proc' \in [Procs -> Processes] /\ \A r \in Procs : ProcTyped(r, proc'[r])
  BY TypeSplit DEF ProcTyped

LEMMA Moves ==
  ASSUME TypeOK, NEW p \in Procs, NEW w \in {"idle"} \cup Syncing \cup Saving,
         p # Web => w \notin Saving, proc[p].at # "idle", Goto(p, w)
  PROVE  proc' \in [Procs -> Processes] /\ \A r \in Procs : ProcTyped(r, proc'[r])
<1> DEFINE q == [proc[p] EXCEPT !.at = w]
<1>1. proc[p] \in Processes /\ ProcTyped(p, proc[p])
  BY TypeSplit
<1>2. q \in Processes /\ q.at = w /\ q.cfg = proc[p].cfg
  BY <1>1 DEF Processes
<1>3. ProcTyped(p, q)
  BY <1>1, <1>2 DEF ProcTyped
<1>4. proc' = [proc EXCEPT ![p] = q]
  BY DEF Goto
<1> QED
  BY <1>3, <1>4, ProcChanges

LEMMA SyncTyped ==
  ASSUME TypeOK, NEW p \in Procs, Sync(p)
  PROVE  TypeOK'
<1> USE DEF Event
<1>1. proc[p] \in Processes /\ ProcTyped(p, proc[p]) /\ doc \in Documents
      /\ events \in 0 .. MaxEvents /\ MaxEvents \in Nat
  BY TypeSplit, CloudflareAssumption DEF CloudflareAssumption
<1>2. CASE StartSync(p)
  <2> DEFINE q == [Idle EXCEPT !.at = "collect", !.cfg = doc, !.id = doc.list]
  <2>1. ProcTyped(p, q)
    BY <1>1, <1>2, IdleTyped DEF StartSync, ProcTyped, Processes, Documents, Syncing, Saving
  <2>2. proc' \in [Procs -> Processes] /\ \A r \in Procs : ProcTyped(r, proc'[r])
    BY <1>2, <2>1, ProcChanges DEF StartSync
  <2> QED
    BY <1>1, <1>2, <2>2, TypeSplit, TypeJoin DEF StartSync
<1>3. CASE CollectIps(p)
  <2>1. PICK failed \in {{}, TimedOut, Ips \ TimedOut, Ips} :
          /\ IF failed = {} THEN UNCHANGED events ELSE Event
          /\ proc' = [proc EXCEPT ![p].ips = bans \ failed,
                                  ![p].at = IF bans \ failed = {} THEN "finish"
                                            ELSE IF proc[p].id = None THEN "find" ELSE "put"]
    BY <1>3 DEF CollectIps
  <2> DEFINE q == [proc[p] EXCEPT !.ips = bans \ failed,
                                  !.at = IF bans \ failed = {} THEN "finish"
                                         ELSE IF proc[p].id = None THEN "find" ELSE "put"]
  <2>2. bans \ failed \in SUBSET Ips
    BY TypeSplit
  <2>3. ProcTyped(p, q)
    BY <1>1, <1>3, <2>2 DEF CollectIps, At, ProcTyped, Processes, Syncing, Saving
  <2>4. proc' = [proc EXCEPT ![p] = q]
    BY <2>1
  <2>5. proc' \in [Procs -> Processes] /\ \A r \in Procs : ProcTyped(r, proc'[r])
    BY <2>3, <2>4, ProcChanges
  <2>6. events' \in 0 .. MaxEvents
    BY <1>1, <2>1
  <2> QED
    BY <1>3, <2>5, <2>6, TypeSplit, TypeJoin DEF CollectIps
<1>4. CASE FindListByName(p)
  <2>1. PICK found \in ListIds \cup {None} :
          proc' = [proc EXCEPT ![p].id = found,
                               ![p].at = IF found = None THEN "create" ELSE "load"]
    <3>1. proc[p].cfg.account \in Accounts
      BY <1>1, <1>4 DEF ProcTyped, Processes, Documents, FindListByName, At
    <3>2. remote[proc[p].cfg.account].id \in ListIds \cup {None}
      BY <3>1, TypeSplit
    <3> QED
      BY <1>4, <3>2 DEF FindListByName
  <2> DEFINE q == [proc[p] EXCEPT !.id = found,
                                  !.at = IF found = None THEN "create" ELSE "load"]
  <2>2. ProcTyped(p, q)
    BY <1>1, <1>4 DEF FindListByName, At, ProcTyped, Processes, Syncing, Saving
  <2>3. proc' = [proc EXCEPT ![p] = q]
    BY <2>1
  <2>4. proc' \in [Procs -> Processes] /\ \A r \in Procs : ProcTyped(r, proc'[r])
    BY <2>2, <2>3, ProcChanges
  <2>5. events' \in 0 .. MaxEvents
    BY <1>1, <1>4 DEF FindListByName
  <2> QED
    BY <1>4, <2>4, <2>5, TypeSplit, TypeJoin DEF FindListByName
<1>5. CASE LoadConfig(p)
  <2> DEFINE q == [proc[p] EXCEPT !.other = doc,
                                  !.at = IF At(p, "load") THEN "saveId" ELSE "post"]
  <2>1. ProcTyped(p, q)
    BY <1>1, <1>5 DEF LoadConfig, At, ProcTyped, Processes, Syncing, Saving
  <2>2. proc' = [proc EXCEPT ![p] = q]
    BY <1>5 DEF LoadConfig
  <2>3. proc' \in [Procs -> Processes] /\ \A r \in Procs : ProcTyped(r, proc'[r])
    BY <2>1, <2>2, ProcChanges
  <2> QED
    BY <1>5, <2>3, TypeSplit, TypeJoin DEF LoadConfig
<1>6. CASE CreateList(p)
  <2>1. proc[p].cfg.account \in Accounts
    BY <1>1, <1>6 DEF ProcTyped, Processes, Documents, CreateList, At
  <2>2. CASE \E id \in ListIds :
               /\ Created(proc[p].cfg.account, id)
               /\ proc' = [proc EXCEPT ![p].id = id, ![p].at = "saveId"]
    <3>1. PICK id \in ListIds :
            /\ Created(proc[p].cfg.account, id)
            /\ proc' = [proc EXCEPT ![p].id = id, ![p].at = "saveId"]
      BY <2>2
    <3> DEFINE q == [proc[p] EXCEPT !.id = id, !.at = "saveId"]
    <3>2. ProcTyped(p, q)
      BY <1>1, <1>6 DEF CreateList, At, ProcTyped, Processes, Syncing, Saving
    <3>3. proc' = [proc EXCEPT ![p] = q]
      BY <3>1
    <3>4. proc' \in [Procs -> Processes] /\ \A r \in Procs : ProcTyped(r, proc'[r])
      BY <3>2, <3>3, ProcChanges
    <3>5. remote' \in [Accounts -> [id : ListIds \cup {None}, items : SUBSET Ips]]
          /\ events' \in 0 .. MaxEvents
      BY <1>1, <2>1, <3>1, TypeSplit DEF Created
    <3> QED
      BY <1>6, <3>4, <3>5, TypeSplit, TypeJoin DEF CreateList
  <2>3. CASE NotCreated(proc[p].cfg.account) /\ Goto(p, "finish")
    <3>1. proc' \in [Procs -> Processes] /\ \A r \in Procs : ProcTyped(r, proc'[r])
      BY <1>6, <2>3, Moves DEF CreateList, At, Syncing, Saving
    <3> QED
      BY <1>1, <1>6, <2>3, <3>1, TypeSplit, TypeJoin DEF CreateList, NotCreated
  <2> QED
    BY <1>6, <2>2, <2>3 DEF CreateList
<1>7. CASE SaveListId(p)
  <2> DEFINE q == [proc[p] EXCEPT !.other = Default, !.at = "put"]
  <2>1. ProcTyped(p, q)
    BY <1>1, <1>7, DefaultTyped DEF SaveListId, At, ProcTyped, Processes, Syncing, Saving
  <2>2. proc' = [proc EXCEPT ![p] = q]
    BY <1>7 DEF SaveListId
  <2>3. proc' \in [Procs -> Processes] /\ \A r \in Procs : ProcTyped(r, proc'[r])
    BY <2>1, <2>2, ProcChanges
  <2>4. doc' \in Documents
    BY <1>1, <1>7 DEF SaveListId, Processes, Documents
  <2> QED
    BY <1>7, <2>3, <2>4, TypeSplit, TypeJoin DEF SaveListId
<1>8. CASE ReplaceItems(p)
  <2>1. proc[p].cfg.account \in Accounts
    BY <1>1, <1>8 DEF ProcTyped, Processes, Documents, ReplaceItems, At
  <2>2. proc[p].at # "idle"
    BY <1>8 DEF ReplaceItems, At
  <2>3. CASE /\ remote' = [remote EXCEPT ![proc[p].cfg.account].items = proc[p].ips]
             /\ Goto(p, "finish") /\ UNCHANGED events
    <3>1. proc' \in [Procs -> Processes] /\ \A r \in Procs : ProcTyped(r, proc'[r])
      BY <2>2, <2>3, Moves DEF Syncing, Saving
    <3>2. remote' \in [Accounts -> [id : ListIds \cup {None}, items : SUBSET Ips]]
      BY <1>1, <2>1, <2>3, TypeSplit DEF Processes
    <3> QED
      BY <1>8, <2>3, <3>1, <3>2, TypeSplit, TypeJoin DEF ReplaceItems
  <2>4. CASE /\ proc' = [proc EXCEPT ![p].again = TRUE,
                                     ![p].at = IF proc[p].again THEN "finish" ELSE "find"]
             /\ UNCHANGED <<remote, events>>
    <3> DEFINE q == [proc[p] EXCEPT !.again = TRUE,
                                    !.at = IF proc[p].again THEN "finish" ELSE "find"]
    <3>1. ProcTyped(p, q)
      BY <1>1, <2>2 DEF ProcTyped, Processes, Syncing, Saving
    <3>2. proc' = [proc EXCEPT ![p] = q]
      BY <2>4
    <3>3. proc' \in [Procs -> Processes] /\ \A r \in Procs : ProcTyped(r, proc'[r])
      BY <3>1, <3>2, ProcChanges
    <3> QED
      BY <1>8, <2>4, <3>3, TypeSplit, TypeJoin DEF ReplaceItems
  <2>5. CASE Event /\ Goto(p, "finish") /\ UNCHANGED remote
    <3>1. proc' \in [Procs -> Processes] /\ \A r \in Procs : ProcTyped(r, proc'[r])
      BY <2>2, <2>5, Moves DEF Syncing, Saving
    <3> QED
      BY <1>1, <1>8, <2>5, <3>1, TypeSplit, TypeJoin DEF ReplaceItems
  <2> QED
    BY <1>8, <2>3, <2>4, <2>5 DEF ReplaceItems
<1>9. CASE FinishSync(p)
  <2>1. ProcTyped(p, Idle)
    BY IdleTyped DEF ProcTyped, Saving
  <2>2. proc' \in [Procs -> Processes] /\ \A r \in Procs : ProcTyped(r, proc'[r])
    BY <1>9, <2>1, ProcChanges DEF FinishSync
  <2> QED
    BY <1>1, <1>9, <2>2, TypeSplit, TypeJoin DEF FinishSync, Processes
<1> QED
  BY <1>2, <1>3, <1>4, <1>5, <1>6, <1>7, <1>8, <1>9 DEF Sync

LEMMA SaveTyped ==
  ASSUME TypeOK, Save
  PROVE  TypeOK'
<1> USE DEF Event
<1>1. proc[Web] \in Processes /\ ProcTyped(Web, proc[Web]) /\ Web \in Procs
      /\ doc \in Documents /\ events \in 0 .. MaxEvents /\ MaxEvents \in Nat
  BY WebRuns, TypeSplit, CloudflareAssumption DEF CloudflareAssumption
<1>2. ASSUME NEW a \in Accounts, NEW on \in BOOLEAN, SaveSettings(a, on) PROVE TypeOK'
  <2> DEFINE cfg == [enabled |-> on, account |-> a,
                     list |-> IF doc.account = a THEN doc.list ELSE None]
  <2>1. cfg \in Documents /\ cfg.account # None
    BY <1>1, CloudflareAssumption DEF Documents, CloudflareAssumption
  <2>2. ProcTyped(Web, [Idle EXCEPT !.at = "store", !.cfg = cfg])
    BY <2>1, IdleTyped DEF ProcTyped, Processes, Saving
  <2>3. proc' \in [Procs -> Processes] /\ \A r \in Procs : ProcTyped(r, proc'[r])
    BY <1>1, <1>2, <2>2, ProcChanges DEF SaveSettings
  <2> QED
    BY <1>1, <1>2, <2>3, TypeSplit, TypeJoin DEF SaveSettings
<1>3. CASE StoreSettings
  <2>1. proc' \in [Procs -> Processes] /\ \A r \in Procs : ProcTyped(r, proc'[r])
    BY <1>1, <1>3, Moves DEF StoreSettings, At, Saving
  <2> QED
    BY <1>1, <1>3, <2>1, TypeSplit, TypeJoin DEF StoreSettings, Processes
<1>4. CASE CreateFirstList
  <2>1. proc[Web].cfg.account \in Accounts /\ proc[Web].cfg \in Documents
    BY <1>1, <1>4 DEF ProcTyped, Processes, Documents, CreateFirstList, At
  <2>2. CASE \E id \in ListIds :
               /\ Created(proc[Web].cfg.account, id)
               /\ proc' = [proc EXCEPT ![Web].cfg.list = id, ![Web].at = "storeList"]
    <3>1. PICK id \in ListIds :
            /\ Created(proc[Web].cfg.account, id)
            /\ proc' = [proc EXCEPT ![Web].cfg.list = id, ![Web].at = "storeList"]
      BY <2>2
    <3> DEFINE cfg == [proc[Web].cfg EXCEPT !.list = id]
    <3> DEFINE q == [proc[Web] EXCEPT !.cfg = cfg, !.at = "storeList"]
    <3>2. cfg \in Documents /\ cfg.account # None
      BY <2>1, CloudflareAssumption DEF Documents, CloudflareAssumption
    <3>3. ProcTyped(Web, q)
      BY <1>1, <3>2 DEF ProcTyped, Processes, Saving
    <3>4. proc' = [proc EXCEPT ![Web] = q]
      BY <3>1
    <3>5. proc' \in [Procs -> Processes] /\ \A r \in Procs : ProcTyped(r, proc'[r])
      BY <1>1, <3>3, <3>4, ProcChanges
    <3>6. remote' \in [Accounts -> [id : ListIds \cup {None}, items : SUBSET Ips]]
          /\ events' \in 0 .. MaxEvents
      BY <1>1, <2>1, <3>1, TypeSplit DEF Created
    <3> QED
      BY <1>4, <3>5, <3>6, TypeSplit, TypeJoin DEF CreateFirstList
  <2>3. CASE NotCreated(proc[Web].cfg.account) /\ Goto(Web, "getRules")
    <3>1. proc' \in [Procs -> Processes] /\ \A r \in Procs : ProcTyped(r, proc'[r])
      BY <1>1, <1>4, <2>3, Moves DEF CreateFirstList, At, Saving
    <3> QED
      BY <1>1, <1>4, <2>3, <3>1, TypeSplit, TypeJoin DEF CreateFirstList, NotCreated
  <2> QED
    BY <1>4, <2>2, <2>3 DEF CreateFirstList
<1>5. CASE StoreList
  <2>1. proc' \in [Procs -> Processes] /\ \A r \in Procs : ProcTyped(r, proc'[r])
    BY <1>1, <1>5, Moves DEF StoreList, At, Saving
  <2> QED
    BY <1>1, <1>5, <2>1, TypeSplit, TypeJoin DEF StoreList, Processes
<1>6. CASE GetRules
  <2>1. proc' \in [Procs -> Processes] /\ \A r \in Procs : ProcTyped(r, proc'[r])
    <3>1. CASE proc' = [proc EXCEPT ![Web].rules = rules,
                                    ![Web].at = IF "ours" \in rules THEN "storeRule"
                                                ELSE "putRules"]
      <4> DEFINE q == [proc[Web] EXCEPT !.rules = rules,
                         !.at = IF "ours" \in rules THEN "storeRule" ELSE "putRules"]
      <4>1. rules \in SUBSET {"ours", "theirs"}
        BY TypeSplit
      <4>2. ProcTyped(Web, q)
        BY <1>1, <1>6, <4>1 DEF GetRules, At, ProcTyped, Processes, Saving
      <4>3. proc' = [proc EXCEPT ![Web] = q]
        BY <3>1
      <4> QED
        BY <1>1, <4>2, <4>3, ProcChanges
    <3>2. CASE Goto(Web, "storeRule")
      BY <1>1, <1>6, <3>2, Moves DEF GetRules, At, Saving
    <3> QED
      BY <1>6, <3>1, <3>2 DEF GetRules
  <2>2. events' \in 0 .. MaxEvents
    BY <1>1, <1>6 DEF GetRules
  <2>3. unread' \in BOOLEAN
    BY <1>6, TypeSplit DEF GetRules
  <2> QED
    BY <1>6, <2>1, <2>2, <2>3, TypeSplit, TypeJoin DEF GetRules
<1>7. CASE PutRules
  <2> DEFINE q == [proc[Web] EXCEPT !.rules = {}, !.at = "storeRule"]
  <2>1. ProcTyped(Web, q)
    BY <1>1, <1>7 DEF PutRules, At, ProcTyped, Processes, Saving
  <2>2. proc' = [proc EXCEPT ![Web] = q]
    BY <1>7 DEF PutRules
  <2>3. proc' \in [Procs -> Processes] /\ \A r \in Procs : ProcTyped(r, proc'[r])
    BY <1>1, <2>1, <2>2, ProcChanges
  <2>4. rules' \in SUBSET {"ours", "theirs"} /\ events' \in 0 .. MaxEvents
    BY <1>1, <1>7, TypeSplit DEF PutRules, Processes
  <2> QED
    BY <1>7, <2>3, <2>4, TypeSplit, TypeJoin DEF PutRules
<1>8. CASE StoreRule
  <2>1. ProcTyped(Web, Idle)
    BY IdleTyped DEF ProcTyped
  <2>2. proc' \in [Procs -> Processes] /\ \A r \in Procs : ProcTyped(r, proc'[r])
    BY <1>1, <1>8, <2>1, ProcChanges DEF StoreRule
  <2> QED
    BY <1>1, <1>8, <2>2, TypeSplit, TypeJoin DEF StoreRule, Processes
<1>9. CASE BackfillZone
  <2>1. ProcTyped(Web, [Idle EXCEPT !.at = "storeRule", !.cfg = doc])
    BY <1>1, <1>9, IdleTyped DEF BackfillZone, ProcTyped, Processes, Saving
  <2>2. proc' \in [Procs -> Processes] /\ \A r \in Procs : ProcTyped(r, proc'[r])
    BY <1>1, <1>9, <2>1, ProcChanges DEF BackfillZone
  <2> QED
    BY <1>1, <1>9, <2>2, TypeSplit, TypeJoin DEF BackfillZone
<1> QED
  BY <1>2, <1>3, <1>4, <1>5, <1>6, <1>7, <1>8, <1>9 DEF Save

LEMMA TypeInductive == TypeOK /\ [Next]_vars => TypeOK'
<1> SUFFICES ASSUME TypeOK, [Next]_vars PROVE TypeOK'
  OBVIOUS
<1>1. doc \in Documents /\ events \in 0 .. MaxEvents /\ MaxEvents \in Nat
  BY TypeSplit, CloudflareAssumption DEF CloudflareAssumption
<1>2. ASSUME NEW p \in Procs, Sync(p) PROVE TypeOK'
  BY <1>2, SyncTyped
<1>3. CASE Save
  BY <1>3, SaveTyped
<1>4. CASE DeleteConfig
  BY <1>1, <1>4, TypeSplit, TypeJoin, DefaultTyped DEF DeleteConfig, Event, Quiet, At
<1>5. CASE Crash
  <2>1. proc' \in [Procs -> Processes] /\ \A r \in Procs : ProcTyped(r, proc'[r])
    BY <1>5, IdleTyped DEF Crash, ProcTyped, Saving
  <2> QED
    BY <1>1, <1>5, <2>1, TypeSplit, TypeJoin, DefaultTyped DEF Crash, Event
<1>6. CASE BansChange
  BY <1>1, <1>6, TypeSplit, TypeJoin DEF BansChange, Event
<1>7. ASSUME NEW a \in Accounts, ListDeleted(a) PROVE TypeOK'
  BY <1>1, <1>7, TypeSplit, TypeJoin DEF ListDeleted, Event
<1>8. CASE RuleAdded
  BY <1>1, <1>8, TypeSplit, TypeJoin DEF RuleAdded, Event
<1>9. CASE UNCHANGED vars
  BY <1>9, TypeSplit, TypeJoin DEF vars
<1> QED
  BY <1>2, <1>3, <1>4, <1>5, <1>6, <1>7, <1>8, <1>9 DEF Next

(* The document, its readers, the lists and the rules keep their types. *)
THEOREM TypeCorrect == Spec => []TypeOK
  BY InitTyped, TypeInductive, PTL DEF Spec

-----------------------------------------------------------------------------
(* While a deletion lasts nobody holds a document that was read before it: *)
(* at most a handler is about to store a new one.                          *)
NobodyHolds ==
  deleted => /\ doc = Default
             /\ \A p \in Procs : proc[p].at = "idle" \/ (p = Web /\ proc[p].at = "store")

(* What is about to replace the rules holds those that are there. *)
HoldsRules == proc[Web].at = "putRules" /\ ~unread => rules \subseteq proc[Web].rules

CInv == TypeOK /\ NobodyHolds /\ HoldsRules

LEMMA InitKept == Init => CInv
  BY InitTyped, WebRuns DEF Init, CInv, NobodyHolds, HoldsRules, Idle

LEMMA SyncKeeps ==
  ASSUME CInv, NEW p \in Procs, Sync(p)
  PROVE  NobodyHolds' /\ HoldsRules'
<1>1. /\ proc \in [Procs -> Processes] /\ UNCHANGED <<rules, deleted, unread>>
      /\ proc[p].at \in {"idle"} \cup Syncing
  BY TypeSplit DEF CInv, Sync, StartSync, CollectIps, FindListByName, LoadConfig, CreateList,
                   SaveListId, ReplaceItems, FinishSync, At, Syncing
<1>2. proc'[p].at \notin Saving /\ \A q \in Procs : q # p => proc'[q] = proc[q]
  <2> USE DEF Saving
  <2>0. proc[p] \in Processes
    BY <1>1
  <2>1. CASE StartSync(p)
    BY <1>1, <2>0, <2>1, IdleTyped DEF StartSync, Idle
  <2>2. CASE CollectIps(p)
    BY <1>1, <2>0, <2>2 DEF CollectIps, Processes
  <2>3. CASE FindListByName(p)
    BY <1>1, <2>0, <2>3 DEF FindListByName, Processes
  <2>4. CASE LoadConfig(p)
    BY <1>1, <2>0, <2>4 DEF LoadConfig, Processes
  <2>5. CASE CreateList(p)
    <3>1. PICK w \in {"saveId", "finish"}, id \in ListIds \cup {None} :
            proc' = [proc EXCEPT ![p].id = id, ![p].at = w] \/ proc' = [proc EXCEPT ![p].at = w]
      <4>1. CASE \E id \in ListIds : proc' = [proc EXCEPT ![p].id = id, ![p].at = "saveId"]
        BY <4>1
      <4>2. CASE Goto(p, "finish")
        BY <4>2 DEF Goto
      <4> QED
        BY <2>5, <4>1, <4>2 DEF CreateList
    <3> QED
      BY <1>1, <2>0, <3>1 DEF Processes
  <2>6. CASE SaveListId(p)
    BY <1>1, <2>0, <2>6 DEF SaveListId, Processes
  <2>7. CASE ReplaceItems(p)
    BY <1>1, <2>0, <2>7 DEF ReplaceItems, Goto, Processes
  <2>8. CASE FinishSync(p)
    BY <1>1, <2>0, <2>8, IdleTyped DEF FinishSync, Idle
  <2> QED
    BY <2>1, <2>2, <2>3, <2>4, <2>5, <2>6, <2>7, <2>8 DEF Sync
<1>3. doc.account = None => ~StartSync(p)
  BY DEF StartSync
<1>4. ~deleted
  <2> SUFFICES ASSUME deleted PROVE FALSE
    OBVIOUS
  <2>1. doc.account = None /\ (proc[p].at = "idle" \/ proc[p].at = "store")
    BY DEF CInv, NobodyHolds, Default
  <2> QED
    BY <1>3, <2>1 DEF Sync, CollectIps, FindListByName, LoadConfig, CreateList,
                      SaveListId, ReplaceItems, FinishSync, At
<1> QED
  BY <1>1, <1>2, <1>4, WebRuns DEF CInv, NobodyHolds, HoldsRules, Saving

LEMMA SaveKeeps ==
  ASSUME CInv, Save
  PROVE  NobodyHolds' /\ HoldsRules'
<1> USE DEF At
<1>1. /\ proc \in [Procs -> Processes] /\ Web \in Procs /\ proc[Web] \in Processes
      /\ \A q \in Procs : q # Web => proc'[q] = proc[q]
  BY TypeSplit, WebRuns DEF CInv, Save, SaveSettings, StoreSettings, CreateFirstList, StoreList,
                            GetRules, PutRules, StoreRule, BackfillZone, Goto
<1>2. ASSUME NEW a \in Accounts, NEW on \in BOOLEAN, SaveSettings(a, on)
      PROVE  NobodyHolds' /\ HoldsRules'
  <2>1. proc'[Web].at = "store" /\ UNCHANGED <<doc, deleted>>
    BY <1>1, <1>2 DEF SaveSettings, Idle
  <2> QED
    BY <1>1, <2>1 DEF CInv, NobodyHolds, HoldsRules
<1>3. CASE StoreSettings
  <2>1. proc'[Web].at # "putRules" /\ ~deleted'
    BY <1>1, <1>3 DEF StoreSettings, Goto, Processes
  <2> QED
    BY <2>1 DEF NobodyHolds, HoldsRules
<1>4. ASSUME proc[Web].at \notin {"idle", "store"}, UNCHANGED deleted PROVE NobodyHolds'
  BY <1>1, <1>4 DEF CInv, NobodyHolds
<1>5. CASE CreateFirstList
  <2>1. proc'[Web].at # "putRules"
    BY <1>1, <1>5 DEF CreateFirstList, Goto, Processes
  <2> QED
    BY <1>4, <1>5, <2>1 DEF CreateFirstList, HoldsRules
<1>6. CASE StoreList
  <2>1. proc'[Web].at # "putRules"
    BY <1>1, <1>6 DEF StoreList, Goto, Processes
  <2> QED
    BY <1>4, <1>6, <2>1 DEF StoreList, HoldsRules
<1>7. CASE GetRules
  <2>1. proc'[Web].at = "putRules" => rules' \subseteq proc'[Web].rules
    BY <1>1, <1>7 DEF GetRules, Goto, Processes
  <2> QED
    BY <1>4, <1>7, <2>1 DEF GetRules, HoldsRules
<1>8. CASE PutRules
  <2>1. proc'[Web].at # "putRules"
    BY <1>1, <1>8 DEF PutRules, Processes
  <2> QED
    BY <1>4, <1>8, <2>1 DEF PutRules, HoldsRules
<1>9. CASE StoreRule
  <2>1. proc'[Web].at # "putRules"
    BY <1>1, <1>9 DEF StoreRule, Idle
  <2> QED
    BY <1>4, <1>9, <2>1 DEF StoreRule, HoldsRules
<1>10. CASE BackfillZone
  <2>1. proc'[Web].at # "putRules"
    BY <1>1, <1>10 DEF BackfillZone, Idle
  <2>2. ~deleted /\ UNCHANGED deleted
    BY <1>10 DEF BackfillZone, CInv, NobodyHolds, Default
  <2> QED
    BY <2>1, <2>2 DEF NobodyHolds, HoldsRules
<1> QED
  BY <1>2, <1>3, <1>5, <1>6, <1>7, <1>8, <1>9, <1>10 DEF Save

LEMMA KeptInductive == CInv /\ [Next]_vars => CInv'
<1> SUFFICES ASSUME CInv, [Next]_vars PROVE NobodyHolds' /\ HoldsRules'
  BY TypeInductive DEF CInv
<1>1. ASSUME NEW p \in Procs, Sync(p) PROVE NobodyHolds' /\ HoldsRules'
  BY <1>1, SyncKeeps
<1>2. CASE Save
  BY <1>2, SaveKeeps
<1>3. CASE DeleteConfig
  BY <1>3 DEF DeleteConfig, Quiet, At, CInv, NobodyHolds, HoldsRules
<1>4. CASE Crash
  BY <1>4, WebRuns DEF Crash, Idle, CInv, NobodyHolds, HoldsRules
<1>5. CASE BansChange
  BY <1>5 DEF BansChange, CInv, NobodyHolds, HoldsRules
<1>6. ASSUME NEW a \in Accounts, ListDeleted(a) PROVE NobodyHolds' /\ HoldsRules'
  BY <1>6 DEF ListDeleted, CInv, NobodyHolds, HoldsRules
<1>7. CASE RuleAdded
  BY <1>7 DEF RuleAdded, CInv, NobodyHolds, HoldsRules
<1>8. CASE UNCHANGED vars
  BY <1>8 DEF vars, CInv, NobodyHolds, HoldsRules
<1> QED
  BY <1>1, <1>2, <1>3, <1>4, <1>5, <1>6, <1>7, <1>8 DEF Next

(* For any number of processes, accounts and events, a configuration that was *)
(* deleted while nobody was at work on it stays deleted until one is saved    *)
(* (webhook_cloudflare_delete).                                               *)
THEOREM Deletion == Spec => []DeletionSticks
<1>1. CInv => DeletionSticks
  BY DEF CInv, NobodyHolds, DeletionSticks
<1> QED
  BY <1>1, InitKept, KeptInductive, PTL DEF Spec

(* For any number of processes, accounts and events, a rule of others is lost *)
(* only if it was added between the read and the write of the ruleset         *)
(* (cf_ensure_custom_rule).                                                   *)
THEOREM RulesKept == Spec => OthersRulesKept
<1>1. ASSUME CInv, [Next]_vars
      PROVE  [\A r \in rules : r \notin rules' => unread]_vars
  <2> SUFFICES ASSUME NEW r \in rules, r \notin rules', ~unread PROVE FALSE
    OBVIOUS
  <2>1. PutRules
    BY <1>1 DEF Next, Sync, StartSync, CollectIps, FindListByName, LoadConfig, CreateList,
                SaveListId, ReplaceItems, FinishSync, Save, SaveSettings, StoreSettings,
                CreateFirstList, StoreList, GetRules, StoreRule, BackfillZone, DeleteConfig,
                Crash, BansChange, ListDeleted, RuleAdded, vars
  <2> QED
    BY <1>1, <2>1 DEF PutRules, At, CInv, HoldsRules
<1> QED
  BY <1>1, InitKept, KeptInductive, PTL DEF Spec, OthersRulesKept
=============================================================================
