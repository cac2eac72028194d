--------------------------- MODULE BanCacheProofs ---------------------------
(***************************************************************************)
(* Type correctness of the in-process set of banned IPs, and the safety of *)
(* its fast path, for any number of pods, addresses and refreshing         *)
(* threads, and any cap.                                                   *)
(***************************************************************************)
EXTENDS BanCache, TLAPS

(* A refresh under way will miss, when it swaps, only IPs listed since it    *)
(* queried.                                                                  *)
RefreshesMissOnlyTheWindow ==
  \A p \in Pods : \A r \in reading[p] : listed \subseteq fetched[p][r] \cup since[p][r]

(* MissesOnlyTheWindow is not inductive: a swap takes its truth from what the *)
(* refresh fetched some steps ago.                                            *)
IInv == TypeOK /\ MissesOnlyTheWindow /\ RefreshesMissOnlyTheWindow

-----------------------------------------------------------------------------
(* The types hold in every state: what add() and refresh() assign are sets of *)
(* addresses.                                                                 *)
THEOREM TypeCorrect == Safety => []TypeOK
<1>1. Init => TypeOK
  BY DEF Init, CacheInit, TypeOK
<1>2. TypeOK /\ [Next]_vars => TypeOK'
  <2> SUFFICES ASSUME TypeOK, [Next]_vars PROVE TypeOK'
    OBVIOUS
  <2> USE DEF TypeOK
  <2>1. CASE DbChanges
    BY <2>1 DEF DbChanges, Overlooked
  <2>2. ASSUME NEW p \in Pods, PodStep(p), UNCHANGED listed
        PROVE  TypeOK'
    <3>1. CASE \E r \in Refreshers : Refresh(p, r)
      <4> PICK r \in Refreshers : Refresh(p, r)
        BY <3>1
      <4>1. CASE RefreshRead(p, r)
        BY <4>1, <2>2 DEF RefreshRead
      <4>2. CASE RefreshOverflow(p, r)
        BY <4>2, <2>2 DEF RefreshOverflow, Finish
      <4>3. CASE RefreshSwap(p, r)
        BY <4>3, <2>2 DEF RefreshSwap, Finish
      <4>4. CASE RefreshFail(p, r)
        BY <4>4, <2>2 DEF RefreshFail, Finish
      <4> QED
        BY <4>1, <4>2, <4>3, <4>4 DEF Refresh
    <3>2. CASE \E ip \in Ips : Add(p, ip)
      BY <3>2, <2>2 DEF Add
    <3>3. CASE Forget(p)
      BY <3>3, <2>2 DEF Forget
    <3> QED
      BY <2>2, <3>1, <3>2, <3>3 DEF PodStep
  <2>3. CASE UNCHANGED vars
    BY <2>3 DEF vars, cacheVars
  <2> QED
    BY <2>1, <2>2, <2>3 DEF Next
<1> QED
  BY <1>1, <1>2, PTL DEF Safety

-----------------------------------------------------------------------------
(* One step of the database: whatever it lists anew, the history variables    *)
(* see.                                                                       *)
LEMMA DbPreserves ==
  ASSUME IInv, TypeOK', DbChanges
  PROVE  MissesOnlyTheWindow' /\ RefreshesMissOnlyTheWindow'
<1> PICK now \in SUBSET Ips : /\ listed' = now
                              /\ Overlooked(now \ listed)
                              /\ UNCHANGED <<banned, ready, reading, fetched>>
  BY DEF DbChanges
<1>1. MissesOnlyTheWindow'
  BY DEF IInv, TypeOK, MissesOnlyTheWindow, Overlooked
<1>2. RefreshesMissOnlyTheWindow'
  <2> SUFFICES ASSUME NEW p \in Pods, NEW r \in reading[p]
               PROVE  now \subseteq fetched[p][r] \cup since'[p][r]
    BY DEF RefreshesMissOnlyTheWindow
  <2>1. r \in Refreshers
    BY DEF IInv, TypeOK
  <2>2. since'[p][r] = since[p][r] \cup (now \ listed)
    BY <2>1 DEF Overlooked
  <2> QED
    BY <2>2 DEF IInv, RefreshesMissOnlyTheWindow
<1> QED
  BY <1>1, <1>2

(* One step of a refresh: the swap hands the window it kept track of to the   *)
(* set, and the other outcomes leave the set alone.                           *)
LEMMA RefreshPreserves ==
  ASSUME IInv, TypeOK', NEW p \in Pods, NEW r \in Refreshers,
         Refresh(p, r), UNCHANGED listed
  PROVE  MissesOnlyTheWindow' /\ RefreshesMissOnlyTheWindow'
<1> USE DEF IInv, TypeOK, MissesOnlyTheWindow, RefreshesMissOnlyTheWindow
<1>1. CASE RefreshRead(p, r)
  <2>1. MissesOnlyTheWindow'
    BY <1>1 DEF RefreshRead
  <2>2. RefreshesMissOnlyTheWindow'
    <3> SUFFICES ASSUME NEW q \in Pods, NEW s \in reading'[q]
                 PROVE  listed \subseteq fetched'[q][s] \cup since'[q][s]
      OBVIOUS
    <3>1. CASE q = p /\ s = r
      BY <1>1, <3>1 DEF RefreshRead
    <3>2. CASE ~(q = p /\ s = r)
      BY <1>1, <3>2 DEF RefreshRead
    <3> QED
      BY <3>1, <3>2
  <2> QED
    BY <2>1, <2>2
<1>2. ASSUME Finish(p, r) PROVE RefreshesMissOnlyTheWindow'
  <2> SUFFICES ASSUME NEW q \in Pods, NEW s \in reading'[q]
               PROVE  listed \subseteq fetched'[q][s] \cup since'[q][s]
    OBVIOUS
  <2>1. ~(q = p /\ s = r) /\ s \in reading[q]
    BY <1>2 DEF Finish
  <2>2. fetched'[q][s] = fetched[q][s] /\ since'[q][s] = since[q][s]
    BY <1>2, <2>1 DEF Finish
  <2> QED
    BY <2>1, <2>2
<1>3. CASE RefreshOverflow(p, r)
  BY <1>2, <1>3 DEF RefreshOverflow
<1>4. CASE RefreshSwap(p, r)
  <2>1. r \in reading[p] /\ listed \subseteq fetched[p][r] \cup since[p][r]
    BY <1>4 DEF RefreshSwap, Finish
  <2>2. MissesOnlyTheWindow'
    BY <1>4, <2>1 DEF RefreshSwap
  <2> QED
    BY <1>2, <1>4, <2>2 DEF RefreshSwap
<1>5. CASE RefreshFail(p, r)
  BY <1>2, <1>5 DEF RefreshFail
<1> QED
  BY <1>1, <1>3, <1>4, <1>5 DEF Refresh

(* The other steps of a pod: a set only grows, or is forgotten and not ready. *)
LEMMA PodPreserves ==
  ASSUME IInv, TypeOK', NEW p \in Pods, PodStep(p), UNCHANGED listed
  PROVE  MissesOnlyTheWindow' /\ RefreshesMissOnlyTheWindow'
<1> USE DEF IInv, TypeOK, MissesOnlyTheWindow, RefreshesMissOnlyTheWindow
<1>1. CASE \E r \in Refreshers : Refresh(p, r)
  BY <1>1, RefreshPreserves
<1>2. CASE \E ip \in Ips : Add(p, ip)
  BY <1>2 DEF Add
<1>3. CASE Forget(p)
  <2>1. \A q \in Pods : ready'[q] => q # p
    BY <1>3 DEF Forget
  <2>2. MissesOnlyTheWindow'
    BY <1>3, <2>1 DEF Forget
  <2>3. \A q \in Pods : \A s \in reading'[q] : q # p
    BY <1>3 DEF Forget
  <2>4. RefreshesMissOnlyTheWindow'
    BY <1>3, <2>3 DEF Forget
  <2> QED
    BY <2>2, <2>4
<1> QED
  BY <1>1, <1>2, <1>3 DEF PodStep

(* An IP that a ready set misses was listed after the query the set was       *)
(* filled from, through any overlap of refreshes, local bans, restarts and    *)
(* changes of the database.                                                   *)
THEOREM FastPathSafe == Safety => []MissesOnlyTheWindow
<1>1. Init => IInv
  BY DEF Init, CacheInit, IInv, TypeOK, MissesOnlyTheWindow, RefreshesMissOnlyTheWindow
<1>2. IInv /\ TypeOK' /\ [Next]_vars => IInv'
  <2> SUFFICES ASSUME IInv, TypeOK', [Next]_vars
               PROVE  MissesOnlyTheWindow' /\ RefreshesMissOnlyTheWindow'
    BY DEF IInv
  <2>1. CASE DbChanges
    BY <2>1, DbPreserves
  <2>2. CASE \E p \in Pods : PodStep(p) /\ UNCHANGED listed
    BY <2>2, PodPreserves
  <2>3. CASE UNCHANGED vars
    BY <2>3 DEF vars, cacheVars, IInv, MissesOnlyTheWindow, RefreshesMissOnlyTheWindow
  <2> QED
    BY <2>1, <2>2, <2>3 DEF Next
<1>3. IInv => MissesOnlyTheWindow
  BY DEF IInv
<1> QED
  BY <1>1, <1>2, <1>3, TypeCorrect, PTL DEF Safety
=============================================================================
