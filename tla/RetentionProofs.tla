-------------------------- MODULE RetentionProofs --------------------------
(***************************************************************************)
(* The safety of hashing and retention for any number of logs, hashers and *)
(* clusters, any digests, threshold and batch sizes: campaigns stay apart, *)
(* their counts cover their members, and the watermark skips only what     *)
(* committed late.                                                         *)
(***************************************************************************)
EXTENDS Retention, FiniteSetTheorems, WellFoundedInduction, TLAPS

-----------------------------------------------------------------------------
(* What the operators of the model return.                                  *)

(* A set of numbers that is not empty has a least one. *)
LEMMA LeastExists ==
  ASSUME NEW S \in SUBSET Nat, S # {}
  PROVE  \E m \in S : \A n \in S : m <= n
<1> DEFINE R == {ss \in Nat \X Nat : ss[1] < ss[2]}
<1>1. IsWellFoundedOn(R, Nat)
  BY NatLessThanWellFounded, Zenon DEF OpToRel
<1> HIDE DEF R
<1>2. PICK m \in S : \A n \in S : ~(<<n, m>> \in R)
  BY <1>1, WFMin
<1>3. \A n \in S : ~(n < m)
  BY <1>2 DEF R
<1> QED
  BY <1>3

LEMMA MinIsLeast ==
  ASSUME NEW S \in SUBSET Nat, S # {}
  PROVE  Min(S) \in S /\ \A n \in S : Min(S) <= n
BY LeastExists DEF Min

(* A finite one has a greatest: that with the fewest above it. *)
LEMMA MaxIsGreatest ==
  ASSUME NEW S \in SUBSET Nat, S # {}, IsFiniteSet(S)
  PROVE  Max(S) \in S /\ \A n \in S : n <= Max(S)
<1> DEFINE Above(x) == {y \in S : y > x}
           sizes == {Cardinality(Above(x)) : x \in S}
<1>1. \A x \in S : IsFiniteSet(Above(x)) /\ Cardinality(Above(x)) \in Nat
  BY FS_Subset, FS_CardinalityType
<1>2. PICK x \in S : \A y \in S : Cardinality(Above(x)) <= Cardinality(Above(y))
  <2> HIDE DEF Above
  <2>1. sizes \in SUBSET Nat /\ sizes # {}
    BY <1>1
  <2>2. PICK m \in sizes : \A n \in sizes : m <= n
    BY <2>1, LeastExists
  <2> QED
    BY <2>2
<1>3. ASSUME NEW y \in S, y > x PROVE FALSE
  <2>1. ASSUME NEW z \in Above(y) PROVE z \in Above(x)
    <3>1. z \in Nat /\ x \in Nat /\ y \in Nat /\ z > y
      OBVIOUS
    <3> QED
      BY <3>1, <1>3
  <2>2. y \in Above(x) /\ y \notin Above(y)
    BY <1>3
  <2> HIDE DEF Above
  <2>3. Above(y) \in SUBSET Above(x) /\ Above(y) # Above(x)
    BY <2>1, <2>2
  <2>4. Cardinality(Above(y)) < Cardinality(Above(x))
    BY <1>1, <2>3, FS_Subset
  <2> QED
    BY <1>1, <1>2, <2>4
<1> HIDE DEF Above
<1>4. \A y \in S : x >= y
  <2> SUFFICES ASSUME NEW y \in S PROVE x >= y
    OBVIOUS
  <2>1. x \in Nat /\ y \in Nat /\ ~(y > x)
    BY <1>3
  <2> QED
    BY <2>1
<1>5. Max(S) \in S /\ \A y \in S : Max(S) >= y
  BY <1>4 DEF Max
<1>6. ASSUME NEW n \in S PROVE n <= Max(S)
  <2>1. Max(S) \in Nat /\ n \in Nat /\ Max(S) >= n
    BY <1>5
  <2> QED
    BY <2>1
<1> QED
  BY <1>5, <1>6

(* The first n ids are ids, n at most, and none that was left out is below   *)
(* one of them.                                                             *)
LEMMA FirstOfIsPrefix ==
  ASSUME NEW ids \in SUBSET Nat, IsFiniteSet(ids), NEW n \in Nat
  PROVE  /\ FirstOf(ids, n) \subseteq ids
         /\ \A l \in ids \ FirstOf(ids, n) : \A k \in FirstOf(ids, n) : k < l
<1> DEFINE Below(l) == {k \in ids : k < l}
<1>1. \A l \in ids : IsFiniteSet(Below(l)) /\ Cardinality(Below(l)) \in Nat
  BY FS_Subset, FS_CardinalityType
<1>2. ASSUME NEW l \in ids \ FirstOf(ids, n), NEW k \in FirstOf(ids, n), ~(k < l)
      PROVE  FALSE
  <2>1. k \in ids /\ l \in ids /\ Cardinality(Below(k)) < n /\ ~(Cardinality(Below(l)) < n)
    BY <1>2 DEF FirstOf
  <2>2. Below(l) \in SUBSET Below(k)
    <3> SUFFICES ASSUME NEW j \in ids, j < l PROVE j < k
      OBVIOUS
    <3>1. j \in Nat /\ k \in Nat /\ l \in Nat
      BY <2>1
    <3> QED
      BY <3>1, <1>2
  <2> HIDE DEF Below
  <2>3. Cardinality(Below(l)) <= Cardinality(Below(k))
    BY <1>1, <2>1, <2>2, FS_Subset
  <2> QED
    BY <1>1, <2>1, <2>3
<1> QED
  BY <1>2 DEF FirstOf

(* There are no more of them than n: the number of smaller ids tells them    *)
(* apart and is below n.                                                     *)
LEMMA FirstOfAtMost ==
  ASSUME NEW ids \in SUBSET Nat, IsFiniteSet(ids), NEW n \in Nat
  PROVE  Cardinality(FirstOf(ids, n)) <= n
<1> DEFINE Below(l) == {k \in ids : k < l}
           first == FirstOf(ids, n)
           f == [l \in first |-> Cardinality(Below(l))]
<1>1. \A l \in ids : IsFiniteSet(Below(l)) /\ Cardinality(Below(l)) \in Nat
  BY FS_Subset, FS_CardinalityType
<1>2. first \subseteq ids /\ \A l \in first : Cardinality(Below(l)) \in 0 .. n - 1
  BY <1>1 DEF FirstOf
<1>3. ASSUME NEW k \in first, NEW l \in first, k < l
      PROVE  Cardinality(Below(k)) < Cardinality(Below(l))
  <2>1. k \in ids /\ l \in ids /\ k \in Nat /\ l \in Nat
    BY <1>2
  <2>2. Below(k) \in SUBSET Below(l)
    <3> SUFFICES ASSUME NEW j \in ids, j < k PROVE j < l
      OBVIOUS
    <3>1. j \in Nat
      OBVIOUS
    <3> QED
      BY <2>1, <3>1, <1>3
  <2>3. k \in Below(l) /\ k \notin Below(k)
    BY <2>1, <1>3
  <2> HIDE DEF Below
  <2>4. Below(k) # Below(l)
    BY <2>3
  <2> QED
    BY <1>1, <2>1, <2>2, <2>4, FS_Subset
<1>4. f \in [first -> 0 .. n - 1]
  <2> HIDE DEF Below, first
  <2> QED
    BY <1>2
<1>5. f \in Injection(first, 0 .. n - 1)
  <2>1. \A k, l \in first : f[k] = f[l] => k = l
    <3> SUFFICES ASSUME NEW k \in first, NEW l \in first, f[k] = f[l], k # l PROVE FALSE
      OBVIOUS
    <3>1. k \in Nat /\ l \in Nat /\ k \in ids /\ l \in ids
      BY <1>2
    <3>2. k < l \/ l < k
      BY <3>1
    <3> HIDE DEF Below, first
    <3>3. Cardinality(Below(k)) # Cardinality(Below(l))
      BY <1>1, <1>3, <3>1, <3>2
    <3> QED
      BY <3>3
  <2> HIDE DEF f
  <2> QED
    BY <1>4, <2>1 DEF Injection, IsInjective
<1>6. IsFiniteSet(0 .. n - 1) /\ Cardinality(0 .. n - 1) = n
  BY FS_Interval
<1> HIDE DEF f
<1> QED
  BY <1>5, <1>6, FS_Injection

-----------------------------------------------------------------------------
(* CampaignsApart is not inductive: whether a hasher may start a campaign    *)
(* rests on what it loaded, and what was started since.                      *)

(* A hasher knows every campaign, or it was started since it looked. *)
KnowsOrMissed ==
  \A h \in Hashers : pc[h] \notin {"idle", "query"} => clusters \subseteq reps[h] \cup unseen[h]

(* Whatever may be compared with a digest has a digest. *)
RepsHash ==
  /\ \A c \in clusters : rep[c] \in Int
  /\ \A h \in Hashers : \A c \in reps[h] : rep[c] \in Int

CampaignInv == CampaignsApart /\ KnowsOrMissed /\ RepsHash

(* CountCoversMembers is not either: an assignment is counted before it is   *)
(* written.                                                                  *)
Stamps == Hashers \X (Logs \X ClusterIds)
Pending(c) == {p \in Stamps : p[2] \in stamps[p[1]] /\ p[2][2] = c}
LogsOf(c) == {l \in Logs : cluster[l] = c}
FilesOf(c) == {l \in Logs : fileCluster[l] = c}

CountInv ==
  \A c \in clusters :
    count[c] >= Cardinality(LogsOf(c)) + Cardinality(FilesOf(c)) + Cardinality(Pending(c))

(* Nor is SkipsOnlyOvertaken: the mark moves by what a run has done so far.  *)
Settled(l) == row[l] \in {"visible", "gone"}
HashingPhases == {"chunk", "assign", "advance"}

(* What a run holds are ids of logs that were visible; it starts from no     *)
(* further than the mark; what is left of its batch comes after its chunk;   *)
(* and it passes without a campaign only what has no digest.                 *)
HoldsSettled(h) ==
  /\ pc[h] = "query" => from[h] <= watermark
  /\ pc[h] \notin {"assign", "advance"} => chunk[h] = {}
  /\ pc[h] \in HashingPhases => \A l \in batch[h] \cup chunk[h] : Settled(l)
  /\ pc[h] \in {"assign", "advance"} => \A k \in chunk[h], l \in batch[h] : k < l
  /\ \A s \in stamps[h] : s[2] = None => s[1] \in blank

(* What a run still has to stamp, of what it has read the ids of. *)
Due(h) ==
  batch[h] \cup (IF pc[h] = "assign" THEN read[h] \cup {s[1] : s \in stamps[h]} ELSE {})

(* The logs that SkipsOnlyOvertaken is about. *)
Overlooked == {l \in Visible : l \notin blank /\ l \notin overtaken /\ cluster[l] = None}

(* Of those up to where the run has read, none is missing in it. *)
HoldsOverlooked(h) ==
  pc[h] \in HashingPhases =>
    \A l \in Overlooked : \A k \in batch[h] \cup chunk[h] : l <= k => l \in Due(h)

MarkSettled == watermark # 0 => row[watermark] \in {"visible", "gone"}

MarkInv ==
  /\ SkipsOnlyOvertaken
  /\ MarkSettled
  /\ \A h \in Hashers : HoldsSettled(h) /\ HoldsOverlooked(h)

-----------------------------------------------------------------------------
(* Types.                                                                    *)

(* What a new cluster id is not: known to anybody. *)
LEMMA FreshIsNew ==
  ASSUME NEW c, NEW d, NEW hidden, StartCluster(c, d, hidden)
  PROVE  /\ c \in ClusterIds /\ c \notin clusters
         /\ \A l \in Logs : cluster[l] # c /\ fileCluster[l] # c
         /\ \A h \in Hashers : c \notin reps[h] /\ \A s \in stamps[h] : s[2] # c
<1>1. c \in Fresh
  BY DEF StartCluster
<1> QED
  BY <1>1 DEF Fresh

LEMMA ClusterTypes ==
  ASSUME TypeOK, NEW known \in SUBSET ClusterIds, NEW d \in Int, NEW c \in ClusterIds,
         NEW hidden \in SUBSET ClusterIds,
         JoinCluster(known, d, c) \/ StartCluster(c, d, hidden)
  PROVE  /\ clusters' \in SUBSET ClusterIds
         /\ rep' \in [ClusterIds -> Int \cup {None}]
         /\ count' \in [ClusterIds -> Nat]
         /\ blind' \in [ClusterIds -> SUBSET ClusterIds]
<1>1. CASE JoinCluster(known, d, c)
  BY <1>1 DEF TypeOK, JoinCluster
<1>2. CASE StartCluster(c, d, hidden)
  BY <1>2 DEF TypeOK, StartCluster
<1> QED
  BY <1>1, <1>2

LEMMA LogTypes ==
  ASSUME TypeOK, NEW l \in Logs, Capture(l) \/ Lose(l) \/ Insert(l) \/ InsertCaptured(l) \/ Commit(l)
  PROVE  TypeOK'
<1> USE HashingAssumption DEF HashingAssumption
<1>1. CASE Capture(l)
  <2> PICK c \in ClusterIds :
             /\ fileCluster' = [fileCluster EXCEPT ![l] = c]
             /\ \/ JoinCluster(clusters, Digest[l], c) /\ UNCHANGED unseen
                \/ /\ StartCluster(c, Digest[l], {})
                   /\ unseen' = [g \in Hashers |-> unseen[g] \cup {c}]
    BY <1>1 DEF Capture
  <2>1. /\ clusters' \in SUBSET ClusterIds
        /\ rep' \in [ClusterIds -> Int \cup {None}]
        /\ count' \in [ClusterIds -> Nat]
        /\ blind' \in [ClusterIds -> SUBSET ClusterIds]
    <3>1. clusters \in SUBSET ClusterIds /\ {} \in SUBSET ClusterIds /\ Digest[l] \in Int
      BY DEF TypeOK
    <3>2. JoinCluster(clusters, Digest[l], c) \/ StartCluster(c, Digest[l], {})
      OBVIOUS
    <3> QED
      BY <3>1, <3>2, ClusterTypes
  <2>2. unseen' \in [Hashers -> SUBSET ClusterIds]
    BY DEF TypeOK
  <2> QED
    BY <1>1, <2>1, <2>2 DEF TypeOK, Capture, FileStates
<1>2. CASE Lose(l)
  BY <1>2 DEF TypeOK, Lose, FileStates, Event, clusterVars, hasherVars
<1>3. CASE Insert(l)
  <2>1. row' \in [Logs -> {"absent", "captured", "open", "visible", "gone"}]
    BY <1>3 DEF TypeOK, Insert, Stored
  <2>2. file' = file \/ file' = [file EXCEPT ![l] = "unhashed"]
    BY <1>3 DEF Insert
  <2>3. blank' = blank \/ blank' = blank \cup {l}
    BY <1>3 DEF Insert
  <2>4. file' \in [Logs -> FileStates] /\ blank' \in SUBSET Logs
    BY <2>2, <2>3 DEF TypeOK, FileStates
  <2>5. events' \in 0 .. MaxEvents
    BY <1>3 DEF TypeOK, Insert, Event
  <2> QED
    BY <1>3, <2>1, <2>4, <2>5 DEF TypeOK, Insert, Stored, clusterVars, hasherVars
<1>4. CASE InsertCaptured(l)
  BY <1>4 DEF TypeOK, InsertCaptured, Stored, FileStates, clusterVars, hasherVars
<1>5. CASE Commit(l)
  BY <1>5 DEF TypeOK, Commit, fileVars, clusterVars, hasherVars
<1> QED
  BY <1>1, <1>2, <1>3, <1>4, <1>5

(* What a query returns. *)
LEMMA FirstOfTypes ==
  ASSUME NEW ids \in SUBSET Logs, NEW n \in Nat
  PROVE  FirstOf(ids, n) \in SUBSET Logs /\ Cardinality(FirstOf(ids, n)) <= n
<1>1. ids \in SUBSET Nat /\ IsFiniteSet(ids)
  BY HashingAssumption, FS_Subset DEF HashingAssumption
<1> QED
  BY <1>1, FirstOfIsPrefix, FirstOfAtMost

LEMMA AssignTypes ==
  ASSUME TypeOK, NEW h \in Hashers, NEW l \in Logs, AssignCluster(h, l, Digest[l])
  PROVE  /\ clusters' \in SUBSET ClusterIds
         /\ rep' \in [ClusterIds -> Int \cup {None}]
         /\ count' \in [ClusterIds -> Nat]
         /\ blind' \in [ClusterIds -> SUBSET ClusterIds]
         /\ stamps' \in [Hashers -> SUBSET (Logs \X (ClusterIds \cup {None}))]
         /\ reps' \in [Hashers -> SUBSET ClusterIds]
         /\ unseen' \in [Hashers -> SUBSET ClusterIds]
<1> PICK c \in ClusterIds : /\ Join(h, Digest[l], c) \/ Found(h, Digest[l], c)
                            /\ stamps' = [stamps EXCEPT ![h] = @ \cup {<<l, c>>}]
  BY DEF AssignCluster
<1>1. reps[h] \in SUBSET ClusterIds /\ unseen[h] \in SUBSET ClusterIds /\ Digest[l] \in Int
  BY HashingAssumption DEF HashingAssumption, TypeOK
<1>2. JoinCluster(reps[h], Digest[l], c) \/ StartCluster(c, Digest[l], unseen[h])
  BY DEF Join, Found
<1>3. stamps' \in [Hashers -> SUBSET (Logs \X (ClusterIds \cup {None}))]
  BY DEF TypeOK
<1>4. reps' \in [Hashers -> SUBSET ClusterIds] /\ unseen' \in [Hashers -> SUBSET ClusterIds]
  <2>1. CASE Join(h, Digest[l], c)
    BY <2>1 DEF Join, TypeOK
  <2>2. CASE Found(h, Digest[l], c)
    BY <2>2 DEF Found, UnseenByOthers, TypeOK
  <2> QED
    BY <2>1, <2>2
<1> QED
  BY <1>1, <1>2, <1>3, <1>4, ClusterTypes

LEMMA StampedTypes ==
  ASSUME TypeOK, NEW h \in Hashers, NEW column \in [Logs -> ClusterIds \cup {None}]
  PROVE  Stamped(h, column) \in [Logs -> ClusterIds \cup {None}]
<1> SUFFICES ASSUME NEW l \in Logs, NEW s \in stamps[h], s[1] = l
             PROVE  (CHOOSE t \in stamps[h] : t[1] = l)[2] \in ClusterIds \cup {None}
  BY DEF Stamped
<1>1. (CHOOSE t \in stamps[h] : t[1] = l) \in stamps[h]
  OBVIOUS
<1> QED
  BY <1>1 DEF TypeOK

LEMMA StoppedTypes ==
  ASSUME TypeOK, NEW h \in Hashers, Stopped(h), events' \in 0 .. MaxEvents
  PROVE  TypeOK'
<1>1. Cardinality({}) <= MaxLogsPerRun /\ Cardinality({}) <= ChunkSize
  BY HashingAssumption, FS_EmptySet DEF HashingAssumption
<1> QED
  BY <1>1 DEF TypeOK, Stopped, Goto, logVars, fileVars, clusterVars

(* The steps of a hasher that hold no more than it held. *)
LEMMA RunTypes ==
  ASSUME TypeOK, NEW h \in Hashers,
         \/ ReadWatermark(h) \/ AssignNothing(h) \/ Assign(h) \/ AssignFile(h)
         \/ Stamp(h) \/ AdvanceWatermark(h)
  PROVE  TypeOK'
<1> USE HashingAssumption DEF HashingAssumption
<1>1. CASE ReadWatermark(h)
  BY <1>1 DEF TypeOK, ReadWatermark, Goto, Event, logVars, fileVars, clusterVars
<1>2. CASE AssignNothing(h)
  <2> PICK l \in read[h] \cap blank :
             /\ stamps' = [stamps EXCEPT ![h] = @ \cup {<<l, None>>}]
             /\ read' = [read EXCEPT ![h] = @ \ {l}]
    BY <1>2 DEF AssignNothing
  <2>1. read' \in [Hashers -> SUBSET Logs]
    BY DEF TypeOK
  <2>2. stamps' \in [Hashers -> SUBSET (Logs \X (ClusterIds \cup {None}))]
    BY DEF TypeOK
  <2> QED
    BY <1>2, <2>1, <2>2 DEF TypeOK, AssignNothing, logVars, fileVars, clusterVars
<1>3. CASE Assign(h)
  <2> PICK l \in read[h] \ blank : /\ AssignCluster(h, l, Digest[l])
                                   /\ read' = [read EXCEPT ![h] = @ \ {l}]
    BY <1>3 DEF Assign
  <2>1. l \in Logs /\ read' \in [Hashers -> SUBSET Logs]
    BY DEF TypeOK
  <2> QED
    BY <1>3, <2>1, AssignTypes DEF TypeOK, Assign, logVars, fileVars
<1>4. CASE AssignFile(h)
  <2>1. Min(batch[h]) \in Logs
    <3>1. batch[h] \in SUBSET Nat /\ batch[h] \in SUBSET Logs /\ batch[h] # {}
      BY <1>4 DEF AssignFile, TypeOK
    <3> QED
      BY <3>1, MinIsLeast
  <2> QED
    BY <1>4, <2>1, AssignTypes DEF TypeOK, AssignFile, logVars, fileVars
<1>5. CASE Stamp(h)
  <2>1. cluster' \in [Logs -> ClusterIds \cup {None}]
    BY <1>5, StampedTypes DEF TypeOK, Stamp
  <2> QED
    BY <1>5, <2>1 DEF TypeOK, Stamp, Goto, logVars, fileVars, clusterVars
<1>6. CASE AdvanceWatermark(h)
  <2>1. watermark' \in Logs \cup {0}
    <3>1. chunk[h] \in SUBSET Logs /\ watermark \in Logs \cup {0}
      BY DEF TypeOK
    <3>2. IsFiniteSet(chunk[h])
      BY <3>1, FS_Subset
    <3>3. IsFiniteSet(chunk[h] \cup {watermark})
      BY <3>2, FS_AddElement
    <3>4. chunk[h] \cup {watermark} \in SUBSET Nat
      <4>1. watermark \in Nat
        BY <3>1
      <4>2. chunk[h] \in SUBSET Nat
        BY <3>1
      <4> QED
        BY <4>1, <4>2, Zenon
    <3>5. Max(chunk[h] \cup {watermark}) \in chunk[h] \cup {watermark}
      BY <3>3, <3>4, MaxIsGreatest
    <3> QED
      BY <1>6, <3>1, <3>5 DEF AdvanceWatermark
  <2>2. Cardinality({}) <= ChunkSize
    BY FS_EmptySet
  <2> QED
    BY <1>6, <2>1, <2>2 DEF TypeOK, AdvanceWatermark, Goto, logVars, fileVars, clusterVars
<1> QED
  BY <1>1, <1>2, <1>3, <1>4, <1>5, <1>6

(* Those that change a batch or a chunk. *)
LEMMA BatchTypes ==
  ASSUME TypeOK, NEW h \in Hashers,
         PendingLogIds(h) \/ ReadChunk(h) \/ QueryFiles(h) \/ SkipFile(h) \/ StampFile(h)
  PROVE  TypeOK'
<1> USE HashingAssumption DEF HashingAssumption
<1>1. CASE PendingLogIds(h)
  <2>1. batch'[h] \in SUBSET Logs /\ Cardinality(batch'[h]) <= MaxLogsPerRun
    BY <1>1, FirstOfTypes DEF PendingLogIds, Visible, TypeOK
  <2> QED
    BY <1>1, <2>1 DEF TypeOK, PendingLogIds, ClusterReps, Goto, logVars, fileVars, clusterVars
<1>2. CASE ReadChunk(h)
  <2>1. batch[h] \in SUBSET Logs /\ IsFiniteSet(batch[h])
    BY FS_Subset DEF TypeOK
  <2>2. chunk'[h] \in SUBSET Logs /\ Cardinality(chunk'[h]) <= ChunkSize
    BY <1>2, <2>1, FirstOfTypes DEF ReadChunk, TypeOK
  <2>3. batch'[h] \in SUBSET Logs /\ Cardinality(batch'[h]) <= Cardinality(batch[h])
    <3>1. batch'[h] = batch[h] \ chunk'[h]
      BY <1>2 DEF ReadChunk, TypeOK
    <3> QED
      BY <2>1, <3>1, FS_Subset
  <2>4. Cardinality(batch[h]) \in Nat /\ Cardinality(batch'[h]) \in Nat
    BY <2>1, <2>3, FS_CardinalityType, FS_Subset
  <2>5. Cardinality(batch'[h]) <= MaxLogsPerRun \/ Cardinality(batch'[h]) <= MaxFilesPerRun
    BY <2>3, <2>4 DEF TypeOK
  <2>6. /\ batch' \in [Hashers -> SUBSET Logs] /\ chunk' \in [Hashers -> SUBSET Logs]
        /\ \A g \in Hashers : g # h => batch'[g] = batch[g] /\ chunk'[g] = chunk[g]
    BY <1>2, <2>2, <2>3 DEF ReadChunk, TypeOK
  <2>7. read' \in [Hashers -> SUBSET Logs]
    BY <1>2, <2>2 DEF ReadChunk, TypeOK
  <2> QED
    BY <1>2, <2>2, <2>5, <2>6, <2>7 DEF TypeOK, ReadChunk, Goto, logVars, fileVars, clusterVars
<1>3. CASE QueryFiles(h)
  <2>1. batch'[h] \in SUBSET Logs /\ Cardinality(batch'[h]) <= MaxFilesPerRun
    BY <1>3, FirstOfTypes DEF QueryFiles, UnhashedFiles, Visible, TypeOK
  <2> QED
    BY <1>3, <2>1 DEF TypeOK, QueryFiles, ClusterReps, Goto, logVars, fileVars, clusterVars
<1>4. ASSUME batch' = [batch EXCEPT ![h] = @ \ {Min(@)}]
      PROVE  /\ batch' \in [Hashers -> SUBSET Logs]
             /\ \A g \in Hashers : Cardinality(batch'[g]) <= MaxLogsPerRun \/ Cardinality(batch'[g]) <= MaxFilesPerRun
  <2>1. batch[h] \in SUBSET Logs /\ IsFiniteSet(batch[h])
    BY FS_Subset DEF TypeOK
  <2>2. batch'[h] \in SUBSET batch[h]
    BY <1>4 DEF TypeOK
  <2>3. /\ Cardinality(batch[h]) \in Nat /\ Cardinality(batch'[h]) \in Nat
        /\ Cardinality(batch'[h]) <= Cardinality(batch[h])
    BY <2>1, <2>2, FS_CardinalityType, FS_Subset
  <2>4. Cardinality(batch'[h]) <= MaxLogsPerRun \/ Cardinality(batch'[h]) <= MaxFilesPerRun
    BY <2>3 DEF TypeOK
  <2> QED
    BY <1>4, <2>4 DEF TypeOK
<1>5. CASE SkipFile(h)
  BY <1>4, <1>5 DEF TypeOK, SkipFile, logVars, fileVars, clusterVars
<1>6. CASE StampFile(h)
  <2>1. fileCluster' \in [Logs -> ClusterIds \cup {None}]
    BY <1>6, StampedTypes DEF TypeOK, StampFile
  <2> QED
    BY <1>4, <1>6, <2>1 DEF TypeOK, StampFile, FileStates, logVars, clusterVars
<1> QED
  BY <1>1, <1>2, <1>3, <1>5, <1>6

LEMMA HasherTypes ==
  ASSUME TypeOK, NEW h \in Hashers, HasherStep(h) \/ Crash(h)
  PROVE  TypeOK'
<1>1. CASE Done(h) \/ StampRefused(h) \/ Crash(h)
  <2>1. Stopped(h) /\ events' \in 0 .. MaxEvents
    BY <1>1, HashingAssumption DEF HashingAssumption, Done, StampRefused, Crash, Event, TypeOK
  <2> QED
    BY <2>1, StoppedTypes
<1> QED
  BY <1>1, RunTypes, BatchTypes DEF HasherStep

LEMMA TypePreserved ==
  RetentionTypeOK /\ [Next]_allVars => RetentionTypeOK'
<1> SUFFICES ASSUME RetentionTypeOK, [Next]_allVars PROVE RetentionTypeOK'
  OBVIOUS
<1>1. CASE Hashing /\ UNCHANGED retentionVars
  <2>1. TypeOK'
    BY <1>1, LogTypes, HasherTypes DEF Hashing, RetentionTypeOK
  <2>2. Visible \subseteq Visible'
    <3> SUFFICES ASSUME NEW l \in Logs, row[l] = "visible" PROVE row'[l] = "visible"
      BY DEF Visible
    <3>1. ASSUME NEW k \in Logs, Capture(k) \/ Lose(k) \/ Insert(k) \/ InsertCaptured(k) \/ Commit(k)
          PROVE  row'[l] = "visible"
      BY <3>1 DEF Capture, Lose, Insert, InsertCaptured, Stored, Commit, RetentionTypeOK, TypeOK
    <3>2. ASSUME NEW h \in Hashers, HasherStep(h) \/ Crash(h) PROVE row' = row
      BY <3>2 DEF HasherStep, ReadWatermark, PendingLogIds, ReadChunk, Assign, AssignNothing, Stamp,
                  AdvanceWatermark, QueryFiles, SkipFile, AssignFile, StampFile, Done, StampRefused,
                  Crash, Stopped, logVars
    <3> QED
      BY <1>1, <3>1, <3>2 DEF Hashing
  <2> QED
    BY <1>1, <2>1, <2>2 DEF RetentionTypeOK, retentionVars
<1>2. CASE Age
  <2>1. Min(Visible \ old) \in Visible
    <3>1. Visible \ old \in SUBSET Nat /\ Visible \ old # {}
      BY <1>2, HashingAssumption DEF HashingAssumption, Age, Visible
    <3> QED
      BY <3>1, MinIsLeast
  <2>2. TypeOK' /\ Visible' = Visible
    BY <1>2 DEF Age, RetentionTypeOK, TypeOK, Visible, vars, logVars, fileVars, clusterVars, hasherVars
  <2> QED
    BY <1>2, <2>1, <2>2 DEF Age, RetentionTypeOK
<1>3. CASE Unflag
  <2>1. TypeOK' /\ Visible' = Visible
    BY <1>3 DEF Unflag, RetentionTypeOK, TypeOK, Visible, vars, logVars, fileVars, clusterVars, hasherVars
  <2> QED
    BY <1>3, <2>1 DEF Unflag, RetentionTypeOK
<1>4. CASE DeleteBatch
  <2>1. TypeOK'
    BY <1>4 DEF DeleteBatch, RetentionTypeOK, TypeOK, clusterVars, hasherVars, FileStates
  <2>2. old' \in SUBSET Visible'
    BY <1>4 DEF DeleteBatch, RetentionTypeOK, Visible
  <2> QED
    BY <1>4, <2>1, <2>2 DEF DeleteBatch, RetentionTypeOK
<1>5. CASE SweepClusters
  <2>1. TypeOK' /\ Visible' = Visible
    BY <1>5 DEF SweepClusters, RetentionTypeOK, TypeOK, Visible, logVars, fileVars, hasherVars
  <2> QED
    BY <1>5, <2>1 DEF SweepClusters, RetentionTypeOK, retentionVars
<1>6. CASE UNCHANGED allVars
  <2>1. TypeOK' /\ Visible' = Visible
    BY <1>6 DEF allVars, RetentionTypeOK, TypeOK, Visible, vars, logVars, fileVars, clusterVars, hasherVars
  <2> QED
    BY <1>6, <2>1 DEF allVars, retentionVars, RetentionTypeOK
<1> QED
  BY <1>1, <1>2, <1>3, <1>4, <1>5, <1>6 DEF Next

(* The types hold in every state of hashing and retention: no batch, chunk or *)
(* run exceeds its limits, and what is old is still there.                   *)
THEOREM TypeCorrect == Spec => []RetentionTypeOK
<1>1. RetentionInit => RetentionTypeOK
  <2>1. Cardinality({}) <= MaxLogsPerRun /\ Cardinality({}) <= ChunkSize
    BY HashingAssumption, FS_EmptySet DEF HashingAssumption
  <2> QED
    BY <2>1, HashingAssumption DEF HashingAssumption, RetentionInit, RetentionTypeOK, Init, TypeOK, FileStates
<1> QED
  BY <1>1, TypePreserved, PTL DEF Spec

-----------------------------------------------------------------------------
(* Campaigns.                                                                *)

LEMMA DistanceType ==
  ASSUME NEW a \in Int, NEW b \in Int
  PROVE  Distance(a, b) \in Nat /\ Distance(a, b) = Distance(b, a)
BY DEF Distance

(* Whoever finds no cluster to join has none within the threshold: among     *)
(* those there would be a nearest.                                           *)
LEMMA NoMatchNoneNear ==
  ASSUME NEW known, \A c \in known : rep[c] \in Int, NEW d \in Int, Matches(known, d) = {}
  PROVE  \A c \in known : ~Near(d, rep[c])
<1> SUFFICES ASSUME NEW b \in known, Near(d, rep[b]) PROVE FALSE
  OBVIOUS
<1> DEFINE near == {c \in known : Near(d, rep[c])}
           distances == {Distance(d, rep[c]) : c \in near}
<1>1. distances \in SUBSET Nat /\ distances # {}
  BY DistanceType
<1>2. PICK m \in distances : \A n \in distances : m <= n
  BY <1>1, LeastExists
<1>3. PICK c \in near : Distance(d, rep[c]) = m
  OBVIOUS
<1>4. c \in Matches(known, d)
  BY <1>2, <1>3 DEF Matches
<1> QED
  BY <1>4

(* A cluster that is started with what it might have joined among the hidden *)
(* ones keeps campaigns apart.                                               *)
LEMMA StartKeepsApart ==
  ASSUME TypeOK, CampaignInv, NEW c, NEW d \in Int, NEW hidden,
         StartCluster(c, d, hidden),
         \A b \in clusters : Near(d, rep[b]) => b \in hidden
  PROVE  /\ CampaignsApart'
         /\ \A b \in clusters' : rep'[b] \in Int
         /\ \A h \in Hashers : \A b \in reps[h] : rep'[b] \in Int
<1>1. /\ c \in ClusterIds /\ c \notin clusters /\ clusters' = clusters \cup {c}
      /\ \A h \in Hashers : c \notin reps[h]
  BY FreshIsNew DEF StartCluster
<1>2. rep'[c] = d /\ \A b \in ClusterIds : b # c => rep'[b] = rep[b]
  BY <1>1 DEF StartCluster, TypeOK
<1>3. blind'[c] = hidden /\ \A b \in ClusterIds : b # c => blind'[b] = blind[b] \ {c}
  BY <1>1 DEF StartCluster
<1>4. ASSUME NEW b \in clusters', NEW e \in clusters', b # e, Near(rep'[b], rep'[e])
      PROVE  b \in blind'[e] \/ e \in blind'[b]
  <2>1. b \in ClusterIds /\ e \in ClusterIds
    BY <1>1 DEF TypeOK
  <2>2. CASE b # c /\ e # c
    <3>1. b \in clusters /\ e \in clusters /\ Near(rep[b], rep[e])
      BY <1>1, <1>2, <1>4, <2>1, <2>2
    <3>2. b \in blind[e] \/ e \in blind[b]
      BY <1>4, <3>1 DEF CampaignInv, CampaignsApart
    <3> QED
      BY <1>3, <2>1, <2>2, <3>2
  <2>3. CASE b = c
    <3>1. e \in clusters /\ rep'[e] = rep[e] /\ Near(d, rep[e])
      BY <1>1, <1>2, <1>4, <2>1, <2>3
    <3> QED
      BY <1>3, <2>3, <3>1
  <2>4. CASE e = c
    <3>1. b \in clusters /\ rep'[b] = rep[b] /\ Near(rep[b], d)
      BY <1>1, <1>2, <1>4, <2>1, <2>4
    <3>2. Near(d, rep[b])
      <4>1. rep[b] \in Int
        BY <3>1 DEF CampaignInv, RepsHash
      <4> QED
        BY <3>1, <4>1, DistanceType DEF Near
    <3> QED
      BY <1>3, <2>4, <3>1, <3>2
  <2> QED
    BY <2>2, <2>3, <2>4
<1>5. \A b \in clusters' : rep'[b] \in Int
  BY <1>1, <1>2 DEF CampaignInv, RepsHash, TypeOK
<1>6. \A h \in Hashers : \A b \in reps[h] : rep'[b] \in Int
  BY <1>1, <1>2 DEF CampaignInv, RepsHash, TypeOK
<1> QED
  BY <1>4, <1>5, <1>6 DEF CampaignsApart

(* A hasher that assigns. *)
LEMMA AssignKeepsCampaigns ==
  ASSUME TypeOK, CampaignInv, NEW h \in Hashers, NEW l \in Logs,
         AssignCluster(h, l, Digest[l]),
         pc[h] \notin {"idle", "query"}, UNCHANGED pc
  PROVE  CampaignInv'
<1> DEFINE d == Digest[l]
<1>1. d \in Int
  BY HashingAssumption DEF HashingAssumption
<1> HIDE DEF d
<1> PICK c \in ClusterIds : Join(h, d, c) \/ Found(h, d, c)
  BY DEF AssignCluster, d
<1>2. CASE Join(h, d, c)
  <2>1. UNCHANGED <<clusters, rep, blind, reps, unseen>>
    BY <1>2 DEF Join, JoinCluster
  <2> QED
    BY <2>1 DEF CampaignInv, CampaignsApart, KnowsOrMissed, RepsHash
<1>3. CASE Found(h, d, c)
  <2>1. StartCluster(c, d, unseen[h]) /\ UnseenByOthers(h, c)
    BY <1>3 DEF Found
  <2>2. \A b \in clusters : Near(d, rep[b]) => b \in unseen[h]
    <3>1. \A b \in reps[h] : ~Near(d, rep[b])
      BY <1>1, <1>3, NoMatchNoneNear DEF Found, CampaignInv, RepsHash
    <3>2. clusters \subseteq reps[h] \cup unseen[h]
      BY DEF CampaignInv, KnowsOrMissed
    <3> QED
      BY <3>1, <3>2
  <2>3. /\ CampaignsApart' /\ \A b \in clusters' : rep'[b] \in Int
        /\ \A g \in Hashers : \A b \in reps[g] : rep'[b] \in Int
    BY <1>1, <2>1, <2>2, StartKeepsApart
  <2>4. clusters' = clusters \cup {c} /\ c \in clusters'
    BY <2>1 DEF StartCluster
  <2>5. reps'[h] = reps[h] \cup {c} /\ \A g \in Hashers : g # h => reps'[g] = reps[g]
    BY <1>3 DEF Found, TypeOK
  <2>6. \A g \in Hashers : g # h => unseen'[g] = unseen[g] \cup {c}
    BY <2>1 DEF UnseenByOthers
  <2>7. unseen'[h] = unseen[h]
    BY <2>1 DEF UnseenByOthers
  <2>8. KnowsOrMissed'
    BY <2>4, <2>5, <2>6, <2>7 DEF CampaignInv, KnowsOrMissed
  <2>9. RepsHash'
    BY <2>3, <2>4, <2>5 DEF RepsHash
  <2> QED
    BY <2>3, <2>8, <2>9 DEF CampaignInv
<1> QED
  BY <1>2, <1>3

(* A request whose file hashes. *)
LEMMA CaptureKeepsCampaigns ==
  ASSUME TypeOK, CampaignInv, NEW l \in Logs, Capture(l)
  PROVE  CampaignInv'
<1> DEFINE d == Digest[l]
<1>1. d \in Int
  BY HashingAssumption DEF HashingAssumption
<1> HIDE DEF d
<1>2. UNCHANGED <<pc, reps>>
  BY DEF Capture
<1> PICK c \in ClusterIds :
           \/ JoinCluster(clusters, d, c) /\ UNCHANGED unseen
           \/ /\ Matches(clusters, d) = {}
              /\ StartCluster(c, d, {})
              /\ unseen' = [g \in Hashers |-> unseen[g] \cup {c}]
  BY DEF Capture, d
<1>3. CASE JoinCluster(clusters, d, c) /\ UNCHANGED unseen
  <2>1. UNCHANGED <<clusters, rep, blind, unseen>>
    BY <1>3 DEF JoinCluster
  <2> QED
    BY <1>2, <2>1 DEF CampaignInv, CampaignsApart, KnowsOrMissed, RepsHash
<1>4. CASE /\ Matches(clusters, d) = {}
           /\ StartCluster(c, d, {})
           /\ unseen' = [g \in Hashers |-> unseen[g] \cup {c}]
  <2>1. \A b \in clusters : ~Near(d, rep[b])
    BY <1>1, <1>4, NoMatchNoneNear DEF CampaignInv, RepsHash
  <2>2. /\ CampaignsApart' /\ \A b \in clusters' : rep'[b] \in Int
        /\ \A g \in Hashers : \A b \in reps[g] : rep'[b] \in Int
    BY <1>1, <1>4, <2>1, StartKeepsApart
  <2>3. clusters' = clusters \cup {c}
    BY <1>4 DEF StartCluster
  <2>4. KnowsOrMissed'
    BY <1>2, <1>4, <2>3 DEF CampaignInv, KnowsOrMissed
  <2> QED
    BY <1>2, <2>2, <2>4 DEF CampaignInv, RepsHash
<1> QED
  BY <1>3, <1>4

(* Steps that start no campaign, and at most end some. *)
LEMMA OthersKeepCampaigns ==
  ASSUME CampaignInv, clusters' \subseteq clusters, UNCHANGED <<rep, blind, reps, unseen>>,
         \A h \in Hashers : pc'[h] \notin {"idle", "query"} => pc[h] \notin {"idle", "query"}
  PROVE  CampaignInv'
BY DEF CampaignInv, CampaignsApart, KnowsOrMissed, RepsHash

(* A hasher that loads the campaigns, or stops. *)
LEMMA LoadKeepsCampaigns ==
  ASSUME TypeOK, CampaignInv, NEW h \in Hashers,
         UNCHANGED <<clusters, rep, blind>>,
         \/ ClusterReps(h)
         \/ /\ reps' = [reps EXCEPT ![h] = {}]
            /\ unseen' = [unseen EXCEPT ![h] = {}]
            /\ pc'[h] = "idle",
         \A g \in Hashers : g # h => pc'[g] = pc[g]
  PROVE  CampaignInv'
<1>1. \A g \in Hashers : g # h => reps'[g] = reps[g] /\ unseen'[g] = unseen[g]
  BY DEF ClusterReps, TypeOK
<1>2. /\ reps'[h] = clusters \/ reps'[h] = {}
      /\ pc'[h] \notin {"idle", "query"} => reps'[h] = clusters
  BY DEF ClusterReps, TypeOK
<1>3. KnowsOrMissed'
  BY <1>1, <1>2 DEF CampaignInv, KnowsOrMissed
<1>4. RepsHash'
  BY <1>1, <1>2 DEF CampaignInv, RepsHash
<1> QED
  BY <1>3, <1>4 DEF CampaignInv, CampaignsApart

LEMMA CampaignsPreserved ==
  ASSUME RetentionTypeOK, CampaignInv, [Next]_allVars
  PROVE  CampaignInv'
<1> USE DEF RetentionTypeOK
<1>1. ASSUME NEW l \in Logs, Lose(l) \/ Insert(l) \/ InsertCaptured(l) \/ Commit(l)
      PROVE  CampaignInv'
  <2>1. UNCHANGED <<pc, reps, unseen, clusters, rep, blind>>
    BY <1>1 DEF Lose, Insert, InsertCaptured, Stored, Commit, clusterVars, hasherVars
  <2> QED
    BY <2>1, OthersKeepCampaigns
<1>2. ASSUME NEW h \in Hashers,
             \/ ReadWatermark(h) \/ ReadChunk(h) \/ AssignNothing(h) \/ Stamp(h)
             \/ AdvanceWatermark(h) \/ SkipFile(h) \/ StampFile(h)
      PROVE  CampaignInv'
  <2>1. UNCHANGED <<reps, unseen, clusters, rep, blind>>
    BY <1>2 DEF ReadWatermark, ReadChunk, AssignNothing, Stamp, AdvanceWatermark, SkipFile,
                StampFile, clusterVars
  <2>2. \A g \in Hashers : pc'[g] \notin {"idle", "query"} => pc[g] \notin {"idle", "query"}
    BY <1>2 DEF ReadWatermark, ReadChunk, AssignNothing, Stamp, AdvanceWatermark, SkipFile,
                StampFile, Goto, TypeOK
  <2> QED
    BY <2>1, <2>2, OthersKeepCampaigns
<1>3. ASSUME NEW h \in Hashers, Assign(h) \/ AssignFile(h)
      PROVE  CampaignInv'
  <2>1. CASE Assign(h)
    <3> PICK l \in read[h] \ blank : AssignCluster(h, l, Digest[l])
      BY <2>1 DEF Assign
    <3>1. l \in Logs /\ pc[h] \notin {"idle", "query"} /\ UNCHANGED pc
      BY <2>1 DEF Assign, TypeOK
    <3> QED
      BY <3>1, AssignKeepsCampaigns
  <2>2. CASE AssignFile(h)
    <3>1. Min(batch[h]) \in Logs
      <4>1. batch[h] \in SUBSET Nat /\ batch[h] \in SUBSET Logs /\ batch[h] # {}
        BY <2>2, HashingAssumption DEF HashingAssumption, AssignFile, TypeOK
      <4> QED
        BY <4>1, MinIsLeast
    <3>2. pc[h] \notin {"idle", "query"} /\ UNCHANGED pc
      BY <2>2 DEF AssignFile
    <3> QED
      BY <2>2, <3>1, <3>2, AssignKeepsCampaigns DEF AssignFile
  <2> QED
    BY <1>3, <2>1, <2>2
<1>4. ASSUME NEW h \in Hashers, PendingLogIds(h) \/ QueryFiles(h)
      PROVE  CampaignInv'
  <2>1. ClusterReps(h) /\ UNCHANGED <<clusters, rep, blind>>
    BY <1>4 DEF PendingLogIds, QueryFiles, clusterVars
  <2>2. \A g \in Hashers : g # h => pc'[g] = pc[g]
    BY <1>4 DEF PendingLogIds, QueryFiles, Goto, TypeOK
  <2> QED
    BY <2>1, <2>2, LoadKeepsCampaigns
<1>5. ASSUME NEW h \in Hashers, Done(h) \/ StampRefused(h) \/ Crash(h)
      PROVE  CampaignInv'
  <2>1. Stopped(h)
    BY <1>5 DEF Done, StampRefused, Crash
  <2>2. /\ UNCHANGED <<clusters, rep, blind>>
        /\ reps' = [reps EXCEPT ![h] = {}] /\ unseen' = [unseen EXCEPT ![h] = {}]
        /\ pc'[h] = "idle" /\ \A g \in Hashers : g # h => pc'[g] = pc[g]
    BY <2>1 DEF Stopped, Goto, clusterVars, TypeOK
  <2> QED
    BY <2>2, LoadKeepsCampaigns
<1>6. CASE Hashing /\ UNCHANGED retentionVars
  BY <1>1, <1>2, <1>3, <1>4, <1>5, <1>6, CaptureKeepsCampaigns DEF Hashing, HasherStep
<1>7. CASE Age \/ Unflag \/ DeleteBatch \/ SweepClusters \/ UNCHANGED allVars
  <2>1. clusters' \subseteq clusters /\ UNCHANGED <<pc, reps, unseen, rep, blind>>
    BY <1>7 DEF Age, Unflag, DeleteBatch, SweepClusters, allVars, vars, clusterVars, hasherVars
  <2> QED
    BY <2>1, OthersKeepCampaigns
<1> QED
  BY <1>6, <1>7 DEF Next

(* Two campaigns within the threshold come from hashers that ran at the same *)
(* time: assign_cluster never splits a campaign that it could have seen,     *)
(* through captures, deletions, crashes and files hashed later.              *)
THEOREM NeverSplitsWhatItSaw == Spec => []CampaignsApart
<1>1. RetentionInit => CampaignInv
  BY DEF RetentionInit, Init, CampaignInv, CampaignsApart, KnowsOrMissed, RepsHash
<1>2. RetentionTypeOK /\ CampaignInv /\ [Next]_allVars => CampaignInv'
  BY CampaignsPreserved
<1>3. CampaignInv => CampaignsApart
  BY DEF CampaignInv
<1> QED
  BY <1>1, <1>2, <1>3, TypeCorrect, PTL DEF Spec

-----------------------------------------------------------------------------
(* Counts.                                                                   *)

LEMMA MembersFinite ==
  ASSUME NEW c \in ClusterIds
  PROVE  /\ IsFiniteSet(LogsOf(c)) /\ IsFiniteSet(FilesOf(c)) /\ IsFiniteSet(Pending(c))
         /\ Cardinality(LogsOf(c)) \in Nat /\ Cardinality(FilesOf(c)) \in Nat
         /\ Cardinality(Pending(c)) \in Nat
<1>1. IsFiniteSet(Logs) /\ IsFiniteSet(Hashers)
  BY HashingAssumption DEF HashingAssumption
<1>2. IsFiniteSet(Hashers \X (Logs \X {c}))
  BY <1>1, FS_Singleton, FS_Product
<1>3. Pending(c) \in SUBSET (Hashers \X (Logs \X {c}))
  BY DEF Pending, Stamps
<1>4. LogsOf(c) \in SUBSET Logs /\ FilesOf(c) \in SUBSET Logs
  BY DEF LogsOf, FilesOf
<1>5. IsFiniteSet(LogsOf(c)) /\ IsFiniteSet(FilesOf(c)) /\ IsFiniteSet(Pending(c))
  BY <1>1, <1>2, <1>3, <1>4, FS_Subset
<1> QED
  BY <1>5, FS_CardinalityType

(* A cluster that keeps its count, and gets no member, stays covered. *)
LEMMA FewerStayCovered ==
  ASSUME CountInv, TypeOK, NEW c \in clusters, count'[c] >= count[c], count'[c] \in Nat,
         LogsOf(c)' \subseteq LogsOf(c), FilesOf(c)' \subseteq FilesOf(c),
         Pending(c)' \subseteq Pending(c)
  PROVE  count'[c] >= Cardinality(LogsOf(c)') + Cardinality(FilesOf(c)') + Cardinality(Pending(c)')
<1>1. c \in ClusterIds /\ count[c] \in Nat
  BY DEF TypeOK
<1>2. /\ Cardinality(LogsOf(c)') \in Nat /\ Cardinality(LogsOf(c)') <= Cardinality(LogsOf(c))
      /\ Cardinality(FilesOf(c)') \in Nat /\ Cardinality(FilesOf(c)') <= Cardinality(FilesOf(c))
      /\ Cardinality(Pending(c)') \in Nat /\ Cardinality(Pending(c)') <= Cardinality(Pending(c))
  BY <1>1, MembersFinite, FS_Subset, FS_CardinalityType
<1>3. /\ Cardinality(LogsOf(c)) \in Nat /\ Cardinality(FilesOf(c)) \in Nat
      /\ Cardinality(Pending(c)) \in Nat
  BY <1>1, MembersFinite
<1>4. count[c] >= Cardinality(LogsOf(c)) + Cardinality(FilesOf(c)) + Cardinality(Pending(c))
  BY DEF CountInv
<1> QED
  BY <1>1, <1>2, <1>3, <1>4

(* An assignment: the stamp that is pending is counted. *)
LEMMA AssignCounts ==
  ASSUME TypeOK, CountInv, NEW h \in Hashers, NEW l \in Logs,
         AssignCluster(h, l, Digest[l]), TypeOK', UNCHANGED <<cluster, fileCluster>>
  PROVE  CountInv'
<1> DEFINE d == Digest[l]
<1> HIDE DEF d
<1> PICK c \in ClusterIds : /\ Join(h, d, c) \/ Found(h, d, c)
                            /\ stamps' = [stamps EXCEPT ![h] = @ \cup {<<l, c>>}]
  BY DEF AssignCluster, d
<1> DEFINE p == <<h, <<l, c>>>>
<1>1. \A b \in ClusterIds : LogsOf(b)' = LogsOf(b) /\ FilesOf(b)' = FilesOf(b)
  BY DEF LogsOf, FilesOf
<1>2. \A g \in Hashers : g # h => stamps'[g] = stamps[g]
  BY DEF TypeOK
<1>3. stamps'[h] = stamps[h] \cup {<<l, c>>}
  BY DEF TypeOK
<1>4. \A b \in ClusterIds : b # c => Pending(b)' \subseteq Pending(b)
  <2> SUFFICES ASSUME NEW b \in ClusterIds, b # c, NEW q \in Stamps,
                      q[2] \in stamps'[q[1]], q[2][2] = b
               PROVE  q[2] \in stamps[q[1]]
    BY DEF Pending, Stamps
  <2>1. q[1] \in Hashers /\ q[2] # <<l, c>>
    BY DEF Stamps
  <2> QED
    BY <1>2, <1>3, <2>1
<1>5. Pending(c)' \subseteq Pending(c) \cup {p}
  <2> SUFFICES ASSUME NEW q \in Stamps, q[2] \in stamps'[q[1]], q[2][2] = c,
                      ~(q[2] \in stamps[q[1]])
               PROVE  q = p
    BY DEF Pending, Stamps
  <2>1. q[1] \in Hashers /\ q = <<q[1], q[2]>>
    BY DEF Stamps
  <2>2. q[1] = h /\ q[2] = <<l, c>>
    BY <1>2, <1>3, <2>1
  <2> QED
    BY <2>1, <2>2
<1>6. ASSUME NEW b \in clusters', b # c
      PROVE  count'[b] >= Cardinality(LogsOf(b)') + Cardinality(FilesOf(b)') + Cardinality(Pending(b)')
  <2>1. b \in clusters /\ b \in ClusterIds /\ count'[b] = count[b] /\ count[b] \in Nat
    BY <1>6 DEF Join, JoinCluster, Found, StartCluster, TypeOK
  <2> QED
    BY <1>1, <1>4, <1>6, <2>1, FewerStayCovered
<1>7. ASSUME c \in clusters'
      PROVE  count'[c] >= Cardinality(LogsOf(c)') + Cardinality(FilesOf(c)') + Cardinality(Pending(c)')
  <2>1. /\ IsFiniteSet(Pending(c)) /\ Cardinality(Pending(c)) \in Nat
        /\ Cardinality(LogsOf(c)) \in Nat /\ Cardinality(FilesOf(c)) \in Nat
    BY MembersFinite
  <2> HIDE DEF p
  <2>2. IsFiniteSet(Pending(c) \cup {p}) /\ Cardinality(Pending(c) \cup {p}) <= Cardinality(Pending(c)) + 1
    <3>1. /\ IsFiniteSet(Pending(c) \cup {p})
          /\ Cardinality(Pending(c) \cup {p}) =
               IF p \in Pending(c) THEN Cardinality(Pending(c)) ELSE Cardinality(Pending(c)) + 1
      BY <2>1, FS_AddElement
    <3> QED
      BY <2>1, <3>1
  <2>3. Cardinality(Pending(c)') \in Nat /\ Cardinality(Pending(c)') <= Cardinality(Pending(c)) + 1
    <3>1. /\ IsFiniteSet(Pending(c)') /\ Cardinality(Pending(c)') <= Cardinality(Pending(c) \cup {p})
      BY <1>5, <2>2, FS_Subset
    <3>2. Cardinality(Pending(c)') \in Nat /\ Cardinality(Pending(c) \cup {p}) \in Nat
      BY <2>2, <3>1, FS_CardinalityType
    <3> QED
      BY <2>1, <2>2, <3>1, <3>2
  <2>4. CASE Join(h, d, c)
    <3>1. c \in clusters /\ count[c] \in Nat /\ count'[c] = count[c] + 1
      BY <1>7, <2>4 DEF Join, JoinCluster, TypeOK
    <3>2. count[c] >= Cardinality(LogsOf(c)) + Cardinality(FilesOf(c)) + Cardinality(Pending(c))
      BY <3>1 DEF CountInv
    <3> QED
      BY <1>1, <2>1, <2>3, <3>1, <3>2
  <2>5. CASE Found(h, d, c)
    <3>1. StartCluster(c, d, unseen[h])
      BY <2>5 DEF Found
    <3>2. LogsOf(c) = {} /\ FilesOf(c) = {} /\ Pending(c) = {}
      BY <3>1, FreshIsNew DEF LogsOf, FilesOf, Pending, Stamps
    <3>3. count'[c] = 1
      BY <3>1 DEF StartCluster, TypeOK
    <3> QED
      BY <1>1, <2>3, <3>2, <3>3, FS_EmptySet
  <2> QED
    BY <2>4, <2>5
<1> QED
  BY <1>6, <1>7 DEF CountInv, TypeOK

(* The capture of a file that hashes. *)
LEMMA CaptureCounts ==
  ASSUME TypeOK, CountInv, NEW l \in Logs, Capture(l), TypeOK'
  PROVE  CountInv'
<1> DEFINE d == Digest[l]
<1> HIDE DEF d
<1> PICK c \in ClusterIds : /\ fileCluster' = [fileCluster EXCEPT ![l] = c]
                            /\ JoinCluster(clusters, d, c) \/ StartCluster(c, d, {})
  BY DEF Capture, d
<1>1. \A b \in ClusterIds : LogsOf(b)' = LogsOf(b) /\ Pending(b)' = Pending(b)
  BY DEF Capture, LogsOf, Pending, Stamps
<1>2. \A b \in ClusterIds : b # c => FilesOf(b)' \subseteq FilesOf(b)
  BY DEF FilesOf, TypeOK
<1>3. FilesOf(c)' \subseteq FilesOf(c) \cup {l}
  BY DEF FilesOf, TypeOK
<1>4. ASSUME NEW b \in clusters', b # c
      PROVE  count'[b] >= Cardinality(LogsOf(b)') + Cardinality(FilesOf(b)') + Cardinality(Pending(b)')
  <2>1. b \in clusters /\ b \in ClusterIds /\ count'[b] = count[b] /\ count[b] \in Nat
    BY <1>4 DEF JoinCluster, StartCluster, TypeOK
  <2> QED
    BY <1>1, <1>2, <1>4, <2>1, FewerStayCovered
<1>5. ASSUME c \in clusters'
      PROVE  count'[c] >= Cardinality(LogsOf(c)') + Cardinality(FilesOf(c)') + Cardinality(Pending(c)')
  <2>1. /\ IsFiniteSet(FilesOf(c)) /\ Cardinality(Pending(c)) \in Nat
        /\ Cardinality(LogsOf(c)) \in Nat /\ Cardinality(FilesOf(c)) \in Nat
    BY MembersFinite
  <2>2. IsFiniteSet(FilesOf(c) \cup {l}) /\ Cardinality(FilesOf(c) \cup {l}) <= Cardinality(FilesOf(c)) + 1
    BY <2>1, FS_AddElement
  <2>3. Cardinality(FilesOf(c)') \in Nat /\ Cardinality(FilesOf(c)') <= Cardinality(FilesOf(c)) + 1
    <3>1. /\ IsFiniteSet(FilesOf(c)') /\ Cardinality(FilesOf(c)') <= Cardinality(FilesOf(c) \cup {l})
      BY <1>3, <2>2, FS_Subset
    <3>2. Cardinality(FilesOf(c)') \in Nat /\ Cardinality(FilesOf(c) \cup {l}) \in Nat
      BY <2>2, <3>1, FS_CardinalityType
    <3> QED
      BY <2>1, <2>2, <3>1, <3>2
  <2>4. CASE JoinCluster(clusters, d, c)
    <3>1. c \in clusters /\ count[c] \in Nat /\ count'[c] = count[c] + 1
      BY <2>4 DEF JoinCluster, Matches, TypeOK
    <3>2. count[c] >= Cardinality(LogsOf(c)) + Cardinality(FilesOf(c)) + Cardinality(Pending(c))
      BY <3>1 DEF CountInv
    <3> QED
      BY <1>1, <2>1, <2>3, <3>1, <3>2
  <2>5. CASE StartCluster(c, d, {})
    <3>1. LogsOf(c) = {} /\ FilesOf(c) = {} /\ Pending(c) = {}
      BY <2>5, FreshIsNew DEF LogsOf, FilesOf, Pending, Stamps
    <3>2. count'[c] = 1
      BY <2>5 DEF StartCluster, TypeOK
    <3>3. Cardinality(LogsOf(c)') = 0 /\ Cardinality(Pending(c)') = 0 /\ Cardinality(FilesOf(c)) = 0
      BY <1>1, <3>1, FS_EmptySet
    <3> QED
      BY <2>3, <3>2, <3>3
  <2> QED
    BY <2>4, <2>5
<1> QED
  BY <1>4, <1>5 DEF CountInv, TypeOK

(* Writing the stamps of a chunk, or of a file, moves what is pending to the *)
(* column, and more than that does not get into it.                          *)
LEMMA StampMoves ==
  ASSUME TypeOK, NEW h \in Hashers, NEW column \in [Logs -> ClusterIds \cup {None}],
         NEW c \in ClusterIds, stamps' = [stamps EXCEPT ![h] = {}]
  PROVE  LET before == {l \in Logs : column[l] = c}
             after == {l \in Logs : Stamped(h, column)[l] = c}
         IN  /\ Cardinality(after) \in Nat /\ Cardinality(Pending(c)') \in Nat
             /\ Cardinality(after) + Cardinality(Pending(c)')
                  <= Cardinality(before) + Cardinality(Pending(c))
<1> DEFINE before == {l \in Logs : column[l] = c}
           after == {l \in Logs : Stamped(h, column)[l] = c}
           mine == {p \in Pending(c) : p[1] = h}
           ids == {p[2][1] : p \in mine}
           f == [p \in mine |-> p[2][1]]
<1>1. IsFiniteSet(Logs)
  BY HashingAssumption DEF HashingAssumption
<1>2. IsFiniteSet(before) /\ IsFiniteSet(after) /\ Cardinality(before) \in Nat /\ Cardinality(after) \in Nat
  BY <1>1, FS_Subset, FS_CardinalityType
<1>3. IsFiniteSet(Pending(c)) /\ IsFiniteSet(mine)
  BY MembersFinite, FS_Subset
<1>4. after \subseteq before \cup ids
  <2> SUFFICES ASSUME NEW l \in Logs, Stamped(h, column)[l] = c, column[l] # c
               PROVE  l \in ids
    OBVIOUS
  <2>1. /\ \E t \in stamps[h] : t[1] = l
        /\ (CHOOSE t \in stamps[h] : t[1] = l)[2] = c
    BY DEF Stamped
  <2>2. PICK s \in stamps[h] : s[1] = l /\ s[2] = c
    BY <2>1
  <2>3. <<h, s>> \in Stamps /\ s \in Logs \X (ClusterIds \cup {None})
    BY <2>2 DEF Stamps, TypeOK
  <2>4. <<h, s>> \in mine
    BY <2>2, <2>3 DEF Pending
  <2> QED
    BY <2>2, <2>4
<1>5. IsFiniteSet(ids) /\ Cardinality(ids) <= Cardinality(mine)
  <2>1. f \in [mine -> ids] /\ \A i \in ids : \E p \in mine : f[p] = i
    OBVIOUS
  <2> HIDE DEF f, ids, mine
  <2>2. f \in Surjection(mine, ids)
    BY <2>1 DEF Surjection
  <2> QED
    BY <1>3, <2>2, FS_Surjection
<1>6. Pending(c)' = Pending(c) \ mine
  <2>1. stamps'[h] = {} /\ \A g \in Hashers : g # h => stamps'[g] = stamps[g]
    BY DEF TypeOK
  <2> QED
    BY <2>1 DEF Pending, Stamps
<1>7. Pending(c) \cap mine = mine
  OBVIOUS
<1> HIDE DEF before, after, mine, ids, f
<1>8. /\ Cardinality(mine) \in Nat /\ Cardinality(ids) \in Nat /\ Cardinality(Pending(c)) \in Nat
      /\ Cardinality(before \cap ids) \in Nat
  BY <1>2, <1>3, <1>5, FS_CardinalityType, FS_Intersection
<1>9. /\ IsFiniteSet(Pending(c)')
      /\ Cardinality(Pending(c)') = Cardinality(Pending(c)) - Cardinality(mine)
  BY <1>3, <1>6, <1>7, FS_Difference
<1>10. Cardinality(Pending(c)') \in Nat
  BY <1>9, FS_CardinalityType
<1>11. Cardinality(after) <= Cardinality(before) + Cardinality(ids)
  <2>1. /\ IsFiniteSet(before \cup ids)
        /\ Cardinality(before \cup ids) = Cardinality(before) + Cardinality(ids) - Cardinality(before \cap ids)
    BY <1>2, <1>5, FS_Union
  <2>2. Cardinality(after) <= Cardinality(before \cup ids)
    BY <1>4, <2>1, FS_Subset
  <2> QED
    BY <1>2, <1>8, <2>1, <2>2
<1>12. Cardinality(after) + Cardinality(Pending(c)') <= Cardinality(before) + Cardinality(Pending(c))
  BY <1>2, <1>5, <1>8, <1>9, <1>11
<1> QED
  BY <1>2, <1>10, <1>12 DEF before, after

LEMMA StampCounts ==
  ASSUME TypeOK, CountInv, NEW h \in Hashers, Stamp(h) \/ StampFile(h)
  PROVE  CountInv'
<1> SUFFICES ASSUME NEW c \in clusters
             PROVE  count'[c] >= Cardinality(LogsOf(c)') + Cardinality(FilesOf(c)') + Cardinality(Pending(c)')
  BY DEF CountInv, Stamp, StampFile, clusterVars
<1>1. c \in ClusterIds /\ count'[c] = count[c] /\ count[c] \in Nat
  BY DEF Stamp, StampFile, clusterVars, TypeOK
<1>2. stamps' = [stamps EXCEPT ![h] = {}]
  BY DEF Stamp, StampFile
<1>3. count[c] >= Cardinality(LogsOf(c)) + Cardinality(FilesOf(c)) + Cardinality(Pending(c))
  BY DEF CountInv
<1>4. /\ Cardinality(LogsOf(c)) \in Nat /\ Cardinality(FilesOf(c)) \in Nat
      /\ Cardinality(Pending(c)) \in Nat
  BY <1>1, MembersFinite
<1>5. CASE Stamp(h)
  <2>1. /\ cluster \in [Logs -> ClusterIds \cup {None}]
        /\ LogsOf(c)' = {l \in Logs : Stamped(h, cluster)[l] = c}
        /\ FilesOf(c)' = FilesOf(c)
    BY <1>5 DEF Stamp, LogsOf, FilesOf, fileVars, TypeOK
  <2>2. /\ Cardinality(LogsOf(c)') \in Nat /\ Cardinality(Pending(c)') \in Nat
        /\ Cardinality(LogsOf(c)') + Cardinality(Pending(c)')
             <= Cardinality(LogsOf(c)) + Cardinality(Pending(c))
    BY <1>1, <1>2, <2>1, StampMoves DEF LogsOf
  <2> QED
    BY <1>1, <1>3, <1>4, <2>1, <2>2
<1>6. CASE StampFile(h)
  <2>1. /\ fileCluster \in [Logs -> ClusterIds \cup {None}]
        /\ FilesOf(c)' = {l \in Logs : Stamped(h, fileCluster)[l] = c}
        /\ LogsOf(c)' = LogsOf(c)
    BY <1>6 DEF StampFile, LogsOf, FilesOf, TypeOK
  <2>2. /\ Cardinality(FilesOf(c)') \in Nat /\ Cardinality(Pending(c)') \in Nat
        /\ Cardinality(FilesOf(c)') + Cardinality(Pending(c)')
             <= Cardinality(FilesOf(c)) + Cardinality(Pending(c))
    BY <1>1, <1>2, <2>1, StampMoves DEF FilesOf
  <2> QED
    BY <1>1, <1>3, <1>4, <2>1, <2>2
<1> QED
  BY <1>5, <1>6

(* Steps that count nothing and assign nothing to a campaign. *)
LEMMA OthersKeepCounts ==
  ASSUME TypeOK, CountInv, clusters' \subseteq clusters, UNCHANGED count,
         \A l \in Logs : cluster'[l] = cluster[l] \/ cluster'[l] = None,
         \A l \in Logs : fileCluster'[l] = fileCluster[l] \/ fileCluster'[l] = None,
         \A h \in Hashers : \A s \in stamps'[h] : s \in stamps[h] \/ s[2] = None
  PROVE  CountInv'
<1> SUFFICES ASSUME NEW c \in clusters'
             PROVE  count'[c] >= Cardinality(LogsOf(c)') + Cardinality(FilesOf(c)') + Cardinality(Pending(c)')
  BY DEF CountInv
<1>1. c \in clusters /\ c \in ClusterIds /\ c # None /\ count[c] \in Nat
  BY HashingAssumption DEF HashingAssumption, TypeOK
<1>2. LogsOf(c)' \subseteq LogsOf(c) /\ FilesOf(c)' \subseteq FilesOf(c)
  BY <1>1 DEF LogsOf, FilesOf
<1>3. Pending(c)' \subseteq Pending(c)
  BY <1>1 DEF Pending, Stamps
<1> QED
  BY <1>1, <1>2, <1>3, FewerStayCovered

LEMMA CountsPreserved ==
  ASSUME RetentionTypeOK, RetentionTypeOK', CountInv, [Next]_allVars
  PROVE  CountInv'
<1> USE DEF RetentionTypeOK
<1>1. ASSUME NEW l \in Logs, Lose(l) \/ Insert(l) \/ InsertCaptured(l) \/ Commit(l)
      PROVE  CountInv'
  <2>1. UNCHANGED <<clusters, count, cluster, stamps>>
    BY <1>1 DEF Lose, Insert, InsertCaptured, Stored, Commit, clusterVars, hasherVars
  <2>2. \A k \in Logs : fileCluster'[k] = fileCluster[k] \/ fileCluster'[k] = None
    BY <1>1 DEF Lose, Insert, InsertCaptured, Stored, Commit, fileVars, TypeOK
  <2> QED
    BY <2>1, <2>2, OthersKeepCounts
<1>2. ASSUME NEW h \in Hashers,
             \/ ReadWatermark(h) \/ PendingLogIds(h) \/ ReadChunk(h) \/ AdvanceWatermark(h)
             \/ QueryFiles(h) \/ SkipFile(h) \/ Done(h) \/ StampRefused(h) \/ Crash(h)
      PROVE  CountInv'
  <2>1. UNCHANGED <<clusters, count, cluster, fileCluster>>
    BY <1>2 DEF ReadWatermark, PendingLogIds, ReadChunk, AdvanceWatermark, QueryFiles, SkipFile,
                Done, StampRefused, Crash, Stopped, clusterVars, fileVars
  <2>2. stamps' = stamps \/ stamps' = [stamps EXCEPT ![h] = {}]
    BY <1>2 DEF ReadWatermark, PendingLogIds, ReadChunk, AdvanceWatermark, QueryFiles, SkipFile,
                Done, StampRefused, Crash, Stopped
  <2>3. \A g \in Hashers : \A s \in stamps'[g] : s \in stamps[g]
    BY <2>2 DEF TypeOK
  <2> QED
    BY <2>1, <2>3, OthersKeepCounts
<1>3. ASSUME NEW h \in Hashers, AssignNothing(h)
      PROVE  CountInv'
  <2>1. UNCHANGED <<clusters, count, cluster, fileCluster>>
    BY <1>3 DEF AssignNothing, clusterVars, fileVars
  <2>2. PICK l \in Logs : stamps' = [stamps EXCEPT ![h] = @ \cup {<<l, None>>}]
    BY <1>3 DEF AssignNothing, TypeOK
  <2>3. \A g \in Hashers : \A s \in stamps'[g] : s \in stamps[g] \/ s[2] = None
    BY <2>2 DEF TypeOK
  <2> QED
    BY <2>1, <2>3, OthersKeepCounts
<1>4. ASSUME NEW h \in Hashers, Assign(h) \/ AssignFile(h)
      PROVE  CountInv'
  <2>1. UNCHANGED <<cluster, fileCluster>>
    BY <1>4 DEF Assign, AssignFile, fileVars
  <2>2. PICK l \in Logs : AssignCluster(h, l, Digest[l])
    <3>1. CASE Assign(h)
      BY <3>1 DEF Assign, TypeOK
    <3>2. CASE AssignFile(h)
      <4>1. batch[h] \in SUBSET Nat /\ batch[h] \in SUBSET Logs /\ batch[h] # {}
        BY <3>2, HashingAssumption DEF HashingAssumption, AssignFile, TypeOK
      <4> QED
        BY <3>2, <4>1, MinIsLeast DEF AssignFile
    <3> QED
      BY <1>4, <3>1, <3>2
  <2> QED
    BY <2>1, <2>2, AssignCounts
<1>5. CASE Hashing /\ UNCHANGED retentionVars
  BY <1>1, <1>2, <1>3, <1>4, <1>5, CaptureCounts, StampCounts DEF Hashing, HasherStep
<1>6. CASE Age \/ Unflag \/ SweepClusters \/ UNCHANGED allVars
  <2>1. clusters' \subseteq clusters /\ UNCHANGED <<count, cluster, fileCluster, stamps>>
    BY <1>6 DEF Age, Unflag, SweepClusters, allVars, vars, clusterVars, fileVars, hasherVars
  <2> QED
    BY <2>1, OthersKeepCounts
<1>7. CASE DeleteBatch
  <2>1. UNCHANGED <<clusters, count, stamps>>
    BY <1>7 DEF DeleteBatch, clusterVars, hasherVars
  <2>2. \A l \in Logs : /\ cluster'[l] = cluster[l] \/ cluster'[l] = None
                        /\ fileCluster'[l] = fileCluster[l] \/ fileCluster'[l] = None
    BY <1>7 DEF DeleteBatch
  <2> QED
    BY <2>1, <2>2, OthersKeepCounts
<1> QED
  BY <1>5, <1>6, <1>7 DEF Next

(* What a campaign has counted is at least what belongs to it: an increment   *)
(* comes before the stamp it is for, and only a campaign that is gone by then *)
(* goes without.                                                             *)
THEOREM CountsCover == Spec => []CountCoversMembers
<1>1. RetentionInit => CountInv
  BY DEF RetentionInit, Init, CountInv
<1>2. RetentionTypeOK /\ RetentionTypeOK' /\ CountInv /\ [Next]_allVars => CountInv'
  BY CountsPreserved
<1>3. RetentionTypeOK /\ CountInv => CountCoversMembers
  <2> SUFFICES ASSUME RetentionTypeOK, CountInv, NEW c \in clusters
               PROVE  count[c] >= Cardinality(LogsOf(c)) + Cardinality(FilesOf(c))
    BY DEF CountCoversMembers, LogsOf, FilesOf
  <2>1. c \in ClusterIds /\ count[c] \in Nat
    BY DEF RetentionTypeOK, TypeOK
  <2>2. count[c] >= Cardinality(LogsOf(c)) + Cardinality(FilesOf(c)) + Cardinality(Pending(c))
    BY DEF CountInv
  <2> QED
    BY <2>1, <2>2, MembersFinite
<1> QED
  BY <1>1, <1>2, <1>3, TypeCorrect, PTL DEF Spec

-----------------------------------------------------------------------------
(* The watermark.                                                            *)

LEMMA SkipsMeansOverlooked ==
  SkipsOnlyOvertaken <=> \A l \in Overlooked : ~(l <= watermark)
BY DEF SkipsOnlyOvertaken, Overlooked

(* Steps of the logs: what was settled stays so, and what they overlook is   *)
(* nothing new.                                                              *)
LEMMA LogsKeepMarks ==
  ASSUME MarkInv, UNCHANGED <<watermark, pc, from, batch, chunk, read, stamps>>,
         \A l \in Logs : Settled(l) => Settled(l)',
         blank \subseteq blank', Overlooked' \subseteq Overlooked, TypeOK
  PROVE  MarkInv'
<1>1. SkipsOnlyOvertaken'
  <2>1. \A l \in Overlooked' : ~(l <= watermark')
    BY SkipsMeansOverlooked DEF MarkInv
  <2> QED
    BY <2>1 DEF SkipsOnlyOvertaken, Overlooked
<1>2. MarkSettled'
  <2>1. watermark # 0 => watermark \in Logs
    BY DEF TypeOK
  <2> QED
    BY <2>1 DEF MarkInv, MarkSettled, Settled
<1>3. ASSUME NEW h \in Hashers PROVE HoldsSettled(h)'
  <2>1. batch[h] \cup chunk[h] \subseteq Logs
    BY DEF TypeOK
  <2> QED
    BY <2>1 DEF MarkInv, HoldsSettled, Settled, HashingPhases
<1>4. ASSUME NEW h \in Hashers PROVE HoldsOverlooked(h)'
  <2>1. Due(h)' = Due(h)
    BY DEF Due
  <2> QED
    BY <2>1 DEF MarkInv, HoldsOverlooked
<1> QED
  BY <1>1, <1>2, <1>3, <1>4 DEF MarkInv

(* A commit: the log is overtaken, or it comes after all that anybody read.  *)
LEMMA CommitKeepsMarks ==
  ASSUME RetentionTypeOK, MarkInv, NEW l \in Logs, Commit(l)
  PROVE  MarkInv'
<1> USE DEF RetentionTypeOK
<1>1. /\ row[l] = "open" /\ row' = [row EXCEPT ![l] = "visible"]
      /\ overtaken' = IF Passed(l) THEN overtaken \cup {l} ELSE overtaken
      /\ UNCHANGED <<blank, cluster, watermark, pc, from, batch, chunk, read, stamps>>
  BY DEF Commit, hasherVars
<1>2. ~Settled(l)
  BY <1>1 DEF Settled
<1>3. \A k \in Logs : Settled(k) => Settled(k)'
  BY <1>1 DEF Settled, TypeOK
<1>4. Overlooked' \subseteq Overlooked \cup {l}
  BY <1>1 DEF Overlooked, Visible, TypeOK
<1>5. l \in Overlooked' => ~Passed(l)
  BY <1>1 DEF Overlooked
<1>6. l \in Nat /\ watermark \in Nat /\ l # 0
  BY HashingAssumption DEF HashingAssumption, TypeOK
<1>7. l \in Overlooked' => ~(l <= watermark)
  <2>1. l # watermark
    BY <1>2, <1>6 DEF MarkInv, MarkSettled, Settled
  <2>2. ~Passed(l) => ~(watermark > l)
    BY DEF Passed
  <2> QED
    BY <1>5, <1>6, <2>1, <2>2
<1>8. SkipsOnlyOvertaken'
  <2>1. \A k \in Overlooked' : ~(k <= watermark')
    BY <1>1, <1>4, <1>7, SkipsMeansOverlooked DEF MarkInv
  <2> QED
    BY <2>1 DEF SkipsOnlyOvertaken, Overlooked
<1>9. MarkSettled'
  BY <1>1 DEF MarkInv, TypeOK, MarkSettled
<1>10. ASSUME NEW h \in Hashers PROVE HoldsSettled(h)'
  <2>1. batch[h] \cup chunk[h] \subseteq Logs
    BY DEF TypeOK
  <2> QED
    BY <1>1, <1>3, <2>1 DEF MarkInv, HoldsSettled, Settled, HashingPhases
<1>11. ASSUME NEW h \in Hashers PROVE HoldsOverlooked(h)'
  <2> SUFFICES ASSUME pc[h] \in HashingPhases, NEW m \in Overlooked',
                      NEW k \in batch[h] \cup chunk[h], m <= k
               PROVE  m \in Due(h)
    BY <1>1 DEF HoldsOverlooked, Due
  <2>1. CASE m \in Overlooked
    BY <2>1 DEF MarkInv, HoldsOverlooked
  <2>2. CASE m = l
    <3>1. k \in Logs /\ k \in Nat
      BY HashingAssumption DEF HashingAssumption, TypeOK
    <3>2. k # l
      BY <1>2 DEF MarkInv, HoldsSettled
    <3>3. ~(k > l)
      BY <1>5, <2>2 DEF Passed, HashingPhases
    <3> QED
      BY <1>6, <2>2, <3>1, <3>2, <3>3
  <2> QED
    BY <1>4, <2>1, <2>2
<1> QED
  BY <1>8, <1>9, <1>10, <1>11 DEF MarkInv

(* A step of one hasher: what is to be shown is about this hasher and the    *)
(* mark.                                                                     *)
LEMMA HasherMarks ==
  ASSUME RetentionTypeOK, RetentionTypeOK', MarkInv, NEW h \in Hashers,
         UNCHANGED <<row, blank, overtaken>>,
         \A g \in Hashers : g # h =>
           /\ pc'[g] = pc[g] /\ from'[g] = from[g] /\ batch'[g] = batch[g]
           /\ chunk'[g] = chunk[g] /\ read'[g] = read[g] /\ stamps'[g] = stamps[g],
         Overlooked' \subseteq Overlooked,
         watermark' = watermark \/ (/\ watermark' >= watermark /\ row[watermark'] \in {"visible", "gone"}
                                    /\ \A l \in Overlooked' : ~(l <= watermark')),
         HoldsSettled(h)', HoldsOverlooked(h)'
  PROVE  MarkInv'
<1> USE DEF RetentionTypeOK
<1>1. SkipsOnlyOvertaken'
  <2>1. \A l \in Overlooked' : ~(l <= watermark')
    BY SkipsMeansOverlooked DEF MarkInv
  <2> QED
    BY <2>1 DEF SkipsOnlyOvertaken, Overlooked
<1>2. MarkSettled'
  BY DEF MarkInv, MarkSettled
<1>3. ASSUME NEW g \in Hashers, g # h PROVE HoldsSettled(g)' /\ HoldsOverlooked(g)'
  <2>1. /\ pc'[g] = pc[g] /\ from'[g] = from[g] /\ batch'[g] = batch[g]
        /\ chunk'[g] = chunk[g] /\ read'[g] = read[g] /\ stamps'[g] = stamps[g]
    BY <1>3
  <2>2. from[g] \in Nat /\ watermark \in Nat /\ watermark' \in Nat
    <3>1. /\ from[g] \in Logs \cup {0} /\ watermark \in Logs \cup {0}
          /\ watermark' \in Logs \cup {0}
      BY DEF TypeOK
    <3>2. Logs \cup {0} \subseteq Nat
      BY HashingAssumption DEF HashingAssumption
    <3> QED
      BY <3>1, <3>2
  <2>3. from[g] <= watermark => from[g] <= watermark'
    BY <2>2
  <2>4. HoldsSettled(g)'
    BY <2>1, <2>3 DEF MarkInv, HoldsSettled, Settled
  <2>5. Due(g)' = Due(g)
    BY <2>1 DEF Due
  <2> QED
    BY <2>1, <2>4, <2>5 DEF MarkInv, HoldsOverlooked
<1> QED
  BY <1>1, <1>2, <1>3 DEF MarkInv

(* A step outside the hashing of bodies. *)
LEMMA NotHashingMarks ==
  ASSUME RetentionTypeOK, RetentionTypeOK', MarkInv, NEW h \in Hashers,
         \/ ReadWatermark(h) \/ QueryFiles(h) \/ SkipFile(h) \/ AssignFile(h) \/ StampFile(h)
         \/ Done(h) \/ StampRefused(h) \/ Crash(h)
  PROVE  MarkInv'
<1> USE DEF RetentionTypeOK
<1>1. UNCHANGED <<row, blank, overtaken, cluster, watermark>>
  BY DEF ReadWatermark, QueryFiles, SkipFile, AssignFile, StampFile, Done, StampRefused, Crash,
         Stopped, logVars
<1>2. \A g \in Hashers : g # h =>
           /\ pc'[g] = pc[g] /\ from'[g] = from[g] /\ batch'[g] = batch[g]
           /\ chunk'[g] = chunk[g] /\ read'[g] = read[g] /\ stamps'[g] = stamps[g]
  BY DEF ReadWatermark, QueryFiles, SkipFile, AssignFile, AssignCluster, StampFile, Done,
         StampRefused, Crash, Stopped, Goto, TypeOK
<1>3. Overlooked' = Overlooked
  BY <1>1 DEF Overlooked, Visible
<1>4. pc'[h] \in {"query", "file", "idle"}
  BY DEF ReadWatermark, QueryFiles, SkipFile, AssignFile, StampFile, Done, StampRefused, Crash,
         Stopped, Goto, TypeOK
<1>5. chunk'[h] = {}
  BY DEF ReadWatermark, QueryFiles, SkipFile, AssignFile, StampFile, Done, StampRefused, Crash,
         Stopped, TypeOK, MarkInv, HoldsSettled
<1>6. pc'[h] = "query" => from'[h] <= watermark'
  <2>1. pc'[h] = "query" => from'[h] = watermark
    BY <1>4 DEF ReadWatermark, QueryFiles, SkipFile, AssignFile, StampFile, Done, StampRefused,
           Crash, Stopped, Goto, TypeOK
  <2>2. watermark \in Nat
    BY HashingAssumption DEF HashingAssumption, TypeOK
  <2> QED
    BY <1>1, <2>1, <2>2
<1>7. \A s \in stamps'[h] : s[2] = None => s[1] \in blank
  <2>1. CASE AssignFile(h)
    <3>1. PICK c \in ClusterIds : stamps' = [stamps EXCEPT ![h] = @ \cup {<<Min(batch[h]), c>>}]
      BY <2>1 DEF AssignFile, AssignCluster
    <3>2. c # None
      BY HashingAssumption DEF HashingAssumption
    <3>3. stamps'[h] = stamps[h] \cup {<<Min(batch[h]), c>>}
      BY <3>1 DEF TypeOK
    <3> QED
      BY <3>2, <3>3 DEF MarkInv, HoldsSettled
  <2>2. CASE ~AssignFile(h)
    <3>1. stamps'[h] = stamps[h] \/ stamps'[h] = {}
      BY <2>2 DEF ReadWatermark, QueryFiles, SkipFile, StampFile, Done, StampRefused, Crash,
             Stopped, TypeOK
    <3> QED
      BY <3>1 DEF MarkInv, HoldsSettled
  <2> QED
    BY <2>1, <2>2
<1>8. HoldsSettled(h)' /\ HoldsOverlooked(h)'
  BY <1>1, <1>4, <1>5, <1>6, <1>7 DEF HoldsSettled, HoldsOverlooked, HashingPhases
<1> QED
  BY <1>1, <1>2, <1>3, <1>8, HasherMarks

(* The batch of a run has all there is between the mark it read and the last *)
(* id it got.                                                                *)
LEMMA PendingMarks ==
  ASSUME RetentionTypeOK, RetentionTypeOK', MarkInv, NEW h \in Hashers, PendingLogIds(h)
  PROVE  MarkInv'
<1> USE DEF RetentionTypeOK
<1> DEFINE ids == {l \in Visible : l > from[h]}
<1>1. UNCHANGED <<row, blank, overtaken, cluster, watermark, chunk, read, stamps>>
  BY DEF PendingLogIds, logVars
<1>2. \A g \in Hashers : g # h =>
           pc'[g] = pc[g] /\ from'[g] = from[g] /\ batch'[g] = batch[g]
  BY DEF PendingLogIds, Goto, TypeOK
<1>3. /\ pc[h] = "query" /\ pc'[h] \in {"files", "chunk"} /\ batch'[h] = FirstOf(ids, MaxLogsPerRun)
      /\ chunk[h] = {} /\ from[h] <= watermark
  BY DEF PendingLogIds, Goto, TypeOK, MarkInv, HoldsSettled
<1>4. Overlooked' = Overlooked
  BY <1>1 DEF Overlooked, Visible
<1>5. /\ batch'[h] \subseteq ids
      /\ \A l \in ids \ batch'[h] : \A k \in batch'[h] : k < l
  <2>1. ids \in SUBSET Logs /\ ids \in SUBSET Nat /\ IsFiniteSet(ids) /\ MaxLogsPerRun \in Nat
    BY HashingAssumption, FS_Subset DEF HashingAssumption, Visible
  <2> QED
    BY <1>3, <2>1, FirstOfIsPrefix
<1>6. HoldsSettled(h)'
  <2>1. \A l \in batch'[h] : row[l] = "visible"
    BY <1>5 DEF Visible
  <2> QED
    BY <1>1, <1>3, <2>1 DEF MarkInv, HoldsSettled, HashingPhases, Settled
<1>7. HoldsOverlooked(h)'
  <2> SUFFICES ASSUME NEW l \in Overlooked, NEW k \in batch'[h], l <= k, l \notin batch'[h]
               PROVE  FALSE
    BY <1>1, <1>3, <1>4 DEF HoldsOverlooked, Due
  <2>1. l \in Visible /\ l \in Nat /\ k \in Nat /\ from[h] \in Nat /\ watermark \in Nat
    <3>1. l \in Visible /\ l \in Logs /\ k \in Logs
      BY <1>5 DEF Overlooked, Visible
    <3>2. from[h] \in Logs \cup {0} /\ watermark \in Logs \cup {0}
      BY DEF TypeOK
    <3> QED
      BY <3>1, <3>2, HashingAssumption DEF HashingAssumption
  <2>2. ~(l <= watermark)
    BY SkipsMeansOverlooked DEF MarkInv
  <2>3. l \in ids
    BY <1>3, <2>1, <2>2
  <2>4. k < l
    BY <1>5, <2>3
  <2> QED
    BY <2>1, <2>4
<1> QED
  BY <1>1, <1>2, <1>4, <1>6, <1>7, HasherMarks

(* A chunk takes the first of the batch; the logs in it that are still there *)
(* are read.                                                                 *)
LEMMA ReadChunkMarks ==
  ASSUME RetentionTypeOK, RetentionTypeOK', MarkInv, NEW h \in Hashers, ReadChunk(h)
  PROVE  MarkInv'
<1> USE DEF RetentionTypeOK
<1>1. UNCHANGED <<row, blank, overtaken, cluster, watermark, from, stamps>>
  BY DEF ReadChunk, logVars
<1>2. \A g \in Hashers : g # h =>
           pc'[g] = pc[g] /\ batch'[g] = batch[g] /\ chunk'[g] = chunk[g] /\ read'[g] = read[g]
  BY DEF ReadChunk, Goto, TypeOK
<1>3. /\ pc[h] = "chunk" /\ pc'[h] = "assign"
      /\ chunk'[h] = FirstOf(batch[h], ChunkSize)
      /\ batch'[h] = batch[h] \ chunk'[h]
      /\ read'[h] = chunk'[h] \cap Visible
  BY DEF ReadChunk, Goto, TypeOK
<1>4. Overlooked' = Overlooked
  BY <1>1 DEF Overlooked, Visible
<1>5. /\ chunk'[h] \subseteq batch[h]
      /\ \A l \in batch'[h] : \A k \in chunk'[h] : k < l
  <2>1. batch[h] \in SUBSET Nat /\ IsFiniteSet(batch[h]) /\ ChunkSize \in Nat
    BY HashingAssumption, FS_Subset DEF HashingAssumption, TypeOK
  <2> QED
    BY <1>3, <2>1, FirstOfIsPrefix
<1>6. HoldsSettled(h)'
  BY <1>1, <1>3, <1>5 DEF MarkInv, HoldsSettled, HashingPhases, Settled
<1>7. HoldsOverlooked(h)'
  <2> SUFFICES ASSUME NEW l \in Overlooked, NEW k \in batch[h], l <= k
               PROVE  l \in batch'[h] \cup read'[h]
    BY <1>3, <1>4, <1>5 DEF HoldsOverlooked, Due
  <2>1. l \in batch[h] /\ l \in Visible
    BY <1>3 DEF MarkInv, HoldsOverlooked, HashingPhases, Due, Overlooked
  <2> QED
    BY <1>3, <2>1
<1> QED
  BY <1>1, <1>2, <1>4, <1>6, <1>7, HasherMarks

(* A row of the chunk goes from the read ones to the stamps. *)
LEMMA AssignMarks ==
  ASSUME RetentionTypeOK, RetentionTypeOK', MarkInv, NEW h \in Hashers,
         Assign(h) \/ AssignNothing(h)
  PROVE  MarkInv'
<1> USE DEF RetentionTypeOK
<1>1. UNCHANGED <<row, blank, overtaken, cluster, watermark, pc, from, batch, chunk>>
  BY DEF Assign, AssignNothing, logVars
<1>2. PICK l \in Logs, c \in ClusterIds \cup {None} :
             /\ c = None => l \in blank
             /\ read' = [read EXCEPT ![h] = @ \ {l}]
             /\ stamps' = [stamps EXCEPT ![h] = @ \cup {<<l, c>>}]
  <2>1. CASE Assign(h)
    <3>1. PICK l \in Logs : AssignCluster(h, l, Digest[l]) /\ read' = [read EXCEPT ![h] = @ \ {l}]
      BY <2>1 DEF Assign, TypeOK
    <3>2. PICK c \in ClusterIds : stamps' = [stamps EXCEPT ![h] = @ \cup {<<l, c>>}]
      BY <3>1 DEF AssignCluster
    <3> QED
      BY <3>1, <3>2, HashingAssumption DEF HashingAssumption
  <2>2. CASE AssignNothing(h)
    BY <2>2 DEF AssignNothing, TypeOK
  <2> QED
    BY <2>1, <2>2
<1>3. /\ read'[h] = read[h] \ {l} /\ stamps'[h] = stamps[h] \cup {<<l, c>>}
      /\ \A g \in Hashers : g # h => read'[g] = read[g] /\ stamps'[g] = stamps[g]
  BY <1>2 DEF TypeOK
<1>4. Overlooked' = Overlooked
  BY <1>1 DEF Overlooked, Visible
<1>5. HoldsSettled(h)'
  BY <1>1, <1>2, <1>3 DEF MarkInv, HoldsSettled, HashingPhases, Settled
<1>6. Due(h) \subseteq Due(h)'
  <2>1. read[h] \cup {s[1] : s \in stamps[h]} \subseteq read'[h] \cup {s[1] : s \in stamps'[h]}
    <3> SUFFICES ASSUME NEW m \in read[h] \cup {s[1] : s \in stamps[h]}
                 PROVE  m \in read'[h] \cup {s[1] : s \in stamps'[h]}
      OBVIOUS
    <3>1. CASE m = l
      <4>1. <<l, c>> \in stamps'[h] /\ <<l, c>>[1] = l
        BY <1>3
      <4> QED
        BY <3>1, <4>1
    <3>2. CASE m \in read[h] \ {l}
      BY <1>3, <3>2
    <3>3. CASE m \in {s[1] : s \in stamps[h]}
      BY <1>3, <3>3
    <3> QED
      BY <3>1, <3>2, <3>3
  <2>2. CASE pc[h] = "assign"
    BY <1>1, <2>1, <2>2 DEF Due
  <2>3. CASE pc[h] # "assign"
    BY <1>1, <2>3 DEF Due
  <2> QED
    BY <2>2, <2>3
<1>7. HoldsOverlooked(h)'
  BY <1>1, <1>4, <1>6 DEF MarkInv, HoldsOverlooked
<1> QED
  BY <1>1, <1>3, <1>4, <1>5, <1>7, HasherMarks

(* The chunk is stamped: nothing of it that has a digest lacks a campaign.   *)
LEMMA StampMarks ==
  ASSUME RetentionTypeOK, RetentionTypeOK', MarkInv, NEW h \in Hashers, Stamp(h)
  PROVE  MarkInv'
<1> USE DEF RetentionTypeOK
<1>1. UNCHANGED <<row, blank, overtaken, watermark, from, batch, chunk, read>>
  BY DEF Stamp, logVars
<1>2. /\ pc[h] = "assign" /\ read[h] = {} /\ pc'[h] = "advance" /\ stamps'[h] = {}
      /\ \A g \in Hashers : g # h => pc'[g] = pc[g] /\ stamps'[g] = stamps[g]
  BY DEF Stamp, Goto, TypeOK
<1>3. ASSUME NEW l \in Visible, l \notin blank, \E s \in stamps[h] : s[1] = l
      PROVE  cluster'[l] # None
  <2> DEFINE t == CHOOSE s \in stamps[h] : s[1] = l
  <2>1. t \in stamps[h] /\ t[1] = l
    BY <1>3
  <2>2. t[2] # None
    BY <1>3, <2>1 DEF MarkInv, HoldsSettled
  <2>3. cluster'[l] = t[2]
    BY <1>3 DEF Stamp, Stamped, Visible
  <2> QED
    BY <2>2, <2>3
<1>4. ASSUME NEW l \in Logs, ~(row[l] = "visible" /\ \E s \in stamps[h] : s[1] = l)
      PROVE  cluster'[l] = cluster[l]
  BY <1>4 DEF Stamp, Stamped
<1>5. Overlooked' \subseteq Overlooked
  BY <1>1, <1>3, <1>4 DEF Overlooked, Visible
<1>6. HoldsSettled(h)'
  BY <1>1, <1>2 DEF MarkInv, HoldsSettled, HashingPhases, Settled
<1>7. HoldsOverlooked(h)'
  <2> SUFFICES ASSUME NEW l \in Overlooked', NEW k \in batch[h] \cup chunk[h], l <= k
               PROVE  l \in batch[h]
    BY <1>1, <1>2 DEF HoldsOverlooked, Due
  <2>1. l \in Due(h)
    BY <1>2, <1>5 DEF MarkInv, HoldsOverlooked, HashingPhases
  <2>2. ~\E s \in stamps[h] : s[1] = l
    BY <1>1, <1>3 DEF Overlooked, Visible
  <2> QED
    BY <1>2, <2>1, <2>2 DEF Due
<1> QED
  BY <1>1, <1>2, <1>5, <1>6, <1>7, HasherMarks

(* The mark moves to the end of the chunk, which holds no more than that.    *)
LEMMA AdvanceMarks ==
  ASSUME RetentionTypeOK, RetentionTypeOK', MarkInv, NEW h \in Hashers, AdvanceWatermark(h)
  PROVE  MarkInv'
<1> USE DEF RetentionTypeOK
<1> DEFINE S == chunk[h] \cup {watermark}
<1>1. UNCHANGED <<row, blank, overtaken, cluster, from, batch, read, stamps>>
  BY DEF AdvanceWatermark, logVars
<1>2. /\ pc[h] = "advance" /\ pc'[h] \in {"files", "chunk"} /\ chunk'[h] = {}
      /\ watermark' = Max(S)
      /\ \A g \in Hashers : g # h => pc'[g] = pc[g] /\ chunk'[g] = chunk[g]
  BY DEF AdvanceWatermark, Goto, TypeOK
<1>3. chunk[h] \in SUBSET Logs /\ watermark \in Nat
  BY HashingAssumption DEF HashingAssumption, TypeOK
<1>4. IsFiniteSet(chunk[h]) /\ chunk[h] \in SUBSET Nat
  BY <1>3, HashingAssumption, FS_Subset DEF HashingAssumption
<1>5. IsFiniteSet(S) /\ S \in SUBSET Nat
  BY <1>3, <1>4, FS_AddElement
<1>6. Max(S) \in S /\ \A n \in S : n <= Max(S)
  <2> HIDE DEF S
  <2>1. S # {}
    BY DEF S
  <2> QED
    BY <1>5, <2>1, MaxIsGreatest
<1>7. Overlooked' = Overlooked
  BY <1>1 DEF Overlooked, Visible
<1>8. HoldsSettled(h)'
  BY <1>1, <1>2 DEF MarkInv, HoldsSettled, HashingPhases, Settled
<1>9. Due(h) = batch[h] /\ Due(h)' = batch[h]
  BY <1>1, <1>2 DEF Due
<1>10. HoldsOverlooked(h)'
  BY <1>1, <1>2, <1>7, <1>9 DEF MarkInv, HoldsOverlooked, HashingPhases
<1>11. watermark' = watermark \/ (/\ watermark' >= watermark /\ row[watermark'] \in {"visible", "gone"}
                                  /\ \A l \in Overlooked' : ~(l <= watermark'))
  <2> SUFFICES ASSUME watermark' # watermark
               PROVE  /\ watermark' >= watermark /\ row[watermark'] \in {"visible", "gone"}
                      /\ \A l \in Overlooked' : ~(l <= watermark')
    OBVIOUS
  <2>1. watermark' \in chunk[h]
    BY <1>2, <1>6
  <2>2. watermark' \in Nat
    BY <1>4, <2>1
  <2>3. watermark' >= watermark
    BY <1>2, <1>3, <1>6, <2>2
  <2>4. row[watermark'] \in {"visible", "gone"}
    BY <1>2, <2>1 DEF MarkInv, HoldsSettled, HashingPhases, Settled
  <2>5. ASSUME NEW l \in Overlooked, l <= watermark' PROVE FALSE
    <3>1. l \in batch[h]
      BY <1>2, <1>9, <2>1, <2>5 DEF MarkInv, HoldsOverlooked, HashingPhases
    <3>2. watermark' < l
      BY <1>2, <2>1, <3>1 DEF MarkInv, HoldsSettled
    <3>3. l \in Nat
      BY HashingAssumption DEF HashingAssumption, Overlooked, Visible
    <3> QED
      BY <2>2, <2>5, <3>2, <3>3
  <2> QED
    BY <1>7, <2>3, <2>4, <2>5
<1>12. /\ UNCHANGED <<row, blank, overtaken>>
       /\ \A g \in Hashers : g # h =>
           /\ pc'[g] = pc[g] /\ from'[g] = from[g] /\ batch'[g] = batch[g]
           /\ chunk'[g] = chunk[g] /\ read'[g] = read[g] /\ stamps'[g] = stamps[g]
  BY <1>1, <1>2
<1> QED
  BY <1>7, <1>8, <1>10, <1>11, <1>12, HasherMarks

LEMMA MarksPreserved ==
  ASSUME RetentionTypeOK, RetentionTypeOK', MarkInv, [Next]_allVars
  PROVE  MarkInv'
<1> USE DEF RetentionTypeOK
<1>1. ASSUME NEW l \in Logs, Capture(l) \/ Lose(l) \/ Insert(l) \/ InsertCaptured(l)
      PROVE  MarkInv'
  <2>1. UNCHANGED <<overtaken, cluster, watermark, pc, from, batch, chunk, read, stamps>>
    BY <1>1 DEF Capture, Lose, Insert, InsertCaptured, Stored, hasherVars
  <2>2. blank \subseteq blank'
    BY <1>1 DEF Capture, Lose, Insert, InsertCaptured
  <2>3. /\ row[l] \in {"absent", "captured"}
        /\ row'[l] \in {"absent", "captured", "open"}
        /\ \A k \in Logs : k # l => row'[k] = row[k]
    <3>1. row[l] \in {"absent", "captured"}
      BY <1>1 DEF Capture, Lose, Insert, InsertCaptured
    <3>2. \/ row' = [row EXCEPT ![l] = "absent"] \/ row' = [row EXCEPT ![l] = "captured"]
          \/ row' = [row EXCEPT ![l] = "open"]
      BY <1>1 DEF Capture, Lose, Insert, InsertCaptured, Stored
    <3> QED
      BY <3>1, <3>2 DEF TypeOK
  <2>4. \A k \in Logs : Settled(k) => Settled(k)'
    BY <2>3 DEF Settled
  <2>5. Overlooked' \subseteq Overlooked
    BY <2>1, <2>2, <2>3 DEF Overlooked, Visible
  <2> QED
    BY <2>1, <2>2, <2>4, <2>5, LogsKeepMarks
<1>2. CASE Hashing /\ UNCHANGED retentionVars
  BY <1>1, <1>2, CommitKeepsMarks, NotHashingMarks, PendingMarks, ReadChunkMarks, AssignMarks,
     StampMarks, AdvanceMarks DEF Hashing, HasherStep
<1>3. CASE Age \/ Unflag \/ SweepClusters \/ UNCHANGED allVars
  <2>1. UNCHANGED <<row, blank, overtaken, cluster, watermark, pc, from, batch, chunk, read, stamps>>
    BY <1>3 DEF Age, Unflag, SweepClusters, allVars, vars, logVars, hasherVars
  <2>2. Overlooked' = Overlooked /\ \A k \in Logs : Settled(k) => Settled(k)'
    BY <2>1 DEF Overlooked, Visible, Settled
  <2> QED
    BY <2>1, <2>2, LogsKeepMarks
<1>4. CASE DeleteBatch
  <2>1. UNCHANGED <<blank, overtaken, watermark, pc, from, batch, chunk, read, stamps>>
    BY <1>4 DEF DeleteBatch, hasherVars
  <2>2. \A k \in Logs : row'[k] = "gone" \/ (row'[k] = row[k] /\ cluster'[k] = cluster[k])
    BY <1>4 DEF DeleteBatch
  <2>3. Overlooked' \subseteq Overlooked /\ \A k \in Logs : Settled(k) => Settled(k)'
    BY <2>1, <2>2 DEF Overlooked, Visible, Settled
  <2> QED
    BY <2>1, <2>3, LogsKeepMarks
<1> QED
  BY <1>2, <1>3, <1>4 DEF Next

(* What has a digest below the mark has a campaign, unless its transaction    *)
(* committed when a run was past its id: batches, chunks, crashes, refused    *)
(* stamps, runs side by side and deletions in between skip nothing.           *)
THEOREM WatermarkSkipsOnlyOvertaken == Spec => []SkipsOnlyOvertaken
<1>1. RetentionInit => MarkInv
  <2> SUFFICES ASSUME RetentionInit PROVE MarkInv
    OBVIOUS
  <2>1. Visible = {}
    BY DEF RetentionInit, Init, Visible
  <2> QED
    BY <2>1 DEF RetentionInit, Init, MarkInv, MarkSettled, SkipsOnlyOvertaken, HoldsSettled, HoldsOverlooked,
                HashingPhases
<1>2. RetentionTypeOK /\ RetentionTypeOK' /\ MarkInv /\ [Next]_allVars => MarkInv'
  BY MarksPreserved
<1>3. MarkInv => SkipsOnlyOvertaken
  BY DEF MarkInv
<1> QED
  BY <1>1, <1>2, <1>3, TypeCorrect, PTL DEF Spec
=============================================================================
