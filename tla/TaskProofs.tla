----------------------------- MODULE TaskProofs -----------------------------
(***************************************************************************)
(* Two of the background tasks' guarantees.  What the analysis concludes,  *)
(* for any addresses, requests and threads, and any thresholds.  And, at   *)
(* the end, what the lease of a single_pod task guarantees, for any number *)
(* of pods and any period: at most one run per occurrence when the lease   *)
(* outlasts the jitter, and at least one when it also expires, jitter      *)
(* included, before the next occurrence.                                   *)
(***************************************************************************)
EXTENDS Analysis, TaskLease, FiniteSetTheorems, SequenceTheorems, WellFoundedInduction, TLAPS

-----------------------------------------------------------------------------
(* What the operators of the model return.                                  *)

(* A set of numbers that is not empty has a least one. *)
LEMMA LeastExists ==
  ASSUME NEW S \in SUBSET Nat, S # {}
  PROVE  \E m \in S : \A n \in S : m <= n
<1> DEFINE R == {ss \in Nat \X Nat : ss[1] < ss[2]}
<1>1. IsWellFoundedOn(R, Nat)
  BY NatLessThanWellFounded, Zenon DEF OpToRel
<1> HIDE DEF R
<1>2. PICK m \in S : \A n \in S : ~(<<n, m>> \in R)
  BY <1>1, WFMin
<1>3. \A n \in S : ~(n < m)
  BY <1>2 DEF R
<1> QED
  BY <1>3

LEMMA MinIsLeast ==
  ASSUME NEW S \in SUBSET Nat, S # {}
  PROVE  Min(S) \in S /\ \A n \in S : Min(S) <= n
BY LeastExists DEF Min

(* Removing at a position closes the gap. *)
LEMMA RemovedAt ==
  ASSUME NEW S, NEW s \in Seq(S), NEW p \in 1 .. Len(s)
  PROVE  /\ RemoveAt(s, p) \in Seq(S) /\ Len(RemoveAt(s, p)) = Len(s) - 1
         /\ \A i \in 1 .. Len(s) - 1 : RemoveAt(s, p)[i] = IF i < p THEN s[i] ELSE s[i + 1]
<1> DEFINE l == SubSeq(s, 1, p - 1)
           r == SubSeq(s, p + 1, Len(s))
           t == l \o r
<1>1. Len(s) \in Nat /\ p \in Nat /\ p >= 1 /\ p <= Len(s)
  BY LenProperties
<1>2. /\ l \in Seq(S) /\ Len(l) = p - 1
      /\ \A i \in 1 .. p - 1 : l[i] = s[i]
  <2>1. 1 \in Int /\ p - 1 \in Int /\ \A i \in 1 .. p - 1 : s[i] \in S
    BY <1>1, ElementOfSeq
  <2>2. /\ SubSeq(s, 1, p - 1) \in Seq(S)
        /\ Len(SubSeq(s, 1, p - 1)) = IF 1 <= p - 1 THEN p - 1 - 1 + 1 ELSE 0
        /\ \A i \in 1 .. p - 1 - 1 + 1 : SubSeq(s, 1, p - 1)[i] = s[1 + i - 1]
    BY <2>1, SubSeqProperties
  <2> QED
    BY <1>1, <2>2
<1>3. /\ r \in Seq(S) /\ Len(r) = Len(s) - p
      /\ \A i \in 1 .. Len(s) - p : r[i] = s[p + i]
  <2>1. p + 1 \in Int /\ Len(s) \in Int /\ \A i \in p + 1 .. Len(s) : s[i] \in S
    BY <1>1, ElementOfSeq
  <2>2. /\ r \in Seq(S)
        /\ Len(r) = IF p + 1 <= Len(s) THEN Len(s) - (p + 1) + 1 ELSE 0
        /\ \A i \in 1 .. Len(s) - (p + 1) + 1 : r[i] = s[p + 1 + i - 1]
    BY <2>1, SubSeqProperties
  <2> HIDE DEF r
  <2>3. \A i \in 1 .. Len(s) - p : p + 1 + i - 1 = p + i /\ i \in 1 .. Len(s) - (p + 1) + 1
    BY <1>1
  <2>4. Len(r) = Len(s) - p
    <3> DEFINE n == Len(s)
               m == Len(r)
    <3>1. n \in Nat /\ p \in Nat /\ p <= n
      BY <1>1
    <3>2. m = IF p + 1 <= n THEN n - (p + 1) + 1 ELSE 0
      BY <2>2
    <3> HIDE DEF n, m
    <3>3. m = n - p
      BY <3>1, <3>2
    <3> QED
      BY <3>3 DEF n, m
  <2> QED
    BY <2>2, <2>3, <2>4
<1> HIDE DEF l, r
<1>4. t \in Seq(S) /\ Len(t) = Len(l) + Len(r)
  BY <1>2, <1>3, ConcatProperties
<1>5. ASSUME NEW i \in 1 .. Len(s) - 1 PROVE t[i] = IF i < p THEN s[i] ELSE s[i + 1]
  <2>1. t[i] = IF i <= Len(l) THEN l[i] ELSE r[i - Len(l)]
    BY <1>1, <1>2, <1>3, <1>5, ConcatProperties
  <2>2. CASE i < p
    BY <1>1, <1>2, <2>1, <2>2
  <2>3. CASE ~(i < p)
    <3>1. i - (p - 1) \in 1 .. Len(s) - p /\ p + (i - (p - 1)) = i + 1
      BY <1>1, <2>3
    <3>2. ~(i <= Len(l))
      BY <1>1, <1>2, <2>3
    <3> QED
      BY <1>2, <1>3, <2>1, <2>3, <3>1, <3>2
  <2> QED
    BY <2>2, <2>3
<1>6. Len(t) = Len(s) - 1
  BY <1>1, <1>2, <1>3, <1>4
<1>7. t = RemoveAt(s, p)
  BY DEF RemoveAt, l, r
<1> HIDE DEF t
<1> QED
  BY <1>4, <1>5, <1>6, <1>7

(* What is removed from a sequence without repetitions is gone, and nothing *)
(* else is.                                                                 *)
LEMMA RemovedIsGone ==
  ASSUME NEW S, NEW s \in Seq(S), IsInjective(s), NEW e
  PROVE  /\ RemoveFirst(s, e) \in Seq(S)
         /\ ToSet(RemoveFirst(s, e)) = ToSet(s) \ {e}
         /\ IsInjective(RemoveFirst(s, e))
<1>1. Len(s) \in Nat /\ DOMAIN s = 1 .. Len(s)
  BY LenProperties
<1>2. CASE ~\E i \in 1 .. Len(s) : s[i] = e
  <2>1. RemoveFirst(s, e) = s
    BY <1>2 DEF RemoveFirst
  <2> QED
    BY <1>1, <1>2, <2>1 DEF ToSet
<1>3. CASE \E i \in 1 .. Len(s) : s[i] = e
  <2> DEFINE I == {i \in 1 .. Len(s) : s[i] = e}
  <2>1. I \in SUBSET Nat /\ I # {}
    BY <1>1, <1>3
  <2>2. PICK p \in I : Min(I) = p
    BY <2>1, MinIsLeast
  <2>3. RemoveFirst(s, e) = RemoveAt(s, p)
    BY <1>3, <2>1, <2>2 DEF RemoveFirst, SelectInSeq
  <2>4. p \in 1 .. Len(s) /\ s[p] = e
    BY <2>2
  <2> HIDE DEF I
  <2> DEFINE t == RemoveAt(s, p)
  <2>7. /\ t \in Seq(S) /\ Len(t) = Len(s) - 1
        /\ \A i \in 1 .. Len(s) - 1 : t[i] = IF i < p THEN s[i] ELSE s[i + 1]
    BY <2>4, RemovedAt
  <2>8. DOMAIN t = 1 .. Len(s) - 1
    BY <1>1, <2>4, <2>7, LenProperties
  <2> HIDE DEF t
  <2>9. \A i \in 1 .. Len(s) : i # p => s[i] # e
    BY <1>1, <2>4 DEF IsInjective
  <2>10. ToSet(t) = ToSet(s) \ {e}
    <3>1. ASSUME NEW i \in 1 .. Len(s) - 1 PROVE t[i] \in ToSet(s) \ {e}
      <4>1. CASE i < p
        <5>1. i \in 1 .. Len(s) /\ i # p /\ t[i] = s[i]
          BY <1>1, <2>4, <2>7, <4>1
        <5> QED
          BY <1>1, <2>9, <5>1 DEF ToSet
      <4>2. CASE ~(i < p)
        <5>1. i + 1 \in 1 .. Len(s) /\ i + 1 # p /\ t[i] = s[i + 1]
          BY <1>1, <2>4, <2>7, <4>2
        <5> QED
          BY <1>1, <2>9, <5>1 DEF ToSet
      <4> QED
        BY <4>1, <4>2
    <3>2. ASSUME NEW i \in 1 .. Len(s), i # p PROVE \E j \in 1 .. Len(s) - 1 : t[j] = s[i]
      <4>1. CASE i < p
        BY <1>1, <2>4, <2>7, <4>1
      <4>2. CASE ~(i < p)
        <5>1. i - 1 \in 1 .. Len(s) - 1 /\ ~(i - 1 < p) /\ i - 1 + 1 = i
          BY <1>1, <2>4, <3>2, <4>2
        <5> QED
          BY <2>7, <5>1
      <4> QED
        BY <4>1, <4>2
    <3>3. ToSet(t) \subseteq ToSet(s) \ {e}
      BY <2>8, <3>1 DEF ToSet
    <3>4. ASSUME NEW x \in ToSet(s), x # e PROVE x \in ToSet(t)
      <4>1. PICK i \in 1 .. Len(s) : s[i] = x
        BY <1>1 DEF ToSet
      <4> QED
        BY <2>4, <2>8, <3>2, <3>4, <4>1 DEF ToSet
    <3> QED
      BY <3>3, <3>4
  <2>11. IsInjective(t)
    <3> SUFFICES ASSUME NEW i \in 1 .. Len(s) - 1, NEW j \in 1 .. Len(s) - 1, t[i] = t[j]
                 PROVE  i = j
      BY <2>8 DEF IsInjective
    <3> DEFINE was(n) == IF n < p THEN n ELSE n + 1
    <3>1. was(i) \in DOMAIN s /\ was(j) \in DOMAIN s /\ s[was(i)] = s[was(j)]
      BY <1>1, <2>4, <2>7
    <3>2. was(i) = was(j)
      BY <3>1 DEF IsInjective
    <3> QED
      BY <1>1, <2>4, <3>2
  <2> QED
    BY <2>3, <2>7, <2>10, <2>11 DEF t
<1> QED
  BY <1>2, <1>3

(* What is appended to a sequence is its last, and nothing else changes. *)
LEMMA AppendedIsLast ==
  ASSUME NEW S, NEW s \in Seq(S), NEW e \in S
  PROVE  /\ Append(s, e) \in Seq(S)
         /\ ToSet(Append(s, e)) = ToSet(s) \cup {e}
         /\ IsInjective(s) /\ e \notin ToSet(s) => IsInjective(Append(s, e))
<1>1. Len(s) \in Nat /\ DOMAIN s = 1 .. Len(s)
  BY LenProperties
<1>2. /\ Append(s, e) \in Seq(S)
      /\ Len(Append(s, e)) = Len(s) + 1
      /\ \A i \in 1 .. Len(s) : Append(s, e)[i] = s[i]
      /\ Append(s, e)[Len(s) + 1] = e
  BY AppendProperties
<1>3. DOMAIN Append(s, e) = 1 .. Len(s) + 1
  BY <1>2, LenProperties
<1>4. ToSet(Append(s, e)) = ToSet(s) \cup {e}
  <2>1. 1 .. Len(s) + 1 = (1 .. Len(s)) \cup {Len(s) + 1}
    BY <1>1
  <2> QED
    BY <1>1, <1>2, <1>3, <2>1 DEF ToSet
<1>5. ASSUME IsInjective(s), e \notin ToSet(s) PROVE IsInjective(Append(s, e))
  <2> SUFFICES ASSUME NEW i \in 1 .. Len(s) + 1, NEW j \in 1 .. Len(s) + 1,
                      Append(s, e)[i] = Append(s, e)[j]
               PROVE  i = j
    BY <1>3 DEF IsInjective
  <2>1. \A n \in 1 .. Len(s) : s[n] # e
    BY <1>1, <1>5 DEF ToSet
  <2> QED
    BY <1>1, <1>2, <1>5, <2>1 DEF IsInjective
<1> QED
  BY <1>2, <1>4, <1>5

(* The last analysis of an address is now: it is the last in the order. *)
LEMMA StampedIsLast ==
  ASSUME NEW S, NEW s \in Seq(S), IsInjective(s), NEW e \in S
  PROVE  LET t == Append(RemoveFirst(s, e), e)
         IN  t \in Seq(S) /\ IsInjective(t) /\ ToSet(t) = ToSet(s) \cup {e}
<1>1. /\ RemoveFirst(s, e) \in Seq(S) /\ IsInjective(RemoveFirst(s, e))
      /\ ToSet(RemoveFirst(s, e)) = ToSet(s) \ {e}
  BY RemovedIsGone
<1> QED
  BY <1>1, AppendedIsLast

-----------------------------------------------------------------------------
(* Verdicts.                                                                 *)

SignalSets == [risky : BOOLEAN, robots : BOOLEAN, uneven : BOOLEAN, agents : BOOLEAN, attack : BOOLEAN]

LEMMA CategoriesAre ==
  /\ DOMAIN Categories = 1 .. 4
  /\ Categories[1] = "attacker" /\ Categories[2] = "good_crawler"
  /\ Categories[3] = "bad_crawler" /\ Categories[4] = "regular_user"
  /\ ToSet(Categories) = {"attacker", "good_crawler", "bad_crawler", "regular_user"}
<1>1. /\ DOMAIN Categories = 1 .. 4
      /\ Categories[1] = "attacker" /\ Categories[2] = "good_crawler"
      /\ Categories[3] = "bad_crawler" /\ Categories[4] = "regular_user"
  BY DEF Categories
<1>2. 1 .. 4 = {1, 2, 3, 4}
  OBVIOUS
<1> QED
  BY <1>1, <1>2 DEF ToSet

(* What each category can score, and what an attack alone is worth. *)
LEMMA ScoresBounded ==
  ASSUME NEW s \in SignalSets
  PROVE  /\ Score("attacker", s) \in Nat /\ (s.attack => Score("attacker", s) >= 15)
         /\ Score("good_crawler", s) \in 0 .. 1
         /\ Score("bad_crawler", s) \in 0 .. 14
         /\ Score("regular_user", s) \in 0 .. 8
<1>1. DOMAIN s = {"risky", "robots", "uneven", "agents", "attack"}
  BY DEF SignalSets
<1>2. Score("attacker", s) \in Nat /\ (s.attack => Score("attacker", s) >= 15)
  BY <1>1 DEF Score, CountsFor, Weights, SignalSets
<1>3. Score("good_crawler", s) \in 0 .. 1
  BY <1>1 DEF Score, CountsFor, Weights, SignalSets
<1>4. Score("bad_crawler", s) \in 0 .. 14
  BY <1>1 DEF Score, CountsFor, Weights, SignalSets
<1>5. Score("regular_user", s) \in 0 .. 8
  BY <1>1 DEF Score, CountsFor, Weights, SignalSets
<1> QED
  BY <1>2, <1>3, <1>4, <1>5

(* The verdict is one of the categories, none of which scores more. *)
LEMMA BestIsLargest ==
  ASSUME NEW s \in SignalSets
  PROVE  \E k \in 1 .. 4 : /\ Best(s) = Categories[k]
                           /\ \A j \in 1 .. 4 : Score(Categories[j], s) <= Score(Categories[k], s)
<1> DEFINE score(k) == Score(Categories[k], s)
           largest == {k \in 1 .. 4 : \A j \in 1 .. 4 : score(j) <= score(k)}
<1>1. \A k \in 1 .. 4 : score(k) \in Nat
  BY ScoresBounded, CategoriesAre
<1>2. Best(s) = Categories[Min(largest)]
  <2> DEFINE scores == [k \in 1 .. 4 |-> score(k)]
  <2>1. {k \in DOMAIN scores : \A j \in DOMAIN scores : scores[j] <= scores[k]} = largest
    OBVIOUS
  <2> QED
    BY <2>1, CategoriesAre DEF Best
<1> HIDE DEF score
<1>3. largest # {}
  <2>1. \/ \A j \in 1 .. 4 : score(j) <= score(1)
        \/ \A j \in 1 .. 4 : score(j) <= score(2)
        \/ \A j \in 1 .. 4 : score(j) <= score(3)
        \/ \A j \in 1 .. 4 : score(j) <= score(4)
    BY <1>1
  <2> QED
    BY <2>1
<1>4. Min(largest) \in largest
  BY <1>3, MinIsLeast
<1> QED
  BY <1>2, <1>4 DEF score

LEMMA BestTyped ==
  ASSUME NEW s \in SignalSets
  PROVE  Best(s) \in ToSet(Categories)
BY BestIsLargest, CategoriesAre DEF ToSet

(* An attack outweighs all else. *)
LEMMA BestOfAttack ==
  ASSUME NEW s \in SignalSets, s.attack
  PROVE  Best(s) = "attacker"
<1>1. PICK k \in 1 .. 4 : /\ Best(s) = Categories[k]
                          /\ \A j \in 1 .. 4 : Score(Categories[j], s) <= Score(Categories[k], s)
  BY BestIsLargest
<1>2. Score("attacker", s) <= Score(Categories[k], s)
  BY <1>1, CategoriesAre
<1> QED
  BY <1>1, <1>2, ScoresBounded, CategoriesAre

LEMMA SignalsTyped ==
  ASSUME NEW ls \in SUBSET Logs, NEW uneven \in BOOLEAN
  PROVE  /\ Signals(ls, uneven) \in SignalSets
         /\ Signals(ls, uneven).attack <=> Cardinality(AttacksIn(ls)) >= AttackUrlsThreshold
<1> DEFINE attacks == Cardinality(AttacksIn(ls)) >= AttackUrlsThreshold
           risky == /\ 100 * Cardinality(ls) > RiskyPercent
                    /\ Percent({l \in ls : Feature[l].risky}, ls) >= RiskyPercent
           robots == Percent({l \in ls : Feature[l].robots}, ls) >= RobotsPercent
           agents == Cardinality({Feature[l].agent : l \in ls}) >= AgentsThreshold
<1>1. Signals(ls, uneven) = [risky |-> risky, robots |-> robots, uneven |-> uneven,
                             agents |-> agents, attack |-> attacks]
  BY DEF Signals
<1>2. {risky, robots, agents, attacks} \subseteq BOOLEAN
  OBVIOUS
<1> HIDE DEF attacks, risky, robots, agents
<1>3. Signals(ls, uneven) \in SignalSets /\ Signals(ls, uneven).attack = attacks
  BY <1>1, <1>2 DEF SignalSets
<1> QED
  BY <1>3 DEF attacks

-----------------------------------------------------------------------------
(* Types.  A run that goes on has addresses left, and a verdict is what some *)
(* timing makes of the requests that were read.                              *)

RowsOK ==
  /\ rows \in SUBSET Ips
  /\ category \in [Ips -> ToSet(Categories) \cup {None}]
  /\ manual \in [Ips -> BOOLEAN] /\ flag \in [Ips -> BOOLEAN]
  /\ order \in Seq(rows) /\ IsInjective(order) /\ aged \subseteq ToSet(order)

LogsOK ==
  /\ ipOf \in [Logs -> Ips \cup {None}] /\ later \in [Logs -> SUBSET Logs]
  /\ stored \in SUBSET Logs /\ dated \in SUBSET Logs /\ burst \in SUBSET Ips
  /\ considered \in SUBSET Logs

Scored(a) ==
  read[a] # {} /\ \E uneven \in BOOLEAN : verdict[a] = Best(Signals(read[a], uneven))

AnalystsOK ==
  /\ pc \in [Analysts -> {"idle", "read", "load", "commit"}]
  /\ batch \in [Analysts -> Seq(Ips)] /\ \A a \in Analysts : Len(batch[a]) <= MaxIps
  /\ read \in [Analysts -> SUBSET Logs]
  /\ verdict \in [Analysts -> ToSet(Categories) \cup {None}]
  /\ loaded \in [Analysts -> [exists : BOOLEAN, category : ToSet(Categories) \cup {None}, flag : BOOLEAN]]
  /\ \A a \in Analysts : pc[a] # "idle" => batch[a] # <<>>
  /\ \A a \in Analysts : pc[a] \in {"load", "commit"} => Scored(a)

AInv == RowsOK /\ LogsOK /\ AnalystsOK /\ events \in 0 .. MaxEvents

LEMMA InvTyped == AInv => TypeOK
BY DEF AInv, RowsOK, LogsOK, AnalystsOK, TypeOK

LEMMA ConstantsTyped ==
  /\ IsFiniteSet(Ips) /\ Ips \in SUBSET Nat /\ MaySend \in [Ips -> SUBSET Logs]
  /\ MaxIps \in Nat \ {0} /\ MaxEvents \in Nat /\ Scheduled \in Analysts
BY AnalysisAssumption DEF AnalysisAssumption

LEMMA EventTyped == events \in 0 .. MaxEvents /\ Event => events' \in 0 .. MaxEvents
BY ConstantsTyped DEF Event

LEMMA NoRowTyped == NoRow \in [exists : BOOLEAN, category : ToSet(Categories) \cup {None}, flag : BOOLEAN]
BY DEF NoRow

LEMMA NothingIn == \A S : <<>> \in Seq(S) /\ ToSet(<<>>) = {} /\ IsInjective(<<>>) /\ Len(<<>>) = 0
BY DEF ToSet, IsInjective

LEMMA InitOK == Init => AInv
<1> SUFFICES ASSUME Init PROVE AInv
  OBVIOUS
<1>1. RowsOK
  BY NothingIn DEF Init, RowsOK
<1>2. LogsOK
  BY DEF Init, LogsOK
<1>3. AnalystsOK
  BY NothingIn, NoRowTyped, ConstantsTyped DEF Init, AnalystsOK
<1>4. events \in 0 .. MaxEvents
  BY ConstantsTyped DEF Init
<1> QED
  BY <1>1, <1>2, <1>3, <1>4 DEF AInv

(* A sequence of rows that holds an address less is one of the other rows. *)
LEMMA NarrowedSeq ==
  ASSUME NEW S, NEW s \in Seq(S), NEW T, ToSet(s) \subseteq T
  PROVE  s \in Seq(T)
<1>1. Len(s) \in Nat /\ s \in [1 .. Len(s) -> S] /\ DOMAIN s = 1 .. Len(s)
  BY LenProperties
<1>2. \A i \in 1 .. Len(s) : s[i] \in T
  BY <1>1 DEF ToSet
<1>3. s \in [1 .. Len(s) -> T]
  BY <1>1, <1>2
<1> QED
  BY <1>1, <1>3, SeqDef

LEMMA InSet ==
  ASSUME NEW S, NEW s \in Seq(S)
  PROVE  ToSet(s) \subseteq S
BY LenProperties, ElementOfSeq DEF ToSet

LEMMA StampTyped ==
  ASSUME RowsOK, NEW i \in Ips, Stamp(i), i \in rows', rows \subseteq rows'
  PROVE  /\ order' \in Seq(rows') /\ IsInjective(order') /\ aged' \subseteq ToSet(order')
         /\ ToSet(order') = ToSet(order) \cup {i}
<1>1. order \in Seq(rows')
  BY SeqMonotonic DEF RowsOK
<1> QED
  BY <1>1, StampedIsLast DEF RowsOK, Stamp

(* The first address of a batch, and the others. *)
LEMMA FirstOfBatch ==
  ASSUME AnalystsOK, NEW a \in Analysts, batch[a] # <<>>
  PROVE  /\ First(a) \in Ips /\ First(a) \in ToSet(batch[a])
         /\ Tail(batch[a]) \in Seq(Ips) /\ Len(Tail(batch[a])) = Len(batch[a]) - 1
         /\ ToSet(Tail(batch[a])) \subseteq ToSet(batch[a])
         /\ Len(batch[a]) # 1 => Tail(batch[a]) # <<>>
<1>1. batch[a] \in Seq(Ips) /\ Len(batch[a]) \in Nat \ {0} /\ DOMAIN batch[a] = 1 .. Len(batch[a])
  BY EmptySeq, LenProperties DEF AnalystsOK
<1>2. First(a) = batch[a][1] /\ 1 \in 1 .. Len(batch[a])
  BY <1>1, HeadTailProperties DEF First
<1>3. /\ Tail(batch[a]) \in Seq(Ips) /\ Len(Tail(batch[a])) = Len(batch[a]) - 1
      /\ \A i \in 1 .. Len(Tail(batch[a])) : Tail(batch[a])[i] = batch[a][i + 1]
  BY <1>1, HeadTailProperties
<1>4. DOMAIN Tail(batch[a]) = 1 .. Len(batch[a]) - 1
  BY <1>3, LenProperties
<1>5. \A i \in 1 .. Len(batch[a]) - 1 : i + 1 \in 1 .. Len(batch[a])
  BY <1>1
<1>6. ToSet(Tail(batch[a])) \subseteq ToSet(batch[a])
  BY <1>1, <1>3, <1>4, <1>5 DEF ToSet
<1>7. Len(batch[a]) # 1 => Tail(batch[a]) # <<>>
  <2>1. Tail(batch[a]) = <<>> => Len(batch[a]) - 1 = 0
    BY <1>3, EmptySeq
  <2> QED
    BY <1>1, <2>1
<1>8. First(a) \in Ips /\ First(a) \in ToSet(batch[a])
  BY <1>1, <1>2, ElementOfSeq DEF ToSet
<1> QED
  BY <1>3, <1>6, <1>7, <1>8

(* Analysts. *)

LEMMA NextIpTyped ==
  ASSUME AnalystsOK, NEW a \in Analysts, pc[a] # "idle", NextIp(a)
  PROVE  AnalystsOK' /\ ToSet(batch'[a]) \subseteq ToSet(batch[a])
<1>1. batch[a] # <<>> /\ Len(batch[a]) \in Nat /\ Len(batch[a]) <= MaxIps /\ MaxIps \in Nat
  BY ConstantsTyped, LenProperties DEF AnalystsOK
<1>2. /\ Tail(batch[a]) \in Seq(Ips) /\ Len(Tail(batch[a])) = Len(batch[a]) - 1
      /\ ToSet(Tail(batch[a])) \subseteq ToSet(batch[a])
      /\ Len(batch[a]) # 1 => Tail(batch[a]) # <<>>
  BY <1>1, FirstOfBatch
<1>3. Len(Tail(batch[a])) <= MaxIps
  BY <1>1, <1>2
<1>4. /\ batch' = [batch EXCEPT ![a] = Tail(batch[a])]
      /\ pc' = [pc EXCEPT ![a] = IF Len(batch[a]) = 1 THEN "idle" ELSE "read"]
      /\ read' = [read EXCEPT ![a] = {}] /\ verdict' = [verdict EXCEPT ![a] = None]
      /\ loaded' = [loaded EXCEPT ![a] = NoRow]
  BY DEF NextIp, Goto
<1>5. \A b \in Analysts : b # a => Scored(b)' = Scored(b)
  BY <1>4 DEF AnalystsOK, Scored
<1>6. /\ pc' \in [Analysts -> {"idle", "read", "load", "commit"}]
      /\ batch' \in [Analysts -> Seq(Ips)] /\ \A b \in Analysts : Len(batch'[b]) <= MaxIps
      /\ read' \in [Analysts -> SUBSET Logs]
      /\ verdict' \in [Analysts -> ToSet(Categories) \cup {None}]
      /\ loaded' \in [Analysts -> [exists : BOOLEAN, category : ToSet(Categories) \cup {None}, flag : BOOLEAN]]
  BY <1>2, <1>3, <1>4, NoRowTyped DEF AnalystsOK
<1>7. \A b \in Analysts : pc'[b] # "idle" => batch'[b] # <<>>
  BY <1>2, <1>4 DEF AnalystsOK
<1>8. \A b \in Analysts : pc'[b] \in {"load", "commit"} => Scored(b)'
  BY <1>4, <1>5 DEF AnalystsOK
<1> QED
  BY <1>2, <1>4, <1>6, <1>7, <1>8 DEF AnalystsOK

LEMMA StopTyped ==
  ASSUME AnalystsOK, NEW a \in Analysts, Stop(a)
  PROVE  AnalystsOK' /\ ToSet(batch'[a]) = {}
<1>1. /\ batch' = [batch EXCEPT ![a] = <<>>] /\ pc' = [pc EXCEPT ![a] = "idle"]
      /\ read' = [read EXCEPT ![a] = {}] /\ verdict' = [verdict EXCEPT ![a] = None]
      /\ loaded' = [loaded EXCEPT ![a] = NoRow]
  BY DEF Stop, Goto
<1>2. \A b \in Analysts : b # a => Scored(b)' = Scored(b)
  BY <1>1 DEF AnalystsOK, Scored
<1>3. /\ pc' \in [Analysts -> {"idle", "read", "load", "commit"}]
      /\ batch' \in [Analysts -> Seq(Ips)] /\ \A b \in Analysts : Len(batch'[b]) <= MaxIps
      /\ read' \in [Analysts -> SUBSET Logs]
      /\ verdict' \in [Analysts -> ToSet(Categories) \cup {None}]
      /\ loaded' \in [Analysts -> [exists : BOOLEAN, category : ToSet(Categories) \cup {None}, flag : BOOLEAN]]
  BY <1>1, NoRowTyped, NothingIn, ConstantsTyped DEF AnalystsOK
<1>4. \A b \in Analysts : pc'[b] # "idle" => batch'[b] # <<>>
  BY <1>1 DEF AnalystsOK
<1>5. \A b \in Analysts : pc'[b] \in {"load", "commit"} => Scored(b)'
  BY <1>1, <1>2 DEF AnalystsOK
<1>6. ToSet(batch'[a]) = {}
  BY <1>1, NothingIn DEF AnalystsOK
<1> QED
  BY <1>3, <1>4, <1>5, <1>6 DEF AnalystsOK

(* What a run selects needs it. *)
LEMMA SelectedNeed ==
  ASSUME RowsOK, NEW queue \in Queues, \E i \in rows : Needs(i)
  PROVE  LET b == SubSeq(queue, 1, Min({MaxIps, Len(queue)}))
         IN  /\ b \in Seq(Ips) /\ Len(b) <= MaxIps /\ b # <<>>
             /\ \A i \in ToSet(b) : Needs(i)
<1> DEFINE needy == {i \in rows : Needs(i)}
           n == Min({MaxIps, Len(queue)})
           b == SubSeq(queue, 1, n)
<1>1. IsFiniteSet(needy) /\ needy # {} /\ needy \in SUBSET Ips
  BY ConstantsTyped, FS_Subset DEF RowsOK
<1>2. Cardinality(needy) \in Nat /\ Cardinality(needy) # 0
  BY <1>1, FS_CardinalityType, FS_EmptySet
<1>3. queue \in [1 .. Cardinality(needy) -> needy]
  BY DEF Queues, SetToSeqs
<1>4. queue \in Seq(needy) /\ Len(queue) = Cardinality(needy)
  <2> DEFINE N == Cardinality(needy)
  <2>1. N \in Nat /\ queue \in [1 .. N -> needy]
    BY <1>2, <1>3
  <2> HIDE DEF N, needy
  <2>2. queue \in Seq(needy)
    BY <2>1, SeqDef
  <2>3. Len(queue) = N
    BY <2>1, <2>2, LenProperties
  <2> QED
    BY <2>2, <2>3 DEF N
<1>5. n \in Nat /\ n >= 1 /\ n <= MaxIps /\ n <= Len(queue)
  <2>1. {MaxIps, Len(queue)} \in SUBSET Nat /\ {MaxIps, Len(queue)} # {}
    BY <1>2, <1>4, ConstantsTyped
  <2>2. n \in {MaxIps, Len(queue)} /\ n <= MaxIps /\ n <= Len(queue)
    BY <2>1, MinIsLeast
  <2> QED
    BY <1>2, <1>4, <2>2, ConstantsTyped
<1> HIDE DEF n, needy
<1>6. \A i \in 1 .. n : queue[i] \in needy
  BY <1>2, <1>3, <1>4, <1>5
<1>7. b \in Seq(needy) /\ Len(b) = n
  <2>1. /\ SubSeq(queue, 1, n) \in Seq(needy)
        /\ Len(SubSeq(queue, 1, n)) = IF 1 <= n THEN n - 1 + 1 ELSE 0
    BY <1>5, <1>6, SubSeqProperties
  <2> QED
    BY <1>5, <2>1
<1> HIDE DEF b
<1>8. b # <<>> /\ b \in Seq(Ips)
  BY <1>1, <1>5, <1>7, EmptySeq, SeqMonotonic
<1>9. \A i \in ToSet(b) : Needs(i)
  BY <1>7, InSet DEF needy
<1> QED
  BY <1>5, <1>7, <1>8, <1>9 DEF b, n

LEMMA SelectTyped ==
  ASSUME AInv, NEW a \in Analysts, SelectBatch(a)
  PROVE  AInv' /\ \A i \in ToSet(batch'[a]) : Needs(i)
<1>1. PICK queue \in Queues :
        batch' = [batch EXCEPT ![a] = SubSeq(queue, 1, Min({MaxIps, Len(queue)}))]
  BY DEF SelectBatch
<1> DEFINE b == SubSeq(queue, 1, Min({MaxIps, Len(queue)}))
<1>2. /\ b \in Seq(Ips) /\ Len(b) <= MaxIps /\ b # <<>>
      /\ \A i \in ToSet(b) : Needs(i)
  BY SelectedNeed DEF SelectBatch, AInv
<1>3. batch' = [batch EXCEPT ![a] = b]
  BY <1>1
<1> HIDE DEF b
<1>4. /\ pc' = [pc EXCEPT ![a] = "read"] /\ UNCHANGED <<rowVars, logVars, read, verdict, loaded, considered>>
  BY DEF SelectBatch, Goto
<1>5. AnalystsOK'
  <2>1. /\ pc' \in [Analysts -> {"idle", "read", "load", "commit"}]
        /\ batch' \in [Analysts -> Seq(Ips)] /\ \A c \in Analysts : Len(batch'[c]) <= MaxIps
        /\ \A c \in Analysts : pc'[c] # "idle" => batch'[c] # <<>>
    BY <1>2, <1>3, <1>4 DEF AInv, AnalystsOK
  <2>2. \A c \in Analysts : pc'[c] \in {"load", "commit"} => Scored(c)'
    BY <1>4 DEF AInv, AnalystsOK, Scored
  <2> QED
    BY <1>4, <2>1, <2>2 DEF AInv, AnalystsOK
<1>6. RowsOK' /\ LogsOK'
  BY <1>4 DEF AInv, RowsOK, LogsOK, rowVars, logVars
<1>7. (events \in 0 .. MaxEvents)'
  BY EventTyped DEF SelectBatch, AInv
<1>8. \A i \in ToSet(batch'[a]) : Needs(i)
  BY <1>2, <1>3 DEF AInv, AnalystsOK
<1> QED
  BY <1>5, <1>6, <1>7, <1>8 DEF AInv

LEMMA AnalyseTyped ==
  ASSUME AInv, NEW a \in Analysts, Analyse(a)
  PROVE  AInv' /\ batch' = batch
<1> DEFINE ls == Accesses(a)
<1>1. ls \in SUBSET Logs /\ ls # {}
  BY DEF Analyse, Accesses, AInv, LogsOK
<1>2. PICK uneven \in BOOLEAN : verdict' = [verdict EXCEPT ![a] = Verdict[uneven][ls]]
  BY DEF Analyse
<1>3. Verdict[uneven][ls] = Best(Signals(ls, uneven))
  <2> HIDE DEF ls
  <2>1. ls \in (SUBSET Logs) \ {{}}
    BY <1>1
  <2> QED
    BY <2>1 DEF Verdict
<1>4. Best(Signals(ls, uneven)) \in ToSet(Categories)
  BY <1>1, SignalsTyped, BestTyped
<1>5. /\ pc' = [pc EXCEPT ![a] = "load"] /\ read' = [read EXCEPT ![a] = ls]
      /\ verdict' = [verdict EXCEPT ![a] = Best(Signals(ls, uneven))]
      /\ UNCHANGED <<rowVars, logVars, batch, loaded, events, considered>> /\ pc[a] = "read"
  BY <1>2, <1>3 DEF Analyse, Goto
<1> HIDE DEF ls
<1>6. AnalystsOK'
  <2>1. /\ pc' \in [Analysts -> {"idle", "read", "load", "commit"}]
        /\ read' \in [Analysts -> SUBSET Logs]
        /\ verdict' \in [Analysts -> ToSet(Categories) \cup {None}]
        /\ \A b \in Analysts : pc'[b] # "idle" => batch'[b] # <<>>
    BY <1>1, <1>4, <1>5 DEF AInv, AnalystsOK
  <2>2. Scored(a)'
    BY <1>1, <1>5 DEF AInv, AnalystsOK, Scored
  <2>3. \A b \in Analysts : b # a => Scored(b)' = Scored(b)
    BY <1>5 DEF AInv, AnalystsOK, Scored
  <2>4. \A b \in Analysts : pc'[b] \in {"load", "commit"} => Scored(b)'
    BY <1>5, <2>2, <2>3 DEF AInv, AnalystsOK
  <2> QED
    BY <1>5, <2>1, <2>4 DEF AInv, AnalystsOK
<1>7. RowsOK' /\ LogsOK' /\ (events \in 0 .. MaxEvents)'
  BY <1>5 DEF AInv, RowsOK, LogsOK, rowVars, logVars
<1> QED
  BY <1>5, <1>6, <1>7 DEF AInv

LEMMA LoadTyped ==
  ASSUME AInv, NEW a \in Analysts, LoadRow(a)
  PROVE  AInv' /\ batch' = batch
<1>1. First(a) \in Ips
  BY FirstOfBatch DEF LoadRow, AInv, AnalystsOK
<1> DEFINE row == IF First(a) \in rows
                  THEN [exists |-> TRUE, category |-> category[First(a)], flag |-> flag[First(a)]]
                  ELSE NoRow
<1>2. row \in [exists : BOOLEAN, category : ToSet(Categories) \cup {None}, flag : BOOLEAN]
  BY <1>1, NoRowTyped DEF AInv, RowsOK
<1>3. /\ pc' = [pc EXCEPT ![a] = "commit"] /\ loaded' = [loaded EXCEPT ![a] = row]
      /\ UNCHANGED <<rowVars, logVars, batch, read, verdict, events, considered>> /\ pc[a] = "load"
  BY DEF LoadRow, Goto
<1> HIDE DEF row
<1>4. AnalystsOK'
  <2>1. \A b \in Analysts : Scored(b)' = Scored(b)
    BY <1>3 DEF Scored
  <2>2. \A b \in Analysts : pc'[b] \in {"load", "commit"} => Scored(b)'
    BY <1>3, <2>1 DEF AInv, AnalystsOK
  <2>3. \A b \in Analysts : pc'[b] # "idle" => batch'[b] # <<>>
    BY <1>3 DEF AInv, AnalystsOK
  <2> QED
    BY <1>2, <1>3, <2>2, <2>3 DEF AInv, AnalystsOK
<1>5. RowsOK' /\ LogsOK' /\ (events \in 0 .. MaxEvents)'
  BY <1>3 DEF AInv, RowsOK, LogsOK, rowVars, logVars
<1> QED
  BY <1>3, <1>4, <1>5 DEF AInv

LEMMA MarkTyped ==
  ASSUME AInv, NEW a \in Analysts, MarkAnalysed(a)
  PROVE  AInv' /\ ToSet(batch'[a]) \subseteq ToSet(batch[a])
<1>1. First(a) \in Ips
  BY FirstOfBatch DEF MarkAnalysed, AInv, AnalystsOK
<1>2. AnalystsOK' /\ ToSet(batch'[a]) \subseteq ToSet(batch[a])
  BY NextIpTyped DEF MarkAnalysed, AInv
<1>3. RowsOK'
  <2>1. UNCHANGED <<rows, category, manual>>
    BY DEF MarkAnalysed
  <2>2. CASE First(a) \in rows
    <3>1. Stamp(First(a)) /\ flag' = [flag EXCEPT ![First(a)] = FALSE]
      BY <2>2 DEF MarkAnalysed
    <3>2. order' \in Seq(rows') /\ IsInjective(order') /\ aged' \subseteq ToSet(order')
      BY <1>1, <2>1, <2>2, <3>1, StampTyped DEF AInv
    <3> QED
      BY <2>1, <3>1, <3>2 DEF AInv, RowsOK
  <2>3. CASE First(a) \notin rows
    BY <2>1, <2>3 DEF MarkAnalysed, AInv, RowsOK
  <2> QED
    BY <2>2, <2>3
<1>4. LogsOK' /\ (events \in 0 .. MaxEvents)'
  BY DEF MarkAnalysed, AInv, LogsOK, logVars
<1> QED
  BY <1>2, <1>3, <1>4 DEF AInv

LEMMA CommitTyped ==
  ASSUME AInv, NEW a \in Analysts, CommitRow(a)
  PROVE  AInv' /\ ToSet(batch'[a]) \subseteq ToSet(batch[a])
<1> DEFINE i == First(a)
<1>1. i \in Ips
  BY FirstOfBatch DEF CommitRow, AInv, AnalystsOK
<1>2. AnalystsOK' /\ ToSet(batch'[a]) \subseteq ToSet(batch[a])
  BY NextIpTyped DEF CommitRow, AInv
<1>3. /\ rows' = rows \cup {i} /\ Stamp(i) /\ manual' = manual
      /\ category' = IF verdict[a] = loaded[a].category THEN category
                     ELSE [category EXCEPT ![i] = verdict[a]]
      /\ flag' = IF loaded[a].flag THEN [flag EXCEPT ![i] = FALSE] ELSE flag
  BY DEF CommitRow
<1> HIDE DEF i
<1>4. RowsOK'
  <2>1. order' \in Seq(rows') /\ IsInjective(order') /\ aged' \subseteq ToSet(order')
    BY <1>1, <1>3, StampTyped DEF AInv
  <2>2. category' \in [Ips -> ToSet(Categories) \cup {None}]
    BY <1>1, <1>3 DEF AInv, RowsOK, AnalystsOK
  <2>3. flag' \in [Ips -> BOOLEAN]
    BY <1>1, <1>3 DEF AInv, RowsOK
  <2> QED
    BY <1>1, <1>3, <2>1, <2>2, <2>3 DEF AInv, RowsOK
<1>5. LogsOK'
  BY DEF CommitRow, AInv, LogsOK, AnalystsOK, logVars
<1>6. (events \in 0 .. MaxEvents)'
  BY DEF CommitRow, AInv
<1> QED
  BY <1>2, <1>4, <1>5, <1>6 DEF AInv

LEMMA FailTyped ==
  ASSUME AInv, NEW a \in Analysts, CommitFails(a)
  PROVE  AInv' /\ ToSet(batch'[a]) \subseteq ToSet(batch[a])
<1>1. AnalystsOK' /\ ToSet(batch'[a]) \subseteq ToSet(batch[a])
  BY NextIpTyped DEF CommitFails, AInv
<1>2. RowsOK' /\ LogsOK'
  BY DEF CommitFails, AInv, RowsOK, LogsOK, rowVars, logVars
<1>3. (events \in 0 .. MaxEvents)'
  BY EventTyped DEF CommitFails, AInv
<1> QED
  BY <1>1, <1>2, <1>3 DEF AInv

LEMMA EndTyped ==
  ASSUME AInv, NEW a \in Analysts, Raise(a) \/ Die(a)
  PROVE  AInv' /\ ToSet(batch'[a]) = {}
<1>1. AnalystsOK' /\ ToSet(batch'[a]) = {}
  BY StopTyped DEF Raise, Die, AInv
<1>2. RowsOK' /\ LogsOK'
  BY DEF Raise, Die, Stop, AInv, RowsOK, LogsOK, rowVars, logVars
<1>3. (events \in 0 .. MaxEvents)'
  BY EventTyped DEF Raise, Die, AInv
<1> QED
  BY <1>1, <1>2, <1>3 DEF AInv

(* Requests, retention and the operator. *)

LEMMA AnalystsSame == AnalystsOK /\ UNCHANGED analystVars => AnalystsOK'
BY DEF AnalystsOK, analystVars, Scored

LEMMA RequestTyped ==
  ASSUME AInv, NEW i \in Ips, NEW l \in MaySend[i], Request(i, l)
  PROVE  AInv'
<1>1. l \in Logs
  BY ConstantsTyped
<1>2. /\ rows' = rows \cup {i} /\ UNCHANGED <<category, manual, order, aged>>
      /\ flag' = IF Feature[l].suspicious THEN [flag EXCEPT ![i] = TRUE] ELSE flag
  BY DEF Request
<1>3. RowsOK'
  <2>1. order' \in Seq(rows')
    BY <1>2, SeqMonotonic DEF AInv, RowsOK
  <2>2. flag' \in [Ips -> BOOLEAN]
    BY <1>2 DEF AInv, RowsOK
  <2> QED
    BY <1>2, <2>1, <2>2 DEF AInv, RowsOK
<1>4. LogsOK'
  <2>1. burst' \in SUBSET Ips
    BY DEF Request, AInv, LogsOK
  <2>2. later' \in [Logs -> SUBSET Logs]
    BY <1>1 DEF Request, AInv, LogsOK
  <2> QED
    BY <1>1, <2>1, <2>2 DEF Request, AInv, LogsOK
<1>5. AnalystsOK' /\ (events \in 0 .. MaxEvents)'
  BY AnalystsSame DEF Request, AInv
<1> QED
  BY <1>3, <1>4, <1>5 DEF AInv

LEMMA StoreTyped ==
  ASSUME AInv, (\E l \in Logs : Store(l) \/ Outdate(l)) \/ (\E i \in Ips : Calm(i))
  PROVE  AInv' /\ UNCHANGED <<rowVars, analystVars>>
<1>1. UNCHANGED <<rowVars, analystVars>> /\ LogsOK'
  BY DEF Store, Outdate, Calm, AInv, LogsOK
<1>2. (events \in 0 .. MaxEvents)'
  BY EventTyped DEF Store, Outdate, Calm, AInv
<1> QED
  BY <1>1, <1>2, AnalystsSame DEF AInv, RowsOK, rowVars

LEMMA AgeTyped ==
  ASSUME AInv, Age
  PROVE  AInv' /\ UNCHANGED <<rows, category, manual, flag, order, analystVars>>
<1>1. UNCHANGED <<rows, category, manual, flag, order, logVars, analystVars, events, considered>>
  BY DEF Age
<1>2. aged' \subseteq ToSet(order')
  BY DEF Age, AInv, RowsOK, ToSet
<1>3. RowsOK' /\ LogsOK'
  BY <1>1, <1>2 DEF AInv, RowsOK, LogsOK, logVars
<1> QED
  BY <1>1, <1>3, AnalystsSame DEF AInv

LEMMA RetireTyped ==
  ASSUME AInv, NEW i \in Ips, Retire(i)
  PROVE  /\ AInv'
         /\ ToSet(order') = ToSet(order) \ {i}
<1>1. /\ rows' = rows \ {i} /\ category' = [category EXCEPT ![i] = None]
      /\ manual' = [manual EXCEPT ![i] = FALSE] /\ flag' = [flag EXCEPT ![i] = FALSE]
      /\ order' = RemoveFirst(order, i) /\ aged' = aged \ {i}
      /\ burst' = burst \ {i} /\ UNCHANGED analystVars
  BY DEF Retire
<1>2. /\ order' \in Seq(rows) /\ IsInjective(order')
      /\ ToSet(order') = ToSet(order) \ {i}
  BY <1>1, RemovedIsGone DEF AInv, RowsOK
<1>3. order' \in Seq(rows')
  <2>1. ToSet(order') \subseteq rows \ {i}
    BY <1>2, InSet DEF AInv, RowsOK
  <2> QED
    BY <1>1, <1>2, <2>1, NarrowedSeq
<1>4. RowsOK'
  BY <1>1, <1>2, <1>3 DEF AInv, RowsOK
<1>5. LogsOK'
  <2>1. /\ ipOf' \in [Logs -> Ips \cup {None}] /\ later' \in [Logs -> SUBSET Logs]
        /\ stored' \in SUBSET Logs /\ dated' \in SUBSET Logs /\ considered' \in SUBSET Logs
    BY DEF Retire, AInv, LogsOK
  <2> QED
    BY <1>1, <2>1 DEF AInv, LogsOK
<1>6. AnalystsOK' /\ (events \in 0 .. MaxEvents)'
  BY <1>1, AnalystsSame, EventTyped DEF Retire, AInv
<1> QED
  BY <1>2, <1>4, <1>5, <1>6 DEF AInv

LEMMA ManualTyped ==
  ASSUME AInv, NEW i \in Ips, NEW c \in ToSet(Categories), ManualUpdate(i, c)
  PROVE  AInv'
<1>1. RowsOK' /\ LogsOK'
  BY DEF ManualUpdate, AInv, RowsOK, LogsOK, logVars
<1>2. AnalystsOK' /\ (events \in 0 .. MaxEvents)'
  BY AnalystsSame, EventTyped DEF ManualUpdate, AInv
<1> QED
  BY <1>1, <1>2 DEF AInv

LEMMA FlagTyped ==
  ASSUME AInv, FlagStale
  PROVE  AInv'
<1>1. RowsOK' /\ LogsOK'
  BY DEF FlagStale, AInv, RowsOK, LogsOK, logVars
<1>2. AnalystsOK' /\ (events \in 0 .. MaxEvents)'
  BY AnalystsSame DEF FlagStale, AInv
<1> QED
  BY <1>1, <1>2 DEF AInv

LEMMA AnalystTyped ==
  ASSUME AInv, NEW a \in Analysts, AnalystStep(a) \/ Die(a)
  PROVE  AInv'
BY SelectTyped, AnalyseTyped, LoadTyped, MarkTyped, CommitTyped, FailTyped, EndTyped DEF AnalystStep

LEMMA InvInductive == AInv /\ [Next]_vars => AInv'
<1> SUFFICES ASSUME AInv, [Next]_vars PROVE AInv'
  OBVIOUS
<1>1. CASE \E i \in Ips : \E l \in MaySend[i] : Request(i, l)
  BY <1>1, RequestTyped
<1>2. CASE (\E l \in Logs : Store(l) \/ Outdate(l)) \/ \E i \in Ips : Calm(i)
  BY <1>2, StoreTyped
<1>3. CASE \E i \in Ips : Retire(i)
  BY <1>3, RetireTyped
<1>4. CASE Age
  BY <1>4, AgeTyped
<1>5. CASE \E i \in Ips, c \in ToSet(Categories) : ManualUpdate(i, c)
  BY <1>5, ManualTyped
<1>6. CASE FlagStale
  BY <1>6, FlagTyped
<1>7. CASE \E a \in Analysts : AnalystStep(a) \/ Die(a)
  BY <1>7, AnalystTyped
<1>8. CASE UNCHANGED vars
  BY <1>8, AnalystsSame DEF AInv, RowsOK, LogsOK, vars, rowVars, logVars
<1> QED
  BY <1>1, <1>2, <1>3, <1>4, <1>5, <1>6, <1>7, <1>8 DEF Next

(* Rows, requests and runs keep their types, whoever requests, analyses,      *)
(* retires or sets categories by hand in between.                             *)
THEOREM TypeCorrect == Spec => []TypeOK
<1>1. Spec => []AInv
  BY InitOK, InvInductive, PTL DEF Spec
<1> QED
  BY <1>1, InvTyped, PTL

(* As many attack patterns as attack_urls_threshold make the verdict, for any *)
(* value of it and of the other thresholds, and whatever else the address     *)
(* does (src/src/tasks/analyze_ips.py): what the other categories can gather  *)
(* stays below the weight of an attack.                                       *)
THEOREM AttacksDecide == Spec => []AttackDecides
<1>1. AInv => AttackDecides
  <2> SUFFICES ASSUME AInv, NEW a \in Analysts, pc[a] \in {"load", "commit"},
                      Cardinality(AttacksIn(read[a])) >= AttackUrlsThreshold
               PROVE  verdict[a] = "attacker"
    BY DEF AttackDecides
  <2>1. PICK uneven \in BOOLEAN : verdict[a] = Best(Signals(read[a], uneven))
    BY DEF AInv, AnalystsOK, Scored
  <2>2. read[a] \in SUBSET Logs
    BY DEF AInv, AnalystsOK
  <2> QED
    BY <2>1, <2>2, SignalsTyped, BestOfAttack
<1>2. Spec => []AInv
  BY InitOK, InvInductive, PTL DEF Spec
<1> QED
  BY <1>1, <1>2, PTL

-----------------------------------------------------------------------------
(* Categories set by hand.                                                   *)

(* What ManualSticks says of one address. *)
Stays(i) ==
  /\ category'[i] = category[i] \/ i \notin rows'
     \/ \E c \in ToSet(Categories) : ManualUpdate(i, c)
  /\ Settled(i)' \/ i \notin rows'
     \/ \E l \in MaySend[i] : Feature[l].suspicious /\ Request(i, l)

(* An address is settled as long as its row stays analysed, set by hand and   *)
(* unflagged, and no run takes it up.                                         *)
LEMMA StaysSettled ==
  ASSUME NEW i \in Ips, Settled(i),
         category'[i] = category[i], i \in rows', manual'[i], ~flag'[i],
         i \in ToSet(order'), \A a \in Analysts : i \notin ToSet(batch'[a])
  PROVE  Stays(i)
BY DEF Stays, Settled, Needs, Analysed

LEMMA SettledFacts ==
  ASSUME AInv, NEW i \in Ips, Settled(i)
  PROVE  /\ i \in rows /\ manual[i] /\ ~flag[i] /\ i \in ToSet(order)
         /\ \A a \in Analysts : i \notin ToSet(batch[a])
         /\ \A a \in Analysts : pc[a] # "idle" => First(a) # i
<1>1. /\ i \in rows /\ manual[i] /\ ~flag[i] /\ i \in ToSet(order)
      /\ \A a \in Analysts : i \notin ToSet(batch[a])
  BY DEF Settled, Needs, Analysed
<1> QED
  BY <1>1, FirstOfBatch DEF AInv, AnalystsOK

(* The batch of one analyst changes, and none takes up i. *)
LEMMA NoneTakesUp ==
  ASSUME AInv, AInv', NEW i \in Ips, Settled(i), NEW a \in Analysts, AnalystStep(a) \/ Die(a)
  PROVE  \A b \in Analysts : i \notin ToSet(batch'[b])
<1>1. i \notin ToSet(batch'[a])
  <2>1. i \notin ToSet(batch[a]) /\ ~Needs(i)
    BY DEF Settled
  <2> QED
    BY <2>1, SelectTyped, AnalyseTyped, LoadTyped, MarkTyped, CommitTyped, FailTyped, EndTyped DEF AnalystStep
<1>2. ASSUME NEW b \in Analysts, b # a PROVE batch'[b] = batch[b]
  <2> USE DEF AInv, AnalystsOK
  <2>1. CASE SelectBatch(a)
    BY <1>2, <2>1 DEF SelectBatch
  <2>2. CASE MarkAnalysed(a) \/ CommitRow(a) \/ CommitFails(a)
    BY <1>2, <2>2 DEF MarkAnalysed, CommitRow, CommitFails, NextIp
  <2>3. CASE Analyse(a) \/ LoadRow(a)
    BY <2>3 DEF Analyse, LoadRow
  <2>4. CASE Raise(a) \/ Die(a)
    BY <1>2, <2>4 DEF Raise, Die, Stop
  <2> QED
    BY <2>1, <2>2, <2>3, <2>4 DEF AnalystStep
<1> QED
  BY <1>1, <1>2, SettledFacts

LEMMA AnalystSpares ==
  ASSUME AInv, AInv', NEW i \in Ips, Settled(i), NEW a \in Analysts, AnalystStep(a) \/ Die(a)
  PROVE  Stays(i)
<1>1. \A b \in Analysts : i \notin ToSet(batch'[b])
  BY NoneTakesUp
<1>2. /\ i \in rows /\ manual[i] /\ ~flag[i] /\ i \in ToSet(order)
      /\ pc[a] # "idle" => First(a) # i /\ First(a) \in Ips
  BY SettledFacts, FirstOfBatch DEF AInv, AnalystsOK
<1>3. CASE MarkAnalysed(a)
  <2>1. UNCHANGED <<rows, category, manual>> /\ ~flag'[i]
    BY <1>2, <1>3 DEF MarkAnalysed, AInv, RowsOK
  <2>2. CASE First(a) \in rows
    <3>1. Stamp(First(a))
      BY <1>3, <2>2 DEF MarkAnalysed
    <3>2. ToSet(order') = ToSet(order) \cup {First(a)}
      BY <1>2, <1>3, <2>1, <2>2, <3>1, StampTyped DEF AInv, MarkAnalysed
    <3> QED
      BY <1>1, <1>2, <2>1, <3>2, StaysSettled
  <2>3. CASE First(a) \notin rows
    <3>1. order' = order
      BY <1>3, <2>3 DEF MarkAnalysed
    <3> QED
      BY <1>1, <1>2, <2>1, <3>1, StaysSettled
  <2> QED
    BY <2>2, <2>3
<1>4. CASE CommitRow(a)
  <2>1. First(a) # i /\ First(a) \in Ips
    BY <1>2, <1>4 DEF CommitRow
  <2>2. /\ rows' = rows \cup {First(a)} /\ Stamp(First(a)) /\ manual' = manual
        /\ category' = IF verdict[a] = loaded[a].category THEN category
                       ELSE [category EXCEPT ![First(a)] = verdict[a]]
        /\ flag' = IF loaded[a].flag THEN [flag EXCEPT ![First(a)] = FALSE] ELSE flag
    BY <1>4 DEF CommitRow
  <2>3. ToSet(order') = ToSet(order) \cup {First(a)}
    BY <2>1, <2>2, StampTyped DEF AInv
  <2>4. category'[i] = category[i] /\ ~flag'[i]
    BY <1>2, <2>1, <2>2 DEF AInv, RowsOK
  <2> QED
    BY <1>1, <1>2, <2>2, <2>3, <2>4, StaysSettled
<1>5. CASE SelectBatch(a) \/ Analyse(a) \/ Raise(a) \/ LoadRow(a) \/ CommitFails(a) \/ Die(a)
  <2>1. UNCHANGED rowVars
    BY <1>5 DEF SelectBatch, Analyse, Raise, LoadRow, CommitFails, Die, Stop
  <2> QED
    BY <1>1, <1>2, <2>1, StaysSettled DEF rowVars
<1> QED
  BY <1>3, <1>4, <1>5 DEF AnalystStep

LEMMA OthersSpare ==
  ASSUME AInv, AInv', NEW i \in Ips, Settled(i), Next,
         ~\E a \in Analysts : AnalystStep(a) \/ Die(a)
  PROVE  Stays(i)
<1>1. /\ i \in rows /\ manual[i] /\ ~flag[i] /\ i \in ToSet(order)
      /\ \A a \in Analysts : i \notin ToSet(batch[a])
  BY SettledFacts
<1>2. ASSUME NEW j \in Ips, NEW l \in MaySend[j], Request(j, l)
      PROVE  Stays(i)
  <2>1. rows' = rows \cup {j} /\ UNCHANGED <<category, manual, order, analystVars>>
    BY <1>2 DEF Request
  <2>2. flag' = IF Feature[l].suspicious THEN [flag EXCEPT ![j] = TRUE] ELSE flag
    BY <1>2 DEF Request
  <2>3. CASE Feature[l].suspicious /\ j = i
    BY <1>2, <2>1, <2>3 DEF Stays
  <2>4. CASE ~(Feature[l].suspicious /\ j = i)
    <3>1. ~flag'[i]
      BY <1>1, <2>2, <2>4 DEF AInv, RowsOK
    <3> QED
      BY <1>1, <2>1, <3>1, StaysSettled DEF analystVars
  <2> QED
    BY <2>3, <2>4
<1>3. CASE (\E l \in Logs : Store(l) \/ Outdate(l)) \/ \E j \in Ips : Calm(j)
  BY <1>1, <1>3, StoreTyped, StaysSettled DEF rowVars, analystVars
<1>4. ASSUME NEW j \in Ips, Retire(j) PROVE Stays(i)
  <2>1. CASE j = i
    BY <1>4, <2>1 DEF Retire, Stays
  <2>2. CASE j # i
    <3>1. ToSet(order') = ToSet(order) \ {j}
      BY <1>4, RetireTyped
    <3>2. /\ i \in rows' /\ category'[i] = category[i] /\ manual'[i] /\ ~flag'[i] /\ UNCHANGED analystVars
      BY <1>1, <1>4, <2>2 DEF Retire, AInv, RowsOK
    <3> QED
      BY <1>1, <2>2, <3>1, <3>2, StaysSettled DEF analystVars
  <2> QED
    BY <2>1, <2>2
<1>5. CASE Age
  BY <1>1, <1>5, AgeTyped, StaysSettled DEF analystVars
<1>6. ASSUME NEW j \in Ips, NEW c \in ToSet(Categories), ManualUpdate(j, c) PROVE Stays(i)
  <2>1. /\ UNCHANGED <<rows, flag, order, analystVars>> /\ manual'[i]
        /\ j # i => category'[i] = category[i]
    BY <1>1, <1>6 DEF ManualUpdate, AInv, RowsOK
  <2>2. CASE j = i
    BY <1>1, <1>6, <2>1, <2>2 DEF Stays, Settled, Needs, Analysed, analystVars
  <2>3. CASE j # i
    BY <1>1, <2>1, <2>3, StaysSettled DEF analystVars
  <2> QED
    BY <2>2, <2>3
<1>7. CASE FlagStale
  <2>1. UNCHANGED <<rows, category, manual, order, analystVars>> /\ ~flag'[i]
    BY <1>1, <1>7 DEF FlagStale, AInv, RowsOK
  <2> QED
    BY <1>1, <2>1, StaysSettled DEF analystVars
<1> QED
  BY <1>2, <1>3, <1>4, <1>5, <1>6, <1>7 DEF Next

(* A category set by hand on an address that waits for no analysis outlives    *)
(* every sweep, run and restart (src/src/tasks/flag_stale_ips.py): only the    *)
(* operator, a suspicious request or the deletion of the row end it.           *)
THEOREM ManualStays == Spec => ManualSticks
<1>1. AInv /\ AInv' /\ [Next]_vars => [\A i \in Ips : Settled(i) => Stays(i)]_vars
  <2> SUFFICES ASSUME AInv, AInv', Next, NEW i \in Ips, Settled(i) PROVE Stays(i)
    OBVIOUS
  <2>1. CASE \E a \in Analysts : AnalystStep(a) \/ Die(a)
    BY <2>1, AnalystSpares
  <2>2. CASE ~\E a \in Analysts : AnalystStep(a) \/ Die(a)
    BY <2>2, OthersSpare
  <2> QED
    BY <2>1, <2>2
<1>2. Spec => []AInv
  BY InitOK, InvInductive, PTL DEF Spec
<1>3. Spec => [][\A i \in Ips : Settled(i) => Stays(i)]_vars
  BY <1>1, <1>2, PTL DEF Spec
<1> QED
  BY <1>3 DEF ManualSticks, Stays

-----------------------------------------------------------------------------
(* The lease, TaskLease: nothing below is about the analysis. *)

(* "The lease must outlast TASK_JITTER." *)
LeaseOutlastsJitter == TaskJitter < LeaseSeconds

(* "And it must expire before the next occurrence" -- also when it was        *)
(* claimed by the pod that fired last.                                        *)
LeaseEndsInTime == LeaseSeconds + TaskJitter <= Period

LEMMA TimesTyped ==
  /\ Period \in Nat \ {0} /\ RunLockTTL \in Nat \ {0}
  /\ TaskJitter \in Nat /\ MaxRun \in Nat /\ Horizon \in Nat
  /\ LeaseSeconds \in Nat
  BY TaskTimesAssumption DEF TaskTimesAssumption, LeaseSeconds, Smaller, Larger

LEMMA NextTyped ==
  ASSUME NEW t \in Nat
  PROVE  /\ NextOccurrence(t) \in Nat
         /\ \E k \in Nat : NextOccurrence(t) = k * Period
<1>1. t \div Period \in Nat
  BY TimesTyped
<1> DEFINE k == t \div Period + 1
<1>2. k \in Nat /\ NextOccurrence(t) = k * Period
  BY <1>1 DEF NextOccurrence
<1> HIDE DEF k
<1> QED
  BY <1>2, TimesTyped

-----------------------------------------------------------------------------
(* What the schedulers plan: p fires an occurrence of the period, and at most *)
(* the jitter late.                                                           *)
Planned ==
  \A p \in Pods :
    /\ due[p] <= at[p] /\ at[p] <= due[p] + TaskJitter
    /\ \E k \in Nat : due[p] = k * Period

LEMMA PlanOK ==
  ASSUME LeaseTypeOK, Planned, NEW p \in Pods, Plan(p, NextOccurrence(clock))
  PROVE  due' \in [Pods -> Nat] /\ at' \in [Pods -> Nat] /\ Planned'
<1> DEFINE o == NextOccurrence(clock)
<1>1. o \in Nat /\ \E k \in Nat : o = k * Period
  BY NextTyped DEF LeaseTypeOK
<1> HIDE DEF o
<1>2. PICK late \in 0 .. TaskJitter : at' = [at EXCEPT ![p] = o + late]
  BY DEF Plan, o
<1>3. due' = [due EXCEPT ![p] = o]
  BY DEF Plan, o
<1>4. o + late \in Nat /\ o <= o + late /\ o + late <= o + TaskJitter
  BY <1>1, TimesTyped
<1> QED
  BY <1>1, <1>2, <1>3, <1>4 DEF LeaseTypeOK, Planned

(* The types, and the plans. *)
LEMMA LeaseInitOK ==
  LeaseInit => LeaseTypeOK /\ Planned
<1> SUFFICES ASSUME LeaseInit PROVE LeaseTypeOK /\ Planned
  OBVIOUS
<1> DEFINE o == NextOccurrence(0)
<1>1. o \in Nat /\ \E k \in Nat : o = k * Period
  BY NextTyped
<1>2. due = [p \in Pods |-> o] /\ at \in [Pods -> o .. o + TaskJitter]
  BY DEF LeaseInit
<1> HIDE DEF o
<1>3. at \in [Pods -> Nat] /\ Planned
  BY <1>1, <1>2, TimesTyped DEF Planned
<1> QED
  BY <1>1, <1>2, <1>3 DEF LeaseInit, LeaseTypeOK, Idle

LEMMA LeaseStepOK ==
  LeaseTypeOK /\ Planned /\ [LeaseNext]_leaseVars => LeaseTypeOK' /\ Planned'
<1> SUFFICES ASSUME LeaseTypeOK, Planned, [LeaseNext]_leaseVars PROVE LeaseTypeOK' /\ Planned'
  OBVIOUS
<1>1. UNCHANGED <<due, at>> => Planned'
  BY DEF Planned
<1>2. ASSUME NEW p \in Pods, PodStep(p) PROVE LeaseTypeOK' /\ Planned'
  <2>1. Fires(p) => due' \in [Pods -> Nat] /\ at' \in [Pods -> Nat] /\ Planned'
    BY PlanOK DEF Fires
  <2>2. CASE Claim(p)
    <3>1. [pod |-> p, occurrence |-> due[p], time |-> clock]
            \in [pod : Pods, occurrence : Nat, time : Nat]
      BY DEF LeaseTypeOK
    <3>2. clock + LeaseSeconds \in Nat
      BY TimesTyped DEF LeaseTypeOK
    <3> QED
      BY <2>1, <2>2, <3>1, <3>2 DEF Claim, Fires, LeaseTypeOK
  <2>3. CASE Skip(p)
    BY <2>1, <2>3 DEF Skip, Fires, LeaseTypeOK
  <2>4. CASE Miss(p)
    BY <2>1, <2>4 DEF Miss, Fires, LeaseTypeOK
  <2>5. CASE Finish(p)
    BY <1>1, <2>5 DEF Finish, LeaseTypeOK
  <2>6. CASE RunNow(p)
    BY <1>1, <2>6, TimesTyped DEF RunNow, LeaseTypeOK
  <2>7. CASE RunNowEnds(p)
    BY <1>1, <2>7 DEF RunNowEnds, LapseEnds, LeaseTypeOK
  <2>8. CASE Crash(p)
    BY <1>1, <2>8 DEF Crash, LapseEnds, LeaseTypeOK
  <2>9. CASE Restart(p)
    BY <2>9, PlanOK DEF Restart, LeaseTypeOK
  <2> QED
    BY <1>2, <2>2, <2>3, <2>4, <2>5, <2>6, <2>7, <2>8, <2>9 DEF PodStep
<1>3. CASE Network
  BY <1>1, <1>3 DEF Network, LeaseTypeOK
<1>4. CASE Tick
  BY <1>1, <1>4 DEF Tick, LeaseTypeOK
<1>5. CASE UNCHANGED leaseVars
  BY <1>1, <1>5 DEF leaseVars, LeaseTypeOK
<1> QED
  BY <1>2, <1>3, <1>4, <1>5 DEF LeaseNext

(* The types hold in every state: clock, keys, plans, runs and history.       *)
THEOREM LeaseTypeCorrect ==
  LeaseSpec => []LeaseTypeOK
  BY LeaseInitOK, LeaseStepOK, PTL DEF LeaseSpec

-----------------------------------------------------------------------------
(* Every run started so far was started in its occurrence's window, and the   *)
(* lease still covers the time its own claim reserved.                        *)
StartsCovered ==
  \A r \in started :
    /\ r.occurrence <= r.time /\ r.time <= r.occurrence + TaskJitter
    /\ r.time <= clock
    /\ r.time + LeaseSeconds <= lease
    /\ \E k \in Nat : r.occurrence = k * Period

(* The steps that neither fire nor move the clock leave the lease alone. *)
LEMMA LeaseUntouched ==
  ASSUME LeaseTypeOK, [LeaseNext]_leaseVars, \A p \in Pods : ~Claim(p)
  PROVE  lease' = lease /\ started' = started /\ clock' \in Nat /\ clock <= clock'
<1>1. ASSUME NEW p \in Pods, PodStep(p)
      PROVE  lease' = lease /\ started' = started /\ clock' = clock
  BY <1>1 DEF PodStep, Skip, Miss, Finish, RunNow, RunNowEnds, Crash, Restart,
              Fires
<1>2. CASE Network
  BY <1>2 DEF Network, LeaseTypeOK
<1>3. CASE Tick
  BY <1>3 DEF Tick, LeaseTypeOK
<1>4. CASE UNCHANGED leaseVars
  BY <1>4 DEF leaseVars, LeaseTypeOK
<1> QED
  BY <1>1, <1>2, <1>3, <1>4 DEF LeaseNext, LeaseTypeOK

LEMMA CoveredStep ==
  LeaseTypeOK /\ Planned /\ StartsCovered /\ [LeaseNext]_leaseVars => StartsCovered'
<1> SUFFICES ASSUME LeaseTypeOK, Planned, StartsCovered, [LeaseNext]_leaseVars PROVE StartsCovered'
  OBVIOUS
<1>1. ASSUME NEW p \in Pods, Claim(p) PROVE StartsCovered'
  <2> DEFINE new == [pod |-> p, occurrence |-> due[p], time |-> clock]
  <2>1. /\ started' = started \cup {new} /\ lease' = clock + LeaseSeconds
        /\ lease <= clock /\ clock' = clock /\ at[p] = clock
    BY <1>1 DEF Claim, Fires
  <2>2. SUFFICES ASSUME NEW r \in started'
                 PROVE  /\ r.occurrence <= r.time /\ r.time <= r.occurrence + TaskJitter
                        /\ r.time <= clock
                        /\ r.time + LeaseSeconds <= lease'
                        /\ \E k \in Nat : r.occurrence = k * Period
    BY <2>1 DEF StartsCovered
  <2>3. clock \in Nat /\ lease \in Nat /\ LeaseSeconds \in Nat
    BY TimesTyped DEF LeaseTypeOK
  <2>4. CASE r \in started
    <3>1. r.time \in Nat
      BY <2>4 DEF LeaseTypeOK
    <3> QED
      BY <2>1, <2>3, <2>4, <3>1 DEF StartsCovered
  <2>5. CASE r = new
    BY <2>1, <2>3, <2>5 DEF Planned
  <2> QED
    BY <2>1, <2>4, <2>5
<1>2. CASE \A p \in Pods : ~Claim(p)
  <2>1. lease' = lease /\ started' = started /\ clock' \in Nat /\ clock <= clock'
    BY <1>2, LeaseUntouched
  <2>2. \A r \in started : r.time \in Nat
    BY DEF LeaseTypeOK
  <2> QED
    BY <2>1, <2>2 DEF StartsCovered, LeaseTypeOK
<1> QED
  BY <1>1, <1>2

-----------------------------------------------------------------------------
(* A claim comes when the lease of every earlier run is over; by then the     *)
(* window of that run's occurrence is over too.                               *)
LEMMA ClaimIsFirst ==
  ASSUME LeaseOutlastsJitter, LeaseTypeOK, Planned, StartsCovered,
         NEW p \in Pods, Claim(p), NEW r \in started
  PROVE  r.occurrence # due[p]
<1>1. r.time \in Nat /\ r.occurrence \in Nat /\ due[p] \in Nat /\ clock \in Nat /\ lease \in Nat
  BY DEF LeaseTypeOK
<1>2. r.occurrence <= r.time /\ r.time + LeaseSeconds <= lease
  BY DEF StartsCovered
<1>3. lease <= clock /\ clock <= due[p] + TaskJitter
  BY DEF Claim, Fires, Planned
<1> QED
  BY <1>1, <1>2, <1>3, TimesTyped DEF LeaseOutlastsJitter

(* No occurrence is run twice, by late pods or by restarted ones, if the      *)
(* lease outlasts the jitter.                                                 *)
THEOREM Once ==
  ASSUME LeaseOutlastsJitter
  PROVE  LeaseSpec => []OncePerOccurrence
<1> DEFINE OnceInv == LeaseTypeOK /\ Planned /\ StartsCovered /\ OncePerOccurrence
<1>1. LeaseInit => StartsCovered /\ OncePerOccurrence
  BY DEF LeaseInit, StartsCovered, OncePerOccurrence
<1>2. OnceInv /\ [LeaseNext]_leaseVars => OncePerOccurrence'
  <2> SUFFICES ASSUME OnceInv, [LeaseNext]_leaseVars PROVE OncePerOccurrence'
    OBVIOUS
  <2>1. ASSUME NEW p \in Pods, Claim(p) PROVE OncePerOccurrence'
    <3> DEFINE new == [pod |-> p, occurrence |-> due[p], time |-> clock]
    <3>1. started' = started \cup {new} /\ new.occurrence = due[p]
      BY <2>1 DEF Claim
    <3>2. \A r \in started : r.occurrence # due[p]
      BY <2>1, ClaimIsFirst
    <3> HIDE DEF new
    <3> QED
      BY <3>1, <3>2 DEF OncePerOccurrence
  <2>2. CASE \A p \in Pods : ~Claim(p)
    BY <2>2, LeaseUntouched DEF OncePerOccurrence
  <2> QED
    BY <2>1, <2>2
<1>3. OnceInv /\ [LeaseNext]_leaseVars => OnceInv'
  BY <1>2, LeaseStepOK, CoveredStep
<1>4. LeaseInit => OnceInv
  BY <1>1, LeaseInitOK
<1> HIDE DEF OnceInv
<1>5. OnceInv => OncePerOccurrence
  BY DEF OnceInv
<1> QED
  BY <1>3, <1>4, <1>5, PTL DEF LeaseSpec

-----------------------------------------------------------------------------
(* Two occurrences less than a period apart are one.                          *)
LEMMA SameOccurrence ==
  ASSUME NEW j \in Nat, NEW k \in Nat,
         j * Period < k * Period + Period, k * Period < j * Period + Period
  PROVE  j = k
<1>1. \A m, n \in Nat : m < n => m * Period + Period <= n * Period
  <2> SUFFICES ASSUME NEW m \in Nat, NEW n \in Nat, m < n
               PROVE  m * Period + Period <= n * Period
    OBVIOUS
  <2>1. (n - m - 1) * Period >= 0
    BY TimesTyped
  <2>2. (n - m - 1) * Period = n * Period - m * Period - Period
    BY TimesTyped
  <2> QED
    BY <2>1, <2>2, TimesTyped
<1> QED
  BY <1>1, TimesTyped

(* The lease is one a run of the task took, or was never taken. *)
LeaseTaken == lease = 0 \/ \E r \in started : lease = r.time + LeaseSeconds

LEMMA TakenStep ==
  LeaseTypeOK /\ LeaseTaken /\ [LeaseNext]_leaseVars => LeaseTaken'
<1> SUFFICES ASSUME LeaseTypeOK, LeaseTaken, [LeaseNext]_leaseVars PROVE LeaseTaken'
  OBVIOUS
<1>1. ASSUME NEW p \in Pods, Claim(p) PROVE LeaseTaken'
  <2> DEFINE new == [pod |-> p, occurrence |-> due[p], time |-> clock]
  <2>1. new \in started' /\ lease' = new.time + LeaseSeconds
    BY <1>1 DEF Claim
  <2> QED
    BY <2>1 DEF LeaseTaken
<1>2. CASE \A p \in Pods : ~Claim(p)
  BY <1>2, LeaseUntouched DEF LeaseTaken
<1> QED
  BY <1>1, <1>2

(* A pod skips because of a run of the same occurrence: a lease taken for the *)
(* one before is over by then.                                                *)
LEMMA SkipIsCovered ==
  ASSUME LeaseEndsInTime, LeaseTypeOK, Planned, StartsCovered, LeaseTaken,
         NEW p \in Pods, Skip(p)
  PROVE  \E r \in started : r.occurrence = due[p]
<1>1. lease > clock /\ at[p] = clock
  BY DEF Skip, Fires
<1>2. PICK r \in started : lease = r.time + LeaseSeconds
  BY <1>1 DEF LeaseTaken, LeaseTypeOK
<1>3. /\ r.time \in Nat /\ r.occurrence \in Nat
      /\ due[p] \in Nat /\ clock \in Nat /\ lease \in Nat
  BY DEF LeaseTypeOK
<1>4. /\ r.occurrence <= r.time /\ r.time <= r.occurrence + TaskJitter /\ r.time <= clock
  BY DEF StartsCovered
<1>5. due[p] <= clock /\ clock <= due[p] + TaskJitter
  BY <1>1 DEF Planned
<1>6. LeaseSeconds > 0
  BY <1>1, <1>2, <1>3, <1>4, TimesTyped
<1>7. r.occurrence < due[p] + Period
  BY <1>3, <1>4, <1>5, <1>6, TimesTyped DEF LeaseEndsInTime
<1>8. due[p] < r.occurrence + Period
  BY <1>1, <1>2, <1>3, <1>4, <1>5, TimesTyped DEF LeaseEndsInTime
<1>9. PICK j \in Nat : r.occurrence = j * Period
  BY DEF StartsCovered
<1>10. PICK k \in Nat : due[p] = k * Period
  BY DEF Planned
<1>11. j = k
  BY <1>7, <1>8, <1>9, <1>10, SameOccurrence
<1> QED
  BY <1>9, <1>10, <1>11

(* No occurrence is skipped by every pod, if the lease ends, jitter included, *)
(* before the next one.                                                       *)
THEOREM EveryOccurrenceRuns ==
  ASSUME LeaseEndsInTime
  PROVE  LeaseSpec => []NoneSkipped
<1> DEFINE Inv == LeaseTypeOK /\ Planned /\ StartsCovered /\ LeaseTaken /\ NoneSkipped
<1>1. LeaseInit => StartsCovered /\ LeaseTaken /\ NoneSkipped
  BY DEF LeaseInit, StartsCovered, LeaseTaken, NoneSkipped
<1>2. Inv /\ [LeaseNext]_leaseVars => NoneSkipped'
  <2> SUFFICES ASSUME Inv, [LeaseNext]_leaseVars PROVE NoneSkipped'
    OBVIOUS
  <2>1. ASSUME NEW p \in Pods, Claim(p) PROVE NoneSkipped'
    <3> DEFINE new == [pod |-> p, occurrence |-> due[p], time |-> clock]
    <3>1. started' = started \cup {new} /\ new.occurrence = due[p] /\ fired' = fired \cup {due[p]}
      BY <2>1 DEF Claim
    <3> HIDE DEF new
    <3> QED
      BY <3>1 DEF NoneSkipped
  <2>2. ASSUME NEW p \in Pods, Skip(p) PROVE NoneSkipped'
    <3>1. started' = started /\ fired' = fired \cup {due[p]}
      BY <2>2 DEF Skip
    <3>2. \E r \in started : r.occurrence = due[p]
      BY <2>2, SkipIsCovered
    <3> QED
      BY <3>1, <3>2 DEF NoneSkipped
  <2>3. CASE \A p \in Pods : ~Claim(p) /\ ~Skip(p)
    <3>1. UNCHANGED <<started, fired>>
      BY <2>3 DEF LeaseNext, PodStep, Miss, Finish, RunNow, RunNowEnds, Crash,
                  Restart, Network, Tick, leaseVars
    <3> QED
      BY <3>1 DEF NoneSkipped
  <2> QED
    BY <2>1, <2>2, <2>3
<1>3. Inv /\ [LeaseNext]_leaseVars => Inv'
  BY <1>2, LeaseStepOK, CoveredStep, TakenStep
<1>4. LeaseInit => Inv
  BY <1>1, LeaseInitOK
<1>5. Inv => NoneSkipped
  OBVIOUS
<1> HIDE DEF Inv
<1> QED
  BY <1>3, <1>4, <1>5, PTL DEF LeaseSpec

-----------------------------------------------------------------------------
(* Unless one outlived its lock, a manual run has it and is alone.            *)
LockCovers ==
  ~lapsed =>
    \A p \in Pods : byHand[p] # Idle =>
      /\ clock < byHand[p] + RunLockTTL /\ byHand[p] + RunLockTTL <= lock
      /\ \A q \in Pods : byHand[q] # Idle => p = q

(* Two manual runs overlap only from when one outlives its lock until none is *)
(* left (src/src/routes/api.py, _acquire_run_lock and _release_run_lock), for *)
(* any pods, lock and length of runs, and though the lock is deleted without  *)
(* a look at who holds it.                                                    *)
THEOREM OneManual == LeaseSpec => []OneManualRun
<1>1. LeaseInit => LockCovers
  BY DEF LeaseInit, LockCovers
<1>2. LeaseTypeOK /\ LockCovers /\ [LeaseNext]_leaseVars => LockCovers'
  <2> SUFFICES ASSUME LeaseTypeOK, LockCovers, [LeaseNext]_leaseVars PROVE LockCovers'
    OBVIOUS
  <2>1. UNCHANGED <<clock, lock, byHand, lapsed>> => LockCovers'
    BY DEF LockCovers
  <2>2. ASSUME NEW p \in Pods, RunNow(p) PROVE LockCovers'
    <3> SUFFICES ASSUME ~lapsed PROVE LockCovers'
      BY <2>2 DEF RunNow, LockCovers
    <3>1. \A q \in Pods : byHand[q] = Idle
      <4> SUFFICES ASSUME NEW q \in Pods, byHand[q] # Idle PROVE FALSE
        OBVIOUS
      <4>1. byHand[q] \in Nat /\ clock \in Nat /\ lock \in Nat
        BY DEF LeaseTypeOK
      <4>2. clock < byHand[q] + RunLockTTL /\ byHand[q] + RunLockTTL <= lock /\ lock <= clock
        BY <2>2 DEF LockCovers, RunNow
      <4> QED
        BY <4>1, <4>2, TimesTyped
    <3>2. /\ byHand' = [byHand EXCEPT ![p] = clock] /\ lock' = clock + RunLockTTL
          /\ clock' = clock /\ clock \in Nat
      BY <2>2 DEF RunNow, LeaseTypeOK
    <3>3. \A q \in Pods : byHand'[q] # Idle => q = p
      BY <3>1, <3>2 DEF LeaseTypeOK
    <3>4. byHand'[p] = clock
      BY <3>2 DEF LeaseTypeOK
    <3> QED
      BY <3>2, <3>3, <3>4, TimesTyped DEF LockCovers
  <2>3. ASSUME NEW p \in Pods, RunNowEnds(p) \/ Crash(p) PROVE LockCovers'
    <3>1. /\ byHand' = [byHand EXCEPT ![p] = Idle]
          /\ lapsed' = (lapsed /\ \E q \in Pods \ {p} : byHand[q] # Idle)
          /\ clock' = clock /\ (lock' = lock \/ RunNowEnds(p))
      BY <2>3 DEF RunNowEnds, Crash, LapseEnds
    <3>2. CASE lapsed
      <4>1. ~lapsed' => \A q \in Pods : byHand'[q] = Idle
        BY <3>1, <3>2 DEF LeaseTypeOK
      <4> QED
        BY <4>1 DEF LockCovers
    <3>3. CASE ~lapsed /\ RunNowEnds(p)
      <4>1. \A q \in Pods : byHand'[q] = Idle
        BY <3>1, <3>3 DEF RunNowEnds, LockCovers, LeaseTypeOK
      <4> QED
        BY <4>1 DEF LockCovers
    <3>4. CASE ~lapsed /\ ~RunNowEnds(p)
      <4>1. \A q \in Pods : byHand'[q] # Idle => byHand'[q] = byHand[q]
        BY <3>1 DEF LeaseTypeOK
      <4> QED
        BY <3>1, <3>4, <4>1 DEF LockCovers
    <3> QED
      BY <3>2, <3>3, <3>4
  <2>4. CASE Tick
    <3>1. /\ UNCHANGED <<lock, byHand>> /\ clock' \in Nat
          /\ lapsed' = (lapsed \/ \E p \in Pods : byHand[p] # Idle /\ byHand[p] + RunLockTTL <= clock')
      BY <2>4 DEF Tick, LeaseTypeOK
    <3>2. \A q \in Pods : byHand[q] # Idle => byHand[q] \in Nat
      BY DEF LeaseTypeOK
    <3>3. ASSUME ~lapsed', NEW q \in Pods, byHand[q] # Idle
          PROVE  ~lapsed /\ clock' < byHand[q] + RunLockTTL
      <4>1. ~lapsed /\ ~(byHand[q] + RunLockTTL <= clock')
        BY <3>1, <3>3
      <4>2. byHand[q] \in Nat /\ clock' \in Nat
        BY <3>1, <3>2, <3>3
      <4> QED
        BY <4>1, <4>2, TimesTyped
    <3> QED
      BY <3>1, <3>3 DEF LockCovers
  <2>5. CASE Network \/ UNCHANGED leaseVars
    BY <2>1, <2>5 DEF Network, leaseVars
  <2>6. ASSUME NEW p \in Pods, Claim(p) \/ Skip(p) \/ Miss(p) \/ Finish(p) \/ Restart(p)
        PROVE  LockCovers'
    BY <2>1, <2>6 DEF Claim, Skip, Miss, Finish, Restart, Fires
  <2> QED
    BY <2>2, <2>3, <2>4, <2>5, <2>6 DEF LeaseNext, PodStep
<1>3. LeaseTypeOK /\ Planned /\ LockCovers /\ [LeaseNext]_leaseVars
        => (LeaseTypeOK /\ Planned /\ LockCovers)'
  BY <1>2, LeaseStepOK
<1>4. LeaseInit => LeaseTypeOK /\ Planned /\ LockCovers
  BY <1>1, LeaseInitOK
<1>5. LockCovers => OneManualRun
  BY DEF LockCovers, OneManualRun
<1> QED
  BY <1>3, <1>4, <1>5, PTL DEF LeaseSpec

-----------------------------------------------------------------------------
(* The condition of Once and EveryOccurrenceRuns in the constants of          *)
(* tasks_master.py: with a jitter of 240 and a slack of 5 seconds the lease   *)
(* outlasts the jitter and ends in time when the period is 12 minutes or      *)
(* more.  It says nothing of the tasks that run every 1, 2 or 5 minutes.      *)
THEOREM TwelveMinutesSuffice ==
  ASSUME TaskJitter = 240, Slack = 5, Period >= 720
  PROVE  LeaseSpec => [](OncePerOccurrence /\ NoneSkipped)
<1>1. LeaseSeconds = 480
  BY TimesTyped DEF LeaseSeconds, Larger, Smaller
<1>2. LeaseOutlastsJitter /\ LeaseEndsInTime
  BY <1>1, TimesTyped DEF LeaseOutlastsJitter, LeaseEndsInTime
<1>3. LeaseSpec => []OncePerOccurrence
  BY <1>2, Once
<1>4. LeaseSpec => []NoneSkipped
  BY <1>2, EveryOccurrenceRuns
<1> QED
  BY <1>3, <1>4, PTL
=============================================================================
