------------------------ MODULE BanEnforcementProofs ------------------------
(***************************************************************************)
(* Rows, requests, operators, restarts and retention, for any number of    *)
(* pods, workers and addresses and any ban times: their types, that they   *)
(* change the in-process sets of banned IPs only the way BanCache says,    *)
(* that the fast path never contradicts get_ban_info, and that the answers *)
(* in Redis do so only in the ways BanAnswers names.                       *)
(***************************************************************************)
EXTENDS BanAnswers, TLAPS

(* The times of a ban. *)
LEMMA TimesTyped ==
  /\ BanDuration \in Nat \ {0} /\ ShortTTL \in Nat \ {0}
  /\ MaxPagesLimit \in Nat /\ MaxBanExponent \in Nat /\ MaxBanMultiplier \in Nat
  BY BanTimesAssumption DEF BanTimesAssumption

LEMMA ProductMonotone ==
  ASSUME NEW a \in Nat, NEW b \in Nat, NEW c \in Nat, b <= c
  PROVE  a * b \in Nat /\ a * b <= a * c
  OBVIOUS

LEMMA MultiplierBounded ==
  ASSUME NEW v \in Violations
  PROVE  BanMultiplier(v) \in 1 .. MaxBanMultiplier
<1>1. AtMost(Larger(v - 1, 0), MaxBanExponent) \in 0 .. MaxBanExponent
  BY TimesTyped DEF Violations, AtMost, Larger
<1>2. \A e \in 0 .. MaxBanExponent : 2 ^ e \in 1 .. MaxBanMultiplier
  BY BanTimesAssumption, Zenon DEF BanTimesAssumption
<1> QED
  BY <1>1, <1>2, Zenon DEF BanMultiplier

LEMMA DurationBounded ==
  ASSUME NEW r \in Rows
  PROVE  /\ EffectiveDuration(r) \in 0 .. WidestWindow
         /\ BanDuration \in 0 .. WidestWindow
         /\ WidestWindow \in Nat
<1>1. BanMultiplier(r.violations) \in 1 .. MaxBanMultiplier
  BY MultiplierBounded DEF Rows
<1>2. EffectiveDuration(r) \in 0 .. WidestWindow
  BY <1>1, ProductMonotone, TimesTyped DEF EffectiveDuration, WidestWindow
<1>3. BanDuration * 1 <= BanDuration * MaxBanMultiplier
  BY <1>1, ProductMonotone, TimesTyped
<1> QED
  BY <1>2, <1>3, TimesTyped DEF WidestWindow

LEMMA RemainingBounded ==
  ASSUME NEW r \in Rows
  PROVE  /\ RemainingBan(r) \in 0 .. WidestWindow
         /\ RemainingBan(r) > 0 => r.age # NoBan /\ r.age <= WidestWindow
<1>1. r.age \in NoBan .. WidestWindow + 1
  BY DEF Rows, Ages
<1>2. EffectiveDuration(r) \in 0 .. WidestWindow /\ WidestWindow \in Nat
  BY DurationBounded
<1> HIDE DEF EffectiveDuration, WidestWindow
<1> QED
  BY <1>1, <1>2 DEF RemainingBan, Larger, NoBan

(* get_banned_ips is wide enough: whoever get_ban_info would ban is listed. *)
LEMMA BannedAreListed ==
  ASSUME NEW r \in Rows, IsBanned(r)
  PROVE  MightBeBanned(r)
  BY RemainingBounded DEF IsBanned, MightBeBanned

LEMMA TTLBounded ==
  ASSUME NEW r \in Rows
  PROVE  AnswerTTL(r) \in 0 .. Larger(WidestWindow, ShortTTL)
<1>1. RemainingBan(r) \in 0 .. WidestWindow /\ BanDuration \in 0 .. WidestWindow
  BY RemainingBounded, DurationBounded
<1>2. WidestWindow \in Nat /\ BanDuration \in Nat \ {0} /\ ShortTTL \in Nat \ {0}
  BY DurationBounded, TimesTyped
<1> QED
  BY <1>1, <1>2 DEF AnswerTTL, Larger

-----------------------------------------------------------------------------
(* The inductive invariant: the types, and that a request under way is about   *)
(* an address.                                                                *)
Sound(request) ==
  /\ request \in Requests
  /\ request.step # "idle" => request.ip \in Ips

IInv ==
  /\ TypeOK
  /\ \A w \in Workers : Sound(worker[w])

(* What BanCache allows: a step of it or none. *)
CacheStep == [Cache!Next]_(Cache!vars)

(* Steps that write rows are changes of the database to the sets, whatever    *)
(* they write.                                                                *)
LEMMA RowsStep ==
  ASSUME IInv, NEW newRow \in [Ips -> Rows], WriteRows(newRow), SameCache
  PROVE  /\ row' \in [Ips -> Rows]
         /\ Cache!TypeOK'
         /\ CacheStep
<1>1. row' = newRow
  BY DEF WriteRows
<1>2. Listed' \in SUBSET Ips /\ Listed \in SUBSET Ips
  BY DEF Listed
<1>3. {ip \in Ips : MightBeBanned(newRow[ip]) /\ ~MightBeBanned(row[ip])} = Listed' \ Listed
  BY <1>1 DEF Listed
<1>4. Cache!Overlooked(Listed' \ Listed)
  BY <1>3 DEF WriteRows
<1>5. Cache!TypeOK'
  BY <1>2, <1>4 DEF IInv, TypeOK, Cache!TypeOK, Cache!Overlooked, SameCache
<1>6. Cache!DbChanges
  BY <1>2, <1>4 DEF Cache!DbChanges, SameCache
<1> QED
  BY <1>1, <1>5, <1>6 DEF CacheStep, Cache!Next

(* Steps that touch neither rows nor sets are no steps of BanCache. *)
LEMMA OtherStep ==
  ASSUME IInv, UNCHANGED <<row, cacheVars>>
  PROVE  /\ row' \in [Ips -> Rows]
         /\ Cache!TypeOK'
         /\ CacheStep
<1>1. Listed' = Listed
  BY DEF Listed
<1> QED
  BY <1>1 DEF IInv, TypeOK, Cache!TypeOK, CacheStep, Cache!vars, Cache!cacheVars, cacheVars

(* Steps of one pod's set. *)
LEMMA PodSetStep ==
  ASSUME IInv, UNCHANGED row, NEW p \in Pods,
         \/ \E ip \in Ips : Cache!Add(p, ip)
         \/ \E r \in Refreshers : Cache!Refresh(p, r)
         \/ Cache!Forget(p)
  PROVE  /\ row' \in [Ips -> Rows]
         /\ Cache!TypeOK'
         /\ CacheStep
<1>1. UNCHANGED Listed
  BY DEF Listed
<1>2. Cache!PodStep(p)
  BY DEF Cache!PodStep
<1>3. CacheStep
  BY <1>1, <1>2 DEF CacheStep, Cache!Next
<1>4. Cache!TypeOK'
  <2> USE DEF IInv, TypeOK, Cache!TypeOK
  <2>1. CASE \E ip \in Ips : Cache!Add(p, ip)
    BY <1>1, <2>1 DEF Cache!Add
  <2>2. ASSUME NEW r \in Refreshers, Cache!Refresh(p, r) PROVE Cache!TypeOK'
    <3>1. CASE Cache!RefreshRead(p, r)
      BY <1>1, <3>1 DEF Cache!RefreshRead
    <3>2. CASE Cache!RefreshOverflow(p, r)
      BY <1>1, <3>2 DEF Cache!RefreshOverflow, Cache!Finish
    <3>3. CASE Cache!RefreshSwap(p, r)
      BY <1>1, <3>3 DEF Cache!RefreshSwap, Cache!Finish
    <3>4. CASE Cache!RefreshFail(p, r)
      BY <1>1, <3>4 DEF Cache!RefreshFail, Cache!Finish
    <3> QED
      BY <2>2, <3>1, <3>2, <3>3, <3>4 DEF Cache!Refresh
  <2>3. CASE Cache!Forget(p)
    BY <1>1, <2>3 DEF Cache!Forget
  <2> QED
    BY <2>1, <2>2, <2>3
<1> QED
  BY <1>3, <1>4 DEF IInv, TypeOK

-----------------------------------------------------------------------------
(* The requests the actions build. *)
LEMMA IdleSound == Sound(Idle)
<1> 0 \in 0 .. Larger(WidestWindow, ShortTTL) /\ 0 \in 0 .. MaxPagesLimit /\ 0 \in Violations
  <2>1. ASSUME NEW m \in Nat, NEW n \in Nat PROVE 0 \in 0 .. Larger(m, n)
    BY DEF Larger
  <2>2. WidestWindow \in Nat
    BY TimesTyped, ProductMonotone DEF WidestWindow
  <2> QED
    BY <2>1, <2>2, TimesTyped DEF Violations
<1> QED
  BY DEF Sound, Idle, Requests, Steps, Kinds

LEMMA AtSound ==
  ASSUME NEW ip \in Ips, NEW step \in Steps
  PROVE  Sound(At(ip, step))
  BY IdleSound DEF Sound, At, Idle, Requests

LEMMA TransactionSound ==
  ASSUME NEW ip \in Ips, row[ip] \in Rows, NEW kind \in {"record", "touch", "increment"}
  PROVE  Sound(Transaction(ip, kind))
<1> DEFINE r == row[ip]
           visits == IF kind = "touch" THEN r.visits ELSE AtMost(r.visits + 1, MaxPagesLimit)
           ban == \/ kind = "record" /\ MaxPagesLimit > 0 /\ visits >= MaxPagesLimit
                  \/ kind = "increment" /\ r.known /\ visits >= MaxPagesLimit
           violations == IF ban THEN AtMost(r.violations + 1, MaxBanExponent + 1)
                         ELSE r.violations
           at == At(ip, IF kind = "record" /\ ban THEN "publish" ELSE "commit")
<1>1. r.visits \in 0 .. MaxPagesLimit /\ r.violations \in Violations /\ r.known \in BOOLEAN
  BY DEF Rows
<1>2. visits \in 0 .. MaxPagesLimit
  BY <1>1, TimesTyped DEF AtMost
<1>3. violations \in Violations
  BY <1>1, TimesTyped DEF AtMost, Violations
<1>4. Sound(at) /\ at.ip = ip
  BY AtSound DEF Steps, At, Idle
<1>5. Transaction(ip, kind) = [at EXCEPT !.kind = kind, !.known = r.known, !.visits = visits,
                                         !.ban = ban, !.violations = violations]
  BY DEF Transaction
<1>6. ban \in BOOLEAN /\ kind \in Kinds
  BY DEF Kinds
<1> HIDE DEF r, visits, ban, violations, at
<1> QED
  BY <1>1, <1>2, <1>3, <1>4, <1>5, <1>6 DEF Sound, Requests

LEMMA WrittenTyped ==
  ASSUME NEW w \in Workers, Sound(worker[w]), worker[w].step # "idle",
         row[worker[w].ip] \in Rows
  PROVE  Written(w) \in Rows
<1>1. 0 \in Ages
  BY TimesTyped, ProductMonotone DEF Ages, NoBan, WidestWindow
<1> QED
  BY <1>1 DEF Written, Sound, Requests, Rows

-----------------------------------------------------------------------------
(* The invariant, variable by variable. *)
WorkersOK ==
  /\ worker \in [Workers -> Requests]
  /\ \A w \in Workers : Sound(worker[w])

OperatorsOK ==
  operator \in [Pods -> [ip : Ips \cup {"none"}, ban : BOOLEAN, error : BOOLEAN]]

PodsOK ==
  /\ cleanup \in [Pods -> {"none", "startup", "purge"}]
  /\ expired \in [Pods -> SUBSET Ips]

RestOK == answer \in [Ips -> Answers] /\ WorkersOK /\ OperatorsOK /\ PodsOK

LEMMA Parts ==
  /\ IInv <=> row \in [Ips -> Rows] /\ RestOK /\ Cache!TypeOK
  /\ (IInv <=> row \in [Ips -> Rows] /\ RestOK /\ Cache!TypeOK)'
  BY DEF IInv, TypeOK, RestOK, WorkersOK, OperatorsOK, PodsOK

LEMMA GoesSound ==
  ASSUME WorkersOK, NEW w \in Workers, NEW request, Sound(request), Goes(w, request)
  PROVE  WorkersOK'
  BY DEF WorkersOK, Goes, Sound

LEMMA DecideSound ==
  ASSUME WorkersOK, NEW w \in Workers, NEW ip \in Ips, NEW verdict, Decide(w, ip, verdict)
  PROVE  WorkersOK'
<1> Sound(IF verdict THEN Idle ELSE At(ip, "serve"))
  BY IdleSound, AtSound DEF Steps
<1> QED
  BY GoesSound DEF Decide

LEMMA OverSound ==
  ASSUME WorkersOK, NEW w \in Workers, worker[w].step # "idle", Over(w)
  PROVE  WorkersOK'
<1> worker[w].ip \in Ips
  BY DEF WorkersOK, Sound
<1> Sound(Idle) /\ Sound(At(worker[w].ip, "count"))
  BY IdleSound, AtSound DEF Steps
<1> QED
  BY GoesSound DEF Over

LEMMA AnswerTyped ==
  ASSUME answer \in [Ips -> Answers], NEW ip \in Ips
  PROVE  /\ DeleteAnswer(ip) => answer' \in [Ips -> Answers]
         /\ \A verdict \in BOOLEAN, ttl \in 0 .. Larger(WidestWindow, ShortTTL) :
               SetAnswer(ip, verdict, ttl) => answer' \in [Ips -> Answers]
<1> NoAnswer \in Answers
  BY IdleSound DEF NoAnswer, Answers, Sound, Idle, Requests
<1> QED
  BY DEF DeleteAnswer, SetAnswer, Answers

-----------------------------------------------------------------------------
(* The steps of a request. *)
LEMMA RequestStep ==
  ASSUME IInv, NEW w \in Workers, Proceed(w)
  PROVE  IInv' /\ CacheStep
<1> DEFINE ip == worker[w].ip
<1>1. /\ row \in [Ips -> Rows] /\ answer \in [Ips -> Answers]
      /\ WorkersOK /\ OperatorsOK /\ PodsOK
  BY Parts DEF RestOK
<1>2. worker[w] \in Requests /\ (worker[w].step # "idle" => ip \in Ips)
  BY <1>1 DEF WorkersOK, Sound
<1>3. ASSUME UNCHANGED <<row, cacheVars>>, UNCHANGED <<operator, cleanup, expired>>,
             answer' \in [Ips -> Answers], WorkersOK'
      PROVE  IInv' /\ CacheStep
  <2>1. OperatorsOK' /\ PodsOK'
    BY <1>1, <1>3 DEF OperatorsOK, PodsOK
  <2> QED
    BY <1>3, <2>1, OtherStep, Parts DEF RestOK
<1>4. CASE LookupCached(w)
  <2>1. ip \in Ips /\ Decide(w, ip, answer[ip].banned) /\ UNCHANGED answer
    BY <1>2, <1>4 DEF LookupCached
  <2>2. WorkersOK'
    BY <1>1, <2>1, DecideSound
  <2> QED
    BY <1>1, <1>3, <1>4, <2>1, <2>2 DEF LookupCached
<1>5. CASE LookupRow(w)
  <2> DEFINE request == [At(ip, "fill") EXCEPT !.verdict = IsBanned(row[ip]), !.ttl = AnswerTTL(row[ip])]
  <2>1. ip \in Ips /\ Goes(w, request)
    BY <1>2, <1>5 DEF LookupRow
  <2>2. AnswerTTL(row[ip]) \in 0 .. Larger(WidestWindow, ShortTTL)
    BY <1>1, <2>1, TTLBounded
  <2>3. IsBanned(row[ip]) \in BOOLEAN
    BY DEF IsBanned
  <2>4. Sound(At(ip, "fill"))
    BY <2>1, AtSound DEF Steps
  <2>5. Sound(request)
    BY <2>1, <2>2, <2>3, <2>4 DEF Sound, Requests, At, Idle
  <2>6. WorkersOK'
    BY <1>1, <2>1, <2>5, GoesSound
  <2> QED
    BY <1>1, <1>3, <1>5, <2>6 DEF LookupRow
<1>6. CASE FillAnswer(w)
  <2>1. ip \in Ips /\ Decide(w, ip, worker[w].verdict)
        /\ SetAnswer(ip, worker[w].verdict, worker[w].ttl)
    BY <1>2, <1>6 DEF FillAnswer
  <2>2. WorkersOK'
    BY <1>1, <2>1, DecideSound
  <2>3. worker[w].verdict \in BOOLEAN /\ worker[w].ttl \in 0 .. Larger(WidestWindow, ShortTTL)
    BY <1>2 DEF Requests
  <2>4. answer' \in [Ips -> Answers]
    BY <1>1, <2>1, <2>3, AnswerTyped
  <2> QED
    BY <1>3, <1>6, <2>2, <2>4 DEF FillAnswer
<1>7. CASE LookupFails(w)
  <2>1. ip \in Ips /\ Goes(w, At(ip, "serve"))
    BY <1>2, <1>7 DEF LookupFails
  <2>2. WorkersOK'
    BY <1>1, <2>1, AtSound, GoesSound DEF Steps
  <2> QED
    BY <1>1, <1>3, <1>7, <2>2 DEF LookupFails
<1>8. CASE ReadRow(w)
  <2>1. ip \in Ips /\ \E kind \in {"record", "touch", "increment"} : Goes(w, Transaction(ip, kind))
    BY <1>2, <1>8 DEF ReadRow
  <2>2. row[ip] \in Rows
    BY <1>1, <2>1
  <2>3. WorkersOK'
    BY <1>1, <2>1, <2>2, TransactionSound, GoesSound
  <2> QED
    BY <1>1, <1>3, <1>8, <2>3 DEF ReadRow
<1>9. CASE DeferRow(w)
  <2>1. ip \in Ips /\ (Goes(w, Idle) \/ Goes(w, At(ip, "count")))
    BY <1>2, <1>9 DEF DeferRow
  <2>2. WorkersOK'
    BY <1>1, <2>1, IdleSound, AtSound, GoesSound DEF Steps
  <2> QED
    BY <1>1, <1>3, <1>9, <2>2 DEF DeferRow
<1>10. CASE Rollback(w)
  <2>1. WorkersOK'
    BY <1>1, <1>10, OverSound DEF Rollback
  <2> QED
    BY <1>1, <1>3, <1>10, <2>1 DEF Rollback
<1>11. CASE Publish(w)
  <2> DEFINE request == IF worker[w].kind = "record" THEN [worker[w] EXCEPT !.step = "commit"] ELSE Idle
  <2>1. /\ ip \in Ips /\ Cache!Add(Pod(w), ip) /\ Goes(w, request)
        /\ DeleteAnswer(ip) /\ UNCHANGED <<row, operator, cleanup, expired>>
    BY <1>2, <1>11 DEF Publish
  <2>2. Pod(w) \in Pods
    BY ActorsAssumption DEF Pod, ActorsAssumption
  <2>3. row' \in [Ips -> Rows] /\ Cache!TypeOK' /\ CacheStep
    BY <2>1, <2>2, PodSetStep
  <2>4. Sound(request)
    BY <1>2, <2>1, IdleSound DEF Sound, Requests, Steps
  <2>5. WorkersOK'
    BY <1>1, <2>1, <2>4, GoesSound
  <2>6. answer' \in [Ips -> Answers]
    BY <1>1, <2>1, AnswerTyped
  <2>7. OperatorsOK' /\ PodsOK'
    BY <1>1, <2>1 DEF OperatorsOK, PodsOK
  <2> QED
    BY <2>3, <2>5, <2>6, <2>7, Parts DEF RestOK
<1>12. CASE Commit(w)
  <2> DEFINE newRow == [row EXCEPT ![ip] = Written(w)]
  <2>1. /\ ip \in Ips /\ worker[w].step # "idle"
        /\ WriteRows(newRow) /\ SameCache /\ UNCHANGED <<answer, operator, cleanup, expired>>
        /\ Over(w) \/ Goes(w, [worker[w] EXCEPT !.step = "publish"])
    BY <1>2, <1>12 DEF Commit
  <2>2. Written(w) \in Rows
    BY <1>1, <2>1, WrittenTyped DEF WorkersOK
  <2>3. newRow \in [Ips -> Rows]
    BY <1>1, <2>2
  <2>4. row' \in [Ips -> Rows] /\ Cache!TypeOK' /\ CacheStep
    BY <2>1, <2>3, RowsStep
  <2>5. Sound([worker[w] EXCEPT !.step = "publish"])
    BY <1>2, <2>1 DEF Sound, Requests, Steps
  <2>6. WorkersOK'
    BY <1>1, <2>1, <2>5, OverSound, GoesSound
  <2>7. OperatorsOK' /\ PodsOK'
    BY <1>1, <2>1 DEF OperatorsOK, PodsOK
  <2> QED
    BY <1>1, <2>1, <2>4, <2>6, <2>7, Parts DEF RestOK
<1>13. CASE RedisFails(w)
  <2>1. WorkersOK'
    BY <1>1, <1>13, IdleSound, GoesSound DEF RedisFails
  <2> QED
    BY <1>1, <1>3, <1>13, <2>1 DEF RedisFails
<1> QED
  BY <1>4, <1>5, <1>6, <1>7, <1>8, <1>9, <1>10, <1>11, <1>12, <1>13 DEF Proceed

-----------------------------------------------------------------------------
(* The steps of everyone else. *)
LEMMA OtherSteps ==
  ASSUME IInv, [Next]_vars, ~ \E w \in Workers : Proceed(w)
  PROVE  IInv' /\ CacheStep
<1>1. /\ row \in [Ips -> Rows] /\ answer \in [Ips -> Answers]
      /\ WorkersOK /\ OperatorsOK /\ PodsOK
  BY Parts DEF RestOK
<1>2. ASSUME row' \in [Ips -> Rows] /\ Cache!TypeOK' /\ CacheStep,
             answer' \in [Ips -> Answers], WorkersOK', OperatorsOK', PodsOK'
      PROVE  IInv' /\ CacheStep
  BY <1>2, Parts DEF RestOK
<1>3. UNCHANGED worker => WorkersOK'
  BY <1>1 DEF WorkersOK
<1>4. UNCHANGED operator => OperatorsOK'
  BY <1>1 DEF OperatorsOK
<1>5. UNCHANGED <<cleanup, expired>> => PodsOK'
  BY <1>1 DEF PodsOK
<1>6. NoAnswer \in Answers
  BY IdleSound DEF NoAnswer, Answers, Sound, Idle, Requests
<1>7. ASSUME NEW w \in Workers, NEW ip \in Ips, Begin(w, ip) PROVE IInv' /\ CacheStep
  <2>1. Sound(At(ip, IF ready[Pod(w)] /\ ip \notin banned[Pod(w)] THEN "serve" ELSE "lookup"))
    BY AtSound DEF Steps
  <2>2. WorkersOK'
    BY <1>1, <1>7, <2>1, GoesSound DEF Begin
  <2> QED
    BY <1>1, <1>2, <1>4, <1>5, <1>7, <2>2, OtherStep DEF Begin
<1>8. ASSUME NEW p \in Pods, NEW ip \in Ips, NEW action \in OperatorActions \cap Overrides,
             OperatorWrites(p, ip, action)
      PROVE  IInv' /\ CacheStep
  <2> DEFINE newRow == [row EXCEPT ![ip] = Overridden(@, action)]
  <2>1. action \in {"ban", "unban", "reset", "exempt", "unexempt"}
    BY DEF Overrides
  <2>2. Overridden(row[ip], action) \in Rows
    BY <1>1, <2>1 DEF Overridden, Rows
  <2>3. newRow \in [Ips -> Rows]
    BY <1>1, <2>2
  <2>4. row' \in [Ips -> Rows] /\ Cache!TypeOK' /\ CacheStep
    BY <1>8, <2>3, RowsStep DEF OperatorWrites
  <2>5. OperatorsOK'
    BY <1>1, <1>8 DEF OperatorWrites, OperatorsOK
  <2> QED
    BY <1>1, <1>2, <1>3, <1>5, <1>8, <2>4, <2>5 DEF OperatorWrites
<1>9. ASSUME NEW p \in Pods, OperatorPublishes(p) PROVE IInv' /\ CacheStep
  <2>1. operator[p].ip \in Ips
    BY <1>1, <1>9 DEF OperatorPublishes, Serving, OperatorsOK
  <2>2. row' \in [Ips -> Rows] /\ Cache!TypeOK' /\ CacheStep
    <3>1. CASE operator[p].ban
      BY <1>9, <2>1, <3>1, PodSetStep DEF OperatorPublishes
    <3>2. CASE ~operator[p].ban
      BY <1>9, <3>2, OtherStep DEF OperatorPublishes
    <3> QED
      BY <3>1, <3>2
  <2>3. answer' \in [Ips -> Answers]
    BY <1>1, <1>9, <2>1, AnswerTyped DEF OperatorPublishes
  <2>4. OperatorsOK'
    BY <1>1, <1>9 DEF OperatorPublishes, OperatorsOK, NoRequest
  <2> QED
    BY <1>2, <1>3, <1>5, <1>9, <2>2, <2>3, <2>4 DEF OperatorPublishes
<1>10. ASSUME NEW p \in Pods, Restart(p) PROVE IInv' /\ CacheStep
  <2>1. row' \in [Ips -> Rows] /\ Cache!TypeOK' /\ CacheStep
    BY <1>10, PodSetStep DEF Restart
  <2>2. WorkersOK'
    BY <1>1, <1>10, IdleSound DEF Restart, WorkersOK, Sound
  <2>3. OperatorsOK'
    BY <1>1, <1>10 DEF Restart, OperatorsOK, NoRequest
  <2>4. PodsOK'
    BY <1>1, <1>10 DEF Restart, PodsOK, Expired
  <2> QED
    BY <1>1, <1>2, <1>10, <2>1, <2>2, <2>3, <2>4 DEF Restart
<1>11. ASSUME NEW p \in Pods, ClearExpiredBans(p) PROVE IInv' /\ CacheStep
  <2> DEFINE newRow == [ip \in Ips |-> IF ip \in expired[p]
                                       THEN [row[ip] EXCEPT !.age = NoBan, !.visits = 0]
                                       ELSE row[ip]]
  <2>1. newRow \in [Ips -> Rows]
    <3>1. NoBan \in Ages /\ 0 \in 0 .. MaxPagesLimit
      BY TimesTyped, ProductMonotone DEF Ages, NoBan, WidestWindow
    <3> QED
      BY <1>1, <3>1 DEF Rows
  <2>2. row' \in [Ips -> Rows] /\ Cache!TypeOK' /\ CacheStep
    <3>1. CASE WriteRows(newRow)
      BY <1>11, <2>1, <3>1, RowsStep DEF ClearExpiredBans
    <3>2. CASE UNCHANGED <<row, unseen, since>>
      BY <1>11, <3>2, OtherStep DEF ClearExpiredBans, SameCache, cacheVars
    <3> QED
      BY <1>11, <3>1, <3>2 DEF ClearExpiredBans
  <2>3. PodsOK'
    BY <1>1, <1>11 DEF ClearExpiredBans, PodsOK
  <2> QED
    BY <1>1, <1>2, <1>3, <1>4, <1>11, <2>2, <2>3 DEF ClearExpiredBans
<1>12. ASSUME NEW p \in Pods, NEW r \in Refreshers, RefreshCache(p, r) PROVE IInv' /\ CacheStep
  <2>1. row' \in [Ips -> Rows] /\ Cache!TypeOK' /\ CacheStep
    BY <1>12, PodSetStep DEF RefreshCache
  <2> QED
    BY <1>1, <1>2, <1>3, <1>4, <1>5, <1>12, <2>1 DEF RefreshCache
<1>13. ASSUME NEW ip \in Ips, RowDeleted(ip) PROVE IInv' /\ CacheStep
  <2>1. NoRow \in Rows
    BY TimesTyped, ProductMonotone DEF NoRow, Rows, Ages, NoBan, WidestWindow, Violations
  <2>2. [row EXCEPT ![ip] = NoRow] \in [Ips -> Rows]
    BY <1>1, <2>1
  <2>3. row' \in [Ips -> Rows] /\ Cache!TypeOK' /\ CacheStep
    BY <1>13, <2>2, RowsStep DEF RowDeleted
  <2> QED
    BY <1>1, <1>2, <1>3, <1>4, <1>5, <1>13, <2>3 DEF RowDeleted
<1>14. ASSUME Tick PROVE IInv' /\ CacheStep
  <2>1. ASSUME NEW r \in Rows PROVE Older(r) \in Rows
    <3> DEFINE age == IF r.age = NoBan THEN NoBan ELSE AtMost(r.age + 1, WidestWindow + 1)
    <3>1. WidestWindow \in Nat
      BY DurationBounded
    <3>2. age \in Ages
      BY <3>1 DEF Rows, Ages, NoBan, AtMost
    <3>3. Older(r) = [r EXCEPT !.age = age]
      BY DEF Older
    <3> QED
      BY <3>2, <3>3 DEF Rows
  <2>2. [ip \in Ips |-> Older(row[ip])] \in [Ips -> Rows]
    BY <1>1, <2>1
  <2>3. row' \in [Ips -> Rows] /\ Cache!TypeOK' /\ CacheStep
    BY <1>14, <2>2, RowsStep DEF Tick
  <2>4. answer' \in [Ips -> Answers]
    <3> DEFINE longest == Larger(WidestWindow, ShortTTL)
    <3>1. longest \in Nat
      BY TimesTyped, ProductMonotone DEF WidestWindow, Larger
    <3>2. ASSUME NEW ip \in Ips, answer[ip].ttl > 1
          PROVE  [answer[ip] EXCEPT !.ttl = @ - 1] \in Answers
      <4> Answers = [ttl : 0 .. longest, banned : BOOLEAN]
        BY DEF Answers
      <4> HIDE DEF longest
      <4>1. answer[ip] \in [ttl : 0 .. longest, banned : BOOLEAN]
        BY <1>1
      <4>2. answer[ip].ttl - 1 \in 0 .. longest
        BY <3>1, <3>2, <4>1
      <4> QED
        BY <4>1, <4>2
    <3> QED
      BY <1>1, <1>6, <1>14, <3>2 DEF Tick
  <2> QED
    BY <1>2, <1>3, <1>4, <1>5, <1>14, <2>3, <2>4 DEF Tick
<1>16. ASSUME NEW p \in Pods, OperatorFails(p) PROVE IInv' /\ CacheStep
  <2>1. OperatorsOK'
    BY <1>1, <1>16 DEF OperatorFails, OperatorsOK, Failed, NoRequest
  <2> QED
    BY <1>1, <1>2, <1>3, <1>5, <1>16, <2>1, OtherStep DEF OperatorFails
<1>17. ASSUME NEW p \in Pods, Purge(p) PROVE IInv' /\ CacheStep
  <2>1. PodsOK'
    BY <1>1, <1>17 DEF Purge, PodsOK, Expired
  <2> QED
    BY <1>1, <1>2, <1>3, <1>4, <1>17, <2>1, OtherStep DEF Purge
<1>15. CASE UNCHANGED vars
  BY <1>1, <1>2, <1>3, <1>4, <1>5, <1>15, OtherStep DEF vars
<1> QED
  BY <1>7, <1>8, <1>9, <1>10, <1>11, <1>12, <1>13, <1>14, <1>15,
     <1>16, <1>17 DEF Next

-----------------------------------------------------------------------------
LEMMA InitOK == Init => IInv /\ Cache!Init
<1> SUFFICES ASSUME Init PROVE IInv /\ Cache!Init
  OBVIOUS
<1>1. NoRow \in Rows
  BY TimesTyped, ProductMonotone DEF NoRow, Rows, Ages, NoBan, WidestWindow, Violations
<1>2. NoAnswer \in Answers
  BY IdleSound DEF NoAnswer, Answers, Sound, Idle, Requests
<1>3. row \in [Ips -> Rows] /\ answer \in [Ips -> Answers]
  BY <1>1, <1>2 DEF Init
<1>4. WorkersOK
  BY IdleSound DEF Init, WorkersOK, Sound
<1>5. OperatorsOK /\ PodsOK
  BY DEF Init, OperatorsOK, PodsOK, NoRequest
<1>6. Listed \in SUBSET Ips
  BY DEF Listed
<1>7. Cache!Init
  BY <1>6 DEF Init, Cache!Init
<1>8. Cache!TypeOK
  BY <1>6 DEF Init, Cache!CacheInit, Cache!TypeOK
<1> QED
  BY <1>3, <1>4, <1>5, <1>7, <1>8, Parts DEF RestOK

LEMMA StepOK == IInv /\ [Next]_vars => IInv' /\ CacheStep
  BY RequestStep, OtherSteps

(* Rows, cached answers, requests, overrides and sets keep their types,       *)
(* through every interleaving of requests, commits, restarts and retention.   *)
THEOREM TypeCorrect == Spec => []TypeOK
<1>1. IInv => TypeOK
  BY DEF IInv
<1> QED
  BY <1>1, InitOK, StepOK, PTL DEF Spec

(* The detailed system implements the abstract one: seen from the sets, rows  *)
(* only come to be listed or stop being listed, whoever writes them.          *)
THEOREM Implements == Spec => ImplementsBanCache
  BY InitOK, StepOK, PTL DEF Spec, ImplementsBanCache, Cache!Safety, CacheStep

-----------------------------------------------------------------------------
Theorems == INSTANCE BanCacheProofs WITH listed <- Listed

(* The fast path of the middleware is sound: an IP that a ready set misses is *)
(* one that get_ban_info would let pass, or one listed since the set's query. *)
(* It follows from what BanCache guarantees and from the width of the query.  *)
THEOREM FastPath == Spec => []FastPathSound
<1>1. IInv /\ Theorems!MissesOnlyTheWindow => FastPathSound
  <2> SUFFICES ASSUME IInv, Theorems!MissesOnlyTheWindow,
                      NEW p \in Pods, NEW ip \in Ips,
                      ready[p], ip \notin banned[p] \cup unseen[p], IsBanned(row[ip])
               PROVE  FALSE
    BY DEF FastPathSound
  <2>1. row[ip] \in Rows
    BY DEF IInv, TypeOK
  <2>2. ip \in Listed
    BY <2>1, BannedAreListed DEF Listed
  <2> QED
    BY <2>2 DEF Theorems!MissesOnlyTheWindow
<1>2. Spec => []IInv
  BY InitOK, StepOK, PTL DEF Spec
<1>3. Cache!Safety => Theorems!Safety
  <2>1. Cache!Init => Theorems!Init
    BY DEF Cache!Init, Theorems!Init, Cache!CacheInit, Theorems!CacheInit
  <2>2. Cache!DbChanges => Theorems!DbChanges
    BY DEF Cache!DbChanges, Theorems!DbChanges, Cache!Overlooked, Theorems!Overlooked
  <2> \A S : Cache!Cardinality(S) = Theorems!Cardinality(S)
    BY DEF Cache!Cardinality, Theorems!Cardinality
  <2>3. \A p \in Pods, r \in Refreshers : Cache!Refresh(p, r) => Theorems!Refresh(p, r)
    BY DEF Cache!Refresh, Theorems!Refresh, Cache!Finish, Theorems!Finish,
           Cache!RefreshRead, Theorems!RefreshRead, Cache!RefreshOverflow, Theorems!RefreshOverflow,
           Cache!RefreshSwap, Theorems!RefreshSwap, Cache!RefreshFail, Theorems!RefreshFail
  <2>4. \A p \in Pods : Cache!PodStep(p) => Theorems!PodStep(p)
    BY <2>3 DEF Cache!PodStep, Theorems!PodStep, Cache!Add, Theorems!Add, Cache!Forget, Theorems!Forget
  <2>5. [Cache!Next]_(Cache!vars) => [Theorems!Next]_(Theorems!vars)
    BY <2>2, <2>4 DEF Cache!Next, Theorems!Next, Cache!vars, Theorems!vars,
                      Cache!cacheVars, Theorems!cacheVars
  <2> QED
    BY <2>1, <2>5, PTL DEF Cache!Safety, Theorems!Safety
<1>4. Spec => Cache!Safety
  BY Implements DEF ImplementsBanCache
<1>5. Theorems!SchedulerAssumption
  BY ActorsAssumption DEF ActorsAssumption, Theorems!SchedulerAssumption
<1>6. Theorems!Safety => []Theorems!MissesOnlyTheWindow
  BY <1>5, Theorems!FastPathSafe
<1> QED
  BY <1>1, <1>2, <1>3, <1>4, <1>6, PTL

-----------------------------------------------------------------------------
(* The answers in Redis.  A lookup that nothing overtook holds what the row    *)
(* says, and an answer that nothing makes doubtful says what the row says and  *)
(* does not outlive the ban of it.                                            *)
Exact(request, r) == request.verdict = IsBanned(r) /\ request.ttl = AnswerTTL(r)

Agrees(a, r) ==
  /\ a.banned = IsBanned(r)
  /\ a.banned => r.override = "ban" \/ a.ttl <= RemainingBan(r)

LookupsExact ==
  \A w \in Workers : worker[w].step = "fill" /\ w \notin overtaken => Exact(worker[w], row[worker[w].ip])

AnswersAgree ==
  \A ip \in Ips : Cached(ip) /\ ip \notin doubtful /\ ~Announced(ip) => Agrees(answer[ip], row[ip])

(* A tick of the clock takes one off a ban that runs. *)
LEMMA BanRunsDown ==
  ASSUME NEW r \in Rows
  PROVE  /\ RemainingBan(Older(r)) = IF RemainingBan(r) > 0 THEN RemainingBan(r) - 1 ELSE 0
         /\ Older(r).override = r.override /\ Older(r).exempt = r.exempt
<1>1. r.age \in NoBan .. WidestWindow + 1
  BY DEF Rows, Ages
<1>2. EffectiveDuration(r) \in 0 .. WidestWindow /\ WidestWindow \in Nat
  BY DurationBounded
<1>3. /\ Older(r).age = IF r.age = NoBan THEN NoBan ELSE AtMost(r.age + 1, WidestWindow + 1)
      /\ EffectiveDuration(Older(r)) = EffectiveDuration(r)
      /\ Older(r).override = r.override /\ Older(r).exempt = r.exempt
  BY DEF Older, EffectiveDuration, Rows
<1> HIDE DEF EffectiveDuration, WidestWindow
<1> QED
  BY <1>1, <1>2, <1>3 DEF RemainingBan, Larger, AtMost, NoBan

(* What an answer for a row says of it when it is stored. *)
LEMMA ExactAgrees ==
  ASSUME NEW r \in Rows, IsBanned(r), r.override # "ban"
  PROVE  AnswerTTL(r) = RemainingBan(r) /\ RemainingBan(r) > 0
<1>1. RemainingBan(r) > 0 /\ RemainingBan(r) \in Nat
  BY RemainingBounded, DurationBounded DEF IsBanned
<1> QED
  BY <1>1 DEF AnswerTTL, Larger

(* The step of w leaves the other workers where they are. *)
LEMMA GoesAlone ==
  ASSUME WorkersOK, NEW w \in Workers, NEW request, Goes(w, request)
  PROVE  worker'[w] = request /\ \A v \in Workers : v # w => worker'[v] = worker[v]
  BY DEF Goes, WorkersOK

(* What a step does to the answer of an address, its announcements, its       *)
(* override and the lookups under way.                                        *)
AnswerKept(ip) == answer'[ip] = answer[ip] \/ ~Cached(ip)' \/ \E w \in Workers : Stores(w, ip)
AnnouncedKept(ip) == Announced(ip) => Announced(ip)' \/ ~Cached(ip)' \/ Lost(ip)
OverrideKept(ip) ==
  row'[ip].override = row[ip].override \/ ~IsBanned(row'[ip]) \/ Announced(ip)'
LookupKept(w) ==
  worker'[w].step = "fill" =>
    \/ worker'[w] = worker[w]
    \/ worker[w].step # "fill" /\ Exact(worker'[w], row'[worker'[w].ip])

Effects ==
  /\ \A ip \in Ips : AnswerKept(ip) /\ AnnouncedKept(ip) /\ OverrideKept(ip)
  /\ \A w \in Workers : LookupKept(w)

LEMMA IdleOperators ==
  ASSUME NEW p \in Pods, ~Serving(p), NEW ip \in Ips
  PROVE  operator[p].ip # ip
  BY ActorsAssumption DEF ActorsAssumption, Serving

LEMMA Deleted ==
  ASSUME IInv, NEW ip \in Ips, DeleteAnswer(ip)
  PROVE  ~Cached(ip)' /\ \A other \in Ips : other # ip => answer'[other] = answer[other]
  BY DEF DeleteAnswer, Cached, NoAnswer, IInv, TypeOK

(* A worker goes on and touches nothing but itself. *)
LEMMA QuietMove ==
  ASSUME IInv, NEW w \in Workers, NEW request, Goes(w, request),
         UNCHANGED <<row, answer, operator>>, worker[w].step # "publish",
         request.step = "fill" => worker[w].step # "fill" /\ Exact(request, row[request.ip])
  PROVE  Effects
<1>1. /\ worker'[w] = request
      /\ \A v \in Workers : v # w => worker'[v] = worker[v]
  BY GoesAlone, Parts DEF RestOK
<1>2. \A ip \in Ips : AnswerKept(ip) /\ OverrideKept(ip)
  BY DEF AnswerKept, OverrideKept
<1>3. \A ip \in Ips : AnnouncedKept(ip)
  BY <1>1 DEF AnnouncedKept, Announced
<1>4. \A v \in Workers : LookupKept(v)
  BY <1>1 DEF LookupKept
<1> QED
  BY <1>2, <1>3, <1>4 DEF Effects

LEMMA StepsOfRequests ==
  /\ Idle.step = "idle"
  /\ \A ip, step : At(ip, step).step = step /\ At(ip, step).ip = ip
  /\ \A ip, kind : Transaction(ip, kind).step \in {"publish", "commit"}
<1>1. Idle.step = "idle" /\ \A ip, step : At(ip, step).step = step /\ At(ip, step).ip = ip
  BY DEF Idle, At
<1>2. \A ip, kind : Transaction(ip, kind).step \in {"publish", "commit"}
  BY DEF Transaction, Idle, At
<1> QED
  BY <1>1, <1>2

LEMMA RequestEffects ==
  ASSUME IInv, NEW w \in Workers, Proceed(w)
  PROVE  Effects
<1> DEFINE ip == worker[w].ip
<1>1. /\ row \in [Ips -> Rows] /\ answer \in [Ips -> Answers] /\ WorkersOK
      /\ worker[w] \in Requests /\ (worker[w].step # "idle" => ip \in Ips)
  BY Parts DEF RestOK, WorkersOK, Sound
<1>2. CASE LookupCached(w)
  BY <1>2, QuietMove, StepsOfRequests DEF LookupCached, Decide
<1>3. CASE LookupRow(w)
  <2> DEFINE request == [At(ip, "fill") EXCEPT !.verdict = IsBanned(row[ip]), !.ttl = AnswerTTL(row[ip])]
  <2>1. request.ip = ip /\ request.verdict = IsBanned(row[ip]) /\ request.ttl = AnswerTTL(row[ip])
    BY DEF At, Idle
  <2>2. Goes(w, request) /\ UNCHANGED <<row, answer, operator>> /\ worker[w].step = "lookup"
    BY <1>3 DEF LookupRow
  <2> HIDE DEF request
  <2>3. Exact(request, row[request.ip])
    BY <2>1 DEF Exact
  <2> QED
    BY <2>2, <2>3, QuietMove
<1>4. CASE LookupFails(w)
  BY <1>4, QuietMove, StepsOfRequests DEF LookupFails
<1>5. CASE ReadRow(w)
  BY <1>5, QuietMove, StepsOfRequests DEF ReadRow
<1>6. CASE DeferRow(w)
  BY <1>6, QuietMove, StepsOfRequests DEF DeferRow
<1>7. CASE Rollback(w)
  BY <1>7, QuietMove, StepsOfRequests DEF Rollback, Over
<1>8. CASE FillAnswer(w)
  <2> DEFINE request == IF worker[w].verdict THEN Idle ELSE At(ip, "serve")
  <2>1. /\ Goes(w, request) /\ UNCHANGED <<row, operator>> /\ worker[w].step = "fill" /\ ip \in Ips
        /\ request.step # "fill"
    BY <1>1, <1>8, StepsOfRequests DEF FillAnswer, Decide
  <2> HIDE DEF request
  <2>2. worker'[w] = request /\ \A v \in Workers : v # w => worker'[v] = worker[v]
    BY <1>1, <2>1, GoesAlone
  <2>3. \A other \in Ips : AnswerKept(other)
    BY <1>1, <1>8 DEF FillAnswer, SetAnswer, AnswerKept, Stores
  <2>4. \A other \in Ips : AnnouncedKept(other) /\ OverrideKept(other)
    BY <2>1, <2>2 DEF AnnouncedKept, Announced, OverrideKept
  <2>5. \A v \in Workers : LookupKept(v)
    BY <2>1, <2>2 DEF LookupKept
  <2> QED
    BY <2>3, <2>4, <2>5 DEF Effects
<1>9. CASE RedisFails(w)
  <2>1. Goes(w, Idle) /\ UNCHANGED <<row, answer, operator>>
    BY <1>9 DEF RedisFails
  <2>2. CASE worker[w].step # "publish"
    BY <2>1, <2>2, QuietMove, StepsOfRequests
  <2>3. CASE worker[w].step = "publish"
    <3>1. worker'[w] = Idle /\ \A v \in Workers : v # w => worker'[v] = worker[v]
      BY <1>1, <2>1, GoesAlone
    <3>2. \A other \in Ips : AnswerKept(other) /\ OverrideKept(other)
      BY <2>1 DEF AnswerKept, OverrideKept
    <3>3. \A other \in Ips : AnnouncedKept(other)
      BY <1>9, <2>1, <2>3, <3>1 DEF AnnouncedKept, Announced, Lost
    <3>4. \A v \in Workers : LookupKept(v)
      BY <3>1, StepsOfRequests DEF LookupKept
    <3> QED
      BY <3>2, <3>3, <3>4 DEF Effects
  <2> QED
    BY <2>2, <2>3
<1>10. CASE Publish(w)
  <2> DEFINE request == IF worker[w].kind = "record" THEN [worker[w] EXCEPT !.step = "commit"] ELSE Idle
  <2>1. /\ Goes(w, request) /\ DeleteAnswer(ip) /\ UNCHANGED <<row, operator>> /\ ip \in Ips
        /\ worker[w].step = "publish"
    BY <1>1, <1>10 DEF Publish
  <2>2. request.step # "fill"
    BY <1>1, StepsOfRequests DEF Requests
  <2> HIDE DEF request
  <2>3. worker'[w] = request /\ \A v \in Workers : v # w => worker'[v] = worker[v]
    BY <1>1, <2>1, GoesAlone
  <2>4. \A other \in Ips : AnswerKept(other) /\ OverrideKept(other)
    BY <2>1, Deleted DEF AnswerKept, OverrideKept
  <2>5. \A other \in Ips : AnnouncedKept(other)
    BY <2>1, <2>3, Deleted DEF AnnouncedKept, Announced
  <2>6. \A v \in Workers : LookupKept(v)
    BY <2>2, <2>3 DEF LookupKept
  <2> QED
    BY <2>4, <2>5, <2>6 DEF Effects
<1>11. CASE Commit(w)
  <2>1. /\ row' = [row EXCEPT ![ip] = Written(w)] /\ UNCHANGED <<answer, operator>> /\ ip \in Ips
        /\ worker[w].step = "commit"
    BY <1>1, <1>11 DEF Commit, WriteRows
  <2>2. PICK request : Goes(w, request) /\ request.step # "fill"
    <3>1. \/ Goes(w, [worker[w] EXCEPT !.step = "publish"])
          \/ Goes(w, Idle)
          \/ Goes(w, At(ip, "count"))
      BY <1>11 DEF Commit, Over
    <3>2. [worker[w] EXCEPT !.step = "publish"].step = "publish"
      BY <1>1 DEF Requests
    <3>3. Idle.step = "idle" /\ At(ip, "count").step = "count"
      BY StepsOfRequests
    <3> QED
      BY <3>1, <3>2, <3>3
  <2>3. worker'[w] = request /\ \A v \in Workers : v # w => worker'[v] = worker[v]
    BY <1>1, <2>2, GoesAlone
  <2>4. Written(w).override = row[ip].override
    BY <1>1, <2>1 DEF Written, Rows
  <2>5. \A other \in Ips : AnswerKept(other) /\ OverrideKept(other)
    BY <1>1, <2>1, <2>4 DEF AnswerKept, OverrideKept
  <2>6. \A other \in Ips : AnnouncedKept(other)
    BY <2>1, <2>3 DEF AnnouncedKept, Announced
  <2>7. \A v \in Workers : LookupKept(v)
    BY <2>2, <2>3 DEF LookupKept
  <2> QED
    BY <2>5, <2>6, <2>7 DEF Effects
<1> QED
  BY <1>2, <1>3, <1>4, <1>5, <1>6, <1>7, <1>8, <1>9, <1>10, <1>11 DEF Proceed

LEMMA OtherEffects ==
  ASSUME IInv, [Next]_vars, ~Tick, ~ \E w \in Workers : Proceed(w)
  PROVE  Effects
<1>1. /\ row \in [Ips -> Rows] /\ answer \in [Ips -> Answers] /\ WorkersOK
      /\ operator \in [Pods -> [ip : Ips \cup {"none"}, ban : BOOLEAN, error : BOOLEAN]]
  BY Parts DEF RestOK, OperatorsOK
<1>2. ASSUME UNCHANGED <<answer, worker, operator>>, \A ip \in Ips : OverrideKept(ip)
      PROVE  Effects
  BY <1>2 DEF Effects, AnswerKept, AnnouncedKept, Announced, LookupKept
<1>3. ASSUME NEW w \in Workers, NEW ip \in Ips, Begin(w, ip) PROVE Effects
  BY <1>3, QuietMove, StepsOfRequests DEF Begin
<1>4. ASSUME NEW p \in Pods, NEW ip \in Ips, NEW action \in OperatorActions \cap Overrides,
             OperatorWrites(p, ip, action)
      PROVE  Effects
  <2>1. /\ row' = [row EXCEPT ![ip] = Overridden(@, action)] /\ UNCHANGED <<answer, worker>>
        /\ ~Serving(p)
        /\ operator' = [operator EXCEPT ![p] = [ip |-> ip, ban |-> action = "ban", error |-> FALSE]]
    BY <1>4 DEF OperatorWrites, WriteRows
  <2>2. /\ operator'[p].ip = ip
        /\ \A q \in Pods : q # p => operator'[q] = operator[q]
    BY <1>1, <2>1
  <2>3. \A other \in Ips : AnnouncedKept(other)
    BY <2>1, <2>2, IdleOperators DEF AnnouncedKept, Announced
  <2>4. \A other \in Ips : OverrideKept(other)
    BY <1>1, <2>1, <2>2 DEF OverrideKept, Announced
  <2> QED
    BY <2>1, <2>3, <2>4 DEF Effects, AnswerKept, LookupKept
<1>5. ASSUME NEW p \in Pods, OperatorPublishes(p) PROVE Effects
  <2> DEFINE ip == operator[p].ip
  <2>1. /\ DeleteAnswer(ip) /\ UNCHANGED <<row, worker>> /\ ip \in Ips
        /\ operator' = [operator EXCEPT ![p] = NoRequest]
    BY <1>5, Parts DEF OperatorPublishes, Serving, RestOK, OperatorsOK
  <2>2. \A q \in Pods : q # p => operator'[q] = operator[q]
    BY <1>1, <2>1
  <2>3. \A other \in Ips : AnnouncedKept(other)
    BY <2>1, <2>2, Deleted DEF AnnouncedKept, Announced
  <2>4. \A other \in Ips : AnswerKept(other)
    BY <2>1, Deleted DEF AnswerKept
  <2> QED
    BY <2>1, <2>3, <2>4 DEF Effects, OverrideKept, LookupKept
<1>6. ASSUME NEW p \in Pods, OperatorFails(p) PROVE Effects
  <2>1. UNCHANGED <<row, answer, worker>> /\ operator' = [operator EXCEPT ![p] = Failed]
    BY <1>6 DEF OperatorFails
  <2>2. \A q \in Pods : q # p => operator'[q] = operator[q]
    BY <1>1, <2>1
  <2>3. \A ip \in Ips : AnnouncedKept(ip)
    BY <1>6, <2>1, <2>2 DEF AnnouncedKept, Announced, Lost
  <2> QED
    BY <2>1, <2>3 DEF Effects, AnswerKept, OverrideKept, LookupKept
<1>7. ASSUME NEW p \in Pods, Restart(p) PROVE Effects
  <2>1. /\ UNCHANGED <<row, answer>> /\ operator' = [operator EXCEPT ![p] = NoRequest]
        /\ worker' = [w \in Workers |-> IF Pod(w) = p THEN Idle ELSE worker[w]]
    BY <1>7 DEF Restart
  <2>2. \A q \in Pods : q # p => operator'[q] = operator[q]
    BY <1>1, <2>1
  <2>3. \A w \in Workers : worker'[w] = Idle \/ worker'[w] = worker[w]
    BY <2>1
  <2>4. ASSUME NEW ip \in Ips, Announced(ip), ~Lost(ip) PROVE Announced(ip)'
    <3>1. CASE \E q \in Pods : operator[q].ip = ip
      BY <1>7, <2>2, <2>4, <3>1 DEF Announced, Lost
    <3>2. CASE \E w \in Workers : worker[w].step = "publish" /\ worker[w].ip = ip
      <4>1. PICK w \in Workers : worker[w].step = "publish" /\ worker[w].ip = ip
        BY <3>2
      <4>2. Pod(w) # p
        BY <1>7, <2>4, <4>1 DEF Lost
      <4>3. worker'[w] = worker[w]
        BY <2>1, <4>2
      <4> QED
        BY <4>1, <4>3 DEF Announced
    <3> QED
      BY <2>4, <3>1, <3>2 DEF Announced
  <2> QED
    BY <2>1, <2>3, <2>4, StepsOfRequests
    DEF Effects, AnswerKept, AnnouncedKept, OverrideKept, LookupKept
<1>8. ASSUME NEW p \in Pods, Purge(p) PROVE Effects
  BY <1>2, <1>8 DEF Purge, OverrideKept
<1>9. ASSUME NEW p \in Pods, ClearExpiredBans(p) PROVE Effects
  <2>1. /\ \/ row' = [ip \in Ips |-> IF ip \in expired[p]
                                    THEN [row[ip] EXCEPT !.age = NoBan, !.visits = 0]
                                    ELSE row[ip]]
           \/ UNCHANGED row
        /\ UNCHANGED <<answer, worker, operator>>
    BY <1>9 DEF ClearExpiredBans, WriteRows
  <2>2. \A ip \in Ips : row'[ip].override = row[ip].override
    BY <1>1, <2>1 DEF Rows
  <2> QED
    BY <1>2, <2>1, <2>2 DEF OverrideKept
<1>10. ASSUME NEW p \in Pods, NEW r \in Refreshers, RefreshCache(p, r) PROVE Effects
  BY <1>2, <1>10 DEF RefreshCache, OverrideKept
<1>11. ASSUME NEW ip \in Ips, RowDeleted(ip) PROVE Effects
  <2>1. row' = [row EXCEPT ![ip] = NoRow] /\ UNCHANGED <<answer, worker, operator>>
    BY <1>11 DEF RowDeleted, WriteRows
  <2>2. ~IsBanned(NoRow)
    BY DEF NoRow, IsBanned, RemainingBan
  <2> QED
    BY <1>1, <1>2, <2>1, <2>2 DEF OverrideKept
<1>12. ASSUME UNCHANGED vars PROVE Effects
  BY <1>2, <1>12 DEF vars, OverrideKept
<1> QED
  BY <1>3, <1>4, <1>5, <1>6, <1>7, <1>8, <1>9, <1>10, <1>11, <1>12 DEF Next

LEMMA StepEffects ==
  ASSUME IInv, [Next]_vars, ~Tick
  PROVE  Effects
  BY RequestEffects, OtherEffects

(* A lookup whose row changes while it is under way is overtaken. *)
LEMMA LookupsStayExact ==
  ASSUME IInv, LookupsExact, AnswersNext
  PROVE  LookupsExact'
<1> SUFFICES ASSUME NEW w \in Workers, worker'[w].step = "fill", w \notin overtaken'
             PROVE  Exact(worker'[w], row'[worker'[w].ip])
  BY DEF LookupsExact
<1>1. LookupKept(w)
  <2>1. CASE Tick
    BY <2>1 DEF Tick, LookupKept
  <2> QED
    BY <2>1, StepEffects DEF AnswersNext, Effects
<1>2. CASE worker[w].step = "fill"
  <2>1. worker'[w] = worker[w] /\ w \notin overtaken /\ ~Changes(worker[w].ip)
    BY <1>1, <1>2 DEF LookupKept, AnswersNext, Remember
  <2>2. Exact(worker[w], row[worker[w].ip])
    BY <1>2, <2>1 DEF LookupsExact
  <2> QED
    BY <2>1, <2>2 DEF Exact, Changes
<1>3. CASE worker[w].step # "fill"
  BY <1>1, <1>3 DEF LookupKept
<1> QED
  BY <1>2, <1>3

(* Time takes as much off an answer as off the ban it is about. *)
LEMMA AnswersAge ==
  ASSUME IInv, AnswersAgree, AnswersNext, Tick
  PROVE  AnswersAgree'
<1> SUFFICES ASSUME NEW ip \in Ips, Cached(ip)', ip \notin doubtful', ~Announced(ip)'
             PROVE  Agrees(answer'[ip], row'[ip])
  BY DEF AnswersAgree
<1>1. /\ row[ip] \in Rows /\ answer[ip] \in Answers /\ row \in [Ips -> Rows]
      /\ WorkersOK
  BY Parts DEF RestOK
<1>2. /\ row' = [i \in Ips |-> Older(row[i])] /\ UNCHANGED <<worker, operator>>
      /\ answer' = [i \in Ips |-> IF answer[i].ttl > 1 THEN [answer[i] EXCEPT !.ttl = @ - 1]
                                                      ELSE NoAnswer]
  BY DEF Tick, WriteRows
<1>3. answer[ip].ttl > 1 /\ answer'[ip] = [answer[ip] EXCEPT !.ttl = @ - 1]
  BY <1>2 DEF Cached, NoAnswer
<1>4. Cached(ip) /\ ~Announced(ip)
  BY <1>1, <1>2, <1>3 DEF Cached, Announced, Answers
<1>5. ip \notin doubtful
  <2>1. \A w \in Workers : ~Stores(w, ip)
    BY <1>1, <1>2, StepsOfRequests DEF Stores, FillAnswer, Decide, Goes, WorkersOK
  <2> QED
    BY <2>1 DEF AnswersNext, Remember
<1>6. Agrees(answer[ip], row[ip])
  BY <1>4, <1>5 DEF AnswersAgree
<1>7. /\ answer'[ip].banned = answer[ip].banned
      /\ answer'[ip].ttl = answer[ip].ttl - 1
      /\ row'[ip] = Older(row[ip])
  BY <1>1, <1>2, <1>3 DEF Answers
<1>8. row[ip].override = row'[ip].override /\ row[ip].exempt = row'[ip].exempt
  BY <1>1, <1>7, BanRunsDown
<1>9. RemainingBan(row'[ip]) = IF RemainingBan(row[ip]) > 0 THEN RemainingBan(row[ip]) - 1 ELSE 0
  BY <1>1, <1>7, BanRunsDown
<1>10. RemainingBan(row[ip]) \in Nat /\ answer[ip].ttl \in Nat
  <2>1. Larger(WidestWindow, ShortTTL) \in Nat
    BY <1>1, DurationBounded, TimesTyped DEF Larger
  <2> QED
    BY <1>1, <2>1, RemainingBounded, DurationBounded DEF Answers
<1>11. CASE answer[ip].banned
  <2>1. IsBanned(row[ip])
    BY <1>6, <1>11 DEF Agrees
  <2>2. CASE row[ip].override = "ban"
    BY <1>7, <1>8, <1>11, <2>2 DEF Agrees, IsBanned
  <2>3. CASE row[ip].override # "ban"
    <3>1. /\ RemainingBan(row'[ip]) > 0
          /\ answer[ip].ttl - 1 <= RemainingBan(row'[ip])
      <4>1. answer[ip].ttl <= RemainingBan(row[ip])
        BY <1>6, <1>11, <2>3 DEF Agrees
      <4> HIDE DEF RemainingBan
      <4> QED
        BY <1>3, <1>9, <1>10, <4>1
    <3>2. IsBanned(row'[ip])
      BY <1>8, <2>1, <2>3, <3>1 DEF IsBanned
    <3> QED
      BY <1>7, <1>11, <3>1, <3>2 DEF Agrees
  <2> QED
    BY <2>2, <2>3
<1>12. CASE ~answer[ip].banned
  BY <1>6, <1>7, <1>8, <1>9, <1>10, <1>12 DEF Agrees, IsBanned
<1> QED
  BY <1>11, <1>12

(* An answer comes to differ from the row only as BanAnswers tells. *)
LEMMA AnswersStayAgreed ==
  ASSUME IInv, LookupsExact, AnswersAgree, AnswersNext
  PROVE  AnswersAgree'
<1>1. CASE Tick
  BY <1>1, AnswersAge
<1>2. CASE ~Tick
  <2> SUFFICES ASSUME NEW ip \in Ips, Cached(ip)', ip \notin doubtful', ~Announced(ip)'
               PROVE  Agrees(answer'[ip], row'[ip])
    BY DEF AnswersAgree
  <2>1. ~Lost(ip) /\ ~Changes(ip) /\ Effects
    BY <1>2, StepEffects DEF AnswersNext, Remember, Lost
  <2>2. ~Announced(ip) /\ AnswerKept(ip) /\ OverrideKept(ip)
    BY <2>1 DEF Effects, AnnouncedKept
  <2>3. row[ip] \in Rows /\ row'[ip] \in Rows /\ row \in [Ips -> Rows]
        /\ answer \in [Ips -> Answers]
    <3>1. IInv'
      BY StepOK DEF AnswersNext
    <3> QED
      BY <3>1, Parts DEF RestOK
  <2>4. IsBanned(row'[ip]) = IsBanned(row[ip]) /\ AnswerTTL(row'[ip]) = AnswerTTL(row[ip])
    BY <2>1 DEF Changes
  <2>5. CASE \E w \in Workers : Stores(w, ip)
    <3>1. PICK w \in Workers : Stores(w, ip)
      BY <2>5
    <3>2. w \notin overtaken
      BY <3>1 DEF AnswersNext, Remember
    <3>3. /\ worker[w].step = "fill" /\ worker[w].ip = ip /\ UNCHANGED row
          /\ answer'[ip] = [ttl |-> worker[w].ttl, banned |-> worker[w].verdict]
      BY <2>3, <3>1 DEF Stores, FillAnswer, SetAnswer
    <3>4. answer'[ip].ttl = AnswerTTL(row'[ip]) /\ answer'[ip].banned = IsBanned(row'[ip])
      BY <3>2, <3>3 DEF LookupsExact, Exact
    <3>5. CASE IsBanned(row'[ip]) /\ row'[ip].override # "ban"
      <4>1. AnswerTTL(row'[ip]) = RemainingBan(row'[ip])
        BY <2>3, <3>5, ExactAgrees
      <4>2. RemainingBan(row'[ip]) \in Int
        BY <2>3, RemainingBounded
      <4> QED
        BY <3>4, <4>1, <4>2 DEF Agrees
    <3> QED
      BY <3>4, <3>5 DEF Agrees
  <2>6. CASE ~ \E w \in Workers : Stores(w, ip)
    <3>1. answer'[ip] = answer[ip] /\ Cached(ip) /\ ip \notin doubtful
      BY <2>2, <2>6 DEF AnswerKept, Cached, AnswersNext, Remember
    <3>2. Agrees(answer[ip], row[ip])
      BY <2>2, <3>1 DEF AnswersAgree
    <3>3. CASE answer[ip].banned /\ row[ip].override # "ban"
      <4>1. IsBanned(row'[ip]) /\ row'[ip].override # "ban"
        BY <2>2, <2>4, <3>2, <3>3 DEF Agrees, OverrideKept
      <4>2. RemainingBan(row'[ip]) = RemainingBan(row[ip])
        BY <2>3, <2>4, <3>2, <3>3, <4>1, ExactAgrees DEF Agrees
      <4> QED
        BY <2>4, <3>1, <3>2, <3>3, <4>1, <4>2 DEF Agrees
    <3>4. CASE answer[ip].banned /\ row[ip].override = "ban"
      BY <2>2, <2>4, <3>1, <3>2, <3>4 DEF Agrees, OverrideKept
    <3>5. CASE ~answer[ip].banned
      BY <2>4, <3>1, <3>2, <3>5 DEF Agrees
    <3> QED
      BY <3>3, <3>4, <3>5
  <2> QED
    BY <2>5, <2>6
<1> QED
  BY <1>1, <1>2

(* Redis answers for an IP what get_ban_info would, for any ban times and any *)
(* number of pods and requests, unless a change is about to be published, an  *)
(* overtaken lookup stored the answer, or the change is lost on it.           *)
THEOREM Follows == AnswersSpec => []AnswersFollow
<1>1. AnswersInit => IInv /\ LookupsExact /\ AnswersAgree
  <2> SUFFICES ASSUME AnswersInit PROVE IInv /\ LookupsExact /\ AnswersAgree
    OBVIOUS
  <2>1. IInv
    BY InitOK DEF AnswersInit
  <2>2. LookupsExact
    BY StepsOfRequests DEF AnswersInit, Init, LookupsExact
  <2>3. AnswersAgree
    BY DEF AnswersInit, Init, AnswersAgree, Cached, NoAnswer
  <2> QED
    BY <2>1, <2>2, <2>3
<1>2. /\ IInv /\ LookupsExact /\ AnswersAgree
      /\ [AnswersNext]_answersVars
      => (IInv /\ LookupsExact /\ AnswersAgree)'
  <2> SUFFICES ASSUME IInv, LookupsExact, AnswersAgree, [AnswersNext]_answersVars
               PROVE  IInv' /\ LookupsExact' /\ AnswersAgree'
    OBVIOUS
  <2>1. CASE AnswersNext
    <3>1. IInv'
      BY <2>1, StepOK DEF AnswersNext
    <3> QED
      BY <2>1, <3>1, LookupsStayExact, AnswersStayAgreed
  <2>2. CASE UNCHANGED answersVars
    <3>1. IInv'
      BY <2>2, StepOK DEF answersVars
    <3>2. UNCHANGED <<row, answer, worker, operator, overtaken, doubtful>>
      BY <2>2 DEF answersVars, vars
    <3>3. LookupsExact'
      BY <3>2 DEF LookupsExact
    <3>4. AnswersAgree'
      BY <3>2 DEF AnswersAgree, Cached, Announced
    <3> QED
      BY <3>1, <3>3, <3>4
  <2> QED
    BY <2>1, <2>2
<1>3. AnswersAgree => AnswersFollow
  BY DEF AnswersAgree, AnswersFollow, Agrees
<1> QED
  BY <1>1, <1>2, <1>3, PTL DEF AnswersSpec

=============================================================================
