------------------------- MODULE TrapRequestsProofs -------------------------
(***************************************************************************)
(* Requests to the honeypot, for any requests, pages and limits: their      *)
(* types, that each is recorded once, that a model's page does not take the *)
(* place of an operator's, and how far the daily limit is overshot.         *)
(***************************************************************************)
EXTENDS TrapRequests, FiniteSetTheorems, TLAPS

Progress(r) ==
  [at : Places, shape : Shapes[r], recorded : 0 .. 1, visits : 0 .. 1, late : BOOLEAN]

Attack(s) == s.deceives \/ s.path \in Traps \/ (s.verb = "POST" /\ s.attacks)

(* What was recorded of a request, by where it stands: nothing before the     *)
(* router, what the dependency records before trap_page, and then everything. *)
Recorded(q) ==
  /\ q.at \in {"ban", "deception", "routed"} =>
       q.recorded = 0 /\ q.visits = 0 /\ (q.at = "routed" => ~q.shape.deceives)
  /\ q.at = "trap" =>
       /\ Caught(q.shape) /\ ~q.shape.deceives /\ q.visits = 0
       /\ q.recorded = IF Suspect(q.shape) /\ q.shape.client = "stranger" THEN 1 ELSE 0
  /\ q.at \in {"page", "lookup", "limit", "model", "save", "generate"} =>
       Caught(q.shape) /\ (q.shape.client = "stranger" => q.recorded = 1)
  /\ q.at = "answered" /\ q.shape.client = "stranger" /\ Attack(q.shape) => q.recorded = 1

Tracked(r, q) == q = Idle \/ (q \in Progress(r) /\ Recorded(q))

RInv ==
  /\ request = [r \in Requests |-> request[r]]
  /\ \A r \in Requests : Tracked(r, request[r])
  /\ page \in [Pages -> [by : {"none", "model", "operator"}, today : BOOLEAN]]
  /\ counter \in 0 .. CanaryTries
  /\ import \in Images \cup {Nothing}
  /\ miscounts \in 0 .. MaxMiscounts

LEMMA ConstantsTyped ==
  /\ MaxDaily \in Nat /\ CanaryTries \in Nat /\ MaxMiscounts \in Nat
  /\ Images \subseteq Pages /\ Uploaded \subseteq Pages
  /\ IsFiniteSet(Requests) /\ IsFiniteSet(Pages) /\ Requests # {}
  BY TrapAssumption DEF TrapAssumption

LEMMA IdleIsNot == Idle.at = "idle" /\ \A r : Idle \notin Progress(r)
<1>1. Idle.at = "idle"
  BY DEF Idle
<1>2. "idle" \notin Places
  BY DEF Places
<1> QED
  BY <1>1, <1>2 DEF Progress

LEMMA InvTyped == RInv => TypeOK /\ RecordedOnce
<1> SUFFICES ASSUME RInv PROVE TypeOK /\ RecordedOnce
  OBVIOUS
<1>1. TypeOK
  BY DEF RInv, TypeOK, Tracked, Progress
<1>2. ASSUME NEW r \in Requests, request[r] # Idle
      PROVE  request[r] \in Progress(r) /\ Recorded(request[r])
  BY <1>2 DEF RInv, Tracked
<1>3. RecordedOnce
  BY <1>2 DEF RecordedOnce, At, Progress, Recorded, Attack
<1> QED
  BY <1>1, <1>3

LEMMA InitTracked == Init => RInv
<1> SUFFICES ASSUME Init PROVE RInv
  OBVIOUS
<1>1. page \in [Pages -> [by : {"none", "model", "operator"}, today : BOOLEAN]]
  BY DEF Init, NoPage
<1> QED
  BY <1>1, ConstantsTyped DEF Init, RInv, Tracked

(* A step that moves one request, and what it moves to. *)
LEMMA OneMoves ==
  ASSUME RInv, NEW r \in Requests, NEW q, Tracked(r, q),
         request' = [request EXCEPT ![r] = q]
  PROVE  /\ request' = [s \in Requests |-> request'[s]]
         /\ \A s \in Requests : Tracked(s, request'[s])
         /\ request'[r] = q /\ \A s \in Requests : s # r => request'[s] = request[s]
  BY DEF RInv

LEMMA SameStore ==
  ASSUME RInv, request' = [s \in Requests |-> request'[s]],
         \A s \in Requests : Tracked(s, request'[s]),
         SamePages, counter' \in 0 .. CanaryTries
  PROVE  RInv'
  BY DEF RInv, SamePages

(* Going from one place to another leaves the rest. *)
LEMMA GoesTracked ==
  ASSUME RInv, NEW r \in Requests, NEW to \in Places, Goes(r, to),
         request[r].at # "idle", to \notin {"ban", "deception", "routed", "trap"},
         \/ to = "refused"
         \/ request[r].at \in {"page", "lookup", "limit", "model", "save", "generate"}
  PROVE  /\ request' = [s \in Requests |-> request'[s]]
         /\ \A s \in Requests : Tracked(s, request'[s])
         /\ request'[r] = [request[r] EXCEPT !.at = to]
         /\ \A s \in Requests : s # r => request'[s] = request[s]
<1> DEFINE q == [request[r] EXCEPT !.at = to]
<1>1. request[r] \in Progress(r) /\ Recorded(request[r])
  BY IdleIsNot DEF RInv, Tracked
<1>2. /\ q \in Progress(r) /\ q.at = to /\ q.shape = request[r].shape
      /\ q.recorded = request[r].recorded
  BY <1>1 DEF Progress
<1>3. Recorded(q)
  BY <1>1, <1>2 DEF Recorded
<1> QED
  BY <1>2, <1>3, OneMoves DEF Goes, Tracked

LEMMA ArriveTracked ==
  ASSUME RInv, NEW r \in Requests, Arrive(r)
  PROVE  RInv'
<1>1. PICK s \in Shapes[r] : request' = [request EXCEPT ![r] = Arrived(s)]
  BY DEF Arrive
<1>2. Arrived(s) \in Progress(r) /\ Recorded(Arrived(s))
  BY DEF Arrived, Progress, Places, Recorded
<1>3. counter' \in 0 .. CanaryTries /\ SamePages
  BY DEF Arrive, RInv
<1> QED
  BY <1>1, <1>2, <1>3, OneMoves, SameStore DEF Tracked

LEMMA EarlyTracked ==
  ASSUME RInv, NEW r \in Requests,
         BanCheck(r) \/ Deceive(r) \/ Track(r) \/ TrapPage(r)
  PROVE  RInv'
<1> DEFINE q == request[r]
<1>1. q \in Progress(r) /\ Recorded(q)
  BY IdleIsNot DEF RInv, Tracked, BanCheck, Deceive, Track, TrapPage, At
<1>2. SamePages /\ counter' \in 0 .. CanaryTries
  BY DEF BanCheck, Deceive, Track, TrapPage, RInv
<1>3. ASSUME NEW n, Tracked(r, n), request' = [request EXCEPT ![r] = n] PROVE RInv'
  BY <1>2, <1>3, OneMoves, SameStore
<1>4. CASE BanCheck(r)
  <2>1. PICK to \in {"refused", "deception"} : request' = [request EXCEPT ![r].at = to]
    BY <1>4 DEF BanCheck, Goes
  <2>2. [q EXCEPT !.at = to] \in Progress(r)
    BY <1>1 DEF Progress, Places
  <2>3. Recorded([q EXCEPT !.at = to])
    BY <1>1, <1>4 DEF Recorded, Progress, BanCheck, At
  <2> QED
    BY <1>3, <2>1, <2>2, <2>3 DEF Tracked
<1>5. CASE Deceive(r)
  <2> DEFINE n == IF q.shape.deceives THEN [RecordAccess(q) EXCEPT !.at = "answered"]
                  ELSE [q EXCEPT !.at = "routed"]
  <2>1. request' = [request EXCEPT ![r] = n]
    BY <1>5 DEF Deceive
  <2>2. q.recorded = 0 /\ q.visits = 0
    BY <1>1, <1>5 DEF Deceive, At, Recorded
  <2>3. n \in Progress(r)
    BY <1>1, <2>2 DEF Progress, RecordAccess, Places
  <2>4. Recorded(n)
    BY <1>1, <2>2 DEF Recorded, Progress, RecordAccess
  <2> QED
    BY <1>3, <2>1, <2>3, <2>4 DEF Tracked
<1>6. CASE Track(r)
  <2> DEFINE n == [(IF Suspect(q.shape) THEN RecordAccess(q) ELSE q) EXCEPT
                     !.at = IF Caught(q.shape) THEN "trap" ELSE "answered"]
  <2>1. request' = [request EXCEPT ![r] = n]
    BY <1>6 DEF Track
  <2>2. q.recorded = 0 /\ q.visits = 0 /\ ~q.shape.deceives
    BY <1>1, <1>6 DEF Track, At, Recorded
  <2>3. n \in Progress(r)
    BY <1>1, <2>2 DEF Progress, RecordAccess, Places
  <2>4. Recorded(n)
    BY <1>1, <2>2 DEF Recorded, Progress, RecordAccess, Suspect, Attack
  <2> QED
    BY <1>3, <2>1, <2>3, <2>4 DEF Tracked
<1>7. CASE TrapPage(r)
  <2> DEFINE n == [Visit(IF q.shape.path \in Traps THEN q ELSE RecordAccess(q)) EXCEPT !.at = "page"]
  <2>1. request' = [request EXCEPT ![r] = n]
    BY <1>7 DEF TrapPage, Path
  <2>2. /\ Caught(q.shape) /\ q.visits = 0
        /\ q.recorded = IF q.shape.path \in Traps /\ q.shape.client = "stranger" THEN 1 ELSE 0
    BY <1>1, <1>7 DEF TrapPage, At, Recorded, Suspect, Caught
  <2>3. n \in Progress(r)
    BY <1>1, <2>2 DEF Progress, RecordAccess, Visit, Places
  <2>4. Recorded(n)
    BY <1>1, <2>2 DEF Recorded, Progress, RecordAccess, Visit
  <2> QED
    BY <1>3, <2>1, <2>3, <2>4 DEF Tracked
<1> QED
  BY <1>4, <1>5, <1>6, <1>7

(* The step of a request that trap_page answers, but for what it does to the pages. *)
LateStep(r) ==
  RandomError(r) \/ ShouldUseAi(r) \/ Lookup(r) \/ Limit(r) \/ LimitUnknown(r)
  \/ ModelAnswers(r) \/ ModelFails(r) \/ SavePage(r) \/ GeneratePage(r)

LEMMA UpsertTyped ==
  ASSUME page \in [Pages -> [by : {"none", "model", "operator"}, today : BOOLEAN]],
         NEW p \in Pages, NEW who \in {"model", "operator"}
  PROVE  /\ Upserted(p, who) \in [Pages -> [by : {"none", "model", "operator"}, today : BOOLEAN]]
         /\ Upserted(p, who)[p].by = who
         /\ \A o \in Pages : o # p => Upserted(p, who)[o] = page[o]
  BY DEF Upserted, Stored

(* A late step moves its request on, and may mark it. *)
LEMMA LateMoves ==
  ASSUME RInv, NEW r \in Requests, LateStep(r)
  PROVE  /\ request[r] \in Progress(r) /\ Recorded(request[r]) /\ Path(r) \in Pages
         /\ request[r].at \in {"page", "lookup", "limit", "model", "save", "generate"}
         /\ request' = [s \in Requests |-> request'[s]]
         /\ \A s \in Requests : Tracked(s, request'[s])
         /\ \A s \in Requests : s # r => request'[s] = request[s]
         /\ request'[r].shape = request[r].shape
         /\ request'[r].late = request[r].late \/ Lookup(r)
         /\ Lookup(r) /\ Stored(Path(r)) /\ request'[r].at = "limit" => request'[r].late
         /\ request'[r].at \in {"lookup", "limit", "model", "save", "generate", "answered"}
         /\ request'[r].at = "limit" => Lookup(r)
         /\ request'[r].at = "model" => Limit(r) \/ LimitUnknown(r)
         /\ request'[r].at = "save" => request[r].at = "model"
<1>1. request[r].at \in {"page", "lookup", "limit", "model", "save", "generate"}
  BY DEF LateStep, RandomError, ShouldUseAi, Lookup, Limit, LimitUnknown, ModelAnswers,
         ModelFails, SavePage, GeneratePage, At
<1>2. request[r] \in Progress(r) /\ Recorded(request[r])
  BY <1>1, IdleIsNot DEF RInv, Tracked
<1>3. Path(r) \in Pages
  BY <1>1, <1>2 DEF Recorded, Caught, Path
<1> DEFINE Later == {"lookup", "limit", "model", "save", "generate", "answered"}
<1>4. ASSUME NEW to \in Later, Goes(r, to)
      PROVE  /\ request' = [s \in Requests |-> request'[s]]
             /\ \A s \in Requests : Tracked(s, request'[s])
             /\ \A s \in Requests : s # r => request'[s] = request[s]
             /\ request'[r] = [request[r] EXCEPT !.at = to]
  BY <1>1, <1>4, GoesTracked DEF Places
<1>5. ASSUME NEW to \in Later, Goes(r, to)
      PROVE  /\ request'[r].shape = request[r].shape /\ request'[r].late = request[r].late
             /\ request'[r].at = to
  BY <1>2, <1>4, <1>5 DEF Progress
<1>6. \/ \E to \in Later :
           /\ Goes(r, to)
           /\ to = "limit" => Lookup(r) /\ ~Stored(Path(r))
           /\ to = "model" => Limit(r) \/ LimitUnknown(r)
           /\ to = "save" => request[r].at = "model"
      \/ /\ Lookup(r)
         /\ \E to \in {"limit", "generate"} :
              request' = [request EXCEPT ![r].at = to, ![r].late = TRUE]
  <2>1. CASE RandomError(r)
    BY <2>1 DEF RandomError
  <2>2. CASE ShouldUseAi(r)
    BY <2>2 DEF ShouldUseAi
  <2>3. CASE Lookup(r)
    BY <2>3 DEF Lookup
  <2>4. CASE Limit(r)
    BY <2>4 DEF Limit
  <2>5. CASE LimitUnknown(r)
    BY <2>5 DEF LimitUnknown
  <2>6. CASE ModelAnswers(r)
    BY <2>6 DEF ModelAnswers, At
  <2>7. CASE ModelFails(r)
    BY <2>7 DEF ModelFails
  <2>8. CASE SavePage(r)
    BY <2>8 DEF SavePage
  <2>9. CASE GeneratePage(r)
    BY <2>9 DEF GeneratePage
  <2> QED
    BY <2>1, <2>2, <2>3, <2>4, <2>5, <2>6, <2>7, <2>8, <2>9 DEF LateStep
<1>7. CASE \E to \in Later :
             /\ Goes(r, to)
             /\ to = "limit" => Lookup(r) /\ ~Stored(Path(r))
             /\ to = "model" => Limit(r) \/ LimitUnknown(r)
             /\ to = "save" => request[r].at = "model"
  BY <1>1, <1>2, <1>3, <1>4, <1>5, <1>7
<1>8. CASE /\ Lookup(r)
           /\ \E to \in {"limit", "generate"} :
                request' = [request EXCEPT ![r].at = to, ![r].late = TRUE]
  <2>1. PICK to \in {"limit", "generate"} :
          request' = [request EXCEPT ![r].at = to, ![r].late = TRUE]
    BY <1>8
  <2> DEFINE q == [request[r] EXCEPT !.at = to, !.late = TRUE]
  <2>2. q \in Progress(r) /\ q.at = to /\ q.late /\ q.shape = request[r].shape
        /\ q.recorded = request[r].recorded
    BY <1>2 DEF Progress, Places
  <2>3. Recorded(q)
    BY <1>1, <1>2, <2>2 DEF Recorded
  <2>4. request' = [request EXCEPT ![r] = q]
    BY <2>1
  <2>5. /\ request' = [s \in Requests |-> request'[s]]
        /\ \A s \in Requests : Tracked(s, request'[s])
        /\ request'[r] = q /\ \A s \in Requests : s # r => request'[s] = request[s]
    BY <2>2, <2>3, <2>4, OneMoves DEF Tracked
  <2> QED
    BY <1>1, <1>2, <1>3, <1>8, <2>2, <2>5
<1> QED
  BY <1>6, <1>7, <1>8

LEMMA LateTracked ==
  ASSUME RInv, NEW r \in Requests, LateStep(r)
  PROVE  RInv'
<1>1. /\ request' = [s \in Requests |-> request'[s]]
      /\ \A s \in Requests : Tracked(s, request'[s])
      /\ Path(r) \in Pages
  BY LateMoves
<1>2. page' \in [Pages -> [by : {"none", "model", "operator"}, today : BOOLEAN]]
  BY <1>1, UpsertTyped DEF RInv, LateStep, RandomError, ShouldUseAi, Lookup, Limit, LimitUnknown,
     ModelAnswers, ModelFails, SavePage, GeneratePage, SamePages
<1>3. counter' \in 0 .. CanaryTries
  BY ConstantsTyped DEF RInv, LateStep, RandomError, ShouldUseAi, Lookup, Limit, LimitUnknown,
     ModelAnswers, ModelFails, SavePage, GeneratePage, SamePages
<1>4. miscounts' \in 0 .. MaxMiscounts
  BY ConstantsTyped DEF RInv, LateStep, RandomError, ShouldUseAi, Lookup, Limit, LimitUnknown,
     ModelAnswers, ModelFails, SavePage, GeneratePage, SamePages
<1>5. import' = import
  BY DEF LateStep, RandomError, ShouldUseAi, Lookup, Limit, LimitUnknown,
     ModelAnswers, ModelFails, SavePage, GeneratePage, SamePages
<1> QED
  BY <1>1, <1>2, <1>3, <1>4, <1>5 DEF RInv

LEMMA LeaveTracked ==
  ASSUME RInv, NEW r \in Requests, Leave(r)
  PROVE  RInv'
  BY OneMoves, SameStore DEF Leave, Tracked, RInv

(* Pages that operators write mark the requests that write them too. *)
Marked(p) ==
  [r \in Requests |->
     IF r \in Writing(p) THEN [request[r] EXCEPT !.late = TRUE] ELSE request[r]]

LEMMA MarkTracked ==
  ASSUME RInv, NEW p, request' = Marked(p)
  PROVE  /\ request' = [s \in Requests |-> request'[s]]
         /\ \A s \in Requests :
              /\ Tracked(s, request'[s])
              /\ request'[s].at = request[s].at
              /\ request[s].at # "idle" => request'[s].shape = request[s].shape
              /\ s \in Writing(p) => request'[s].late
              /\ s \notin Writing(p) => request'[s] = request[s]
<1>1. request' = [s \in Requests |-> request'[s]]
  BY DEF Marked
<1>2. ASSUME NEW s \in Requests, s \notin Writing(p) PROVE request'[s] = request[s]
  BY <1>2 DEF Marked
<1>3. ASSUME NEW s \in Requests, s \in Writing(p)
      PROVE  /\ Tracked(s, request'[s]) /\ request'[s].at = request[s].at
             /\ request'[s].shape = request[s].shape /\ request'[s].late
  <2>1. request[s] \in Progress(s) /\ Recorded(request[s])
    BY <1>3, IdleIsNot DEF RInv, Tracked, Writing
  <2>2. request'[s] = [request[s] EXCEPT !.late = TRUE]
    BY <1>3 DEF Marked
  <2>3. /\ request'[s] \in Progress(s) /\ request'[s].at = request[s].at
        /\ request'[s].shape = request[s].shape /\ request'[s].late
        /\ request'[s].recorded = request[s].recorded /\ request'[s].visits = request[s].visits
    BY <2>1, <2>2 DEF Progress
  <2>4. Recorded(request'[s])
    BY <2>1, <2>3 DEF Recorded
  <2> QED
    BY <2>3, <2>4 DEF Tracked
<1> QED
  BY <1>1, <1>2, <1>3 DEF RInv

LEMMA TrackedInductive == RInv /\ [Next]_vars => RInv'
<1> SUFFICES ASSUME RInv, [Next]_vars PROVE RInv'
  OBVIOUS
<1>1. ASSUME NEW r \in Requests, Arrive(r) \/ CodeStep(r) \/ ModelAnswers(r) PROVE RInv'
  BY <1>1, ArriveTracked, EarlyTracked, LateTracked, LeaveTracked DEF CodeStep, LateStep
<1>2. ASSUME NEW p \in Uploaded, Upload(p) PROVE RInv'
  BY <1>2, MarkTracked, UpsertTyped, ConstantsTyped DEF Upload, Marked, RInv
<1>3. ASSUME NEW p \in Images, Import(p) PROVE RInv'
  BY <1>3 DEF Import, RInv
<1>4. CASE SaveImport
  <2>1. import \in Pages
    BY <1>4, ConstantsTyped DEF SaveImport, RInv
  <2>2. page' \in [Pages -> [by : {"none", "model", "operator"}, today : BOOLEAN]]
    BY <1>4, <2>1, UpsertTyped DEF SaveImport, RInv
  <2> QED
    BY <1>4, <2>2, MarkTracked DEF SaveImport, Marked, RInv
<1>5. CASE Delete
  <2>1. page' \in [Pages -> [by : {"none", "model", "operator"}, today : BOOLEAN]]
    BY <1>5 DEF Delete, NoPage, RInv
  <2> QED
    BY <1>5, <2>1 DEF Delete, RInv
<1>6. CASE Midnight
  <2>1. page' \in [Pages -> [by : {"none", "model", "operator"}, today : BOOLEAN]]
    BY <1>6 DEF Midnight, RInv
  <2> QED
    BY <1>6, <2>1, ConstantsTyped DEF Midnight, RInv
<1>7. CASE UNCHANGED vars
  BY <1>7 DEF vars, RInv
<1> QED
  BY <1>1, <1>2, <1>3, <1>4, <1>5, <1>6, <1>7 DEF Next

(* Requests, pages and counters keep their types; in particular the counter *)
(* of the canary stays in its range.                                        *)
THEOREM TypeCorrect == Spec => []TypeOK
  BY InitTracked, TrackedInductive, InvTyped, PTL DEF Spec

(* For any requests and paths, a request is recorded once at most, and once if *)
(* it attacks, whichever of the middleware, the dependency and trap_page sees  *)
(* it.                                                                         *)
THEOREM Once == Spec => []RecordedOnce
  BY InitTracked, TrackedInductive, InvTyped, PTL DEF Spec

-----------------------------------------------------------------------------
(* A request that may write a page over an operator's knows that it came late. *)
LateKnown ==
  \A r \in Requests :
    request[r].at \in {"limit", "model", "save"} /\ page[Path(r)].by = "operator" => request[r].late

OInv == RInv /\ LateKnown

(* The step of a request that leaves the pages alone does not write. *)
LEMMA EarlyKeeps ==
  ASSUME OInv, NEW r \in Requests,
         Arrive(r) \/ BanCheck(r) \/ Deceive(r) \/ Track(r) \/ TrapPage(r) \/ Leave(r)
  PROVE  /\ UNCHANGED <<page, import, miscounts>>
         /\ request'[r].at \notin {"limit", "model", "save"}
         /\ \A s \in Requests : s # r => request'[s] = request[s]
<1>1. request = [s \in Requests |-> request[s]]
  BY DEF OInv, RInv
<1>2. request[r] = Idle \/ request[r] \in Progress(r)
  BY DEF OInv, RInv, Tracked
<1>3. CASE Arrive(r)
  BY <1>1, <1>3 DEF Arrive, Arrived, SamePages
<1>4. CASE BanCheck(r)
  BY <1>1, <1>2, <1>4, IdleIsNot DEF BanCheck, Goes, At, SamePages, Progress
<1>5. CASE Deceive(r)
  BY <1>1, <1>2, <1>5, IdleIsNot DEF Deceive, At, SamePages, Progress, RecordAccess
<1>6. CASE Track(r)
  BY <1>1, <1>2, <1>6, IdleIsNot DEF Track, At, SamePages, Progress, RecordAccess
<1>7. CASE TrapPage(r)
  BY <1>1, <1>2, <1>7, IdleIsNot DEF TrapPage, At, SamePages, Progress, RecordAccess, Visit
<1>8. CASE Leave(r)
  BY <1>1, <1>8, IdleIsNot DEF Leave, SamePages
<1> QED
  BY <1>3, <1>4, <1>5, <1>6, <1>7, <1>8

(* Of the late steps, only a save that succeeds changes a page. *)
LEMMA LateKeeps ==
  ASSUME OInv, NEW r \in Requests, LateStep(r)
  PROVE  LateKnown'
<1>1. /\ request[r].at \in {"page", "lookup", "limit", "model", "save", "generate"}
      /\ Path(r) \in Pages /\ request'[r].shape = request[r].shape
      /\ request'[r].late = request[r].late \/ Lookup(r)
      /\ \A s \in Requests : s # r => request'[s] = request[s]
  BY LateMoves DEF OInv
<1>2. page' = page \/ (SavePage(r) /\ page' = Upserted(Path(r), "model"))
  BY DEF LateStep, RandomError, ShouldUseAi, Lookup, Limit, LimitUnknown,
         ModelAnswers, ModelFails, SavePage, GeneratePage, SamePages
<1>3. \A p \in Pages : page'[p].by = "operator" => page[p].by = "operator"
  <2>1. CASE page' = page
    BY <2>1
  <2>2. CASE page' = Upserted(Path(r), "model")
    <3>1. page'[Path(r)].by = "model" /\ \A p \in Pages : p # Path(r) => page'[p] = page[p]
      BY <1>1, <2>2, UpsertTyped DEF OInv, RInv
    <3> QED
      BY <3>1
  <2> QED
    BY <1>2, <2>1, <2>2
<1>4. ASSUME NEW s \in Requests, s # r, request[s].at \in {"limit", "model", "save"},
             page'[Path(s)].by = "operator"
      PROVE  request[s].late
  <2>1. Path(s) \in Pages
    BY <1>4, IdleIsNot DEF OInv, RInv, Tracked, Recorded, Caught, Path
  <2> QED
    BY <1>3, <1>4, <2>1 DEF OInv, LateKnown
<1>5. ASSUME request'[r].at \in {"limit", "model", "save"}, page'[Path(r)].by = "operator"
      PROVE  request'[r].late
  <2>1. page[Path(r)].by = "operator"
    <3>1. PICK p \in Pages : p = Path(r)
      BY <1>1
    <3>2. page'[p].by = "operator"
      BY <1>5, <3>1
    <3>3. page[p].by = "operator"
      BY <1>3, <3>2
    <3> QED
      BY <3>1, <3>3
  <2>2. CASE request[r].at \in {"limit", "model", "save"}
    <3>1. request[r].late /\ ~Lookup(r)
      BY <2>1, <2>2 DEF OInv, LateKnown, Lookup, At
    <3> QED
      BY <1>1, <3>1
  <2>3. CASE request[r].at \notin {"limit", "model", "save"}
    <3>1. request'[r].at = "limit" /\ Lookup(r)
      BY <1>5, <2>3, LateMoves DEF OInv, Limit, LimitUnknown, At
    <3> QED
      BY <2>1, <3>1, LateMoves DEF OInv, Stored
  <2> QED
    BY <2>2, <2>3
<1>6. ASSUME NEW s \in Requests, request'[s].at \in {"limit", "model", "save"},
             page'[request'[s].shape.path].by = "operator"
      PROVE  request'[s].late
  <2>1. CASE s = r
    BY <1>1, <1>5, <1>6, <2>1 DEF Path
  <2>2. CASE s # r
    BY <1>1, <1>4, <1>6, <2>2 DEF Path
  <2> QED
    BY <2>1, <2>2
<1> QED
  BY <1>6 DEF LateKnown, Path

(* Who writes p is marked when an operator writes it. *)
LEMMA MarkKeeps ==
  ASSUME OInv, NEW p \in Pages, request' = Marked(p),
         page' = Upserted(p, "operator") \/ page' = page
  PROVE  LateKnown'
<1> SUFFICES ASSUME NEW r \in Requests, request'[r].at \in {"limit", "model", "save"},
                    page'[request'[r].shape.path].by = "operator"
             PROVE  request'[r].late
  BY DEF LateKnown, Path
<1>1. /\ request[r].at = request'[r].at /\ request'[r].shape = request[r].shape
      /\ r \in Writing(p) => request'[r].late
      /\ r \notin Writing(p) => request'[r] = request[r]
  BY MarkTracked DEF OInv
<1>2. CASE r \in Writing(p)
  BY <1>1, <1>2
<1>3. CASE r \notin Writing(p)
  <2>1. Path(r) # p /\ Path(r) \in Pages
    BY <1>1, <1>3, IdleIsNot DEF Writing, OInv, RInv, Tracked, Recorded, Caught, Path
  <2>2. page[Path(r)].by = "operator"
    BY <1>1, <2>1, UpsertTyped DEF OInv, RInv, Path
  <2> QED
    BY <1>1, <1>3, <2>2 DEF OInv, LateKnown
<1> QED
  BY <1>2, <1>3

LEMMA KnownInductive == OInv /\ [Next]_vars => OInv'
<1> SUFFICES ASSUME OInv, [Next]_vars PROVE LateKnown'
  BY TrackedInductive DEF OInv
<1>1. ASSUME NEW r \in Requests, Arrive(r) \/ CodeStep(r) \/ ModelAnswers(r) PROVE LateKnown'
  <2>1. CASE LateStep(r)
    BY <2>1, LateKeeps
  <2>2. CASE ~LateStep(r)
    BY <1>1, <2>2, EarlyKeeps DEF CodeStep, LateStep, OInv, LateKnown, Path
  <2> QED
    BY <2>1, <2>2
<1>2. ASSUME NEW p \in Uploaded, Upload(p) PROVE LateKnown'
  BY <1>2, MarkKeeps, ConstantsTyped DEF Upload, Marked
<1>3. ASSUME NEW p \in Images, Import(p) PROVE LateKnown'
  BY <1>3 DEF Import, OInv, LateKnown, Path
<1>4. CASE SaveImport
  <2>1. import \in Pages
    BY <1>4, ConstantsTyped DEF SaveImport, OInv, RInv
  <2> QED
    BY <1>4, <2>1, MarkKeeps DEF SaveImport, Marked
<1>5. ASSUME request' = request,
             \A q \in Pages : page'[q].by = "operator" => page[q].by = "operator"
      PROVE  LateKnown'
  <2> SUFFICES ASSUME NEW r \in Requests, request[r].at \in {"limit", "model", "save"},
                      page'[Path(r)].by = "operator"
               PROVE  request[r].late
    BY <1>5 DEF LateKnown, Path
  <2>1. Path(r) \in Pages
    BY IdleIsNot DEF OInv, RInv, Tracked, Recorded, Caught, Path
  <2> QED
    BY <1>5, <2>1 DEF OInv, LateKnown
<1>6. CASE Delete
  BY <1>5, <1>6 DEF Delete, NoPage, OInv, RInv
<1>7. CASE Midnight
  BY <1>5, <1>7 DEF Midnight, OInv, RInv
<1>8. CASE UNCHANGED vars
  BY <1>5, <1>8 DEF vars
<1> QED
  BY <1>1, <1>2, <1>3, <1>4, <1>6, <1>7, <1>8 DEF Next

LEMMA InitKnown == Init => OInv
  BY InitTracked, IdleIsNot DEF Init, OInv, LateKnown

(* For any requests and pages, the model takes the place of an operator's page *)
(* only in a request that had looked for it before, or whose look failed       *)
(* (generate_html_for_path).                                                   *)
THEOREM OperatorsStay == Spec => OperatorsPageStays
<1>1. ASSUME OInv, [Next]_vars
      PROVE  [\A p \in Pages : page[p].by = "operator" /\ page'[p].by = "model" =>
                \E r \in Writing(p) : request[r].late /\ request'[r].at = "answered"]_vars
  <2> SUFFICES ASSUME NEW p \in Pages, page[p].by = "operator", page'[p].by = "model"
               PROVE  \E r \in Writing(p) : request[r].late /\ request'[r].at = "answered"
    OBVIOUS
  <2>0. page # page'
    OBVIOUS
  <2>1. ASSUME NEW r \in Requests, LateStep(r)
        PROVE  \E q \in Writing(p) : request[q].late /\ request'[q].at = "answered"
    <3>1. SavePage(r) /\ page' = Upserted(Path(r), "model")
      BY <2>0, <2>1 DEF LateStep, RandomError, ShouldUseAi, Lookup, Limit, LimitUnknown,
         ModelAnswers, ModelFails, SavePage, GeneratePage, SamePages
    <3>2. Path(r) \in Pages /\ request[r] \in Progress(r)
          /\ request = [q \in Requests |-> request[q]]
      BY <1>1, <2>1, LateMoves DEF OInv, RInv
    <3>3. Path(r) = p
      BY <1>1, <3>1, <3>2, UpsertTyped DEF OInv, RInv
    <3>4. r \in Writing(p) /\ request[r].late
      BY <1>1, <3>1, <3>3 DEF OInv, LateKnown, Writing, SavePage, At
    <3>5. request'[r].at = "answered"
      BY <3>1, <3>2 DEF SavePage, Goes, Progress
    <3> QED
      BY <3>4, <3>5
  <2>2. ASSUME NEW o \in Pages, page' = Upserted(o, "operator") PROVE FALSE
    <3>1. page'[o].by = "operator" /\ (o # p => page'[p] = page[p])
      BY <1>1, <2>2, UpsertTyped DEF OInv, RInv
    <3> QED
      BY <3>1
  <2>3. ASSUME NEW r \in Requests, Arrive(r) \/ CodeStep(r) \/ ModelAnswers(r)
        PROVE  \E q \in Writing(p) : request[q].late /\ request'[q].at = "answered"
    BY <1>1, <2>0, <2>1, <2>3, EarlyKeeps DEF CodeStep, LateStep
  <2>4. ASSUME NEW o \in Uploaded, Upload(o) PROVE FALSE
    BY <2>2, <2>4, ConstantsTyped DEF Upload
  <2>5. ASSUME NEW o \in Images, Import(o) PROVE FALSE
    BY <2>0, <2>5 DEF Import
  <2>6. CASE SaveImport
    <3>1. import \in Pages
      BY <1>1, <2>6, ConstantsTyped DEF SaveImport, OInv, RInv
    <3> QED
      BY <2>0, <2>2, <2>6, <3>1 DEF SaveImport
  <2>7. CASE Delete
    BY <2>7 DEF Delete, NoPage
  <2>8. CASE Midnight
    BY <1>1, <2>8 DEF Midnight, OInv, RInv
  <2>9. CASE UNCHANGED vars
    BY <2>0, <2>9 DEF vars
  <2> QED
    BY <1>1, <2>3, <2>4, <2>5, <2>6, <2>7, <2>8, <2>9 DEF Next
<1> QED
  BY <1>1, InitKnown, KnownInductive, PTL DEF Spec, OperatorsPageStays

-----------------------------------------------------------------------------
(* The requests that will write a page, and have been let to. *)
Allowed == {r \in Requests : request[r].at \in {"model", "save"}}

Granted ==
  MaxDaily > 0 =>
    Cardinality(Written) + Cardinality(Allowed) <= MaxDaily - 1 + Cardinality(Requests) + miscounts

BInv == OInv /\ Granted

LEMMA Sizes ==
  /\ IsFiniteSet(CreatedToday) /\ IsFiniteSet(Written) /\ IsFiniteSet(Allowed)
  /\ Cardinality(CreatedToday) \in Nat /\ Cardinality(Written) \in Nat
  /\ Cardinality(Allowed) \in Nat /\ Cardinality(Requests) \in Nat
  /\ Cardinality(Written) <= Cardinality(CreatedToday)
  /\ Cardinality(Allowed) <= Cardinality(Requests)
<1>1. CreatedToday \subseteq Pages /\ Written \subseteq CreatedToday /\ Allowed \subseteq Requests
  BY DEF CreatedToday, Written, Allowed
<1>2. IsFiniteSet(CreatedToday) /\ IsFiniteSet(Allowed)
  BY <1>1, FS_Subset, ConstantsTyped
<1>3. IsFiniteSet(Written) /\ Cardinality(Written) <= Cardinality(CreatedToday)
  BY <1>1, <1>2, FS_Subset
<1>4. Cardinality(Allowed) <= Cardinality(Requests)
  BY <1>1, FS_Subset, ConstantsTyped
<1> QED
  BY <1>2, <1>3, <1>4, FS_CardinalityType, ConstantsTyped

(* A step after which there are no more of either. *)
LEMMA FewerGranted ==
  ASSUME BInv, Written' \subseteq Written, Allowed' \subseteq Allowed,
         miscounts' = miscounts
  PROVE  Granted'
<1>1. /\ IsFiniteSet(Written') /\ Cardinality(Written') <= Cardinality(Written)
      /\ IsFiniteSet(Allowed') /\ Cardinality(Allowed') <= Cardinality(Allowed)
  BY Sizes, FS_Subset
<1>2. /\ Cardinality(Written') \in Nat /\ Cardinality(Allowed') \in Nat
      /\ miscounts \in Nat /\ MaxDaily \in Nat
  BY <1>1, FS_CardinalityType, ConstantsTyped DEF BInv, OInv, RInv
<1> QED
  BY <1>1, <1>2, Sizes DEF BInv, Granted

LEMMA LateGranted ==
  ASSUME BInv, NEW r \in Requests, LateStep(r)
  PROVE  Granted'
<1>0. miscounts \in Nat /\ MaxDaily \in Nat
  BY ConstantsTyped DEF BInv, OInv, RInv
<1>1. /\ \A s \in Requests : s # r => request'[s] = request[s]
      /\ request'[r].at = "model" => Limit(r) \/ LimitUnknown(r)
      /\ request'[r].at = "save" => request[r].at = "model"
  BY LateMoves DEF BInv, OInv
<1>2. CASE Limit(r) /\ request'[r].at = "model"
  <2>1. Written' = Written /\ miscounts' = miscounts
    BY <1>2 DEF Limit, SamePages, Written, CreatedToday
  <2>2. ASSUME MaxDaily > 0 PROVE Cardinality(CreatedToday) < MaxDaily
    <3>1. request = [s \in Requests |-> request[s]] /\ request[r] \in Progress(r)
      BY LateMoves DEF BInv, OInv, RInv
    <3>2. CanGenerateToday
      BY <1>2, <3>1 DEF Limit, Goes, Progress
    <3> QED
      BY <2>2, <3>2, <1>0 DEF CanGenerateToday
  <2>3. Allowed' \subseteq Requests
    BY DEF Allowed
  <2>4. Cardinality(Allowed') <= Cardinality(Requests) /\ Cardinality(Allowed') \in Nat
    BY <2>3, FS_Subset, FS_CardinalityType, ConstantsTyped
  <2> QED
    BY <1>0, <2>1, <2>2, <2>4, Sizes DEF Granted
<1>3. CASE LimitUnknown(r)
  <2>1. Written' = Written /\ miscounts' = miscounts + 1
    BY <1>3 DEF LimitUnknown, Written, CreatedToday
  <2>2. Allowed' \subseteq Allowed \cup {r}
    BY <1>1 DEF Allowed
  <2>3. /\ IsFiniteSet(Allowed \cup {r})
        /\ Cardinality(Allowed \cup {r}) <= Cardinality(Allowed) + 1
        /\ Cardinality(Allowed \cup {r}) \in Nat
    BY Sizes, FS_AddElement, FS_CardinalityType
  <2>4. Cardinality(Allowed') <= Cardinality(Allowed \cup {r}) /\ Cardinality(Allowed') \in Nat
    BY <2>2, <2>3, FS_Subset, FS_CardinalityType
  <2> QED
    BY <1>0, <2>1, <2>3, <2>4, Sizes DEF BInv, Granted
<1>4. CASE SavePage(r) /\ page' = Upserted(Path(r), "model")
  <2>1. miscounts' = miscounts /\ r \in Allowed /\ request'[r].at = "answered"
    <3>1. request = [s \in Requests |-> request[s]] /\ request[r] \in Progress(r)
      BY LateMoves DEF BInv, OInv, RInv
    <3> QED
      BY <1>4, <3>1 DEF SavePage, Goes, At, Allowed, Progress
  <2>2. Allowed' \subseteq Allowed \ {r}
    BY <1>1, <2>1 DEF Allowed
  <2>3. IsFiniteSet(Allowed \ {r}) /\ Cardinality(Allowed \ {r}) = Cardinality(Allowed) - 1
        /\ Cardinality(Allowed \ {r}) \in Nat
    BY <2>1, Sizes, FS_RemoveElement, FS_CardinalityType
  <2>4. Cardinality(Allowed') <= Cardinality(Allowed \ {r}) /\ Cardinality(Allowed') \in Nat
    BY <2>2, <2>3, FS_Subset, FS_CardinalityType
  <2>5. Path(r) \in Pages
    BY LateMoves DEF BInv, OInv
  <2>6. Written' \subseteq Written \cup {Path(r)}
    BY <1>4, <2>5, UpsertTyped DEF Written, CreatedToday, BInv, OInv, RInv
  <2>7. /\ IsFiniteSet(Written \cup {Path(r)})
        /\ Cardinality(Written \cup {Path(r)}) <= Cardinality(Written) + 1
        /\ Cardinality(Written \cup {Path(r)}) \in Nat
    <3>1. ASSUME NEW p
          PROVE  /\ IsFiniteSet(Written \cup {p}) /\ Cardinality(Written \cup {p}) \in Nat
                 /\ Cardinality(Written \cup {p}) <= Cardinality(Written) + 1
      <4>1. IsFiniteSet(Written) /\ Cardinality(Written) \in Nat
        BY Sizes
      <4>2. /\ IsFiniteSet(Written \cup {p})
            /\ \/ Cardinality(Written \cup {p}) = Cardinality(Written)
               \/ Cardinality(Written \cup {p}) = Cardinality(Written) + 1
        BY <4>1, FS_AddElement
      <4> QED
        BY <4>1, <4>2
    <3> QED
      BY <3>1
  <2>8. Cardinality(Written') <= Cardinality(Written \cup {Path(r)}) /\ Cardinality(Written') \in Nat
    BY <2>6, <2>7, FS_Subset, FS_CardinalityType
  <2> QED
    BY <1>0, <2>1, <2>3, <2>4, <2>7, <2>8, Sizes DEF BInv, Granted
<1>5. CASE /\ ~(Limit(r) /\ request'[r].at = "model") /\ ~LimitUnknown(r)
           /\ ~(SavePage(r) /\ page' = Upserted(Path(r), "model"))
  <2>1. page' = page /\ miscounts' = miscounts
    BY <1>5 DEF LateStep, RandomError, ShouldUseAi, Lookup, Limit, LimitUnknown,
       ModelAnswers, ModelFails, SavePage, GeneratePage, SamePages
  <2>2. request'[r].at \in {"model", "save"} => request[r].at = "model"
    BY <1>1, <1>5
  <2>3. Written' \subseteq Written /\ Allowed' \subseteq Allowed
    BY <1>1, <2>1, <2>2 DEF Written, CreatedToday, Allowed
  <2> QED
    BY <2>1, <2>3, FewerGranted
<1> QED
  BY <1>2, <1>3, <1>4, <1>5

LEMMA GrantedInductive == BInv /\ [Next]_vars => BInv'
<1> SUFFICES ASSUME BInv, [Next]_vars PROVE Granted'
  BY KnownInductive DEF BInv
<1>0. page \in [Pages -> [by : {"none", "model", "operator"}, today : BOOLEAN]]
  BY DEF BInv, OInv, RInv
<1>1. ASSUME NEW r \in Requests, Arrive(r) \/ CodeStep(r) \/ ModelAnswers(r) PROVE Granted'
  <2>1. CASE LateStep(r)
    BY <2>1, LateGranted
  <2>2. CASE ~LateStep(r)
    <3>1. /\ UNCHANGED <<page, miscounts>>
          /\ request'[r].at \notin {"limit", "model", "save"}
          /\ \A s \in Requests : s # r => request'[s] = request[s]
      BY <1>1, <2>2, EarlyKeeps DEF CodeStep, LateStep, BInv
    <3>2. Written' \subseteq Written /\ Allowed' \subseteq Allowed
      BY <3>1 DEF Written, CreatedToday, Allowed
    <3> QED
      BY <3>1, <3>2, FewerGranted
  <2> QED
    BY <2>1, <2>2
<1>2. ASSUME NEW p \in Pages, page' = Upserted(p, "operator") \/ page' = page,
             request' = Marked(p), miscounts' = miscounts
      PROVE  Granted'
  <2>1. Written' \subseteq Written
    <3>1. page'[p].by # "model" \/ page' = page
      BY <1>0, <1>2, UpsertTyped
    <3>2. \A o \in Pages : o # p => page'[o] = page[o]
      BY <1>0, <1>2, UpsertTyped
    <3> QED
      BY <3>1, <3>2 DEF Written, CreatedToday
  <2>2. Allowed' \subseteq Allowed
    BY <1>2, MarkTracked DEF Allowed, BInv, OInv
  <2> QED
    BY <1>2, <2>1, <2>2, FewerGranted
<1>3. ASSUME NEW p \in Uploaded, Upload(p) PROVE Granted'
  BY <1>2, <1>3, ConstantsTyped DEF Upload, Marked
<1>4. CASE SaveImport
  <2>1. import \in Pages
    BY <1>4, ConstantsTyped DEF SaveImport, BInv, OInv, RInv
  <2> QED
    BY <1>2, <1>4, <2>1 DEF SaveImport, Marked
<1>5. ASSUME UNCHANGED <<request, miscounts>>, Written' \subseteq Written PROVE Granted'
  BY <1>5, FewerGranted DEF Allowed
<1>6. ASSUME NEW p \in Images, Import(p) PROVE Granted'
  BY <1>5, <1>6 DEF Import, Written, CreatedToday
<1>7. CASE Delete
  BY <1>5, <1>7 DEF Delete, NoPage, Written, CreatedToday
<1>8. CASE Midnight
  <2>1. Written' = {} /\ Allowed' = Allowed /\ miscounts' = 0
    BY <1>0, <1>8 DEF Midnight, Written, CreatedToday, Allowed
  <2>2. Cardinality(Written') = 0
    BY <2>1, FS_EmptySet
  <2> QED
    BY <2>1, <2>2, Sizes, ConstantsTyped DEF Granted
<1>9. CASE UNCHANGED vars
  BY <1>5, <1>9 DEF vars, Written, CreatedToday
<1> QED
  BY <1>1, <1>3, <1>4, <1>6, <1>7, <1>8, <1>9 DEF Next

LEMMA InitGranted == Init => BInv
<1> SUFFICES ASSUME Init PROVE Granted
  BY InitKnown DEF BInv
<1>1. Written = {} /\ miscounts = 0
  BY DEF Init, Written, CreatedToday, NoPage
<1> QED
  BY <1>1, Sizes, FS_EmptySet, ConstantsTyped DEF Granted

(* For any requests and limit, the pages a model writes in a day exceed the  *)
(* limit by no more than the requests that counted at the same time, one     *)
(* fewer than there are, and the counts that failed (can_generate_today).    *)
THEOREM Bounded == Spec => []GenerationBounded
<1>1. BInv => GenerationBounded
  BY Sizes, ConstantsTyped DEF BInv, OInv, RInv, Granted, GenerationBounded
<1> QED
  BY <1>1, InitGranted, GrantedInductive, PTL DEF Spec
=============================================================================
