---------------------------- MODULE TrapRequests ----------------------------
(***************************************************************************)
(* A request to the honeypot, from the edge to its answer, and the pages   *)
(* that a model writes for it: the middlewares in the order they wrap the  *)
(* application (src/src/app.py), the recording dependency and the handlers *)
(* of src/src/routes/honeypot.py, src/src/generative_ai.py, and what       *)
(* operators do to the stored pages (src/src/routes/api.py).               *)
(*                                                                         *)
(* A request is a sequence of steps cut where the code awaits or calls the *)
(* database; requests of other pods fall between them.  Of its text only   *)
(* what the detectors make of it is kept: whether its path is a trap (it   *)
(* matches an attack pattern or is a path of the honeypot), whether its    *)
(* body attacks, and whether the deception middleware answers it.  Banning *)
(* is BanEnforcement's, storing a record WriteBuffer's.                    *)
(***************************************************************************)
EXTENDS Integers, FiniteSets

CONSTANTS
  Requests,      \* bound: the requests under way at the same time, on all pods
  Shapes,        \* Shapes[r]: the requests that may come as r, without their progress
  Pages,         \* the paths of the catch-all route
  Traps,         \* the paths that match an attack pattern or are honeypot paths
  NeverWritten,  \* the root, the generated links, the exact paths of robots.txt
  Uploaded,      \* bound: the paths operators upload pages for
  Images,        \* the paths of the pages that come with the image
  AiUsable,      \* ai_enabled, with an API key and a valid prompt
  MaxDaily,      \* ai_max_daily_requests; 0 is no limit
  CanaryTries,   \* canary_token_tries
  MaxMiscounts   \* bound: the counts of today's pages that fail in a day

Verbs == {"GET", "POST", "HEAD"}
Clients == {"stranger", "own", "ignored"}
AllShapes == UNION {Shapes[r] : r \in Requests}

(* A path outside Pages has a handler of its own, or is one of WordPress, which *)
(* trap_page answers at once.                                                   *)
TrapAssumption ==
  /\ \A s \in AllShapes : /\ s.verb \in Verbs /\ s.client \in Clients
                          /\ {s.deceives, s.attacks} \subseteq BOOLEAN
  /\ NeverWritten \cup Uploaded \cup Images \subseteq Pages
  /\ AiUsable \in BOOLEAN
  /\ {MaxDaily, CanaryTries, MaxMiscounts} \subseteq Nat
  /\ IsFiniteSet(Requests) /\ Requests # {} /\ IsFiniteSet(Pages)
ASSUME TrapAssumption

VARIABLES
  request,    \* request[r]: where a request stands and what was done for it
  page,       \* page[p]: the row of generated_pages: who wrote it, and whether
              \* it was created today
  counter,    \* app.state.counter: the pages until the canary link
  import,     \* the path whose page a starting pod is about to import
  miscounts   \* history: the counts of today's pages that failed today

vars == <<request, page, counter, import, miscounts>>

NoPage == [by |-> "none", today |-> FALSE]
Nothing == "nothing"

Places ==
  {"ban", "deception", "routed", "trap", "page", "lookup", "limit", "model",
   "save", "generate", "answered", "refused"}

(* recorded, visits: the access records and the page visits the request caused. *)
(* late: an operator wrote its page since the look for it found none, or the    *)
(* look failed.                                                                 *)
Idle == [at |-> "idle"]
Arrived(s) ==
  [at |-> IF s.client = "ignored" THEN "refused" ELSE "ban", shape |-> s,
   recorded |-> 0, visits |-> 0, late |-> FALSE]

TypeOK ==
  /\ \A r \in Requests :
       \/ request[r] = Idle
       \/ request[r] \in [at : Places, shape : Shapes[r], recorded : 0 .. 1, visits : 0 .. 1, late : BOOLEAN]
  /\ page \in [Pages -> [by : {"none", "model", "operator"}, today : BOOLEAN]]
  /\ counter \in 0 .. CanaryTries
  /\ import \in Images \cup {Nothing}
  /\ miscounts \in 0 .. MaxMiscounts

Init ==
  /\ request = [r \in Requests |-> Idle]
  /\ page = [p \in Pages |-> NoPage]
  /\ counter = CanaryTries
  /\ import = Nothing
  /\ miscounts = 0

-----------------------------------------------------------------------------
Path(r) == request[r].shape.path
At(r, place) == request[r].at = place

Goes(r, place) == request' = [request EXCEPT ![r].at = place]

SamePages == UNCHANGED <<page, import, miscounts>>

(* record_access: nothing for an ignored address or the server's own.  Whatever *)
(* becomes of the record, the request has caused it.                            *)
RecordAccess(q) ==
  IF q.shape.client = "stranger" THEN [q EXCEPT !.recorded = @ + 1] ELSE q

(* increment_page_visit, within the record's transaction or in one of its own. *)
Visit(q) ==
  IF q.shape.client = "stranger" THEN [q EXCEPT !.visits = @ + 1] ELSE q

(* DropIgnoredMiddleware answers an ignored address from the scope. *)
Arrive(r) ==
  /\ request[r] = Idle
  /\ \E s \in Shapes[r] : request' = [request EXCEPT ![r] = Arrived(s)]
  /\ SamePages /\ UNCHANGED counter

(* BanCheckMiddleware: the connection is closed on a banned address. *)
BanCheck(r) ==
  /\ At(r, "ban")
  /\ \/ Goes(r, "refused")
     \/ Goes(r, "deception")
  /\ SamePages /\ UNCHANGED counter

(* DeceptionMiddleware: what it answers itself it records itself, and the *)
(* router never sees it.                                                  *)
Deceive(r) ==
  /\ At(r, "deception")
  /\ request' = [request EXCEPT ![r] =
       IF @.shape.deceives THEN [RecordAccess(@) EXCEPT !.at = "answered"]
       ELSE [@ EXCEPT !.at = "routed"]]
  /\ SamePages /\ UNCHANGED counter

(* What makes the router's dependency record a request: its path, or its body. *)
Suspect(s) == s.path \in Traps \/ (s.verb = "POST" /\ s.attacks)

(* The GETs with a handler, or a page, of their own only answer; the others are *)
(* caught by trap_page.                                                         *)
Caught(s) == s.verb = "GET" /\ s.path \in Pages

(* _track_honeypot_request, and the handlers that only answer: HEAD, the forms *)
(* and the SQL endpoints of POST, the capture of credentials (of which no      *)
(* access is recorded).                                                        *)
Track(r) ==
  LET s == request[r].shape
  IN  /\ At(r, "routed")
      /\ request' = [request EXCEPT ![r] =
           [(IF Suspect(s) THEN RecordAccess(@) ELSE @) EXCEPT
              !.at = IF Caught(s) THEN "trap" ELSE "answered"]]
      /\ SamePages /\ UNCHANGED counter

(* A bug: the page visit of a trap is recorded as another access. *)
TrapPageRecords(r) ==
  /\ At(r, "trap")
  /\ request' = [request EXCEPT ![r] = [Visit(RecordAccess(@)) EXCEPT !.at = "page"]]
  /\ SamePages /\ UNCHANGED counter

(* trap_page counts the visit, and records the access if the dependency did not. *)
TrapPage(r) ==
  /\ At(r, "trap")
  /\ request' = [request EXCEPT ![r] =
       [Visit(IF Path(r) \in Traps THEN @ ELSE RecordAccess(@)) EXCEPT !.at = "page"]]
  /\ SamePages /\ UNCHANGED counter

(* _should_return_error. *)
RandomError(r) ==
  /\ At(r, "page")
  /\ Goes(r, "answered")
  /\ SamePages /\ UNCHANGED counter

-----------------------------------------------------------------------------
(* The page of the request, if there is one; the query may fail. *)
Stored(p) == page[p].by # "none"

(* should_use_ai_for_path: a stored page is served whatever the configuration; *)
(* for others a look that fails has found none.                                *)
ShouldUseAi(r) ==
  LET wanted == AiUsable /\ Path(r) \notin NeverWritten
  IN  /\ At(r, "page")
      /\ \/ Goes(r, IF Stored(Path(r)) \/ wanted THEN "lookup" ELSE "generate")
         \/ Stored(Path(r)) /\ Goes(r, IF wanted THEN "lookup" ELSE "generate")
      /\ SamePages /\ UNCHANGED counter

(* A bug: the model is asked although the page is there. *)
LookupIgnored(r) ==
  /\ At(r, "lookup")
  /\ Goes(r, IF AiUsable THEN "limit" ELSE "generate")
  /\ SamePages /\ UNCHANGED counter

(* generate_html_for_path looks for the page once more. *)
Lookup(r) ==
  LET absent == IF AiUsable THEN "limit" ELSE "generate"
  IN  /\ At(r, "lookup")
      /\ \/ Goes(r, IF Stored(Path(r)) THEN "answered" ELSE absent)
         \/ /\ Stored(Path(r))
            /\ request' = [request EXCEPT ![r].at = absent, ![r].late = TRUE]
      /\ SamePages /\ UNCHANGED counter

CreatedToday == {p \in Pages : page[p].today}

(* A bug: one page more. *)
CanGenerateOneMore == MaxDaily = 0 \/ Cardinality(CreatedToday) <= MaxDaily

(* can_generate_today.  The count is of every page stored today, uploads and *)
(* imports as well.                                                          *)
CanGenerateToday == MaxDaily = 0 \/ Cardinality(CreatedToday) < MaxDaily

Limit(r) ==
  /\ At(r, "limit")
  /\ Goes(r, IF CanGenerateToday THEN "model" ELSE "generate")
  /\ SamePages /\ UNCHANGED counter

(* count_created_today answers 0 when the query fails. *)
LimitUnknown(r) ==
  /\ At(r, "limit")
  /\ miscounts < MaxMiscounts
  /\ miscounts' = miscounts + 1
  /\ Goes(r, "model")
  /\ UNCHANGED <<page, import, counter>>

ModelAnswers(r) ==
  /\ At(r, "model")
  /\ Goes(r, "save")
  /\ SamePages /\ UNCHANGED counter

(* A bug: a failed call is made again. *)
ModelIsAskedAgain(r) ==
  /\ At(r, "model")
  /\ Goes(r, "limit")
  /\ SamePages /\ UNCHANGED counter

(* _call_api: an error, an unreadable answer, or the timeout of the call.  The *)
(* shield has kept the call going if the client left meanwhile, and then there *)
(* is nobody to generate another page for.                                     *)
ModelFails(r) ==
  /\ At(r, "model")
  /\ \/ Goes(r, "generate")
     \/ Goes(r, "answered")
  /\ SamePages /\ UNCHANGED counter

(* What an upsert makes of a row: only a new one is created today. *)
Upserted(p, who) ==
  [page EXCEPT ![p] = IF Stored(p) THEN [@ EXCEPT !.by = who] ELSE [by |-> who, today |-> TRUE]]

(* save_generated_page_to_db.  A save that fails, or that another pod's insert *)
(* overtakes, is logged, and the answer is served all the same.                *)
SavePage(r) ==
  /\ At(r, "save")
  /\ \/ page' = Upserted(Path(r), "model")
     \/ UNCHANGED page
  /\ Goes(r, "answered")
  /\ UNCHANGED <<counter, import, miscounts>>

(* A bug: the counter does not start over. *)
CanaryRunsOut(r) ==
  /\ At(r, "generate")
  /\ counter' = counter - 1
  /\ Goes(r, "answered")
  /\ SamePages

(* After the delay and the tarpit, _generate_page makes up a page, and the *)
(* counter of the canary goes round on the event loop.                     *)
GeneratePage(r) ==
  /\ At(r, "generate")
  /\ counter' = IF counter = 0 THEN CanaryTries ELSE counter - 1
  /\ Goes(r, "answered")
  /\ SamePages

Leave(r) ==
  /\ request[r].at \in {"answered", "refused"}
  /\ request' = [request EXCEPT ![r] = Idle]
  /\ SamePages /\ UNCHANGED counter

-----------------------------------------------------------------------------
(* Requests between the look for page p and its save. *)
Writing(p) ==
  {r \in Requests : request[r].at \in {"limit", "model", "save"} /\ Path(r) = p}

(* upload_generated_page: an upsert, which no limit holds back. *)
Upload(p) ==
  /\ page' = Upserted(p, "operator")
  /\ request' = [r \in Requests |->
       IF r \in Writing(p) THEN [request[r] EXCEPT !.late = TRUE] ELSE request[r]]
  /\ UNCHANGED <<counter, import, miscounts>>

(* delete_generated_pages: all of them, those of the days before, or chosen ones. *)
Delete ==
  /\ \E gone \in {Pages, Pages \ CreatedToday} \cup {{p} : p \in Pages} :
       page' = [p \in Pages |-> IF p \in gone THEN NoPage ELSE page[p]]
  /\ UNCHANGED <<request, counter, import, miscounts>>

(* import_deception_pages_from_directory, at startup: files whose path has no *)
(* page, or for which the look fails.                                         *)
Import(p) ==
  /\ import = Nothing
  /\ import' = p
  /\ ~Stored(p)
  /\ UNCHANGED <<request, page, counter, miscounts>>

(* The page is an operator's as much as an uploaded one. *)
SaveImport ==
  /\ import # Nothing
  /\ \/ page' = Upserted(import, "operator")
     \/ UNCHANGED page
  /\ request' = [r \in Requests |->
       IF r \in Writing(import) THEN [request[r] EXCEPT !.late = TRUE] ELSE request[r]]
  /\ import' = Nothing
  /\ UNCHANGED <<counter, miscounts>>

Midnight ==
  /\ page' = [p \in Pages |-> [page[p] EXCEPT !.today = FALSE]]
  /\ miscounts' = 0
  /\ UNCHANGED <<request, counter, import>>

CodeStep(r) ==
  \/ BanCheck(r) \/ Deceive(r) \/ Track(r) \/ TrapPage(r) \/ RandomError(r)
  \/ ShouldUseAi(r) \/ Lookup(r) \/ Limit(r) \/ LimitUnknown(r)
  \/ ModelFails(r) \/ SavePage(r) \/ GeneratePage(r)
  \/ Leave(r)

Next ==
  \/ \E r \in Requests : Arrive(r) \/ CodeStep(r) \/ ModelAnswers(r)
  \/ \E p \in Uploaded : Upload(p)
  \/ \E p \in Images : Import(p)
  \/ SaveImport \/ Delete \/ Midnight

(* The event loop and the worker threads run, and the call to the model has a *)
(* timeout, so that CodeStep(r) is enabled as long as r is under way: this is *)
(* WF_vars(CodeStep(r)), spelt out.                                           *)
Fairness ==
  \A r \in Requests : []<>(request[r] = Idle) \/ []<><<CodeStep(r)>>_vars

Spec == Init /\ [][Next]_vars /\ Fairness

-----------------------------------------------------------------------------
(* A request is recorded once at most, whichever of the middleware, the        *)
(* dependency and trap_page sees it, and a visit counted once; and one that    *)
(* shows an attack to any of them is recorded, unless it is refused or comes   *)
(* from an address that is not tracked (comment at                             *)
(* src/src/routes/honeypot.py:423).                                            *)
RecordedOnce ==
  \A r \in Requests : request[r] # Idle =>
    /\ request[r].recorded <= 1 /\ request[r].visits <= 1
    /\ LET s == request[r].shape
           attack == s.deceives \/ s.path \in Traps \/ (s.verb = "POST" /\ s.attacks)
       IN  At(r, "answered") /\ s.client = "stranger" /\ attack => request[r].recorded = 1

Written == {p \in CreatedToday : page[p].by = "model"}

(* The daily limit is overshot by no more than the requests that were counting *)
(* at the same time, one fewer than there are, and the counts that failed      *)
(* (src/src/generative_ai.py, can_generate_today).                             *)
GenerationBounded ==
  MaxDaily > 0 => Cardinality(Written) <= MaxDaily - 1 + Cardinality(Requests) + miscounts

(* The model does not write over a page an operator gave, unless the request  *)
(* had looked for the page before the operator wrote it, or its look failed   *)
(* (src/src/generative_ai.py, generate_html_for_path).                        *)
OperatorsPageStays ==
  [][\A p \in Pages : page[p].by = "operator" /\ page'[p].by = "model" =>
       \E r \in Writing(p) : request[r].late /\ request'[r].at = "answered"]_vars

(* Every request is answered, though a model may never answer. *)
AllAnswered == \A r \in Requests : request[r] # Idle ~> request[r] = Idle
=============================================================================
