----------------------------- MODULE BanAnswers -----------------------------
(***************************************************************************)
(* What becomes of the answers of get_ban_info that Redis keeps, told with *)
(* history: BanEnforcement, with a record of the answers that a change of  *)
(* the row may have missed.                                                *)
(***************************************************************************)
EXTENDS BanEnforcement

VARIABLES
  overtaken, \* history: the workers whose answer was computed from a row that has changed
  doubtful   \* history: the IPs whose cached answer was stored like that, or outlived a
             \* change that nobody publishes

answersVars == <<vars, overtaken, doubtful>>

(* Someone is about to have the answer of ip deleted. *)
Announced(ip) ==
  \/ \E p \in Pods : operator[p].ip = ip
  \/ \E w \in Workers : worker[w].step = "publish" /\ worker[w].ip = ip

(* The answer that a lookup of ip would give has changed. *)
Changes(ip) ==
  <<IsBanned(row[ip]), AnswerTTL(row[ip])>>' # <<IsBanned(row[ip]), AnswerTTL(row[ip])>>

(* w stores its answer for ip. *)
Stores(w, ip) == Scalable /\ worker[w].ip = ip /\ FillAnswer(w)

(* A change is lost on the answer: the code deleted it before its commit or    *)
(* never does, or the one who would is stopped.                               *)
Lost(ip) ==
  \/ Changes(ip) /\ ~Announced(ip)' /\ ~Tick
  \/ \E p \in Pods : operator[p].ip = ip /\ (OperatorFails(p) \/ Restart(p))
  \/ \E w \in Workers : /\ worker[w].step = "publish" /\ worker[w].ip = ip
                        /\ RedisFails(w) \/ Restart(Pod(w))

Remember ==
  /\ overtaken' =
       {w \in Workers : /\ worker[w].step = "fill" /\ worker'[w].step = "fill"
                        /\ w \in overtaken \/ Changes(worker[w].ip)}
  /\ doubtful' =
       {ip \in Ips : /\ Cached(ip)'
                     /\ \/ Lost(ip)
                        \/ \E w \in overtaken : Stores(w, ip)
                        \/ ip \in doubtful /\ \A w \in Workers : ~Stores(w, ip)}

AnswersInit == Init /\ overtaken = {} /\ doubtful = {}
AnswersNext == Next /\ Remember
AnswersSpec == AnswersInit /\ [][AnswersNext]_answersVars

-----------------------------------------------------------------------------
(* What Redis answers for an IP is what get_ban_info would answer, through    *)
(* overrides, exemptions, bans, their backoff and their end: unless the one   *)
(* who changed it is about to delete the answer, the answer was stored by a   *)
(* lookup that the change overtook, or the change is lost on it.              *)
AnswersFollow ==
  \A ip \in Ips :
    Cached(ip) /\ ip \notin doubtful /\ ~Announced(ip)
      => answer[ip].banned = IsBanned(row[ip])
=============================================================================
