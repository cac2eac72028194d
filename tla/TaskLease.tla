----------------------------- MODULE TaskLease -----------------------------
(***************************************************************************)
(* How the replicas share one single_pod task: the lease a pod claims in   *)
(* Redis before it runs an occurrence (src/src/task_lock.py and            *)
(* src/src/tasks_master.py), the record of the last run, and the lock of   *)
(* a run started by hand from the maintenance panel                        *)
(* (src/src/routes/api.py).                                                *)
(*                                                                         *)
(* Every pod has its own scheduler.  An occurrence is the time its trigger *)
(* names, a multiple of the period; a pod fires it up to TASK_JITTER       *)
(* later.  That is a task with a cron schedule that does not also run when *)
(* it is loaded: the occurrences of an interval count from the start of    *)
(* each pod.  Time is Redis's clock, and a key whose expiry is in the past *)
(* is gone.                                                                *)
(***************************************************************************)
EXTENDS Integers, FiniteSets

CONSTANTS
  Pods,        \* the replicas
  Period,      \* seconds between two occurrences (_trigger_period)
  TaskJitter,  \* TASK_JITTER: how late a pod may fire an occurrence
  Slack,       \* the 5 seconds of _lease_seconds
  RunLockTTL,  \* _RUN_LOCK_TTL, of the lock of a manual run
  MaxRun,      \* bound: how long a manual run may take, longer than its lock or not
  Horizon      \* bound: where the clock stops

Smaller(m, n) == IF m < n THEN m ELSE n
Larger(m, n) == IF m > n THEN m ELSE n

TaskTimesAssumption ==
  /\ {Period, Slack, RunLockTTL} \subseteq Nat \ {0}
  /\ {TaskJitter, MaxRun, Horizon} \subseteq Nat
ASSUME TaskTimesAssumption

VARIABLES
  clock,
  lease,      \* when the lease of the job expires
  lock,       \* when the lock of the manual run expires
  reachable,  \* Redis answers
  up,         \* up[p]: the scheduler of p runs
  due,        \* due[p]: the occurrence p fires next
  at,         \* at[p]: when p fires it
  running,    \* running[p]: p is in the task's main(), started by its scheduler
  byHand,     \* byHand[p]: when p started the manual run it is in, or Idle
  lastRun,    \* the last_run key: the pod it names, or Nobody
  started,    \* history: who started which occurrence, and when
  fired,      \* history: the occurrences of which a pod asked for the lease
  lapsed      \* history: a manual run has outlived its lock, and there has been
              \* one under way ever since

leaseVars ==
  <<clock, lease, lock, reachable, up, due, at, running, byHand, lastRun, started, fired, lapsed>>

Idle == -1
Nobody == "nobody"

LeaseTypeOK ==
  /\ clock \in Nat
  /\ lease \in Nat /\ lock \in Nat
  /\ reachable \in BOOLEAN
  /\ up \in [Pods -> BOOLEAN]
  /\ due \in [Pods -> Nat]
  /\ at \in [Pods -> Nat]
  /\ running \in [Pods -> BOOLEAN]
  /\ byHand \in [Pods -> Nat \cup {Idle}]
  /\ lastRun \in Pods \cup {Nobody}
  /\ started \in SUBSET [pod : Pods, occurrence : Nat, time : Nat]
  /\ fired \in SUBSET Nat /\ lapsed \in BOOLEAN

-----------------------------------------------------------------------------
(* A bug: the lease lasts until the next occurrence. *)
WholePeriod == Period

(* _lease_seconds. *)
LeaseSeconds == Smaller(Larger(Period - Slack, Slack), 2 * TaskJitter)

(* The trigger's first occurrence after time t. *)
NextOccurrence(t) == (t \div Period + 1) * Period

(* The scheduler of p plans occurrence o. *)
Plan(p, o) ==
  /\ due' = [due EXCEPT ![p] = o]
  /\ \E late \in 0 .. TaskJitter : at' = [at EXCEPT ![p] = o + late]

LeaseInit ==
  /\ clock = 0 /\ lease = 0 /\ lock = 0 /\ reachable = TRUE
  /\ up = [p \in Pods |-> TRUE]
  /\ due = [p \in Pods |-> NextOccurrence(0)]
  /\ at \in [Pods -> NextOccurrence(0) .. NextOccurrence(0) + TaskJitter]
  /\ running = [p \in Pods |-> FALSE]
  /\ byHand = [p \in Pods |-> Idle]
  /\ lastRun = Nobody
  /\ started = {} /\ fired = {} /\ lapsed = FALSE

(* p fires, and plans what comes after. *)
Fires(p) ==
  /\ up[p]
  /\ at[p] = clock
  /\ Plan(p, NextOccurrence(clock))
  /\ UNCHANGED <<clock, lock, reachable, up, byHand, lapsed>>

(* _guarded: claim() sets the key with NX and EX, and p runs the task. *)
Claim(p) ==
  /\ Fires(p)
  /\ ~running[p] /\ reachable
  /\ lease <= clock
  /\ lease' = clock + LeaseSeconds
  /\ running' = [running EXCEPT ![p] = TRUE]
  /\ started' = started \cup {[pod |-> p, occurrence |-> due[p], time |-> clock]}
  /\ fired' = fired \cup {due[p]}
  /\ UNCHANGED lastRun

(* _guarded: the key is there, and p skips.  The job has completed all the   *)
(* same, so job_listener records a run.                                      *)
Skip(p) ==
  /\ Fires(p)
  /\ ~running[p] /\ reachable
  /\ lease > clock
  /\ lastRun' = p
  /\ fired' = fired \cup {due[p]}
  /\ UNCHANGED <<lease, running, started>>

(* Redis does not answer, claim() raises and the job fails unrun; or the last *)
(* run of p is not over, and max_instances = 1 makes the scheduler pass.     *)
Miss(p) ==
  /\ Fires(p)
  /\ running[p] \/ ~reachable
  /\ UNCHANGED <<lease, running, lastRun, started, fired>>

(* A bug: the lease taken for a mutex, and released when the work is done. *)
FinishReleases(p) ==
  /\ running[p]
  /\ running' = [running EXCEPT ![p] = FALSE]
  /\ lease' = IF reachable THEN 0 ELSE lease
  /\ lastRun' = IF reachable THEN p ELSE lastRun
  /\ UNCHANGED <<clock, lock, reachable, up, due, at, byHand, started, fired, lapsed>>

(* main() returns or raises; job_listener records the run if it can. *)
Finish(p) ==
  /\ running[p]
  /\ running' = [running EXCEPT ![p] = FALSE]
  /\ lastRun' = IF reachable THEN p ELSE lastRun
  /\ UNCHANGED <<clock, lease, lock, reachable, up, due, at, byHand, started, fired, lapsed>>

-----------------------------------------------------------------------------
(* A bug: the claim is made inside the try, so a refused run releases the key. *)
RunNowReleases(p) ==
  /\ up[p]
  /\ byHand[p] = Idle
  /\ reachable
  /\ lock' = IF lock <= clock THEN clock + RunLockTTL ELSE 0
  /\ byHand' = IF lock <= clock THEN [byHand EXCEPT ![p] = clock] ELSE byHand
  /\ UNCHANGED <<clock, lease, reachable, up, due, at, running, lastRun, started, fired, lapsed>>

(* run_task: claim the task's name, or answer 409.  At most one on each pod:   *)
(* the key makes no difference between pods.                                 *)
RunNow(p) ==
  /\ up[p]
  /\ byHand[p] = Idle
  /\ reachable
  /\ lock <= clock
  /\ lock' = clock + RunLockTTL
  /\ byHand' = [byHand EXCEPT ![p] = clock]
  /\ UNCHANGED <<clock, lease, reachable, up, due, at, running, lastRun, started, fired, lapsed>>

(* The run of p is over: a lapse ends with the last run under way. *)
LapseEnds(p) == lapsed' = (lapsed /\ \E q \in Pods \ {p} : byHand[q] # Idle)

(* The finally of run_task: the key is deleted, whoever holds it.  When Redis *)
(* does not answer it stays until it expires.                                *)
RunNowEnds(p) ==
  /\ byHand[p] # Idle
  /\ byHand' = [byHand EXCEPT ![p] = Idle]
  /\ lock' = IF reachable THEN 0 ELSE lock
  /\ LapseEnds(p)
  /\ UNCHANGED <<clock, lease, reachable, up, due, at, running, lastRun, started, fired>>

-----------------------------------------------------------------------------
(* A pod dies with the runs it is in; what it claimed stays claimed. *)
Crash(p) ==
  /\ up[p]
  /\ up' = [up EXCEPT ![p] = FALSE]
  /\ running' = [running EXCEPT ![p] = FALSE]
  /\ byHand' = [byHand EXCEPT ![p] = Idle]
  /\ LapseEnds(p)
  /\ UNCHANGED <<clock, lease, lock, reachable, due, at, lastRun, started, fired>>

(* It starts again, and its scheduler plans the next occurrence. *)
Restart(p) ==
  /\ ~up[p]
  /\ up' = [up EXCEPT ![p] = TRUE]
  /\ Plan(p, NextOccurrence(clock))
  /\ UNCHANGED <<clock, lease, lock, reachable, running, byHand, lastRun, started, fired, lapsed>>

(* Redis becomes unreachable, or reachable again; it keeps its keys. *)
Network ==
  /\ reachable' = ~reachable
  /\ UNCHANGED <<clock, lease, lock, up, due, at, running, byHand, lastRun, started, fired, lapsed>>

(* Time passes, when no pod has an occurrence to fire now. *)
Tick ==
  /\ clock < Horizon
  /\ \A p \in Pods : up[p] => at[p] > clock
  /\ \A p \in Pods : byHand[p] # Idle => clock - byHand[p] < MaxRun
  /\ clock' = clock + 1
  /\ lapsed' = (lapsed \/ \E p \in Pods : byHand[p] # Idle /\ byHand[p] + RunLockTTL <= clock')
  /\ UNCHANGED <<lease, lock, reachable, up, due, at, running, byHand, lastRun, started, fired>>

PodStep(p) ==
  \/ Claim(p) \/ Skip(p) \/ Miss(p) \/ Finish(p)
  \/ RunNow(p) \/ RunNowEnds(p)
  \/ Crash(p) \/ Restart(p)

LeaseNext == (\E p \in Pods : PodStep(p)) \/ Network \/ Tick

LeaseSpec == LeaseInit /\ [][LeaseNext]_leaseVars

-----------------------------------------------------------------------------
(* The lease "must outlast TASK_JITTER, or a pod firing late runs the same   *)
(* occurrence a second time": no occurrence is started by two pods, nor twice *)
(* by one.                                                                   *)
OncePerOccurrence ==
  \A r, s \in started : r.occurrence = s.occurrence => r = s

(* The lease "must expire before the next occurrence, or it blocks that one  *)
(* too": an occurrence for which a pod asked for the lease has been started, *)
(* whoever died since, so a pod only skips what another one does.            *)
NoneSkipped ==
  \A o \in fired : \E r \in started : r.occurrence = o

(* "A second click must not start it twice" (src/src/routes/api.py:1688): at  *)
(* most one manual run of the task is under way in the cluster.  A run that   *)
(* outlives its lock lets another one in, and at its end deletes whatever     *)
(* lock is there by then; that is over when no manual run is left, without    *)
(* anything to repair.                                                       *)
OneManualRun ==
  \A p, q \in Pods : byHand[p] # Idle /\ byHand[q] # Idle => p = q \/ lapsed
=============================================================================
