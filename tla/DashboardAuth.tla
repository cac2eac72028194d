--------------------------- MODULE DashboardAuth ---------------------------
(***************************************************************************)
(* Logins to the dashboard: the attempts of one address, its doubling       *)
(* lockouts, and the sessions (src/src/auth_store.py, and authenticate,     *)
(* logout and verify_auth of src/src/routes/api.py).                        *)
(*                                                                          *)
(* A pod handles a login on its event loop and never yields between reading *)
(* the record and writing it, so there is one login at a time on a pod and  *)
(* as many as there are pods; in standalone mode there is one pod, and the  *)
(* store dies with it.  Times are remaining times, in a unit that divides   *)
(* those of the code.                                                       *)
(***************************************************************************)
EXTENDS Integers, FiniteSets

CONSTANTS
  Pods,
  Shared,        \* deployment mode is scalable: the store is in Redis
  MaxAttempts,   \* _AUTH_MAX_ATTEMPTS
  BaseLockout,   \* _AUTH_BASE_LOCKOUT
  AttemptTTL,    \* ATTEMPT_TTL
  Margin,        \* what save_attempts adds to a lockout: 60 seconds
  MaxLockouts,   \* bound: how often in a row the address may be locked out
  Tokens,        \* bound: the tokens of sessions that live at the same time
  SessionTTL     \* SESSION_TTL

AuthAssumption ==
  /\ Shared \in BOOLEAN
  /\ ~Shared => IsFiniteSet(Pods) /\ Cardinality(Pods) = 1
  /\ {MaxAttempts, BaseLockout, AttemptTTL, Margin, MaxLockouts, SessionTTL} \subseteq Nat \ {0}
ASSUME AuthAssumption

VARIABLES
  record,   \* what the store has of the address: attempts, locked (what is left
            \* of the lockout), lockouts, and what is left of its own life, ttl
  login,    \* login[p]: the login p handles: free, wrong, right or cleared, with
            \* the record it read
  sessions, \* sessions[t]: what is left of the session with token t, 0 without one
  lockout,  \* history: what is left of the longest lockout imposed since the
            \* address last got in, whatever became of the record of it
  guesses,  \* history: the failures written since the record was started
  elapsed,  \* history: the time since then, up to MaxElapsed
  crossed   \* history: a login has written a record that another wrote since it read

vars == <<record, login, sessions, lockout, guesses, elapsed, crossed>>

Lockout(n) == BaseLockout * 2 ^ n

(* Powers of two are numbers that double: arithmetic the provers lack. *)
PowersAssumption ==
  \A n \in 0 .. MaxLockouts :
    /\ 2 ^ n \in Nat \ {0}
    /\ n < MaxLockouts => 2 ^ (n + 1) = 2 * 2 ^ n
    /\ \A m \in 0 .. n : 2 ^ m <= 2 ^ n
ASSUME PowersAssumption

MaxElapsed == Lockout(MaxLockouts)
MaxGuesses == MaxAttempts * MaxLockouts

NoRecord == [attempts |-> 0, locked |-> 0, lockouts |-> 0, ttl |-> 0]
Free == [at |-> "free", read |-> NoRecord, stale |-> FALSE]

Records ==
  [attempts : 0 .. MaxAttempts - 1, locked : 0 .. MaxElapsed, lockouts : 0 .. MaxLockouts,
   ttl : 0 .. AttemptTTL + MaxElapsed + Margin]

TypeOK ==
  /\ record \in Records
  /\ login \in [Pods -> [at : {"free", "wrong", "right", "cleared"}, read : Records, stale : BOOLEAN]]
  /\ sessions \in [Tokens -> 0 .. SessionTTL]
  /\ lockout \in 0 .. MaxElapsed
  /\ guesses \in 0 .. MaxGuesses
  /\ elapsed \in 0 .. MaxElapsed
  /\ crossed \in BOOLEAN

Init ==
  /\ record = NoRecord
  /\ login = [p \in Pods |-> Free]
  /\ sessions = [t \in Tokens |-> 0]
  /\ lockout = 0 /\ guesses = 0 /\ elapsed = 0 /\ crossed = FALSE

Larger(a, b) == IF a > b THEN a ELSE b
Less(a) == IF a > 0 THEN a - 1 ELSE 0

-----------------------------------------------------------------------------
(* get_attempts: the record, while it lives. *)
GetAttempts == IF record.ttl > 0 THEN record ELSE NoRecord

(* p is done with the record, which the others in flight have not read. *)
Overtaken(p) ==
  [q \in Pods |-> IF q = p THEN Free
                  ELSE [login[q] EXCEPT !.stale = login[q].at # "free"]]

(* authenticate: a locked-out address is answered at once, and nothing changes. *)
(* Any other has its password compared.                                         *)
Compare(p, at) ==
  /\ login[p] = Free
  /\ GetAttempts.locked = 0 /\ GetAttempts.lockouts < MaxLockouts
  /\ login' = [login EXCEPT ![p] = [at |-> at, stale |-> FALSE,
                                    read |-> [GetAttempts EXCEPT !.ttl = 0]]]
  /\ UNCHANGED <<record, sessions, lockout, guesses, elapsed, crossed>>

(* A bug: a record with a lockout lives as long as any other. *)
SaveAttemptsForAnHour(r) == [r EXCEPT !.ttl = AttemptTTL]

(* save_attempts: the record lives for an hour, or longer than its lockout. *)
SaveAttempts(r) == [r EXCEPT !.ttl = Larger(AttemptTTL, r.locked + Margin)]

(* A bug: every lockout is as long as the first. *)
FailedFlat(r) ==
  IF r.attempts + 1 >= MaxAttempts
  THEN [r EXCEPT !.attempts = 0, !.locked = BaseLockout, !.lockouts = @ + 1]
  ELSE [r EXCEPT !.attempts = @ + 1]

(* The record after one more failure: at the last attempt the address is locked *)
(* out, twice as long as the time before.                                       *)
Failed(r) ==
  IF r.attempts + 1 >= MaxAttempts
  THEN [r EXCEPT !.attempts = 0, !.locked = Lockout(r.lockouts), !.lockouts = @ + 1]
  ELSE [r EXCEPT !.attempts = @ + 1]

(* The failed login writes the record it read, counted up. *)
WriteFailure(p) ==
  /\ login[p].at = "wrong"
  /\ record' = SaveAttempts(Failed(login[p].read))
  /\ lockout' = Larger(lockout, record'.locked)
  /\ crossed' = (crossed \/ login[p].stale)
  /\ LET first == login[p].read = NoRecord /\ GetAttempts = NoRecord
     IN  /\ guesses' = IF first THEN 1 ELSE IF guesses < MaxGuesses THEN guesses + 1 ELSE guesses
         /\ elapsed' = IF first THEN 0 ELSE elapsed
  /\ login' = Overtaken(p)
  /\ UNCHANGED sessions

(* clear_attempts: the address got in. *)
ClearAttempts(p) ==
  /\ login[p].at = "right"
  /\ record' = NoRecord
  /\ lockout' = 0 /\ guesses' = 0 /\ elapsed' = 0
  /\ crossed' = (crossed \/ login[p].stale)
  /\ login' = [Overtaken(p) EXCEPT ![p] = [login[p] EXCEPT !.at = "cleared"]]
  /\ UNCHANGED sessions

(* create_session, with a token of its own. *)
CreateSession(p) ==
  /\ login[p].at = "cleared"
  /\ \E t \in Tokens :
       /\ sessions[t] = 0
       /\ sessions' = [sessions EXCEPT ![t] = SessionTTL]
  /\ login' = [login EXCEPT ![p] = Free]
  /\ UNCHANGED <<record, lockout, guesses, elapsed, crossed>>

(* is_valid_session, which guards every protected route. *)
Valid(t) == sessions[t] > 0

(* destroy_session: the logout of one without a session changes nothing. *)
Logout(t) ==
  /\ Valid(t)
  /\ sessions' = [sessions EXCEPT ![t] = 0]
  /\ UNCHANGED <<record, login, lockout, guesses, elapsed, crossed>>

(* A call of the store raises, or the pod dies.  In standalone mode the store *)
(* dies with the pod, and everything starts over.                             *)
Restart(p) ==
  /\ login[p] # Free \/ ~Shared
  /\ login' = [login EXCEPT ![p] = Free]
  /\ IF Shared THEN UNCHANGED <<record, sessions, lockout, guesses, elapsed, crossed>>
     ELSE /\ record' = NoRecord /\ sessions' = [t \in Tokens |-> 0]
          /\ lockout' = 0 /\ guesses' = 0 /\ elapsed' = 0 /\ crossed' = FALSE

(* Time passes.  What expires is gone. *)
Tick ==
  /\ record' = IF record.ttl <= 1 THEN NoRecord
               ELSE [record EXCEPT !.ttl = @ - 1, !.locked = Less(@)]
  /\ sessions' = [t \in Tokens |-> Less(sessions[t])]
  /\ lockout' = Less(lockout)
  /\ elapsed' = IF elapsed < MaxElapsed THEN elapsed + 1 ELSE elapsed
  /\ UNCHANGED <<login, guesses, crossed>>

LoginStep(p) ==
  \/ Compare(p, "wrong") \/ Compare(p, "right")
  \/ WriteFailure(p) \/ ClearAttempts(p) \/ CreateSession(p)

Next ==
  \/ \E p \in Pods : LoginStep(p) \/ Restart(p)
  \/ \E t \in Tokens : Logout(t)
  \/ Tick

Spec == Init /\ [][Next]_vars

-----------------------------------------------------------------------------
(* A lockout is served in full: no password of the address is compared while *)
(* one is running that was imposed since it last got in, unless a login      *)
(* wrote over what another had written since it read (src/src/routes/api.py, *)
(* authenticate).  In particular the record outlives its lockout.            *)
LockoutHolds ==
  [][\A p \in Pods : login[p] = Free /\ login'[p] # Free => lockout = 0 \/ crossed]_vars

(* Guessing is paid for in time: more than k times MaxAttempts failures since *)
(* the record was started took at least the first k lockouts, each twice the  *)
(* one before, under the same condition.                                      *)
GuessesCostTime ==
  \A k \in 1 .. MaxLockouts :
    guesses > k * MaxAttempts /\ ~crossed => elapsed >= Lockout(k) - BaseLockout
=============================================================================
