-------------------------- MODULE DashboardProofs --------------------------
(***************************************************************************)
(* The two components behind the dashboard.  Logins, for any number of     *)
(* pods, attempts and lockouts and any times: their types, that a lockout  *)
(* is served in full, and that guesses cost the lockouts they should.      *)
(* Cached panels, at the end, for any panels, lifetimes and durations of   *)
(* queries, and any number of requests: how old they may be and what they  *)
(* may miss.                                                               *)
(***************************************************************************)
EXTENDS DashboardAuth, DashboardCache, FiniteSetTheorems, TLAPS

(* The times and counts of the code. *)
LEMMA ConstantsTyped ==
  /\ MaxAttempts \in Nat \ {0} /\ BaseLockout \in Nat \ {0} /\ AttemptTTL \in Nat \ {0}
  /\ Margin \in Nat \ {0} /\ MaxLockouts \in Nat \ {0} /\ SessionTTL \in Nat \ {0}
  BY AuthAssumption DEF AuthAssumption

(* A lockout is some time, at most that of any later one. *)
LEMMA LockoutTyped ==
  ASSUME NEW n \in 0 .. MaxLockouts
  PROVE  /\ Lockout(n) \in Nat \ {0}
         /\ \A m \in 0 .. n : Lockout(m) <= Lockout(n)
         /\ Lockout(n) <= MaxElapsed
<1>1. /\ 2 ^ n \in Nat \ {0} /\ \A m \in 0 .. n : 2 ^ m <= 2 ^ n
      /\ 2 ^ MaxLockouts \in Nat \ {0} /\ 2 ^ n <= 2 ^ MaxLockouts
      /\ \A m \in 0 .. n : 2 ^ m \in Nat \ {0}
  BY PowersAssumption, ConstantsTyped DEF PowersAssumption
<1>2. \A a, b \in Nat : a <= b => BaseLockout * a <= BaseLockout * b
  BY ConstantsTyped
<1>3. \A a \in Nat \ {0} : BaseLockout * a \in Nat \ {0}
  BY ConstantsTyped
<1> QED
  BY <1>1, <1>2, <1>3, ConstantsTyped DEF Lockout, MaxElapsed

LEMMA BoundsTyped == MaxElapsed \in Nat /\ MaxGuesses \in Nat
<1>1. Lockout(MaxLockouts) \in Nat
  BY LockoutTyped, ConstantsTyped
<1> QED
  BY <1>1, ConstantsTyped DEF MaxElapsed, MaxGuesses

(* The lockouts double, from the base. *)
LEMMA LockoutDoubles ==
  /\ Lockout(0) = BaseLockout
  /\ \A n \in 0 .. MaxLockouts - 1 : Lockout(n + 1) = Lockout(n) + Lockout(n)
<1>1. 2 ^ 0 = 1
  OBVIOUS
<1>2. ASSUME NEW n \in 0 .. MaxLockouts - 1
      PROVE  Lockout(n + 1) = Lockout(n) + Lockout(n)
  <2>1. 2 ^ n \in Nat /\ 2 ^ (n + 1) = 2 * 2 ^ n
    BY PowersAssumption, ConstantsTyped DEF PowersAssumption
  <2>2. \A a \in Nat : BaseLockout * (2 * a) = BaseLockout * a + BaseLockout * a
    BY ConstantsTyped
  <2> QED
    BY <2>1, <2>2 DEF Lockout
<1> QED
  BY <1>1, <1>2, ConstantsTyped DEF Lockout

(* What a pod may have read when it compares a password. *)
ReadsAreOpen ==
  \A p \in Pods : login[p].at # "free" =>
    /\ login[p].read.locked = 0 /\ login[p].read.ttl = 0
    /\ login[p].read.lockouts < MaxLockouts

TInv == TypeOK /\ ReadsAreOpen

LEMMA NoRecordTyped == NoRecord \in Records
  BY BoundsTyped, ConstantsTyped DEF NoRecord, Records

LEMMA FieldsTyped ==
  ASSUME NEW r \in Records
  PROVE  /\ r = [attempts |-> r.attempts, locked |-> r.locked, lockouts |-> r.lockouts,
                 ttl |-> r.ttl]
         /\ r.attempts \in 0 .. MaxAttempts - 1 /\ r.lockouts \in 0 .. MaxLockouts
         /\ r.locked \in 0 .. MaxElapsed /\ r.ttl \in 0 .. AttemptTTL + MaxElapsed + Margin
  BY DEF Records

LEMMA MadeTyped ==
  ASSUME NEW a \in 0 .. MaxAttempts - 1, NEW l \in 0 .. MaxElapsed, NEW n \in 0 .. MaxLockouts,
         NEW t \in 0 .. AttemptTTL + MaxElapsed + Margin
  PROVE  [attempts |-> a, locked |-> l, lockouts |-> n, ttl |-> t] \in Records
  BY DEF Records

LEMMA RecordsTyped ==
  /\ NoRecord \in Records
  /\ \A r \in Records :
       /\ r.attempts \in 0 .. MaxAttempts - 1 /\ r.lockouts \in 0 .. MaxLockouts
       /\ r.locked \in 0 .. MaxElapsed /\ r.ttl \in 0 .. AttemptTTL + MaxElapsed + Margin
       /\ [r EXCEPT !.ttl = 0] \in Records
       /\ [r EXCEPT !.ttl = 0].locked = r.locked
       /\ [r EXCEPT !.ttl = 0].attempts = r.attempts
       /\ [r EXCEPT !.ttl = 0].lockouts = r.lockouts
       /\ [r EXCEPT !.ttl = 0].ttl = 0
  BY BoundsTyped, ConstantsTyped DEF NoRecord, Records

(* The record after a failure: one attempt more, or a lockout that starts. *)
LEMMA FailedTyped ==
  ASSUME NEW r \in Records, r.lockouts < MaxLockouts, r.locked = 0
  PROVE  LET f == SaveAttempts(Failed(r)) IN
         /\ f \in Records
         /\ f.ttl > f.locked
         /\ \/ /\ r.attempts + 1 < MaxAttempts
               /\ f.attempts = r.attempts + 1 /\ f.locked = 0 /\ f.lockouts = r.lockouts
            \/ /\ r.attempts + 1 = MaxAttempts
               /\ f.attempts = 0 /\ f.locked = Lockout(r.lockouts)
               /\ f.lockouts = r.lockouts + 1
<1> DEFINE f == SaveAttempts(Failed(r))
<1>1. /\ r.attempts \in 0 .. MaxAttempts - 1 /\ r.lockouts \in 0 .. MaxLockouts
      /\ r.ttl \in 0 .. AttemptTTL + MaxElapsed + Margin /\ MaxElapsed \in Nat
  BY RecordsTyped, BoundsTyped
<1>2. Lockout(r.lockouts) \in Nat /\ Lockout(r.lockouts) <= MaxElapsed
  BY <1>1, LockoutTyped, ConstantsTyped
<1>3. CASE r.attempts + 1 >= MaxAttempts
  <2>1. Failed(r) = [r EXCEPT !.attempts = 0, !.locked = Lockout(r.lockouts), !.lockouts = @ + 1]
    BY <1>3 DEF Failed
  <2>2. f = [r EXCEPT !.attempts = 0, !.locked = Lockout(r.lockouts), !.lockouts = @ + 1,
                      !.ttl = Larger(AttemptTTL, Lockout(r.lockouts) + Margin)]
    BY <2>1 DEF SaveAttempts, Records
  <2>3. Larger(AttemptTTL, Lockout(r.lockouts) + Margin) \in 0 .. AttemptTTL + MaxElapsed + Margin
        /\ Larger(AttemptTTL, Lockout(r.lockouts) + Margin) > Lockout(r.lockouts)
    BY <1>1, <1>2, ConstantsTyped DEF Larger
  <2>4. /\ f.attempts = 0 /\ f.locked = Lockout(r.lockouts) /\ f.lockouts = r.lockouts + 1
        /\ f.ttl = Larger(AttemptTTL, Lockout(r.lockouts) + Margin)
    BY <2>2 DEF Records
  <2>5. f = [attempts |-> 0, locked |-> Lockout(r.lockouts), lockouts |-> r.lockouts + 1,
             ttl |-> Larger(AttemptTTL, Lockout(r.lockouts) + Margin)]
    BY <2>2 DEF Records
  <2>6. /\ 0 \in 0 .. MaxAttempts - 1 /\ Lockout(r.lockouts) \in 0 .. MaxElapsed
        /\ r.lockouts + 1 \in 0 .. MaxLockouts
    BY <1>1, <1>2, ConstantsTyped
  <2>7. f \in Records
    BY <2>3, <2>5, <2>6, MadeTyped
  <2> QED
    BY <1>1, <1>3, <2>3, <2>4, <2>7, ConstantsTyped
<1>4. CASE ~(r.attempts + 1 >= MaxAttempts)
  <2>1. Failed(r) = [r EXCEPT !.attempts = @ + 1]
    BY <1>4 DEF Failed
  <2>2. f = [r EXCEPT !.attempts = @ + 1, !.ttl = Larger(AttemptTTL, Margin)]
    <3>1. Failed(r).locked = 0
      BY <2>1 DEF Records
    <3>2. f = [Failed(r) EXCEPT !.ttl = Larger(AttemptTTL, 0 + Margin)]
      BY <3>1 DEF SaveAttempts
    <3>3. 0 + Margin = Margin
      BY ConstantsTyped
    <3> QED
      BY <2>1, <3>2, <3>3 DEF Records
  <2>3. Larger(AttemptTTL, Margin) \in 0 .. AttemptTTL + MaxElapsed + Margin
        /\ Larger(AttemptTTL, Margin) > 0
    BY <1>1, ConstantsTyped DEF Larger
  <2>4. /\ f.attempts = r.attempts + 1 /\ f.locked = 0 /\ f.lockouts = r.lockouts
        /\ f.ttl = Larger(AttemptTTL, Margin)
    BY <2>2 DEF Records
  <2>5. f = [attempts |-> r.attempts + 1, locked |-> 0, lockouts |-> r.lockouts,
             ttl |-> Larger(AttemptTTL, Margin)]
    BY <2>2 DEF Records
  <2>6. r.attempts + 1 \in 0 .. MaxAttempts - 1 /\ 0 \in 0 .. MaxElapsed
    BY <1>1, <1>4, ConstantsTyped
  <2>7. f \in Records
    BY <1>1, <2>3, <2>5, <2>6, MadeTyped
  <2> QED
    BY <1>1, <1>4, <2>3, <2>4, <2>7, ConstantsTyped
<1> QED
  BY <1>3, <1>4

LEMMA InitTyped == Init => TInv
<1> SUFFICES ASSUME Init PROVE TInv
  OBVIOUS
<1>1. MaxElapsed \in Nat /\ MaxGuesses \in Nat
  BY BoundsTyped
<1>2. login \in [Pods -> [at : {"free", "wrong", "right", "cleared"}, read : Records, stale : BOOLEAN]]
      /\ ReadsAreOpen
  BY RecordsTyped DEF Init, Free, ReadsAreOpen
<1>3. sessions \in [Tokens -> 0 .. SessionTTL]
  BY ConstantsTyped DEF Init
<1>4. crossed \in BOOLEAN
  BY Zenon DEF Init
<1>5. lockout \in 0 .. MaxElapsed /\ guesses \in 0 .. MaxGuesses /\ elapsed \in 0 .. MaxElapsed
  BY <1>1 DEF Init
<1>6. record \in Records
  BY NoRecordTyped DEF Init
<1> QED
  BY <1>2, <1>3, <1>4, <1>5, <1>6, Zenon DEF TInv, TypeOK

LEMMA TypeInductive == TInv /\ [Next]_vars => TInv'
<1> SUFFICES ASSUME TInv, [Next]_vars PROVE TInv'
  OBVIOUS
<1> USE DEF TInv, TypeOK
<1>1. MaxElapsed \in Nat /\ MaxGuesses \in Nat
  BY BoundsTyped
<1>2. GetAttempts \in Records /\ Free \in [at : {"free"}, read : Records, stale : BOOLEAN]
  BY RecordsTyped DEF GetAttempts, Free
<1>3. ASSUME NEW p \in Pods
      PROVE  /\ Overtaken(p) \in [Pods -> [at : {"free", "wrong", "right", "cleared"},
                                           read : Records, stale : BOOLEAN]]
             /\ Overtaken(p)[p] = Free
             /\ \A q \in Pods : q # p => /\ Overtaken(p)[q].at = login[q].at
                                         /\ Overtaken(p)[q].read = login[q].read
  BY <1>2 DEF Overtaken
<1>4. ASSUME NEW p \in Pods, NEW at \in {"wrong", "right"}, Compare(p, at) PROVE TInv'
  <2>1. [GetAttempts EXCEPT !.ttl = 0] \in Records /\ [GetAttempts EXCEPT !.ttl = 0].locked = 0
        /\ [GetAttempts EXCEPT !.ttl = 0].lockouts < MaxLockouts
        /\ [GetAttempts EXCEPT !.ttl = 0].ttl = 0
    BY <1>2, <1>4, RecordsTyped DEF Compare
  <2>2. login'[p].read = [GetAttempts EXCEPT !.ttl = 0]
        /\ \A q \in Pods : q # p => login'[q] = login[q]
    BY <1>4 DEF Compare
  <2> QED
    BY <1>4, <2>1, <2>2 DEF Compare, ReadsAreOpen
<1>5. ASSUME NEW p \in Pods, WriteFailure(p) PROVE TInv'
  <2>1. record' \in Records
    BY <1>5, FailedTyped DEF WriteFailure, ReadsAreOpen
  <2>2. lockout' \in 0 .. MaxElapsed
    BY <1>1, <1>5, <2>1, RecordsTyped DEF WriteFailure, Larger
  <2>3. guesses' \in 0 .. MaxGuesses /\ elapsed' \in 0 .. MaxElapsed /\ crossed' \in BOOLEAN
    <3>1. 1 <= MaxGuesses
      BY ConstantsTyped DEF MaxGuesses
    <3> QED
      BY <1>1, <1>5, <3>1 DEF WriteFailure
  <2>4. ReadsAreOpen'
    BY <1>3, <1>5 DEF WriteFailure, ReadsAreOpen, Free
  <2> QED
    BY <1>3, <1>5, <2>1, <2>2, <2>3, <2>4 DEF WriteFailure
<1>6. ASSUME NEW p \in Pods, ClearAttempts(p) PROVE TInv'
  <2>1. /\ login' \in [Pods -> [at : {"free", "wrong", "right", "cleared"}, read : Records,
                                 stale : BOOLEAN]]
        /\ \A q \in Pods : login'[q].read = login[q].read
        /\ \A q \in Pods : login'[q].at # "free" => login[q].at # "free"
    BY <1>3, <1>6 DEF ClearAttempts
  <2>2. ReadsAreOpen'
    BY <2>1 DEF ReadsAreOpen
  <2> QED
    BY <1>1, <1>6, <2>1, <2>2, RecordsTyped DEF ClearAttempts
<1>7. ASSUME NEW p \in Pods, CreateSession(p) PROVE TInv'
  BY <1>2, <1>7, ConstantsTyped DEF CreateSession, ReadsAreOpen, Free
<1>8. ASSUME NEW p \in Pods, Restart(p) PROVE TInv'
  <2>1. /\ login' \in [Pods -> [at : {"free", "wrong", "right", "cleared"}, read : Records, stale : BOOLEAN]]
        /\ ReadsAreOpen'
    BY <1>2, <1>8 DEF Restart, ReadsAreOpen, Free
  <2>2. [t \in Tokens |-> 0] \in [Tokens -> 0 .. SessionTTL]
    BY ConstantsTyped
  <2>3. CASE Shared
    BY <1>8, <2>1, <2>3 DEF Restart
  <2>4. CASE ~Shared
    <3>1. crossed' \in BOOLEAN
      BY <1>8, <2>4, Zenon DEF Restart
    <3>2. /\ lockout' \in 0 .. MaxElapsed /\ guesses' \in 0 .. MaxGuesses
          /\ elapsed' \in 0 .. MaxElapsed
      BY <1>1, <1>8, <2>4 DEF Restart
    <3>3. record' \in Records /\ sessions' \in [Tokens -> 0 .. SessionTTL]
      BY <1>8, <2>2, <2>4, NoRecordTyped DEF Restart
    <3> QED
      BY <2>1, <3>1, <3>2, <3>3, Zenon
  <2> QED
    BY <2>3, <2>4
<1>9. ASSUME NEW t \in Tokens, Logout(t) PROVE TInv'
  BY <1>9, ConstantsTyped DEF Logout, ReadsAreOpen
<1>10. ASSUME Tick PROVE TInv'
  <2>1. record' \in Records
    <3>1. CASE record.ttl <= 1
      BY <1>10, <3>1, RecordsTyped DEF Tick
    <3>2. CASE ~(record.ttl <= 1)
      <4>1. record' = [record EXCEPT !.ttl = @ - 1, !.locked = Less(@)]
        BY <1>10, <3>2 DEF Tick
      <4>2. Less(record.locked) \in 0 .. MaxElapsed
            /\ record.ttl - 1 \in 0 .. AttemptTTL + MaxElapsed + Margin
        BY <1>1, <3>2, FieldsTyped, ConstantsTyped DEF Less
      <4> QED
        BY <4>1, <4>2 DEF Records
    <3> QED
      BY <3>1, <3>2
  <2> QED
    BY <1>1, <1>10, <2>1, ConstantsTyped DEF Tick, Less, ReadsAreOpen
<1>11. CASE UNCHANGED vars
  BY <1>11 DEF vars, ReadsAreOpen
<1> QED
  BY <1>4, <1>5, <1>6, <1>7, <1>8, <1>9, <1>10, <1>11 DEF Next, LoginStep

(* The attempts, lockouts and sessions of an address keep their types         *)
(* (authenticate in src/src/routes/api.py): a counter never passes its limit. *)
THEOREM TypeCorrect == Spec => []TypeOK
<1>1. TInv => TypeOK
  BY DEF TInv
<1> QED
  BY <1>1, InitTyped, TypeInductive, PTL DEF Spec

-----------------------------------------------------------------------------
(* The record of the last lockout outlives it ... *)
Outlives == record = NoRecord \/ record.ttl > record.locked

(* ... and says at least as much as was imposed; whoever compares a password *)
(* and has not been overtaken, does so when nothing is left of it.           *)
Imposed == ~crossed => lockout <= record.locked

ReadersServed ==
  \A p \in Pods :
    login[p].at \in {"wrong", "right"} /\ ~login[p].stale /\ ~crossed => lockout = 0

LInv == TInv /\ Outlives /\ Imposed /\ ReadersServed

LEMMA NoRecordFields ==
  NoRecord.attempts = 0 /\ NoRecord.locked = 0 /\ NoRecord.lockouts = 0 /\ NoRecord.ttl = 0
  BY DEF NoRecord

LEMMA InitImposed == Init => LInv
<1> SUFFICES ASSUME Init PROVE LInv
  OBVIOUS
<1>1. Outlives /\ lockout <= record.locked
  BY NoRecordFields DEF Init, Outlives
<1>2. ReadersServed
  BY DEF Init, ReadersServed, Free
<1> QED
  BY <1>1, <1>2, InitTyped DEF LInv, Imposed

(* What a login of p leaves of the others. *)
LEMMA OvertakenOthers ==
  ASSUME TypeOK, NEW p \in Pods
  PROVE  /\ Overtaken(p)[p] = Free
         /\ \A q \in Pods : q # p =>
              /\ Overtaken(p)[q].at = login[q].at /\ Overtaken(p)[q].read = login[q].read
              /\ login[q].at # "free" => Overtaken(p)[q].stale
  BY DEF Overtaken, TypeOK

LEMMA ImposedInductive == LInv /\ [Next]_vars => LInv'
<1> SUFFICES ASSUME LInv, [Next]_vars PROVE LInv'
  OBVIOUS
<1> USE DEF LInv
<1>1. TInv' /\ TypeOK
  BY TypeInductive DEF TInv
<1>2. /\ record.locked \in Nat /\ record.ttl \in Nat /\ lockout \in Nat
      /\ record.lockouts \in Nat
  BY <1>1, FieldsTyped, BoundsTyped, ConstantsTyped DEF TypeOK
<1>3. record.ttl = 0 => record = NoRecord
  BY <1>2 DEF Outlives
<1>4. ASSUME NEW p \in Pods, NEW at \in {"wrong", "right"}, Compare(p, at) PROVE LInv'
  <2>1. /\ UNCHANGED <<record, lockout, crossed>>
        /\ \A q \in Pods : q # p => login'[q] = login[q]
    BY <1>1, <1>4 DEF Compare, TypeOK
  <2>2. GetAttempts.locked = record.locked
    BY <1>2, <1>3, NoRecordFields DEF GetAttempts
  <2>3. ~crossed => lockout = 0
    BY <1>2, <1>4, <2>2 DEF Compare, Imposed
  <2>4. ReadersServed'
    BY <2>1, <2>3 DEF ReadersServed
  <2> QED
    BY <1>1, <2>1, <2>4 DEF Outlives, Imposed
<1>5. ASSUME NEW p \in Pods, WriteFailure(p) PROVE LInv'
  <2>1. /\ login[p].at = "wrong" /\ login[p].read \in Records
        /\ record' = SaveAttempts(Failed(login[p].read)) /\ login' = Overtaken(p)
        /\ crossed' = (crossed \/ login[p].stale) /\ lockout' = Larger(lockout, record'.locked)
    BY <1>1, <1>5 DEF WriteFailure, TypeOK
  <2>2. record'.ttl > record'.locked /\ record'.locked \in Nat
    BY <1>1, <2>1, FailedTyped, FieldsTyped, BoundsTyped DEF TInv, ReadsAreOpen
  <2>3. ~crossed' => lockout = 0
    BY <2>1 DEF ReadersServed
  <2>4. Imposed'
    BY <1>2, <2>1, <2>2, <2>3 DEF Imposed, Larger
  <2>5. ReadersServed'
    BY <1>1, <2>1, OvertakenOthers DEF ReadersServed, Free
  <2> QED
    BY <1>1, <2>2, <2>4, <2>5 DEF Outlives
<1>6. ASSUME NEW p \in Pods, ClearAttempts(p) PROVE LInv'
  <2>1. /\ record' = NoRecord /\ lockout' = 0
    BY <1>6 DEF ClearAttempts
  <2> QED
    BY <1>1, <2>1, NoRecordFields DEF Outlives, Imposed, ReadersServed
<1>7. ASSUME NEW p \in Pods, CreateSession(p) PROVE LInv'
  BY <1>1, <1>7 DEF CreateSession, Outlives, Imposed, ReadersServed, Free, TypeOK
<1>8. ASSUME NEW p \in Pods, Restart(p) PROVE LInv'
  <2>1. CASE Shared
    BY <1>1, <1>8, <2>1 DEF Restart, Outlives, Imposed, ReadersServed, Free, TypeOK
  <2>2. CASE ~Shared
    BY <1>1, <1>8, <2>2, NoRecordFields DEF Restart, Outlives, Imposed, ReadersServed
  <2> QED
    BY <2>1, <2>2
<1>9. ASSUME NEW t \in Tokens, Logout(t) PROVE LInv'
  BY <1>1, <1>9 DEF Logout, Outlives, Imposed, ReadersServed
<1>10. ASSUME Tick PROVE LInv'
  <2>1. /\ lockout' = Less(lockout) /\ UNCHANGED <<login, crossed>>
    BY <1>10 DEF Tick
  <2>2. Less(lockout) \in Nat /\ Less(lockout) <= lockout /\ (lockout = 0 => Less(lockout) = 0)
    BY <1>2 DEF Less
  <2>3. ReadersServed'
    BY <2>1, <2>2 DEF ReadersServed
  <2>4. CASE record.ttl <= 1
    <3>1. record' = NoRecord /\ record.locked = 0
      BY <1>2, <1>10, <2>4, NoRecordFields DEF Tick, Outlives
    <3> QED
      BY <1>1, <1>2, <2>1, <2>2, <2>3, <3>1, NoRecordFields DEF Outlives, Imposed
  <2>5. CASE ~(record.ttl <= 1)
    <3>1. record' = [record EXCEPT !.ttl = @ - 1, !.locked = Less(@)]
      BY <1>10, <2>5 DEF Tick
    <3>2. record'.ttl = record.ttl - 1 /\ record'.locked = Less(record.locked)
      BY <1>1, <3>1 DEF TypeOK, Records
    <3>3. record.ttl > record.locked
      BY <1>2, <2>5, NoRecordFields DEF Outlives
    <3>4. Outlives'
      BY <1>2, <2>5, <3>2, <3>3 DEF Outlives, Less
    <3>5. Imposed'
      BY <1>2, <2>1, <3>2 DEF Imposed, Less
    <3> QED
      BY <1>1, <2>3, <3>4, <3>5
  <2> QED
    BY <2>4, <2>5
<1>11. CASE UNCHANGED vars
  BY <1>1, <1>11 DEF vars, Outlives, Imposed, ReadersServed
<1> QED
  BY <1>4, <1>5, <1>6, <1>7, <1>8, <1>9, <1>10, <1>11 DEF Next, LoginStep

(* Only a comparison makes a free pod busy. *)
LEMMA OnlyCompareStarts ==
  ASSUME TypeOK, [Next]_vars, NEW p \in Pods, login[p] = Free, login'[p] # Free
  PROVE  \E at \in {"wrong", "right"} : Compare(p, at)
<1>1. ASSUME NEW q \in Pods, q # p PROVE Overtaken(q)[p] = login[p]
  <2> DEFINE o == Overtaken(q)[p]
  <2>1. o \in [at : {"free", "wrong", "right", "cleared"}, read : Records, stale : BOOLEAN]
    BY DEF Overtaken, TypeOK, Free
  <2>2. o = [at |-> o.at, read |-> o.read, stale |-> o.stale]
    BY <2>1
  <2>3. o.at = "free" /\ o.read = NoRecord
    BY <1>1 DEF Overtaken, TypeOK, Free
  <2>4. o.stale = (login[p].at # "free")
    BY <1>1 DEF Overtaken, TypeOK
  <2>5. o.stale = FALSE
    BY <2>1, <2>4 DEF Free
  <2> QED
    BY <2>2, <2>3, <2>5 DEF Free
<1>2. ASSUME NEW q \in Pods, NEW at \in {"wrong", "right"}, Compare(q, at), q # p PROVE FALSE
  BY <1>2 DEF Compare, TypeOK
<1>3. ASSUME NEW q \in Pods, WriteFailure(q) PROVE FALSE
  <2>1. q # p /\ login' = Overtaken(q)
    BY <1>3 DEF WriteFailure, Free
  <2> QED
    BY <1>1, <2>1
<1>4. ASSUME NEW q \in Pods, ClearAttempts(q) PROVE FALSE
  <2>1. q # p /\ login'[p] = Overtaken(q)[p]
    BY <1>4 DEF ClearAttempts, Overtaken, Free
  <2> QED
    BY <1>1, <2>1
<1>5. ASSUME NEW q \in Pods, CreateSession(q) \/ Restart(q) PROVE FALSE
  BY <1>5 DEF CreateSession, Restart, TypeOK
<1>6. ASSUME NEW t \in Tokens, Logout(t) PROVE FALSE
  BY <1>6 DEF Logout
<1>7. Tick => FALSE
  BY DEF Tick
<1>8. UNCHANGED vars => FALSE
  BY DEF vars
<1> QED
  BY <1>2, <1>3, <1>4, <1>5, <1>6, <1>7, <1>8 DEF Next, LoginStep

(* No password of the address is compared while a lockout of it runs, for any *)
(* pods, attempts and times, unless logins overlapped (authenticate in        *)
(* src/src/routes/api.py).                                                    *)
THEOREM Served == Spec => LockoutHolds
<1>1. ASSUME LInv, [Next]_vars
      PROVE  [\A p \in Pods : login[p] = Free /\ login'[p] # Free => lockout = 0 \/ crossed]_vars
  <2> SUFFICES ASSUME NEW p \in Pods, login[p] = Free, login'[p] # Free, ~crossed, vars' # vars
               PROVE  lockout = 0
    OBVIOUS
  <2>1. PICK at \in {"wrong", "right"} : Compare(p, at)
    BY <1>1, OnlyCompareStarts DEF LInv, TInv
  <2>2. record.locked \in Nat /\ lockout \in Nat /\ record.ttl \in Nat
    BY <1>1, FieldsTyped, BoundsTyped, ConstantsTyped DEF LInv, TInv, TypeOK
  <2>3. GetAttempts.locked = record.locked
    BY <1>1, <2>2, NoRecordFields DEF GetAttempts, LInv, Outlives
  <2> QED
    BY <1>1, <2>1, <2>2, <2>3 DEF Compare, LInv, Imposed
<1> QED
  BY <1>1, InitImposed, ImposedInductive, PTL DEF Spec, LockoutHolds

-----------------------------------------------------------------------------
(* The failures a record accounts for: its rounds of attempts were paid for   *)
(* with the lockouts between them, but for what is left of the last.          *)
Paid(r) ==
  /\ guesses <= r.lockouts * MaxAttempts + r.attempts
  /\ elapsed + r.locked >= Lockout(r.lockouts) - BaseLockout

(* A lockout begins a round, and is none but the last one imposed. *)
Rounds ==
  record # NoRecord =>
    /\ record.attempts + record.lockouts > 0
    /\ record.locked > 0 => record.attempts = 0 /\ record.lockouts > 0
                            /\ record.locked <= Lockout(record.lockouts - 1)

RecordPaid == ~crossed /\ record # NoRecord => Paid(record)

(* What a login has read still holds, if nobody has overtaken it. *)
ReadsPaid ==
  \A p \in Pods :
    login[p].at = "wrong" /\ ~login[p].stale /\ ~crossed =>
      IF login[p].read = NoRecord THEN record = NoRecord ELSE Paid(login[p].read)

(* The guesses that a record that is gone accounted for. *)
GonePaid == record = NoRecord => GuessesCostTime

GInv == LInv /\ Rounds /\ RecordPaid /\ ReadsPaid /\ GonePaid

LEMMA InitPaid == Init => GInv
<1> SUFFICES ASSUME Init PROVE GInv
  OBVIOUS
<1>1. record = NoRecord /\ guesses = 0 /\ \A p \in Pods : login[p].at = "free"
  BY DEF Init, Free
<1>2. \A k \in 1 .. MaxLockouts : ~(0 > k * MaxAttempts)
  BY ConstantsTyped
<1> QED
  BY <1>1, <1>2, InitImposed DEF GInv, Rounds, RecordPaid, ReadsPaid, GonePaid, GuessesCostTime

(* Rounds of attempts: more than k of them are in at least k lockouts. *)
LEMMA RoundsCounted ==
  ASSUME NEW k \in Nat, NEW n \in Nat, NEW a \in 0 .. MaxAttempts - 1,
         k * MaxAttempts < n * MaxAttempts + a
  PROVE  k <= n /\ (a = 0 => k < n)
<1>1. CASE k >= n + 1
  <2>1. k * MaxAttempts >= (n + 1) * MaxAttempts
    BY <1>1, ConstantsTyped
  <2>2. (n + 1) * MaxAttempts = n * MaxAttempts + MaxAttempts
    BY ConstantsTyped
  <2>3. k * MaxAttempts \in Nat /\ n * MaxAttempts \in Nat
    BY ConstantsTyped
  <2> QED
    BY <2>1, <2>2, <2>3, ConstantsTyped
<1>2. CASE k = n
  BY <1>2, ConstantsTyped
<1> QED
  BY <1>1, <1>2

(* A record that is paid for bounds the guesses. *)
LEMMA PaidSuffices == TypeOK /\ Rounds /\ RecordPaid /\ record # NoRecord => GuessesCostTime
<1> SUFFICES ASSUME TypeOK, Rounds, RecordPaid, record # NoRecord,
                    NEW k \in 1 .. MaxLockouts, guesses > k * MaxAttempts, ~crossed
             PROVE  elapsed >= Lockout(k) - BaseLockout
  BY DEF GuessesCostTime
<1> DEFINE n == record.lockouts
<1>1. /\ n \in 0 .. MaxLockouts /\ record.attempts \in 0 .. MaxAttempts - 1
      /\ record.locked \in Nat /\ guesses \in Nat /\ elapsed \in Nat
  BY FieldsTyped, BoundsTyped DEF TypeOK
<1>2. /\ guesses <= n * MaxAttempts + record.attempts
      /\ elapsed + record.locked >= Lockout(n) - BaseLockout
  BY DEF RecordPaid, Paid
<1>3. k * MaxAttempts \in Nat /\ n * MaxAttempts \in Nat
  BY <1>1, ConstantsTyped
<1>4. k <= n /\ (record.attempts = 0 => k < n)
  BY <1>1, <1>2, <1>3, RoundsCounted
<1>5. Lockout(k) \in Nat /\ Lockout(n) \in Nat /\ BaseLockout \in Nat /\ Lockout(k) <= Lockout(n)
  BY <1>1, <1>4, LockoutTyped, ConstantsTyped
<1>6. CASE record.locked = 0
  BY <1>1, <1>2, <1>5, <1>6
<1>7. CASE record.locked > 0
  <2>1. k <= n - 1 /\ n - 1 \in 0 .. MaxLockouts - 1 /\ record.locked <= Lockout(n - 1)
    <3>1. record.attempts = 0 /\ record.locked <= Lockout(n - 1)
      BY <1>7 DEF Rounds
    <3> QED
      BY <1>1, <1>4, <3>1, ConstantsTyped
  <2>2. Lockout(n - 1) \in Nat /\ Lockout(k) <= Lockout(n - 1)
    BY <2>1, LockoutTyped, ConstantsTyped
  <2>3. Lockout(n) = Lockout(n - 1) + Lockout(n - 1)
    BY <1>1, <2>1, LockoutDoubles
  <2> QED
    BY <1>1, <1>2, <1>5, <2>1, <2>2, <2>3
<1> QED
  BY <1>1, <1>6, <1>7

LEMMA PaidBoundsGuesses == GInv => GuessesCostTime
  BY PaidSuffices DEF GInv, LInv, TInv, GonePaid

(* A failure that is written counts, and what it starts has been paid for. *)
LEMMA FailurePaid ==
  ASSUME GInv, NEW p \in Pods, WriteFailure(p), ~crossed'
  PROVE  Paid(record)'
<1> DEFINE r == login[p].read
<1>1. TypeOK /\ ReadsAreOpen /\ login[p].at = "wrong" /\ ~login[p].stale /\ ~crossed
  BY DEF GInv, LInv, TInv, WriteFailure
<1>2. r \in Records /\ r.lockouts < MaxLockouts /\ r.locked = 0
  BY <1>1 DEF TypeOK, ReadsAreOpen
<1>3. /\ r.lockouts \in 0 .. MaxLockouts - 1 /\ r.attempts \in 0 .. MaxAttempts - 1
      /\ guesses \in Nat /\ elapsed \in Nat
  BY <1>1, <1>2, FieldsTyped, BoundsTyped, ConstantsTyped DEF TypeOK
<1>4. record' = SaveAttempts(Failed(r))
  BY DEF WriteFailure
<1>5. IF r = NoRecord THEN guesses' = 1 /\ elapsed' = 0
      ELSE guesses' \in Nat /\ guesses' <= guesses + 1 /\ elapsed' = elapsed
  <2>1. CASE r = NoRecord
    <3>1. GetAttempts = NoRecord
      BY <1>1, <2>1, NoRecordFields DEF GInv, ReadsPaid, GetAttempts
    <3> QED
      BY <2>1, <3>1 DEF WriteFailure
  <2>2. CASE r # NoRecord
    BY <1>3, <2>2 DEF WriteFailure
  <2> QED
    BY <2>1, <2>2
<1>6. /\ guesses' \in Nat /\ guesses' <= r.lockouts * MaxAttempts + r.attempts + 1
      /\ elapsed' \in Nat /\ elapsed' >= Lockout(r.lockouts) - BaseLockout
  <2>1. CASE r = NoRecord
    <3>1. 0 * MaxAttempts = 0
      BY ConstantsTyped
    <3> QED
      BY <1>5, <2>1, <3>1, NoRecordFields, LockoutDoubles, ConstantsTyped
  <2>2. CASE r # NoRecord
    <3>1. Paid(r)
      BY <1>1, <2>2 DEF GInv, ReadsPaid
    <3>2. r.lockouts * MaxAttempts \in Nat /\ Lockout(r.lockouts) \in Nat
      BY <1>3, LockoutTyped, ConstantsTyped
    <3> QED
      BY <1>2, <1>3, <1>5, <2>2, <3>1, <3>2, ConstantsTyped DEF Paid
  <2> QED
    BY <2>1, <2>2
<1>7. /\ Lockout(r.lockouts) \in Nat
      /\ Lockout(r.lockouts + 1) = Lockout(r.lockouts) + Lockout(r.lockouts)
      /\ r.lockouts * MaxAttempts \in Nat
      /\ (r.lockouts + 1) * MaxAttempts = r.lockouts * MaxAttempts + MaxAttempts
  BY <1>3, LockoutTyped, LockoutDoubles, ConstantsTyped
<1>8. CASE /\ r.attempts + 1 < MaxAttempts
           /\ record'.attempts = r.attempts + 1 /\ record'.locked = 0
           /\ record'.lockouts = r.lockouts
  BY <1>3, <1>6, <1>7, <1>8, ConstantsTyped DEF Paid
<1>9. CASE /\ r.attempts + 1 = MaxAttempts
           /\ record'.attempts = 0 /\ record'.locked = Lockout(r.lockouts)
           /\ record'.lockouts = r.lockouts + 1
  BY <1>3, <1>6, <1>7, <1>9, ConstantsTyped DEF Paid
<1> QED
  BY <1>2, <1>4, <1>8, <1>9, FailedTyped

LEMMA FailureRounds ==
  ASSUME GInv, NEW p \in Pods, WriteFailure(p)
  PROVE  record' # NoRecord /\ Rounds'
<1> DEFINE r == login[p].read
<1>1. r \in Records /\ r.lockouts < MaxLockouts /\ r.locked = 0
  BY DEF GInv, LInv, TInv, TypeOK, ReadsAreOpen, WriteFailure
<1>2. r.lockouts \in 0 .. MaxLockouts - 1 /\ r.attempts \in 0 .. MaxAttempts - 1
  BY <1>1, FieldsTyped, ConstantsTyped
<1>3. record' = SaveAttempts(Failed(r)) /\ Lockout(r.lockouts) \in Nat
  BY <1>2, LockoutTyped, ConstantsTyped DEF WriteFailure
<1>4. CASE /\ r.attempts + 1 < MaxAttempts
           /\ record'.attempts = r.attempts + 1 /\ record'.locked = 0
           /\ record'.lockouts = r.lockouts
  BY <1>2, <1>4, NoRecordFields DEF Rounds
<1>5. CASE /\ r.attempts + 1 = MaxAttempts
           /\ record'.attempts = 0 /\ record'.locked = Lockout(r.lockouts)
           /\ record'.lockouts = r.lockouts + 1
  <2>1. record'.lockouts - 1 = r.lockouts /\ record'.lockouts > 0
    BY <1>2, <1>5
  <2>2. Lockout(record'.lockouts - 1) = Lockout(r.lockouts)
    BY <2>1
  <2>3. record'.locked <= Lockout(record'.lockouts - 1)
    BY <1>3, <1>5, <2>2
  <2>4. record' # NoRecord
    BY <2>1, NoRecordFields
  <2>5. record'.attempts + record'.lockouts > 0
    BY <1>2, <1>5
  <2> QED
    BY <1>5, <2>1, <2>3, <2>4, <2>5 DEF Rounds
<1> QED
  BY <1>1, <1>3, <1>4, <1>5, FailedTyped

(* Without Redis there is one pod. *)
LEMMA AloneWithoutRedis == ~Shared => \A p, q \in Pods : q = p
  BY FS_Singleton, AuthAssumption DEF AuthAssumption

LEMMA PaidInductive == GInv /\ [Next]_vars => GInv'
<1> SUFFICES ASSUME GInv, [Next]_vars PROVE GInv'
  OBVIOUS
<1>1. LInv /\ LInv' /\ TypeOK /\ TypeOK'
  BY ImposedInductive DEF GInv, LInv, TInv
<1>2. /\ record.locked \in Nat /\ record.ttl \in Nat /\ guesses \in Nat /\ elapsed \in Nat
      /\ record.lockouts \in 0 .. MaxLockouts /\ record.attempts \in Nat
  BY <1>1, FieldsTyped, BoundsTyped, ConstantsTyped DEF TypeOK
<1>3. record.ttl = 0 => record = NoRecord
  BY <1>1, <1>2 DEF LInv, Outlives
<1>4. ASSUME NEW p \in Pods, NEW at \in {"wrong", "right"}, Compare(p, at) PROVE GInv'
  <2>1. /\ UNCHANGED <<record, guesses, elapsed, crossed>>
        /\ login'[p].read = [GetAttempts EXCEPT !.ttl = 0]
        /\ \A q \in Pods : q # p => login'[q] = login[q]
    BY <1>1, <1>4 DEF Compare, TypeOK
  <2>2. GetAttempts = record
    BY <1>2, <1>3 DEF GetAttempts
  <2>3. record.locked = 0 /\ record \in Records
    BY <1>1, <1>4, <2>2 DEF Compare, TypeOK
  <2>4. /\ login'[p].read.attempts = record.attempts /\ login'[p].read.locked = 0
        /\ login'[p].read.lockouts = record.lockouts
    BY <2>1, <2>2, <2>3, RecordsTyped
  <2>5. login'[p].read = NoRecord => record = NoRecord
    BY <1>2, <2>4, NoRecordFields DEF GInv, Rounds
  <2>6. record # NoRecord /\ ~crossed => Paid(login'[p].read)
    BY <2>3, <2>4 DEF GInv, RecordPaid, Paid
  <2>7. record = NoRecord => login'[p].read = NoRecord
    BY <2>1, <2>2 DEF NoRecord
  <2>8. ReadsPaid'
    BY <2>1, <2>5, <2>6, <2>7 DEF GInv, ReadsPaid, Paid
  <2>9. Rounds' /\ RecordPaid' /\ GonePaid'
    BY <2>1 DEF GInv, Rounds, RecordPaid, GonePaid, GuessesCostTime, Paid
  <2> QED
    BY <1>1, <2>8, <2>9 DEF GInv
<1>5. ASSUME NEW p \in Pods, WriteFailure(p) PROVE GInv'
  <2>1. record' # NoRecord /\ Rounds'
    BY <1>5, FailureRounds
  <2>2. RecordPaid'
    BY <1>5, FailurePaid DEF RecordPaid, Paid
  <2>3. ReadsPaid'
    BY <1>1, <1>5, OvertakenOthers DEF ReadsPaid, WriteFailure, Free
  <2>4. GonePaid'
    BY <2>1 DEF GonePaid
  <2> QED
    BY <1>1, <2>1, <2>2, <2>3, <2>4 DEF GInv
<1>6. ASSUME NEW p \in Pods, ClearAttempts(p) PROVE GInv'
  <2>1. record' = NoRecord /\ guesses' = 0
    BY <1>6 DEF ClearAttempts
  <2>2. \A k \in 1 .. MaxLockouts : ~(0 > k * MaxAttempts)
    BY ConstantsTyped
  <2>3. login' = [Overtaken(p) EXCEPT ![p] = [login[p] EXCEPT !.at = "cleared"]]
    BY <1>6 DEF ClearAttempts
  <2>4. Overtaken(p) \in [Pods -> [at : {"free", "wrong", "right", "cleared"},
                                   read : Records, stale : BOOLEAN]]
    BY <1>1, NoRecordTyped DEF Overtaken, TypeOK, Free
  <2>5. /\ login'[p].at = "cleared"
        /\ \A q \in Pods : q # p /\ login'[q].at = "wrong" => login'[q].stale
    BY <1>1, <2>3, <2>4, OvertakenOthers DEF TypeOK
  <2>6. ReadsPaid'
    BY <2>5 DEF ReadsPaid
  <2> QED
    BY <1>1, <2>1, <2>2, <2>6 DEF GInv, Rounds, RecordPaid, GonePaid, GuessesCostTime
<1>7. ASSUME UNCHANGED <<record, guesses, elapsed, crossed>>,
             \A q \in Pods : login'[q] = login[q] \/ login'[q].at # "wrong"
      PROVE  GInv'
  BY <1>1, <1>7 DEF GInv, Rounds, RecordPaid, ReadsPaid, GonePaid, GuessesCostTime, Paid
<1>8. ASSUME NEW p \in Pods, CreateSession(p) PROVE GInv'
  BY <1>1, <1>7, <1>8 DEF CreateSession, TypeOK, Free
<1>9. ASSUME NEW p \in Pods, Restart(p) PROVE GInv'
  <2>1. CASE Shared
    BY <1>1, <1>7, <1>9, <2>1 DEF Restart, TypeOK, Free
  <2>2. CASE ~Shared
    <3>1. record' = NoRecord /\ guesses' = 0 /\ login'[p].at # "wrong"
      BY <1>1, <1>9, <2>2 DEF Restart, TypeOK, Free
    <3>2. \A k \in 1 .. MaxLockouts : ~(0 > k * MaxAttempts)
      BY ConstantsTyped
    <3>3. \A q \in Pods : q = p
      BY <2>2, AloneWithoutRedis
    <3> QED
      BY <1>1, <3>1, <3>2, <3>3 DEF GInv, Rounds, RecordPaid, ReadsPaid, GonePaid, GuessesCostTime
  <2> QED
    BY <2>1, <2>2
<1>10. ASSUME NEW t \in Tokens, Logout(t) PROVE GInv'
  BY <1>7, <1>10 DEF Logout
<1>11. ASSUME Tick PROVE GInv'
  <2>1. /\ UNCHANGED <<login, guesses, crossed>>
        /\ elapsed' = IF elapsed < MaxElapsed THEN elapsed + 1 ELSE elapsed
    BY <1>11 DEF Tick
  <2>2. elapsed' \in Nat /\ elapsed' >= elapsed /\ (elapsed' = elapsed + 1 \/ elapsed' = MaxElapsed)
        /\ MaxElapsed \in Nat
    BY <1>1, <1>2, <2>1, BoundsTyped DEF TypeOK
  <2>3. GonePaid'
    <3> SUFFICES ASSUME NEW k \in 1 .. MaxLockouts, (guesses > k * MaxAttempts)', ~crossed'
                 PROVE  elapsed' >= Lockout(k) - BaseLockout
      BY DEF GonePaid, GuessesCostTime
    <3>1. elapsed >= Lockout(k) - BaseLockout
      BY <2>1, PaidBoundsGuesses DEF GuessesCostTime
    <3>2. Lockout(k) \in Nat
      BY LockoutTyped, ConstantsTyped
    <3> QED
      BY <1>2, <2>2, <3>1, <3>2, ConstantsTyped
  <2>4. \/ record' = NoRecord
        \/ /\ record # NoRecord /\ record'.attempts = record.attempts
           /\ record'.lockouts = record.lockouts /\ record'.locked = Less(record.locked)
    <3>1. CASE record.ttl <= 1
      BY <1>11, <3>1 DEF Tick
    <3>2. CASE ~(record.ttl <= 1)
      <4>1. record # NoRecord
        BY <3>2, NoRecordFields
      <4>2. record' = [record EXCEPT !.ttl = @ - 1, !.locked = Less(@)]
        BY <1>11, <3>2 DEF Tick
      <4> QED
        BY <1>1, <4>1, <4>2 DEF TypeOK, Records
    <3> QED
      BY <3>1, <3>2
  <2>5. ReadsPaid'
    <3> SUFFICES ASSUME NEW p \in Pods, login[p].at = "wrong", ~login[p].stale, ~crossed
                 PROVE  IF login[p].read = NoRecord THEN record' = NoRecord
                        ELSE Paid(login[p].read)'
      BY <2>1 DEF ReadsPaid
    <3>1. CASE login[p].read = NoRecord
      BY <2>4, <3>1 DEF GInv, ReadsPaid
    <3>2. CASE login[p].read # NoRecord
      <4>1. Paid(login[p].read)
        BY <3>2 DEF GInv, ReadsPaid
      <4>2. login[p].read.locked \in Nat /\ login[p].read.lockouts \in 0 .. MaxLockouts
        BY <1>1, FieldsTyped, BoundsTyped DEF TypeOK
      <4>3. Lockout(login[p].read.lockouts) \in Nat
        BY <4>2, LockoutTyped, ConstantsTyped
      <4>4. elapsed' + login[p].read.locked >= Lockout(login[p].read.lockouts) - BaseLockout
        BY <1>2, <2>2, <4>1, <4>2, <4>3, ConstantsTyped DEF Paid
      <4> QED
        BY <2>1, <3>2, <4>1, <4>4 DEF Paid
    <3> QED
      BY <3>1, <3>2
  <2>6. Rounds' /\ RecordPaid'
    <3>1. CASE record' = NoRecord
      BY <3>1 DEF Rounds, RecordPaid
    <3>2. CASE /\ record # NoRecord /\ record'.attempts = record.attempts
               /\ record'.lockouts = record.lockouts /\ record'.locked = Less(record.locked)
      <4>1. /\ record'.locked \in Nat /\ record'.locked <= record.locked
            /\ record'.locked + 1 >= record.locked
            /\ record'.locked > 0 => record.locked > 0
        BY <1>2, <3>2 DEF Less
      <4>2. Lockout(record.lockouts) \in Nat /\ Lockout(record.lockouts) <= MaxElapsed
        BY <1>2, LockoutTyped, ConstantsTyped
      <4>3. Rounds'
        <5>1. record.attempts + record.lockouts > 0
          BY <3>2 DEF GInv, Rounds
        <5>2. ASSUME record'.locked > 0
              PROVE  /\ record.attempts = 0 /\ record.lockouts > 0
                     /\ record'.locked <= Lockout(record.lockouts - 1)
          <6>1. /\ record.attempts = 0 /\ record.lockouts > 0
                /\ record.locked <= Lockout(record.lockouts - 1)
            BY <3>2, <4>1, <5>2 DEF GInv, Rounds
          <6>2. Lockout(record.lockouts - 1) \in Nat
            BY <1>2, <6>1, LockoutTyped, ConstantsTyped
          <6> QED
            BY <1>2, <4>1, <6>1, <6>2
        <5> QED
          BY <3>2, <5>1, <5>2 DEF Rounds
      <4>4. ASSUME ~crossed PROVE Paid(record)'
        <5>1. Paid(record)
          BY <3>2, <4>4 DEF GInv, RecordPaid
        <5>2. elapsed' + record'.locked >= Lockout(record.lockouts) - BaseLockout
          BY <1>2, <2>1, <4>1, <4>2, <5>1, ConstantsTyped, BoundsTyped DEF Paid
        <5> QED
          BY <2>1, <3>2, <5>1, <5>2 DEF Paid
      <4> QED
        BY <2>1, <4>3, <4>4 DEF RecordPaid
    <3> QED
      BY <2>4, <3>1, <3>2
  <2> QED
    BY <1>1, <2>3, <2>5, <2>6 DEF GInv
<1>12. CASE UNCHANGED vars
  BY <1>7, <1>12 DEF vars
<1> QED
  BY <1>4, <1>5, <1>6, <1>8, <1>9, <1>10, <1>11, <1>12 DEF Next, LoginStep

(* For any number of pods, attempts and lockouts, more than k rounds of       *)
(* failures took the first k lockouts, unless logins overlapped (authenticate *)
(* in src/src/routes/api.py).                                                 *)
THEOREM GuessesPaid == Spec => []GuessesCostTime
  BY InitPaid, PaidInductive, PaidBoundsGuesses, PTL DEF Spec

-----------------------------------------------------------------------------
(* The panels, DashboardCache: nothing below is about logins. *)

(* No data that is cached or on its way misses a write that is lost. *)
Datas == [rows : Nat, total : Nat, misses : {"nothing", "a write"}]

(* By how much the total of panel p, or of the entry under key k, may be older *)
(* than its rows.                                                              *)
Extra(p) == IF p \in Counted THEN TableTTL + MaxHeld ELSE 0
ExtraOf(k) ==
  IF k = CountKey \/ k[1] = "agg" \/ k[2] \notin Counted THEN 0 ELSE TableTTL + MaxHeld

(* A request, or the task, has been under way for as long as what it has read, *)
(* a total from the table cache apart; and it queries for one of the panels.   *)
Places == {"free", "warm", "table", "idle", "next", "blobs", "count", "counted", "rows", "read"}
Queries == [at : Places, panel : Panels \cup {NoPanel}, data : Datas, held : Nat]
QueryOK(q) ==
  /\ q \in Queries
  /\ q.held <= MaxHeld /\ q.data.rows <= q.held
  /\ q.at \notin {"free", "idle", "next", "blobs"} => q.panel \in Panels
  /\ q.at \in {"count", "counted"} => q.panel \in Counted
  /\ q.at = "counted" => q.data.total <= q.held
  /\ HasData(q) => q.data.total <= q.held + Extra(q.panel)

(* NeverOlder of one entry. *)
EntryOK(k) ==
  Live(k) =>
    LET since == TTL(k) - entry[k].left + MaxHeld
    IN  /\ entry[k].data.rows <= since
        /\ entry[k].data.total <= since + ExtraOf(k)

EntriesOK ==
  /\ entry \in [Keys -> [left : Nat, data : Datas, during : BOOLEAN]]
  /\ \A k \in Keys : EntryOK(k) /\ (Live(k) \/ entry[k].data.misses = "nothing")

WarmOK ==
  /\ QueryOK(warmup) /\ warmup.at \notin {"free", "warm", "table"}
  /\ kept \in [Panels -> Datas \cup {NoData}]
  /\ \A p \in Panels : kept[p] # NoData =>
       /\ kept[p].rows <= warmup.held /\ kept[p].total <= warmup.held + Extra(p)
       /\ kept[p].misses = "nothing" /\ warmup.at # "idle"

(* The scan has still to come to whatever misses the write and was there when *)
(* it began.                                                                  *)
ScanOK ==
  write = "scan" =>
    \A k \in TableKeys :
      Live(k) /\ entry[k].data.misses = "a write" /\ ~entry[k].during => k \in scan

ReadersOK == DOMAIN reader = Readers /\ \A r \in Readers : QueryOK(reader[r])

DInv == EntriesOK /\ ReadersOK /\ WarmOK /\ ScanOK
-----------------------------------------------------------------------------
LEMMA Bounds ==
  {BlobTTL, TableTTL, HotTTL, MaxHeld} \subseteq Nat \ {0}
  BY CacheAssumption DEF CacheAssumption

LEMMA LifeTyped ==
  ASSUME NEW k
  PROVE  TTL(k) \in Nat \ {0}
  BY Bounds DEF TTL

LEMMA ExtraTyped ==
  ASSUME NEW p, NEW k
  PROVE  Extra(p) \in Nat /\ ExtraOf(k) \in Nat
  BY Bounds DEF Extra, ExtraOf

(* No panel goes by the name under which the totals are counted. *)
LEMMA PanelNames ==
  \A p \in Panels : p # "count"
<1>1. "count" \notin DOMAIN AllPanels
  BY DEF AllPanels
<1> QED
  BY <1>1, CacheAssumption DEF CacheAssumption

LEMMA ExtraOfPanel ==
  ASSUME NEW p \in Panels, NEW t, t # "agg"
  PROVE  ExtraOf(<<t, p>>) = Extra(p)
  BY PanelNames DEF ExtraOf, Extra, CountKey

LEMMA CountKeyOK ==
  /\ CountKey \in Keys /\ CountKey \in TableKeys
  /\ TTL(CountKey) = TableTTL /\ ExtraOf(CountKey) = 0
<1>1. CountKey[1] = "table" /\ CountKey \in Keys
  BY DEF CountKey, Keys
<1> QED
  BY <1>1 DEF TableKeys, TTL, ExtraOf

LEMMA FreshOK ==
  Fresh \in Datas /\ Fresh.rows = 0 /\ Fresh.total = 0 /\ NoData \notin Datas
  BY DEF Fresh, Datas, NoData

LEMMA KeptOK ==
  ASSUME NEW k, NEW d \in Datas
  PROVE  /\ Kept(k, d) \in Datas /\ Kept(k, d).rows = d.rows
         /\ Kept(k, d).total = IF k[1] = "agg" THEN d.rows ELSE d.total
<1>1. CASE k[1] = "table"
  BY <1>1 DEF Kept
<1>2. CASE k[1] = "agg"
  <2>1. Kept(k, d) = [Unmarked(d) EXCEPT !.total = d.rows]
    BY <1>2 DEF Kept
  <2> QED
    BY <1>2, <2>1 DEF Unmarked, Datas
<1>3. CASE k[1] \notin {"table", "agg"}
  <2>1. Kept(k, d) = Unmarked(d)
    BY <1>3 DEF Kept
  <2> QED
    BY <1>3, <2>1 DEF Unmarked, Datas
<1> QED
  BY <1>1, <1>2, <1>3

-----------------------------------------------------------------------------
(* What is stored is no older than a query takes. *)
LEMMA StoredOK ==
  ASSUME EntriesOK, ScanOK, UNCHANGED writeVars,
         NEW keys, NEW d \in Datas, entry' = Stored(keys, d),
         d.rows <= MaxHeld,
         \A k \in keys \cap Keys : k[1] = "agg" \/ d.total <= MaxHeld + ExtraOf(k)
  PROVE  EntriesOK' /\ ScanOK'
<1>1. ASSUME NEW k \in Keys
      PROVE  /\ k \in keys =>
                  /\ entry'[k].left = TTL(k) /\ entry'[k].data = Kept(k, d)
                  /\ entry'[k].during = (k \in TableKeys /\ write = "scan")
                  /\ entry'[k] \in [left : {TTL(k)}, data : {Kept(k, d)}, during : BOOLEAN]
             /\ k \notin keys => entry'[k] = entry[k]
  BY DEF Stored
<1>2. ASSUME NEW k \in Keys, k \in keys
      PROVE  /\ Kept(k, d) \in Datas /\ Kept(k, d).rows <= MaxHeld
             /\ Kept(k, d).total <= MaxHeld + ExtraOf(k)
  <2>1. d.rows \in Nat /\ d.total \in Nat /\ ExtraOf(k) \in Nat /\ MaxHeld \in Nat
    BY ExtraTyped, Bounds DEF Datas
  <2>2. (IF k[1] = "agg" THEN d.rows ELSE d.total) <= MaxHeld + ExtraOf(k)
    BY <1>2, <2>1
  <2> QED
    BY <2>2, KeptOK
<1>3. ASSUME NEW k \in Keys
      PROVE  /\ entry'[k] \in [left : Nat, data : Datas, during : BOOLEAN]
             /\ EntryOK(k)' /\ (Live(k) \/ entry[k].data.misses = "nothing")'
  <2>1. CASE k \in keys
    <3>1. TTL(k) \in Nat /\ TTL(k) > 0 /\ TTL(k) - TTL(k) + MaxHeld = MaxHeld
      BY LifeTyped, Bounds
    <3> HIDE DEF EntryOK
    <3>2. entry'[k] \in [left : Nat, data : Datas, during : BOOLEAN]
      BY <1>1, <1>2, <2>1, <3>1
    <3> QED
      BY <1>1, <1>2, <2>1, <3>1, <3>2 DEF EntryOK, Live
  <2>2. CASE k \notin keys
    BY <1>1, <2>2 DEF EntriesOK, EntryOK, Live
  <2> QED
    BY <2>1, <2>2
<1>4. entry' \in [Keys -> [left : Nat, data : Datas, during : BOOLEAN]]
  BY <1>3 DEF Stored
<1>5. ScanOK'
  <2> SUFFICES ASSUME write = "scan", NEW k \in TableKeys,
                      Live(k)', entry'[k].data.misses = "a write", ~entry'[k].during
               PROVE  k \in scan
    BY DEF ScanOK, writeVars
  <2>1. k \in Keys
    BY DEF TableKeys
  <2> QED
    BY <1>1, <2>1 DEF ScanOK, Live
<1> QED
  BY <1>3, <1>4, <1>5 DEF EntriesOK

(* A step of a query leaves it with data as old as itself, a total from the    *)
(* table cache apart.                                                          *)
LEMMA AdvancedOK ==
  ASSUME EntriesOK, NEW q, QueryOK(q), Querying(q)
  PROVE  QueryOK(Advanced(q)) /\ Advanced(q).held = q.held /\ HasData(Advanced(q))
<1> DEFINE n == Advanced(q)
<1>1. /\ q \in Queries /\ q.panel \in Panels /\ Extra(q.panel) \in Nat
      /\ q.held \in Nat /\ q.held <= MaxHeld /\ q.data.rows <= q.held
  BY ExtraTyped DEF QueryOK, Querying, Queries
<1>2. SUFFICES /\ n \in Queries /\ n.at \in {"counted", "rows", "read"}
               /\ n.panel = q.panel /\ n.held = q.held /\ n.data.rows <= q.held
               /\ n.at = "counted" => n.data.total <= q.held /\ q.panel \in Counted
               /\ n.data.total <= q.held + Extra(q.panel)
  BY <1>1 DEF QueryOK, HasData, Querying
<1>3. CASE q.at = "count" /\ Live(CountKey)
  <2> DEFINE c == entry[CountKey].data
  <2>1. n = [q EXCEPT !.at = "rows", !.data = [c EXCEPT !.rows = 0]]
    BY <1>3 DEF Advanced
  <2>2. entry[CountKey].left \in Nat /\ c \in Datas /\ c.total \in Nat /\ EntryOK(CountKey)
    BY CountKeyOK DEF EntriesOK, Datas
  <2>3. c.total <= TTL(CountKey) - entry[CountKey].left + MaxHeld + ExtraOf(CountKey)
    BY <1>3, <2>2 DEF EntryOK
  <2>4. c.total <= TableTTL + MaxHeld
    BY <2>2, <2>3, CountKeyOK, Bounds
  <2>5. Extra(q.panel) = TableTTL + MaxHeld
    BY <1>3 DEF QueryOK, Extra
  <2>6. c.total <= q.held + Extra(q.panel)
    BY <1>1, <2>2, <2>4, <2>5, Bounds
  <2> HIDE DEF c, n
  <2>7. /\ n \in Queries /\ n.at = "rows" /\ n.panel = q.panel /\ n.held = q.held
        /\ n.data.rows = 0 /\ n.data.total = c.total
    BY <1>1, <2>1, <2>2 DEF Places, Datas, Queries
  <2> QED
    BY <1>1, <2>6, <2>7
<1>4. CASE q.at = "count" /\ ~Live(CountKey)
  <2>1. n = [q EXCEPT !.at = "counted", !.data = Fresh] /\ q.panel \in Counted
    BY <1>4 DEF Advanced, QueryOK
  <2> HIDE DEF n
  <2>2. /\ n \in Queries /\ n.at = "counted" /\ n.panel = q.panel /\ n.held = q.held
        /\ n.data = Fresh
    BY <1>1, <2>1, FreshOK DEF Places, Queries
  <2> QED
    BY <1>1, <2>1, <2>2, FreshOK
<1>5. CASE q.at = "counted"
  <2>1. n = [q EXCEPT !.at = "rows"] /\ q.data.total <= q.held /\ q.data.total \in Nat
    BY <1>1, <1>5 DEF Advanced, QueryOK, Queries, Datas
  <2> HIDE DEF n
  <2>2. /\ n \in Queries /\ n.at = "rows" /\ n.panel = q.panel /\ n.held = q.held
        /\ n.data = q.data
    BY <1>1, <2>1 DEF Places, Queries
  <2> QED
    BY <1>1, <2>1, <2>2
<1>6. CASE q.at = "rows" /\ q.panel \in Counted
  <2>1. n = [q EXCEPT !.at = "read", !.data.rows = 0] /\ q.data.total <= q.held + Extra(q.panel)
    BY <1>6 DEF Advanced, QueryOK, HasData, Querying
  <2> HIDE DEF n
  <2>2. /\ n \in Queries /\ n.at = "read" /\ n.panel = q.panel /\ n.held = q.held
        /\ n.data.rows = 0 /\ n.data.total = q.data.total
    BY <1>1, <2>1 DEF Places, Queries, Datas
  <2> QED
    BY <1>1, <2>1, <2>2
<1>7. CASE q.at = "rows" /\ q.panel \notin Counted
  <2>1. n = [q EXCEPT !.at = "read", !.data = Fresh]
    BY <1>7 DEF Advanced
  <2> HIDE DEF n
  <2>2. /\ n \in Queries /\ n.at = "read" /\ n.panel = q.panel /\ n.held = q.held
        /\ n.data = Fresh
    BY <1>1, <2>1, FreshOK DEF Places, Queries
  <2> QED
    BY <1>1, <2>2, FreshOK
<1> QED
  BY <1>3, <1>4, <1>5, <1>6, <1>7 DEF Querying

(* What a query stores, the count, is as old as itself. *)
LEMMA CountStoredOK ==
  ASSUME EntriesOK, ScanOK, UNCHANGED writeVars, NEW q, QueryOK(q), Querying(q),
         entry' = CountStored(q)
  PROVE  EntriesOK' /\ ScanOK'
<1>1. CASE q.at = "counted"
  <2>1. entry' = Stored({CountKey}, q.data)
    BY <1>1 DEF CountStored
  <2>2. /\ q.data \in Datas /\ q.data.rows \in Nat /\ q.data.total \in Nat
        /\ q.held \in Nat /\ q.held <= MaxHeld
        /\ q.data.rows <= q.held /\ q.data.total <= q.held
    BY <1>1 DEF QueryOK, Queries, Datas
  <2>3. q.data.rows <= MaxHeld /\ q.data.total <= MaxHeld + ExtraOf(CountKey)
    BY <2>2, CountKeyOK, Bounds
  <2> QED
    BY <2>1, <2>2, <2>3, StoredOK
<1>2. CASE q.at # "counted"
  BY <1>2 DEF CountStored, EntriesOK, EntryOK, Live, ScanOK, writeVars
<1> QED
  BY <1>1, <1>2
-----------------------------------------------------------------------------
(* A query that has begun, or not; one whose data missed, or is excused, a     *)
(* write; one that a tick has made older.                                      *)
LEMMA AtOK ==
  ASSUME NEW where \in Places, NEW p, NEW h \in Nat, h <= MaxHeld,
         where \in {"free", "idle", "next", "blobs"} => p = NoPanel,
         where \notin {"free", "idle", "next", "blobs"} => p \in Panels,
         where \in {"count", "counted"} => p \in Counted
  PROVE  QueryOK([At(where, p) EXCEPT !.held = h]) /\ QueryOK(At(where, p))
<1>1. ASSUME NEW n, NEW g \in Nat, g <= MaxHeld, n \in Queries,
             n.at = where, n.panel = p, n.data = Fresh, n.held = g
      PROVE  QueryOK(n)
  <2>1. Extra(p) \in Nat
    BY ExtraTyped
  <2> QED
    BY <1>1, <2>1, FreshOK DEF QueryOK
<1>2. p \in Panels \cup {NoPanel} /\ 0 \in Nat /\ 0 <= MaxHeld
  BY Bounds
<1> DEFINE n == At(where, p)
           m == [At(where, p) EXCEPT !.held = h]
<1>3. /\ n \in Queries /\ n.at = where /\ n.panel = p /\ n.data = Fresh /\ n.held = 0
      /\ m \in Queries /\ m.at = where /\ m.panel = p /\ m.data = Fresh /\ m.held = h
  BY <1>2, FreshOK DEF At, Queries
<1> HIDE DEF n, m
<1> QED
  BY <1>1, <1>2, <1>3 DEF n, m

LEMMA StartsOK ==
  ASSUME NEW h \in Nat, h <= MaxHeld
  PROVE  /\ QueryOK(NoRequest) /\ QueryOK(Idle) /\ QueryOK(At("next", NoPanel))
         /\ QueryOK([At("next", NoPanel) EXCEPT !.held = h])
         /\ \A p \in Panels :
              /\ QueryOK(At("warm", p)) /\ QueryOK(At("table", p))
              /\ QueryOK(Query(p)) /\ QueryOK([Query(p) EXCEPT !.held = h])
<1>1. ASSUME NEW where \in {"free", "idle", "next"}
      PROVE  /\ QueryOK(At(where, NoPanel))
             /\ QueryOK([At(where, NoPanel) EXCEPT !.held = h])
  <2>1. /\ where \in Places /\ where \notin {"count", "counted"}
        /\ where \in {"free", "idle", "next", "blobs"}
    BY DEF Places
  <2> QED
    BY <2>1, AtOK
<1>2. ASSUME NEW p \in Panels, NEW where \in {"warm", "table", "rows", "count"},
             where = "count" => p \in Counted
      PROVE  QueryOK(At(where, p)) /\ QueryOK([At(where, p) EXCEPT !.held = h])
  <2>1. /\ where \in Places /\ where \notin {"free", "idle", "next", "blobs"}
        /\ where \in {"count", "counted"} => p \in Counted
    BY <1>2 DEF Places
  <2> QED
    BY <2>1, AtOK
<1> QED
  BY <1>1, <1>2 DEF NoRequest, Idle, Query

LEMMA SameAgeOK ==
  ASSUME NEW q, QueryOK(q), NEW d \in Datas, d.rows = q.data.rows, d.total = q.data.total
  PROVE  QueryOK([q EXCEPT !.data = d])
<1> DEFINE n == [q EXCEPT !.data = d]
<1>1. /\ n \in Queries /\ n.at = q.at /\ n.panel = q.panel /\ n.data = d /\ n.held = q.held
  BY DEF QueryOK, Queries
<1> HIDE DEF n
<1> QED
  BY <1>1 DEF QueryOK, HasData, Querying, n

LEMMA MarksOK ==
  ASSUME NEW d \in Datas
  PROVE  /\ Missing(d) \in Datas /\ Missing(d).rows = d.rows /\ Missing(d).total = d.total
         /\ Excused(d) \in Datas /\ Excused(d).rows = d.rows /\ Excused(d).total = d.total
         /\ d.misses = "nothing" => Lost(d) = d /\ Excused(d) = d
         /\ Excused(d).misses = "nothing"
  BY DEF Missing, Excused, Lost, Unmarked, Datas

LEMMA MarkedOK ==
  ASSUME NEW q, QueryOK(q)
  PROVE  QueryOK(InQuery(q, Missing)) /\ QueryOK(InQuery(q, Excused))
<1>1. q.data \in Datas
  BY DEF QueryOK, Queries
<1> QED
  BY <1>1, MarksOK, SameAgeOK DEF InQuery

-----------------------------------------------------------------------------
(* The steps of a request. *)
LEMMA ReaderPreserves ==
  ASSUME DInv, NEW r \in Readers,
         \/ \E p \in Panels : Ask(r, p)
         \/ LookWarm(r) \/ LookTable(r)
         \/ ReaderQueries(r) \/ Answer(r) \/ ReaderFails(r)
  PROVE  DInv'
<1>1. /\ UNCHANGED warmVars => WarmOK'
      /\ UNCHANGED <<entry, writeVars>> => EntriesOK' /\ ScanOK'
  BY DEF DInv, WarmOK, warmVars, EntriesOK, EntryOK, Live, ScanOK, writeVars
<1>2. ASSUME NEW q, QueryOK(q), reader' = [reader EXCEPT ![r] = q] PROVE ReadersOK'
  BY <1>2 DEF DInv, ReadersOK
<1>3. QueryOK(reader[r])
  BY DEF DInv, ReadersOK
<1>4. 0 \in Nat /\ 0 <= MaxHeld
  BY Bounds
<1>5. /\ QueryOK(NoRequest)
      /\ \A p \in Panels :
           QueryOK(At("warm", p)) /\ QueryOK(At("table", p)) /\ QueryOK(Query(p))
  BY <1>4, StartsOK
<1>6. ASSUME NEW p \in Panels, Ask(r, p) PROVE DInv'
  BY <1>1, <1>2, <1>5, <1>6 DEF Ask, DInv
<1>7. CASE LookWarm(r)
  <2>1. [reader[r] EXCEPT !.at = "table"] \in Queries /\ reader[r].panel \in Panels
    BY <1>3, <1>7 DEF LookWarm, QueryOK, Queries, Places
  <2>2. QueryOK([reader[r] EXCEPT !.at = "table"])
    BY <1>3, <2>1 DEF QueryOK, Queries, HasData, Querying
  <2> QED
    BY <1>1, <1>2, <1>5, <1>7, <2>2 DEF LookWarm, DInv
<1>8. CASE LookTable(r)
  <2>1. reader[r].panel \in Panels
    BY <1>3, <1>8 DEF LookTable, QueryOK
  <2> QED
    BY <1>1, <1>2, <1>5, <1>8, <2>1 DEF LookTable, DInv
<1>9. CASE ReaderQueries(r)
  <2>1. QueryOK(Advanced(reader[r]))
    BY <1>3, <1>9, AdvancedOK DEF ReaderQueries, DInv
  <2>2. EntriesOK' /\ ScanOK'
    BY <1>3, <1>9, CountStoredOK DEF ReaderQueries, DInv
  <2> QED
    BY <1>1, <1>2, <1>9, <2>1, <2>2 DEF ReaderQueries, DInv
<1>10. CASE Answer(r)
  <2> DEFINE q == reader[r]
             ks == {<<t, q.panel>> : t \in Tiers[q.panel] \ WarmTiers}
  <2>1. /\ q.panel \in Panels /\ q.data \in Datas /\ q.held \in Nat /\ q.held <= MaxHeld
        /\ q.data.rows <= q.held /\ q.data.total <= q.held + Extra(q.panel)
        /\ q.data.rows \in Nat /\ q.data.total \in Nat
    BY <1>3, <1>10 DEF Answer, QueryOK, Queries, HasData, Datas
  <2>2. ASSUME NEW k \in ks PROVE k[1] = "agg" \/ q.data.total <= MaxHeld + ExtraOf(k)
    <3>1. PICK t \in Tiers[q.panel] \ WarmTiers : k = <<t, q.panel>>
      OBVIOUS
    <3>2. CASE t = "agg"
      BY <3>1, <3>2
    <3>3. CASE t # "agg"
      <4>1. ExtraOf(k) = Extra(q.panel) /\ Extra(q.panel) \in Nat
        BY <2>1, <3>1, <3>3, ExtraOfPanel, ExtraTyped
      <4> QED
        BY <2>1, <4>1, Bounds
    <3> QED
      BY <3>2, <3>3
  <2>3. q.data.rows <= MaxHeld
    BY <2>1, Bounds
  <2>4. entry' = Stored(ks, q.data) /\ UNCHANGED writeVars
    BY <1>10 DEF Answer
  <2> HIDE DEF ks, q
  <2>5. EntriesOK' /\ ScanOK'
    BY <2>1, <2>2, <2>3, <2>4, StoredOK DEF DInv
  <2> QED
    BY <1>1, <1>2, <1>5, <1>10, <2>5 DEF Answer, DInv
<1>11. CASE ReaderFails(r)
  BY <1>1, <1>2, <1>5, <1>11 DEF ReaderFails, DInv
<1> QED
  BY <1>6, <1>7, <1>8, <1>9, <1>10, <1>11
-----------------------------------------------------------------------------
(* The blobs that the task keeps, when it goes on and when it is done. *)
LEMMA KeptStays ==
  ASSUME WarmOK, QueryOK(warmup'), kept' = kept, warmup'.held = warmup.held,
         warmup'.at \notin {"free", "warm", "table", "idle"}
  PROVE  WarmOK'
  BY DEF WarmOK

LEMMA KeptGoes ==
  ASSUME QueryOK(warmup'), warmup'.at \notin {"free", "warm", "table"},
         kept' = [p \in Panels |-> NoData]
  PROVE  WarmOK'
  BY DEF WarmOK

(* The panels that the task warms, by tier. *)
LEMMA TierOK ==
  ASSUME NEW p \in Panels, NEW keys, NEW n \in Nat, n <= MaxHeld + Extra(p),
         keys \subseteq {<<t, p>> : t \in AllTiers}
  PROVE  \A k \in keys : k[1] = "agg" \/ n <= MaxHeld + ExtraOf(k)
<1> SUFFICES ASSUME NEW t \in AllTiers, t # "agg" PROVE n <= MaxHeld + ExtraOf(<<t, p>>)
  OBVIOUS
<1> QED
  BY ExtraOfPanel

(* The steps of the task. *)
LEMMA WarmUpPreserves ==
  ASSUME DInv,
         \/ WarmUp \/ WarmQueries \/ WarmStores \/ WarmStats \/ WarmEnds
         \/ \E p \in Panels : WarmNext(p) \/ WarmBlob(p)
  PROVE  DInv'
<1>1. /\ UNCHANGED reader => ReadersOK'
      /\ UNCHANGED <<entry, writeVars>> => EntriesOK' /\ ScanOK'
  BY DEF DInv, ReadersOK, EntriesOK, EntryOK, Live, ScanOK, writeVars
<1>2. /\ WarmOK /\ QueryOK(warmup) /\ warmup \in Queries
      /\ warmup.held \in Nat /\ warmup.held <= MaxHeld
  BY DEF DInv, WarmOK, QueryOK, Queries
<1>3. /\ QueryOK(Idle) /\ QueryOK(At("next", NoPanel))
      /\ QueryOK([At("next", NoPanel) EXCEPT !.held = warmup.held])
      /\ \A p \in Panels : QueryOK([Query(p) EXCEPT !.held = warmup.held])
  BY <1>2, StartsOK
<1>4. /\ Idle.at = "idle" /\ At("next", NoPanel).at = "next"
      /\ [At("next", NoPanel) EXCEPT !.held = warmup.held].at = "next"
      /\ [At("next", NoPanel) EXCEPT !.held = warmup.held].held = warmup.held
      /\ \A p \in Panels :
           /\ [Query(p) EXCEPT !.held = warmup.held].at \in {"count", "rows"}
           /\ [Query(p) EXCEPT !.held = warmup.held].held = warmup.held
  BY DEF Idle, At, Query
<1>5. CASE WarmUp
  <2>1. kept = [p \in Panels |-> NoData]
    BY <1>2, <1>4, <1>5 DEF WarmUp, WarmOK
  <2>2. WarmOK'
    BY <1>3, <1>4, <1>5, <2>1, KeptGoes DEF WarmUp
  <2> QED
    BY <1>1, <1>5, <2>2 DEF WarmUp, DInv
<1>6. ASSUME NEW p \in Panels, WarmNext(p) PROVE DInv'
  <2>1. WarmOK'
    BY <1>2, <1>3, <1>4, <1>6, KeptStays DEF WarmNext
  <2> QED
    BY <1>1, <1>6, <2>1 DEF WarmNext, DInv
<1>7. CASE WarmQueries
  <2>1. /\ QueryOK(Advanced(warmup)) /\ Advanced(warmup).held = warmup.held
        /\ HasData(Advanced(warmup))
    BY <1>2, <1>7, AdvancedOK DEF WarmQueries, DInv
  <2>2. EntriesOK' /\ ScanOK'
    BY <1>2, <1>7, CountStoredOK DEF WarmQueries, DInv
  <2>3. WarmOK'
    BY <1>2, <1>7, <2>1, KeptStays DEF WarmQueries, HasData, Querying
  <2> QED
    BY <1>1, <1>7, <2>2, <2>3 DEF WarmQueries, DInv
<1>8. CASE WarmStores
  <2> DEFINE p == warmup.panel
             d == warmup.data
             ks == {<<t, p>> : t \in Warmed[p] \ {"blob"}}
  <2>1. /\ p \in Panels /\ d \in Datas /\ d.rows \in Nat /\ d.total \in Nat
        /\ d.rows <= warmup.held /\ d.total <= warmup.held + Extra(p)
    BY <1>2, <1>8 DEF WarmStores, QueryOK, Queries, HasData, Datas
  <2>2. d.rows <= MaxHeld /\ d.total <= MaxHeld + Extra(p)
    BY <1>2, <2>1, Bounds, ExtraTyped
  <2>3. p \in DOMAIN AllPanels
    BY <2>1, CacheAssumption DEF CacheAssumption
  <2>4. Warmed[p] \subseteq AllTiers
    BY <2>1, <2>3, CacheAssumption DEF CacheAssumption, Warmed
  <2>5. entry' = Stored(ks, d) /\ UNCHANGED writeVars
    BY <1>8 DEF WarmStores
  <2>6. ks \subseteq {<<t, p>> : t \in AllTiers}
    BY <2>4
  <2>7. /\ warmup' = [At("next", NoPanel) EXCEPT !.held = warmup.held]
        /\ kept' \in {kept, [kept EXCEPT ![p] = Unmarked(d)]}
    BY <1>8 DEF WarmStores
  <2> HIDE DEF ks, d, p
  <2>8. EntriesOK' /\ ScanOK'
    BY <2>1, <2>2, <2>5, <2>6, TierOK, StoredOK DEF DInv
  <2>9. /\ Unmarked(d) \in Datas /\ Unmarked(d).misses = "nothing"
        /\ Unmarked(d).rows = d.rows /\ Unmarked(d).total = d.total
    BY <2>1 DEF Unmarked, Datas
  <2>10. QueryOK(warmup') /\ warmup'.at = "next" /\ warmup'.held = warmup.held
    BY <1>3, <1>4, <2>7
  <2>11. ASSUME kept' = kept PROVE WarmOK'
    BY <1>2, <2>10, <2>11, KeptStays
  <2>12. ASSUME kept' = [kept EXCEPT ![p] = Unmarked(d)] PROVE WarmOK'
    BY <1>2, <2>1, <2>9, <2>10, <2>12 DEF WarmOK
  <2> QED
    BY <1>1, <1>8, <2>7, <2>8, <2>11, <2>12 DEF WarmStores, DInv
<1>9. CASE WarmStats
  <2>1. EntriesOK' /\ ScanOK'
    <3>1. /\ entry' = Stored({StatsKey}, Fresh) /\ UNCHANGED writeVars
          /\ ExtraOf(StatsKey) \in Nat /\ MaxHeld \in Nat
      BY <1>9, ExtraTyped, Bounds DEF WarmStats
    <3>2. Fresh.rows <= MaxHeld /\ Fresh.total <= MaxHeld + ExtraOf(StatsKey)
      BY <3>1, FreshOK
    <3> QED
      BY <3>1, <3>2, FreshOK, StoredOK DEF DInv
  <2> DEFINE n == [warmup EXCEPT !.at = "blobs"]
  <2>2. /\ n \in Queries /\ n.at = "blobs" /\ n.panel = warmup.panel
        /\ n.data = warmup.data /\ n.held = warmup.held
    BY <1>2 DEF Queries, Places
  <2> HIDE DEF n
  <2>3. QueryOK(n)
    BY <1>2, <2>2 DEF QueryOK, HasData, Querying
  <2>4. warmup' = n /\ kept' = kept
    BY <1>9 DEF WarmStats, n
  <2>5. WarmOK'
    BY <1>2, <2>2, <2>3, <2>4, KeptStays
  <2> QED
    BY <1>1, <1>9, <2>1, <2>5 DEF WarmStats, DInv
<1>10. ASSUME NEW p \in Panels, WarmBlob(p) PROVE DInv'
  <2> DEFINE d == kept[p]
  <2>1. /\ d \in Datas /\ d.rows \in Nat /\ d.total \in Nat
        /\ d.rows <= warmup.held /\ d.total <= warmup.held + Extra(p)
    BY <1>2, <1>10 DEF WarmBlob, WarmOK, Datas
  <2>2. d.rows <= MaxHeld /\ d.total <= MaxHeld + Extra(p)
    BY <1>2, <2>1, Bounds, ExtraTyped
  <2>3. entry' = Stored({<<"blob", p>>}, d) /\ UNCHANGED writeVars
    BY <1>10 DEF WarmBlob
  <2> HIDE DEF d
  <2>4. ExtraOf(<<"blob", p>>) = Extra(p)
    BY ExtraOfPanel
  <2>5. EntriesOK' /\ ScanOK'
    BY <2>1, <2>2, <2>3, <2>4, StoredOK DEF DInv
  <2>6. WarmOK'
    BY <1>2, <1>10 DEF WarmBlob, WarmOK
  <2> QED
    BY <1>1, <1>10, <2>5, <2>6 DEF WarmBlob, DInv
<1>11. CASE WarmEnds
  <2>1. WarmOK'
    BY <1>3, <1>4, <1>11, KeptGoes DEF WarmEnds
  <2> QED
    BY <1>1, <1>11, <2>1 DEF WarmEnds, DInv
<1> QED
  BY <1>5, <1>6, <1>7, <1>8, <1>9, <1>10, <1>11
-----------------------------------------------------------------------------
(* Marking what misses a write makes nothing older. *)
LEMMA SameAgesOK ==
  ASSUME EntriesOK, entry' \in [Keys -> [left : Nat, data : Datas, during : BOOLEAN]],
         \A k \in Keys :
           /\ entry'[k].left = entry[k].left
           /\ entry'[k].data.rows = entry[k].data.rows
           /\ entry'[k].data.total = entry[k].data.total
           /\ entry[k].data.misses = "nothing" /\ ~Live(k) => entry'[k].data.misses = "nothing"
  PROVE  EntriesOK'
<1>1. ASSUME NEW k \in Keys
      PROVE  EntryOK(k)' /\ (Live(k) \/ entry[k].data.misses = "nothing")'
  BY <1>1 DEF EntriesOK, EntryOK, Live
<1> QED
  BY <1>1 DEF EntriesOK

LEMMA MarkedReaders ==
  ASSUME ReadersOK, reader' \in {InReaders(Missing), InReaders(Excused)}
  PROVE  ReadersOK'
  BY MarkedOK DEF ReadersOK, InReaders

LEMMA MarkedWarm ==
  ASSUME WarmOK, kept' = kept,
         warmup' \in {InQuery(warmup, Missing), InQuery(warmup, Excused)}
  PROVE  WarmOK'
<1>1. QueryOK(warmup')
  BY MarkedOK DEF WarmOK
<1>2. warmup'.at = warmup.at /\ warmup'.held = warmup.held
  BY DEF InQuery, WarmOK, QueryOK, Queries
<1> QED
  BY <1>1, <1>2 DEF WarmOK

(* The steps of a write.  The last one of its invalidation loses nothing: the  *)
(* scan has come to every entry that was there when it began.                  *)
LEMMA WritePreserves ==
  ASSUME DInv,
         \/ Commit \/ Invalidate \/ Invalidated \/ InvalidationFails
         \/ \E k \in TableKeys : InvalidateKey(k)
  PROVE  DInv'
<1>1. /\ UNCHANGED <<warmup, kept>> => WarmOK'
      /\ UNCHANGED reader => ReadersOK'
  BY DEF DInv, ReadersOK, WarmOK
<1>2. ASSUME NEW k \in Keys
      PROVE  /\ entry[k] \in [left : Nat, data : Datas, during : BOOLEAN]
             /\ entry[k].data \in Datas
             /\ ~Live(k) => entry[k].data.misses = "nothing"
  BY DEF DInv, EntriesOK
<1>3. CASE Commit
  <2>1. entry' = [k \in Keys |-> IF k \in TableKeys /\ Live(k)
                                  THEN [entry[k] EXCEPT !.data = Missing(@)] ELSE entry[k]]
    BY <1>3 DEF Commit, InEntries
  <2>2. ASSUME NEW k \in Keys
        PROVE  /\ entry'[k] \in [left : Nat, data : Datas, during : BOOLEAN]
               /\ entry'[k].left = entry[k].left
               /\ entry'[k].data.rows = entry[k].data.rows
               /\ entry'[k].data.total = entry[k].data.total
               /\ ~Live(k) => entry'[k].data = entry[k].data
    <3>1. Missing(entry[k].data) \in Datas
      BY <1>2, MarksOK
    <3> QED
      BY <1>2, <2>1, <3>1, MarksOK
  <2>3. EntriesOK'
    <3>1. entry' \in [Keys -> [left : Nat, data : Datas, during : BOOLEAN]]
      BY <2>1, <2>2
    <3> QED
      BY <2>2, <3>1, SameAgesOK DEF DInv
  <2>4. ReadersOK' /\ WarmOK' /\ ScanOK'
    BY <1>3, MarkedReaders, MarkedWarm DEF Commit, DInv, ScanOK
  <2> QED
    BY <2>3, <2>4 DEF DInv
<1>4. CASE Invalidate
  <2>1. EntriesOK' /\ ScanOK'
    BY <1>4 DEF Invalidate, DInv, EntriesOK, EntryOK, Live, ScanOK
  <2> QED
    BY <1>1, <1>4, <2>1 DEF Invalidate, warmVars, DInv
<1>5. ASSUME NEW k \in TableKeys, InvalidateKey(k) PROVE DInv'
  <2>1. k \in Keys /\ entry' = [entry EXCEPT ![k] = NoEntry]
    BY <1>5 DEF InvalidateKey, TableKeys
  <2>2. /\ NoEntry \in [left : Nat, data : Datas, during : BOOLEAN]
        /\ NoEntry.left = 0 /\ NoEntry.data.misses = "nothing"
    BY FreshOK DEF NoEntry, Fresh
  <2> HIDE DEF NoEntry
  <2>3. EntriesOK'
    <3>1. entry' \in [Keys -> [left : Nat, data : Datas, during : BOOLEAN]]
      BY <2>1, <2>2 DEF DInv, EntriesOK
    <3>2. ASSUME NEW j \in Keys
          PROVE  EntryOK(j)' /\ (Live(j) \/ entry[j].data.misses = "nothing")'
      <4>1. entry'[j] = IF j = k THEN NoEntry ELSE entry[j]
        BY <2>1 DEF DInv, EntriesOK
      <4> QED
        BY <2>2, <4>1 DEF DInv, EntriesOK, EntryOK, Live
    <3> QED
      BY <3>1, <3>2 DEF EntriesOK
  <2>4. ScanOK'
    <3>1. ASSUME NEW j \in TableKeys
          PROVE  entry'[j] = IF j = k THEN NoEntry ELSE entry[j]
      BY <2>1 DEF DInv, EntriesOK, TableKeys
    <3>2. scan' = scan \ {k} /\ write' = write
      BY <1>5 DEF InvalidateKey
    <3> QED
      BY <2>2, <3>1, <3>2 DEF DInv, ScanOK, Live
  <2> QED
    BY <1>1, <1>5, <2>3, <2>4 DEF InvalidateKey, warmVars, DInv
<1>6. CASE Invalidated
  <2> DEFINE d(k) == IF k \notin TableKeys THEN entry[k].data
                     ELSE IF entry[k].during THEN Excused(entry[k].data)
                     ELSE Lost(entry[k].data)
             e == [k \in Keys |->
                     IF k \notin TableKeys THEN entry[k]
                     ELSE [entry[k] EXCEPT !.data =
                             IF entry[k].during THEN Excused(@) ELSE Lost(@)]]
  <2>1. ASSUME NEW k \in Keys
        PROVE  /\ d(k) \in Datas /\ d(k).rows = entry[k].data.rows
               /\ d(k).total = entry[k].data.total
               /\ entry[k].data.misses = "nothing" => d(k).misses = "nothing"
    <3>1. k \in TableKeys /\ ~entry[k].during => entry[k].data.misses = "nothing"
      <4>1. scan = {} /\ write = "scan"
        BY <1>6 DEF Invalidated
      <4>2. k \in TableKeys /\ Live(k) /\ ~entry[k].during => entry[k].data.misses # "a write"
        BY <4>1 DEF DInv, ScanOK
      <4> QED
        BY <1>2, <4>2 DEF Datas
    <3> QED
      BY <1>2, <3>1, MarksOK
  <2>2. entry' = Settled(e)
    BY <1>6 DEF Invalidated
  <2> HIDE DEF d
  <2>3. ASSUME NEW k \in Keys
        PROVE  /\ entry'[k].left = entry[k].left /\ entry'[k].data = d(k)
               /\ entry'[k] \in [left : Nat, data : Datas, during : BOOLEAN]
    <3>1. /\ e[k].left = entry[k].left /\ e[k].data = d(k)
          /\ e[k] \in [left : Nat, data : Datas, during : BOOLEAN]
      BY <1>2, <2>1 DEF d
    <3> HIDE DEF e
    <3> QED
      BY <2>2, <3>1 DEF Settled
  <2> HIDE DEF e
  <2>4. entry' \in [Keys -> [left : Nat, data : Datas, during : BOOLEAN]]
    BY <2>2, <2>3 DEF Settled
  <2>5. EntriesOK'
    BY <2>1, <2>3, <2>4, SameAgesOK DEF DInv
  <2>6. ReadersOK' /\ WarmOK' /\ ScanOK'
    BY <1>6, MarkedReaders, MarkedWarm DEF Invalidated, DInv, ScanOK
  <2> QED
    BY <2>5, <2>6 DEF DInv
<1>7. CASE InvalidationFails
  <2>1. entry' = [k \in Keys |-> [entry[k] EXCEPT !.during = FALSE]]
    BY <1>7 DEF InvalidationFails, Settled
  <2>2. ASSUME NEW k \in Keys
        PROVE  /\ entry'[k].left = entry[k].left /\ entry'[k].data = entry[k].data
               /\ entry'[k] \in [left : Nat, data : Datas, during : BOOLEAN]
    BY <1>2, <2>1
  <2>3. entry' \in [Keys -> [left : Nat, data : Datas, during : BOOLEAN]]
    BY <2>1, <2>2
  <2>4. EntriesOK'
    BY <2>2, <2>3, SameAgesOK DEF DInv
  <2>5. ScanOK'
    BY <1>7 DEF InvalidationFails, ScanOK
  <2> QED
    BY <1>1, <1>7, <2>4, <2>5 DEF InvalidationFails, warmVars, DInv
<1> QED
  BY <1>3, <1>4, <1>5, <1>6, <1>7
-----------------------------------------------------------------------------
(* Time passes for what is cached, for the requests and for the task alike. *)
Begun(q) == q.at \notin {"free", "idle", "warm", "table"}
Aged(q) == IF Begun(q) THEN [InQuery(q, Older) EXCEPT !.held = @ + 1] ELSE q

LEMMA OlderOK ==
  ASSUME NEW d \in Datas
  PROVE  /\ Older(d) \in Datas /\ Older(d).misses = d.misses
         /\ Older(d).rows = d.rows + 1 /\ Older(d).total = d.total + 1
         /\ d.rows \in Nat /\ d.total \in Nat
<1> DEFINE m == d.rows + 1
           n == d.total + 1
<1>1. d.rows \in Nat /\ d.total \in Nat /\ m \in Nat /\ n \in Nat
  <2>1. d.rows \in Nat /\ d.total \in Nat
    BY DEF Datas
  <2> QED
    BY <2>1
<1>2. Older(d) = [d EXCEPT !.rows = m, !.total = n]
  BY DEF Older
<1> HIDE DEF m, n
<1>3. /\ Older(d) \in Datas /\ Older(d).misses = d.misses
      /\ Older(d).rows = m /\ Older(d).total = n
  BY <1>1, <1>2 DEF Datas
<1> QED
  BY <1>1, <1>3 DEF m, n

LEMMA AgedOK ==
  ASSUME NEW q, QueryOK(q), Begun(q) => q.held < MaxHeld
  PROVE  /\ QueryOK(Aged(q)) /\ Aged(q).at = q.at
         /\ Aged(q).held = IF Begun(q) THEN q.held + 1 ELSE q.held
<1>1. CASE ~Begun(q)
  BY <1>1 DEF Aged
<1>2. CASE Begun(q)
  <2> DEFINE d == IF HasData(q) THEN Older(q.data) ELSE q.data
             n == [at |-> q.at, panel |-> q.panel, data |-> d, held |-> q.held + 1]
  <2>1. q \in Queries /\ q.data \in Datas /\ q.held \in Nat /\ Extra(q.panel) \in Nat
    BY ExtraTyped DEF QueryOK, Queries
  <2>2. Aged(q) = n
    BY <1>2, <2>1 DEF Aged, InQuery, Queries
  <2>3. /\ d \in Datas /\ d.rows \in Nat /\ d.total \in Nat
        /\ q.data.rows \in Nat /\ q.data.total \in Nat
        /\ HasData(q) => d.rows = q.data.rows + 1 /\ d.total = q.data.total + 1
        /\ ~HasData(q) => d = q.data
    BY <2>1, OlderOK
  <2> HIDE DEF d
  <2>4. /\ n \in Queries /\ n.at = q.at /\ n.panel = q.panel /\ n.data = d
        /\ n.held = q.held + 1 /\ q.held + 1 <= MaxHeld
    BY <1>2, <2>1, <2>3, Bounds DEF Queries
  <2> HIDE DEF n
  <2>5. HasData(n) <=> HasData(q)
    BY <2>4 DEF HasData, Querying
  <2>6. n.data.rows <= n.held
    BY <2>1, <2>3, <2>4 DEF QueryOK
  <2>7. n.at = "counted" => n.data.total <= n.held
    BY <2>1, <2>3, <2>4 DEF QueryOK, HasData, Querying
  <2>8. HasData(n) => n.data.total <= n.held + Extra(n.panel)
    BY <2>1, <2>3, <2>4, <2>5 DEF QueryOK
  <2>9. QueryOK(n)
    BY <2>4, <2>6, <2>7, <2>8 DEF QueryOK
  <2> QED
    BY <1>2, <2>2, <2>4, <2>9
<1> QED
  BY <1>1, <1>2

LEMMA TickPreserves ==
  ASSUME DInv, CacheTick
  PROVE  DInv'
<1>1. /\ \A r \in Readers : Begun(reader[r]) => reader[r].held < MaxHeld
      /\ Begun(warmup) => warmup.held < MaxHeld
      /\ reader' = [r \in Readers |-> Aged(reader[r])]
      /\ warmup' = Aged(warmup)
      /\ kept' = [p \in Panels |-> IF kept[p] = NoData THEN NoData ELSE Older(kept[p])]
      /\ UNCHANGED writeVars
  BY DEF CacheTick, Begun, Aged
<1>2. entry' = [k \in Keys |->
        IF entry[k].left <= 1 THEN NoEntry
        ELSE [(IF Live(k) THEN [entry[k] EXCEPT !.data = Older(@)] ELSE entry[k])
                EXCEPT !.left = @ - 1]]
  BY DEF CacheTick, InEntries
<1>3. ASSUME NEW k \in Keys
      PROVE  /\ entry'[k] \in [left : Nat, data : Datas, during : BOOLEAN]
             /\ entry[k].left \in Nat
             /\ entry'[k].left > 0 => entry[k].left > 1
             /\ entry[k].left > 1 => Live(k)
             /\ entry[k].left <= 1 =>
                  entry'[k].left = 0 /\ entry'[k].data.misses = "nothing"
             /\ entry[k].left > 1 =>
                  /\ entry'[k].left = entry[k].left - 1 /\ entry'[k].data = Older(entry[k].data)
                  /\ entry'[k].during = entry[k].during
  <2>1. /\ entry[k] \in [left : Nat, data : Datas, during : BOOLEAN]
        /\ entry[k].left \in Nat /\ entry[k].data \in Datas
    BY DEF DInv, EntriesOK
  <2>2. Older(entry[k].data) \in Datas
    BY <2>1, OlderOK
  <2>3. CASE entry[k].left <= 1
    <3>1. entry'[k] = NoEntry
      BY <1>2, <2>3
    <3>2. /\ NoEntry \in [left : Nat, data : Datas, during : BOOLEAN]
          /\ NoEntry.left = 0 /\ NoEntry.data.misses = "nothing"
      BY FreshOK DEF NoEntry, Fresh
    <3> QED
      BY <2>1, <2>3, <3>1, <3>2 DEF Live
  <2>4. CASE entry[k].left > 1
    <3>1. Live(k) /\ ~(entry[k].left <= 1) /\ entry[k].left - 1 \in Nat
      BY <2>1, <2>4 DEF Live
    <3>2. entry'[k] = [[entry[k] EXCEPT !.data = Older(@)] EXCEPT !.left = @ - 1]
      BY <1>2, <3>1
    <3>3. entry'[k] = [left |-> entry[k].left - 1, data |-> Older(entry[k].data),
                       during |-> entry[k].during]
      BY <2>1, <3>2
    <3> QED
      BY <2>1, <2>2, <3>1, <3>3
  <2> QED
    BY <2>1, <2>3, <2>4
<1>4. EntriesOK'
  <2>1. ASSUME NEW k \in Keys
        PROVE  EntryOK(k)' /\ (Live(k) \/ entry[k].data.misses = "nothing")'
    <3>1. CASE entry[k].left <= 1
      BY <1>3, <3>1 DEF EntryOK, Live
    <3>2. CASE entry[k].left > 1
      <4> DEFINE d == entry[k].data
                 since == TTL(k) - entry[k].left + MaxHeld
      <4>1. d \in Datas /\ EntryOK(k) /\ Live(k)
        BY <3>2 DEF DInv, EntriesOK, Live
      <4>2. /\ entry'[k].data.rows = d.rows + 1 /\ entry'[k].data.total = d.total + 1
            /\ d.rows \in Nat /\ d.total \in Nat
        BY <1>3, <3>2, <4>1, OlderOK
      <4>3. d.rows <= since /\ d.total <= since + ExtraOf(k)
        BY <4>1 DEF EntryOK
      <4>4. /\ TTL(k) - entry'[k].left + MaxHeld = since + 1 /\ since \in Int
            /\ entry'[k].left > 0 /\ ExtraOf(k) \in Nat
        BY <1>3, <3>2, LifeTyped, ExtraTyped, Bounds
      <4> HIDE DEF d, since
      <4>5. /\ entry'[k].data.rows <= TTL(k) - entry'[k].left + MaxHeld
            /\ entry'[k].data.total <= TTL(k) - entry'[k].left + MaxHeld + ExtraOf(k)
        BY <4>2, <4>3, <4>4
      <4> QED
        BY <4>4, <4>5 DEF EntryOK, Live
    <3> QED
      BY <1>3, <3>1, <3>2
  <2> QED
    BY <1>2, <1>3, <2>1 DEF EntriesOK
<1>5. ScanOK'
  <2> SUFFICES ASSUME write = "scan", NEW k \in TableKeys,
                      Live(k)', entry'[k].data.misses = "a write", ~entry'[k].during
               PROVE  k \in scan
    BY <1>1 DEF ScanOK, writeVars
  <2>1. k \in Keys /\ entry'[k].left > 0 /\ entry[k].left \in Nat
    BY <1>3 DEF TableKeys, Live
  <2>2. entry[k].left > 1 /\ Live(k)
    BY <1>3, <2>1
  <2>3. entry[k].data \in Datas
    BY <2>1 DEF DInv, EntriesOK
  <2>4. entry[k].data.misses = "a write" /\ ~entry[k].during /\ Live(k)
    BY <1>3, <2>1, <2>2, <2>3, OlderOK
  <2> QED
    BY <2>4 DEF DInv, ScanOK
<1>6. ReadersOK'
  BY <1>1, AgedOK DEF DInv, ReadersOK
<1>7. WarmOK'
  <2>1. /\ QueryOK(warmup') /\ warmup'.at = warmup.at
        /\ warmup'.held = IF Begun(warmup) THEN warmup.held + 1 ELSE warmup.held
        /\ warmup.held \in Nat
    BY <1>1, AgedOK DEF DInv, WarmOK, QueryOK, Queries
  <2>2. ASSUME NEW p \in Panels
        PROVE  /\ kept'[p] \in Datas \cup {NoData}
               /\ kept'[p] # NoData =>
                    /\ kept'[p].rows <= warmup'.held /\ kept'[p].total <= warmup'.held + Extra(p)
                    /\ kept'[p].misses = "nothing" /\ warmup'.at # "idle"
    <3>1. CASE kept[p] = NoData
      BY <1>1, <3>1
    <3>2. CASE kept[p] # NoData
      <4>1. /\ kept[p] \in Datas /\ warmup.at \notin {"free", "warm", "table", "idle"}
            /\ kept[p].rows <= warmup.held /\ kept[p].total <= warmup.held + Extra(p)
            /\ kept[p].misses = "nothing"
        BY <3>2 DEF DInv, WarmOK
      <4>2. warmup'.held = warmup.held + 1
        BY <2>1, <4>1 DEF Begun
      <4>3. kept'[p] = Older(kept[p])
        BY <1>1, <3>2
      <4>4. /\ Older(kept[p]) \in Datas /\ Older(kept[p]).misses = "nothing"
            /\ Older(kept[p]).rows = kept[p].rows + 1
            /\ Older(kept[p]).total = kept[p].total + 1
            /\ kept[p].rows \in Nat /\ kept[p].total \in Nat /\ Extra(p) \in Nat
        BY <4>1, OlderOK, ExtraTyped
      <4> QED
        BY <2>1, <4>1, <4>2, <4>3, <4>4
    <3> QED
      BY <3>1, <3>2
  <2> QED
    BY <1>1, <2>1, <2>2 DEF DInv, WarmOK
<1> QED
  BY <1>4, <1>5, <1>6, <1>7 DEF DInv

-----------------------------------------------------------------------------
LEMMA InvInit ==
  CacheInit => DInv
<1> SUFFICES ASSUME CacheInit PROVE DInv
  OBVIOUS
<1>1. /\ NoEntry \in [left : Nat, data : Datas, during : BOOLEAN]
      /\ NoEntry.left = 0 /\ NoEntry.data.misses = "nothing"
  BY FreshOK DEF NoEntry, Fresh
<1>2. 0 \in Nat /\ 0 <= MaxHeld
  BY Bounds
<1>3. QueryOK(NoRequest) /\ QueryOK(Idle) /\ Idle.at = "idle"
  BY <1>2, StartsOK DEF Idle, At
<1>4. EntriesOK
  BY <1>1 DEF CacheInit, EntriesOK, EntryOK, Live
<1>5. ReadersOK /\ WarmOK /\ ScanOK
  BY <1>3 DEF CacheInit, ReadersOK, WarmOK, ScanOK
<1> QED
  BY <1>4, <1>5 DEF DInv

LEMMA InvStep ==
  DInv /\ [CacheNext]_cacheVars => DInv'
<1> SUFFICES ASSUME DInv, [CacheNext]_cacheVars PROVE DInv'
  OBVIOUS
<1>1. CASE UNCHANGED cacheVars
  BY <1>1 DEF cacheVars, warmVars, writeVars, DInv, EntriesOK, EntryOK, Live,
              ReadersOK, WarmOK, ScanOK
<1> QED
  BY <1>1, ReaderPreserves, WarmUpPreserves, WritePreserves, TickPreserves DEF CacheNext

(* Whatever requests and warm-ups are under way, and wherever a request or a  *)
(* pod dies, a write whose invalidation is done shows in every page and total *)
(* of the table cache, but for those fetched or stored while it was under     *)
(* way.                                                                       *)
THEOREM Shown ==
  CacheSpec => []WritesShow
<1>1. DInv => WritesShow
  BY DEF DInv, EntriesOK, Datas, WritesShow, TableKeys
<1> QED
  BY <1>1, InvInit, InvStep, PTL DEF CacheSpec

(* No panel is older than its key's life and a query, nor its total than the  *)
(* life of the count and another query besides.                               *)
THEOREM NeverStaler ==
  CacheSpec => []NeverOlder
<1>1. DInv => NeverOlder
  BY DEF DInv, EntriesOK, EntryOK, ExtraOf, NeverOlder
<1> QED
  BY <1>1, InvInit, InvStep, PTL DEF CacheSpec
=============================================================================
