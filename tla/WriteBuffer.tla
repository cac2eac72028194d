---------------------------- MODULE WriteBuffer ----------------------------
(***************************************************************************)
(* The access-log write buffer of one pod in scalable mode                 *)
(* (src/src/database/core.py): requests append their entry in memory, and  *)
(* a task moves the entries to the database in batches.                    *)
(*                                                                         *)
(* The deque is bounded twice, in rows by its maxlen and in bytes by a     *)
(* running count.  Every step below holds _write_lock, or is one           *)
(* transaction: a flush pops a batch, inserts it outside the lock, and     *)
(* puts it back when the transaction failed.  Two flushes may overlap, the *)
(* scheduled one and one started from the maintenance panel.               *)
(*                                                                         *)
(* An entry is its request's number, its size in units of the byte budget, *)
(* and whether it still has what the insert pops off it: the time it was   *)
(* buffered, the attack types and patterns, the uploaded files.  It also   *)
(* remembers, as history, that a commit with it went unacknowledged.       *)
(***************************************************************************)
EXTENDS Integers, Sequences, FiniteSets

CONSTANTS
  Requests,         \* bound: how many requests are buffered
  Sizes,            \* the sizes an entry may have
  MaxBufferRows,    \* _MAX_BUFFER_ROWS
  MaxBufferBytes,   \* _MAX_BUFFER_BYTES
  FlushBatchSize,   \* _FLUSH_BATCH_SIZE
  MaxFlushRows,     \* max_rows of flush_access_log_buffer
  Flushers,         \* the threads that may run the flush task
  Scheduler         \* the one among them that the scheduler runs

BufferAssumption ==
  /\ Requests \in Nat /\ Sizes \subseteq Nat \ {0}
  /\ {MaxBufferRows, MaxBufferBytes, FlushBatchSize, MaxFlushRows} \subseteq Nat \ {0}
  /\ Scheduler \in Flushers
ASSUME BufferAssumption

VARIABLES
  buffer,    \* _write_buffer
  bytes,     \* _buffer_bytes
  dropped,   \* _dropped_rows
  batch,     \* batch[f]: the entries flusher f popped and is inserting
  total,     \* total[f]: the rows the run of f inserted; NotFlushing outside a run
  stored,    \* the rows of access_logs
  asked,     \* history: the number of requests buffered so far
  mine,      \* history: those this process buffered since it started
  failed,    \* history: a batch of this process was put back
  again      \* history: requests inserted again by a pod that was told they failed

vars == <<buffer, bytes, dropped, batch, total, stored, asked, mine, failed, again>>

NotFlushing == -1

Entries == [id : 1 .. Requests, size : Sizes, whole : BOOLEAN, doubtful : BOOLEAN]

TypeOK ==
  /\ buffer \in Seq(Entries) /\ Len(buffer) <= MaxBufferRows
  /\ bytes \in Nat
  /\ dropped \in Nat
  /\ batch \in [Flushers -> Seq(Entries)]
  /\ \A f \in Flushers : Len(batch[f]) <= FlushBatchSize
  /\ total \in [Flushers -> NotFlushing .. MaxFlushRows + FlushBatchSize]
  /\ stored \subseteq [id : 1 .. Requests, whole : BOOLEAN]
  /\ asked \in 0 .. Requests
  /\ mine \subseteq 1 .. asked /\ again \subseteq 1 .. asked
  /\ failed \in BOOLEAN

Init ==
  /\ buffer = <<>> /\ bytes = 0 /\ dropped = 0
  /\ batch = [f \in Flushers |-> <<>>]
  /\ total = [f \in Flushers |-> NotFlushing]
  /\ stored = {}
  /\ asked = 0 /\ mine = {} /\ failed = FALSE /\ again = {}

-----------------------------------------------------------------------------
(* What entries take of the byte budget, unit by unit. *)
Units(entries) == UNION {{i} \X (1 .. entries[i].size) : i \in DOMAIN entries}

(* _entry_bytes, summed. *)
Held(entries) == Cardinality(Units(entries))

Ids(entries) == {entries[i].id : i \in DOMAIN entries}

First(s, n) == SubSeq(s, 1, n)
Rest(s, n) == SubSeq(s, n + 1, Len(s))

(* A bug: the budget compared before the new entry is counted. *)
EvictedBeforeCounting(entries, count) ==
  CHOOSE n \in 0 .. Len(entries) - 1 :
    LET before == count - entries[Len(entries)].size IN
    /\ n = Len(entries) - 1 \/ before - Held(First(entries, n)) <= MaxBufferBytes
    /\ \A m \in 0 .. n - 1 : before - Held(First(entries, m)) > MaxBufferBytes

(* How many entries the loop over the byte budget evicts from the front: the *)
(* fewest that bring the count within the budget, but never the last one.    *)
Evicted(entries, count) ==
  CHOOSE n \in 0 .. Len(entries) - 1 :
    /\ n = Len(entries) - 1 \/ count - Held(First(entries, n)) <= MaxBufferBytes
    /\ \A m \in 0 .. n - 1 : count - Held(First(entries, m)) > MaxBufferBytes

(* A bug: maxlen evicts and nobody counts it. *)
BufferSilently(size) ==
  LET entry == [id |-> asked + 1, size |-> size, whole |-> TRUE, doubtful |-> FALSE]
      full == Len(buffer) = MaxBufferRows
      appended == Append(IF full THEN Tail(buffer) ELSE buffer, entry)
      n == Evicted(appended, bytes + size)
  IN  /\ asked < Requests
      /\ buffer' = Rest(appended, n)
      /\ bytes' = bytes + size - Held(First(appended, n))
      /\ dropped' = dropped + n
      /\ asked' = asked + 1
      /\ mine' = mine \cup {asked + 1}
      /\ UNCHANGED <<batch, total, stored, failed, again>>

(* _buffer_access_log_entry: the deque's maxlen evicts one row, the budget as *)
(* many as it takes.                                                         *)
Buffer(size) ==
  LET entry == [id |-> asked + 1, size |-> size, whole |-> TRUE,
                doubtful |-> FALSE]
      full == Len(buffer) = MaxBufferRows
      appended == Append(IF full THEN Tail(buffer) ELSE buffer, entry)
      count == bytes + size - (IF full THEN Head(buffer).size ELSE 0)
      n == Evicted(appended, count)
  IN  /\ asked < Requests
      /\ buffer' = Rest(appended, n)
      /\ bytes' = count - Held(First(appended, n))
      /\ dropped' = dropped + n + (IF full THEN 1 ELSE 0)
      /\ asked' = asked + 1
      /\ mine' = mine \cup {asked + 1}
      /\ UNCHANGED <<batch, total, stored, failed, again>>

-----------------------------------------------------------------------------
(* A bug: the task waits for a whole batch. *)
StartFullFlush(f) ==
  /\ total[f] = NotFlushing
  /\ Len(buffer) >= FlushBatchSize
  /\ total' = [total EXCEPT ![f] = 0]
  /\ UNCHANGED <<buffer, bytes, dropped, batch, stored, asked, mine, failed, again>>

(* The task runs only when there is something to flush. *)
StartFlush(f) ==
  /\ total[f] = NotFlushing
  /\ buffer # <<>>
  /\ total' = [total EXCEPT ![f] = 0]
  /\ UNCHANGED <<buffer, bytes, dropped, batch, stored, asked, mine, failed, again>>

(* A bug: the batch is read and only removed by whoever inserted it. *)
PeekBatch(f) ==
  LET n == IF Len(buffer) < FlushBatchSize THEN Len(buffer) ELSE FlushBatchSize IN
  /\ total[f] \in 0 .. MaxFlushRows - 1
  /\ batch[f] = <<>>
  /\ n > 0
  /\ batch' = [batch EXCEPT ![f] = First(buffer, n)]
  /\ UNCHANGED <<buffer, bytes, dropped, total, stored, asked, mine, failed, again>>

(* _pop_batch, while the run may do more. *)
PopBatch(f) ==
  LET n == IF Len(buffer) < FlushBatchSize THEN Len(buffer) ELSE FlushBatchSize IN
  /\ total[f] \in 0 .. MaxFlushRows - 1
  /\ batch[f] = <<>>
  /\ n > 0
  /\ batch' = [batch EXCEPT ![f] = First(buffer, n)]
  /\ buffer' = Rest(buffer, n)
  /\ bytes' = bytes - Held(First(buffer, n))
  /\ UNCHANGED <<dropped, total, stored, asked, mine, failed, again>>

(* The run has done max_rows, or found the buffer empty. *)
EndFlush(f) ==
  /\ total[f] # NotFlushing
  /\ batch[f] = <<>>
  /\ total[f] >= MaxFlushRows \/ buffer = <<>>
  /\ total' = [total EXCEPT ![f] = NotFlushing]
  /\ UNCHANGED <<buffer, bytes, dropped, batch, stored, asked, mine, failed, again>>

StoredIds == {row.id : row \in stored}

(* The two bulk inserts of a batch: the rows, and what hangs on them. *)
Store(entries) ==
  /\ stored' = stored \cup {[id |-> entries[i].id, whole |-> entries[i].whole] : i \in DOMAIN entries}
  /\ again' = again \cup ({entries[i].id : i \in {k \in DOMAIN entries : ~entries[k].doubtful}} \cap StoredIds)

(* _insert_access_log_batch, committed. *)
InsertBatch(f) ==
  /\ batch[f] # <<>>
  /\ Store(batch[f])
  /\ total' = [total EXCEPT ![f] = @ + Len(batch[f])]
  /\ batch' = [batch EXCEPT ![f] = <<>>]
  /\ UNCHANGED <<buffer, bytes, dropped, asked, mine, failed>>

(* The entries went through the loop that pops their fields off. *)
Stripped(entries, doubt) ==
  [i \in DOMAIN entries |-> [entries[i] EXCEPT !.whole = FALSE, !.doubtful = @ \/ doubt]]

(* A bug: the entries put back are not counted again. *)
RequeueUncounted(f, doubt) ==
  LET back == Stripped(batch[f], doubt) \o buffer IN
  /\ batch[f] # <<>>
  /\ buffer' = First(back, IF Len(back) > MaxBufferRows THEN MaxBufferRows ELSE Len(back))
  /\ batch' = [batch EXCEPT ![f] = <<>>]
  /\ total' = [total EXCEPT ![f] = NotFlushing]
  /\ failed' = TRUE
  /\ UNCHANGED <<bytes, dropped, asked, mine>>

(* A bug: a deque without maxlen. *)
RequeueUnbounded(f, doubt) ==
  /\ batch[f] # <<>>
  /\ buffer' = Stripped(batch[f], doubt) \o buffer
  /\ bytes' = bytes + Held(batch[f])
  /\ batch' = [batch EXCEPT ![f] = <<>>]
  /\ total' = [total EXCEPT ![f] = NotFlushing]
  /\ failed' = TRUE
  /\ UNCHANGED <<dropped, asked, mine>>

(* The transaction raised: the entries go back to the front, and the deque's *)
(* maxlen cuts the newest off the other end.  The run ends.                  *)
Requeue(f, doubt) ==
  LET back == Stripped(batch[f], doubt) \o buffer IN
  /\ batch[f] # <<>>
  /\ buffer' = First(back, IF Len(back) > MaxBufferRows THEN MaxBufferRows ELSE Len(back))
  /\ bytes' = bytes + Held(batch[f])
  /\ batch' = [batch EXCEPT ![f] = <<>>]
  /\ total' = [total EXCEPT ![f] = NotFlushing]
  /\ failed' = TRUE
  /\ UNCHANGED <<dropped, asked, mine>>

InsertFails(f) ==
  /\ Requeue(f, FALSE)
  /\ UNCHANGED <<stored, again>>

(* The database committed, but the connection broke before it said so. *)
CommitUnacknowledged(f) ==
  /\ Requeue(f, TRUE)
  /\ Store(batch[f])

(* The pod dies with what it has in memory, and another takes its place. *)
Crash ==
  /\ buffer' = <<>> /\ bytes' = 0 /\ dropped' = 0
  /\ batch' = [f \in Flushers |-> <<>>]
  /\ total' = [f \in Flushers |-> NotFlushing]
  /\ mine' = {} /\ failed' = FALSE
  /\ UNCHANGED <<stored, asked, again>>

(* A run of the task that has begun. *)
Continue(f) ==
  \/ PopBatch(f) \/ EndFlush(f)
  \/ InsertBatch(f) \/ InsertFails(f) \/ CommitUnacknowledged(f)

Flush(f) == StartFlush(f) \/ Continue(f)

Next ==
  \/ \E size \in Sizes : Buffer(size)
  \/ \E f \in Flushers : Flush(f)
  \/ Crash

(* The flush is scheduled for ever, a run that has begun goes on, and the     *)
(* database does not refuse every batch.  Nobody has to start one by hand.   *)
Fairness ==
  /\ WF_vars(StartFlush(Scheduler))
  /\ \A f \in Flushers : WF_vars(Continue(f)) /\ SF_vars(InsertBatch(f))

Spec == Init /\ [][Next]_vars /\ Fairness

-----------------------------------------------------------------------------
InFlight == UNION {Ids(batch[f]) : f \in Flushers}

(* The requests of this process that are neither stored nor in its memory. *)
Missing == mine \ (StoredIds \cup Ids(buffer) \cup InFlight)

(* The byte count never falls below what the buffer holds, whatever fails:   *)
(* it is "what actually holds RSS down", so it may err on one side only.     *)
BytesCoverBuffer == bytes >= Held(buffer)

(* A request leaves the buffer within the byte budget, unless its own entry  *)
(* is all there is -- also after a batch was put back over the budget.       *)
BudgetEnforced ==
  [][asked' # asked => Held(buffer') <= MaxBufferBytes \/ Len(buffer') = 1]_vars

(* As long as no batch was put back, every request this process buffered is  *)
(* stored or in memory, but for the number it reports as dropped.            *)
LossesCountedUntilFailure == ~failed => Cardinality(Missing) = dropped

(* No overlap of flushes, failures and overflows inserts a request twice;     *)
(* only a commit the pod never learnt of can.                                *)
StoredOnce == again = {}

(* Every entry leaves the memory of the pod: stored, dropped, or lost with it. *)
BufferDrains ==
  \A id \in 1 .. Requests : id \in Ids(buffer) \cup InFlight ~> id \notin Ids(buffer) \cup InFlight
=============================================================================
