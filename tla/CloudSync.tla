------------------------------ MODULE CloudSync ------------------------------
(***************************************************************************)
(* cloud_sync.py: the daemon that moves rows of telemetry_ingress_queue    *)
(* from SQLite to S3, PENDING -> PROCESSING -> SYNCED.                     *)
(*                                                                         *)
(* One action is one transaction or one request, the points between which  *)
(* the daemon can die, the conductor can commit rows and time can pass.    *)
(* Both deadlines of the code are kept as the time since or until them:    *)
(* flushAge is now - last_flush_time, cooldown is circuit_open_until - now.*)
(***************************************************************************)
EXTENDS Naturals, FiniteSets

CONSTANTS Record,                    \* record_id values, in insertion order
          FLUSH_BATCH_SIZE,          \* rows the conductor commits at once, at most
          batch_size_threshold,
          batch_time_threshold_sec,
          max_consecutive_failures,
          circuit_cooldown_sec,
          SweepAtBoot,               \* whether the daemon calls boot_stale_record_sweep
          MaxFaults                  \* crashes, exceptions and failed uploads in all

ASSUME RecordAssumption == Record \subseteq Nat
ASSUME BatchAssumption == batch_size_threshold \in Nat \ {0}
                          /\ FLUSH_BATCH_SIZE \in Nat \ {0}
ASSUME TimesAssumption == batch_time_threshold_sec \in Nat /\ circuit_cooldown_sec \in Nat
ASSUME StrikesAssumption == max_consecutive_failures \in Nat \ {0}
ASSUME SweepAssumption == SweepAtBoot \in BOOLEAN
ASSUME FaultsAssumption == MaxFaults \in Nat

VARIABLES status,                \* sync_status of every row, "absent" before its insert
          bucket,                \* rows contained in some S3 object
          pc,                    \* the daemon's next step; "down" when it is dead
          records,               \* the batch of the cycle
          elapsed,               \* flushAge when the cycle read the clock
          consecutive_failures,  \* counted up to its threshold
          flushAge,              \* counted up to its threshold
          cooldown,
          failAge,               \* history: time since the last failed upload
          faults

memory == <<records, elapsed, consecutive_failures>>
timers == <<flushAge, cooldown, failAge>>
vars == <<status, bucket, pc, memory, timers, faults>>

InState(s) == {r \in Record : status[r] = s}
Marked(R, s) == [r \in Record |-> IF r \in R THEN s ELSE status[r]]
Least(a, b) == IF a < b THEN a ELSE b

Init == /\ status = [r \in Record |-> "absent"]
        /\ bucket = {}
        /\ pc = "boot"
        /\ records = {} /\ elapsed = 0 /\ consecutive_failures = 0
        /\ flushAge = 0 /\ cooldown = 0 /\ failAge = circuit_cooldown_sec
        /\ faults = 0

-----------------------------------------------------------------------------
\* The conductor's flusher commits a micro-batch of the next record_ids.
Insert(R) == /\ R # {} /\ Cardinality(R) <= FLUSH_BATCH_SIZE
             /\ \A r \in R : status[r] = "absent"
             /\ \A r \in R, q \in Record \ R : status[q] = "absent" => r < q
             /\ status' = Marked(R, "PENDING")
             /\ UNCHANGED <<bucket, pc, memory, timers, faults>>

\* A second passes, or as long as the model calls one.
Tick == /\ flushAge' = Least(flushAge + 1, batch_time_threshold_sec)
        /\ cooldown' = IF cooldown = 0 THEN 0 ELSE cooldown - 1
        /\ failAge' = Least(failAge + 1, circuit_cooldown_sec)
        /\ UNCHANGED <<status, bucket, pc, memory, faults>>

-----------------------------------------------------------------------------
\* BUG: the sweep leaves the rows it finds as they are.
SweepNothing == {}

\* boot_stale_record_sweep, one transaction, if the daemon calls it.
Swept == IF SweepAtBoot THEN InState("PROCESSING") ELSE {}

Boot == /\ pc = "boot"
        /\ status' = Marked(Swept, "PENDING")
        /\ pc' = "idle"
        /\ UNCHANGED <<bucket, memory, timers, faults>>

\* sync_cycle: time.time() and the circuit breaker.
Begin == /\ pc = "idle"
         /\ cooldown = 0
         /\ elapsed' = flushAge
         /\ pc' = "count"
         /\ UNCHANGED <<status, bucket, records, consecutive_failures, timers, faults>>

\* BUG: a batch smaller than the threshold is never flushed.
TriggerOnSize(pending) == Cardinality(pending) >= batch_size_threshold

\* size_trigger or time_trigger
Trigger(pending) == \/ Cardinality(pending) >= batch_size_threshold
                    \/ elapsed >= batch_time_threshold_sec /\ pending # {}

Count == /\ pc = "count"
         /\ pc' = IF Trigger(InState("PENDING")) THEN "select" ELSE "idle"
         /\ UNCHANGED <<status, bucket, memory, timers, faults>>

\* BUG: the batch is the newest rows, not the oldest.
NewestPending == {r \in InState("PENDING") :
  Cardinality({q \in InState("PENDING") : q > r}) < batch_size_threshold}

\* ORDER BY record_id LIMIT batch_size_threshold
OldestPending == {r \in InState("PENDING") :
  Cardinality({q \in InState("PENDING") : q < r}) < batch_size_threshold}

\* query_pending_batch reads the rows first and commits their status after.
Select == /\ pc = "select"
          /\ records' = OldestPending
          /\ pc' = IF OldestPending = {} THEN "idle" ELSE "claim"
          /\ UNCHANGED <<status, bucket, elapsed, consecutive_failures, timers, faults>>

Claim == /\ pc = "claim"
         /\ status' = Marked(records, "PROCESSING")
         /\ pc' = "upload"
         /\ UNCHANGED <<bucket, memory, timers, faults>>

Upload == /\ pc = "upload"
          /\ bucket' = bucket \cup records
          /\ pc' = "sync"
          /\ UNCHANGED <<status, memory, timers, faults>>

\* A request that failed or timed out may have been carried out all the same.
PutMaybe == bucket' \in {bucket, bucket \cup records}

Fault == faults < MaxFaults /\ faults' = faults + 1

\* BUG: the outcome of put_object is not looked at.
UploadFailedUnseen == /\ pc = "upload"
                      /\ Fault /\ PutMaybe
                      /\ pc' = "sync"
                      /\ UNCHANGED <<status, memory, timers>>

UploadFailed == /\ pc = "upload"
                /\ Fault /\ PutMaybe
                /\ pc' = "failBack"
                /\ UNCHANGED <<status, memory, timers>>

MarkSynced == /\ pc = "sync"
              /\ status' = Marked(records, "SYNCED")
              /\ consecutive_failures' = 0
              /\ flushAge' = 0
              /\ pc' = "idle" /\ records' = {}
              /\ UNCHANGED <<bucket, elapsed, cooldown, failAge, faults>>

\* BUG: the breaker opens on the third failure and never again.
StrikeOutOnce == consecutive_failures + 1 = max_consecutive_failures

\* consecutive_failures >= max_consecutive_failures, after the increment
StrikeOut == consecutive_failures + 1 >= max_consecutive_failures

FailBack == /\ pc = "failBack"
            /\ status' = Marked(records, "PENDING")
            /\ consecutive_failures' =
                 Least(consecutive_failures + 1, max_consecutive_failures)
            /\ cooldown' = IF StrikeOut THEN circuit_cooldown_sec ELSE cooldown
            /\ failAge' = 0
            /\ pc' = "idle" /\ records' = {}
            /\ UNCHANGED <<bucket, elapsed, flushAge, faults>>

-----------------------------------------------------------------------------
\* An exception leaves sync_cycle (a locked database, an error of put_object
\* that is neither ClientError nor BotoCoreError): the session rolls back to
\* the last commit and the daemon's loop logs it and goes on.
Raise == /\ pc \in {"count", "select", "claim", "upload", "sync", "failBack"}
         /\ Fault
         /\ IF pc = "upload" THEN PutMaybe ELSE UNCHANGED bucket
         /\ pc' = "idle" /\ records' = {}
         /\ UNCHANGED <<status, elapsed, consecutive_failures, timers>>

\* The process dies; the container is restarted and builds a new worker.
Crash == /\ pc # "down"
         /\ Fault
         /\ IF pc = "upload" THEN PutMaybe ELSE UNCHANGED bucket
         /\ pc' = "down" /\ records' = {}
         /\ UNCHANGED <<status, elapsed, consecutive_failures, timers>>

Restart == /\ pc = "down"
           /\ pc' = "boot"
           /\ elapsed' = 0 /\ consecutive_failures' = 0
           /\ flushAge' = 0 /\ cooldown' = 0
           /\ UNCHANGED <<status, bucket, records, failAge, faults>>

Daemon == \/ Boot \/ Begin \/ Count \/ Select \/ Claim \/ Upload \/ MarkSynced \/ FailBack
          \/ Restart

Next == \/ \E R \in SUBSET Record : Insert(R)
        \/ Tick
        \/ Daemon
        \/ UploadFailed \/ Raise \/ Crash

Spec == Init /\ [][Next]_vars

\* The daemon's loop never stops, restart: unless-stopped brings it back, and
\* time passes; nothing makes the conductor insert.
FairSpec == Spec /\ WF_vars(Daemon) /\ WF_vars(Tick)

-----------------------------------------------------------------------------
TypeOK == /\ status \in [Record -> {"absent", "PENDING", "PROCESSING", "SYNCED"}]
          /\ bucket \subseteq Record /\ records \subseteq Record
          /\ pc \in {"boot", "idle", "count", "select", "claim", "upload", "sync",
                     "failBack", "down"}
          /\ elapsed \in Nat /\ consecutive_failures \in Nat
          /\ flushAge \in Nat /\ cooldown \in Nat /\ failAge \in Nat /\ faults \in Nat

\* The batch in hand is exactly as far as the cycle has brought it: still
\* PENDING until the claim is committed, PROCESSING from then on, and in the
\* bucket when it is about to be marked SYNCED.
BatchInStep ==
  /\ pc = "claim" => records \subseteq InState("PENDING")
  /\ pc \in {"upload", "sync", "failBack"} => records \subseteq InState("PROCESSING")
  /\ pc = "sync" => records \subseteq bucket
  /\ pc \in {"boot", "idle", "count", "select", "down"} => records = {}

\* No row is marked SYNCED, or forgotten, that the bucket does not hold.
SyncedIsStored == InState("SYNCED") \subseteq bucket
StoredWasQueued == bucket \cap InState("absent") = {}

SyncInv == TypeOK /\ BatchInStep /\ SyncedIsStored /\ StoredWasQueued

\* Chunks leave oldest first, whatever was failed back, swept or inserted
\* between: no row is uploaded while an older one still waits its turn.
OldestFirst == pc \in {"upload", "sync"} =>
  \A r \in records, q \in Record : q < r => status[q] # "PENDING"

\* The circuit breaker: once max_consecutive_failures uploads have failed in a
\* row, each next attempt begins a full cooldown after the last failure,
\* including those that are tried, and fail, when the breaker has closed again.
BreakerSpaces ==
  [][pc = "idle" /\ pc' = "count" /\ consecutive_failures >= max_consecutive_failures
       => failAge >= circuit_cooldown_sec]_vars

\* A row that waits is eventually in the bucket and marked, although batches
\* fail, the breaker opens and the daemon is restarted in the middle; only an
\* exception or a crash after the claim can leave it behind as PROCESSING with
\* no cycle working on it.
Stranded(r) == status[r] = "PROCESSING" /\ r \notin records
Drains == \A r \in Record : status[r] = "PENDING" ~> status[r] = "SYNCED" \/ Stranded(r)

\* "Resets orphaned 'PROCESSING' records back to 'PENDING' on daemon reboot": a
\* row that a dead daemon had claimed does not stay claimed.
\* (Violated as deployed: docker-compose.yml's daemon never calls the sweep.)
CrashRecovers ==
  \A r \in Record : pc = "down" /\ status[r] = "PROCESSING" ~> status[r] # "PROCESSING"

\* The daemon implements at-least-once delivery through every crash,
\* exception, ambiguous upload and retry.
Delivery == INSTANCE SyncDelivery WITH
              queued <- Record \ InState("absent"),
              confirmed <- InState("SYNCED")
ImplementsDelivery == Delivery!Spec
=============================================================================
