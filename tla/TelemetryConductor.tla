-------------------------- MODULE TelemetryConductor --------------------------
(***************************************************************************)
(* Cloud conductor_host.py: a producer thread queues snapshots, a flusher  *)
(* commits them in micro-batches, an event stops both.  A snapshot is its  *)
(* number; the simulated ones are always valid.                            *)
(***************************************************************************)
EXTENDS Naturals, Sequences

CONSTANTS QUEUE_MAX_SIZE, FLUSH_BATCH_SIZE,
          MaxSnapshots      \* bound: snapshots the producer makes

VARIABLES telemetry_queue, shutdown_event,
          producer, flusher,      \* where the two threads are
          simulated_step,
          micro,                  \* the flusher's batch
          committed,              \* rows of telemetry_ingress_queue
          stopper,                \* where the caller of stop is
          storage_failed,         \* history
          taken                   \* history: snapshots queued

threads == <<producer, flusher>>
conductorVars == <<telemetry_queue, shutdown_event, threads, simulated_step, micro, committed,
                   stopper, storage_failed, taken>>

Init == /\ telemetry_queue = << >> /\ shutdown_event = FALSE
        /\ producer = "check" /\ flusher = "check"
        /\ simulated_step = 0 /\ micro = << >> /\ committed = << >>
        /\ stopper = "up"
        /\ storage_failed = FALSE /\ taken = << >>

-----------------------------------------------------------------------------
\* _producer_loop; a full queue drops the snapshot.
ProducerCheck == /\ producer = "check"
                 /\ producer' = IF shutdown_event THEN "done" ELSE "put"
                 /\ UNCHANGED <<telemetry_queue, shutdown_event, flusher, simulated_step, micro,
                                committed, stopper, storage_failed, taken>>

ProducerPut ==
  /\ producer = "put" /\ producer' = "check"
  /\ \/ simulated_step = MaxSnapshots /\ UNCHANGED <<simulated_step, telemetry_queue, taken>>
     \/ /\ simulated_step < MaxSnapshots /\ simulated_step' = simulated_step + 1
        /\ IF Len(telemetry_queue) < QUEUE_MAX_SIZE
             THEN /\ telemetry_queue' = Append(telemetry_queue, simulated_step')
                  /\ taken' = Append(taken, simulated_step')
             ELSE UNCHANGED <<telemetry_queue, taken>>
  /\ UNCHANGED <<shutdown_event, flusher, micro, committed, stopper, storage_failed>>

\* BUG: the flusher looks at the event only.
FlushesOnWhileUp == ~shutdown_event

FlushesOn == ~shutdown_event \/ telemetry_queue # << >>

\* _flusher_loop
FlusherCheck == /\ flusher = "check"
                /\ flusher' = IF FlushesOn THEN "collect" ELSE "done"
                /\ UNCHANGED <<telemetry_queue, shutdown_event, producer, simulated_step, micro,
                               committed, stopper, storage_failed, taken>>

Collect == /\ flusher = "collect"
           /\ \/ /\ telemetry_queue # << >> /\ Len(micro) < FLUSH_BATCH_SIZE
                 /\ micro' = Append(micro, Head(telemetry_queue))
                 /\ telemetry_queue' = Tail(telemetry_queue)
                 /\ UNCHANGED flusher
              \/ /\ telemetry_queue = << >> \/ Len(micro) = FLUSH_BATCH_SIZE
                 /\ flusher' = IF micro = << >> THEN "check" ELSE "commit"
                 /\ UNCHANGED <<telemetry_queue, micro>>
           /\ UNCHANGED <<shutdown_event, producer, simulated_step, committed, stopper,
                          storage_failed, taken>>

Commit == /\ flusher = "commit" /\ flusher' = "check"
          /\ committed' = committed \o micro /\ micro' = << >>
          /\ UNCHANGED <<telemetry_queue, shutdown_event, producer, simulated_step, stopper,
                         storage_failed, taken>>

\* A storage failure stops the whole conductor, what is queued is abandoned.
CommitFails == /\ flusher = "commit" /\ flusher' = "done"
               /\ shutdown_event' = TRUE /\ storage_failed' = TRUE
               /\ UNCHANGED <<telemetry_queue, producer, simulated_step, micro, committed,
                              stopper, taken>>

-----------------------------------------------------------------------------
\* stop: returns at once if the event is set, else joins one thread after the
\* other, each with a time-out.
Stop == /\ stopper = "up"
        /\ stopper' = IF shutdown_event THEN "returned" ELSE "joinProducer"
        /\ shutdown_event' = TRUE
        /\ UNCHANGED <<telemetry_queue, threads, simulated_step, micro, committed,
                       storage_failed, taken>>

Join(at, next) == /\ stopper = at /\ stopper' = next
                  /\ UNCHANGED <<telemetry_queue, shutdown_event, threads, simulated_step, micro,
                                 committed, storage_failed, taken>>

Joins == Join("joinProducer", "joinFlusher") \/ Join("joinFlusher", "returned")

Producer == ProducerCheck \/ ProducerPut
Flusher == FlusherCheck \/ Collect \/ Commit \/ CommitFails

Next == Producer \/ Flusher \/ Stop \/ Joins

-----------------------------------------------------------------------------
TypeOK == /\ producer \in {"check", "put", "done"}
          /\ flusher \in {"check", "collect", "commit", "done"}
          /\ stopper \in {"up", "joinProducer", "joinFlusher", "returned"}
          /\ shutdown_event \in BOOLEAN /\ storage_failed \in BOOLEAN
          /\ Len(telemetry_queue) <= QUEUE_MAX_SIZE /\ Len(micro) <= FLUSH_BATCH_SIZE

\* Every snapshot that was queued is committed, in hand or queued, in order.
Accounted == committed \o micro \o telemetry_queue = taken

\* The flusher may leave between the producer's last check of the event and its
\* put: what is left behind then is that one snapshot, unless storage failed.
OneLeftAtMost == flusher = "done" /\ ~storage_failed =>
  micro = << >> /\ Len(telemetry_queue) <= 1

\* Every queued snapshot is accounted for, and at most one is left behind unless
\* the storage fails.
ConductorInv == TypeOK /\ Accounted /\ OneLeftAtMost

\* Whoever ends first, the other follows: a storage failure stops the producer
\* as the stop signal does.
ThreadsEnd == shutdown_event \/ flusher = "done" ~> producer = "done" /\ flusher = "done"
=============================================================================
