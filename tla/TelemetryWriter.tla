--------------------------- MODULE TelemetryWriter ---------------------------
(***************************************************************************)
(* edge-orchestrator/database_manager.py: rows are queued by any thread    *)
(* and written by one worker in batches, until the poison pill.            *)
(*                                                                         *)
(* A row is its number, a batch one INSERT ... and one COMMIT.  A write    *)
(* that fails may leave some of its rows in the open transaction, which    *)
(* the next commit then completes, or roll it back.                        *)
(***************************************************************************)
EXTENDS Naturals, Sequences, SequencesExt

CONSTANTS QUEUE_SIZE,      \* maxsize of the queue
          WRITE_BATCH,     \* rows the worker drains at once, at most
          MaxRows,         \* bound: calls of log_telemetry
          MaxWriteFaults   \* bound: failures of the database

VARIABLES queue, running,
          worker,          \* where the worker thread is; "dead" after an uncaught exception
          batch,
          open,            \* rows inserted and not committed
          telemetry,       \* the table
          caller,          \* where the thread that calls shutdown is
          logged,          \* calls of log_telemetry
          accepted,        \* history: rows queued
          promised,        \* history: rows queued when shutdown was called
          writeFaults

client == <<caller, logged, accepted, promised>>
writerVars == <<queue, running, worker, batch, open, telemetry, client, writeFaults>>

Pill == 0

Init == /\ queue = << >> /\ running = TRUE
        /\ worker = "setup" /\ batch = << >> /\ open = << >> /\ telemetry = << >>
        /\ caller = "up" /\ logged = 0 /\ accepted = << >> /\ promised = << >>
        /\ writeFaults = 0

\* log_telemetry, also after shutdown: a full queue drops the row.
Log == /\ logged < MaxRows /\ logged' = logged + 1
       /\ IF Len(queue) < QUEUE_SIZE
            THEN queue' = Append(queue, logged') /\ accepted' = Append(accepted, logged')
            ELSE UNCHANGED <<queue, accepted>>
       /\ UNCHANGED <<running, worker, batch, open, telemetry, caller, promised, writeFaults>>

\* shutdown: the flag, the pill (put blocks while the queue is full), a join
\* that may time out.
Shutdown == /\ caller = "up" /\ caller' = "stopping"
            /\ running' = FALSE /\ promised' = accepted
            /\ UNCHANGED <<queue, worker, batch, open, telemetry, logged, accepted, writeFaults>>

PutPill == /\ caller = "stopping" /\ caller' = "joining"
           /\ Len(queue) < QUEUE_SIZE /\ queue' = Append(queue, Pill)
           /\ UNCHANGED <<running, worker, batch, open, telemetry, logged, accepted, promised,
                          writeFaults>>

Join == /\ caller = "joining" /\ caller' = "down"
        /\ UNCHANGED <<queue, running, worker, batch, open, telemetry, logged, accepted,
                       promised, writeFaults>>

-----------------------------------------------------------------------------
WriteFault == writeFaults < MaxWriteFaults /\ writeFaults' = writeFaults + 1

\* Connection and schema: what fails here kills the worker.
Setup == /\ worker = "setup"
         /\ \/ worker' = "check" /\ UNCHANGED writeFaults
            \/ WriteFault /\ worker' = "dead"
         /\ UNCHANGED <<queue, running, batch, open, telemetry, client>>

\* BUG: rows still queued when the flag falls are forgotten.
GoesOnWhileRunning == running

GoesOn == running \/ queue # << >>

\* Closing the connection forgets what is not committed.
Close == worker' = "done" /\ open' = << >>

Check == /\ worker = "check"
         /\ \/ GoesOn /\ worker' = "get" /\ UNCHANGED open
            \/ ~GoesOn /\ Close
         /\ UNCHANGED <<queue, running, batch, telemetry, client, writeFaults>>

\* The first get waits, or times out and returns to the check.
Get == /\ worker = "get"
       /\ \/ /\ queue = << >> /\ worker' = "check" /\ UNCHANGED <<queue, batch, open>>
          \/ /\ queue # << >> /\ queue' = Tail(queue)
             /\ IF Head(queue) = Pill
                  THEN Close /\ UNCHANGED batch
                  ELSE batch' = <<Head(queue)>> /\ worker' = "drain" /\ UNCHANGED open
       /\ UNCHANGED <<running, telemetry, client, writeFaults>>

\* BUG: a pill in the middle of a batch ends the worker as it does in front of one.
AfterPillInDrainEnds == "done"

AfterPillInDrain == "write"

Drain == /\ worker = "drain"
         /\ \/ /\ queue = << >> \/ Len(batch) = WRITE_BATCH
               /\ worker' = "write" /\ UNCHANGED <<queue, running, batch>>
            \/ /\ queue # << >> /\ Len(batch) < WRITE_BATCH
               /\ queue' = Tail(queue)
               /\ IF Head(queue) = Pill
                    THEN running' = FALSE /\ worker' = AfterPillInDrain /\ UNCHANGED batch
                    ELSE batch' = Append(batch, Head(queue)) /\ UNCHANGED <<running, worker>>
         /\ UNCHANGED <<open, telemetry, client, writeFaults>>

\* executemany and commit; an exception is printed and the batch not retried.
Write == /\ worker = "write" /\ worker' = "check" /\ batch' = << >>
         /\ \/ telemetry' = telemetry \o open \o batch /\ open' = << >>
               /\ UNCHANGED writeFaults
            \/ /\ WriteFault /\ UNCHANGED telemetry
               /\ open' \in {<< >>} \cup {open \o SubSeq(batch, 1, n) : n \in 0 .. Len(batch)}
         /\ UNCHANGED <<queue, running, client>>

Worker == Setup \/ Check \/ Get \/ Drain \/ Write

Next == Log \/ Shutdown \/ PutPill \/ Join \/ Worker

-----------------------------------------------------------------------------
TypeOK == /\ worker \in {"setup", "check", "get", "drain", "write", "done", "dead"}
          /\ caller \in {"up", "stopping", "joining", "down"}
          /\ running \in BOOLEAN
          /\ Len(queue) <= QUEUE_SIZE /\ Len(batch) <= WRITE_BATCH

Held == telemetry \o open \o batch \o queue
Pills == IF Contains(queue, Pill) THEN 1 ELSE 0

Ascending(s) == \A i, j \in DOMAIN s : i < j /\ s[i] # Pill /\ s[j] # Pill => s[i] < s[j]

\* Rows are in the table, in the transaction, in hand or queued, each once and
\* in the order they were logged; a failure costs the rows of its batch.
InOrder == Ascending(Held)
LossBounded == Len(accepted) + Pills - Len(Held) \in 0 .. WRITE_BATCH * writeFaults

\* The worker ends only when all that was queued before shutdown is written,
\* wherever the pill met it: in front of a batch, within one, or too late.
PromiseKept == worker = "done" =>
  LET lost == {i \in DOMAIN promised : ~Contains(telemetry, promised[i])}
  IN writeFaults = 0 => lost = {}

\* No row is lost but those of a failed batch, none is out of order, and what
\* was queued before shutdown is in the table when the worker ends.
WriterInv == TypeOK /\ InOrder /\ LossBounded /\ PromiseKept

\* shutdown returns, although it waits for room for its pill, unless the worker
\* died at its start or rows logged since have filled the queue behind it.
ShutsDown == caller = "stopping" ~>
  \/ caller = "down"
  \/ worker = "dead"
  \/ worker = "done" /\ Len(queue) = QUEUE_SIZE /\ accepted # promised
=============================================================================
