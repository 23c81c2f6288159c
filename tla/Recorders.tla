------------------------------ MODULE Recorders ------------------------------
(***************************************************************************)
(* Four services that share nothing, checked one at a time: the edge       *)
(* node's telemetry writer, the cloud's telemetry conductor, the web       *)
(* sockets of the control plane and the host's telemetry table.            *)
(***************************************************************************)
EXTENDS Naturals, Sequences, FiniteSets

CONSTANTS QUEUE_SIZE, WRITE_BATCH, MaxRows, MaxWriteFaults,
          QUEUE_MAX_SIZE, FLUSH_BATCH_SIZE, MaxSnapshots,
          Client, Broadcast,
          Thread, MAX_TELEMETRY_ROWS, PRUNE_BATCH_SIZE, MaxLogged, MaxPruneFaults

ASSUME WriterAssumption == /\ QUEUE_SIZE \in Nat /\ MaxRows \in Nat /\ MaxWriteFaults \in Nat
                           /\ WRITE_BATCH \in Nat \ {0}
ASSUME ConductorAssumption == /\ QUEUE_MAX_SIZE \in Nat /\ MaxSnapshots \in Nat
                              /\ FLUSH_BATCH_SIZE \in Nat \ {0}
\* The threads' batches, 5000 rows each, fit into the table of 50000.
ASSUME TableAssumption == /\ IsFiniteSet(Thread)
                          /\ MAX_TELEMETRY_ROWS \in Nat /\ PRUNE_BATCH_SIZE \in Nat \ {0}
                          /\ MaxLogged \in Nat /\ MaxPruneFaults \in Nat
                          /\ Cardinality(Thread) <= PRUNE_BATCH_SIZE
                          /\ PRUNE_BATCH_SIZE * Cardinality(Thread) <= MAX_TELEMETRY_ROWS + 1

VARIABLES service,      \* the one that is checked
          queue, running, worker, batch, open, telemetry, caller, logged, accepted, promised,
          writeFaults,
          telemetry_queue, shutdown_event, producer, flusher, simulated_step, micro, committed,
          stopper, storage_failed, taken,
          active_connections, endpoint, linked, cast, left, reached, refused, audience,
          rows, lastId, prune, oldest_ids, pruneFaults

Writer == INSTANCE TelemetryWriter
Conductor == INSTANCE TelemetryConductor
Plane == INSTANCE ControlPlane
Table == INSTANCE TelemetryTable

writerVars == <<queue, running, worker, batch, open, telemetry, caller, logged, accepted,
                promised, writeFaults>>
conductorVars == <<telemetry_queue, shutdown_event, producer, flusher, simulated_step, micro,
                   committed, stopper, storage_failed, taken>>
planeVars == <<active_connections, endpoint, linked, cast, left, reached, refused, audience>>
tableVars == <<rows, lastId, prune, oldest_ids, pruneFaults>>
vars == <<service, writerVars, conductorVars, planeVars, tableVars>>

Init == /\ service \in {"writer", "conductor", "plane", "table"}
        /\ Writer!Init /\ Conductor!Init /\ Plane!Init /\ Table!Init

WriterOnly == service = "writer" /\ UNCHANGED <<service, conductorVars, planeVars, tableVars>>
ConductorOnly == service = "conductor" /\ UNCHANGED <<service, writerVars, planeVars, tableVars>>
PlaneOnly == service = "plane" /\ UNCHANGED <<service, writerVars, conductorVars, tableVars>>
TableOnly == service = "table" /\ UNCHANGED <<service, writerVars, conductorVars, planeVars>>

Next == \/ WriterOnly /\ Writer!Next
        \/ ConductorOnly /\ Conductor!Next
        \/ PlaneOnly /\ Plane!Next
        \/ TableOnly /\ Table!Next

\* Threads run, and the caller of shutdown once there is room for its pill;
\* nothing makes clients log, stop or connect.
Spec == /\ Init /\ [][Next]_vars
        /\ WF_vars(WriterOnly /\ Writer!Worker)
        /\ WF_vars(WriterOnly /\ (Writer!PutPill \/ Writer!Join))
        /\ WF_vars(ConductorOnly /\ Conductor!Producer)
        /\ WF_vars(ConductorOnly /\ Conductor!Flusher)

\* The writer loses no row but those of a failed batch, keeps them in order and
\* ends only when what was queued before shutdown is in the table.
WriterInv == Writer!WriterInv

\* The conductor accounts for every snapshot it queued and leaves at most one
\* behind unless the storage fails.
ConductorInv == Conductor!ConductorInv

\* The pool holds exactly the clients that are served and those whose endpoint
\* broke, and a broadcast that ends passes over none of them.
PoolInv == Plane!PoolInv

\* The table keeps the latest rows without a gap, within its limit.
TableInv == Table!TableInv

\* shutdown of the writer returns, and of the conductor's two threads neither
\* outlives the other for ever.
ShutsDown == Writer!ShutsDown /\ Conductor!ThreadsEnd
=============================================================================
