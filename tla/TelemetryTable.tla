---------------------------- MODULE TelemetryTable ----------------------------
(***************************************************************************)
(* host_app's database_manager.py: every call logs one row and prunes the  *)
(* oldest when there are too many.  The engine is made for several threads *)
(* (check_same_thread=False), and the insert, the count, the selection and *)
(* the deletion are each of their own.  A row is its id.                   *)
(***************************************************************************)
EXTENDS Naturals, FiniteSets

CONSTANTS Thread, MAX_TELEMETRY_ROWS, PRUNE_BATCH_SIZE,
          MaxLogged,        \* bound: calls of log_telemetry_state
          MaxPruneFaults    \* bound: prunes that raise

VARIABLES rows,
          lastId,           \* of the rows logged so far
          prune,            \* where each thread's call is
          oldest_ids,       \* what it is about to delete
          pruneFaults

tableVars == <<rows, lastId, prune, oldest_ids, pruneFaults>>

Init == /\ rows = {} /\ lastId = 0 /\ pruneFaults = 0
        /\ prune = [t \in Thread |-> "idle"]
        /\ oldest_ids = [t \in Thread |-> {}]

Prune(t, from, to) == prune[t] = from /\ prune' = [prune EXCEPT ![t] = to]

\* log_telemetry_state: the row is committed before the table is pruned.
LogState(t) == /\ lastId < MaxLogged /\ lastId' = lastId + 1
               /\ rows' = rows \cup {lastId'}
               /\ Prune(t, "idle", "count")
               /\ UNCHANGED <<oldest_ids, pruneFaults>>

Count(t) == /\ \/ Cardinality(rows) > MAX_TELEMETRY_ROWS /\ Prune(t, "count", "select")
               \/ Cardinality(rows) <= MAX_TELEMETRY_ROWS /\ Prune(t, "count", "idle")
            /\ UNCHANGED <<rows, lastId, oldest_ids, pruneFaults>>

\* BUG: the order is descending.
OldestFromTheTop == {r \in rows : Cardinality({q \in rows : q > r}) < PRUNE_BATCH_SIZE}

Older(r) == {q \in rows : q < r}
Oldest == {r \in rows : Cardinality(Older(r)) < PRUNE_BATCH_SIZE}

Select(t) == /\ Prune(t, "select", "delete")
             /\ oldest_ids' = [oldest_ids EXCEPT ![t] = Oldest]
             /\ UNCHANGED <<rows, lastId, pruneFaults>>

\* Rows another thread has deleted meanwhile are skipped.
Delete(t) == /\ Prune(t, "delete", "idle")
             /\ rows' = rows \ oldest_ids[t]
             /\ oldest_ids' = [oldest_ids EXCEPT ![t] = {}]
             /\ UNCHANGED <<lastId, pruneFaults>>

\* The database is locked: the exception leaves log_telemetry_state, the row stays.
PruneFails(t) == /\ pruneFaults < MaxPruneFaults /\ pruneFaults' = pruneFaults + 1
                 /\ prune[t] # "idle" /\ Prune(t, prune[t], "idle")
                 /\ oldest_ids' = [oldest_ids EXCEPT ![t] = {}]
                 /\ UNCHANGED <<rows, lastId>>

Next == \E t \in Thread : LogState(t) \/ Count(t) \/ Select(t) \/ Delete(t) \/ PruneFails(t)

-----------------------------------------------------------------------------
TypeOK == /\ lastId \in 0 .. MaxLogged
          /\ prune \in [Thread -> {"idle", "count", "select", "delete"}]
          /\ \A t \in Thread : oldest_ids[t] \subseteq 1 .. lastId

\* The table is the latest rows without a gap, however prunes overlap.
LatestRows == rows = lastId - Cardinality(rows) + 1 .. lastId

\* It overshoots its limit by no more than the calls in progress and the prunes
\* that failed, and loses no row newer than each thread's batch accounts for.
LimitKept ==
  /\ Cardinality(rows) <= MAX_TELEMETRY_ROWS + Cardinality(Thread) + pruneFaults
  /\ Cardinality(rows) <= MAX_TELEMETRY_ROWS - PRUNE_BATCH_SIZE * Cardinality(Thread) =>
       Cardinality(rows) = lastId

\* The table keeps the latest rows without a gap, within its limit.
TableInv == TypeOK /\ LatestRows /\ LimitKept
=============================================================================
