--------------------------- MODULE RecordersProofs ---------------------------
(***************************************************************************)
(* The safety of the four services that record telemetry, for every size   *)
(* of their queues, batches and tables and any number of clients and       *)
(* threads.  Each service has an inductive invariant of its own; the       *)
(* composition changes one of them at a time.                              *)
(***************************************************************************)
EXTENDS Recorders, SequenceTheorems, FiniteSetTheorems, TLAPS

-----------------------------------------------------------------------------
(***************************************************************************)
(* The host's table.                                                       *)
(***************************************************************************)
Pruning == {t \in Thread : prune[t] \in {"select", "delete"}}

\* Threads that may still make room for the row they have logged.
Due == {t \in Thread : \/ prune[t] \in {"count", "select"}
                       \/ prune[t] = "delete" /\ oldest_ids[t] \cap rows # {}}

First == lastId - Cardinality(rows) + 1

TableTypes == /\ lastId \in Nat /\ pruneFaults \in Nat
              /\ prune \in [Thread -> {"idle", "count", "select", "delete"}]
              /\ oldest_ids \in [Thread -> SUBSET (1 .. lastId)]
              /\ lastId <= MaxLogged

\* The rows are an interval that ends with the last one.
Contiguous == /\ rows = First .. lastId /\ IsFiniteSet(rows)
              /\ First \in 1 .. lastId + 1

\* What a thread is about to delete is a whole batch, which still is the oldest
\* of the table, or is gone.
BatchWhole ==
  \A t \in Thread : prune[t] = "delete" =>
    \E k \in 1 .. lastId :
      /\ oldest_ids[t] = k .. k + PRUNE_BATCH_SIZE - 1
      /\ k + PRUNE_BATCH_SIZE - 1 <= lastId
      /\ k = First \/ k + PRUNE_BATCH_SIZE <= First

\* The threads that are pruning leave room for the batches of the others.
NeverTooFew ==
  Pruning # {} \/ First > 1 =>
    Cardinality(rows) + PRUNE_BATCH_SIZE * (Cardinality(Thread) - Cardinality(Pruning))
      >= MAX_TELEMETRY_ROWS + 1

NeverTooMany == Cardinality(rows) <= MAX_TELEMETRY_ROWS + pruneFaults + Cardinality(Due)

TInv == TableTypes /\ Contiguous /\ BatchWhole /\ NeverTooFew /\ NeverTooMany

\* Sets of threads are finite, and so is what is counted of them.
LEMMA ThreadSet ==
  ASSUME NEW S \in SUBSET Thread
  PROVE  /\ IsFiniteSet(S) /\ Cardinality(S) \in Nat
         /\ Cardinality(S) <= Cardinality(Thread)
         /\ \A t \in Thread :
              /\ Cardinality(S \cup {t}) = IF t \in S THEN Cardinality(S) ELSE Cardinality(S) + 1
              /\ Cardinality(S \ {t}) = IF t \in S THEN Cardinality(S) - 1 ELSE Cardinality(S)
<1>1. IsFiniteSet(S) /\ Cardinality(S) <= Cardinality(Thread)
  BY TableAssumption, FS_Subset
<1> QED BY <1>1, FS_CardinalityType, FS_AddElement, FS_RemoveElement

\* What n threads' batches come to, without p of them.
LEMMA Batches ==
  ASSUME NEW n \in Nat, NEW p \in Nat, p <= n
  PROVE  /\ PRUNE_BATCH_SIZE * (n - p) \in Nat
         /\ PRUNE_BATCH_SIZE * (n - (p - 1)) = PRUNE_BATCH_SIZE * (n - p) + PRUNE_BATCH_SIZE
         /\ p >= 1 => PRUNE_BATCH_SIZE * (n - p) + PRUNE_BATCH_SIZE <= PRUNE_BATCH_SIZE * n
<1> DEFINE B == PRUNE_BATCH_SIZE
<1>0. B \in Nat \ {0}
  BY TableAssumption
<1> HIDE DEF B
<1>1. B * (n - p) = B * n - B * p /\ B * n \in Nat /\ B * p \in Nat
  BY <1>0
<1>2. B * (n - (p - 1)) = B * (n - p) + B
  BY <1>0
<1>3. B * (n - p) \in Nat
  BY <1>0
<1>4. p >= 1 => B * p >= B
  BY <1>0
<1> QED BY <1>0, <1>1, <1>2, <1>3, <1>4 DEF B

\* While a thread prunes, the table holds a batch.
LEMMA BatchThere ==
  ASSUME TInv, Pruning # {}
  PROVE  Cardinality(rows) >= PRUNE_BATCH_SIZE /\ First + PRUNE_BATCH_SIZE - 1 <= lastId
<1> DEFINE n == Cardinality(Thread)
           p == Cardinality(Pruning)
<1>1. Pruning \in SUBSET Thread /\ n \in Nat /\ p \in Nat /\ p <= n
  BY ThreadSet DEF Pruning
<1>2. p >= 1
  BY <1>1, ThreadSet, FS_EmptySet
<1>3. PRUNE_BATCH_SIZE * (n - p) + PRUNE_BATCH_SIZE <= PRUNE_BATCH_SIZE * n
  BY <1>1, <1>2, Batches
<1>4. PRUNE_BATCH_SIZE * (n - p) \in Nat /\ PRUNE_BATCH_SIZE * n \in Nat
  BY <1>1, TableAssumption, Batches
<1>5. Cardinality(rows) \in Nat /\ lastId \in Nat
  BY FS_CardinalityType DEF TInv, Contiguous, TableTypes
<1>6. Cardinality(rows) + PRUNE_BATCH_SIZE * (n - p) >= MAX_TELEMETRY_ROWS + 1
  BY DEF TInv, NeverTooFew
<1> HIDE DEF n, p
<1>7. Cardinality(rows) >= PRUNE_BATCH_SIZE
  BY <1>3, <1>4, <1>5, <1>6, TableAssumption DEF n
<1> QED BY <1>5, <1>7, TableAssumption DEF First

\* The instance's Cardinality is the library's.
LEMMA SameCardinality == \A S : Table!Cardinality(S) = Cardinality(S)
BY DEF Table!Cardinality, Cardinality

\* The order of the ids is the order of the rows.
LEMMA OldestOK ==
  ASSUME TInv, Pruning # {}
  PROVE  Table!Oldest = First .. First + PRUNE_BATCH_SIZE - 1
<1>1. First \in Nat /\ lastId \in Nat /\ rows = First .. lastId
  BY DEF TInv, Contiguous, TableTypes
<1>2. First + PRUNE_BATCH_SIZE - 1 <= lastId
  BY BatchThere
<1>3. ASSUME NEW r \in rows
      PROVE  Cardinality(Table!Older(r)) = r - First
  <2>1. Table!Older(r) = First .. r - 1
    BY <1>1, <1>3 DEF Table!Older
  <2>2. First \in Int /\ r - 1 \in Int /\ r \in Int /\ First <= r
    BY <1>1, <1>3
  <2>3. Cardinality(First .. r - 1) = IF First > r - 1 THEN 0 ELSE r - 1 - First + 1
    BY <2>2, FS_Interval
  <2> QED BY <2>1, <2>2, <2>3
<1>4. Table!Oldest = {r \in rows : r - First < PRUNE_BATCH_SIZE}
  <2>1. \A r \in rows : Cardinality(Table!Older(r)) < PRUNE_BATCH_SIZE
                           <=> r - First < PRUNE_BATCH_SIZE
    BY <1>3
  <2>2. \A r : r \in Table!Oldest <=> r \in rows /\ Cardinality(Table!Older(r)) < PRUNE_BATCH_SIZE
    BY SameCardinality DEF Table!Oldest
  <2>3. \A r : r \in Table!Oldest <=> r \in rows /\ r - First < PRUNE_BATCH_SIZE
    BY <2>1, <2>2
  <2> HIDE DEF First
  <2> QED BY <2>3
<1> HIDE DEF First
<1> QED BY <1>1, <1>2, <1>4, TableAssumption

LEMMA TableInit == Table!Init => TInv
<1> SUFFICES ASSUME Table!Init PROVE TInv
  OBVIOUS
<1> USE DEF Table!Init
<1>1. rows = {} /\ IsFiniteSet(rows) /\ Cardinality(rows) = 0 /\ First = 1
  BY FS_EmptySet DEF First
<1>2. TableTypes
  BY TableAssumption DEF TableTypes
<1>3. Contiguous
  BY <1>1 DEF Contiguous
<1>4. BatchWhole
  BY DEF BatchWhole
<1>5. Pruning = {}
  BY DEF Pruning
<1>6. NeverTooFew
  BY <1>1, <1>5 DEF NeverTooFew
<1>7. Cardinality(Due) \in Nat
  BY ThreadSet DEF Due
<1>8. NeverTooMany
  BY <1>1, <1>7, TableAssumption DEF NeverTooMany
<1> QED BY <1>2, <1>3, <1>4, <1>6, <1>8 DEF TInv

\* Where a thread's call goes does not change the other threads'.
LEMMA Moved ==
  ASSUME TableTypes, NEW t \in Thread, NEW from, NEW to \in {"idle", "count", "select", "delete"},
         Table!Prune(t, from, to)
  PROVE  /\ prune[t] = from /\ prune'[t] = to
         /\ \A u \in Thread \ {t} : prune'[u] = prune[u]
         /\ prune' \in [Thread -> {"idle", "count", "select", "delete"}]
BY DEF TableTypes, Table!Prune

\* A logged row is one more, and its thread is due.
LEMMA LogStateOK ==
  ASSUME TInv, NEW t \in Thread, Table!LogState(t)
  PROVE  TInv'
<1> USE DEF TInv
<1>1. /\ lastId < MaxLogged /\ lastId' = lastId + 1 /\ rows' = rows \cup {lastId'}
      /\ UNCHANGED <<oldest_ids, pruneFaults>>
      /\ prune[t] = "idle" /\ prune'[t] = "count"
      /\ \A u \in Thread \ {t} : prune'[u] = prune[u]
      /\ prune' \in [Thread -> {"idle", "count", "select", "delete"}]
  BY Moved DEF Table!LogState
<1>2. TableTypes'
  <2>1. oldest_ids \in [Thread -> SUBSET (1 .. lastId')]
    BY <1>1 DEF TableTypes
  <2> QED BY <1>1, <2>1, TableAssumption DEF TableTypes
<1>3. lastId \in Nat /\ Cardinality(rows) \in Nat /\ rows = First .. lastId
      /\ First \in 1 .. lastId + 1
  BY FS_CardinalityType DEF TableTypes, Contiguous
<1>4. IsFiniteSet(rows') /\ Cardinality(rows') = Cardinality(rows) + 1
  <2>1. IsFiniteSet(rows) /\ lastId' \notin rows
    BY <1>1, <1>3 DEF Contiguous
  <2> QED BY <1>1, <2>1, FS_AddElement
<1>5. First' = First
  BY <1>1, <1>3, <1>4 DEF First
<1>6. Contiguous'
  <2>1. rows' = First .. lastId'
    BY <1>1, <1>3
  <2> QED BY <1>1, <1>3, <1>4, <1>5, <2>1 DEF Contiguous
<1>7. BatchWhole'
  BY <1>1, <1>3, <1>5, TableAssumption DEF BatchWhole
<1>8. Pruning' = Pruning
  BY <1>1 DEF Pruning
<1>9. Due' = Due \cup {t} /\ t \notin Due
  <2>1. \A u \in Thread : oldest_ids[u] \cap rows' = oldest_ids[u] \cap rows
    BY <1>1, <1>3 DEF TableTypes
  <2> QED BY <1>1, <2>1 DEF Due
<1>10. Cardinality(Due') = Cardinality(Due) + 1 /\ Cardinality(Due) \in Nat
  BY <1>9, ThreadSet DEF Due
<1>11. NeverTooFew'
  <2> DEFINE room == PRUNE_BATCH_SIZE * (Cardinality(Thread) - Cardinality(Pruning))
  <2>1. Cardinality(Pruning) \in Nat /\ Cardinality(Thread) \in Nat
        /\ Cardinality(Pruning) <= Cardinality(Thread)
    BY ThreadSet DEF Pruning
  <2>2. room \in Nat
    BY <2>1, Batches
  <2>3. Pruning # {} \/ First > 1 => Cardinality(rows) + room >= MAX_TELEMETRY_ROWS + 1
    BY DEF NeverTooFew
  <2>4. PRUNE_BATCH_SIZE * (Cardinality(Thread) - Cardinality(Pruning')) = room
    BY <1>8
  <2> HIDE DEF room
  <2> QED BY <1>3, <1>4, <1>5, <1>8, <2>2, <2>3, <2>4, TableAssumption DEF NeverTooFew
<1>12. NeverTooMany'
  BY <1>1, <1>3, <1>4, <1>10, TableAssumption DEF NeverTooMany, TableTypes
<1> QED BY <1>2, <1>6, <1>7, <1>11, <1>12

\* The rows stay: what changes is one thread's step and what it selected.
LEMMA RowsStay ==
  ASSUME TInv, UNCHANGED <<rows, lastId>>
  PROVE  /\ First' = First /\ Contiguous'
         /\ Cardinality(rows') = Cardinality(rows) /\ Cardinality(rows) \in Nat
BY FS_CardinalityType DEF TInv, Contiguous, First

LEMMA CountOK ==
  ASSUME TInv, NEW t \in Thread, Table!Count(t)
  PROVE  TInv'
<1> USE DEF TInv
<1> DEFINE n == Cardinality(Thread)
<1>1. UNCHANGED <<rows, lastId, oldest_ids, pruneFaults>>
  BY DEF Table!Count
<1>2. First' = First /\ Contiguous' /\ Cardinality(rows') = Cardinality(rows)
      /\ Cardinality(rows) \in Nat
  BY <1>1, RowsStay
<1>3. n \in Nat /\ Cardinality(Pruning') \in Nat /\ Cardinality(Pruning') <= n
      /\ Cardinality(Due') \in Nat
  BY ThreadSet DEF Pruning, Due
<1>4. CASE Cardinality(rows) > MAX_TELEMETRY_ROWS /\ Table!Prune(t, "count", "select")
  <2>1. /\ prune[t] = "count" /\ prune'[t] = "select"
        /\ \A u \in Thread \ {t} : prune'[u] = prune[u]
        /\ prune' \in [Thread -> {"idle", "count", "select", "delete"}]
    BY <1>4, Moved
  <2>2. TableTypes' /\ BatchWhole'
    BY <1>1, <1>2, <2>1 DEF TableTypes, BatchWhole
  <2>3. Due' = Due
    BY <1>1, <2>1 DEF Due
  <2>4. NeverTooMany'
    BY <1>1, <1>2, <2>3 DEF NeverTooMany
  <2>5. PRUNE_BATCH_SIZE * (n - Cardinality(Pruning')) \in Nat
    BY <1>3, Batches
  <2> HIDE DEF n
  <2>6. NeverTooFew'
    BY <1>2, <1>4, <2>5, TableAssumption DEF NeverTooFew, n
  <2> QED BY <1>2, <2>2, <2>4, <2>6
<1>5. CASE Cardinality(rows) <= MAX_TELEMETRY_ROWS /\ Table!Prune(t, "count", "idle")
  <2>1. /\ prune[t] = "count" /\ prune'[t] = "idle"
        /\ \A u \in Thread \ {t} : prune'[u] = prune[u]
        /\ prune' \in [Thread -> {"idle", "count", "select", "delete"}]
    BY <1>5, Moved
  <2>2. TableTypes' /\ BatchWhole'
    BY <1>1, <1>2, <2>1 DEF TableTypes, BatchWhole
  <2>3. Pruning' = Pruning
    BY <2>1 DEF Pruning
  <2>4. NeverTooFew'
    BY <1>2, <2>3 DEF NeverTooFew
  <2>5. NeverTooMany'
    BY <1>1, <1>2, <1>3, <1>5, TableAssumption DEF NeverTooMany, TableTypes
  <2> QED BY <1>2, <2>2, <2>4, <2>5
<1> QED BY <1>4, <1>5, SameCardinality DEF Table!Count

LEMMA SelectOK ==
  ASSUME TInv, NEW t \in Thread, Table!Select(t)
  PROVE  TInv'
<1> USE DEF TInv
<1>1. /\ prune[t] = "select" /\ prune'[t] = "delete"
      /\ \A u \in Thread \ {t} : prune'[u] = prune[u]
      /\ prune' \in [Thread -> {"idle", "count", "select", "delete"}]
      /\ oldest_ids' = [oldest_ids EXCEPT ![t] = Table!Oldest]
      /\ UNCHANGED <<rows, lastId, pruneFaults>>
  BY Moved DEF Table!Select
<1>2. First' = First /\ Contiguous' /\ Cardinality(rows') = Cardinality(rows)
      /\ Cardinality(rows) \in Nat
  BY <1>1, RowsStay
<1>3. Pruning' = Pruning /\ t \in Pruning
  BY <1>1 DEF Pruning
<1>4. Table!Oldest = First .. First + PRUNE_BATCH_SIZE - 1
      /\ First + PRUNE_BATCH_SIZE - 1 <= lastId
  BY <1>3, OldestOK, BatchThere
<1>5. First \in 1 .. lastId + 1 /\ lastId \in Nat /\ rows = First .. lastId
  BY DEF Contiguous, TableTypes
<1>6. /\ oldest_ids'[t] = Table!Oldest /\ Table!Oldest \in SUBSET (1 .. lastId)
      /\ \A u \in Thread \ {t} : oldest_ids'[u] = oldest_ids[u]
  <2>1. Table!Oldest \in SUBSET (1 .. lastId)
    BY <1>4, <1>5, TableAssumption
  <2> QED BY <1>1, <2>1 DEF TableTypes
<1>7. TableTypes'
  <2>1. oldest_ids' \in [Thread -> SUBSET (1 .. lastId)]
    <3>1. oldest_ids \in [Thread -> SUBSET (1 .. lastId)]
      BY DEF TableTypes
    <3>2. DOMAIN oldest_ids' = Thread /\ \A u \in Thread : oldest_ids'[u] \in SUBSET (1 .. lastId)
      <4>1. DOMAIN oldest_ids' = Thread
        BY <1>1, <3>1
      <4>2. \A u \in Thread \ {t} : oldest_ids'[u] \in SUBSET (1 .. lastId)
        BY <1>6, <3>1
      <4>3. oldest_ids'[t] \in SUBSET (1 .. lastId)
        BY <1>6
      <4> QED BY <4>1, <4>2, <4>3
    <3>3. oldest_ids' = [u \in Thread |-> oldest_ids'[u]]
      BY <1>1, <3>1, <3>2
    <3> QED BY <3>2, <3>3
  <2>2. /\ lastId' \in Nat /\ pruneFaults' \in Nat /\ lastId' <= MaxLogged
        /\ oldest_ids' \in [Thread -> SUBSET (1 .. lastId')]
    BY <1>1, <2>1 DEF TableTypes
  <2> QED BY <1>1, <2>2 DEF TableTypes
<1>8. BatchWhole'
  <2> SUFFICES ASSUME NEW u \in Thread, prune'[u] = "delete"
               PROVE  \E k \in 1 .. lastId' :
                        /\ oldest_ids'[u] = k .. k + PRUNE_BATCH_SIZE - 1
                        /\ k + PRUNE_BATCH_SIZE - 1 <= lastId'
                        /\ k = First' \/ k + PRUNE_BATCH_SIZE <= First'
    BY DEF BatchWhole
  <2>1. CASE u = t
    <3>1. First \in 1 .. lastId
      BY <1>4, <1>5, TableAssumption
    <3> QED BY <1>1, <1>2, <1>4, <1>6, <2>1, <3>1
  <2>2. CASE u # t
    <3>1. prune[u] = "delete" /\ oldest_ids'[u] = oldest_ids[u]
      BY <1>1, <1>6, <2>2
    <3> QED BY <1>1, <1>2, <3>1 DEF BatchWhole
  <2> QED BY <2>1, <2>2
<1>9. Due' = Due
  <2>1. oldest_ids'[t] \cap rows' # {}
    <3>1. First \in First .. First + PRUNE_BATCH_SIZE - 1 /\ First \in First .. lastId
      BY <1>4, <1>5, TableAssumption
    <3> QED BY <1>1, <1>4, <1>5, <1>6, <3>1
  <2>2. \A u \in Thread \ {t} : oldest_ids'[u] \cap rows' = oldest_ids[u] \cap rows
    BY <1>1, <1>6
  <2> QED BY <1>1, <2>1, <2>2 DEF Due
<1>10. NeverTooFew' /\ NeverTooMany'
  BY <1>1, <1>2, <1>3, <1>9 DEF NeverTooFew, NeverTooMany
<1> QED BY <1>2, <1>7, <1>8, <1>10

\* The thread that leaves gives its batch back to the room there is.
LEMMA RoomGrows ==
  ASSUME TInv, NEW t \in Thread, Pruning' = Pruning \ {t}, NEW gone \in {0, PRUNE_BATCH_SIZE},
         gone = PRUNE_BATCH_SIZE => t \in Pruning,
         Cardinality(rows') = Cardinality(rows) - gone, Cardinality(rows') \in Nat,
         gone = 0 => First' = First
  PROVE  NeverTooFew'
<1> DEFINE n == Cardinality(Thread)
           p == Cardinality(Pruning)
           room == PRUNE_BATCH_SIZE * (n - p)
           more == PRUNE_BATCH_SIZE * (n - Cardinality(Pruning'))
<1>1. n \in Nat /\ p \in Nat /\ p <= n
      /\ Cardinality(Pruning') = IF t \in Pruning THEN p - 1 ELSE p
  <2>1. Pruning \in SUBSET Thread /\ Thread \in SUBSET Thread
    BY DEF Pruning
  <2>2. n \in Nat /\ p \in Nat /\ p <= n
        /\ Cardinality(Pruning \ {t}) = IF t \in Pruning THEN p - 1 ELSE p
    BY <2>1, ThreadSet, Zenon
  <2> QED BY <2>2
<1>2. room \in Nat /\ PRUNE_BATCH_SIZE * (n - (p - 1)) = room + PRUNE_BATCH_SIZE
  BY <1>1, Batches
<1>3. more = IF t \in Pruning THEN room + PRUNE_BATCH_SIZE ELSE room
  BY <1>1, <1>2
<1>4. Pruning # {} \/ First > 1 => Cardinality(rows) + room >= MAX_TELEMETRY_ROWS + 1
  BY DEF TInv, NeverTooFew
<1>5. Cardinality(rows) \in Nat
  BY FS_CardinalityType DEF TInv, Contiguous
<1>6. SUFFICES ASSUME Pruning' # {} \/ First' > 1
               PROVE  Cardinality(rows') + more >= MAX_TELEMETRY_ROWS + 1
  BY DEF NeverTooFew
<1>7. Pruning # {} \/ First > 1
  BY <1>6
<1> HIDE DEF room, more
<1> QED BY <1>2, <1>3, <1>4, <1>5, <1>7, TableAssumption

LEMMA PruneFailsOK ==
  ASSUME TInv, NEW t \in Thread, Table!PruneFails(t)
  PROVE  TInv'
<1> USE DEF TInv
<1>1. /\ prune[t] # "idle" /\ prune'[t] = "idle"
      /\ \A u \in Thread \ {t} : prune'[u] = prune[u]
      /\ prune' \in [Thread -> {"idle", "count", "select", "delete"}]
      /\ oldest_ids' = [oldest_ids EXCEPT ![t] = {}]
      /\ UNCHANGED <<rows, lastId>> /\ pruneFaults' = pruneFaults + 1
  BY Moved DEF Table!PruneFails
<1>2. First' = First /\ Contiguous' /\ Cardinality(rows') = Cardinality(rows)
      /\ Cardinality(rows) \in Nat
  BY <1>1, RowsStay
<1>3. TableTypes'
  BY <1>1 DEF TableTypes
<1>4. \A u \in Thread \ {t} : oldest_ids'[u] = oldest_ids[u]
  BY <1>1 DEF TableTypes
<1>5. BatchWhole'
  BY <1>1, <1>2, <1>4 DEF BatchWhole
<1>6. Pruning' = Pruning \ {t}
  BY <1>1 DEF Pruning
<1>7. NeverTooFew'
  BY <1>2, <1>6, RoomGrows, TableAssumption
<1>8. Due' = Due \ {t}
  BY <1>1, <1>4 DEF Due
<1>9. Cardinality(Due') >= Cardinality(Due) - 1 /\ Cardinality(Due) \in Nat
      /\ Cardinality(Due') \in Nat
  <2>1. Due \in SUBSET Thread
    BY DEF Due
  <2>2. /\ Cardinality(Due) \in Nat
        /\ Cardinality(Due \ {t}) = IF t \in Due THEN Cardinality(Due) - 1 ELSE Cardinality(Due)
    BY <2>1, ThreadSet
  <2>3. Due' \in SUBSET Thread
    BY <1>8, <2>1
  <2>4. Cardinality(Due') \in Nat
    BY <2>3, ThreadSet
  <2> QED BY <1>8, <2>2, <2>4
<1>10. NeverTooMany'
  BY <1>1, <1>2, <1>9, TableAssumption DEF NeverTooMany, TableTypes
<1> QED BY <1>2, <1>3, <1>5, <1>7, <1>10

LEMMA DeleteOK ==
  ASSUME TInv, NEW t \in Thread, Table!Delete(t)
  PROVE  TInv'
<1> USE DEF TInv
<1> DEFINE B == PRUNE_BATCH_SIZE
<1>1. /\ prune[t] = "delete" /\ prune'[t] = "idle"
      /\ \A u \in Thread \ {t} : prune'[u] = prune[u]
      /\ prune' \in [Thread -> {"idle", "count", "select", "delete"}]
      /\ oldest_ids' = [oldest_ids EXCEPT ![t] = {}]
      /\ rows' = rows \ oldest_ids[t]
      /\ UNCHANGED <<lastId, pruneFaults>>
  BY Moved DEF Table!Delete
<1>2. TableTypes'
  BY <1>1 DEF TableTypes
<1>3. \A u \in Thread \ {t} : oldest_ids'[u] = oldest_ids[u]
  BY <1>1 DEF TableTypes
<1>4. Pruning' = Pruning \ {t} /\ t \in Pruning
  BY <1>1 DEF Pruning
<1>5. B \in Nat \ {0} /\ lastId \in Nat /\ Cardinality(rows) \in Nat /\ pruneFaults \in Nat
      /\ rows = First .. lastId /\ First \in 1 .. lastId + 1
  BY TableAssumption, FS_CardinalityType DEF Contiguous, TableTypes
<1>6. PICK k \in 1 .. lastId : /\ oldest_ids[t] = k .. k + B - 1
                               /\ k + B - 1 <= lastId
                               /\ k = First \/ k + B <= First
  BY <1>1 DEF BatchWhole
\* The batch is still there: the table loses it.
<1>7. CASE k = First
  <2>1. rows' = First + B .. lastId
    <3> HIDE DEF B, First
    <3> QED BY <1>1, <1>5, <1>6, <1>7
  <2>2. IsFiniteSet(rows') /\ Cardinality(rows') = Cardinality(rows) - B
    <3>1. First + B \in Int /\ lastId \in Int
      BY <1>5
    <3>2. /\ IsFiniteSet(First + B .. lastId)
          /\ Cardinality(First + B .. lastId)
               = IF First + B > lastId THEN 0 ELSE lastId - (First + B) + 1
      BY <3>1, FS_Interval
    <3>3. Cardinality(rows) = lastId - First + 1
      BY <1>5 DEF First
    <3> HIDE DEF B, First
    <3> QED BY <1>5, <1>6, <1>7, <2>1, <3>2, <3>3
  <2>3. Cardinality(rows') \in Nat /\ First' = First + B
    <3>1. First' = lastId - Cardinality(rows') + 1
      BY <1>1 DEF First
    <3>2. Cardinality(rows) = lastId - First + 1
      BY <1>5 DEF First
    <3> HIDE DEF B, First
    <3> QED BY <1>5, <1>6, <1>7, <2>2, <3>1, <3>2
  <2>4. Contiguous'
    <3>1. rows' = First' .. lastId' /\ First' \in 1 .. lastId' + 1
      <4> HIDE DEF B, First
      <4> QED BY <1>1, <1>5, <1>6, <1>7, <2>1, <2>3
    <3> QED BY <2>2, <3>1 DEF Contiguous
  <2>5. BatchWhole'
    <3> SUFFICES ASSUME NEW u \in Thread, prune'[u] = "delete"
                 PROVE  \E m \in 1 .. lastId' :
                          /\ oldest_ids'[u] = m .. m + B - 1
                          /\ m + B - 1 <= lastId'
                          /\ m = First' \/ m + B <= First'
      BY DEF BatchWhole
    <3>1. prune[u] = "delete" /\ oldest_ids'[u] = oldest_ids[u]
      BY <1>1, <1>3
    <3>2. PICK m \in 1 .. lastId : /\ oldest_ids[u] = m .. m + B - 1
                                   /\ m + B - 1 <= lastId
                                   /\ m = First \/ m + B <= First
      BY <3>1 DEF BatchWhole
    <3>3. m + B <= First'
      <4> HIDE DEF B, First
      <4> QED BY <1>5, <2>3, <3>2
    <3> QED BY <1>1, <3>1, <3>2, <3>3
  <2>6. NeverTooFew'
    <3>1. B \in {0, PRUNE_BATCH_SIZE} /\ (B = 0 => First' = First)
      BY <1>5
    <3> QED BY <1>4, <2>2, <2>3, <3>1, RoomGrows
  <2>7. NeverTooMany'
    <3>1. Due \in SUBSET Thread /\ Due' \in SUBSET Thread
      BY DEF Due
    <3>2. Cardinality(Due) \in Nat /\ Cardinality(Due') \in Nat
          /\ Cardinality(Due) <= Cardinality(Thread) /\ Cardinality(Thread) \in Nat
      BY <3>1, ThreadSet
    <3>3. Cardinality(rows) <= MAX_TELEMETRY_ROWS + pruneFaults + Cardinality(Due)
      BY DEF NeverTooMany
    <3>4. Cardinality(rows') <= MAX_TELEMETRY_ROWS + pruneFaults + Cardinality(Due')
      BY <1>5, <2>2, <2>3, <3>2, <3>3, TableAssumption
    <3> QED BY <1>1, <3>4 DEF NeverTooMany
  <2> QED BY <1>2, <2>4, <2>5, <2>6, <2>7
\* Another thread has deleted it.
<1>8. CASE k + B <= First
  <2>1. rows' = rows /\ oldest_ids[t] \cap rows = {}
    <3> HIDE DEF B, First
    <3> QED BY <1>1, <1>5, <1>6, <1>8
  <2>2. First' = First /\ Contiguous' /\ Cardinality(rows') = Cardinality(rows)
    BY <1>1, <2>1, RowsStay
  <2>3. BatchWhole'
    BY <1>1, <1>3, <2>2 DEF BatchWhole
  <2>4. NeverTooFew'
    <3>1. 0 \in {0, PRUNE_BATCH_SIZE} /\ (0 = PRUNE_BATCH_SIZE => t \in Pruning)
      BY <1>5
    <3>2. Cardinality(rows') = Cardinality(rows) - 0 /\ Cardinality(rows') \in Nat
      BY <1>5, <2>2
    <3> QED BY <1>4, <2>2, <3>1, <3>2, RoomGrows
  <2>5. Due' = Due
    <3>1. t \notin Due /\ t \notin Due'
      BY <1>1, <2>1 DEF Due
    <3> QED BY <1>1, <1>3, <2>1, <3>1 DEF Due
  <2>6. NeverTooMany'
    BY <1>1, <2>2, <2>5 DEF NeverTooMany
  <2> QED BY <1>2, <2>2, <2>3, <2>4, <2>6
<1> QED BY <1>6, <1>7, <1>8

LEMMA TableStep == TInv /\ [Table!Next]_tableVars => TInv'
<1>1. ASSUME TInv, Table!Next PROVE TInv'
  BY <1>1, LogStateOK, CountOK, SelectOK, DeleteOK, PruneFailsOK DEF Table!Next
<1>2. ASSUME TInv, UNCHANGED tableVars PROVE TInv'
  BY <1>2 DEF tableVars, TInv, TableTypes, Contiguous, BatchWhole, NeverTooFew, NeverTooMany,
              First, Pruning, Due
<1> QED BY <1>1, <1>2

LEMMA TableKept == TInv => TableInv
<1> SUFFICES ASSUME TInv PROVE Table!TableInv
  BY DEF TableInv
<1> USE DEF TInv
<1> DEFINE B == PRUNE_BATCH_SIZE
           n == Cardinality(Thread)
<1>1. /\ lastId \in Nat /\ Cardinality(rows) \in Nat /\ pruneFaults \in Nat
      /\ First \in 1 .. lastId + 1 /\ First = lastId - Cardinality(rows) + 1
  BY FS_CardinalityType DEF TableTypes, Contiguous, First
<1>2. Table!TypeOK
  BY DEF TableTypes, Table!TypeOK
<1>3. Table!LatestRows
  BY SameCardinality DEF Contiguous, First, Table!LatestRows
<1>4. Due \in SUBSET Thread /\ Pruning \in SUBSET Thread
  BY DEF Due, Pruning
<1>5. n \in Nat /\ Cardinality(Due) \in Nat /\ Cardinality(Due) <= n
      /\ Cardinality(Pruning) \in Nat /\ Cardinality(Pruning) <= n
  BY <1>4, ThreadSet
<1>6. Cardinality(rows) <= MAX_TELEMETRY_ROWS + n + pruneFaults
  <2>1. Cardinality(rows) <= MAX_TELEMETRY_ROWS + pruneFaults + Cardinality(Due)
    BY DEF NeverTooMany
  <2> HIDE DEF n
  <2> QED BY <1>1, <1>5, <2>1, TableAssumption
<1>7. Cardinality(rows) <= MAX_TELEMETRY_ROWS - B * n => Cardinality(rows) = lastId
  <2> SUFFICES ASSUME Cardinality(rows) <= MAX_TELEMETRY_ROWS - B * n, First > 1
               PROVE  FALSE
    BY <1>1
  <2>1. Cardinality(rows) + B * (n - Cardinality(Pruning)) >= MAX_TELEMETRY_ROWS + 1
    BY DEF NeverTooFew
  <2>2. /\ B * (n - Cardinality(Pruning)) \in Nat /\ B * n \in Nat
        /\ Cardinality(Pruning) >= 1 => B * (n - Cardinality(Pruning)) + B <= B * n
        /\ Cardinality(Pruning) = 0 => B * (n - Cardinality(Pruning)) = B * n
    <3>1. B * (n - Cardinality(Pruning)) \in Nat
      BY <1>5, Batches
    <3>2. Cardinality(Pruning) >= 1 => B * (n - Cardinality(Pruning)) + B <= B * n
      BY <1>5, Batches
    <3>3. B * n \in Nat
      BY <1>5, TableAssumption
    <3>4. Cardinality(Pruning) = 0 => n - Cardinality(Pruning) = n
      BY <1>5
    <3> QED BY <3>1, <3>2, <3>3, <3>4
  <2>3. Cardinality(Pruning) = 0 \/ Cardinality(Pruning) >= 1
    BY <1>5
  <2> DEFINE x == B * (n - Cardinality(Pruning))
             y == B * n
  <2>4. x \in Nat /\ y \in Nat /\ x <= y
    <3>1. B \in Nat
      BY TableAssumption
    <3> HIDE DEF x, y
    <3>2. x \in Nat /\ y \in Nat
      BY <2>2 DEF x, y
    <3>3. Cardinality(Pruning) = 0 => x = y
      BY <2>2 DEF x, y
    <3>4. Cardinality(Pruning) >= 1 => x + B <= y
      BY <2>2 DEF x, y
    <3> HIDE DEF B
    <3> QED BY <2>3, <3>1, <3>2, <3>3, <3>4
  <2>5. Cardinality(rows) + x >= MAX_TELEMETRY_ROWS + 1
        /\ Cardinality(rows) <= MAX_TELEMETRY_ROWS - y
    BY <2>1
  <2> HIDE DEF x, y
  <2> QED BY <1>1, <2>4, <2>5, TableAssumption
<1>8. Table!LimitKept
  <2> HIDE DEF B, n
  <2>1. Cardinality(rows) <= MAX_TELEMETRY_ROWS - PRUNE_BATCH_SIZE * Cardinality(Thread)
          => Cardinality(rows) = lastId
    BY <1>7 DEF B, n
  <2>2. Cardinality(rows) <= MAX_TELEMETRY_ROWS + Cardinality(Thread) + pruneFaults
    BY <1>6 DEF n
  <2> QED BY <2>1, <2>2, SameCardinality DEF Table!LimitKept
<1> QED BY <1>2, <1>3, <1>8 DEF Table!TableInv

-----------------------------------------------------------------------------
(***************************************************************************)
(* The cloud's conductor.                                                  *)
(***************************************************************************)
QueuesOK == /\ telemetry_queue \in Seq(Nat) /\ micro \in Seq(Nat)
            /\ committed \in Seq(Nat) /\ simulated_step \in Nat

\* A batch is in hand only between its first snapshot and its commit, or after
\* the commit failed.
BatchByStep == /\ flusher = "check" => micro = << >>
               /\ flusher = "commit" => micro # << >>
               /\ flusher = "done" /\ ~storage_failed => micro = << >>

\* Once the flusher has left, the event is set, and what the producer can still
\* do is the one put whose check came before.
LastPut == flusher = "done" =>
  /\ shutdown_event
  /\ ~storage_failed => /\ producer = "put" => telemetry_queue = << >>
                        /\ Len(telemetry_queue) <= 1

CInv == Conductor!TypeOK /\ Conductor!Accounted /\ QueuesOK /\ BatchByStep /\ LastPut

\* Facts about concatenation in the form Zenon can cite.
LEMMA Associative ==
  ASSUME NEW x \in Seq(Nat), NEW y \in Seq(Nat), NEW z \in Seq(Nat)
  PROVE  x \o y \in Seq(Nat) /\ x \o (y \o z) = (x \o y) \o z
OBVIOUS

LEMMA AppendInside ==
  ASSUME NEW x \in Seq(Nat), NEW s \in Seq(Nat), NEW e \in Nat
  PROVE  x \o Append(s, e) = Append(x \o s, e)
OBVIOUS

LEMMA AppendOne ==
  ASSUME NEW s \in Seq(Nat), NEW e \in Nat
  PROVE  <<e>> \in Seq(Nat) /\ Append(s, e) = s \o <<e>>
OBVIOUS

LEMMA HeadOne ==
  ASSUME NEW t \in Seq(Nat), t # << >>
  PROVE  Head(t) \in Nat /\ Tail(t) \in Seq(Nat) /\ t = <<Head(t)>> \o Tail(t)
OBVIOUS

LEMMA Joined == \A x, y \in Seq(Nat) : x \o y \in Seq(Nat)
BY Associative, Zenon

LEMMA Regroup == \A x, y, z \in Seq(Nat) : x \o (y \o z) = (x \o y) \o z
BY Associative, Zenon

LEMMA ConcatAppend == \A x, s \in Seq(Nat), e \in Nat : x \o Append(s, e) = Append(x \o s, e)
BY AppendInside, Zenon

LEMMA One == \A s \in Seq(Nat), e \in Nat : <<e>> \in Seq(Nat) /\ Append(s, e) = s \o <<e>>
BY AppendOne, Zenon

\* What is accounted for does not change when a snapshot moves from the queue
\* into the batch, or the batch into the table.
LEMMA MoveHead ==
  ASSUME NEW r \in Seq(Nat), NEW s \in Seq(Nat), NEW t \in Seq(Nat), t # << >>
  PROVE  r \o Append(s, Head(t)) \o Tail(t) = r \o s \o t
<1> DEFINE x == r \o s
           h == <<Head(t)>>
<1>1. Head(t) \in Nat /\ Tail(t) \in Seq(Nat)
  BY HeadOne, Zenon
<1>2. t = h \o Tail(t)
  BY HeadOne, Zenon
<1>3. h \in Seq(Nat) /\ x \in Seq(Nat)
  BY <1>1, One, Joined, Zenon
<1>4. r \o Append(s, Head(t)) = x \o h
  <2>1. r \o Append(s, Head(t)) = Append(x, Head(t))
    BY <1>1, ConcatAppend, Zenon
  <2>2. Append(x, Head(t)) = x \o h
    BY <1>1, <1>3, One, Zenon
  <2> QED BY <2>1, <2>2, Zenon
<1> HIDE DEF x, h
<1>5. x \o (h \o Tail(t)) = (x \o h) \o Tail(t)
  <2>1. \A y, z \in Seq(Nat) : x \o (y \o z) = (x \o y) \o z
    BY <1>3, Regroup, Zenon
  <2> QED BY <1>1, <1>3, <2>1, Zenon
<1>6. r \o Append(s, Head(t)) \o Tail(t) = x \o t
  BY <1>2, <1>4, <1>5
<1> QED BY <1>6 DEF x

LEMMA MoveBatch ==
  ASSUME NEW r \in Seq(Nat), NEW s \in Seq(Nat), NEW t \in Seq(Nat)
  PROVE  (r \o s) \o << >> \o t = r \o s \o t
OBVIOUS

LEMMA MoveIn ==
  ASSUME NEW r \in Seq(Nat), NEW s \in Seq(Nat), NEW t \in Seq(Nat), NEW n \in Nat
  PROVE  r \o s \o Append(t, n) = Append(r \o s \o t, n)
<1> DEFINE x == r \o s
<1>1. x \in Seq(Nat)
  BY Joined, Zenon
<1> HIDE DEF x
<1>2. x \o Append(t, n) = Append(x \o t, n)
  BY <1>1, ConcatAppend, Zenon
<1> QED BY <1>2 DEF x

LEMMA ConductorInit == Conductor!Init => CInv
<1> SUFFICES ASSUME Conductor!Init PROVE CInv
  OBVIOUS
<1>1. Conductor!Accounted
  BY ConcatEmptySeq, EmptySeq DEF Conductor!Init, Conductor!Accounted
<1>2. Conductor!TypeOK
  <2>1. shutdown_event \in BOOLEAN /\ storage_failed \in BOOLEAN
    BY DEF Conductor!Init
  <2> QED BY <2>1, ConductorAssumption DEF Conductor!Init, Conductor!TypeOK
<1>3. QueuesOK /\ BatchByStep /\ LastPut
  BY DEF Conductor!Init, QueuesOK, BatchByStep, LastPut
<1> QED BY <1>1, <1>2, <1>3 DEF CInv

\* The producer may add one snapshot after the flusher has left, not two.
LEMMA ProducerOK ==
  ASSUME CInv, Conductor!Producer
  PROVE  CInv'
<1> USE ConductorAssumption DEF CInv, Conductor!TypeOK, BatchByStep, LastPut, Conductor!threads
<1>1. CASE Conductor!ProducerCheck
  BY <1>1 DEF Conductor!ProducerCheck, Conductor!Accounted, QueuesOK
<1>2. CASE Conductor!ProducerPut
  <2>1. CASE UNCHANGED <<simulated_step, telemetry_queue, taken>>
    BY <1>2, <2>1 DEF Conductor!ProducerPut, Conductor!Accounted, QueuesOK
  <2>2. CASE /\ simulated_step' = simulated_step + 1
             /\ Len(telemetry_queue) < QUEUE_MAX_SIZE
             /\ telemetry_queue' = Append(telemetry_queue, simulated_step')
             /\ taken' = Append(taken, simulated_step')
    <3>1. QueuesOK' /\ Len(telemetry_queue') = Len(telemetry_queue) + 1
      BY <1>2, <2>2 DEF Conductor!ProducerPut, QueuesOK
    <3>2. Conductor!Accounted'
      <4>1. simulated_step' \in Nat /\ micro' = micro /\ committed' = committed
        BY <1>2, <2>2 DEF Conductor!ProducerPut, QueuesOK
      <4>2. committed \o micro \o Append(telemetry_queue, simulated_step')
              = Append(committed \o micro \o telemetry_queue, simulated_step')
        <5>1. /\ committed \in Seq(Nat) /\ micro \in Seq(Nat)
              /\ telemetry_queue \in Seq(Nat)
          BY DEF QueuesOK
        <5>2. \A t \in Seq(Nat), n \in Nat :
                committed \o micro \o Append(t, n) = Append(committed \o micro \o t, n)
          BY <5>1, MoveIn, Zenon
        <5> QED BY <4>1, <5>1, <5>2, Zenon
      <4> QED BY <2>2, <4>1, <4>2 DEF Conductor!Accounted
    <3>3. Len(telemetry_queue) \in Nat /\ (telemetry_queue = << >> => Len(telemetry_queue) = 0)
      BY DEF QueuesOK
    <3> QED BY <1>2, <2>2, <3>1, <3>2, <3>3 DEF Conductor!ProducerPut
  <2>3. CASE simulated_step' = simulated_step + 1 /\ UNCHANGED <<telemetry_queue, taken>>
    <3>1. Conductor!Accounted'
      BY <1>2, <2>3 DEF Conductor!ProducerPut, Conductor!Accounted
    <3>2. QueuesOK'
      BY <1>2, <2>3 DEF Conductor!ProducerPut, QueuesOK
    <3> QED BY <1>2, <2>3, <3>1, <3>2 DEF Conductor!ProducerPut
  <2> QED BY <1>2, <2>1, <2>2, <2>3 DEF Conductor!ProducerPut
<1> QED BY <1>1, <1>2 DEF Conductor!Producer

LEMMA FlusherOK ==
  ASSUME CInv, Conductor!Flusher
  PROVE  CInv'
<1> USE ConductorAssumption DEF CInv, Conductor!TypeOK, BatchByStep, LastPut, Conductor!threads
<1>1. CASE Conductor!FlusherCheck
  BY <1>1 DEF Conductor!FlusherCheck, Conductor!FlushesOn, Conductor!Accounted, QueuesOK
<1>2. CASE Conductor!Collect
  <2>1. CASE /\ telemetry_queue # << >> /\ Len(micro) < FLUSH_BATCH_SIZE
             /\ micro' = Append(micro, Head(telemetry_queue))
             /\ telemetry_queue' = Tail(telemetry_queue)
             /\ UNCHANGED flusher
    <3>1. QueuesOK' /\ Len(micro') = Len(micro) + 1
          /\ Len(telemetry_queue') = Len(telemetry_queue) - 1
      BY <1>2, <2>1 DEF Conductor!Collect, QueuesOK
    <3>2. Conductor!Accounted'
      BY <1>2, <2>1, MoveHead DEF Conductor!Collect, QueuesOK, Conductor!Accounted
    <3>3. Len(micro) \in Nat /\ Len(telemetry_queue) \in Nat
      BY DEF QueuesOK
    <3> QED BY <1>2, <2>1, <3>1, <3>2, <3>3 DEF Conductor!Collect
  <2>2. CASE UNCHANGED <<telemetry_queue, micro>>
    BY <1>2, <2>2 DEF Conductor!Collect, Conductor!Accounted, QueuesOK
  <2> QED BY <1>2, <2>1, <2>2 DEF Conductor!Collect
<1>3. CASE Conductor!Commit
  <2>1. QueuesOK' /\ Len(micro') = 0
    BY <1>3 DEF Conductor!Commit, QueuesOK
  <2>2. Conductor!Accounted'
    BY <1>3, MoveBatch DEF Conductor!Commit, QueuesOK, Conductor!Accounted
  <2> QED BY <1>3, <2>1, <2>2 DEF Conductor!Commit
<1>4. CASE Conductor!CommitFails
  BY <1>4 DEF Conductor!CommitFails, Conductor!Accounted, QueuesOK
<1> QED BY <1>1, <1>2, <1>3, <1>4 DEF Conductor!Flusher

LEMMA StopperOK ==
  ASSUME CInv, Conductor!Stop \/ Conductor!Joins \/ UNCHANGED conductorVars
  PROVE  CInv'
BY DEF Conductor!Stop, Conductor!Joins, Conductor!Join, conductorVars, Conductor!threads, CInv, Conductor!TypeOK, BatchByStep, LastPut,
       Conductor!Accounted, QueuesOK

LEMMA ConductorStep == CInv /\ [Conductor!Next]_conductorVars => CInv'
BY ProducerOK, FlusherOK, StopperOK DEF Conductor!Next, conductorVars, Conductor!conductorVars,
   Conductor!threads

LEMMA ConductorKept == CInv => ConductorInv
BY DEF CInv, ConductorInv, Conductor!ConductorInv, Conductor!OneLeftAtMost, BatchByStep, LastPut

-----------------------------------------------------------------------------
(***************************************************************************)
(* The control plane's pool.                                               *)
(***************************************************************************)
EndpointStates == {"new", "accepting", "streaming", "broken", "closed"}
PoolTypes == /\ endpoint \in [Client -> EndpointStates]
             /\ cast \in [Broadcast -> {"idle", "sending", "failed", "done"}]
             /\ linked \subseteq Client
             /\ active_connections \in Seq(Client)
             /\ left \in [Broadcast -> Seq(Client)]
             /\ reached \in [Broadcast -> SUBSET Client]
             /\ refused \in [Broadcast -> SUBSET Client]
             /\ audience \in [Broadcast -> SUBSET Client]

Listed(c) == \E i \in DOMAIN active_connections : active_connections[i] = c
Once == \A i, j \in DOMAIN active_connections :
          active_connections[i] = active_connections[j] => i = j

\* Who is in a broadcast's list has been accepted, and is in the pool until its
\* endpoint takes it out or a broadcast gives it up.
Served(c) == /\ endpoint[c] \in {"streaming", "broken"}
             /\ \A b \in Broadcast : c \notin refused[b]
Accepted(c) == endpoint[c] \in {"streaming", "broken", "closed"}
ListedAreServed == \A c \in Client : Listed(c) <=> Served(c)
CastKnowsServed ==
  \A b \in Broadcast :
    /\ \A c \in refused[b] : Accepted(c)
    /\ \A i \in DOMAIN left[b] : Accepted(left[b][i])
    /\ cast[b] = "idle" => audience[b] = {}
    /\ \A c \in audience[b] : \/ c \in reached[b] \cup refused[b]
                              \/ \E i \in DOMAIN left[b] : left[b][i] = c
    /\ cast[b] = "done" => left[b] = << >>

PInv == PoolTypes /\ Once /\ ListedAreServed /\ CastKnowsServed

\* A sequence without one of its elements.
LEMMA DropAt ==
  ASSUME NEW S, NEW s \in Seq(S), NEW i \in 1 .. Len(s), NEW r, r = Plane!RemoveAt(s, i)
  PROVE  /\ r \in Seq(S) /\ Len(r) = Len(s) - 1
         /\ \A j \in 1 .. Len(r) : r[j] = IF j < i THEN s[j] ELSE s[j + 1]
<1> DEFINE front == SubSeq(s, 1, i - 1)
           back == SubSeq(s, i + 1, Len(s))
<1>1. r = front \o back
  BY DEF Plane!RemoveAt
<1>2. front \in Seq(S) /\ Len(front) = i - 1 /\ \A j \in 1 .. i - 1 : front[j] = s[j]
  BY SubSeqProperties
<1>3. back \in Seq(S) /\ Len(back) = Len(s) - i
      /\ \A j \in 1 .. Len(s) - i : back[j] = s[j + i]
  BY SubSeqProperties
<1> HIDE DEF front, back
<1>4. Len(s) \in Nat
  OBVIOUS
<1>5. r \in Seq(S) /\ Len(r) = Len(s) - 1
  BY <1>1, <1>2, <1>3, <1>4, ConcatProperties
<1>6. \A j \in 1 .. Len(r) : r[j] = IF j <= i - 1 THEN front[j] ELSE back[j - (i - 1)]
  <2>1. front \in Seq(S) /\ back \in Seq(S)
    BY <1>2, <1>3
  <2>2. \A j \in 1 .. Len(front) + Len(back) :
          r[j] = IF j <= Len(front) THEN front[j] ELSE back[j - Len(front)]
    BY <1>1, <2>1, ConcatProperties
  <2>3. Len(front) = i - 1 /\ Len(front) + Len(back) = Len(r)
    BY <1>2, <1>3, <1>4, <1>5
  <2> QED BY <2>2, <2>3
<1>7. ASSUME NEW j \in 1 .. Len(r) PROVE r[j] = IF j < i THEN s[j] ELSE s[j + 1]
  <2>1. CASE j < i
    BY <1>2, <1>5, <1>6, <1>7, <2>1
  <2>2. CASE j >= i
    <3>1. j - (i - 1) \in 1 .. Len(s) - i /\ (j - (i - 1)) + i = j + 1
      BY <1>4, <1>5, <2>2
    <3>2. back[j - (i - 1)] = s[j + 1]
      BY <1>3, <3>1
    <3> QED BY <1>6, <2>2, <3>2
  <2> QED BY <2>1, <2>2
<1> QED BY <1>5, <1>7

\* disconnect takes its client out of the pool and no other.
LEMMA WithoutOK ==
  ASSUME PInv, NEW c \in Client, active_connections' = Plane!Without(c)
  PROVE  /\ active_connections' \in Seq(Client) /\ Once'
         /\ \A d \in Client : Listed(d)' <=> Listed(d) /\ d # c
<1> USE DEF PInv
<1>1. active_connections \in Seq(Client)
  BY DEF PoolTypes
<1>2. CASE ~Listed(c)
  <2>1. active_connections' = active_connections
    BY <1>2 DEF Plane!Without, Plane!Contains, Listed
  <2> QED BY <1>1, <1>2, <2>1 DEF Once, Listed
<1>3. CASE Listed(c)
  <2> DEFINE i == CHOOSE j \in DOMAIN active_connections : active_connections[j] = c
  <2>1. active_connections' = Plane!RemoveAt(active_connections, i)
    BY <1>3 DEF Plane!Without, Plane!Contains, Listed
  <2>2. i \in 1 .. Len(active_connections) /\ active_connections[i] = c
    BY <1>1, <1>3 DEF Listed
  <2> HIDE DEF i
  <2> DEFINE s == active_connections
             r == active_connections'
  <2>3. /\ r \in Seq(Client) /\ Len(r) = Len(s) - 1
        /\ \A j \in 1 .. Len(r) : r[j] = IF j < i THEN s[j] ELSE s[j + 1]
    <3>1. r = Plane!RemoveAt(s, i) /\ s \in Seq(Client) /\ i \in 1 .. Len(s)
      BY <1>1, <2>1, <2>2
    <3> HIDE DEF s, r
    <3> QED BY <3>1, DropAt
  <2>4. DOMAIN s = 1 .. Len(s) /\ DOMAIN r = 1 .. Len(r) /\ Len(s) \in Nat
    BY <1>1, <2>3
  <2>5. \A j, k \in 1 .. Len(s) : s[j] = s[k] => j = k
    BY <2>4 DEF Once
  <2> HIDE DEF s, r
  <2>6. \A j, k \in 1 .. Len(r) : r[j] = r[k] => j = k
    <3> SUFFICES ASSUME NEW j \in 1 .. Len(r), NEW k \in 1 .. Len(r), r[j] = r[k], j < k
                 PROVE  FALSE
      BY <2>3, <2>4
    <3>1. PICK a \in 1 .. Len(s) : r[j] = s[a] /\ a = IF j < i THEN j ELSE j + 1
      BY <2>3, <2>4
    <3>2. PICK b \in 1 .. Len(s) : r[k] = s[b] /\ b = IF k < i THEN k ELSE k + 1
      BY <2>3, <2>4
    <3>3. a = b
      BY <2>5, <3>1, <3>2
    <3>4. i \in Int /\ j \in Int /\ k \in Int
      BY <2>2, <2>3
    <3> QED BY <3>1, <3>2, <3>3, <3>4
  <2>7. ASSUME NEW d \in Client
        PROVE  (\E j \in 1 .. Len(r) : r[j] = d) <=> (\E j \in 1 .. Len(s) : s[j] = d) /\ d # c
    <3>1. ASSUME NEW j \in 1 .. Len(r), r[j] = d
          PROVE  (\E k \in 1 .. Len(s) : s[k] = d) /\ d # c
      <4>1. PICK a \in 1 .. Len(s) : r[j] = s[a] /\ a # i
        BY <2>2, <2>3, <2>4
      <4>2. s[i] = c
        BY <2>2 DEF s
      <4> QED BY <2>2, <2>5, <3>1, <4>1, <4>2 DEF s
    <3>2. ASSUME NEW j \in 1 .. Len(s), s[j] = d, d # c
          PROVE  \E k \in 1 .. Len(r) : r[k] = d
      <4>1. j # i /\ i \in 1 .. Len(s)
        BY <2>2, <3>2 DEF s
      <4>2. CASE j < i
        BY <2>3, <2>4, <3>2, <4>1, <4>2
      <4>3. CASE j > i
        <5>1. j - 1 \in 1 .. Len(r) /\ ~(j - 1 < i) /\ (j - 1) + 1 = j
          BY <2>3, <2>4, <4>1, <4>3
        <5>2. r[j - 1] = s[j]
          BY <2>3, <5>1
        <5> QED BY <3>2, <5>1, <5>2
      <4> QED BY <4>1, <4>2, <4>3
    <3> QED BY <3>1, <3>2
  <2>8. r \in Seq(Client)
    BY <2>3
  <2> USE DEF s, r
  <2> QED BY <2>4, <2>6, <2>7, <2>8 DEF Once, Listed
<1> QED BY <1>2, <1>3

LEMMA PoolInit == Plane!Init => PInv
<1> SUFFICES ASSUME Plane!Init PROVE PInv
  OBVIOUS
<1> USE DEF Plane!Init
<1>1. PoolTypes
  BY EmptySeq DEF PoolTypes, EndpointStates
<1>2. Once /\ ListedAreServed
  BY DEF Once, ListedAreServed, Listed, Served
<1>3. CastKnowsServed
  BY DEF CastKnowsServed
<1> QED BY <1>1, <1>2, <1>3 DEF PInv

LEMMA EndpointMoved ==
  ASSUME PoolTypes, NEW c \in Client, NEW from,
         NEW to \in EndpointStates, Plane!Endpoint(c, from, to)
  PROVE  /\ endpoint[c] = from /\ endpoint'[c] = to
         /\ endpoint' \in [Client -> EndpointStates]
         /\ \A d \in Client \ {c} : endpoint'[d] = endpoint[d]
BY DEF PoolTypes, Plane!Endpoint

\* What a client's endpoint does leaves the broadcasts as they are, and takes
\* back no acceptance.
LEMMA CastStays ==
  ASSUME PInv, UNCHANGED <<cast, left, Plane!history>>,
         \A c \in Client : Accepted(c) => Accepted(c)'
  PROVE  CastKnowsServed'
<1>1. \A b \in Broadcast : refused[b] \subseteq Client /\ left[b] \in Seq(Client)
  BY DEF PInv, PoolTypes
<1>2. \A b \in Broadcast : \A i \in DOMAIN left[b] : left[b][i] \in Client
  BY <1>1
<1> QED BY <1>1, <1>2 DEF PInv, CastKnowsServed, Plane!history

LEMMA EndpointOK ==
  ASSUME PInv, NEW c \in Client,
         Plane!Accept(c) \/ Plane!Connect(c) \/ Plane!Leave(c) \/ Plane!Break(c)
           \/ Plane!Disconnect(c)
  PROVE  PInv'
<1> USE DEF PInv
<1>1. UNCHANGED <<cast, left, Plane!history>> /\ linked' \subseteq Client
  BY DEF Plane!Accept, Plane!Connect, Plane!Leave, Plane!Break, Plane!Disconnect, PoolTypes
<1>2. ASSUME endpoint' \in [Client -> EndpointStates],
             active_connections' \in Seq(Client)
      PROVE  PoolTypes'
  BY <1>1, <1>2 DEF PoolTypes, Plane!history
<1>3. \A b \in Broadcast : refused'[b] = refused[b]
  BY <1>1 DEF Plane!history
<1>4. CASE Plane!Accept(c)
  <2>1. endpoint[c] = "new" /\ endpoint'[c] = "accepting"
        /\ endpoint' \in [Client -> EndpointStates]
        /\ \A d \in Client \ {c} : endpoint'[d] = endpoint[d]
    BY <1>4, EndpointMoved DEF Plane!Accept, EndpointStates
  <2>2. UNCHANGED active_connections
    BY <1>4 DEF Plane!Accept
  <2>3. PoolTypes'
    BY <1>2, <2>1, <2>2 DEF PoolTypes
  <2>4. Once' /\ ListedAreServed'
    BY <1>3, <2>1, <2>2 DEF Once, ListedAreServed, Listed, Served
  <2>5. CastKnowsServed'
    BY <1>1, <2>1, CastStays DEF Accepted
  <2> QED BY <2>3, <2>4, <2>5
<1>5. CASE /\ Plane!Endpoint(c, "accepting", "streaming")
           /\ active_connections' = Append(active_connections, c)
  <2>1. endpoint[c] = "accepting" /\ endpoint'[c] = "streaming"
        /\ endpoint' \in [Client -> EndpointStates]
        /\ \A d \in Client \ {c} : endpoint'[d] = endpoint[d]
    BY <1>5, EndpointMoved DEF EndpointStates
  <2> DEFINE s == active_connections
             r == active_connections'
  <2>2. /\ s \in Seq(Client) /\ r \in Seq(Client) /\ Len(s) \in Nat /\ Len(r) = Len(s) + 1
        /\ \A i \in 1 .. Len(s) : r[i] = s[i]
        /\ r[Len(s) + 1] = c
    BY <1>5, AppendProperties DEF PoolTypes
  <2>3. PoolTypes'
    BY <1>2, <2>1, <2>2
  <2>4. ~Listed(c)
    BY <2>1 DEF ListedAreServed, Served
  <2>5. DOMAIN s = 1 .. Len(s) /\ DOMAIN r = 1 .. Len(s) + 1
    BY <2>2
  <2>6. \A i \in 1 .. Len(s) : s[i] # c
    BY <2>4, <2>5 DEF Listed
  <2>7. \A i, j \in 1 .. Len(s) : s[i] = s[j] => i = j
    BY <2>5 DEF Once
  <2>8. \A i \in DOMAIN r : i \in 1 .. Len(s) \/ i = Len(s) + 1
    BY <2>2, <2>5
  <2>9. \A i, j \in DOMAIN r : r[i] = r[j] => i = j
    <3> HIDE DEF s, r
    <3> QED BY <2>2, <2>6, <2>7, <2>8
  <2>10. \A d \in Client : (\E i \in DOMAIN r : r[i] = d) <=> (\E i \in DOMAIN s : s[i] = d) \/ d = c
    <3>1. 1 .. Len(s) \subseteq DOMAIN r /\ Len(s) + 1 \in DOMAIN r
      BY <2>2, <2>5
    <3> HIDE DEF s, r
    <3> QED BY <2>2, <2>5, <2>8, <3>1
  <2>11. \A b \in Broadcast : c \notin refused'[b]
    BY <1>3, <2>1 DEF CastKnowsServed, Accepted
  <2>12. ListedAreServed'
    BY <1>3, <2>1, <2>10, <2>11 DEF ListedAreServed, Listed, Served
  <2>13. CastKnowsServed'
    BY <1>1, <2>1, CastStays DEF Accepted
  <2> QED BY <2>3, <2>9, <2>12, <2>13 DEF Once
<1>6. CASE Plane!Endpoint(c, "accepting", "closed") /\ UNCHANGED active_connections
  <2>1. endpoint[c] = "accepting" /\ endpoint'[c] = "closed"
        /\ endpoint' \in [Client -> EndpointStates]
        /\ \A d \in Client \ {c} : endpoint'[d] = endpoint[d]
    BY <1>6, EndpointMoved DEF EndpointStates
  <2>2. PoolTypes'
    BY <1>2, <1>6, <2>1 DEF PoolTypes
  <2>3. Once' /\ ListedAreServed'
    BY <1>3, <1>6, <2>1 DEF Once, ListedAreServed, Listed, Served
  <2>4. CastKnowsServed'
    BY <1>1, <2>1, CastStays DEF Accepted
  <2> QED BY <2>2, <2>3, <2>4
<1>7. CASE Plane!Leave(c)
  <2>1. UNCHANGED <<active_connections, endpoint>>
    BY <1>7 DEF Plane!Leave
  <2>2. PoolTypes' /\ Once'
    BY <1>2, <2>1 DEF PoolTypes, Once
  <2>3. ListedAreServed'
    BY <1>3, <2>1 DEF ListedAreServed, Listed, Served
  <2>4. CastKnowsServed'
    BY <1>1, <2>1, CastStays DEF Accepted, PoolTypes
  <2> QED BY <2>2, <2>3, <2>4
<1>8. CASE Plane!Disconnect(c)
  <2>1. endpoint[c] = "streaming" /\ endpoint'[c] = "closed"
        /\ endpoint' \in [Client -> EndpointStates]
        /\ \A d \in Client \ {c} : endpoint'[d] = endpoint[d]
    BY <1>8, EndpointMoved DEF Plane!Disconnect, EndpointStates
  <2>2. /\ active_connections' \in Seq(Client) /\ Once'
        /\ \A d \in Client : Listed(d)' <=> Listed(d) /\ d # c
    BY <1>8, WithoutOK DEF Plane!Disconnect
  <2>3. PoolTypes'
    BY <1>2, <2>1, <2>2
  <2>4. ListedAreServed'
    BY <1>3, <2>1, <2>2 DEF ListedAreServed, Served
  <2>5. CastKnowsServed'
    BY <1>1, <2>1, CastStays DEF Accepted
  <2> QED BY <2>2, <2>3, <2>4, <2>5
<1>9. CASE Plane!Break(c)
  <2>1. endpoint[c] = "streaming" /\ endpoint'[c] = "broken"
        /\ endpoint' \in [Client -> EndpointStates]
        /\ \A d \in Client \ {c} : endpoint'[d] = endpoint[d]
    BY <1>9, EndpointMoved DEF Plane!Break, EndpointStates
  <2>2. UNCHANGED active_connections
    BY <1>9 DEF Plane!Break
  <2>3. PoolTypes'
    BY <1>2, <2>1, <2>2 DEF PoolTypes
  <2>4. Once' /\ ListedAreServed'
    BY <1>3, <2>1, <2>2 DEF Once, ListedAreServed, Listed, Served
  <2>5. CastKnowsServed'
    BY <1>1, <2>1, CastStays DEF Accepted
  <2> QED BY <2>3, <2>4, <2>5
<1> QED BY <1>4, <1>5, <1>6, <1>7, <1>8, <1>9 DEF Plane!Connect

\* A broadcast changes what it knows itself; what it must keep of the rest is
\* stated for it alone.
LEMMA OneCast ==
  ASSUME PInv, NEW b \in Broadcast, UNCHANGED endpoint,
         \A d \in Broadcast \ {b} : /\ cast'[d] = cast[d] /\ left'[d] = left[d]
                                    /\ reached'[d] = reached[d] /\ refused'[d] = refused[d]
                                    /\ audience'[d] = audience[d],
         \A c \in refused'[b] : Accepted(c),
         \A i \in DOMAIN left'[b] : Accepted(left'[b][i]),
         cast'[b] = "idle" => audience'[b] = {},
         \A c \in audience'[b] : \/ c \in reached'[b] \cup refused'[b]
                                 \/ \E i \in DOMAIN left'[b] : left'[b][i] = c,
         cast'[b] = "done" => left'[b] = << >>
  PROVE  CastKnowsServed'
<1> SUFFICES ASSUME NEW d \in Broadcast
             PROVE  /\ \A c \in refused'[d] : Accepted(c)
                    /\ \A i \in DOMAIN left'[d] : Accepted(left'[d][i])
                    /\ cast'[d] = "idle" => audience'[d] = {}
                    /\ \A c \in audience'[d] : \/ c \in reached'[d] \cup refused'[d]
                                               \/ \E i \in DOMAIN left'[d] : left'[d][i] = c
                    /\ cast'[d] = "done" => left'[d] = << >>
  BY DEF CastKnowsServed, Accepted
<1>1. CASE d = b
  BY <1>1
<1>2. CASE d # b
  BY <1>2 DEF PInv, CastKnowsServed
<1> QED BY <1>1, <1>2

LEMMA BeginOK ==
  ASSUME PInv, NEW b \in Broadcast, Plane!Begin(b)
  PROVE  PInv'
<1> USE DEF PInv
<1>1. /\ cast[b] = "idle" /\ cast'[b] = "sending" /\ left'[b] = active_connections
      /\ audience'[b] = Plane!ToSet(active_connections)
      /\ reached' = reached /\ refused' = refused /\ endpoint' = endpoint
      /\ active_connections' = active_connections
      /\ \A d \in Broadcast \ {b} : /\ cast'[d] = cast[d] /\ left'[d] = left[d]
                                    /\ audience'[d] = audience[d]
  BY DEF Plane!Begin, PoolTypes
<1>2. active_connections \in Seq(Client)
      /\ \A i \in DOMAIN active_connections : active_connections[i] \in Client
  BY DEF PoolTypes
<1>3. Plane!ToSet(active_connections) \in SUBSET Client
  BY <1>2 DEF Plane!ToSet
<1>4. PoolTypes'
  BY <1>2, <1>3 DEF Plane!Begin, PoolTypes
<1>5. Once' /\ ListedAreServed'
  BY <1>1 DEF Once, ListedAreServed, Listed, Served
<1>6. \A i \in DOMAIN active_connections : Accepted(active_connections[i])
  BY <1>2 DEF ListedAreServed, Listed, Served, Accepted
<1>7. \A c \in refused'[b] : Accepted(c)
  BY <1>1 DEF CastKnowsServed
<1>8. \A c \in audience'[b] : \E i \in DOMAIN left'[b] : left'[b][i] = c
  BY <1>1 DEF Plane!ToSet
<1>9. CastKnowsServed'
  BY <1>1, <1>6, <1>7, <1>8, OneCast
<1> QED BY <1>4, <1>5, <1>9

\* The head of the list is one of the clients, and the rest is the others.
LEMMA HeadOfLeft ==
  ASSUME PInv, NEW b \in Broadcast, left[b] # << >>
  PROVE  /\ Head(left[b]) \in Client /\ Tail(left[b]) \in Seq(Client) /\ Accepted(Head(left[b]))
         /\ \A i \in DOMAIN Tail(left[b]) : Accepted(Tail(left[b])[i])
         /\ \A i \in DOMAIN left[b] :
              left[b][i] # Head(left[b]) =>
                \E j \in DOMAIN Tail(left[b]) : Tail(left[b])[j] = left[b][i]
<1> DEFINE s == left[b]
           t == Tail(s)
<1>1. s \in Seq(Client) /\ s # << >> /\ \A i \in DOMAIN s : Accepted(s[i])
  BY DEF PInv, PoolTypes, CastKnowsServed
<1> HIDE DEF s
<1>2. Head(s) \in Client /\ t \in Seq(Client) /\ Len(t) = Len(s) - 1 /\ Head(s) = s[1]
      /\ \A i \in 1 .. Len(t) : t[i] = s[i + 1]
  BY <1>1, HeadTailProperties
<1> HIDE DEF t
<1>3. Len(s) \in Nat \ {0} /\ DOMAIN s = 1 .. Len(s) /\ DOMAIN t = 1 .. Len(t)
  BY <1>1, <1>2, EmptySeq
<1>4. Accepted(s[1])
  BY <1>1, <1>3
<1>5. ASSUME NEW i \in DOMAIN t PROVE Accepted(t[i])
  <2>1. i + 1 \in DOMAIN s /\ t[i] = s[i + 1]
    BY <1>2, <1>3
  <2> QED BY <1>1, <2>1
<1>6. ASSUME NEW i \in DOMAIN s, s[i] # s[1] PROVE \E j \in DOMAIN t : t[j] = s[i]
  <2>1. i - 1 \in DOMAIN t /\ (i - 1) + 1 = i
    BY <1>2, <1>3, <1>6
  <2>2. t[i - 1] = s[i]
    BY <1>2, <1>3, <2>1
  <2> QED BY <2>1, <2>2
<1> USE DEF s, t
<1> QED BY <1>2, <1>4, <1>5, <1>6

LEMMA SentOK ==
  ASSUME PInv, NEW b \in Broadcast, Plane!Sent(b)
  PROVE  PInv'
<1> USE DEF PInv
<1>1. /\ cast[b] = "sending" /\ left[b] # << >>
      /\ left'[b] = Tail(left[b]) /\ reached'[b] = reached[b] \cup {Head(left[b])}
      /\ cast' = cast /\ refused' = refused /\ audience' = audience /\ endpoint' = endpoint
      /\ active_connections' = active_connections /\ linked' = linked
      /\ \A d \in Broadcast \ {b} : left'[d] = left[d] /\ reached'[d] = reached[d]
  BY DEF Plane!Sent, PoolTypes
<1>2. /\ Head(left[b]) \in Client /\ Tail(left[b]) \in Seq(Client)
      /\ \A i \in DOMAIN Tail(left[b]) : Accepted(Tail(left[b])[i])
      /\ \A i \in DOMAIN left[b] :
           left[b][i] # Head(left[b]) =>
             \E j \in DOMAIN Tail(left[b]) : Tail(left[b])[j] = left[b][i]
  BY <1>1, HeadOfLeft
<1>3. PoolTypes'
  <2>1. reached[b] \cup {Head(left[b])} \in SUBSET Client
    BY <1>2 DEF PoolTypes
  <2>2. left' \in [Broadcast -> Seq(Client)] /\ reached' \in [Broadcast -> SUBSET Client]
    BY <1>2, <2>1 DEF Plane!Sent, PoolTypes
  <2> QED BY <1>1, <2>2 DEF PoolTypes
<1>4. Once' /\ ListedAreServed'
  BY <1>1 DEF Once, ListedAreServed, Listed, Served
<1>5. \A c \in audience'[b] : \/ c \in reached'[b] \cup refused'[b]
                              \/ \E i \in DOMAIN left'[b] : left'[b][i] = c
  <2> SUFFICES ASSUME NEW c \in audience[b], c \notin reached'[b] \cup refused'[b]
               PROVE  \E i \in DOMAIN left'[b] : left'[b][i] = c
    BY <1>1
  <2>1. PICK i \in DOMAIN left[b] : left[b][i] = c
    BY <1>1 DEF CastKnowsServed
  <2> QED BY <1>1, <1>2, <2>1
<1>6. \A c \in refused'[b] : Accepted(c)
  BY <1>1 DEF CastKnowsServed
<1>7. CastKnowsServed'
  BY <1>1, <1>2, <1>5, <1>6, OneCast
<1> QED BY <1>3, <1>4, <1>7

\* A client is given up in the pool and in the count of the refused at once.
LEMMA PrunedOK ==
  ASSUME PInv, NEW b \in Broadcast, Plane!Pruned(b)
  PROVE  PInv'
<1> USE DEF PInv
<1>1. /\ cast[b] = "sending" /\ left[b] # << >>
      /\ left'[b] = Tail(left[b]) /\ refused'[b] = refused[b] \cup {Head(left[b])}
      /\ cast' = cast /\ reached' = reached /\ audience' = audience /\ endpoint' = endpoint
      /\ active_connections' = Plane!Without(Head(left[b])) /\ linked' = linked
      /\ \A d \in Broadcast \ {b} : left'[d] = left[d] /\ refused'[d] = refused[d]
  BY DEF Plane!Pruned, Plane!NextAfterPrune, PoolTypes
<1>2. /\ Head(left[b]) \in Client /\ Tail(left[b]) \in Seq(Client) /\ Accepted(Head(left[b]))
      /\ \A i \in DOMAIN Tail(left[b]) : Accepted(Tail(left[b])[i])
      /\ \A i \in DOMAIN left[b] :
           left[b][i] # Head(left[b]) =>
             \E j \in DOMAIN Tail(left[b]) : Tail(left[b])[j] = left[b][i]
  BY <1>1, HeadOfLeft
<1>3. /\ active_connections' \in Seq(Client) /\ Once'
      /\ \A d \in Client : Listed(d)' <=> Listed(d) /\ d # Head(left[b])
  BY <1>1, <1>2, WithoutOK
<1>4. PoolTypes'
  <2>1. refused[b] \cup {Head(left[b])} \in SUBSET Client
    BY <1>2 DEF PoolTypes
  <2>2. left' \in [Broadcast -> Seq(Client)] /\ refused' \in [Broadcast -> SUBSET Client]
    BY <1>2, <2>1 DEF Plane!Pruned, Plane!NextAfterPrune, PoolTypes
  <2> QED BY <1>1, <1>3, <2>2 DEF PoolTypes
<1>5. ListedAreServed'
  <2>1. \A c \in Client :
          (\A d \in Broadcast : c \notin refused'[d])
            <=> (\A d \in Broadcast : c \notin refused[d]) /\ c # Head(left[b])
    BY <1>1
  <2> QED BY <1>1, <1>3, <2>1 DEF ListedAreServed, Served
<1>6. \A c \in audience'[b] : \/ c \in reached'[b] \cup refused'[b]
                              \/ \E i \in DOMAIN left'[b] : left'[b][i] = c
  <2> SUFFICES ASSUME NEW c \in audience[b], c \notin reached'[b] \cup refused'[b]
               PROVE  \E i \in DOMAIN left'[b] : left'[b][i] = c
    BY <1>1
  <2>1. PICK i \in DOMAIN left[b] : left[b][i] = c
    BY <1>1 DEF CastKnowsServed
  <2> QED BY <1>1, <1>2, <2>1
<1>7. \A c \in refused'[b] : Accepted(c)
  BY <1>1, <1>2 DEF CastKnowsServed
<1>8. CastKnowsServed'
  BY <1>1, <1>2, <1>6, <1>7, OneCast
<1> QED BY <1>3, <1>4, <1>5, <1>8

LEMMA FinishOK ==
  ASSUME PInv, NEW b \in Broadcast, Plane!Finish(b)
  PROVE  PInv'
<1> USE DEF PInv, Plane!history
<1>1. /\ left[b] = << >> /\ cast'[b] = "done"
      /\ UNCHANGED <<active_connections, endpoint, linked, left, reached, refused, audience>>
      /\ \A d \in Broadcast \ {b} : cast'[d] = cast[d]
  BY DEF Plane!Finish, PoolTypes
<1>2. PoolTypes'
  BY DEF Plane!Finish, PoolTypes
<1>3. Once' /\ ListedAreServed'
  BY <1>1 DEF Once, ListedAreServed, Listed, Served
<1>4. CastKnowsServed'
  BY <1>1, OneCast DEF CastKnowsServed
<1> QED BY <1>2, <1>3, <1>4

\* An exception ends a broadcast; whom it had left stays known.
LEMMA AbortOK ==
  ASSUME PInv, NEW b \in Broadcast, Plane!Abort(b)
  PROVE  PInv'
<1> USE DEF PInv, Plane!history
<1>1. /\ cast'[b] = "failed"
      /\ UNCHANGED <<active_connections, endpoint, linked, left, reached, refused, audience>>
      /\ \A d \in Broadcast \ {b} : cast'[d] = cast[d]
  BY DEF Plane!Abort, PoolTypes
<1>2. PoolTypes'
  BY DEF Plane!Abort, PoolTypes
<1>3. Once' /\ ListedAreServed'
  BY <1>1 DEF Once, ListedAreServed, Listed, Served
<1>4. CastKnowsServed'
  BY <1>1, OneCast DEF CastKnowsServed
<1> QED BY <1>2, <1>3, <1>4

LEMMA PlaneStep == PInv /\ [Plane!Next]_planeVars => PInv'
<1>1. ASSUME PInv, Plane!Next PROVE PInv'
  BY <1>1, EndpointOK, BeginOK, SentOK, PrunedOK, AbortOK, FinishOK DEF Plane!Next
<1>2. ASSUME PInv, UNCHANGED planeVars PROVE PInv'
  BY <1>2 DEF planeVars, PInv, PoolTypes, Once, ListedAreServed, Listed, Served,
              CastKnowsServed, Accepted
<1> QED BY <1>1, <1>2

LEMMA PoolKept == PInv => PoolInv
<1> SUFFICES ASSUME PInv PROVE Plane!PoolInv
  BY DEF PoolInv
<1> USE DEF PInv
<1>1. \A i \in DOMAIN active_connections : active_connections[i] \in Client
  BY DEF PoolTypes
<1>2. Plane!TypeOK
  BY <1>1 DEF PoolTypes, EndpointStates, Once, Plane!TypeOK, Plane!ToSet, Plane!IsInjective
<1>3. Plane!PoolIsServed
  <2>1. \A c : c \in Plane!ToSet(active_connections) <=> c \in Client /\ Listed(c)
    BY <1>1 DEF Plane!ToSet, Listed
  <2>2. \A c : c \in Plane!ToSet(active_connections)
                 <=> c \in Client /\ endpoint[c] \in {"streaming", "broken"}
                       /\ \A b \in Broadcast : c \notin refused[b]
    BY <2>1 DEF ListedAreServed, Served
  <2> QED BY <2>2 DEF Plane!PoolIsServed
<1>4. Plane!EveryoneServed
  <2> SUFFICES ASSUME NEW b \in Broadcast, cast[b] = "done", NEW c \in audience[b]
               PROVE  c \in reached[b] \cup refused[b]
    BY DEF Plane!EveryoneServed
  <2>1. left[b] = << >> /\ DOMAIN left[b] = {}
    BY DEF CastKnowsServed, PoolTypes
  <2> QED BY <2>1 DEF CastKnowsServed
<1> QED BY <1>2, <1>3, <1>4 DEF Plane!PoolInv

-----------------------------------------------------------------------------
(***************************************************************************)
(* The edge node's writer.                                                 *)
(***************************************************************************)
Pill == 0

Has(s, row) == \E i \in DOMAIN s : s[i] = row

\* A queued row that the worker meets before the pill.
Ahead(s, row) == \E i \in DOMAIN s : s[i] = row /\ \A j \in 1 .. i : s[j] # Pill

Rows(s, last) == s \in Seq(Nat) /\ Writer!Ascending(s) /\ \A i \in DOMAIN s : s[i] <= last

WriterTypes == /\ worker \in {"setup", "check", "get", "drain", "write", "done", "dead"}
               /\ caller \in {"up", "stopping", "joining", "down"}
               /\ queue \in Seq(Nat) /\ batch \in Seq(Nat) /\ open \in Seq(Nat)
               /\ telemetry \in Seq(Nat) /\ accepted \in Seq(Nat)
               /\ logged \in Nat /\ writeFaults \in Nat
               /\ Len(queue) <= QUEUE_SIZE /\ Len(batch) <= WRITE_BATCH
               /\ ~Has(accepted, Pill)

\* The pill is queued once, after the call of shutdown.
OnePill == /\ \A i, j \in DOMAIN queue : queue[i] = Pill /\ queue[j] = Pill => i = j
           /\ Has(queue, Pill) => caller \in {"joining", "down"}

UpMeansRunning == caller = "up" => running /\ worker # "done"

BatchInHand == batch = << >> <=> worker \notin {"drain", "write"}

RowsHeld == Rows(Writer!Held, logged)

\* Rows of a failed batch that are still in the transaction count as lost.
PillsQueued == IF Has(queue, Pill) THEN 1 ELSE 0
Missing == Len(accepted) + PillsQueued - Len(telemetry) - Len(batch) - Len(queue)
LossCounted == Len(open) <= Missing /\ Missing <= WRITE_BATCH * writeFaults

\* Without a failure every row is somewhere, and what was queued before shutdown
\* is ahead of the pill.
NoneForgotten == writeFaults = 0 =>
  \A row : Has(accepted, row) => Has(telemetry, row) \/ Has(batch, row) \/ Has(queue, row)
PromiseAhead == writeFaults = 0 =>
  \A row : Has(promised, row) =>
    IF worker = "done" THEN Has(telemetry, row)
    ELSE Has(telemetry, row) \/ Has(batch, row) \/ Ahead(queue, row)

WInv == /\ running \in BOOLEAN
        /\ WriterTypes /\ OnePill /\ UpMeansRunning /\ BatchInHand /\ RowsHeld
        /\ LossCounted /\ NoneForgotten /\ PromiseAhead

\* What a sequence has, and has ahead of the pill.
LEMMA HasAppend ==
  ASSUME NEW s \in Seq(Nat), NEW e \in Nat
  PROVE  /\ Append(s, e) \in Seq(Nat) /\ Len(Append(s, e)) = Len(s) + 1
         /\ \A row : Has(Append(s, e), row) <=> Has(s, row) \/ row = e
         /\ \A row : Ahead(s, row) => Ahead(Append(s, e), row)
<1> DEFINE t == Append(s, e)
<1>1. /\ t \in Seq(Nat) /\ Len(t) = Len(s) + 1 /\ Len(s) \in Nat
      /\ \A i \in 1 .. Len(s) : t[i] = s[i]
      /\ t[Len(s) + 1] = e
  BY AppendProperties
<1>2. DOMAIN s = 1 .. Len(s) /\ DOMAIN t = 1 .. Len(s) + 1
  BY <1>1
<1> HIDE DEF t
<1>3. ASSUME NEW row PROVE Has(t, row) <=> Has(s, row) \/ row = e
  BY <1>1, <1>2 DEF Has
<1>4. ASSUME NEW row, Ahead(s, row) PROVE Ahead(t, row)
  <2>1. PICK i \in 1 .. Len(s) : s[i] = row /\ \A j \in 1 .. i : s[j] # Pill
    BY <1>2, <1>4 DEF Ahead
  <2>2. \A j \in 1 .. i : t[j] = s[j]
    BY <1>1
  <2>3. i \in DOMAIN t /\ t[i] = s[i]
    BY <1>1, <1>2
  <2> QED BY <2>1, <2>2, <2>3 DEF Ahead
<1> USE DEF t
<1> QED BY <1>1, <1>3, <1>4

LEMMA HasTail ==
  ASSUME NEW s \in Seq(Nat), s # << >>
  PROVE  /\ Head(s) \in Nat /\ Tail(s) \in Seq(Nat) /\ Len(Tail(s)) = Len(s) - 1
         /\ \A row : Has(s, row) <=> row = Head(s) \/ Has(Tail(s), row)
         /\ \A row : Ahead(s, row)
                       <=> Head(s) # Pill /\ (row = Head(s) \/ Ahead(Tail(s), row))
<1> DEFINE t == Tail(s)
<1>1. /\ Head(s) \in Nat /\ t \in Seq(Nat) /\ Len(t) = Len(s) - 1 /\ Head(s) = s[1]
      /\ \A i \in 1 .. Len(t) : t[i] = s[i + 1]
  BY HeadTailProperties
<1> HIDE DEF t
<1>2. Len(s) \in Nat \ {0} /\ DOMAIN s = 1 .. Len(s) /\ DOMAIN t = 1 .. Len(s) - 1
  BY <1>1, EmptySeq
<1>3. \A i \in 2 .. Len(s) : i - 1 \in DOMAIN t /\ t[i - 1] = s[i]
  <2> SUFFICES ASSUME NEW i \in 2 .. Len(s) PROVE i - 1 \in DOMAIN t /\ t[i - 1] = s[i]
    OBVIOUS
  <2>1. i - 1 \in 1 .. Len(t) /\ (i - 1) + 1 = i
    BY <1>1, <1>2
  <2> QED BY <1>1, <1>2, <2>1
<1>4. ASSUME NEW i \in DOMAIN t PROVE i + 1 \in DOMAIN s /\ t[i] = s[i + 1]
  <2>1. i \in 1 .. Len(t)
    BY <1>1, <1>2
  <2>2. t[i] = s[i + 1]
    BY <1>1, <2>1
  <2> QED BY <1>2, <2>2
<1>5. \A i \in DOMAIN s : i = 1 \/ i \in 2 .. Len(s)
  BY <1>2
<1>6. 1 \in DOMAIN s
  BY <1>2
<1>7. ASSUME NEW row PROVE Has(s, row) <=> row = s[1] \/ Has(t, row)
  BY <1>3, <1>4, <1>5, <1>6 DEF Has
<1>8. ASSUME NEW row, Ahead(s, row) PROVE s[1] # Pill /\ (row = s[1] \/ Ahead(t, row))
  <2>1. PICK i \in DOMAIN s : s[i] = row /\ \A j \in 1 .. i : s[j] # Pill
    BY <1>8 DEF Ahead
  <2>2. s[1] # Pill
    BY <1>2, <2>1
  <2>3. CASE i \in 2 .. Len(s)
    <3>0. Len(s) \in Nat /\ Len(t) = Len(s) - 1 /\ i \in 2 .. Len(s)
      BY <1>1, <1>2, <2>3
    <3>1. \A j \in 1 .. i - 1 : j \in 1 .. Len(t) /\ j + 1 \in 1 .. i
      BY <3>0
    <3>2. \A j \in 1 .. i - 1 : t[j] # Pill
      BY <1>1, <2>1, <3>1
    <3> QED BY <1>3, <2>1, <2>2, <2>3, <3>2 DEF Ahead
  <2> QED BY <1>5, <2>1, <2>2, <2>3
<1>9. ASSUME NEW row, s[1] # Pill, row = s[1] \/ Ahead(t, row) PROVE Ahead(s, row)
  <2>1. CASE row = s[1]
    <3>1. \A j \in 1 .. 1 : s[j] # Pill
      BY <1>9
    <3> QED BY <1>6, <2>1, <3>1 DEF Ahead
  <2>2. CASE Ahead(t, row)
    <3>1. PICK i \in DOMAIN t : t[i] = row /\ \A j \in 1 .. i : t[j] # Pill
      BY <2>2 DEF Ahead
    <3>2. ASSUME NEW j \in 1 .. i + 1 PROVE s[j] # Pill
      <4>1. CASE j = 1
        BY <1>9, <4>1
      <4>2. CASE j # 1
        <5>1. j \in 2 .. Len(s) /\ j - 1 \in 1 .. i
          BY <1>2, <3>1, <4>2
        <5> QED BY <1>3, <3>1, <5>1
      <4> QED BY <4>1, <4>2
    <3> QED BY <1>4, <3>1, <3>2 DEF Ahead
  <2> QED BY <1>9, <2>1, <2>2
<1> USE DEF t
<1> QED BY <1>1, <1>7, <1>8, <1>9

LEMMA HasConcat ==
  ASSUME NEW r \in Seq(Nat), NEW s \in Seq(Nat)
  PROVE  /\ r \o s \in Seq(Nat) /\ Len(r \o s) = Len(r) + Len(s)
         /\ \A row : Has(r \o s, row) <=> Has(r, row) \/ Has(s, row)
<1> DEFINE t == r \o s
<1>1. /\ t \in Seq(Nat) /\ Len(t) = Len(r) + Len(s) /\ Len(r) \in Nat /\ Len(s) \in Nat
      /\ \A i \in 1 .. Len(r) + Len(s) :
           t[i] = IF i <= Len(r) THEN r[i] ELSE s[i - Len(r)]
  BY ConcatProperties
<1>2. DOMAIN r = 1 .. Len(r) /\ DOMAIN s = 1 .. Len(s) /\ DOMAIN t = 1 .. Len(r) + Len(s)
  BY <1>1
<1> HIDE DEF t
<1>3. \A i \in DOMAIN r : i \in DOMAIN t /\ t[i] = r[i]
  BY <1>1, <1>2
<1>4. ASSUME NEW i \in DOMAIN s PROVE i + Len(r) \in DOMAIN t /\ t[i + Len(r)] = s[i]
  <2>1. i + Len(r) \in DOMAIN t /\ ~(i + Len(r) <= Len(r)) /\ (i + Len(r)) - Len(r) = i
    BY <1>1, <1>2
  <2> QED BY <1>1, <1>2, <2>1
<1>5. ASSUME NEW i \in DOMAIN t
      PROVE  (\E j \in DOMAIN r : t[i] = r[j]) \/ \E j \in DOMAIN s : t[i] = s[j]
  <2>1. i <= Len(r) => i \in DOMAIN r
    BY <1>1, <1>2
  <2>2. ~(i <= Len(r)) => i - Len(r) \in DOMAIN s
    BY <1>1, <1>2
  <2> QED BY <1>1, <1>2, <2>1, <2>2
<1>6. ASSUME NEW row PROVE Has(t, row) <=> Has(r, row) \/ Has(s, row)
  BY <1>3, <1>4, <1>5 DEF Has
<1> USE DEF t
<1> QED BY <1>1, <1>6

\* Rows are logged in order, the pill is none.
LEMMA RowsAppend ==
  ASSUME NEW s, NEW last \in Nat, Rows(s, last)
  PROVE  /\ Rows(s, last + 1)
         /\ Rows(Append(s, last + 1), last + 1)
         /\ Rows(Append(s, Pill), last)
<1>1. s \in Seq(Nat) /\ Len(s) \in Nat /\ DOMAIN s = 1 .. Len(s)
      /\ \A i \in 1 .. Len(s) : s[i] \in Nat
  BY DEF Rows
<1>2. /\ \A i, j \in 1 .. Len(s) : i < j /\ s[i] # Pill /\ s[j] # Pill => s[i] < s[j]
      /\ \A i \in 1 .. Len(s) : s[i] <= last
  BY <1>1 DEF Rows, Pill, Writer!Ascending, Writer!Pill
<1>3. Rows(s, last + 1)
  <2>1. \A i \in 1 .. Len(s) : s[i] <= last + 1
    BY <1>1, <1>2
  <2> QED BY <1>1, <2>1 DEF Rows
<1>4. ASSUME NEW e \in Nat, NEW n \in {last, last + 1},
             e = Pill \/ (e = last + 1 /\ n = last + 1)
      PROVE  Rows(Append(s, e), n)
  <2> DEFINE t == Append(s, e)
  <2>1. /\ t \in Seq(Nat) /\ Len(t) = Len(s) + 1
        /\ \A i \in 1 .. Len(s) : t[i] = s[i]
        /\ t[Len(s) + 1] = e
    BY <1>1, AppendProperties
  <2>2. DOMAIN t = 1 .. Len(s) + 1
    BY <2>1
  <2> HIDE DEF t
  <2>3. \A i \in DOMAIN t : i \in 1 .. Len(s) \/ i = Len(s) + 1
    BY <1>1, <2>2
  <2>4. ASSUME NEW i \in DOMAIN t, NEW j \in DOMAIN t, i < j, t[i] # Pill, t[j] # Pill
        PROVE  t[i] < t[j]
    <3>1. i \in 1 .. Len(s)
      BY <1>1, <2>2, <2>4
    <3>2. CASE j \in 1 .. Len(s)
      BY <1>2, <2>1, <2>4, <3>1, <3>2
    <3>3. CASE j = Len(s) + 1
      <4>1. t[j] = last + 1 /\ t[i] = s[i]
        BY <1>4, <2>1, <2>4, <3>1, <3>3
      <4>2. s[i] \in Nat /\ s[i] <= last
        BY <1>1, <1>2, <3>1
      <4> QED BY <4>1, <4>2
    <3> QED BY <2>3, <3>2, <3>3
  <2>5. ASSUME NEW i \in DOMAIN t PROVE t[i] <= n
    <3>1. CASE i \in 1 .. Len(s)
      BY <1>1, <1>2, <2>1, <3>1
    <3>2. CASE i = Len(s) + 1
      BY <1>4, <2>1, <3>2 DEF Pill
    <3> QED BY <2>3, <3>1, <3>2
  <2>6. Rows(t, n)
    BY <2>1, <2>4, <2>5 DEF Rows, Pill, Writer!Ascending, Writer!Pill
  <2> QED BY <2>6 DEF t
<1>5. Rows(Append(s, last + 1), last + 1)
  BY <1>4
<1>6. Rows(Append(s, Pill), last)
  BY <1>4 DEF Pill
<1> QED BY <1>3, <1>5, <1>6

\* What is lost from within leaves the others in order.
LEMMA RowsWithout ==
  ASSUME NEW x \in Seq(Nat), NEW y \in Seq(Nat), NEW z \in Seq(Nat), NEW last \in Nat,
         Rows((x \o y) \o z, last)
  PROVE  Rows(x \o z, last)
<1> DEFINE s == (x \o y) \o z
           t == x \o z
           a == Len(x)
           b == Len(y)
           c == Len(z)
<1>1. a \in Nat /\ b \in Nat /\ c \in Nat
  OBVIOUS
<1>2. /\ x \o y \in Seq(Nat) /\ Len(x \o y) = a + b
      /\ \A i \in 1 .. a + b : (x \o y)[i] = IF i <= a THEN x[i] ELSE y[i - a]
  BY ConcatProperties
<1>3. /\ s \in Seq(Nat) /\ Len(s) = (a + b) + c
      /\ \A i \in 1 .. (a + b) + c : s[i] = IF i <= a + b THEN (x \o y)[i] ELSE z[i - (a + b)]
  BY <1>2, ConcatProperties
<1>4. /\ t \in Seq(Nat) /\ Len(t) = a + c
      /\ \A i \in 1 .. a + c : t[i] = IF i <= a THEN x[i] ELSE z[i - a]
  BY ConcatProperties
<1>5. /\ \A i, j \in DOMAIN s : i < j /\ s[i] # Pill /\ s[j] # Pill => s[i] < s[j]
      /\ \A i \in DOMAIN s : s[i] <= last
  BY DEF Rows, Pill, Writer!Ascending, Writer!Pill
<1>6. DOMAIN s = 1 .. (a + b) + c /\ DOMAIN t = 1 .. a + c
  BY <1>3, <1>4
<1> HIDE DEF s, t, a, b, c
<1>7. ASSUME NEW i \in DOMAIN t
      PROVE  \E k \in DOMAIN s : t[i] = s[k] /\ k = IF i <= a THEN i ELSE i + b
  <2>1. CASE i <= a
    <3>1. i \in DOMAIN s /\ i \in 1 .. a + b /\ i <= a + b
      BY <1>1, <1>6, <2>1
    <3>2. s[i] = x[i] /\ t[i] = x[i]
      BY <1>2, <1>3, <1>4, <1>6, <2>1, <3>1
    <3> QED BY <2>1, <3>1, <3>2
  <2>2. CASE ~(i <= a)
    <3>1. i + b \in DOMAIN s /\ ~(i + b <= a + b) /\ (i + b) - (a + b) = i - a
      BY <1>1, <1>6, <2>2
    <3>2. s[i + b] = z[i - a] /\ t[i] = z[i - a]
      BY <1>3, <1>4, <1>6, <2>2, <3>1
    <3> QED BY <2>2, <3>1, <3>2
  <2> QED BY <2>1, <2>2
<1>8. ASSUME NEW i \in DOMAIN t, NEW j \in DOMAIN t, i < j, t[i] # Pill, t[j] # Pill
      PROVE  t[i] < t[j]
  <2>1. PICK k \in DOMAIN s : t[i] = s[k] /\ k = IF i <= a THEN i ELSE i + b
    BY <1>7
  <2>2. PICK m \in DOMAIN s : t[j] = s[m] /\ m = IF j <= a THEN j ELSE j + b
    BY <1>7
  <2>3. k < m
    BY <1>1, <1>6, <1>8, <2>1, <2>2
  <2> QED BY <1>5, <1>8, <2>1, <2>2, <2>3
<1>9. \A i \in DOMAIN t : t[i] <= last
  BY <1>5, <1>7
<1>10. Rows(t, last)
  BY <1>4, <1>8, <1>9 DEF Rows, Pill, Writer!Ascending, Writer!Pill
<1> QED BY <1>10 DEF t

LEMMA Lengths ==
  ASSUME WriterTypes
  PROVE  /\ Len(queue) \in Nat /\ Len(batch) \in Nat /\ Len(open) \in Nat
         /\ Len(telemetry) \in Nat /\ Len(accepted) \in Nat /\ PillsQueued \in {0, 1}
         /\ WRITE_BATCH \in Nat /\ WRITE_BATCH * writeFaults \in Nat
         /\ WRITE_BATCH * (writeFaults + 1) = WRITE_BATCH * writeFaults + WRITE_BATCH
<1>1. WRITE_BATCH \in Nat /\ writeFaults \in Nat
  BY WriterAssumption DEF WriterTypes
<1>2. /\ WRITE_BATCH * writeFaults \in Nat
      /\ WRITE_BATCH * (writeFaults + 1) = WRITE_BATCH * writeFaults + WRITE_BATCH
  BY <1>1
<1>3. /\ Len(queue) \in Nat /\ Len(batch) \in Nat /\ Len(open) \in Nat
      /\ Len(telemetry) \in Nat /\ Len(accepted) \in Nat
  BY DEF WriterTypes
<1> QED BY <1>1, <1>2, <1>3 DEF PillsQueued

\* What is held in front of the queue, and with it.
InFront == (telemetry \o open) \o batch

LEMMA HeldInFront ==
  ASSUME WriterTypes
  PROVE  InFront \in Seq(Nat) /\ Writer!Held = InFront \o queue
BY HasConcat DEF WriterTypes, InFront, Writer!Held

LEMMA RowsWithoutTwo ==
  ASSUME NEW x \in Seq(Nat), NEW y \in Seq(Nat), NEW h \in Seq(Nat), NEW z \in Seq(Nat),
         NEW last \in Nat, Rows((x \o y) \o (h \o z), last)
  PROVE  Rows(x \o z, last)
<1>1. x \o y \in Seq(Nat) /\ y \o h \in Seq(Nat)
  BY HasConcat
<1>2. (x \o y) \o (h \o z) = ((x \o y) \o h) \o z
  <2> DEFINE w == x \o y
  <2>1. w \in Seq(Nat)
    BY <1>1
  <2> HIDE DEF w
  <2>2. w \o (h \o z) = (w \o h) \o z
    BY <2>1, Regroup, Zenon
  <2> QED BY <2>2 DEF w
<1>3. x \o (y \o h) = (x \o y) \o h
  BY Regroup, Zenon
<1>4. Rows((x \o (y \o h)) \o z, last)
  BY <1>2, <1>3
<1> QED BY <1>1, <1>4, RowsWithout

LEMMA WriterStart == Writer!Init => WInv
<1> SUFFICES ASSUME Writer!Init PROVE WInv
  OBVIOUS
<1> USE DEF Writer!Init
<1>1. << >> \in Seq(Nat) /\ Len(<< >>) = 0 /\ DOMAIN << >> = {} /\ \A row : ~Has(<< >>, row)
  BY EmptySeq DEF Has
<1>2. WriterTypes
  BY <1>1, WriterAssumption DEF WriterTypes
<1>3. OnePill /\ UpMeansRunning /\ BatchInHand /\ NoneForgotten /\ PromiseAhead
  BY <1>1 DEF OnePill, UpMeansRunning, BatchInHand, NoneForgotten, PromiseAhead
<1>4. RowsHeld
  <2>1. Writer!Held = << >>
    BY <1>1, ConcatEmptySeq DEF Writer!Held
  <2> QED BY <1>1, <2>1 DEF RowsHeld, Rows, Writer!Ascending
<1>5. LossCounted
  <2>1. Missing = 0
    BY <1>1 DEF Missing, PillsQueued
  <2>2. WRITE_BATCH * writeFaults = 0
    BY WriterAssumption
  <2> QED BY <1>1, <2>1, <2>2 DEF LossCounted
<1> QED BY <1>2, <1>3, <1>4, <1>5 DEF WInv

\* What only moves the worker, where it holds no batch.
LEMMA WorkerMoves ==
  ASSUME WInv, worker \notin {"drain", "write", "done"}, worker' \in {"check", "get", "dead"},
         UNCHANGED <<queue, running, batch, open, telemetry, caller, logged, accepted, promised>>,
         writeFaults' \in {writeFaults, writeFaults + 1}
  PROVE  WInv'
<1> USE DEF WInv
<1>1. WriterTypes' /\ OnePill' /\ UpMeansRunning' /\ BatchInHand'
  BY DEF WriterTypes, OnePill, UpMeansRunning, BatchInHand, Has
<1>2. RowsHeld'
  BY DEF RowsHeld, Rows, Writer!Held, Writer!Ascending
<1>3. LossCounted'
  <2>1. Missing' = Missing /\ Missing \in Int
    BY Lengths DEF Missing, PillsQueued, Has
  <2>2. WRITE_BATCH * writeFaults <= WRITE_BATCH * writeFaults'
    BY Lengths
  <2>3. WRITE_BATCH * writeFaults \in Nat /\ WRITE_BATCH * writeFaults' \in Nat
    BY Lengths
  <2> QED BY <2>1, <2>2, <2>3 DEF LossCounted
<1>4. writeFaults' = 0 => writeFaults = 0
  BY DEF WriterTypes
<1>5. NoneForgotten' /\ PromiseAhead'
  BY <1>4 DEF NoneForgotten, PromiseAhead, Has, Ahead
<1> QED BY <1>1, <1>2, <1>3, <1>5

\* log_telemetry, before shutdown or after.
LEMMA LogOK ==
  ASSUME WInv, Writer!Log
  PROVE  WInv'
<1> USE DEF WInv
<1>1. /\ logged' = logged + 1 /\ logged \in Nat
      /\ UNCHANGED <<running, worker, batch, open, telemetry, caller, promised, writeFaults>>
  BY DEF Writer!Log, WriterTypes
<1>2. InFront \in Seq(Nat) /\ Writer!Held = InFront \o queue /\ InFront' = InFront
  BY <1>1, HeldInFront DEF InFront
<1>3. Rows(Writer!Held, logged + 1) /\ Rows(Append(Writer!Held, logged + 1), logged + 1)
  BY <1>1, RowsAppend DEF RowsHeld
<1>4. CASE UNCHANGED <<queue, accepted>>
  <2>1. WriterTypes' /\ OnePill' /\ UpMeansRunning' /\ BatchInHand'
    BY <1>1, <1>4 DEF WriterTypes, OnePill, UpMeansRunning, BatchInHand, Has
  <2>2. RowsHeld'
    <3>1. Writer!Held' = Writer!Held
      BY <1>1, <1>4 DEF Writer!Held
    <3> QED BY <1>1, <1>3, <3>1 DEF RowsHeld, Rows, Writer!Ascending
  <2>3. LossCounted'
    BY <1>1, <1>4 DEF LossCounted, Missing, PillsQueued, Has
  <2>4. NoneForgotten' /\ PromiseAhead'
    BY <1>1, <1>4 DEF NoneForgotten, PromiseAhead, Has, Ahead
  <2> QED BY <1>1, <2>1, <2>2, <2>3, <2>4
<1>5. CASE /\ Len(queue) < QUEUE_SIZE
           /\ queue' = Append(queue, logged') /\ accepted' = Append(accepted, logged')
  <2>1. /\ queue' \in Seq(Nat) /\ Len(queue') = Len(queue) + 1
        /\ \A row : Has(queue', row) <=> Has(queue, row) \/ row = logged + 1
        /\ \A row : Ahead(queue, row) => Ahead(queue', row)
    BY <1>1, <1>5, HasAppend DEF WriterTypes
  <2>2. /\ accepted' \in Seq(Nat) /\ Len(accepted') = Len(accepted) + 1
        /\ \A row : Has(accepted', row) <=> Has(accepted, row) \/ row = logged + 1
    BY <1>1, <1>5, HasAppend DEF WriterTypes
  <2>3. WriterTypes'
    <3>1. Len(queue') <= QUEUE_SIZE
      BY <1>5, <2>1, Lengths, WriterAssumption
    <3>2. ~Has(accepted', Pill)
      BY <1>1, <2>2 DEF WriterTypes, Pill
    <3> QED BY <1>1, <2>1, <2>2, <3>1, <3>2 DEF WriterTypes, Has, Pill
  <2>4. OnePill'
    <3>1. \A i \in DOMAIN queue' : queue'[i] = Pill => i \in DOMAIN queue /\ queue[i] = Pill
      BY <1>1, <1>5, AppendProperties DEF WriterTypes, Pill
    <3>2. Has(queue', Pill) => Has(queue, Pill)
      BY <1>1, <2>1 DEF Pill
    <3>3. \A i, j \in DOMAIN queue' : queue'[i] = Pill /\ queue'[j] = Pill => i = j
      BY <3>1 DEF OnePill
    <3> QED BY <1>1, <3>2, <3>3 DEF OnePill, Has, Pill
  <2>5. UpMeansRunning' /\ BatchInHand'
    BY <1>1 DEF UpMeansRunning, BatchInHand
  <2>6. RowsHeld'
    <3>1. Writer!Held' = Append(Writer!Held, logged + 1)
      <4>1. Writer!Held' = InFront' \o queue'
        BY DEF Writer!Held, InFront
      <4>2. InFront' = InFront
        BY <1>1 DEF InFront
      <4>3. InFront \o Append(queue, logged + 1) = Append(InFront \o queue, logged + 1)
        <5>1. queue \in Seq(Nat) /\ logged + 1 \in Nat
          BY DEF WriterTypes
        <5> QED BY <1>2, <5>1, ConcatAppend, Zenon
      <4> QED BY <1>1, <1>2, <1>5, <4>1, <4>2, <4>3
    <3> QED BY <1>1, <1>3, <3>1 DEF RowsHeld, Rows, Writer!Ascending
  <2>7. LossCounted'
    <3>1. PillsQueued' = PillsQueued
      <4>1. Has(queue', Pill) <=> Has(queue, Pill)
        BY <1>1, <2>1 DEF Pill
      <4> QED BY <4>1 DEF PillsQueued, Has, Pill
    <3>2. Missing' = Missing
      <4>1. /\ Missing' = Len(accepted') + PillsQueued - Len(telemetry) - Len(batch) - Len(queue')
            /\ Missing = Len(accepted) + PillsQueued - Len(telemetry) - Len(batch) - Len(queue)
        BY <1>1, <3>1 DEF Missing
      <4>2. /\ Len(accepted) \in Nat /\ Len(queue) \in Nat /\ PillsQueued \in {0, 1}
            /\ Len(telemetry) \in Nat /\ Len(batch) \in Nat
        BY Lengths
      <4> QED BY <2>1, <2>2, <4>1, <4>2
    <3> QED BY <1>1, <3>2 DEF LossCounted
  <2>8. NoneForgotten'
    BY <1>1, <2>1, <2>2 DEF NoneForgotten, Has
  <2>9. PromiseAhead'
    BY <1>1, <2>1 DEF PromiseAhead, Has, Ahead
  <2> QED BY <1>1, <2>3, <2>4, <2>5, <2>6, <2>7, <2>8, <2>9
<1> QED BY <1>4, <1>5 DEF Writer!Log

\* shutdown: its call, its pill and its join.
LEMMA ShutdownOK ==
  ASSUME WInv, Writer!Shutdown
  PROVE  WInv'
<1> USE DEF WInv
<1>1. /\ caller = "up" /\ caller' = "stopping" /\ running' = FALSE /\ promised' = accepted
      /\ UNCHANGED <<queue, worker, batch, open, telemetry, logged, accepted, writeFaults>>
  BY DEF Writer!Shutdown
<1>2. ~Has(queue, Pill) /\ worker # "done"
  BY <1>1 DEF OnePill, UpMeansRunning
<1>3. WriterTypes' /\ OnePill' /\ UpMeansRunning' /\ BatchInHand'
  BY <1>1, <1>2 DEF WriterTypes, OnePill, UpMeansRunning, BatchInHand, Has
<1>4. RowsHeld'
  BY <1>1 DEF RowsHeld, Rows, Writer!Held, Writer!Ascending
<1>5. LossCounted' /\ NoneForgotten'
  BY <1>1 DEF LossCounted, Missing, PillsQueued, NoneForgotten, Has
<1>6. \A row : Has(queue, row) => Ahead(queue, row)
  <2>1. \A i \in DOMAIN queue : \A j \in 1 .. i : j \in DOMAIN queue
    BY DEF WriterTypes
  <2> QED BY <1>2, <2>1 DEF Has, Ahead
<1>7. PromiseAhead'
  BY <1>1, <1>2, <1>6 DEF PromiseAhead, NoneForgotten, Has, Ahead
<1> QED BY <1>1, <1>3, <1>4, <1>5, <1>7

LEMMA PutPillOK ==
  ASSUME WInv, Writer!PutPill
  PROVE  WInv'
<1> USE DEF WInv
<1>1. /\ caller = "stopping" /\ caller' = "joining"
      /\ Len(queue) < QUEUE_SIZE /\ queue' = Append(queue, Pill)
      /\ UNCHANGED <<running, worker, batch, open, telemetry, logged, accepted, promised,
                     writeFaults>>
  BY DEF Writer!PutPill, Pill, Writer!Pill
<1>2. ~Has(queue, Pill)
  BY <1>1 DEF OnePill
<1>3. /\ queue' \in Seq(Nat) /\ Len(queue') = Len(queue) + 1
      /\ \A row : Has(queue', row) <=> Has(queue, row) \/ row = Pill
      /\ \A row : Ahead(queue, row) => Ahead(queue', row)
  BY <1>1, HasAppend DEF WriterTypes, Pill
<1>4. WriterTypes'
  <2>1. Len(queue') <= QUEUE_SIZE
    BY <1>1, <1>3, Lengths, WriterAssumption
  <2> QED BY <1>1, <1>3, <2>1 DEF WriterTypes, Has
<1>5. OnePill'
  <2>1. DOMAIN queue' = 1 .. Len(queue) + 1 /\ \A i \in 1 .. Len(queue) : queue'[i] = queue[i]
    BY <1>1, AppendProperties DEF WriterTypes, Pill
  <2>2. DOMAIN queue = 1 .. Len(queue) /\ Len(queue) \in Nat
    BY DEF WriterTypes
  <2>3. \A i \in DOMAIN queue' : queue'[i] = Pill => i = Len(queue) + 1
    BY <1>2, <2>1, <2>2 DEF Has
  <2> QED BY <1>1, <2>3 DEF OnePill, Has
<1>6. UpMeansRunning' /\ BatchInHand'
  BY <1>1 DEF UpMeansRunning, BatchInHand
<1>7. RowsHeld'
  <2>1. Writer!Held' = Append(Writer!Held, Pill)
    <3>1. Writer!Held' = InFront \o queue'
      BY <1>1 DEF Writer!Held, InFront
    <3>2. InFront \in Seq(Nat) /\ Writer!Held = InFront \o queue
      BY HeldInFront
    <3>3. queue \in Seq(Nat) /\ Pill \in Nat
      BY DEF WriterTypes, Pill
    <3>4. InFront \o Append(queue, Pill) = Append(InFront \o queue, Pill)
      BY <3>2, <3>3, ConcatAppend, Zenon
    <3> QED BY <1>1, <3>1, <3>2, <3>4
  <2>2. Rows(Append(Writer!Held, Pill), logged)
    BY RowsAppend DEF RowsHeld, WriterTypes
  <2> QED BY <1>1, <2>1, <2>2 DEF RowsHeld, Rows, Writer!Ascending
<1>8. LossCounted'
  <2>1. PillsQueued = 0 /\ PillsQueued' = 1
    BY <1>2, <1>3 DEF PillsQueued, Has
  <2>2. Missing' = Missing
    <3>1. /\ Missing' = Len(accepted) + 1 - Len(telemetry) - Len(batch) - Len(queue')
          /\ Missing = Len(accepted) + 0 - Len(telemetry) - Len(batch) - Len(queue)
      BY <1>1, <2>1 DEF Missing
    <3>2. /\ Len(accepted) \in Nat /\ Len(queue) \in Nat
          /\ Len(telemetry) \in Nat /\ Len(batch) \in Nat
      BY Lengths
    <3> QED BY <1>3, <3>1, <3>2
  <2> QED BY <1>1, <2>2 DEF LossCounted
<1>9. NoneForgotten'
  BY <1>1, <1>3 DEF NoneForgotten, Has
<1>10. PromiseAhead'
  <2> SUFFICES ASSUME writeFaults = 0, NEW row, Has(promised', row)
               PROVE  IF worker = "done" THEN Has(telemetry, row)
                      ELSE Has(telemetry, row) \/ Has(batch, row) \/ Ahead(queue', row)
    BY <1>1 DEF PromiseAhead
  <2>1. Has(promised, row)
    BY <1>1
  <2>2. Ahead(queue, row) => Ahead(queue', row)
    BY <1>3
  <2> QED BY <2>1, <2>2 DEF PromiseAhead
<1> QED BY <1>1, <1>4, <1>5, <1>6, <1>7, <1>8, <1>9, <1>10

LEMMA JoinOK ==
  ASSUME WInv, Writer!Join
  PROVE  WInv'
<1> USE DEF WInv
<1>1. /\ caller' = "down" /\ caller # "up"
      /\ UNCHANGED <<queue, running, worker, batch, open, telemetry, logged, accepted, promised,
                     writeFaults>>
  BY DEF Writer!Join
<1>2. WriterTypes' /\ OnePill' /\ UpMeansRunning' /\ BatchInHand'
  BY <1>1 DEF WriterTypes, OnePill, UpMeansRunning, BatchInHand, Has
<1>3. RowsHeld'
  BY <1>1 DEF RowsHeld, Rows, Writer!Held, Writer!Ascending
<1>4. LossCounted' /\ NoneForgotten' /\ PromiseAhead'
  BY <1>1 DEF LossCounted, Missing, PillsQueued, NoneForgotten, PromiseAhead, Has, Ahead
<1> QED BY <1>1, <1>2, <1>3, <1>4

-----------------------------------------------------------------------------
\* The worker takes the head of the queue.
LEMMA HeadTaken ==
  ASSUME WInv, queue # << >>, queue' = Tail(queue), caller' = caller
  PROVE  /\ Head(queue) \in Nat /\ queue' \in Seq(Nat) /\ Len(queue') = Len(queue) - 1
         /\ OnePill'
         /\ Head(queue) = Pill => PillsQueued = 1 /\ PillsQueued' = 0
         /\ Head(queue) # Pill => PillsQueued' = PillsQueued
         /\ \A row : Has(queue, row) <=> row = Head(queue) \/ Has(queue', row)
         /\ \A row : Ahead(queue, row)
                       <=> Head(queue) # Pill /\ (row = Head(queue) \/ Ahead(queue', row))
<1> USE DEF WInv
<1>1. queue \in Seq(Nat)
  BY DEF WriterTypes
<1>2. /\ Head(queue) \in Nat /\ queue' \in Seq(Nat) /\ Len(queue') = Len(queue) - 1
      /\ \A row : Has(queue, row) <=> row = Head(queue) \/ Has(queue', row)
      /\ \A row : Ahead(queue, row)
                    <=> Head(queue) # Pill /\ (row = Head(queue) \/ Ahead(queue', row))
  BY <1>1, HasTail
<1>3. \A i \in DOMAIN queue' : i \in Nat \ {0} /\ i + 1 \in DOMAIN queue /\ queue'[i] = queue[i + 1]
  BY <1>1, HeadTailProperties
<1>4. \A i, j \in DOMAIN queue' : queue'[i] = Pill /\ queue'[j] = Pill => i = j
  <2> SUFFICES ASSUME NEW i \in DOMAIN queue', NEW j \in DOMAIN queue',
                      queue'[i] = Pill, queue'[j] = Pill
               PROVE  i = j
    OBVIOUS
  <2>1. i + 1 = j + 1
    BY <1>3 DEF OnePill
  <2>2. i \in Nat /\ j \in Nat
    BY <1>3
  <2> QED BY <2>1, <2>2
<1>5. OnePill'
  BY <1>2, <1>4 DEF OnePill, Has, Pill
<1>6. ASSUME Head(queue) = Pill PROVE ~Has(queue', Pill)
  <2> SUFFICES ASSUME NEW i \in DOMAIN queue', queue'[i] = Pill PROVE FALSE
    BY DEF Has
  <2>1. 1 \in DOMAIN queue /\ queue[1] = Pill
    BY <1>1, <1>6, HeadTailProperties, EmptySeq
  <2>2. i + 1 = 1
    BY <1>3, <2>1 DEF OnePill
  <2>3. i \in Nat \ {0}
    BY <1>3
  <2> QED BY <2>2, <2>3
<1>7. Head(queue) = Pill => PillsQueued = 1 /\ PillsQueued' = 0
  BY <1>2, <1>6 DEF PillsQueued, Has
<1>8. Head(queue) # Pill => PillsQueued' = PillsQueued
  <2>1. Head(queue) # Pill => (Has(queue, Pill) <=> Has(queue', Pill))
    BY <1>2
  <2> QED BY <2>1 DEF PillsQueued, Has, Pill
<1> QED BY <1>2, <1>5, <1>7, <1>8

\* The row at the head moves into the batch.
LEMMA RowTaken ==
  ASSUME WInv, queue # << >>, Head(queue) # Pill, Len(batch) < WRITE_BATCH,
         queue' = Tail(queue), batch' = Append(batch, Head(queue)), worker' = "drain",
         worker # "done", UNCHANGED <<running, open, telemetry, caller, logged, accepted, promised, writeFaults>>
  PROVE  WInv'
<1> USE DEF WInv
<1>1. /\ Head(queue) \in Nat /\ queue' \in Seq(Nat) /\ Len(queue') = Len(queue) - 1
      /\ OnePill' /\ PillsQueued' = PillsQueued
      /\ \A row : Has(queue, row) <=> row = Head(queue) \/ Has(queue', row)
      /\ \A row : Ahead(queue, row) <=> row = Head(queue) \/ Ahead(queue', row)
  BY HeadTaken
<1>2. /\ batch' \in Seq(Nat) /\ Len(batch') = Len(batch) + 1 /\ batch' # << >>
      /\ \A row : Has(batch', row) <=> Has(batch, row) \/ row = Head(queue)
  <2>1. batch \in Seq(Nat)
    BY DEF WriterTypes
  <2>2. /\ batch' \in Seq(Nat) /\ Len(batch') = Len(batch) + 1
        /\ \A row : Has(batch', row) <=> Has(batch, row) \/ row = Head(queue)
    BY <1>1, <2>1, HasAppend
  <2>3. batch' # << >>
    BY <1>1, <2>1, AppendProperties
  <2> QED BY <2>2, <2>3
<1>3. WriterTypes'
  <2>1. Len(queue') <= QUEUE_SIZE /\ Len(batch') <= WRITE_BATCH
    BY <1>1, <1>2, Lengths, WriterAssumption DEF WriterTypes
  <2> QED BY <1>1, <1>2, <2>1 DEF WriterTypes, Has
<1>4. UpMeansRunning' /\ BatchInHand'
  BY <1>2 DEF UpMeansRunning, BatchInHand
<1>5. RowsHeld'
  <2>1. telemetry \o open \in Seq(Nat)
    BY HasConcat DEF WriterTypes
  <2>2. batch \in Seq(Nat) /\ queue \in Seq(Nat)
    BY DEF WriterTypes
  <2>3. telemetry \o open \o Append(batch, Head(queue)) \o Tail(queue)
          = telemetry \o open \o batch \o queue
    BY <2>1, <2>2, MoveHead, Zenon
  <2>4. Writer!Held' = Writer!Held
    BY <2>3 DEF Writer!Held
  <2> QED BY <2>4 DEF RowsHeld, Rows, Writer!Ascending
<1>6. LossCounted'
  <2>1. /\ Missing' = Len(accepted) + PillsQueued - Len(telemetry) - Len(batch') - Len(queue')
        /\ Missing = Len(accepted) + PillsQueued - Len(telemetry) - Len(batch) - Len(queue)
    BY <1>1 DEF Missing
  <2>2. /\ Len(accepted) \in Nat /\ Len(queue) \in Nat /\ PillsQueued \in {0, 1}
        /\ Len(telemetry) \in Nat /\ Len(batch) \in Nat
    BY Lengths
  <2>3. Missing' = Missing
    BY <1>1, <1>2, <2>1, <2>2
  <2> QED BY <2>3 DEF LossCounted
<1>7. NoneForgotten'
  BY <1>1, <1>2 DEF NoneForgotten, Has
<1>8. PromiseAhead'
  <2> SUFFICES ASSUME writeFaults = 0, NEW row, Has(promised, row)
               PROVE  Has(telemetry, row) \/ Has(batch', row) \/ Ahead(queue', row)
    BY DEF PromiseAhead, Has, Ahead
  <2>1. Has(telemetry, row) \/ Has(batch, row) \/ Ahead(queue, row)
    BY DEF PromiseAhead
  <2> QED BY <1>1, <1>2, <2>1, Zenon
<1> QED BY <1>1, <1>3, <1>4, <1>5, <1>6, <1>7, <1>8

\* The pill at the head is taken: nothing that was promised is behind it.  The
\* worker that holds no batch closes the database, the one that does writes it.
LEMMA PillTaken ==
  ASSUME WInv, queue # << >>, Head(queue) = Pill, queue' = Tail(queue), running' \in {running, FALSE},
         \/ worker = "get" /\ worker' = "done" /\ open' = << >>
         \/ worker = "drain" /\ worker' = "write" /\ open' = open,
         UNCHANGED <<batch, telemetry, caller, logged, accepted, promised, writeFaults>>
  PROVE  WInv'
<1> USE DEF WInv
<1>1. /\ Head(queue) \in Nat /\ queue' \in Seq(Nat) /\ Len(queue') = Len(queue) - 1
      /\ OnePill' /\ PillsQueued = 1 /\ PillsQueued' = 0
      /\ \A row : Has(queue, row) <=> row = Pill \/ Has(queue', row)
      /\ \A row : ~Ahead(queue, row)
  BY HeadTaken
<1>2. caller # "up"
  BY <1>1 DEF OnePill
<1>3. << >> \in Seq(Nat) /\ Len(<< >>) = 0
  BY EmptySeq
<1>4. WriterTypes'
  <2>1. Len(queue') <= QUEUE_SIZE
    BY <1>1, Lengths, WriterAssumption DEF WriterTypes
  <2> QED BY <1>1, <1>3, <2>1 DEF WriterTypes, Has
<1>5. UpMeansRunning' /\ BatchInHand' /\ running' \in BOOLEAN
  BY <1>2 DEF UpMeansRunning, BatchInHand
<1>6. RowsHeld'
  <2> DEFINE h == <<Head(queue)>>
             t == Tail(queue)
  <2>1. h \in Seq(Nat) /\ t \in Seq(Nat) /\ queue = h \o t
    BY <1>1, HeadTailProperties DEF WriterTypes
  <2> HIDE DEF h, t
  <2>2. Rows(((telemetry \o open) \o batch) \o (h \o t), logged) /\ logged \in Nat
    BY <2>1 DEF RowsHeld, Writer!Held, WriterTypes
  <2>3. CASE open' = open
    <3>1. InFront \in Seq(Nat)
      BY HeldInFront
    <3>2. InFront \o (h \o t) = (InFront \o h) \o t
      BY <2>1, <3>1, Regroup, Zenon
    <3>3. Rows((InFront \o h) \o t, logged)
      BY <2>2, <3>2 DEF InFront
    <3>4. Rows(InFront \o t, logged)
      BY <2>1, <2>2, <3>1, <3>3, RowsWithout
    <3> QED BY <2>3, <3>4 DEF RowsHeld, Rows, Writer!Ascending, Writer!Held, InFront, t
  <2>4. CASE worker = "get" /\ open' = << >>
    <3>1. batch = << >>
      BY <2>4 DEF BatchInHand
    <3>2. telemetry \in Seq(Nat) /\ open \in Seq(Nat) /\ telemetry \o open \in Seq(Nat)
          /\ open \o h \in Seq(Nat)
      BY <2>1, HasConcat DEF WriterTypes
    <3>3. (telemetry \o open) \o batch = telemetry \o open
      BY <3>1, <3>2, ConcatEmptySeq
    <3>4. Rows((telemetry \o open) \o (h \o t), logged)
      BY <2>2, <3>3
    <3>5. Rows(telemetry \o t, logged)
      BY <2>1, <2>2, <3>2, <3>4, RowsWithoutTwo
    <3>6. Writer!Held' = telemetry \o t
      BY <2>4, <3>1, <3>2, ConcatEmptySeq DEF Writer!Held, t
    <3> QED BY <3>5, <3>6 DEF RowsHeld, Rows, Writer!Ascending
  <2> QED BY <2>3, <2>4
<1>7. LossCounted'
  <2>1. /\ Missing' = Len(accepted) + 0 - Len(telemetry) - Len(batch) - Len(queue')
        /\ Missing = Len(accepted) + 1 - Len(telemetry) - Len(batch) - Len(queue)
    BY <1>1 DEF Missing
  <2>2. /\ Len(accepted) \in Nat /\ Len(queue) \in Nat
        /\ Len(telemetry) \in Nat /\ Len(batch) \in Nat
    BY Lengths
  <2>3. Missing' = Missing
    BY <1>1, <2>1, <2>2
  <2>4. Len(open) \in Nat /\ Len(open') \in Nat /\ Len(open') <= Len(open)
    BY <1>3, Lengths
  <2>5. Len(open) <= Missing /\ Missing <= WRITE_BATCH * writeFaults /\ Missing \in Int
    BY <2>1, <2>2 DEF LossCounted
  <2> HIDE DEF WInv
  <2> QED BY <2>3, <2>4, <2>5 DEF LossCounted
<1>8. NoneForgotten'
  BY <1>1 DEF NoneForgotten, WriterTypes, Has
<1>9. PromiseAhead'
  <2>1. worker' = "done" => \A row : ~Has(batch, row)
    BY DEF BatchInHand, Has
  <2>2. writeFaults = 0 =>
          \A row : Has(promised, row) => Has(telemetry, row) \/ Has(batch, row)
    BY <1>1 DEF PromiseAhead
  <2> QED BY <2>1, <2>2 DEF PromiseAhead, Has
<1> QED BY <1>1, <1>4, <1>5, <1>6, <1>7, <1>8, <1>9

-----------------------------------------------------------------------------
LEMMA CheckOK ==
  ASSUME WInv, Writer!Check
  PROVE  WInv'
<1> USE DEF WInv
<1>1. /\ worker = "check"
      /\ UNCHANGED <<queue, running, batch, telemetry, caller, logged, accepted, promised,
                     writeFaults>>
  BY DEF Writer!Check, Writer!client
<1>2. CASE worker' = "get" /\ UNCHANGED open
  BY <1>1, <1>2, WorkerMoves
<1>3. CASE ~Writer!GoesOn /\ Writer!Close
  <2>1. /\ ~running /\ queue = << >> /\ batch = << >> /\ worker' = "done" /\ open' = << >>
        /\ \A row : ~Has(queue, row) /\ ~Has(batch, row) /\ ~Ahead(queue, row)
    BY <1>1, <1>3 DEF Writer!GoesOn, Writer!Close, BatchInHand, Has, Ahead
  <2>2. << >> \in Seq(Nat) /\ Len(<< >>) = 0
    BY EmptySeq
  <2>3. WriterTypes' /\ OnePill' /\ UpMeansRunning' /\ BatchInHand'
    BY <1>1, <2>1, <2>2 DEF WriterTypes, OnePill, UpMeansRunning, BatchInHand, Has
  <2>4. RowsHeld'
    <3>1. telemetry \in Seq(Nat) /\ open \in Seq(Nat) /\ logged \in Nat
      BY DEF WriterTypes
    <3>2. Writer!Held = (telemetry \o open) \o << >> /\ Writer!Held' = telemetry \o << >>
      <4>1. telemetry \o open \in Seq(Nat)
        BY <3>1, HasConcat
      <4> QED BY <1>1, <2>1, <3>1, <4>1, ConcatEmptySeq DEF Writer!Held
    <3>3. Rows(telemetry \o << >>, logged)
      BY <2>2, <3>1, <3>2, RowsWithout DEF RowsHeld
    <3> QED BY <1>1, <3>2, <3>3 DEF RowsHeld, Rows, Writer!Ascending
  <2>5. LossCounted'
    <3>1. Missing' = Missing /\ Missing \in Int
      BY <1>1, Lengths DEF Missing, PillsQueued, Has
    <3>2. Len(open) \in Nat /\ Len(open') = 0
      BY <2>1, <2>2, Lengths
    <3>3. Len(open) <= Missing /\ Missing <= WRITE_BATCH * writeFaults
      BY DEF LossCounted
    <3> HIDE DEF WInv
    <3> QED BY <1>1, <3>1, <3>2, <3>3 DEF LossCounted
  <2>6. NoneForgotten'
    BY <1>1 DEF NoneForgotten, Has
  <2>7. PromiseAhead'
    <3>1. writeFaults = 0 => \A row : Has(promised, row) => Has(telemetry, row)
      BY <1>1, <2>1 DEF PromiseAhead
    <3> QED BY <1>1, <2>1, <3>1 DEF PromiseAhead, Has
  <2> QED BY <1>1, <2>3, <2>4, <2>5, <2>6, <2>7
<1> QED BY <1>2, <1>3 DEF Writer!Check

LEMMA SetupOK ==
  ASSUME WInv, Writer!Setup
  PROVE  WInv'
<1>1. /\ worker = "setup" /\ worker' \in {"check", "dead"}
      /\ UNCHANGED <<queue, running, batch, open, telemetry, caller, logged, accepted, promised>>
      /\ writeFaults' \in {writeFaults, writeFaults + 1}
  BY DEF Writer!Setup, Writer!client, Writer!WriteFault
<1> QED BY <1>1, WorkerMoves

LEMMA GetOK ==
  ASSUME WInv, Writer!Get
  PROVE  WInv'
<1>1. /\ worker = "get" /\ batch = << >>
      /\ UNCHANGED <<running, telemetry, caller, logged, accepted, promised, writeFaults>>
  BY DEF WInv, BatchInHand, Writer!Get, Writer!client
<1>2. CASE worker' = "check" /\ UNCHANGED <<queue, batch, open>>
  BY <1>1, <1>2, WorkerMoves
<1>3. CASE /\ queue # << >> /\ queue' = Tail(queue)
           /\ Head(queue) = Pill /\ Writer!Close /\ UNCHANGED batch
  BY <1>1, <1>3, PillTaken DEF Writer!Close
<1>4. CASE /\ queue # << >> /\ queue' = Tail(queue) /\ Head(queue) # Pill
           /\ batch' = <<Head(queue)>> /\ worker' = "drain" /\ UNCHANGED open
  <2>1. Append(batch, Head(queue)) = <<Head(queue)>> /\ Len(batch) = 0
    BY <1>1
  <2>2. Len(batch) < WRITE_BATCH
    BY <2>1, WriterAssumption
  <2> QED BY <1>1, <1>4, <2>1, <2>2, RowTaken
<1> QED BY <1>2, <1>3, <1>4 DEF Writer!Get, Pill, Writer!Pill

LEMMA DrainOK ==
  ASSUME WInv, Writer!Drain
  PROVE  WInv'
<1>1. /\ worker = "drain"
      /\ UNCHANGED <<open, telemetry, caller, logged, accepted, promised, writeFaults>>
  BY DEF Writer!Drain, Writer!client
<1>2. CASE worker' = "write" /\ UNCHANGED <<queue, running, batch>>
  <2> USE DEF WInv
  <2>1. WriterTypes' /\ OnePill' /\ UpMeansRunning' /\ BatchInHand'
    BY <1>1, <1>2 DEF WriterTypes, OnePill, UpMeansRunning, BatchInHand, Has
  <2>2. RowsHeld' /\ LossCounted'
    BY <1>1, <1>2 DEF RowsHeld, Rows, Writer!Held, Writer!Ascending, LossCounted, Missing,
                      PillsQueued, Has
  <2>3. NoneForgotten' /\ PromiseAhead'
    BY <1>1, <1>2 DEF NoneForgotten, PromiseAhead, Has, Ahead
  <2> QED BY <1>2, <2>1, <2>2, <2>3
<1>3. CASE /\ queue # << >> /\ queue' = Tail(queue)
           /\ Head(queue) = Pill
           /\ running' = FALSE /\ worker' = "write" /\ UNCHANGED batch
  BY <1>1, <1>3, PillTaken
<1>4. CASE /\ queue # << >> /\ Len(batch) < WRITE_BATCH
           /\ queue' = Tail(queue) /\ Head(queue) # Pill
           /\ batch' = Append(batch, Head(queue)) /\ UNCHANGED <<running, worker>>
  BY <1>1, <1>4, RowTaken
<1> QED BY <1>2, <1>3, <1>4 DEF Writer!Drain, Writer!AfterPillInDrain, Pill, Writer!Pill

\* The batch is written with what an earlier failure left in the transaction.
LEMMA WrittenOK ==
  ASSUME WInv, worker = "write", worker' = "check", batch' = << >>,
         telemetry' = telemetry \o open \o batch, open' = << >>,
         UNCHANGED <<queue, running, caller, logged, accepted, promised, writeFaults>>
  PROVE  WInv'
<1> USE DEF WInv
<1>1. << >> \in Seq(Nat) /\ Len(<< >>) = 0 /\ \A row : ~Has(<< >>, row)
  BY EmptySeq DEF Has
<1>2. /\ telemetry \o open \in Seq(Nat) /\ telemetry' \in Seq(Nat)
      /\ Len(telemetry') = Len(telemetry) + Len(open) + Len(batch)
      /\ \A row : Has(telemetry', row)
                    <=> Has(telemetry, row) \/ Has(open, row) \/ Has(batch, row)
  <2>1. telemetry \in Seq(Nat) /\ open \in Seq(Nat) /\ batch \in Seq(Nat)
    BY DEF WriterTypes
  <2>2. /\ telemetry \o open \in Seq(Nat) /\ Len(telemetry \o open) = Len(telemetry) + Len(open)
        /\ \A row : Has(telemetry \o open, row) <=> Has(telemetry, row) \/ Has(open, row)
    BY <2>1, HasConcat
  <2>3. /\ telemetry' \in Seq(Nat) /\ Len(telemetry') = Len(telemetry \o open) + Len(batch)
        /\ \A row : Has(telemetry', row) <=> Has(telemetry \o open, row) \/ Has(batch, row)
    BY <2>1, <2>2, HasConcat
  <2> QED BY <2>2, <2>3
<1>3. WriterTypes' /\ OnePill' /\ UpMeansRunning' /\ BatchInHand'
  BY <1>1, <1>2, WriterAssumption DEF WriterTypes, OnePill, UpMeansRunning, BatchInHand, Has
<1>4. RowsHeld'
  <2>1. Writer!Held' = Writer!Held
    BY <1>2, ConcatEmptySeq DEF Writer!Held
  <2> QED BY <2>1 DEF RowsHeld, Rows, Writer!Ascending
<1>5. LossCounted'
  <2>1. /\ Missing' = Len(accepted) + PillsQueued - Len(telemetry') - 0 - Len(queue)
        /\ Missing = Len(accepted) + PillsQueued - Len(telemetry) - Len(batch) - Len(queue)
    BY <1>1 DEF Missing, PillsQueued, Has
  <2>2. /\ Len(accepted) \in Nat /\ Len(queue) \in Nat /\ PillsQueued \in {0, 1}
        /\ Len(telemetry) \in Nat /\ Len(batch) \in Nat /\ Len(open) \in Nat
        /\ WRITE_BATCH * writeFaults \in Nat
    BY Lengths
  <2>3. Missing' = Missing - Len(open) /\ Missing \in Int
    BY <1>2, <2>1, <2>2
  <2>4. Len(open) <= Missing /\ Missing <= WRITE_BATCH * writeFaults /\ Len(open') = 0
    BY <1>1 DEF LossCounted
  <2> HIDE DEF WInv
  <2> QED BY <2>2, <2>3, <2>4 DEF LossCounted
<1>6. NoneForgotten'
  BY <1>2 DEF NoneForgotten, Has
<1>7. PromiseAhead'
  <2> SUFFICES ASSUME writeFaults = 0, NEW row, Has(promised, row)
               PROVE  Has(telemetry', row) \/ Ahead(queue, row)
    BY DEF PromiseAhead
  <2>1. Has(telemetry, row) \/ Has(batch, row) \/ Ahead(queue, row)
    BY DEF PromiseAhead
  <2> QED BY <1>2, <2>1, Zenon
<1> QED BY <1>3, <1>4, <1>5, <1>6, <1>7

\* The batch is lost, but for the rows that stay in the transaction.
LEMMA WriteFailsOK ==
  ASSUME WInv, worker = "write", worker' = "check", batch' = << >>,
         writeFaults' = writeFaults + 1,
         NEW n \in 0 .. Len(batch), open' \in {<< >>, open \o SubSeq(batch, 1, n)},
         UNCHANGED <<queue, running, telemetry, caller, logged, accepted, promised>>
  PROVE  WInv'
<1> USE DEF WInv
<1> DEFINE kept == SubSeq(batch, 1, n)
           gone == SubSeq(batch, n + 1, Len(batch))
<1>1. << >> \in Seq(Nat) /\ Len(<< >>) = 0
  BY EmptySeq
<1>2. /\ telemetry \in Seq(Nat) /\ open \in Seq(Nat) /\ batch \in Seq(Nat)
      /\ queue \in Seq(Nat) /\ logged \in Nat /\ Len(batch) \in Nat /\ Len(open) \in Nat
  BY DEF WriterTypes
<1>3. /\ kept \in Seq(Nat) /\ Len(kept) = n /\ gone \in Seq(Nat) /\ kept \o gone = batch
  <2>1. \A i \in 1 .. Len(batch) : batch[i] \in Nat
    BY <1>2
  <2>2. kept \in Seq(Nat) /\ Len(kept) = (IF 1 <= n THEN n - 1 + 1 ELSE 0)
        /\ gone \in Seq(Nat)
    BY <1>2, <2>1, SubSeqProperties
  <2>3. Len(kept) = n
    BY <1>2, <2>2
  <2>4. kept \o gone = batch
    <3>1. SubSeq(batch, 1, Len(batch)) = batch
      BY <1>2, SubSeqFull
    <3>2. kept \o gone = SubSeq(batch, 1, Len(batch))
      <4>1. 1 \in 1 .. Len(batch) + 1 /\ n \in 1 - 1 .. Len(batch) /\ Len(batch) \in n .. Len(batch)
        BY <1>2
      <4> QED BY <1>2, <4>1, ConcatAdjacentSubSeq
    <3> QED BY <3>1, <3>2
  <2> QED BY <2>2, <2>3, <2>4
<1> HIDE DEF kept, gone
<1>4. open' = << >> \/ open' = open \o kept
  BY DEF kept
<1>5. open' \in Seq(Nat) /\ Len(open') \in Nat /\ Len(open') <= Len(open) + Len(batch)
  <2>1. open \o kept \in Seq(Nat) /\ Len(open \o kept) = Len(open) + n
    BY <1>2, <1>3, HasConcat
  <2>2. CASE open' = << >>
    BY <1>1, <1>2, <2>2
  <2>3. CASE open' = open \o kept
    BY <1>2, <2>1, <2>3
  <2> QED BY <1>4, <2>2, <2>3
<1>6. WriterTypes' /\ OnePill' /\ UpMeansRunning' /\ BatchInHand'
  BY <1>1, <1>5, WriterAssumption DEF WriterTypes, OnePill, UpMeansRunning, BatchInHand, Has
<1>7. RowsHeld'
  <2>1. Rows(((telemetry \o open) \o batch) \o queue, logged)
    BY DEF RowsHeld, Writer!Held
  <2>2. telemetry \o open \in Seq(Nat) /\ open \o batch \in Seq(Nat)
        /\ (telemetry \o open) \o kept \in Seq(Nat)
    BY <1>2, <1>3, HasConcat
  <2>3. CASE open' = << >>
    <3>1. telemetry \o (open \o batch) = (telemetry \o open) \o batch
      BY <1>2, Regroup, Zenon
    <3>2. Rows(telemetry \o queue, logged)
      BY <1>2, <2>1, <2>2, <3>1, RowsWithout
    <3>3. Writer!Held' = telemetry \o queue
      BY <1>2, <2>3, ConcatEmptySeq DEF Writer!Held
    <3> QED BY <3>2, <3>3 DEF RowsHeld, Rows, Writer!Ascending
  <2>4. CASE open' = open \o kept
    <3>1. (telemetry \o open) \o (kept \o gone) = ((telemetry \o open) \o kept) \o gone
      <4> DEFINE front == telemetry \o open
      <4>1. front \in Seq(Nat)
        BY <2>2, Zenon
      <4> HIDE DEF front
      <4>2. \A y, z \in Seq(Nat) : front \o (y \o z) = (front \o y) \o z
        BY <4>1, Regroup, Zenon
      <4>3. front \o (kept \o gone) = (front \o kept) \o gone
        BY <1>3, <4>2, Zenon
      <4> QED BY <4>3 DEF front
    <3>2. telemetry \o (open \o kept) = (telemetry \o open) \o kept
      <4>1. \A y, z \in Seq(Nat) : telemetry \o (y \o z) = (telemetry \o y) \o z
        BY <1>2, Regroup, Zenon
      <4> QED BY <1>2, <1>3, <4>1, Zenon
    <3>3. Rows(((telemetry \o open) \o kept) \o queue, logged)
      BY <1>2, <1>3, <2>1, <2>2, <3>1, RowsWithout
    <3>4. Writer!Held' = ((telemetry \o open) \o kept) \o queue
      BY <2>2, <2>4, <3>2, ConcatEmptySeq DEF Writer!Held
    <3> QED BY <3>3, <3>4 DEF RowsHeld, Rows, Writer!Ascending
  <2> QED BY <1>4, <2>3, <2>4
<1>8. LossCounted'
  <2>1. /\ Missing' = Len(accepted) + PillsQueued - Len(telemetry) - 0 - Len(queue)
        /\ Missing = Len(accepted) + PillsQueued - Len(telemetry) - Len(batch) - Len(queue)
    BY <1>1 DEF Missing, PillsQueued, Has
  <2>2. /\ Len(accepted) \in Nat /\ Len(queue) \in Nat /\ PillsQueued \in {0, 1}
        /\ Len(telemetry) \in Nat /\ WRITE_BATCH \in Nat
        /\ WRITE_BATCH * writeFaults \in Nat
        /\ WRITE_BATCH * writeFaults' = WRITE_BATCH * writeFaults + WRITE_BATCH
    BY Lengths
  <2>3. Missing' = Missing + Len(batch) /\ Missing \in Int
    BY <1>2, <2>1, <2>2
  <2>4. /\ Len(open) <= Missing /\ Missing <= WRITE_BATCH * writeFaults
        /\ Len(batch) <= WRITE_BATCH
    BY DEF LossCounted, WriterTypes
  <2> HIDE DEF WInv
  <2>5. Len(open') <= Missing'
    BY <1>2, <1>5, <2>3, <2>4
  <2>6. Missing' <= WRITE_BATCH * writeFaults + WRITE_BATCH
    BY <1>2, <2>2, <2>3, <2>4
  <2> QED BY <2>2, <2>5, <2>6 DEF LossCounted
<1>9. writeFaults' # 0
  BY DEF WriterTypes
<1>10. NoneForgotten' /\ PromiseAhead'
  BY <1>9 DEF NoneForgotten, PromiseAhead
<1> QED BY <1>6, <1>7, <1>8, <1>10

LEMMA WriteOK ==
  ASSUME WInv, Writer!Write
  PROVE  WInv'
<1>1. /\ worker = "write" /\ worker' = "check" /\ batch' = << >>
      /\ UNCHANGED <<queue, running, caller, logged, accepted, promised>>
  BY DEF Writer!Write, Writer!client
<1>2. CASE telemetry' = telemetry \o open \o batch /\ open' = << >> /\ UNCHANGED writeFaults
  BY <1>1, <1>2, WrittenOK
<1>3. CASE /\ Writer!WriteFault /\ UNCHANGED telemetry
           /\ open' \in {<< >>} \cup {open \o SubSeq(batch, 1, n) : n \in 0 .. Len(batch)}
  <2>1. Len(batch) \in Nat
    BY DEF WInv, WriterTypes
  <2>2. PICK n \in 0 .. Len(batch) : open' \in {<< >>, open \o SubSeq(batch, 1, n)}
    BY <1>3, <2>1
  <2>3. writeFaults' = writeFaults + 1 /\ UNCHANGED telemetry
    BY <1>3 DEF Writer!WriteFault
  <2> QED BY <1>1, <2>2, <2>3, WriteFailsOK
<1> QED BY <1>2, <1>3 DEF Writer!Write

LEMMA WriterStep == WInv /\ [Writer!Next]_writerVars => WInv'
<1>1. ASSUME WInv, Writer!Next PROVE WInv'
  BY <1>1, LogOK, ShutdownOK, PutPillOK, JoinOK, SetupOK, CheckOK, GetOK, DrainOK, WriteOK
     DEF Writer!Next, Writer!Worker
<1>2. ASSUME WInv, UNCHANGED writerVars PROVE WInv'
  <2> USE DEF WInv, writerVars
  <2>1. WriterTypes' /\ OnePill' /\ UpMeansRunning' /\ BatchInHand'
    BY <1>2 DEF WriterTypes, OnePill, UpMeansRunning, BatchInHand, Has
  <2>2. RowsHeld' /\ LossCounted'
    BY <1>2 DEF RowsHeld, Rows, Writer!Held, Writer!Ascending, LossCounted, Missing,
                PillsQueued, Has
  <2>3. NoneForgotten' /\ PromiseAhead'
    BY <1>2 DEF NoneForgotten, PromiseAhead, Has, Ahead
  <2> QED BY <1>2, <2>1, <2>2, <2>3
<1> QED BY <1>1, <1>2

LEMMA WriterKept == WInv => WriterInv
<1> SUFFICES ASSUME WInv PROVE Writer!WriterInv
  BY DEF WriterInv
<1> USE DEF WInv
<1>1. Writer!TypeOK
  BY DEF WriterTypes, Writer!TypeOK
<1>2. Writer!InOrder
  BY DEF RowsHeld, Rows, Writer!InOrder
<1>3. \A s \in Seq(Nat) : \A row : Writer!Contains(s, row) <=> Has(s, row)
  BY DEF Has, Writer!Contains
<1>4. Writer!LossBounded
  <2>1. Writer!Pills = PillsQueued
    BY <1>3 DEF Writer!Pills, PillsQueued, Pill, Writer!Pill, WriterTypes
  <2>2. Len(Writer!Held) = Len(telemetry) + Len(open) + Len(batch) + Len(queue)
    <3>1. telemetry \o open \in Seq(Nat) /\ Len(telemetry \o open) = Len(telemetry) + Len(open)
      BY HasConcat DEF WriterTypes
    <3>2. InFront \in Seq(Nat) /\ Len(InFront) = Len(telemetry \o open) + Len(batch)
      BY <3>1, HasConcat DEF WriterTypes, InFront
    <3>3. Len(InFront \o queue) = Len(InFront) + Len(queue)
      BY <3>2, HasConcat DEF WriterTypes
    <3> QED BY <3>1, <3>2, <3>3, HeldInFront
  <2>3. /\ Len(accepted) \in Nat /\ Len(queue) \in Nat /\ PillsQueued \in {0, 1}
        /\ Len(telemetry) \in Nat /\ Len(batch) \in Nat /\ Len(open) \in Nat
        /\ WRITE_BATCH * writeFaults \in Nat
    BY Lengths
  <2>4. Len(open) <= Missing /\ Missing <= WRITE_BATCH * writeFaults
    BY DEF LossCounted
  <2>5. Missing = Len(accepted) + PillsQueued - Len(telemetry) - Len(batch) - Len(queue)
    BY DEF Missing
  <2> HIDE DEF WInv
  <2>6. Len(accepted) + PillsQueued - Len(Writer!Held) = Missing - Len(open) /\ Missing \in Int
    BY <2>2, <2>3, <2>5
  <2>7. Missing - Len(open) \in 0 .. WRITE_BATCH * writeFaults
    BY <2>3, <2>4, <2>6
  <2> QED BY <2>1, <2>6, <2>7 DEF Writer!LossBounded
<1>5. Writer!PromiseKept
  <2> SUFFICES ASSUME worker = "done", writeFaults = 0, NEW i \in DOMAIN promised
               PROVE  Writer!Contains(telemetry, promised[i])
    BY DEF Writer!PromiseKept
  <2>1. Has(promised, promised[i])
    BY DEF Has
  <2> QED BY <1>3, <2>1 DEF PromiseAhead, WriterTypes
<1> QED BY <1>1, <1>2, <1>4, <1>5 DEF Writer!WriterInv

-----------------------------------------------------------------------------
\* The services share nothing: a step is one's, and leaves the others alone.
LEMMA OneService ==
  ASSUME Next
  PROVE  /\ [Writer!Next]_writerVars /\ [Conductor!Next]_conductorVars
         /\ [Plane!Next]_planeVars /\ [Table!Next]_tableVars
BY DEF Next, WriterOnly, ConductorOnly, PlaneOnly, TableOnly

\* No row the edge node queued is lost but those of a failed batch, none is
\* written out of order or twice, and when the worker has ended without a
\* failure all that was queued before shutdown is in the table
\* (edge-orchestrator/database_manager.py:42-101).
THEOREM WriterLosesNothing == Spec => []WriterInv
<1>1. Init => WInv
  BY WriterStart DEF Init
<1>2. WInv /\ [Next]_vars => WInv'
  BY OneService, WriterStep DEF vars
<1>3. WInv => WriterInv
  BY WriterKept
<1> QED BY <1>1, <1>2, <1>3, PTL DEF Spec

\* Every queued snapshot is committed, in hand or queued, in order; and unless
\* the storage fails the flusher leaves at most one behind
\* (Cloud/src/conductor_host.py:102-178).
THEOREM ConductorAccounts == Spec => []ConductorInv
<1>1. Init => CInv
  BY ConductorInit DEF Init
<1>2. CInv /\ [Next]_vars => CInv'
  BY OneService, ConductorStep DEF vars
<1>3. CInv => ConductorInv
  BY ConductorKept
<1> QED BY <1>1, <1>2, <1>3, PTL DEF Spec

\* However coroutines interleave and wherever they break, the pool is the
\* clients whose endpoint was not told that they left and whom no broadcast gave
\* up, each once, and a broadcast that no exception ends passes over none that
\* was there when it began (Cloud/src/control_plane.py:64-103, 130-142).
THEOREM PoolIsExact == Spec => []PoolInv
<1>1. Init => PInv
  BY PoolInit DEF Init
<1>2. PInv /\ [Next]_vars => PInv'
  BY OneService, PlaneStep DEF vars
<1>3. PInv => PoolInv
  BY PoolKept
<1> QED BY <1>1, <1>2, <1>3, PTL DEF Spec

\* However prunes of several threads overlap and fail, the table is the latest
\* rows without a gap, not many above its limit and none too few
\* (host_app/src/database_manager.py:50-107).
THEOREM TableKeepsLatest == Spec => []TableInv
<1>1. Init => TInv
  BY TableInit DEF Init
<1>2. TInv /\ [Next]_vars => TInv'
  BY OneService, TableStep DEF vars
<1>3. TInv => TableInv
  BY TableKept
<1> QED BY <1>1, <1>2, <1>3, PTL DEF Spec
=============================================================================
