--------------------------- MODULE CloudSyncProofs ---------------------------
(***************************************************************************)
(* At-least-once delivery, the order of the chunks and the spacing of the  *)
(* circuit breaker, for any set of rows, thresholds and number of faults,  *)
(* whether or not the daemon sweeps at boot.                               *)
(***************************************************************************)
EXTENDS CloudSync, FiniteSetTheorems, TLAPS

USE DEF memory, timers

LEMMA LeastNat ==
  ASSUME NEW a \in Nat, NEW b \in Nat
  PROVE  Least(a, b) \in Nat /\ Least(a, b) <= a /\ Least(a, b) <= b
BY DEF Least

-----------------------------------------------------------------------------
(***************************************************************************)
(* The safety invariant is inductive as it stands.                         *)
(***************************************************************************)
LEMMA InitSync == Init => SyncInv
BY TimesAssumption DEF Init, SyncInv, TypeOK, BatchInStep, SyncedIsStored, StoredWasQueued,
                       InState

LEMMA TypeStep == TypeOK /\ [Next]_vars => TypeOK'
<1> SUFFICES ASSUME TypeOK, [Next]_vars PROVE TypeOK'
  OBVIOUS
<1> USE DEF TypeOK
<1>1. ASSUME NEW R \in SUBSET Record, Insert(R) PROVE TypeOK'
  BY <1>1 DEF Insert, Marked
<1>2. CASE Tick
  <2>1. flushAge' \in Nat /\ failAge' \in Nat /\ cooldown' \in Nat
    BY <1>2, LeastNat, TimesAssumption DEF Tick
  <2> QED BY <1>2, <2>1 DEF Tick
<1>3. CASE Boot
  BY <1>3 DEF Boot, Marked, Swept
<1>4. CASE Begin \/ Count \/ Upload
  BY <1>4 DEF Begin, Count, Upload
<1>5. CASE Select
  BY <1>5 DEF Select, OldestPending, InState
<1>6. CASE Claim \/ MarkSynced
  BY <1>6 DEF Claim, MarkSynced, Marked
<1>7. CASE FailBack
  <2>1. consecutive_failures' \in Nat /\ cooldown' \in Nat
    BY <1>7, LeastNat, TimesAssumption, StrikesAssumption DEF FailBack
  <2> QED BY <1>7, <2>1 DEF FailBack, Marked
<1>8. CASE Restart
  BY <1>8 DEF Restart
<1>9. CASE UploadFailed \/ Raise \/ Crash
  BY <1>9 DEF UploadFailed, Raise, Crash, Fault, PutMaybe
<1>10. CASE UNCHANGED vars
  BY <1>10 DEF vars
<1> QED BY <1>1, <1>2, <1>3, <1>4, <1>5, <1>6, <1>7, <1>8, <1>9, <1>10 DEF Next, Daemon

\* What each step does to the batch, the bucket and the marks.
LEMMA DataStep ==
  SyncInv /\ [Next]_vars => BatchInStep' /\ SyncedIsStored' /\ StoredWasQueued'
<1> SUFFICES ASSUME SyncInv, [Next]_vars
             PROVE  BatchInStep' /\ SyncedIsStored' /\ StoredWasQueued'
  OBVIOUS
<1> USE DEF SyncInv, TypeOK, BatchInStep, SyncedIsStored, StoredWasQueued, InState
<1>1. ASSUME NEW R \in SUBSET Record, Insert(R)
      PROVE  BatchInStep' /\ SyncedIsStored' /\ StoredWasQueued'
  BY <1>1 DEF Insert, Marked
<1>2. CASE Tick \/ Begin \/ Count
  BY <1>2 DEF Tick, Begin, Count
<1>3. CASE Boot
  BY <1>3 DEF Boot, Marked, Swept
<1>4. CASE Select
  BY <1>4 DEF Select, OldestPending
<1>5. CASE Claim
  BY <1>5 DEF Claim, Marked
<1>6. CASE Upload
  BY <1>6 DEF Upload
<1>7. CASE MarkSynced
  BY <1>7 DEF MarkSynced, Marked
<1>8. CASE FailBack
  BY <1>8 DEF FailBack, Marked
<1>9. CASE Restart
  BY <1>9 DEF Restart
<1>10. CASE UploadFailed
  BY <1>10 DEF UploadFailed, PutMaybe
<1>11. CASE Raise \/ Crash
  BY <1>11 DEF Raise, Crash, PutMaybe
<1>12. CASE UNCHANGED vars
  BY <1>12 DEF vars
<1> QED BY <1>1, <1>2, <1>3, <1>4, <1>5, <1>6, <1>7, <1>8, <1>9, <1>10, <1>11, <1>12
        DEF Next, Daemon

\* No row is marked SYNCED that the bucket does not hold, and the batch in hand
\* is as far as its cycle, in every reachable state: sync_cycle loses nothing.
THEOREM SyncInvariant == Spec => []SyncInv
<1>1. SyncInv /\ [Next]_vars => SyncInv'
  BY TypeStep, DataStep DEF SyncInv
<1> QED BY InitSync, <1>1, PTL DEF Spec

-----------------------------------------------------------------------------
(***************************************************************************)
(* Refinement of SyncDelivery.                                             *)
(***************************************************************************)
LEMMA DeliveryStep == SyncInv /\ [Next]_vars => [Delivery!Next]_(Delivery!vars)
<1> SUFFICES ASSUME SyncInv, [Next]_vars
             PROVE  [Delivery!Next]_(Delivery!vars)
  OBVIOUS
<1> USE DEF SyncInv, TypeOK, BatchInStep, StoredWasQueued, InState
<1>1. ASSUME NEW R \in SUBSET Record, Insert(R) PROVE Delivery!Enqueue
  <2>1. InState("SYNCED")' = InState("SYNCED") /\ bucket' = bucket
    BY <1>1 DEF Insert, Marked
  <2>2. R \in SUBSET (Record \ (Record \ InState("absent")))
    BY <1>1 DEF Insert
  <2>3. (Record \ InState("absent"))' = (Record \ InState("absent")) \cup R
    BY <1>1 DEF Insert, Marked
  <2> QED BY <2>1, <2>2, <2>3 DEF Delivery!Enqueue
<1>2. ASSUME UNCHANGED <<InState("absent"), InState("SYNCED")>>,
             \/ bucket' = bucket
             \/ bucket' = bucket \cup records /\ records \subseteq InState("PROCESSING")
      PROVE  Delivery!Put \/ UNCHANGED Delivery!vars
  <2>1. CASE bucket' = bucket
    BY <1>2, <2>1 DEF Delivery!vars
  <2>2. CASE bucket' = bucket \cup records /\ records \subseteq InState("PROCESSING")
    <3>1. records \in SUBSET ((Record \ InState("absent")) \ InState("SYNCED"))
      BY <2>2
    <3> QED BY <1>2, <2>2, <3>1 DEF Delivery!Put
  <2> QED BY <1>2, <2>1, <2>2
<1>3. CASE Tick \/ Begin \/ Count \/ Select \/ Restart
  <2>1. status' = status /\ bucket' = bucket
    BY <1>3 DEF Tick, Begin, Count, Select, Restart
  <2> QED BY <2>1, <1>2 DEF Delivery!Next
<1>4. CASE Boot \/ Claim \/ FailBack
  <2>1. UNCHANGED <<InState("absent"), InState("SYNCED")>> /\ bucket' = bucket
    BY <1>4 DEF Boot, Claim, FailBack, Marked, Swept
  <2> QED BY <2>1, <1>2 DEF Delivery!Next
<1>5. CASE Upload \/ UploadFailed \/ Raise \/ Crash
  <2>1. status' = status
    BY <1>5 DEF Upload, UploadFailed, Raise, Crash
  <2>2. \/ bucket' = bucket
        \/ bucket' = bucket \cup records /\ records \subseteq InState("PROCESSING")
    BY <1>5 DEF Upload, UploadFailed, Raise, Crash, PutMaybe
  <2> QED BY <2>1, <2>2, <1>2 DEF Delivery!Next
<1>6. CASE MarkSynced
  <2>1. records \in SUBSET bucket
    BY <1>6 DEF MarkSynced
  <2>2. /\ InState("SYNCED")' = InState("SYNCED") \cup records
        /\ InState("absent")' = InState("absent")
        /\ bucket' = bucket
    BY <1>6 DEF MarkSynced, Marked
  <2> QED BY <2>1, <2>2 DEF Delivery!Confirm, Delivery!Next
<1>7. CASE UNCHANGED vars
  <2>1. status' = status /\ bucket' = bucket
    BY <1>7 DEF vars
  <2> QED BY <2>1, <1>2 DEF Delivery!Next
<1> QED BY <1>1, <1>3, <1>4, <1>5, <1>6, <1>7 DEF Next, Daemon, Delivery!Next

\* The daemon implements at-least-once delivery through every crash, exception,
\* ambiguous upload and retry of sync_cycle.
THEOREM SyncImplementsDelivery == Spec => ImplementsDelivery
<1>1. Init => Delivery!Init
  BY DEF Init, Delivery!Init, InState
<1> QED BY <1>1, SyncInvariant, DeliveryStep, PTL DEF Spec, ImplementsDelivery, Delivery!Spec

-----------------------------------------------------------------------------
(***************************************************************************)
(* The breaker: what is left of the cooldown and the time since the last   *)
(* failure make up a cooldown for as long as the strikes are out.          *)
(***************************************************************************)
StrikesCool == consecutive_failures >= max_consecutive_failures
                 => cooldown + failAge >= circuit_cooldown_sec

LEMMA CoolStep == TypeOK /\ StrikesCool /\ [Next]_vars => StrikesCool'
<1> SUFFICES ASSUME TypeOK, StrikesCool, [Next]_vars PROVE StrikesCool'
  OBVIOUS
<1> USE TimesAssumption, StrikesAssumption DEF TypeOK, StrikesCool
<1>1. ASSUME NEW R \in SUBSET Record, Insert(R) PROVE StrikesCool'
  BY <1>1 DEF Insert
<1>2. CASE Tick
  BY <1>2 DEF Tick, Least
<1>3. CASE Boot \/ Begin \/ Count \/ Select \/ Claim \/ Upload
  BY <1>3 DEF Boot, Begin, Count, Select, Claim, Upload
<1>4. CASE MarkSynced \/ Restart
  BY <1>4 DEF MarkSynced, Restart
<1>5. CASE FailBack
  BY <1>5 DEF FailBack, StrikeOut, Least
<1>6. CASE UploadFailed \/ Raise \/ Crash
  BY <1>6 DEF UploadFailed, Raise, Crash
<1>7. CASE UNCHANGED vars
  BY <1>7 DEF vars
<1> QED BY <1>1, <1>2, <1>3, <1>4, <1>5, <1>6, <1>7 DEF Next, Daemon

\* Once max_consecutive_failures uploads have failed in a row, each next cycle
\* begins a full cooldown after the last failure.
THEOREM BreakerSpacing == Spec => BreakerSpaces
<1>1. Init => StrikesCool
  BY StrikesAssumption DEF Init, StrikesCool
<1>2. TypeOK /\ StrikesCool /\ [Next]_vars =>
        [pc = "idle" /\ pc' = "count" /\ consecutive_failures >= max_consecutive_failures
           => failAge >= circuit_cooldown_sec]_vars
  <2> SUFFICES ASSUME TypeOK, StrikesCool, Next, pc = "idle", pc' = "count",
                      consecutive_failures >= max_consecutive_failures
               PROVE  failAge >= circuit_cooldown_sec
    OBVIOUS
  <2>1. Begin
    BY DEF Next, Daemon, Insert, Tick, Boot, Begin, Count, Select, Claim, Upload, MarkSynced,
           FailBack, Restart, UploadFailed, Raise, Crash
  <2> QED BY <2>1, TimesAssumption DEF Begin, TypeOK, StrikesCool
<1>3. SyncInv => TypeOK
  BY DEF SyncInv
<1> QED BY <1>1, <1>2, <1>3, CoolStep, SyncInvariant, PTL DEF Spec, BreakerSpaces

-----------------------------------------------------------------------------
(***************************************************************************)
(* The order of the chunks: the table only grows at its end, and the batch *)
(* in hand is closed downwards among the rows that wait.                   *)
(***************************************************************************)
Ordered == \A r, q \in Record : status[r] # "absent" /\ status[q] = "absent" => r < q

BatchClosed == pc \in {"claim", "upload", "sync"} =>
  \A r \in records, q \in Record : q < r /\ status[q] = "PENDING" => q \in records

OrderInv == Ordered /\ BatchClosed

\* Among the rows that wait, those older than one of the oldest n are too.
LEMMA OldestClosed ==
  ASSUME NEW r \in OldestPending, NEW q \in InState("PENDING"), q < r
  PROVE  q \in OldestPending
<1> DEFINE Older(x) == {p \in InState("PENDING") : p < x}
<1>1. Record \subseteq Nat /\ InState("PENDING") \subseteq Nat
  BY RecordAssumption DEF InState
<1>2. q \in Nat /\ r \in Nat /\ Older(r) \subseteq 0 .. r
  BY <1>1 DEF OldestPending
<1>3. IsFiniteSet(Older(r))
  <2>1. IsFiniteSet(0 .. r)
    BY <1>2, FS_Interval
  <2> QED BY <1>2, <2>1, FS_Subset
<1>4. Older(q) \subseteq Older(r)
  BY <1>1, <1>2
<1>5. /\ Cardinality(Older(q)) <= Cardinality(Older(r))
      /\ Cardinality(Older(q)) \in Nat /\ Cardinality(Older(r)) \in Nat
  BY <1>3, <1>4, FS_Subset, FS_CardinalityType
<1>6. Cardinality(Older(r)) < batch_size_threshold
  BY DEF OldestPending
<1>7. Cardinality(Older(q)) < batch_size_threshold
  BY <1>5, <1>6, BatchAssumption
<1> QED BY <1>7 DEF OldestPending

LEMMA OrderStep == SyncInv /\ OrderInv /\ [Next]_vars => OrderInv'
<1> SUFFICES ASSUME SyncInv, OrderInv, [Next]_vars PROVE OrderInv'
  OBVIOUS
<1> USE RecordAssumption DEF SyncInv, TypeOK, BatchInStep, OrderInv, Ordered, BatchClosed
<1>1. ASSUME NEW R \in SUBSET Record, Insert(R) PROVE OrderInv'
  <2>1. Ordered'
    BY <1>1 DEF Insert, Marked
  <2>2. ASSUME pc \in {"claim", "upload", "sync"}, NEW r \in records, NEW q \in Record,
               q < r, status'[q] = "PENDING"
        PROVE  q \in records
    <3>1. status[r] # "absent"
      BY <2>2 DEF InState
    <3>2. q \notin R
      BY <1>1, <2>2, <3>1 DEF Insert
    <3> QED BY <1>1, <2>2, <3>2 DEF Insert, Marked
  <2>3. BatchClosed'
    BY <1>1, <2>2 DEF Insert
  <2> QED BY <2>1, <2>3
<1>2. CASE Tick \/ Begin \/ Count \/ Upload \/ Restart
  BY <1>2 DEF Tick, Begin, Count, Upload, Restart
<1>3. CASE Boot
  BY <1>3 DEF Boot, Marked, Swept, InState
<1>4. CASE Select
  <2>1. Ordered'
    BY <1>4 DEF Select
  <2>2. ASSUME NEW r \in records', NEW q \in Record, q < r, status'[q] = "PENDING"
        PROVE  q \in records'
    <3>1. status' = status /\ records' = OldestPending
      BY <1>4 DEF Select
    <3>2. q \in InState("PENDING")
      BY <2>2, <3>1 DEF InState
    <3> QED BY <2>2, <3>1, <3>2, OldestClosed
  <2> QED BY <2>1, <2>2
<1>5. CASE Claim
  BY <1>5 DEF Claim, Marked, InState
<1>6. CASE MarkSynced \/ FailBack
  BY <1>6 DEF MarkSynced, FailBack, Marked, InState
<1>7. CASE UploadFailed \/ Raise \/ Crash
  BY <1>7 DEF UploadFailed, Raise, Crash
<1>8. CASE UNCHANGED vars
  BY <1>8 DEF vars
<1> QED BY <1>1, <1>2, <1>3, <1>4, <1>5, <1>6, <1>7, <1>8 DEF Next, Daemon

\* No row is uploaded while an older one still waits its turn: the chunks that
\* sync_cycle sends leave oldest first.
THEOREM ChunksInOrder == Spec => []OldestFirst
<1>1. Init => OrderInv
  BY DEF Init, OrderInv, Ordered, BatchClosed
<1>2. SyncInv /\ OrderInv => OldestFirst
  <2> SUFFICES ASSUME SyncInv, OrderInv, pc \in {"upload", "sync"},
                      NEW r \in records, NEW q \in Record, q < r, status[q] = "PENDING"
               PROVE  FALSE
    BY DEF OldestFirst
  <2>1. q \in records
    BY DEF OrderInv, BatchClosed
  <2> QED BY <2>1 DEF SyncInv, BatchInStep, InState
<1> QED BY <1>1, <1>2, OrderStep, SyncInvariant, PTL DEF Spec
=============================================================================
