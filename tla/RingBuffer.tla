----------------------------- MODULE RingBuffer -----------------------------
(***************************************************************************)
(* circular_buffer.cpp: the lock-free ring between the UART receive        *)
(* interrupt and the super-loop.                                           *)
(*                                                                         *)
(* The interrupt runs to completion, so circular_buffer_write is one       *)
(* action that can fall between any two memory accesses of                 *)
(* circular_buffer_read.  head and tail are volatile but the bytes are     *)
(* not: the build may load the byte before it stores the new tail (the     *)
(* order of the text) or sink the load below that store.  Each read        *)
(* therefore picks one of the two orders.                                  *)
(***************************************************************************)
EXTENDS Naturals, Sequences

CONSTANTS Byte,         \* the values of one received character
          Zero,         \* the byte a zero-initialised global holds
          BUFFER_SIZE   \* slots of the ring; a power of two in the code

ASSUME ByteAssumption == Zero \in Byte
ASSUME SizeAssumption == BUFFER_SIZE \in Nat /\ BUFFER_SIZE >= 2

VARIABLES buffer, head, tail,   \* the CircularBuffer struct
          wrote,                \* last result of circular_buffer_write
          pc,                   \* where the super-loop is in circular_buffer_read
          slot,                 \* the index it took from tail
          reg,                  \* the byte it loaded, not yet stored to *data
          byte_in,              \* *data, the caller's variable
          read_ok               \* last result of circular_buffer_read

vars == <<buffer, head, tail, wrote, pc, slot, reg, byte_in, read_ok>>
readerVars == <<slot, reg, byte_in, read_ok>>

Slot == 0 .. BUFFER_SIZE - 1

\* (i + 1) & BUFFER_MASK
Succ(i) == IF i = BUFFER_SIZE - 1 THEN 0 ELSE i + 1

\* (i + k) & BUFFER_MASK for k < BUFFER_SIZE
Plus(i, k) == IF i + k < BUFFER_SIZE THEN i + k ELSE i + k - BUFFER_SIZE

\* circular_buffer_available, circular_buffer_is_empty, circular_buffer_is_full
Available == IF head >= tail THEN head - tail ELSE head + BUFFER_SIZE - tail
IsEmpty == head = tail

\* BUG: full only at the end of the array / never / one slot too early.
IsFullAtWrap == head = BUFFER_SIZE - 1 /\ tail = 0
IsFullNever == FALSE
IsFullEarly == Succ(Succ(head)) = tail

IsFull == Succ(head) = tail

Init == /\ buffer = [s \in Slot |-> Zero]
        /\ head = 0 /\ tail = 0
        /\ wrote = TRUE
        /\ pc = "idle"
        /\ slot = 0 /\ reg = Zero
        /\ byte_in \in Byte             \* an uninitialised local of main
        /\ read_ok = FALSE

(***************************************************************************)
(* USART_RX_vect calling circular_buffer_write.                            *)
(***************************************************************************)
Write(b) == /\ ~IsFull
            /\ buffer' = [buffer EXCEPT ![head] = b]
            /\ head' = Succ(head)
            /\ wrote' = TRUE
            /\ UNCHANGED <<tail, pc, readerVars>>

\* The overflowing byte is dropped; the interrupt ignores the result.
WriteDropped == /\ IsFull
                /\ wrote' = FALSE
                /\ UNCHANGED <<buffer, head, tail, pc, readerVars>>

(***************************************************************************)
(* circular_buffer_read, one action per access to shared memory.           *)
(***************************************************************************)
ReadEmpty == /\ pc = "idle"
             /\ IsEmpty
             /\ read_ok' = FALSE
             /\ UNCHANGED <<buffer, head, tail, wrote, pc, slot, reg, byte_in>>

ReadBegin == /\ pc = "idle"
             /\ ~IsEmpty
             /\ slot' = tail
             /\ pc' \in {"load", "advanceFirst"}
             /\ UNCHANGED <<buffer, head, tail, wrote, reg, byte_in, read_ok>>

\* BUG: the slot is returned without being freed.
AdvanceStuck == /\ pc = "advance"
                /\ byte_in' = reg
                /\ read_ok' = TRUE
                /\ pc' = "idle"
                /\ UNCHANGED <<buffer, head, tail, wrote, slot, reg>>

\* Order of the text: load the byte, then free its slot and return.
Load == /\ pc = "load"
        /\ reg' = buffer[slot]
        /\ pc' = "advance"
        /\ UNCHANGED <<buffer, head, tail, wrote, slot, byte_in, read_ok>>

Advance == /\ pc = "advance"
           /\ tail' = Succ(tail)
           /\ byte_in' = reg
           /\ read_ok' = TRUE
           /\ pc' = "idle"
           /\ UNCHANGED <<buffer, head, wrote, slot, reg>>

\* The other order: free the slot, then load the byte from it and return.
AdvanceFirst == /\ pc = "advanceFirst"
                /\ tail' = Succ(tail)
                /\ pc' = "lateLoad"
                /\ UNCHANGED <<buffer, head, wrote, readerVars>>

LateLoad == /\ pc = "lateLoad"
            /\ byte_in' = buffer[slot]
            /\ read_ok' = TRUE
            /\ pc' = "idle"
            /\ UNCHANGED <<buffer, head, tail, wrote, slot, reg>>

Reader == ReadEmpty \/ ReadBegin \/ Load \/ Advance \/ AdvanceFirst \/ LateLoad

Interrupt == (\E b \in Byte : Write(b)) \/ WriteDropped

Next == Interrupt \/ Reader

Spec == Init /\ [][Next]_vars

\* The super-loop never blocks, so it keeps calling circular_buffer_read;
\* nothing makes the host send, so the interrupt gets no fairness.
FairSpec == Spec /\ WF_vars(Reader)

-----------------------------------------------------------------------------
TypeOK == /\ buffer \in [Slot -> Byte]
          /\ head \in Slot /\ tail \in Slot /\ slot \in Slot
          /\ wrote \in BOOLEAN /\ read_ok \in BOOLEAN
          /\ reg \in Byte /\ byte_in \in Byte
          /\ pc \in {"idle", "load", "advance", "advanceFirst", "lateLoad"}

\* The reader took its slot from tail, and nobody else moves tail.
SlotIsTail == /\ pc \in {"load", "advance", "advanceFirst"} => slot = tail /\ ~IsEmpty
              /\ pc = "lateLoad" => tail = Succ(slot)

\* A byte the reader already loaded is still the one in the oldest unread
\* slot when it frees that slot: an interrupt between the two accesses
\* cannot have replaced it, however full the ring is.
LoadedByteCurrent == pc = "advance" => reg = buffer[tail]

\* Even when the build frees the slot before loading from it, the slot is
\* not the one the interrupt writes next unless the ring is full, in which
\* case the write is refused: the slot the ring reserves to tell empty from
\* full also protects this load.
FreedSlotSafe == pc = "lateLoad" => (slot = head => IsFull)

RingInv == TypeOK /\ SlotIsTail /\ LoadedByteCurrent /\ FreedSlotSafe

\* No step overwrites a byte that has been accepted and not yet read, nor
\* the one a read is still about to load from a slot it has already freed.
Unread(s) == \/ \E k \in 0 .. Available - 1 : s = Plus(tail, k)
             \/ pc = "lateLoad" /\ s = slot
NoUnreadOverwritten == [][\A s \in Slot : Unread(s) => buffer'[s] = buffer[s]]_vars

\* Every accepted byte is eventually handed to the super-loop, although the
\* interrupt may fire between any two accesses of the reader.
Delivered == \A s \in Slot : (tail = s /\ ~IsEmpty) ~> (tail # s)

(***************************************************************************)
(* The ring implements the queue: the unread bytes are those from tail up  *)
(* to head, and a read takes effect when it frees its slot.                *)
(***************************************************************************)
Contents == [k \in 1 .. Available |-> buffer[Plus(tail, k - 1)]]

Fifo == INSTANCE ByteFifo WITH
          Capacity <- BUFFER_SIZE - 1,
          queue <- Contents,
          data  <- IF pc = "lateLoad" THEN buffer[slot] ELSE byte_in,
          wrote <- wrote,
          got   <- IF pc = "lateLoad" THEN TRUE ELSE read_ok

\* circular_buffer.h's contract holds of the interleaved code: bytes leave in
\* the order they arrived, none twice, none invented, and one is refused only
\* when BUFFER_SIZE - 1 are unread.
ImplementsFifo == Fifo!Spec
=============================================================================
