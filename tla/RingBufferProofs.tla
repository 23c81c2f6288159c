-------------------------- MODULE RingBufferProofs --------------------------
(***************************************************************************)
(* The receive ring is correct for every size and every byte set: the      *)
(* inductive invariant, that no unread byte is overwritten, and that the   *)
(* interleaved code implements the queue of ByteFifo.                      *)
(***************************************************************************)
EXTENDS RingBuffer, SequenceTheorems, TLAPS

\* Moving round the ring stays in the ring and never stands still.
LEMMA SuccInSlot ==
  ASSUME NEW i \in Slot
  PROVE  Succ(i) \in Slot /\ Succ(i) # i
BY SizeAssumption DEF Slot, Succ

\* Succ is injective: two indices with the same successor are one index.
LEMMA SuccInjective ==
  ASSUME NEW i \in Slot, NEW j \in Slot, Succ(i) = Succ(j)
  PROVE  i = j
BY SizeAssumption DEF Slot, Succ

-----------------------------------------------------------------------------
LEMMA InitRingInv == Init => RingInv
<1> SUFFICES ASSUME Init PROVE RingInv
  OBVIOUS
<1>1. 0 \in Slot
  BY SizeAssumption DEF Slot
<1>2. wrote \in BOOLEAN /\ read_ok \in BOOLEAN
  BY Zenon DEF Init
<1>3. TypeOK
  BY <1>1, <1>2, ByteAssumption DEF Init, TypeOK
<1>4. SlotIsTail /\ LoadedByteCurrent /\ FreedSlotSafe
  BY DEF Init, SlotIsTail, LoadedByteCurrent, FreedSlotSafe
<1> QED BY <1>3, <1>4 DEF RingInv

LEMMA NextRingInv == RingInv /\ [Next]_vars => RingInv'
<1> SUFFICES ASSUME RingInv, [Next]_vars PROVE RingInv'
  OBVIOUS
<1> USE SizeAssumption, SuccInSlot
<1>1. ASSUME NEW b \in Byte, Write(b) PROVE RingInv'
  <2>1. TypeOK'
    BY <1>1 DEF RingInv, TypeOK, Write, readerVars
  <2>2. SlotIsTail'
    BY <1>1 DEF RingInv, TypeOK, SlotIsTail, Write, IsEmpty, IsFull, readerVars
  <2>3. LoadedByteCurrent'
    BY <1>1 DEF RingInv, TypeOK, SlotIsTail, LoadedByteCurrent, Write, IsEmpty, readerVars
  <2>4. FreedSlotSafe'
    BY <1>1 DEF RingInv, TypeOK, SlotIsTail, FreedSlotSafe, Write, IsFull, readerVars, Slot, Succ
  <2> QED BY <2>1, <2>2, <2>3, <2>4 DEF RingInv
<1>2. CASE WriteDropped
  BY <1>2 DEF WriteDropped, RingInv, TypeOK, SlotIsTail, LoadedByteCurrent,
              FreedSlotSafe, IsEmpty, IsFull, readerVars
<1>3. CASE ReadEmpty
  BY <1>3 DEF ReadEmpty, RingInv, TypeOK, SlotIsTail, LoadedByteCurrent,
              FreedSlotSafe, IsEmpty, IsFull
<1>4. CASE ReadBegin
  BY <1>4 DEF ReadBegin, RingInv, TypeOK, SlotIsTail, LoadedByteCurrent,
              FreedSlotSafe, IsEmpty, IsFull
<1>5. CASE Load
  BY <1>5 DEF Load, RingInv, TypeOK, SlotIsTail, LoadedByteCurrent,
              FreedSlotSafe, IsEmpty, IsFull
<1>6. CASE Advance
  BY <1>6 DEF Advance, RingInv, TypeOK, SlotIsTail, LoadedByteCurrent,
              FreedSlotSafe, IsEmpty, IsFull
<1>7. CASE AdvanceFirst
  <2>1. TypeOK' /\ SlotIsTail' /\ LoadedByteCurrent'
    BY <1>7 DEF AdvanceFirst, RingInv, TypeOK, SlotIsTail, LoadedByteCurrent, readerVars
  <2>2. FreedSlotSafe'
    BY <1>7 DEF AdvanceFirst, RingInv, TypeOK, SlotIsTail, FreedSlotSafe, IsFull, readerVars
  <2> QED BY <2>1, <2>2 DEF RingInv
<1>8. CASE LateLoad
  BY <1>8 DEF LateLoad, RingInv, TypeOK, SlotIsTail, LoadedByteCurrent,
              FreedSlotSafe, IsEmpty, IsFull
<1>9. CASE UNCHANGED vars
  BY <1>9 DEF vars, RingInv, TypeOK, SlotIsTail, LoadedByteCurrent,
              FreedSlotSafe, IsEmpty, IsFull
<1> QED
  BY <1>1, <1>2, <1>3, <1>4, <1>5, <1>6, <1>7, <1>8, <1>9 DEF Next, Interrupt, Reader

\* In every reachable state the byte the super-loop has loaded, or is about
\* to load late, is the one it was sent (circular_buffer.cpp:24-35), whatever
\* the ring size and wherever the interrupt falls.
THEOREM RingCorrect == Spec => []RingInv
<1>1. Init => RingInv
  BY InitRingInv
<1>2. RingInv /\ [Next]_vars => RingInv'
  BY NextRingInv
<1> QED BY <1>1, <1>2, PTL DEF Spec

-----------------------------------------------------------------------------
\* Only the interrupt stores into the array, and then at head, which is no
\* unread slot.
LEMMA HeadNotUnread ==
  ASSUME RingInv, ~IsFull, NEW s \in Slot, Unread(s)
  PROVE  s # head
<1> USE SizeAssumption DEF RingInv, TypeOK, Slot
<1>1. CASE \E k \in 0 .. Available - 1 : s = Plus(tail, k)
  BY <1>1 DEF Available, Plus
<1>2. CASE pc = "lateLoad" /\ s = slot
  BY <1>2 DEF FreedSlotSafe
<1> QED BY <1>1, <1>2 DEF Unread

LEMMA StepKeepsUnread ==
  ASSUME RingInv, [Next]_vars
  PROVE  \A s \in Slot : Unread(s) => buffer'[s] = buffer[s]
<1> SUFFICES ASSUME NEW s \in Slot, Unread(s) PROVE buffer'[s] = buffer[s]
  OBVIOUS
<1>1. ASSUME NEW b \in Byte, Write(b) PROVE buffer'[s] = buffer[s]
  BY <1>1, HeadNotUnread DEF Write, RingInv, TypeOK
<1>2. CASE ~ \E b \in Byte : Write(b)
  BY <1>2 DEF Next, Interrupt, Reader, WriteDropped, ReadEmpty, ReadBegin, Load,
              Advance, AdvanceFirst, LateLoad, vars
<1> QED BY <1>1, <1>2

\* No interrupt overwrites an accepted byte before the super-loop has read it
\* (circular_buffer.cpp:12-20).
THEOREM UnreadKept == Spec => NoUnreadOverwritten
<1>1. RingInv /\ [Next]_vars => [\A s \in Slot : Unread(s) => buffer'[s] = buffer[s]]_vars
  BY StepKeepsUnread
<1> QED BY <1>1, RingCorrect, PTL DEF Spec, NoUnreadOverwritten

-----------------------------------------------------------------------------
\* The unread bytes form a sequence of Available bytes, oldest at tail.
LEMMA ContentsSeq ==
  ASSUME RingInv
  PROVE  /\ Available \in 0 .. BUFFER_SIZE - 1
         /\ \A k \in 0 .. BUFFER_SIZE - 1 : Plus(tail, k) \in Slot
         /\ Contents \in Seq(Byte)
         /\ Len(Contents) = Available
<1> USE SizeAssumption DEF RingInv, TypeOK, Slot
<1>1. Available \in 0 .. BUFFER_SIZE - 1
  BY DEF Available
<1>2. \A k \in 0 .. BUFFER_SIZE - 1 : Plus(tail, k) \in Slot
  BY DEF Plus
<1>3. \A k \in 1 .. Available : buffer[Plus(tail, k - 1)] \in Byte
  BY <1>1, <1>2
<1> QED BY <1>1, <1>2, <1>3 DEF Contents

LEMMA ContentsEmpty ==
  ASSUME RingInv
  PROVE  /\ IsEmpty <=> Available = 0
         /\ IsEmpty <=> Contents = << >>
         /\ IsFull <=> Available = BUFFER_SIZE - 1
<1> USE SizeAssumption DEF RingInv, TypeOK, Slot
<1>1. IsEmpty <=> Available = 0
  BY DEF IsEmpty, Available
<1>2. IsFull <=> Available = BUFFER_SIZE - 1
  BY DEF IsFull, Available, Succ
<1>3. Contents = << >> <=> Len(Contents) = 0
  BY ContentsSeq
<1> QED BY <1>1, <1>2, <1>3, ContentsSeq

LEMMA WriteAppends ==
  ASSUME RingInv, NEW b \in Byte, Write(b)
  PROVE  Contents' = Append(Contents, b)
<1> USE SizeAssumption
<1>1. Available' = Available + 1
  BY DEF RingInv, TypeOK, Write, Available, IsFull, Succ, Slot
<1>2. Plus(tail, Available) = head /\ tail' = tail
  BY DEF RingInv, TypeOK, Write, Available, Plus, Slot
<1>3. ASSUME NEW k \in 1 .. Available
      PROVE  buffer'[Plus(tail, k - 1)] = buffer[Plus(tail, k - 1)]
  <2>1. Plus(tail, k - 1) \in Slot /\ Unread(Plus(tail, k - 1))
    BY ContentsSeq DEF Unread
  <2> QED BY <2>1, StepKeepsUnread DEF Next, Interrupt
<1>4. buffer'[head] = b
  BY DEF RingInv, TypeOK, Write
<1>5. Append(Contents, b) = [k \in 1 .. Available + 1 |->
                               IF k = Available + 1 THEN b ELSE Contents[k]]
  <2>1. Append(Contents, b) \in Seq(Byte) /\ Len(Append(Contents, b)) = Available + 1
    BY ContentsSeq
  <2>2. Append(Contents, b) \in [1 .. Available + 1 -> Byte]
    BY <2>1, LenProperties
  <2>3. \A k \in 1 .. Available + 1 :
          Append(Contents, b)[k] = IF k = Available + 1 THEN b ELSE Contents[k]
    BY ContentsSeq
  <2> QED BY <2>2, <2>3
<1>6. \A k \in 1 .. Available + 1 :
        buffer'[Plus(tail, k - 1)] = IF k = Available + 1 THEN b ELSE Contents[k]
  BY <1>2, <1>3, <1>4, ContentsSeq DEF Contents
<1> QED BY <1>1, <1>2, <1>5, <1>6 DEF Contents, Plus

LEMMA AdvancePops ==
  ASSUME RingInv, ~IsEmpty, tail' = Succ(tail), UNCHANGED <<buffer, head>>
  PROVE  /\ Contents' = Tail(Contents)
         /\ Contents # << >>
         /\ Head(Contents) = buffer[tail]
<1> USE SizeAssumption
<1>1. Available' = Available - 1 /\ Available > 0
  BY DEF RingInv, TypeOK, Available, IsEmpty, Succ, Slot
<1>2. \A k \in 1 .. Available - 1 : Plus(tail', k - 1) = Plus(tail, k)
  BY ContentsSeq DEF RingInv, TypeOK, Plus, Succ, Slot
<1>3. Plus(tail, 0) = tail
  BY DEF RingInv, TypeOK, Plus, Slot
<1>4. Contents # << >> /\ Head(Contents) = buffer[tail]
  BY <1>1, <1>3, ContentsSeq DEF Contents
<1>5. Tail(Contents) = [k \in 1 .. Available - 1 |-> Contents[k + 1]]
  <2>1. /\ Tail(Contents) \in Seq(Byte)
        /\ Len(Tail(Contents)) = Available - 1
        /\ \A k \in 1 .. Available - 1 : Tail(Contents)[k] = Contents[k + 1]
    BY <1>4, ContentsSeq, HeadTailProperties
  <2>2. Tail(Contents) \in [1 .. Available - 1 -> Byte]
    BY <2>1, LenProperties
  <2> QED BY <2>1, <2>2
<1>6. \A k \in 1 .. Available - 1 : Contents[k + 1] = buffer[Plus(tail, k)]
  BY <1>1, ContentsSeq DEF Contents
<1>7. Contents' = [k \in 1 .. Available - 1 |-> buffer[Plus(tail, k)]]
  BY <1>1, <1>2 DEF Contents
<1> QED BY <1>4, <1>5, <1>6, <1>7

LEMMA StepRefines == RingInv /\ [Next]_vars => [Fifo!Next]_(Fifo!vars)
<1> SUFFICES ASSUME RingInv, [Next]_vars PROVE [Fifo!Next]_(Fifo!vars)
  OBVIOUS
<1> USE DEF Fifo!vars
<1>1. ASSUME NEW b \in Byte, Write(b) PROVE Fifo!Put(b)
  <2>1. Len(Contents) < BUFFER_SIZE - 1
    BY <1>1, ContentsSeq, ContentsEmpty, SizeAssumption DEF Write
  <2>2. pc = "lateLoad" => buffer'[slot] = buffer[slot]
    BY <1>1, HeadNotUnread DEF Write, Unread, RingInv, TypeOK
  <2> QED BY <1>1, <2>1, <2>2, WriteAppends DEF Write, Fifo!Put, readerVars
<1>2. ASSUME WriteDropped PROVE Fifo!Refuse
  BY <1>2, ContentsSeq, ContentsEmpty
  DEF WriteDropped, Fifo!Refuse, readerVars, Contents, Available
<1>3. ASSUME ReadEmpty PROVE Fifo!GetNothing
  BY <1>3, ContentsEmpty DEF ReadEmpty, Fifo!GetNothing, Contents, Available
<1>4. ASSUME ReadBegin PROVE UNCHANGED Fifo!vars
  BY <1>4 DEF ReadBegin, Contents, Available
<1>5. ASSUME Load PROVE UNCHANGED Fifo!vars
  BY <1>5 DEF Load, Contents, Available
<1>6. ASSUME Advance PROVE Fifo!Get
  BY <1>6, AdvancePops DEF Advance, Fifo!Get, RingInv, SlotIsTail, LoadedByteCurrent
<1>7. ASSUME AdvanceFirst PROVE Fifo!Get
  BY <1>7, AdvancePops DEF AdvanceFirst, Fifo!Get, RingInv, SlotIsTail, readerVars
<1>8. ASSUME LateLoad PROVE UNCHANGED Fifo!vars
  BY <1>8 DEF LateLoad, Contents, Available
<1>9. ASSUME UNCHANGED vars PROVE UNCHANGED Fifo!vars
  BY <1>9 DEF vars, Contents, Available
<1> QED
  BY <1>1, <1>2, <1>3, <1>4, <1>5, <1>6, <1>7, <1>8, <1>9
  DEF Next, Interrupt, Reader, Fifo!Next

\* The ring is a lossless first-in first-out queue of BUFFER_SIZE - 1 bytes
\* for every interleaving of the interrupt with the reader's memory accesses
\* and for both orders of its last two (circular_buffer.cpp:9-35).
THEOREM RingImplementsFifo == Spec => ImplementsFifo
<1>1. Init => Fifo!Init
  <2> SUFFICES ASSUME Init PROVE Fifo!Init
    OBVIOUS
  <2>1. RingInv
    BY InitRingInv
  <2>2. Contents = << >>
    BY <2>1, ContentsEmpty DEF Init, IsEmpty
  <2> QED BY <2>2 DEF Init, Fifo!Init
<1>2. RingInv /\ [Next]_vars => [Fifo!Next]_(Fifo!vars)
  BY StepRefines
<1> QED BY <1>1, <1>2, RingCorrect, PTL DEF Spec, Fifo!Spec, ImplementsFifo
=============================================================================
