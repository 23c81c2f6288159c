------------------------------ MODULE ByteFifo ------------------------------
(***************************************************************************)
(* What circular_buffer.h promises: a bounded first-in first-out queue of  *)
(* bytes between one writer (the UART receive interrupt) and one reader    *)
(* (the super-loop).  A write is refused exactly when Capacity bytes are   *)
(* unread, a read exactly when none is, and neither has any other effect.  *)
(***************************************************************************)
EXTENDS Naturals, Sequences

CONSTANTS Byte,      \* the values of one received character
          Capacity   \* unread bytes the queue can hold

VARIABLES queue,     \* bytes accepted and not yet read, oldest first
          data,      \* the byte the last successful read returned
          wrote,     \* return value of the last write
          got        \* return value of the last read

vars == <<queue, data, wrote, got>>

Init == /\ queue = << >>
        /\ data \in Byte
        /\ wrote = TRUE
        /\ got = FALSE

Put(b) == /\ Len(queue) < Capacity
          /\ queue' = Append(queue, b)
          /\ wrote' = TRUE
          /\ UNCHANGED <<data, got>>

Refuse == /\ Len(queue) = Capacity
          /\ wrote' = FALSE
          /\ UNCHANGED <<queue, data, got>>

Get == /\ queue # << >>
       /\ data' = Head(queue)
       /\ queue' = Tail(queue)
       /\ got' = TRUE
       /\ UNCHANGED wrote

GetNothing == /\ queue = << >>
              /\ got' = FALSE
              /\ UNCHANGED <<queue, data, wrote>>

Next == \/ \E b \in Byte : Put(b)
        \/ Refuse
        \/ Get
        \/ GetNothing

Spec == Init /\ [][Next]_vars
=============================================================================
