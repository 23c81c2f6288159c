----------------------------- MODULE PacketLink -----------------------------
(***************************************************************************)
(* The conductor host, or the edge orchestrator in its place, sending      *)
(* frames over the serial line to the parser.                              *)
(* The line may drop a byte (the receive ring drops one silently when it   *)
(* is full), change one or insert one.  This is where the framing has to   *)
(* earn its keep: the XOR checksum, the restart at '@' and the length      *)
(* guard together decide what a damaged frame can do to the next ones.     *)
(***************************************************************************)
EXTENDS PacketParser

CONSTANTS Command,     \* angle tuples the host sends
          LineByte,    \* bytes the line can produce by itself
          MaxFaults    \* bound: line faults per frame

VARIABLES sender,      \* rigid: the program at the port
          parser,      \* g_parser, with the status of its last byte
          angles,      \* the command on the line
          previous,    \* the command before it
          wire,        \* bytes of its frame not yet received
          faults,      \* line faults since its first byte
          clean,       \* its predecessor, if any, had no fault
          ready,       \* the parser was looking for a start or a payload
          zeroed,      \* a zero byte was received since its first byte
          answers      \* statuses that ended a frame since its first byte

vars == <<sender, parser, angles, previous, wire, faults, clean, ready, zeroed, answers>>

-----------------------------------------------------------------------------
\* Decimal and two-digit upper-case hexadecimal text of a number below 1000
\* and of a set of bits.
Decimal(n) == LET digits == <<48 + (n \div 100), 48 + ((n \div 10) % 10), 48 + (n % 10)>>
              IN SubSeq(digits, IF n > 99 THEN 1 ELSE IF n > 9 THEN 2 ELSE 3, 3)
HexDigit(B) == CHOOSE c \in 48 .. 57 \cup 65 .. 70 : Bits(Nibble(c)) = B
Hex(B) == <<HexDigit({i \in 0 .. 3 : i + 4 \in B}), HexDigit(B \cap 0 .. 3)>>

Sender == {"conductor", "orchestrator"}

\* What the checksum runs over: build_option_a_frame includes the '@'.
Covered(s, payload) == IF s = "conductor" THEN payload ELSE <<At>> \o payload

Payload(a) == DRV \o FlattenSeq([j \in Joint |-> <<Comma>> \o Decimal(a[j])])
CheckDigits(s, a) == Hex(Checksum(Covered(s, Payload(a))))

\* The envelope of ConductorHost._transmit_and_wait and build_option_a_frame.
Frame(s, a) == <<At>> \o Payload(a) \o <<Star>> \o CheckDigits(s, a) \o <<Newline>>

\* The angles the firmware should take from a command.
Meant(a) == [j \in Joint |-> IF a[j] > MAX_ANGLE THEN MAX_ANGLE ELSE a[j]]

\* A command's text fits the parser's buffer and is free of the bytes that
\* structure a frame and of zeros; the 'D' of "DRV" stands at its head only.
ASSUME CommandAssumption ==
  \A a \in Command : /\ Payload(a) \in Seq(Byte \ {0, At, Star, Newline})
                     /\ \A i \in 2 .. Len(Payload(a)) : Payload(a)[i] # DRV[1]
                     /\ Len(Payload(a)) < MAX_PACKET_LENGTH
                     /\ \A s \in Sender : CheckDigits(s, a) \in Seq(Byte \ {At})

\* Decimal and Hex say what they are given, Tokens and Atoi take it back, and
\* the '@' makes a difference to the checksum.
ASSUME TextAssumption ==
  \A a \in Command :
    LET tokens == Tokens(CString(Payload(a)))
        value(s) == Bits(16 * Nibble(CheckDigits(s, a)[1]) + Nibble(CheckDigits(s, a)[2]))
    IN /\ \A s \in Sender : /\ IsHex(CheckDigits(s, a)[1]) /\ IsHex(CheckDigits(s, a)[2])
                            /\ value(s) = Checksum(Covered(s, Payload(a)))
       /\ Checksum(<<At>> \o Payload(a)) # Checksum(Payload(a))
       /\ IsCommand(tokens) /\ Len(tokens) = MAX_ROBOTIC_JOINTS + 1
       /\ \A j \in Joint : Clamp(Atoi(tokens[j + 1])) = Meant(a)[j]
ASSUME LineAssumption == LineByte \subseteq Byte
ASSUME FaultsAssumption == MaxFaults \in Nat

-----------------------------------------------------------------------------
Init == /\ sender \in Sender
        /\ parser = Initial
        /\ angles \in Command
        /\ previous = angles
        /\ wire = Frame(sender, angles)
        /\ faults = 0 /\ clean = TRUE /\ ready = TRUE /\ zeroed = FALSE
        /\ answers = << >>

\* The super-loop feeds one received byte and answers 'K' or 'E' when the
\* parser finishes a frame.
Receive(c) == LET q == ProcessByte(parser, c)
              IN /\ parser' = q
                 /\ zeroed' = (zeroed \/ c = 0)
                 /\ answers' = IF q.status = "IN_PROGRESS" THEN answers
                                                           ELSE Append(answers, q.status)

Deliver == /\ wire # << >>
           /\ Receive(Head(wire))
           /\ wire' = Tail(wire)
           /\ UNCHANGED <<sender, angles, previous, faults, clean, ready>>

\* The next frame is sent.
Send(a) == /\ wire = << >>
           /\ angles' = a
           /\ previous' = angles
           /\ wire' = Frame(sender, a)
           /\ clean' = (faults = 0)
           /\ ready' = (parser.state \in {"WAIT_FOR_START", "ACCUMULATE_PAYLOAD"})
           /\ faults' = 0 /\ zeroed' = FALSE
           /\ answers' = << >>
           /\ parser' = [parser EXCEPT !.status = "IN_PROGRESS"]
           /\ UNCHANGED sender

Fault == /\ faults < MaxFaults
         /\ faults' = faults + 1
         /\ UNCHANGED <<sender, angles, previous, clean, ready>>

Drop == /\ Fault
        /\ wire # << >>
        /\ wire' = Tail(wire)
        /\ UNCHANGED <<parser, zeroed, answers>>

Change(c) == /\ Fault
             /\ wire # << >>
             /\ c # Head(wire)
             /\ Receive(c)
             /\ wire' = Tail(wire)

Insert(c) == /\ Fault
             /\ Receive(c)
             /\ UNCHANGED wire

Next == \/ Deliver
        \/ Drop
        \/ \E a \in Command : Send(a)
        \/ \E c \in LineByte : Change(c) \/ Insert(c)

Spec == Init /\ [][Next]_vars

-----------------------------------------------------------------------------
\* Neither C buffer of the parser is ever written past its end, whatever the
\* line delivers.
BuffersInBounds == BuffersOK(parser)

\* A damaged frame costs at most itself and its successor.  A frame that
\* arrives whole is accepted with the conductor's angles unless the damage
\* before it left the parser inside a checksum, which swallows the '@'; and
\* after another whole frame it is answered exactly once.  The orchestrator's
\* frames are never accepted: the parser leaves the '@' out of the checksum.
Resynchronises == (faults = 0 /\ wire = << >>) =>
  LET expected == IF sender = "conductor" THEN "SUCCESS" ELSE "ERROR_CHECKSUM"
  IN /\ clean => ready /\ answers = <<expected>>
     /\ ready => Last(answers) = expected
     /\ ready /\ expected = "SUCCESS" => parser.angles = Meant(angles)

\* One dropped, changed or inserted byte never makes the parser accept
\* angles the conductor did not send, unless it is an inserted zero, which
\* XOR cannot see and which ends the C string early.  (A frame that lost its
\* '\n' can still be completed, late, by a stray one in the next.)  It does
\* not hold of the orchestrator: the '@' in its checksum is one flipped bit,
\* so that the same bit flipped in the payload makes the frame acceptable.
NotMisread == (sender = "conductor" /\ parser.status = "SUCCESS" /\ ~zeroed) =>
                  parser.angles \in {Meant(angles), Meant(previous)}

\* The host reads one answer per frame.  Its predecessor's damage adds at
\* most one ('E' at this frame's '@', then the verdict), each byte of its own
\* damage at most one more: the surplus a host that counts frames by answers
\* falls behind by.
AnswersBounded == Len(answers) <= 2 + faults
=============================================================================
