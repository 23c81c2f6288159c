---------------------------- MODULE PacketParser ----------------------------
(***************************************************************************)
(* packet_parser.cpp: the byte-at-a-time parser of "@DRV,a,b,c*XX\n".      *)
(* A byte is its ASCII code.  The parser is a record; ProcessByte(p, c) is *)
(* the parser after packet_parser_process_byte(&p, c), whose return value  *)
(* it keeps in the field status.                                           *)
(*                                                                         *)
(* payload and checksum hold the bytes of the two C buffers below their    *)
(* indices.  In WAIT_FOR_START what is left of a finished frame is dead    *)
(* (the next '@' clears it), so the model drops it.                        *)
(***************************************************************************)
EXTENDS Integers, Sequences, FiniteSets, SequencesExt

CONSTANTS MAX_PACKET_LENGTH,   \* size of payload_buffer, terminator included
          MAX_ROBOTIC_JOINTS,  \* angles of one command
          MAX_ANGLE,           \* upper end of the clamp
          MIDPOINT             \* angles of a freshly initialised parser

ASSUME LengthAssumption == MAX_PACKET_LENGTH \in Nat /\ MAX_PACKET_LENGTH >= 1
ASSUME JointsAssumption == MAX_ROBOTIC_JOINTS \in Nat
ASSUME AngleAssumption == MAX_ANGLE \in Nat /\ MIDPOINT \in 0 .. MAX_ANGLE

At == 64
Star == 42
Newline == 10
Comma == 44
Minus == 45
Plus == 43
DRV == <<68, 82, 86>>

Joint == 1 .. MAX_ROBOTIC_JOINTS
Byte == 0 .. 255
ErrorStatus == {"ERROR_FORMAT", "ERROR_CHECKSUM"}
Status == {"IN_PROGRESS", "SUCCESS"} \cup ErrorStatus
FSMState == {"WAIT_FOR_START", "ACCUMULATE_PAYLOAD", "WAIT_FOR_CHECKSUM", "WAIT_FOR_NEWLINE"}

Parser(state, payload, checksum, angles, status) ==
  [state |-> state, payload |-> payload, checksum |-> checksum,
   angles |-> angles, status |-> status]

\* packet_parser_init
Initial == Parser("WAIT_FOR_START", << >>, << >>, [j \in Joint |-> MIDPOINT], "IN_PROGRESS")

-----------------------------------------------------------------------------
\* A byte is the set of its one bits.  XOR over bytes has the bits that an odd
\* number of them have.
Weight == <<1, 2, 4, 8, 16, 32, 64, 128>>
Bits(n) == {b \in 0 .. 7 : (n \div Weight[b + 1]) % 2 = 1}
Having(b, s) == {i \in 1 .. Len(s) : b \in Bits(s[i])}

Checksum(payload) == {b \in 0 .. 7 : Cardinality(Having(b, payload)) % 2 = 1}

IsDigit(c) == c \in 48 .. 57
IsHex(c) == IsDigit(c) \/ c \in 65 .. 70 \/ c \in 97 .. 102

\* hex_char_to_nibble
Nibble(c) == CASE IsDigit(c)     -> c - 48
               [] c \in 65 .. 70  -> c - 55
               [] c \in 97 .. 102 -> c - 87
               [] OTHER           -> 255

ChecksumReadable(p) == IsHex(p.checksum[1]) /\ IsHex(p.checksum[2])

\* BUG: only the low digit is compared.
ChecksumLowMatches(p) ==
  Checksum(p.payload) \cap 0 .. 3 = Bits(Nibble(p.checksum[2])) \cap 0 .. 3

ChecksumMatches(p) ==
  Checksum(p.payload) = Bits(16 * Nibble(p.checksum[1]) + Nibble(p.checksum[2]))

-----------------------------------------------------------------------------
\* The bytes of s before the first one that satisfies stop.
Until(s, stop(_)) == LET ends == {j \in 1 .. Len(s) : stop(s[j])}
                     IN SubSeq(s, 1, IF ends = {} THEN Len(s) ELSE Min(ends) - 1)

\* The C string in payload_buffer ends at a zero byte, which the checksum
\* neither sees nor notices.
CString(s) == Until(s, LAMBDA c : c = 0)

\* strtok(s, ","): the maximal runs of other bytes, in order.
TokenStarts(s) == {i \in 1 .. Len(s) : s[i] # Comma /\ (i = 1 \/ s[i - 1] = Comma)}
Tokens(s) ==
  LET starts == TokenStarts(s)
      Start(k) == CHOOSE i \in starts : Cardinality({j \in starts : j < i}) = k - 1
  IN [k \in 1 .. Cardinality(starts) |-> Until(SubSeq(s, Start(k), Len(s)),
                                              LAMBDA c : c = Comma)]

\* int is 16 bits wide on the target.
Int16(n) == LET m == n % 65536 IN IF m < 32768 THEN m ELSE m - 65536

\* atoi: white space is skipped, then an optional sign, then the leading digits.
IsSpace(c) == c = 32 \/ c \in 9 .. 13
Unspaced(s) == SubSeq(s, Len(Until(s, LAMBDA c : ~IsSpace(c))) + 1, Len(s))
Magnitude(s) == FoldLeft(LAMBDA acc, c : 10 * acc + (c - 48), 0, s)
Digits(s) == Until(s, LAMBDA c : ~IsDigit(c))
Atoi(s) ==
  LET t == Unspaced(s)
      signed == t # << >> /\ t[1] \in {Minus, Plus}
      magnitude == Magnitude(Digits(IF signed THEN Tail(t) ELSE t))
  IN Int16(IF signed /\ t[1] = Minus THEN 0 - magnitude ELSE magnitude)

Clamp(a) == IF a < 0 THEN 0 ELSE IF a > MAX_ANGLE THEN MAX_ANGLE ELSE a

\* extract_and_clamp_angles: a payload that runs out of tokens has already
\* replaced the angles of the joints it did name.
IsCommand(tokens) == tokens # << >> /\ tokens[1] = DRV
Complete(tokens) == Len(tokens) > MAX_ROBOTIC_JOINTS
Extracted(angles, tokens) ==
  IF ~IsCommand(tokens) THEN angles
  ELSE [j \in Joint |-> IF j < Len(tokens) THEN Clamp(Atoi(tokens[j + 1])) ELSE angles[j]]

-----------------------------------------------------------------------------
\* Back to hunting for '@', with the result of the byte that ended the frame.
Finish(p, status) == Parser("WAIT_FOR_START", << >>, << >>, p.angles, status)

\* '@' seen: both buffers are empty.
StartFrame(p, status) == Parser("ACCUMULATE_PAYLOAD", << >>, << >>, p.angles, status)

WaitForStart(p, c) == IF c = At THEN StartFrame(p, "IN_PROGRESS")
                                ELSE Finish(p, "IN_PROGRESS")

\* BUG: the terminator's place is not reserved.
HasRoomOffByOne(p) == Len(p.payload) < MAX_PACKET_LENGTH

HasRoom(p) == Len(p.payload) < MAX_PACKET_LENGTH - 1

\* BUG: an '@' inside a frame is not taken as the start of the next one.
BreakOffNoRestart(p, c) == Finish(p, "ERROR_FORMAT")

\* A frame broken off by '\n', or by the '@' of the next one.
BreakOff(p, c) == IF c = At THEN StartFrame(p, "ERROR_FORMAT")
                            ELSE Finish(p, "ERROR_FORMAT")

Accumulate(p, c) ==
  CASE c = Star -> Parser("WAIT_FOR_CHECKSUM", p.payload, << >>, p.angles, "IN_PROGRESS")
    [] c \in {Newline, At} -> BreakOff(p, c)
    [] OTHER -> IF HasRoom(p)
                  THEN Parser("ACCUMULATE_PAYLOAD", Append(p.payload, c), << >>,
                              p.angles, "IN_PROGRESS")
                  ELSE Finish(p, "ERROR_FORMAT")

\* Any two bytes are taken, '@' and '\n' included.
WaitForChecksum(p, c) ==
  Parser(IF Len(p.checksum) + 1 >= 2 THEN "WAIT_FOR_NEWLINE" ELSE "WAIT_FOR_CHECKSUM",
         p.payload, Append(p.checksum, c), p.angles, "IN_PROGRESS")

\* The frame is complete: checksum first, then the arguments.
Verdict(p) ==
  LET tokens == Tokens(CString(p.payload))
  IN IF ~ChecksumReadable(p) \/ ~ChecksumMatches(p) THEN Finish(p, "ERROR_CHECKSUM")
     ELSE Parser("WAIT_FOR_START", << >>, << >>, Extracted(p.angles, tokens),
                 IF IsCommand(tokens) /\ Complete(tokens) THEN "SUCCESS" ELSE "ERROR_FORMAT")

\* BUG: a byte in place of '\n' is reported, but the state is not reset.
WaitForNewlineStuck(p, c) ==
  IF c = Newline THEN Verdict(p) ELSE [p EXCEPT !.status = "ERROR_FORMAT"]

WaitForNewline(p, c) == IF c = Newline THEN Verdict(p) ELSE Finish(p, "ERROR_FORMAT")

ProcessByte(p, c) == CASE p.state = "WAIT_FOR_START"     -> WaitForStart(p, c)
                       [] p.state = "ACCUMULATE_PAYLOAD" -> Accumulate(p, c)
                       [] p.state = "WAIT_FOR_CHECKSUM"  -> WaitForChecksum(p, c)
                       [] p.state = "WAIT_FOR_NEWLINE"   -> WaitForNewline(p, c)

\* The two C buffers are never written past their ends: payload_buffer keeps
\* room for the terminator and checksum_buffer takes two bytes.
BuffersOK(p) == /\ p.state \in FSMState
                /\ p.status \in Status
                /\ p.payload \in Seq(Byte) /\ Len(p.payload) <= MAX_PACKET_LENGTH - 1
                /\ p.checksum \in Seq(Byte)
                /\ p.state = "WAIT_FOR_CHECKSUM" => Len(p.checksum) < 2
                /\ p.state = "WAIT_FOR_NEWLINE" => Len(p.checksum) = 2
=============================================================================
