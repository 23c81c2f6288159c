-------------------------- MODULE PacketLinkProofs --------------------------
(***************************************************************************)
(* Whatever bytes arrive, in whatever order and number, the parser stays   *)
(* inside its two buffers and answers little more than once per frame, and *)
(* a damaged frame costs at most itself and its successor, for every       *)
(* buffer length, number of joints, command set and fault budget; and one  *)
(* fault in a frame never makes it read as a command nobody sent.          *)
(***************************************************************************)
EXTENDS PacketLink, SequenceTheorems, FiniteSetTheorems, WellFoundedInduction, TLAPS

LEMMA InitialOK == BuffersOK(Initial)
BY LengthAssumption DEF Initial, Parser, BuffersOK, FSMState, Status

LEMMA FinishOK ==
  ASSUME NEW p, NEW s \in Status
  PROVE  BuffersOK(Finish(p, s))
BY LengthAssumption DEF BuffersOK, Parser, Finish, FSMState

LEMMA StartFrameOK ==
  ASSUME NEW p, NEW s \in Status
  PROVE  BuffersOK(StartFrame(p, s))
BY LengthAssumption DEF BuffersOK, Parser, StartFrame, FSMState

LEMMA AccumulateOK ==
  ASSUME NEW p, BuffersOK(p), NEW c \in Byte
  PROVE  BuffersOK(Accumulate(p, c))
<1>1. CASE c = Star
  <2>1. Accumulate(p, c) =
          Parser("WAIT_FOR_CHECKSUM", p.payload, << >>, p.angles, "IN_PROGRESS")
    BY <1>1 DEF Accumulate, Star, Newline, At
  <2> QED BY <2>1 DEF BuffersOK, Parser, FSMState, Status
<1>2. CASE c \in {Newline, At}
  BY <1>2, FinishOK, StartFrameOK
  DEF Accumulate, BreakOff, Status, ErrorStatus, Star, Newline, At
<1>3. CASE c \notin {Star, Newline, At} /\ HasRoom(p)
  <2>1. Append(p.payload, c) \in Seq(Byte) /\ Len(Append(p.payload, c)) = Len(p.payload) + 1
    BY DEF BuffersOK
  <2>2. Len(p.payload) + 1 <= MAX_PACKET_LENGTH - 1
    BY <1>3, LengthAssumption DEF HasRoom, BuffersOK
  <2>3. Accumulate(p, c) = Parser("ACCUMULATE_PAYLOAD", Append(p.payload, c), << >>,
                                  p.angles, "IN_PROGRESS")
    BY <1>3 DEF Accumulate
  <2> QED BY <2>1, <2>2, <2>3 DEF BuffersOK, Parser, FSMState, Status
<1>4. CASE c \notin {Star, Newline, At} /\ ~HasRoom(p)
  BY <1>4, FinishOK DEF Accumulate, Status, ErrorStatus
<1> QED BY <1>1, <1>2, <1>3, <1>4

LEMMA WaitForChecksumOK ==
  ASSUME NEW p, BuffersOK(p), NEW c \in Byte, p.state = "WAIT_FOR_CHECKSUM"
  PROVE  BuffersOK(WaitForChecksum(p, c))
BY DEF WaitForChecksum, BuffersOK, Parser, FSMState, Status

LEMMA VerdictOK ==
  ASSUME NEW p
  PROVE  BuffersOK(Verdict(p))
<1>1. CASE ~ChecksumReadable(p) \/ ~ChecksumMatches(p)
  BY <1>1, FinishOK DEF Verdict, Status, ErrorStatus
<1>2. CASE ~(~ChecksumReadable(p) \/ ~ChecksumMatches(p))
  BY <1>2, LengthAssumption
  DEF Verdict, BuffersOK, Parser, FSMState, Status, ErrorStatus
<1> QED BY <1>1, <1>2

\* packet_parser_process_byte keeps both C buffers in bounds, whatever byte
\* arrives in whatever state (packet_parser.cpp:49-133).
THEOREM ProcessByteSafe ==
  ASSUME NEW p, BuffersOK(p), NEW c \in Byte
  PROVE  BuffersOK(ProcessByte(p, c))
<1>1. CASE p.state = "WAIT_FOR_START"
  BY <1>1, FinishOK, StartFrameOK DEF ProcessByte, WaitForStart, Status
<1>2. CASE p.state = "ACCUMULATE_PAYLOAD"
  BY <1>2, AccumulateOK DEF ProcessByte
<1>3. CASE p.state = "WAIT_FOR_CHECKSUM"
  BY <1>3, WaitForChecksumOK DEF ProcessByte
<1>4. CASE p.state = "WAIT_FOR_NEWLINE"
  BY <1>4, VerdictOK, FinishOK DEF ProcessByte, WaitForNewline, Status, ErrorStatus
<1> QED BY <1>1, <1>2, <1>3, <1>4 DEF BuffersOK, FSMState

-----------------------------------------------------------------------------
\* What stands where in a frame: '@', the payload, '*', two digits, '\n'.
LEMMA FrameText ==
  ASSUME NEW s \in Sender, NEW a \in Command
  PROVE  LET F == Frame(s, a)
             P == Payload(a)
             C == CheckDigits(s, a)
         IN /\ F \in Seq(Byte) /\ Len(P) \in Nat /\ Len(F) = Len(P) + 5
            /\ F[1] = At /\ F[Len(P) + 2] = Star /\ F[Len(P) + 5] = Newline
            /\ F[Len(P) + 3] = C[1] /\ F[Len(P) + 4] = C[2]
            /\ \A i \in 1 .. Len(P) : F[i + 1] = P[i] /\ P[i] \in Byte \ {At, Star, Newline}
            /\ C[1] # At /\ C[2] # At
<1> DEFINE P == Payload(a)
           C == CheckDigits(s, a)
           F1 == <<At>> \o P
           F2 == F1 \o <<Star>>
           F3 == F2 \o C
           F4 == F3 \o <<Newline>>
<1>1. P \in Seq(Byte \ {At, Star, Newline}) /\ C \in Seq(Byte \ {At})
  BY CommandAssumption
<1>2. Len(C) = 2 /\ DOMAIN C = {1, 2}
  BY DEF CheckDigits, Hex
<1> HIDE DEF P, C
<1>3. P \in Seq(Byte) /\ C \in Seq(Byte) /\ <<At>> \in Seq(Byte) /\ <<Star>> \in Seq(Byte)
      /\ <<Newline>> \in Seq(Byte) /\ Len(P) \in Nat
  BY <1>1 DEF Byte, At, Star, Newline
<1>4. /\ F1 \in Seq(Byte) /\ Len(F1) = Len(P) + 1
      /\ F1[1] = At /\ \A i \in 1 .. Len(P) : F1[i + 1] = P[i]
  BY <1>3, ConcatProperties
<1> HIDE DEF F1
<1>5. /\ F2 \in Seq(Byte) /\ Len(F2) = Len(P) + 2
      /\ \A i \in 1 .. Len(P) + 1 : F2[i] = F1[i]
      /\ F2[Len(P) + 2] = Star
  BY <1>3, <1>4, ConcatProperties
<1> HIDE DEF F2
<1>6. /\ F3 \in Seq(Byte) /\ Len(F3) = Len(P) + 4
      /\ \A i \in 1 .. Len(P) + 2 : F3[i] = F2[i]
      /\ F3[Len(P) + 3] = C[1] /\ F3[Len(P) + 4] = C[2]
  <2>1. F3 \in Seq(Byte) /\ Len(F3) = Len(F2) + Len(C)
        /\ \A i \in 1 .. Len(F2) + Len(C) : F3[i] = IF i <= Len(F2) THEN F2[i] ELSE C[i - Len(F2)]
    BY <1>3, <1>5, ConcatProperties
  <2>2. /\ Len(P) + 3 \in 1 .. Len(F2) + Len(C) /\ ~(Len(P) + 3 <= Len(F2))
        /\ (Len(P) + 3) - Len(F2) = 1
    BY <1>2, <1>3, <1>5
  <2>3. /\ Len(P) + 4 \in 1 .. Len(F2) + Len(C) /\ ~(Len(P) + 4 <= Len(F2))
        /\ (Len(P) + 4) - Len(F2) = 2
    BY <1>2, <1>3, <1>5
  <2>4. F3[Len(P) + 3] = C[1]
    BY <2>1, <2>2
  <2>5. F3[Len(P) + 4] = C[2]
    BY <2>1, <2>3
  <2>6. Len(F3) = Len(P) + 4
    BY <1>2, <1>3, <1>5, <2>1
  <2>7. \A i \in 1 .. Len(P) + 2 : F3[i] = F2[i]
    BY <1>2, <1>3, <1>5, <2>1
  <2> QED BY <2>1, <2>4, <2>5, <2>6, <2>7
<1> HIDE DEF F3
<1>7. /\ F4 \in Seq(Byte) /\ Len(F4) = Len(P) + 5
      /\ \A i \in 1 .. Len(P) + 4 : F4[i] = F3[i]
      /\ F4[Len(P) + 5] = Newline
  BY <1>3, <1>6, ConcatProperties
<1>8. F4 = Frame(s, a)
  BY DEF F1, F2, F3, F4, P, C, Frame
<1> HIDE DEF F4
<1>9. /\ F4[1] = At /\ F4[Len(P) + 2] = Star
      /\ F4[Len(P) + 3] = C[1] /\ F4[Len(P) + 4] = C[2]
  <2>1. /\ 1 \in 1 .. Len(P) + 1 /\ 1 \in 1 .. Len(P) + 2 /\ 1 \in 1 .. Len(P) + 4
        /\ Len(P) + 2 \in 1 .. Len(P) + 2
        /\ \A j \in {2, 3, 4} : Len(P) + j \in 1 .. Len(P) + 4
    BY <1>3
  <2>2. F4[1] = At
    BY <1>4, <1>5, <1>6, <1>7, <2>1
  <2>3. F4[Len(P) + 2] = Star
    BY <1>5, <1>6, <1>7, <2>1
  <2> QED BY <1>6, <1>7, <2>1, <2>2, <2>3
<1>10. ASSUME NEW i \in 1 .. Len(P) PROVE F4[i + 1] = P[i] /\ P[i] \in Byte \ {At, Star, Newline}
  <2>1. F4[i + 1] = P[i]
    <3>1. i + 1 \in 1 .. Len(P) + 1 /\ i + 1 \in 1 .. Len(P) + 2 /\ i + 1 \in 1 .. Len(P) + 4
      BY <1>3
    <3> QED BY <1>4, <1>5, <1>6, <1>7, <3>1
  <2> QED BY <1>1, <2>1
<1>11. C[1] # At /\ C[2] # At
  <2>1. 1 \in 1 .. Len(C) /\ 2 \in 1 .. Len(C)
    BY <1>2
  <2>2. C[1] \in Byte \ {At} /\ C[2] \in Byte \ {At}
    BY <1>1, <2>1
  <2> QED BY <2>2
<1> QED BY <1>3, <1>7, <1>8, <1>9, <1>10, <1>11 DEF P, C

LEMMA FrameBytes ==
  ASSUME NEW s \in Sender, NEW a \in Command
  PROVE  Frame(s, a) \in Seq(Byte)
BY FrameText

\* An '@' begins a frame and stands nowhere else in it.
LEMMA OneAt ==
  ASSUME NEW s \in Sender, NEW a \in Command
  PROVE  \A i \in 2 .. Len(Frame(s, a)) : Frame(s, a)[i] # At
<1> DEFINE n == Len(Payload(a))
           F == Frame(s, a)
<1>1. n \in Nat /\ Len(F) = n + 5
  BY FrameText
<1>2. ASSUME NEW i \in 2 .. Len(F) PROVE F[i] # At
  <2>1. i \in {n + 2, n + 3, n + 4, n + 5} \/ i - 1 \in 1 .. n
    BY <1>1
  <2>2. CASE i - 1 \in 1 .. n
    <3>1. \A j \in 1 .. n : F[j + 1] # At
      <4> SUFFICES ASSUME NEW j \in 1 .. n PROVE F[j + 1] # At
        OBVIOUS
      <4>1. F[j + 1] = Payload(a)[j] /\ Payload(a)[j] \in Byte \ {At, Star, Newline}
        BY FrameText, Zenon
      <4> QED BY <4>1
    <3>2. (i - 1) + 1 = i
      BY <1>1
    <3> QED BY <2>2, <3>1, <3>2
  <2>3. CASE i \in {n + 2, n + 3, n + 4, n + 5}
    BY <2>3, FrameText DEF Star, Newline, At
  <2> QED BY <2>1, <2>2, <2>3
<1> QED BY <1>2

-----------------------------------------------------------------------------
LinkInv == sender \in Sender /\ BuffersOK(parser) /\ wire \in Seq(Byte) /\ angles \in Command

LEMMA LinkInit == Init => LinkInv
BY InitialOK, FrameBytes DEF Init, LinkInv

LEMMA LinkStep == LinkInv /\ [Next]_vars => LinkInv'
<1> SUFFICES ASSUME LinkInv, [Next]_vars PROVE LinkInv'
  OBVIOUS
<1> USE DEF LinkInv
<1>1. ASSUME NEW c \in Byte, Receive(c) PROVE BuffersOK(parser)'
  BY <1>1, ProcessByteSafe DEF Receive
<1>2. CASE Deliver
  <2>1. Head(wire) \in Byte /\ Tail(wire) \in Seq(Byte)
    BY <1>2 DEF Deliver
  <2> QED BY <1>1, <1>2, <2>1 DEF Deliver
<1>3. CASE Drop
  BY <1>3 DEF Drop, Fault
<1>4. ASSUME NEW a \in Command, Send(a) PROVE LinkInv'
  <2>1. BuffersOK([parser EXCEPT !.status = "IN_PROGRESS"])
    BY DEF BuffersOK, Status
  <2> QED BY <1>4, <2>1, FrameBytes DEF Send
<1>5. ASSUME NEW c \in LineByte, Change(c) PROVE LinkInv'
  BY <1>1, <1>5, LineAssumption DEF Change, Fault
<1>6. ASSUME NEW c \in LineByte, Insert(c) PROVE LinkInv'
  BY <1>1, <1>6, LineAssumption DEF Insert, Fault
<1>7. CASE UNCHANGED vars
  BY <1>7 DEF vars
<1> QED BY <1>2, <1>3, <1>4, <1>5, <1>6, <1>7 DEF Next

\* On the line of PacketLink, for both senders, any commands and any number of faults.
THEOREM BuffersSafe == Spec => []BuffersInBounds
<1>1. LinkInv => BuffersInBounds
  BY DEF LinkInv, BuffersInBounds
<1> QED BY <1>1, LinkInit, LinkStep, PTL DEF Spec

-----------------------------------------------------------------------------
(***************************************************************************)
(* Answers.  A frame has to be begun before it can be answered, and only   *)
(* an '@' begins one: the sender's own, which comes first, or a fault's.   *)
(***************************************************************************)
Busy(p) == IF p.state = "WAIT_FOR_START" THEN 0 ELSE 1
Answers(p) == IF p.status = "IN_PROGRESS" THEN 0 ELSE 1
Begins(c) == IF c = At THEN 1 ELSE 0

LEMMA ByteCost ==
  ASSUME NEW p, p.state \in FSMState, NEW c
  PROVE  Busy(ProcessByte(p, c)) + Answers(ProcessByte(p, c)) <= Busy(p) + Begins(c)
<1> USE DEF Busy, Answers, Begins, Parser, Finish, StartFrame
<1>1. CASE p.state = "WAIT_FOR_START"
  BY <1>1 DEF ProcessByte, WaitForStart
<1>2. CASE p.state = "ACCUMULATE_PAYLOAD"
  BY <1>2 DEF ProcessByte, Accumulate, BreakOff, Star, At, Newline
<1>3. CASE p.state = "WAIT_FOR_CHECKSUM"
  BY <1>3 DEF ProcessByte, WaitForChecksum
<1>4. CASE p.state = "WAIT_FOR_NEWLINE"
  BY <1>4 DEF ProcessByte, WaitForNewline, Verdict
<1> QED BY <1>1, <1>2, <1>3, <1>4 DEF FSMState

\* The '@' that is still to come.
Owed == IF wire # << >> THEN Begins(Head(wire)) ELSE 0

AnswersInv == /\ LinkInv
              /\ faults \in Nat /\ Len(answers) \in Nat /\ answers \in Seq(Status)
              /\ \A i \in 2 .. Len(wire) : wire[i] # At
              /\ Len(answers) + Busy(parser) + Owed <= 2 + faults

LEMMA AnswersReceive ==
  ASSUME AnswersInv, NEW c \in Byte, Receive(c)
  PROVE  /\ answers' \in Seq(Status) /\ Len(answers') \in Nat
         /\ Len(answers') + Busy(parser') <= Len(answers) + Busy(parser) + Begins(c)
<1>1. parser' = ProcessByte(parser, c) /\ BuffersOK(parser')
  BY ProcessByteSafe DEF AnswersInv, LinkInv, Receive
<1>2. Busy(parser') + Answers(parser') <= Busy(parser) + Begins(c)
  BY <1>1, ByteCost DEF AnswersInv, LinkInv, BuffersOK
<1>3. parser'.status \in Status
  BY <1>1 DEF BuffersOK
<1>4. answers' \in Seq(Status) /\ Len(answers') = Len(answers) + Answers(parser')
  BY <1>1, <1>3 DEF Receive, Answers, AnswersInv
<1>5. /\ Busy(parser') \in {0, 1} /\ Busy(parser) \in {0, 1} /\ Answers(parser') \in {0, 1}
      /\ Begins(c) \in {0, 1} /\ Len(answers) \in Nat
  BY DEF Busy, Answers, Begins, AnswersInv
<1> QED BY <1>2, <1>4, <1>5

\* Behind the first byte of the line there is no '@'.
LEMMA NextByte ==
  ASSUME AnswersInv, wire # << >>, wire' = Tail(wire)
  PROVE  Owed' = 0 /\ \A i \in 2 .. Len(wire') : wire'[i] # At
<1>1. /\ wire' \in Seq(Byte) /\ Len(wire) \in Nat \ {0} /\ Len(wire') = Len(wire) - 1
      /\ \A i \in 1 .. Len(wire') : wire'[i] = wire[i + 1]
  BY DEF AnswersInv, LinkInv
<1>2. \A i \in 1 .. Len(wire') : wire'[i] # At
  BY <1>1 DEF AnswersInv
<1>3. wire' # << >> => Len(wire') >= 1 /\ Head(wire') = wire'[1]
  BY <1>1
<1>4. wire' # << >> => Head(wire') # At
  BY <1>1, <1>2, <1>3
<1> QED BY <1>1, <1>2, <1>4 DEF Owed, Begins

LEMMA AnswersStep == AnswersInv /\ [Next]_vars => AnswersInv'
<1> SUFFICES ASSUME AnswersInv, [Next]_vars PROVE AnswersInv'
  OBVIOUS
<1>0. LinkInv'
  BY LinkStep DEF AnswersInv
<1>1. /\ Busy(parser) \in {0, 1} /\ Owed \in {0, 1} /\ Len(answers) \in Nat /\ faults \in Nat
      /\ Len(answers) + Busy(parser) + Owed <= 2 + faults
  BY DEF AnswersInv, Busy, Owed, Begins
<1>2. CASE Deliver
  <2>1. wire # << >> /\ wire' = Tail(wire) /\ Receive(Head(wire)) /\ faults' = faults
    BY <1>2 DEF Deliver
  <2>2. Head(wire) \in Byte
    BY <2>1 DEF AnswersInv, LinkInv
  <2>3. Owed = Begins(Head(wire))
    BY <2>1 DEF Owed
  <2>4. Busy(parser') \in {0, 1}
    BY DEF Busy
  <2>5. Len(answers') + Busy(parser') + Owed' <= 2 + faults'
    BY <1>1, <2>1, <2>2, <2>3, <2>4, AnswersReceive, NextByte
  <2> QED BY <1>0, <1>1, <2>1, <2>2, <2>5, AnswersReceive, NextByte DEF AnswersInv
<1>3. CASE Drop
  <2>1. wire # << >> /\ wire' = Tail(wire) /\ faults' = faults + 1 /\ UNCHANGED <<parser, answers>>
    BY <1>3 DEF Drop, Fault
  <2>2. Len(answers') + Busy(parser') + Owed' <= 2 + faults'
    BY <1>1, <2>1, NextByte
  <2> QED BY <1>0, <1>1, <2>1, <2>2, NextByte DEF AnswersInv
<1>4. ASSUME NEW a \in Command, Send(a) PROVE AnswersInv'
  <2>1. /\ wire' = Frame(sender, a) /\ faults' = 0 /\ answers' = << >>
        /\ parser'.state \in FSMState
    BY <1>0, <1>4 DEF Send, LinkInv, BuffersOK
  <2>2. /\ Len(wire') = Len(Payload(a)) + 5 /\ wire' \in Seq(Byte) /\ wire'[1] = At
        /\ Len(Payload(a)) \in Nat
        /\ \A i \in 2 .. Len(wire') : wire'[i] # At
    <3>1. sender \in Sender
      BY DEF AnswersInv, LinkInv
    <3> QED BY <2>1, <3>1, OneAt, FrameText
  <2>3. Owed' = 1
    BY <2>2 DEF Owed, Begins
  <2>4. Len(answers') = 0 /\ answers' \in Seq(Status) /\ Busy(parser') \in {0, 1}
    BY <2>1 DEF Busy
  <2> QED BY <1>0, <2>1, <2>2, <2>3, <2>4 DEF AnswersInv
<1>5. ASSUME NEW c \in LineByte, Change(c) PROVE AnswersInv'
  <2>1. wire # << >> /\ wire' = Tail(wire) /\ Receive(c) /\ faults' = faults + 1 /\ c \in Byte
    BY <1>5, LineAssumption DEF Change, Fault
  <2>2. Begins(c) \in {0, 1} /\ Busy(parser') \in {0, 1}
    BY DEF Begins, Busy
  <2>3. Len(answers') + Busy(parser') + Owed' <= 2 + faults'
    BY <1>1, <2>1, <2>2, AnswersReceive, NextByte
  <2> QED BY <1>0, <1>1, <2>1, <2>3, AnswersReceive, NextByte DEF AnswersInv
<1>6. ASSUME NEW c \in LineByte, Insert(c) PROVE AnswersInv'
  <2>1. UNCHANGED wire /\ Receive(c) /\ faults' = faults + 1 /\ c \in Byte
    BY <1>6, LineAssumption DEF Insert, Fault
  <2>2. Begins(c) \in {0, 1} /\ Busy(parser') \in {0, 1} /\ Owed' = Owed
    BY <2>1 DEF Begins, Busy, Owed
  <2>3. Len(answers') + Busy(parser') + Owed' <= 2 + faults'
    BY <1>1, <2>1, <2>2, AnswersReceive
  <2>4. \A i \in 2 .. Len(wire') : wire'[i] # At
    BY <2>1 DEF AnswersInv
  <2> QED BY <1>0, <1>1, <2>1, <2>3, <2>4, AnswersReceive DEF AnswersInv
<1>7. CASE UNCHANGED vars
  BY <1>7 DEF vars, AnswersInv, LinkInv, Owed
<1> QED BY <1>2, <1>3, <1>4, <1>5, <1>6, <1>7 DEF Next

\* The surplus of answers that a host which counts frames by answers falls
\* behind by is bounded by the faults of its frame, whatever their number
\* (packet_parser.cpp:49-133, conductor_host.py:72-95).
THEOREM AnswersAreBounded == Spec => []AnswersBounded
<1>1. Init => AnswersInv
  <2> SUFFICES ASSUME Init PROVE AnswersInv
    OBVIOUS
  <2>1. LinkInv
    BY LinkInit
  <2>2. /\ wire = Frame(sender, angles) /\ sender \in Sender /\ angles \in Command
        /\ faults = 0 /\ answers = << >> /\ parser.state = "WAIT_FOR_START"
    BY DEF Init, Initial, Parser
  <2>3. Len(answers) = 0 /\ answers \in Seq(Status) /\ Busy(parser) = 0 /\ Owed \in {0, 1}
    BY <2>2 DEF Busy, Owed, Begins
  <2>4. \A i \in 2 .. Len(wire) : wire[i] # At
    BY <2>2, OneAt
  <2> QED BY <2>1, <2>2, <2>3, <2>4 DEF AnswersInv
<1>2. AnswersInv => AnswersBounded
  <2>1. Busy(parser) \in {0, 1} /\ Owed \in {0, 1}
    BY DEF Busy, Owed, Begins
  <2> QED BY <2>1 DEF AnswersInv, AnswersBounded
<1> QED BY <1>1, <1>2, AnswersStep, PTL DEF Spec

-----------------------------------------------------------------------------
(***************************************************************************)
(* Resynchronisation.  The parser's state by the place of the line in the  *)
(* frame, as long as the frame has met no fault: it follows the frame, or, *)
(* if it was inside a checksum, has lost it and hunts after three bytes.   *)
(***************************************************************************)
Size == Len(Payload(angles))
Done == Size + 5 - Len(wire)

Expected == IF sender = "conductor" THEN "SUCCESS" ELSE "ERROR_CHECKSUM"

Suffix == /\ Done \in 0 .. Size + 5
          /\ \A i \in 1 .. Len(wire) : wire[i] = Frame(sender, angles)[Done + i]

Begun == Done = 0 => /\ parser.state \in {"WAIT_FOR_START", "ACCUMULATE_PAYLOAD"}
                     /\ clean => parser.state = "WAIT_FOR_START"
                     /\ answers = << >>
InPayload == Done \in 1 .. Size + 1 =>
  /\ parser.state = "ACCUMULATE_PAYLOAD" /\ Len(parser.payload) = Done - 1
  /\ \A i \in 1 .. Done - 1 : parser.payload[i] = Payload(angles)[i]
InChecksum == Done \in Size + 2 .. Size + 4 =>
  /\ parser.payload = Payload(angles)
  /\ Len(parser.checksum) = Done - (Size + 2)
  /\ \A i \in 1 .. Done - (Size + 2) : parser.checksum[i] = CheckDigits(sender, angles)[i]
  /\ parser.state = IF Done = Size + 4 THEN "WAIT_FOR_NEWLINE" ELSE "WAIT_FOR_CHECKSUM"
Unanswered == Done \in 0 .. Size + 4 => answers = << >> \/ (~clean /\ Len(answers) = 1)
Ended == Done = Size + 5 => /\ parser.state = "WAIT_FOR_START"
                            /\ Last(answers) = Expected
                            /\ clean => answers = <<Expected>>
                            /\ Expected = "SUCCESS" => parser.angles = Meant(angles)
Follows == Begun /\ InPayload /\ InChecksum /\ Unanswered /\ Ended

Lost == /\ ~clean
        /\ Done = 0 => parser.state \in {"WAIT_FOR_CHECKSUM", "WAIT_FOR_NEWLINE"}
        /\ Done = 1 => \/ parser.state \in {"WAIT_FOR_NEWLINE", "WAIT_FOR_START"}
                       \/ parser.state = "WAIT_FOR_CHECKSUM" /\ Len(parser.checksum) = 1
        /\ Done = 2 => parser.state \in {"WAIT_FOR_NEWLINE", "WAIT_FOR_START"}
        /\ Done >= 3 => parser.state = "WAIT_FOR_START"

RInv == /\ LinkInv /\ Suffix
        /\ faults \in Nat /\ answers \in Seq(Status)
        /\ faults = 0 => IF ready THEN Follows ELSE Lost

\* A frame that stands whole in the buffers is taken for what it says.
LEMMA WholeFrameRead ==
  ASSUME NEW s \in Sender, NEW a \in Command, NEW p, p.payload = Payload(a),
         p.checksum[1] = CheckDigits(s, a)[1], p.checksum[2] = CheckDigits(s, a)[2]
  PROVE  /\ Verdict(p).state = "WAIT_FOR_START"
         /\ Verdict(p).status = IF s = "conductor" THEN "SUCCESS" ELSE "ERROR_CHECKSUM"
         /\ s = "conductor" => Verdict(p).angles = Meant(a)
<1> DEFINE tokens == Tokens(CString(Payload(a)))
<1>1. ChecksumReadable(p)
  BY TextAssumption DEF ChecksumReadable
<1>2. ChecksumMatches(p) <=> Checksum(Payload(a)) = Checksum(Covered(s, Payload(a)))
  BY TextAssumption DEF ChecksumMatches
<1>3. CASE s = "conductor"
  <2>1. ChecksumMatches(p)
    BY <1>2, <1>3 DEF Covered
  <2>2. IsCommand(tokens) /\ Complete(tokens) /\ Len(tokens) = MAX_ROBOTIC_JOINTS + 1
    BY TextAssumption, JointsAssumption DEF Complete
  <2>3. \A j \in Joint : j < Len(tokens) /\ Clamp(Atoi(tokens[j + 1])) = Meant(a)[j]
    BY <2>2, TextAssumption, JointsAssumption DEF Joint
  <2>4. Verdict(p) = Parser("WAIT_FOR_START", << >>, << >>, Extracted(p.angles, tokens), "SUCCESS")
    BY <1>1, <2>1, <2>2 DEF Verdict
  <2>5. Extracted(p.angles, tokens) = [j \in Joint |-> Meant(a)[j]]
    <3> HIDE DEF tokens
    <3> QED BY <2>2, <2>3 DEF Extracted
  <2>6. [j \in Joint |-> Meant(a)[j]] = Meant(a)
    BY DEF Meant
  <2> QED BY <1>3, <2>4, <2>5, <2>6 DEF Parser
<1>4. CASE s = "orchestrator"
  <2>1. ~ChecksumMatches(p)
    BY <1>2, <1>4, TextAssumption DEF Covered
  <2> QED BY <1>4, <2>1 DEF Verdict, Finish, Parser
<1> QED BY <1>3, <1>4 DEF Sender

LEMMA LineDelivers ==
  ASSUME RInv, Deliver
  PROVE  /\ Size \in Nat /\ Done \in 0 .. Size + 4 /\ Suffix'
         /\ Size' = Size /\ Done' = Done + 1 /\ Expected' = Expected
         /\ Payload(angles)' = Payload(angles)
         /\ CheckDigits(sender, angles)' = CheckDigits(sender, angles)
         /\ UNCHANGED <<sender, angles, clean, ready>>
         /\ sender \in Sender /\ angles \in Command
         /\ parser' = ProcessByte(parser, Frame(sender, angles)[Done + 1])
         /\ answers' = IF parser'.status = "IN_PROGRESS" THEN answers
                                                         ELSE Append(answers, parser'.status)
<1> DEFINE F == Frame(sender, angles)
<1>1. /\ wire # << >> /\ Receive(Head(wire)) /\ wire' = Tail(wire)
      /\ UNCHANGED <<sender, angles, clean, ready>>
  BY DEF Deliver
<1>2. sender \in Sender /\ angles \in Command /\ wire \in Seq(Byte)
  BY DEF RInv, LinkInv
<1>3. Size \in Nat /\ Size' = Size
  BY <1>1, <1>2, FrameText DEF Size
<1>4. /\ Head(wire) = wire[1] /\ Len(wire) \in Nat \ {0} /\ Len(wire') = Len(wire) - 1
      /\ \A i \in 1 .. Len(wire') : wire'[i] = wire[i + 1]
  BY <1>1, <1>2
<1>5. Done \in 0 .. Size + 4 /\ Done' = Done + 1 /\ Done \in Int
  BY <1>3, <1>4 DEF RInv, Suffix, Done
<1>6. Head(wire) = F[Done + 1]
  BY <1>4 DEF RInv, Suffix
<1>7. Suffix'
  <2>1. Frame(sender, angles)' = F
    BY <1>1
  <2>2. ASSUME NEW i \in 1 .. Len(wire') PROVE wire'[i] = F[Done' + i]
    <3>1. i + 1 \in 1 .. Len(wire) /\ Done + (i + 1) = Done' + i
      <4>1. i + 1 \in 1 .. Len(wire) /\ i \in Int
        BY <1>4
      <4> HIDE DEF Done
      <4> QED BY <1>5, <4>1
    <3>2. wire[i + 1] = F[Done + (i + 1)]
      BY <3>1 DEF RInv, Suffix
    <3> QED BY <1>4, <3>1, <3>2
  <2>3. Done' \in 0 .. Size' + 5
    BY <1>3, <1>5
  <2> QED BY <2>1, <2>2, <2>3 DEF Suffix
<1> QED BY <1>1, <1>2, <1>3, <1>5, <1>6, <1>7 DEF Receive, Expected

\* The first byte of a frame begins it; a frame before it that broke off in its
\* payload is answered now.
LEMMA FollowsStart ==
  ASSUME RInv, Follows, Deliver, Done = 0
  PROVE  Follows'
<1>1. parser' = ProcessByte(parser, At) /\ Done' = 1 /\ Size \in Nat /\ Size' = Size
      /\ UNCHANGED clean
  <2>1. Frame(sender, angles)[1] = At
    BY LineDelivers, FrameText
  <2> QED BY <2>1, LineDelivers
<1>2. /\ parser.state \in {"WAIT_FOR_START", "ACCUMULATE_PAYLOAD"}
      /\ clean => parser.state = "WAIT_FOR_START"
      /\ answers = << >>
  BY DEF Follows, Begun
<1>3. parser'.state = "ACCUMULATE_PAYLOAD" /\ parser'.payload = << >>
      /\ parser'.status = IF parser.state = "WAIT_FOR_START" THEN "IN_PROGRESS" ELSE "ERROR_FORMAT"
  BY <1>1, <1>2 DEF ProcessByte, WaitForStart, Accumulate, BreakOff, StartFrame, Parser,
                    Star, At, Newline
<1>4. answers' = << >> \/ (~clean' /\ Len(answers') = 1)
  <2>1. CASE parser.state = "WAIT_FOR_START"
    BY <1>2, <1>3, <2>1, LineDelivers
  <2>2. CASE parser.state # "WAIT_FOR_START"
    <3>1. answers' = Append(<< >>, "ERROR_FORMAT") /\ ~clean'
      BY <1>1, <1>2, <1>3, <2>2, LineDelivers
    <3>2. Len(answers') = 1
      BY <3>1
    <3> QED BY <3>1, <3>2
  <2> QED BY <2>1, <2>2
<1>5. Len(parser'.payload) = 0 /\ 1 .. Done' - 1 = {}
  BY <1>1, <1>3
<1> QED BY <1>1, <1>3, <1>4, <1>5 DEF Follows, Begun, InPayload, InChecksum, Unanswered, Ended

LEMMA FollowsPayload ==
  ASSUME RInv, Follows, Deliver, Done \in 1 .. Size
  PROVE  Follows'
<1> DEFINE P == Payload(angles)
           c == P[Done]
<1>1. Size \in Nat /\ Done' = Done + 1 /\ Size' = Size /\ UNCHANGED clean /\ P' = P
      /\ sender \in Sender /\ angles \in Command
  BY LineDelivers
<1>2. parser' = ProcessByte(parser, c) /\ c \in Byte \ {At, Star, Newline}
  BY <1>1, LineDelivers, FrameText DEF Size
<1>3. /\ parser.state = "ACCUMULATE_PAYLOAD" /\ Len(parser.payload) = Done - 1
      /\ \A i \in 1 .. Done - 1 : parser.payload[i] = P[i]
      /\ answers = << >> \/ (~clean /\ Len(answers) = 1)
  BY <1>1 DEF Follows, InPayload, Unanswered
<1>4. HasRoom(parser)
  <2>1. Size < MAX_PACKET_LENGTH
    BY <1>1, CommandAssumption DEF Size
  <2> QED BY <1>1, <1>3, <2>1, LengthAssumption DEF HasRoom
<1>5. /\ parser'.state = "ACCUMULATE_PAYLOAD" /\ parser'.status = "IN_PROGRESS"
      /\ parser'.payload = Append(parser.payload, c)
  BY <1>2, <1>3, <1>4 DEF ProcessByte, Accumulate, Parser
<1>6. answers' = answers
  BY <1>5, LineDelivers
<1> HIDE DEF c, P
<1>7. /\ Len(parser'.payload) = Done' - 1
      /\ \A i \in 1 .. Done' - 1 : parser'.payload[i] = P[i]
  <2>1. parser.payload \in Seq(Byte) /\ c \in Byte
    BY <1>2 DEF RInv, LinkInv, BuffersOK
  <2>2. /\ Len(parser'.payload) = Done /\ parser'.payload[Done] = c
        /\ \A i \in 1 .. Done - 1 : parser'.payload[i] = parser.payload[i]
    BY <1>1, <1>3, <1>5, <2>1
  <2>3. \A i \in 1 .. Done : parser'.payload[i] = P[i]
    BY <1>1, <1>3, <2>2 DEF c
  <2> QED BY <1>1, <2>2, <2>3
<1>8. Done' \in 1 .. Size' + 1 /\ Done' \notin Size' + 2 .. Size' + 4 /\ Done' # 0
      /\ Done' # Size' + 5
  BY <1>1
<1> QED BY <1>1, <1>3, <1>5, <1>6, <1>7, <1>8
        DEF Follows, Begun, InPayload, InChecksum, Unanswered, Ended, P

LEMMA FollowsStar ==
  ASSUME RInv, Follows, Deliver, Done = Size + 1
  PROVE  Follows'
<1> DEFINE P == Payload(angles)
<1>1. Size \in Nat /\ Done' = Size + 2 /\ Size' = Size /\ UNCHANGED clean /\ P' = P
      /\ sender \in Sender /\ angles \in Command
  BY LineDelivers
<1>2. parser' = ProcessByte(parser, Star)
  BY <1>1, LineDelivers, FrameText DEF Size
<1>3. /\ parser.state = "ACCUMULATE_PAYLOAD" /\ Len(parser.payload) = Size
      /\ \A i \in 1 .. Size : parser.payload[i] = P[i]
      /\ answers = << >> \/ (~clean /\ Len(answers) = 1)
  BY <1>1 DEF Follows, InPayload, Unanswered
<1>4. parser.payload = P
  <2>1. parser.payload \in Seq(Byte)
    BY DEF RInv, LinkInv, BuffersOK
  <2>2. P \in Seq(Byte)
    BY <1>1, CommandAssumption
  <2> QED BY <1>3, <2>1, <2>2, SeqEqual DEF Size
<1>5. /\ parser'.state = "WAIT_FOR_CHECKSUM" /\ parser'.status = "IN_PROGRESS"
      /\ parser'.payload = P /\ parser'.checksum = << >>
  BY <1>2, <1>3, <1>4 DEF ProcessByte, Accumulate, Parser, Star, At, Newline
<1>6. answers' = answers
  BY <1>5, LineDelivers
<1>7. Done' - (Size' + 2) = 0 /\ Len(parser'.checksum) = 0 /\ 1 .. 0 = {} /\ Done' # Size' + 4
      /\ Done' \notin 1 .. Size' + 1 /\ Done' # 0 /\ Done' # Size' + 5
  BY <1>1, <1>5
<1> HIDE DEF P
<1> QED BY <1>1, <1>3, <1>5, <1>6, <1>7
        DEF Follows, Begun, InPayload, InChecksum, Unanswered, Ended, P

LEMMA FollowsDigit ==
  ASSUME RInv, Follows, Deliver, Done \in {Size + 2, Size + 3}
  PROVE  Follows'
<1> DEFINE P == Payload(angles)
           C == CheckDigits(sender, angles)
           k == Done - (Size + 2)
<1>1. Size \in Nat /\ Done' = Done + 1 /\ Size' = Size /\ UNCHANGED clean /\ P' = P /\ C' = C
      /\ sender \in Sender /\ angles \in Command
  BY LineDelivers
<1>2. parser' = ProcessByte(parser, C[k + 1]) /\ C[k + 1] \in Byte
  <2>1. C \in Seq(Byte \ {At}) /\ Len(C) = 2
    BY <1>1, CommandAssumption DEF CheckDigits, Hex
  <2>2. CASE Done = Size + 2
    <3>1. k + 1 = 1 /\ 1 \in 1 .. Len(C) /\ Done + 1 = Size + 3
      BY <1>1, <2>1, <2>2
    <3>2. Frame(sender, angles)[Size + 3] = C[1]
      BY <1>1, FrameText DEF Size
    <3>3. parser' = ProcessByte(parser, C[1])
      BY <3>1, <3>2, LineDelivers
    <3>4. C[1] \in Byte
      <4> HIDE DEF C
      <4> QED BY <2>1, <3>1, ElementOfSeq
    <3> QED BY <3>1, <3>3, <3>4
  <2>3. CASE Done = Size + 3
    <3>1. k + 1 = 2 /\ 2 \in 1 .. Len(C) /\ Done + 1 = Size + 4
      BY <1>1, <2>1, <2>3
    <3>2. Frame(sender, angles)[Size + 4] = C[2]
      BY <1>1, FrameText DEF Size
    <3>3. parser' = ProcessByte(parser, C[2])
      BY <3>1, <3>2, LineDelivers
    <3>4. C[2] \in Byte
      <4> HIDE DEF C
      <4> QED BY <2>1, <3>1, ElementOfSeq
    <3> QED BY <3>1, <3>3, <3>4
  <2> QED BY <2>2, <2>3
<1> HIDE DEF P, C
<1>3. /\ Done \in Size + 2 .. Size + 4 /\ Done \in 0 .. Size + 4 /\ Done # Size + 4 /\ k \in {0, 1}
  BY <1>1
<1>4. /\ parser.state = "WAIT_FOR_CHECKSUM" /\ parser.payload = P /\ Len(parser.checksum) = k
      /\ \A i \in 1 .. k : parser.checksum[i] = C[i]
      /\ answers = << >> \/ (~clean /\ Len(answers) = 1)
  BY <1>3 DEF Follows, InChecksum, Unanswered, P, C
<1>5. /\ parser'.state = IF k = 1 THEN "WAIT_FOR_NEWLINE" ELSE "WAIT_FOR_CHECKSUM"
      /\ parser'.status = "IN_PROGRESS"
      /\ parser'.payload = P /\ parser'.checksum = Append(parser.checksum, C[k + 1])
  <2> HIDE DEF k
  <2> QED BY <1>2, <1>3, <1>4 DEF ProcessByte, WaitForChecksum, Parser
<1>6. answers' = answers
  BY <1>5, LineDelivers
<1>7. Len(parser'.checksum) = k + 1 /\ \A i \in 1 .. k + 1 : parser'.checksum[i] = C[i]
  <2> HIDE DEF k
  <2>1. parser.checksum \in Seq(Byte)
    BY DEF RInv, LinkInv, BuffersOK
  <2> QED BY <1>2, <1>3, <1>4, <1>5, <2>1
<1>8. /\ Done' - (Size' + 2) = k + 1 /\ (Done' = Size' + 4 <=> k = 1)
      /\ Done' \notin 1 .. Size' + 1 /\ Done' # 0 /\ Done' # Size' + 5
  BY <1>1
<1> HIDE DEF k
<1>9. InChecksum'
  BY <1>1, <1>5, <1>7, <1>8 DEF InChecksum, P, C
<1> QED BY <1>1, <1>4, <1>6, <1>8, <1>9 DEF Follows, Begun, InPayload, Unanswered, Ended

LEMMA FollowsNewline ==
  ASSUME RInv, Follows, Deliver, Done = Size + 4
  PROVE  Follows'
<1> DEFINE P == Payload(angles)
           C == CheckDigits(sender, angles)
<1>1. Size \in Nat /\ Done' = Size + 5 /\ Size' = Size /\ UNCHANGED <<clean, angles>>
      /\ sender \in Sender /\ angles \in Command /\ Expected' = Expected
  BY LineDelivers
<1>2. /\ parser.state = "WAIT_FOR_NEWLINE" /\ parser.payload = P
      /\ parser.checksum[1] = C[1] /\ parser.checksum[2] = C[2]
      /\ answers = << >> \/ (~clean /\ Len(answers) = 1)
  <2>1. Done \in Size + 2 .. Size + 4 /\ Done \in 0 .. Size + 4 /\ Done - (Size + 2) = 2
        /\ 1 \in 1 .. 2 /\ 2 \in 1 .. 2
    BY <1>1
  <2> HIDE DEF P, C
  <2> QED BY <2>1 DEF Follows, InChecksum, Unanswered, P, C
<1>3. parser' = Verdict(parser)
  <2>1. Frame(sender, angles)[Size + 5] = Newline /\ Done + 1 = Size + 5
    BY <1>1, FrameText DEF Size
  <2> QED BY <1>2, <2>1, LineDelivers DEF ProcessByte, WaitForNewline
<1>4. /\ parser'.state = "WAIT_FOR_START" /\ parser'.status = Expected
      /\ Expected = "SUCCESS" => parser'.angles = Meant(angles)
  BY <1>1, <1>2, <1>3, WholeFrameRead DEF Expected
<1>5. answers' = Append(answers, Expected)
  BY <1>4, LineDelivers DEF Expected
<1>6. Last(answers') = Expected /\ (clean' => answers' = <<Expected>>)
  <2>1. Expected \in Status /\ answers \in Seq(Status)
    BY DEF Expected, Status, ErrorStatus, RInv
  <2>2. Len(answers') = Len(answers) + 1 /\ answers'[Len(answers) + 1] = Expected
    BY <1>5, <2>1
  <2>3. clean' => answers' = <<Expected>>
    BY <1>1, <1>2, <1>5
  <2> QED BY <2>2, <2>3 DEF Last
<1>7. /\ Done' \notin 0 .. Size' + 4 /\ Done' \notin 1 .. Size' + 1
      /\ Done' \notin Size' + 2 .. Size' + 4
      /\ Done' # 0
  BY <1>1
<1> QED BY <1>1, <1>4, <1>6, <1>7 DEF Follows, Begun, InPayload, InChecksum, Unanswered, Ended

LEMMA LostStep ==
  ASSUME RInv, Lost, Deliver
  PROVE  Lost'
<1> DEFINE c == Frame(sender, angles)[Done + 1]
<1>1. Size \in Nat /\ Done \in 0 .. Size + 4 /\ Done' = Done + 1 /\ UNCHANGED clean
      /\ parser' = ProcessByte(parser, c)
  BY LineDelivers
<1>2. Done >= 1 => c # At
  <2>1. sender \in Sender /\ angles \in Command
    BY LineDelivers
  <2>2. Done >= 1 => Done + 1 \in 2 .. Len(Frame(sender, angles))
    BY <1>1, <2>1, FrameText DEF Size
  <2> QED BY <2>1, <2>2, OneAt
<1>3. BuffersOK(parser)
  BY DEF RInv, LinkInv
<1> HIDE DEF c
<1>4. CASE parser.state = "WAIT_FOR_NEWLINE"
  <2>1. parser'.state = "WAIT_FOR_START"
    BY <1>1, <1>4 DEF ProcessByte, WaitForNewline, Verdict, Finish, Parser
  <2> QED BY <1>1, <2>1 DEF Lost
<1>5. CASE parser.state = "WAIT_FOR_START"
  <2>1. Done >= 1
    BY <1>1, <1>5 DEF Lost
  <2>2. parser'.state = "WAIT_FOR_START"
    BY <1>1, <1>2, <1>5, <2>1 DEF ProcessByte, WaitForStart, Finish, Parser
  <2> QED BY <1>1, <2>1, <2>2 DEF Lost
<1>6. CASE parser.state = "WAIT_FOR_CHECKSUM"
  <2>1. Done \in {0, 1} /\ (Done = 1 => Len(parser.checksum) = 1)
    BY <1>1, <1>6 DEF Lost
  <2>2. parser.checksum \in Seq(Byte) /\ Len(parser.checksum) \in {0, 1}
    <3>1. parser.checksum \in Seq(Byte) /\ Len(parser.checksum) < 2
      BY <1>3, <1>6 DEF BuffersOK
    <3>2. Len(parser.checksum) \in Nat
      BY <3>1
    <3>3. \A n \in Nat : n < 2 => n \in {0, 1}
      OBVIOUS
    <3> QED BY <3>1, <3>2, <3>3
  <2>3. /\ parser'.checksum = Append(parser.checksum, c)
        /\ parser'.state = IF Len(parser.checksum) = 1 THEN "WAIT_FOR_NEWLINE"
                                                       ELSE "WAIT_FOR_CHECKSUM"
    BY <1>1, <1>6, <2>2 DEF ProcessByte, WaitForChecksum, Parser
  <2>4. Len(parser'.checksum) = Len(parser.checksum) + 1
    BY <2>2, <2>3
  <2> QED BY <1>1, <2>1, <2>2, <2>3, <2>4 DEF Lost
<1>7. parser.state # "ACCUMULATE_PAYLOAD"
  BY <1>1 DEF Lost
<1> QED BY <1>3, <1>4, <1>5, <1>6, <1>7 DEF BuffersOK, FSMState

LEMMA FrameFollowed ==
  ASSUME RInv, Deliver, faults = 0
  PROVE  IF ready' THEN Follows' ELSE Lost'
<1>1. Size \in Nat /\ Done \in 0 .. Size + 4 /\ ready' = ready
  BY LineDelivers
<1>2. CASE ready
  <2>1. Follows
    BY <1>2 DEF RInv
  <2>2. Done = 0 \/ Done \in 1 .. Size \/ Done = Size + 1 \/ Done \in {Size + 2, Size + 3}
        \/ Done = Size + 4
    BY <1>1
  <2>3. Follows'
    BY <2>1, <2>2, FollowsStart, FollowsPayload, FollowsStar, FollowsDigit, FollowsNewline
  <2> QED BY <1>1, <1>2, <2>3
<1>3. CASE ~ready
  BY <1>1, <1>3, LostStep DEF RInv
<1> QED BY <1>2, <1>3

\* A frame that met no fault leaves the parser hunting, so that the next one is
\* followed.
LEMMA SendStep ==
  ASSUME RInv, NEW a \in Command, Send(a)
  PROVE  RInv'
<1>1. LinkInv'
  BY LinkStep DEF RInv, Next
<1>2. /\ sender' = sender /\ angles' = a /\ wire' = Frame(sender, a) /\ wire = << >>
      /\ faults' = 0 /\ answers' = << >> /\ sender \in Sender
      /\ parser' = [parser EXCEPT !.status = "IN_PROGRESS"]
  BY DEF Send, RInv, LinkInv
<1>3. /\ Size' = Len(Payload(a)) /\ Size' \in Nat /\ Len(wire') = Size' + 5
  BY <1>2, FrameText DEF Size
<1>4. Done' = 0
  BY <1>3 DEF Done
<1>5. Frame(sender, angles)' = wire'
  BY <1>2
<1>6. Suffix'
  BY <1>2, <1>3, <1>4, <1>5 DEF Suffix
<1>7. parser'.state = parser.state /\ parser.state \in FSMState
  <2>1. BuffersOK([parser EXCEPT !.status = "IN_PROGRESS"]) /\ BuffersOK(parser)
    BY <1>1, <1>2 DEF LinkInv, RInv
  <2>2. [parser EXCEPT !.status = "IN_PROGRESS"].state = parser.state
    OBVIOUS
  <2> QED BY <1>2, <2>1, <2>2 DEF BuffersOK
<1>8. clean' <=> faults = 0
  BY DEF Send
<1>9. ready' <=> parser.state \in {"WAIT_FOR_START", "ACCUMULATE_PAYLOAD"}
  BY DEF Send
<1>10. faults = 0 => parser.state = "WAIT_FOR_START"
  <2>1. sender \in Sender /\ angles \in Command /\ Len(wire) = 0
    BY <1>2 DEF RInv, LinkInv
  <2>2. Size \in Nat /\ Done = Size + 5 /\ Done >= 3
    BY <2>1, FrameText DEF Size, Done
  <2> QED BY <2>2 DEF RInv, Follows, Ended, Lost
<1>11. CASE ready'
  <2>1. Begun'
    BY <1>2, <1>4, <1>7, <1>8, <1>9, <1>10, <1>11 DEF Begun
  <2>2. Follows'
    BY <1>2, <1>3, <1>4, <2>1 DEF Follows, InPayload, InChecksum, Unanswered, Ended
  <2> QED BY <1>1, <1>2, <1>6, <1>11, <2>2 DEF RInv
<1>12. CASE ~ready'
  <2>1. parser'.state \in {"WAIT_FOR_CHECKSUM", "WAIT_FOR_NEWLINE"}
    BY <1>7, <1>9, <1>12 DEF FSMState
  <2>2. Lost'
    BY <1>4, <1>7, <1>8, <1>10, <2>1 DEF Lost
  <2> QED BY <1>1, <1>2, <1>6, <1>12, <2>2 DEF RInv
<1> QED BY <1>11, <1>12

LEMMA ResyncStep == RInv /\ [Next]_vars => RInv'
<1> SUFFICES ASSUME RInv, [Next]_vars PROVE RInv'
  OBVIOUS
<1>0. LinkInv'
  BY LinkStep DEF RInv
<1>1. ASSUME NEW c \in Byte, Receive(c) PROVE answers' \in Seq(Status)
  <2>1. parser'.status \in Status
    BY <1>0 DEF LinkInv, BuffersOK
  <2> QED BY <1>1, <2>1 DEF Receive, RInv
<1>2. CASE Deliver
  <2>1. Head(wire) \in Byte /\ Receive(Head(wire)) /\ faults' = faults
    BY <1>2 DEF Deliver, RInv, LinkInv
  <2>2. Suffix'
    BY <1>2, LineDelivers
  <2> QED BY <1>0, <1>1, <1>2, <2>1, <2>2, FrameFollowed DEF RInv
<1>3. ASSUME wire # << >>, wire' = Tail(wire), UNCHANGED <<sender, angles>> PROVE Suffix'
  <2> DEFINE F == Frame(sender, angles)
  <2>1. sender \in Sender /\ angles \in Command /\ wire \in Seq(Byte)
    BY DEF RInv, LinkInv
  <2>2. Size \in Nat /\ Size' = Size
    BY <1>3, <2>1, FrameText DEF Size
  <2>3. /\ Len(wire) \in Nat \ {0} /\ Len(wire') = Len(wire) - 1
        /\ \A i \in 1 .. Len(wire') : wire'[i] = wire[i + 1]
    BY <1>3, <2>1
  <2>4. Done \in 0 .. Size + 4 /\ Done' = Done + 1 /\ Done \in Int
    BY <2>2, <2>3 DEF RInv, Suffix, Done
  <2>5. Frame(sender, angles)' = F
    BY <1>3
  <2>6. ASSUME NEW i \in 1 .. Len(wire') PROVE wire'[i] = F[Done' + i]
    <3>0. i \in Nat /\ i + 1 \in 1 .. Len(wire)
      BY <2>3
    <3>1. i + 1 \in 1 .. Len(wire) /\ Done + (i + 1) = Done' + i
      BY <2>4, <3>0
    <3>2. wire[i + 1] = F[Done + (i + 1)]
      BY <3>1 DEF RInv, Suffix
    <3> QED BY <2>3, <3>1, <3>2
  <2>7. Done' \in 0 .. Size' + 5
    BY <2>2, <2>4
  <2> QED BY <2>5, <2>6, <2>7 DEF Suffix
<1>4. CASE Drop
  <2>1. wire # << >> /\ wire' = Tail(wire) /\ faults' = faults + 1
        /\ UNCHANGED <<sender, angles, answers>>
    BY <1>4 DEF Drop, Fault
  <2>2. faults' \in Nat /\ faults' # 0
    BY <2>1 DEF RInv
  <2> QED BY <1>0, <1>3, <2>1, <2>2 DEF RInv
<1>5. ASSUME NEW c \in LineByte, Change(c) PROVE RInv'
  <2>1. wire # << >> /\ wire' = Tail(wire) /\ faults' = faults + 1 /\ Receive(c) /\ c \in Byte
        /\ UNCHANGED <<sender, angles>>
    BY <1>5, LineAssumption DEF Change, Fault
  <2>2. faults' \in Nat /\ faults' # 0
    BY <2>1 DEF RInv
  <2> QED BY <1>0, <1>1, <1>3, <2>1, <2>2 DEF RInv
<1>6. ASSUME NEW c \in LineByte, Insert(c) PROVE RInv'
  <2>1. UNCHANGED wire /\ faults' = faults + 1 /\ Receive(c) /\ c \in Byte
        /\ UNCHANGED <<sender, angles>>
    BY <1>6, LineAssumption DEF Insert, Fault
  <2>2. faults' \in Nat /\ faults' # 0
    BY <2>1 DEF RInv
  <2>3. Suffix'
    BY <2>1 DEF RInv, Suffix, Done, Size
  <2> QED BY <1>0, <1>1, <2>1, <2>2, <2>3 DEF RInv
<1>7. CASE UNCHANGED vars
  BY <1>0, <1>7 DEF vars, RInv, Suffix, Done, Size, Follows, Begun, InPayload, InChecksum,
                    Unanswered, Ended, Lost, Expected
<1>8. ASSUME NEW a \in Command, Send(a) PROVE RInv'
  BY <1>8, SendStep
<1> QED BY <1>2, <1>4, <1>5, <1>6, <1>7, <1>8 DEF Next

LEMMA ResyncInit ==
  ASSUME Init
  PROVE  RInv
<1>1. LinkInv
  BY LinkInit
<1>2. /\ wire = Frame(sender, angles) /\ sender \in Sender /\ angles \in Command
      /\ faults = 0 /\ answers = << >> /\ parser.state = "WAIT_FOR_START" /\ ready
  BY DEF Init, Initial, Parser
<1>3. Size \in Nat /\ Done = 0
  BY <1>2, FrameText DEF Size, Done
<1>4. Suffix
  BY <1>2, <1>3 DEF Suffix
<1>5. Follows
  BY <1>2, <1>3 DEF Follows, Begun, InPayload, InChecksum, Unanswered, Ended
<1> QED BY <1>1, <1>2, <1>4, <1>5 DEF RInv

\* A damaged frame costs at most itself and its successor, whatever bytes the
\* line made of it and however many (packet_parser.cpp:49-133).
THEOREM ParserResynchronises == Spec => []Resynchronises
<1>1. Init => RInv
  BY ResyncInit
<1>2. RInv => Resynchronises
  <2> SUFFICES ASSUME RInv, faults = 0, wire = << >>
               PROVE  /\ clean => ready /\ answers = <<Expected>>
                      /\ ready => Last(answers) = Expected
                      /\ ready /\ Expected = "SUCCESS" => parser.angles = Meant(angles)
    BY DEF Resynchronises, Expected
  <2>1. sender \in Sender /\ angles \in Command /\ Len(wire) = 0
    BY DEF RInv, LinkInv
  <2>2. Size \in Nat /\ Done = Size + 5
    BY <2>1, FrameText DEF Size, Done
  <2>3. CASE ready
    BY <2>2, <2>3 DEF RInv, Follows, Ended
  <2>4. CASE ~ready
    BY <2>4 DEF RInv, Lost
  <2> QED BY <2>3, <2>4
<1> QED BY <1>1, <1>2, ResyncStep, PTL DEF Spec

-----------------------------------------------------------------------------
(***************************************************************************)
(* What one line fault can make the parser accept.  The verdict            *)
(* (packet_parser.cpp:87-117) compares the XOR of the buffered bytes with  *)
(* the two digits of the frame: one byte lost, changed or added toggles    *)
(* the bits of a byte that is not zero, so the XOR cannot come out right,  *)
(* and what is left is to follow where in the frame the parser is.         *)
(***************************************************************************)
\* The least element exists: the order of Nat is well founded, and no induction
\* over an operator is needed.
LEMMA MinIn ==
  ASSUME NEW S \in SUBSET Nat, S # {}
  PROVE  Min(S) \in S /\ \A y \in S : Min(S) <= y
<1> DEFINE R == OpToRel(<, Nat)
<1>1. IsWellFoundedOn(R, Nat)
  BY NatLessThanWellFounded
<1>2. \A x, y \in Nat : ~(<<y, x>> \in R) => x <= y
  BY DEF OpToRel
<1> HIDE DEF R
<1>3. PICK x \in S : \A y \in S : ~(<<y, x>> \in R)
  BY <1>1, WFMin, Zenon
<1>4. \E z \in S : \A y \in S : z <= y
  BY <1>2, <1>3
<1> QED BY <1>4 DEF Min

\* A byte is its bits, and only zero has none.
LEMMA BitsInjective ==
  ASSUME NEW n \in Byte, NEW m \in Byte, n # m
  PROVE  Bits(n) # Bits(m)
<1> SUFFICES ASSUME Bits(n) = Bits(m) PROVE n = m
  OBVIOUS
<1>1. ASSUME NEW b \in 0 .. 7
      PROVE  (n \div Weight[b + 1]) % 2 = 1 <=> (m \div Weight[b + 1]) % 2 = 1
  BY <1>1 DEF Bits
<1>2. /\ Weight[1] = 1 /\ Weight[2] = 2 /\ Weight[3] = 4 /\ Weight[4] = 8 /\ Weight[5] = 16
      /\ Weight[6] = 32 /\ Weight[7] = 64 /\ Weight[8] = 128
  BY DEF Weight
<1>3. /\ (n \div 1) % 2 = 1 <=> (m \div 1) % 2 = 1
      /\ (n \div 2) % 2 = 1 <=> (m \div 2) % 2 = 1
      /\ (n \div 4) % 2 = 1 <=> (m \div 4) % 2 = 1
      /\ (n \div 8) % 2 = 1 <=> (m \div 8) % 2 = 1
      /\ (n \div 16) % 2 = 1 <=> (m \div 16) % 2 = 1
      /\ (n \div 32) % 2 = 1 <=> (m \div 32) % 2 = 1
      /\ (n \div 64) % 2 = 1 <=> (m \div 64) % 2 = 1
      /\ (n \div 128) % 2 = 1 <=> (m \div 128) % 2 = 1
  BY <1>1, <1>2
<1>4. n \div 128 = m \div 128
  <2>1. \A x \in Byte : x \div 128 = (x \div 128) % 2
    BY DEF Byte
  <2>2. \A x \in Byte : (x \div 128) % 2 \in {0, 1}
    BY DEF Byte
  <2> QED BY <1>3, <2>1, <2>2
<1>5. n \div 64 = m \div 64
  <2>1. \A x \in Nat : x \div 64 = 2 * (x \div 128) + ((x \div 64) % 2)
    OBVIOUS
  <2>2. \A x \in Nat : (x \div 64) % 2 \in {0, 1}
    OBVIOUS
  <2> QED BY <1>3, <1>4, <2>1, <2>2 DEF Byte
<1>6. n \div 32 = m \div 32
  <2>1. \A x \in Nat : x \div 32 = 2 * (x \div 64) + ((x \div 32) % 2)
    OBVIOUS
  <2>2. \A x \in Nat : (x \div 32) % 2 \in {0, 1}
    OBVIOUS
  <2> QED BY <1>3, <1>5, <2>1, <2>2 DEF Byte
<1>7. n \div 16 = m \div 16
  <2>1. \A x \in Nat : x \div 16 = 2 * (x \div 32) + ((x \div 16) % 2)
    OBVIOUS
  <2>2. \A x \in Nat : (x \div 16) % 2 \in {0, 1}
    OBVIOUS
  <2> QED BY <1>3, <1>6, <2>1, <2>2 DEF Byte
<1>8. n \div 8 = m \div 8
  <2>1. \A x \in Nat : x \div 8 = 2 * (x \div 16) + ((x \div 8) % 2)
    OBVIOUS
  <2>2. \A x \in Nat : (x \div 8) % 2 \in {0, 1}
    OBVIOUS
  <2> QED BY <1>3, <1>7, <2>1, <2>2 DEF Byte
<1>9. n \div 4 = m \div 4
  <2>1. \A x \in Nat : x \div 4 = 2 * (x \div 8) + ((x \div 4) % 2)
    OBVIOUS
  <2>2. \A x \in Nat : (x \div 4) % 2 \in {0, 1}
    OBVIOUS
  <2> QED BY <1>3, <1>8, <2>1, <2>2 DEF Byte
<1>10. n \div 2 = m \div 2
  <2>1. \A x \in Nat : x \div 2 = 2 * (x \div 4) + ((x \div 2) % 2)
    OBVIOUS
  <2>2. \A x \in Nat : (x \div 2) % 2 \in {0, 1}
    OBVIOUS
  <2> QED BY <1>3, <1>9, <2>1, <2>2 DEF Byte
<1>11. n \div 1 = m \div 1
  <2>1. \A x \in Nat : x \div 1 = 2 * (x \div 2) + ((x \div 1) % 2)
    OBVIOUS
  <2>2. \A x \in Nat : (x \div 1) % 2 \in {0, 1}
    OBVIOUS
  <2> QED BY <1>3, <1>10, <2>1, <2>2 DEF Byte
<1> QED BY <1>11 DEF Byte

LEMMA NoBits ==
  ASSUME NEW n \in Byte, n # 0
  PROVE  Bits(n) # {}
<1>1. Bits(0) = {}
  BY DEF Bits, Weight
<1>2. 0 \in Byte
  BY DEF Byte
<1>3. Bits(n) # Bits(0)
  BY <1>2, BitsInjective
<1> QED BY <1>1, <1>3

\* The set of bits B after the byte c is XORed in.
Toggle(B, c) == {b \in 0 .. 7 : b \in B <=> b \notin Bits(c)}

LEMMA HavingFinite ==
  ASSUME NEW s \in Seq(Byte), NEW b
  PROVE  IsFiniteSet(Having(b, s)) /\ Cardinality(Having(b, s)) \in Nat
<1>1. Len(s) \in Nat /\ Having(b, s) \in SUBSET (1 .. Len(s))
  BY DEF Having
<1>2. IsFiniteSet(1 .. Len(s))
  BY <1>1, FS_Interval
<1> QED BY <1>1, <1>2, FS_Subset, FS_CardinalityType

\* One more byte toggles its bits.
LEMMA ChecksumAppend ==
  ASSUME NEW s \in Seq(Byte), NEW c \in Byte
  PROVE  Checksum(Append(s, c)) = Toggle(Checksum(s), c)
<1> DEFINE n == Len(s)
           t == Append(s, c)
<1>1. n \in Nat /\ Len(t) = n + 1 /\ t[n + 1] = c /\ \A i \in 1 .. n : t[i] = s[i]
  OBVIOUS
<1>2. ASSUME NEW b \in 0 .. 7
      PROVE  b \in Checksum(t) <=> (b \in Checksum(s) <=> b \notin Bits(c))
  <2> DEFINE H == Having(b, s)
             G == Having(b, t)
  <2>1. IsFiniteSet(H) /\ Cardinality(H) \in Nat
    BY HavingFinite
  <2>0. n + 1 \notin H
    BY <1>1 DEF Having
  <2>2. CASE b \in Bits(c)
    <3>1. G = H \cup {n + 1}
      <4> HIDE DEF t
      <4> QED BY <1>1, <2>2 DEF Having
    <3>2. Cardinality(G) = Cardinality(H) + 1
      <4> HIDE DEF G, H
      <4> QED BY <2>0, <2>1, <3>1, FS_AddElement
    <3>3. Cardinality(G) % 2 = 1 <=> ~(Cardinality(H) % 2 = 1)
      <4> HIDE DEF G, H
      <4> QED BY <2>1, <3>2
    <3> QED BY <2>2, <3>3 DEF Checksum
  <2>3. CASE b \notin Bits(c)
    <3>1. G = H
      <4> HIDE DEF t
      <4> QED BY <1>1, <2>3 DEF Having
    <3> QED BY <2>3, <3>1 DEF Checksum
  <2> QED BY <2>2, <2>3
<1> QED BY <1>2 DEF Toggle, Checksum

\* XOR is injective in each of its arguments, and zero is its only unit.
LEMMA ToggleKeepsApart ==
  ASSUME NEW A \in SUBSET (0 .. 7), NEW B \in SUBSET (0 .. 7), A # B, NEW c
  PROVE  Toggle(A, c) # Toggle(B, c)
<1>1. PICK b \in 0 .. 7 : ~(b \in A <=> b \in B)
  OBVIOUS
<1>2. ~(b \in Toggle(A, c) <=> b \in Toggle(B, c))
  BY <1>1 DEF Toggle
<1> QED BY <1>2

LEMMA ToggleDiffers ==
  ASSUME NEW B, NEW c \in Byte, NEW d \in Byte, c # d
  PROVE  Toggle(B, c) # Toggle(B, d)
<1>1. PICK b \in 0 .. 7 : ~(b \in Bits(c) <=> b \in Bits(d))
  BY BitsInjective DEF Bits
<1>2. ~(b \in Toggle(B, c) <=> b \in Toggle(B, d))
  BY <1>1 DEF Toggle
<1> QED BY <1>2

LEMMA ToggleMoves ==
  ASSUME NEW B, NEW c \in Byte, c # 0
  PROVE  Toggle(B, c) # B
<1>1. PICK b \in 0 .. 7 : b \in Bits(c)
  BY NoBits DEF Bits
<1>2. ~(b \in Toggle(B, c) <=> b \in B)
  BY <1>1 DEF Toggle
<1> QED BY <1>2

LEMMA ChecksumType ==
  ASSUME NEW s
  PROVE  Checksum(s) \in SUBSET (0 .. 7)
BY DEF Checksum

\* Parts of a sequence of bytes.
LEMMA CutTo ==
  ASSUME NEW s \in Seq(Byte), NEW e \in 0 .. Len(s)
  PROVE  /\ SubSeq(s, 1, e) \in Seq(Byte) /\ Len(SubSeq(s, 1, e)) = e
         /\ \A i \in 1 .. e : SubSeq(s, 1, e)[i] = s[i]
OBVIOUS

LEMMA CutFrom ==
  ASSUME NEW s \in Seq(Byte), NEW b \in 1 .. Len(s)
  PROVE  /\ SubSeq(s, b, Len(s)) \in Seq(Byte) /\ Len(SubSeq(s, b, Len(s))) = Len(s) - b + 1
         /\ \A i \in 1 .. Len(s) - b + 1 : SubSeq(s, b, Len(s))[i] = s[b + i - 1]
OBVIOUS

\* The part of a sequence before the first place in E.
LEMMA CutBefore ==
  ASSUME NEW s \in Seq(Byte), NEW E \in SUBSET (1 .. Len(s))
  PROVE  LET r == SubSeq(s, 1, IF E = {} THEN Len(s) ELSE Min(E) - 1)
         IN r \in Seq(Byte) /\ Len(r) <= Len(s) /\ \A i \in 1 .. Len(r) : r[i] = s[i]
<1> DEFINE e == IF E = {} THEN Len(s) ELSE Min(E) - 1
<1>1. Len(s) \in Nat
  OBVIOUS
<1>2. e \in 0 .. Len(s)
  <2>1. CASE E = {}
    BY <1>1, <2>1
  <2>2. CASE E # {}
    <3> DEFINE m == Min(E)
    <3>1. m \in E
      BY <1>1, <2>2, MinIn
    <3>2. e = m - 1
      BY <2>2
    <3>3. m \in 1 .. Len(s)
      BY <3>1
    <3> HIDE DEF e, m
    <3> QED BY <1>1, <3>2, <3>3
  <2> QED BY <2>1, <2>2
<1> HIDE DEF e
<1>3. /\ SubSeq(s, 1, e) \in Seq(Byte) /\ Len(SubSeq(s, 1, e)) <= Len(s)
      /\ \A i \in 1 .. Len(SubSeq(s, 1, e)) : SubSeq(s, 1, e)[i] = s[i]
  BY <1>1, <1>2, CutTo
<1> QED BY <1>3 DEF e

\* A payload without a 'D' is no command.
LEMMA HeadlessRefused ==
  ASSUME NEW q \in Seq(Byte), \A i \in 1 .. Len(q) : q[i] # DRV[1]
  PROVE  ~IsCommand(Tokens(CString(q)))
<1> DEFINE zeros == {j \in 1 .. Len(q) : q[j] = 0}
           s == CString(q)
           starts == TokenStarts(s)
           Start(k) == CHOOSE i \in starts : Cardinality({j \in starts : j < i}) = k - 1
           rest == SubSeq(s, Start(1), Len(s))
           commas == {j \in 1 .. Len(rest) : rest[j] = Comma}
           first == SubSeq(rest, 1, IF commas = {} THEN Len(rest) ELSE Min(commas) - 1)
<1>1. s \in Seq(Byte) /\ \A i \in 1 .. Len(s) : s[i] # DRV[1]
  <2> DEFINE r == SubSeq(q, 1, IF zeros = {} THEN Len(q) ELSE Min(zeros) - 1)
  <2>1. s = r
    BY DEF CString, Until
  <2>2. zeros \in SUBSET (1 .. Len(q))
    OBVIOUS
  <2> HIDE DEF zeros, s
  <2>3. r \in Seq(Byte) /\ Len(r) <= Len(q) /\ \A i \in 1 .. Len(r) : r[i] = q[i]
    BY <2>2, CutBefore, Zenon
  <2> HIDE DEF r
  <2> QED BY <2>1, <2>3
<1>2. Tokens(s) = [k \in 1 .. Cardinality(starts) |->
                     Until(SubSeq(s, Start(k), Len(s)), LAMBDA c : c = Comma)]
  BY DEF Tokens
<1>3. starts \in SUBSET (1 .. Len(s)) /\ Len(s) \in Nat
  BY <1>1 DEF TokenStarts
<1>4. IsFiniteSet(starts) /\ Cardinality(starts) \in Nat
  <2> HIDE DEF starts, s
  <2>1. IsFiniteSet(1 .. Len(s))
    BY <1>3, FS_Interval
  <2>2. IsFiniteSet(starts)
    BY <1>3, <2>1, FS_Subset
  <2> QED BY <2>2, FS_CardinalityType
<1> SUFFICES ASSUME IsCommand(Tokens(s)) PROVE FALSE
  OBVIOUS
<1>5. 1 \in 1 .. Cardinality(starts)
  <2>1. Tokens(s) # << >>
    BY DEF IsCommand
  <2> DEFINE T(k) == Until(SubSeq(s, Start(k), Len(s)), LAMBDA c : c = Comma)
  <2>2. Tokens(s) = [k \in 1 .. Cardinality(starts) |-> T(k)]
    BY <1>2
  <2> HIDE DEF starts, s, T
  <2>3. [k \in 1 .. 0 |-> T(k)] = << >>
    OBVIOUS
  <2> QED BY <1>4, <2>1, <2>2, <2>3
<1>6. Start(1) \in starts
  <2>1. starts # {} /\ starts \in SUBSET Nat
    <3> HIDE DEF starts, s
    <3> QED BY <1>3, <1>4, <1>5, FS_EmptySet
  <2> HIDE DEF starts, s
  <2> DEFINE m == Min(starts)
  <2>2. m \in starts /\ \A j \in starts : m <= j
    BY <2>1, MinIn
  <2> HIDE DEF m
  <2>3. ASSUME NEW j \in starts PROVE ~(j < m)
    <3>1. j \in Nat /\ m \in Nat /\ m <= j
      BY <2>1, <2>2
    <3> QED BY <3>1
  <2>4. {j \in starts : j < m} = {}
    BY <2>3, Zenon
  <2>5. Cardinality({j \in starts : j < m}) = 1 - 1
    <3>1. Cardinality({}) = 1 - 1
      BY FS_EmptySet
    <3> QED BY <2>4, <3>1, Zenon
  <2> QED BY <2>2, <2>5, Zenon
<1>7. Tokens(s)[1] = first
  <2>1. Tokens(s)[1] = Until(rest, LAMBDA c : c = Comma)
    <3> HIDE DEF starts, s
    <3> QED BY <1>2, <1>5
  <2> QED BY <2>1 DEF Until
<1>8. rest \in Seq(Byte) /\ \A i \in 1 .. Len(rest) : rest[i] # DRV[1]
  <2> DEFINE b == Start(1)
  <2>1. b \in 1 .. Len(s)
    BY <1>3, <1>6
  <2> HIDE DEF b, s
  <2>2. rest = SubSeq(s, b, Len(s))
    BY DEF b
  <2>3. /\ rest \in Seq(Byte) /\ Len(rest) = Len(s) - b + 1
        /\ \A i \in 1 .. Len(s) - b + 1 : rest[i] = s[b + i - 1]
    <3> HIDE DEF rest
    <3> QED BY <1>1, <2>1, <2>2, CutFrom
  <2>4. ASSUME NEW i \in 1 .. Len(rest) PROVE rest[i] # DRV[1]
    <3> HIDE DEF rest
    <3>1. rest[i] = s[b + i - 1] /\ b + i - 1 \in 1 .. Len(s)
      BY <1>3, <2>1, <2>3
    <3> QED BY <1>1, <3>1
  <2> QED BY <2>3, <2>4
<1>9. /\ first \in Seq(Byte) /\ Len(first) <= Len(rest)
      /\ \A i \in 1 .. Len(first) : first[i] = rest[i]
  <2>1. commas \in SUBSET (1 .. Len(rest))
    OBVIOUS
  <2> HIDE DEF commas, rest
  <2> QED BY <1>8, <2>1, CutBefore, Zenon
<1>10. first = DRV
  BY <1>7 DEF IsCommand
<1> HIDE DEF first, rest, s
<1>11. Len(first) = 3 /\ first[1] = DRV[1]
  BY <1>10 DEF DRV
<1>12. 1 \in 1 .. Len(first) /\ 1 \in 1 .. Len(rest)
  BY <1>8, <1>9, <1>11
<1> QED BY <1>8, <1>9, <1>11, <1>12

-----------------------------------------------------------------------------
\* The payload of the frame on the line, and what a fault has made of it.
Text == Payload(angles)

\* A payload that is not the first m bytes of the command's text, and that the
\* bytes still to come cannot repair: the XOR is off, or the 'D' is gone.
Spoilt(q, m) == \/ Checksum(q) # Checksum(SubSeq(Text, 1, m))
                \/ m > 0 /\ \A i \in 1 .. Len(q) : q[i] # DRV[1]

\* Bytes the parser takes before the verdict.
Need(p) == 3 - Len(p.checksum)

\* The parser p where k bytes of the frame have gone by, f faults among them,
\* and z if a zero was received.  A closing parser whose verdict is due before
\* the end of the frame gets it on a byte that is no newline.
Gathers(p, k, f, z) == p.state = "ACCUMULATE_PAYLOAD" =>
  /\ k = 0 => p.payload = << >> \/ f = 1
  /\ k \in 1 .. Size + 1 => \/ p.payload = SubSeq(Text, 1, k - 1)
                            \/ f = 1 /\ (z \/ Spoilt(p.payload, k - 1))
  /\ k > Size + 1 => f = 1
  /\ k = Size + 5 => p.payload = << >>

Closes(p, k, f, z) == p.state \in {"WAIT_FOR_CHECKSUM", "WAIT_FOR_NEWLINE"} =>
  /\ k = 0 => f = 1 \/ (p.state = "WAIT_FOR_NEWLINE" /\ p.payload = Payload(previous))
  /\ k > 0 /\ k + Need(p) < Size + 5 => f = 1
  /\ k > 0 /\ k + Need(p) = Size + 5 =>
       \/ p.payload = Text
       \/ /\ f = 1 /\ (z \/ Spoilt(p.payload, Size))
          /\ \A i \in 1 .. Len(p.checksum) : p.checksum[i] = CheckDigits(sender, angles)[i]
  /\ k + Need(p) > Size + 5 => p.payload = Text /\ f = 1 /\ k + Need(p) = Size + 6

Traces(p, k, f, z) == Gathers(p, k, f, z) /\ Closes(p, k, f, z)

MInv == /\ RInv /\ previous \in Command /\ faults \in {0, 1} /\ zeroed \in BOOLEAN
        /\ Traces(parser, Done, faults, zeroed)
        /\ NotMisread

-----------------------------------------------------------------------------
\* What a frame and the text in it consist of, place by place.
LEMMA TextBytes ==
  ASSUME angles \in Command
  PROVE  /\ Text \in Seq(Byte) /\ Size \in Nat /\ Size = Len(Text)
         /\ \A i \in 1 .. Size : Text[i] \in Byte \ {0, At, Star, Newline}
         /\ \A i \in 2 .. Size : Text[i] # DRV[1]
         /\ Size < MAX_PACKET_LENGTH
<1> DEFINE B == Byte \ {0, At, Star, Newline}
<1>1. /\ Text \in Seq(B) /\ Size = Len(Text) /\ Size < MAX_PACKET_LENGTH
      /\ \A i \in 2 .. Size : Text[i] # DRV[1]
  BY CommandAssumption DEF Text, Size
<1> HIDE DEF Text, Size
<1>2. Text \in Seq(Byte) /\ Size \in Nat
  BY <1>1
<1>3. \A i \in 1 .. Size : Text[i] \in B
  <2> HIDE DEF B
  <2> QED BY <1>1
<1> QED BY <1>1, <1>2, <1>3

LEMMA FrameByte ==
  ASSUME angles \in Command, sender \in Sender, NEW k \in 0 .. Size + 4
  PROVE  LET c == Frame(sender, angles)[k + 1]
         IN /\ c \in Byte
            /\ k = 0 <=> c = At
            /\ k \in 1 .. Size => c = Text[k]
            /\ k = Size + 1 <=> c = Star
            /\ k \in {Size + 2, Size + 3} => c = CheckDigits(sender, angles)[k - (Size + 1)]
            /\ k = Size + 4 <=> c = Newline
<1> DEFINE c == Frame(sender, angles)[k + 1]
           F == Frame(sender, angles)
           C == CheckDigits(sender, angles)
           G == /\ c \in Byte
                /\ k = 0 <=> c = At
                /\ k \in 1 .. Size => c = Text[k]
                /\ k = Size + 1 <=> c = Star
                /\ k \in {Size + 2, Size + 3} => c = C[k - (Size + 1)]
                /\ k = Size + 4 <=> c = Newline
<1> SUFFICES G
  OBVIOUS
<1>1. /\ F \in Seq(Byte) /\ Size \in Nat /\ Len(F) = Size + 5
      /\ F[1] = At /\ F[Size + 2] = Star /\ F[Size + 5] = Newline
      /\ F[Size + 3] = C[1] /\ F[Size + 4] = C[2]
      /\ \A i \in 1 .. Size : F[i + 1] = Text[i]
      /\ C[1] # At /\ C[2] # At
  BY FrameText DEF Size, Text
<1>2. \A i \in 1 .. Size : Text[i] \notin {At, Star, Newline}
  BY TextBytes
<1>3. C[1] \notin {Star, Newline} /\ C[2] \notin {Star, Newline}
  <2>1. IsHex(C[1]) /\ IsHex(C[2])
    BY TextAssumption
  <2> HIDE DEF C
  <2> QED BY <2>1 DEF IsHex, IsDigit, Star, Newline
<1> HIDE DEF F, C
<1>4. c = F[k + 1]
  BY DEF F
<1> HIDE DEF c
<1>5. c \in Byte
  BY <1>1, <1>4
<1>6. \/ k = 0 \/ k \in 1 .. Size \/ k = Size + 1 \/ k = Size + 2 \/ k = Size + 3 \/ k = Size + 4
  BY <1>1
<1>7. CASE k = 0
  BY <1>1, <1>4, <1>5, <1>7 DEF At, Star, Newline, C
<1>8. CASE k \in 1 .. Size
  <2>1. c = Text[k]
    BY <1>1, <1>4, <1>8
  <2> QED BY <1>1, <1>2, <1>5, <1>8, <2>1
<1>9. CASE k = Size + 1
  <2>1. c = Star
    BY <1>1, <1>4, <1>9
  <2> QED BY <1>1, <1>5, <1>9, <2>1 DEF At, Star, Newline
<1>10. CASE k = Size + 2
  <2>1. c = C[1] /\ k - (Size + 1) = 1
    BY <1>1, <1>4, <1>10
  <2> QED BY <1>1, <1>3, <1>5, <1>10, <2>1 DEF C
<1>11. CASE k = Size + 3
  <2>1. c = C[2] /\ k - (Size + 1) = 2
    BY <1>1, <1>4, <1>11
  <2> QED BY <1>1, <1>3, <1>5, <1>11, <2>1 DEF C
<1>12. CASE k = Size + 4
  <2>1. c = Newline
    BY <1>1, <1>4, <1>12
  <2> QED BY <1>1, <1>5, <1>12, <2>1 DEF At, Star, Newline
<1> QED BY <1>6, <1>7, <1>8, <1>9, <1>10, <1>11, <1>12

LEMMA TextPrefix ==
  ASSUME angles \in Command, NEW m \in 0 .. Size
  PROVE  /\ SubSeq(Text, 1, m) \in Seq(Byte)
         /\ m < Size => SubSeq(Text, 1, m + 1) = Append(SubSeq(Text, 1, m), Text[m + 1])
         /\ m = 0 => SubSeq(Text, 1, m) = << >>
         /\ m = Size => SubSeq(Text, 1, m) = Text
<1>1. Text \in Seq(Byte) /\ Size \in Nat /\ Size = Len(Text)
  BY TextBytes
<1> HIDE DEF Text, Size
<1> QED BY <1>1, SubSeqFull

\* A fault spoils the payload, and the bytes of the frame keep it spoilt.
LEMMA SpoiltDeliver ==
  ASSUME angles \in Command, NEW m \in 0 .. Size - 1, NEW q \in Seq(Byte), Spoilt(q, m)
  PROVE  Spoilt(Append(q, Text[m + 1]), m + 1)
<1> DEFINE c == Text[m + 1]
           r == SubSeq(Text, 1, m)
<1>1. /\ Size \in Nat /\ m \in 0 .. Size /\ m < Size /\ m + 1 \in 1 .. Size
      /\ c \in Byte /\ (m > 0 => c # DRV[1])
  BY TextBytes
<1>2. r \in Seq(Byte) /\ SubSeq(Text, 1, m + 1) = Append(r, c)
  BY <1>1, TextPrefix
<1> HIDE DEF c, r
<1>3. CASE Checksum(q) # Checksum(r)
  <2>1. /\ Checksum(Append(q, c)) = Toggle(Checksum(q), c)
        /\ Checksum(Append(r, c)) = Toggle(Checksum(r), c)
    BY <1>1, <1>2, ChecksumAppend
  <2>2. Checksum(Append(q, c)) # Checksum(Append(r, c))
    BY <1>3, <2>1, ChecksumType, ToggleKeepsApart, Zenon
  <2> QED BY <1>2, <2>2 DEF Spoilt, c
<1>4. CASE m > 0 /\ \A i \in 1 .. Len(q) : q[i] # DRV[1]
  <2>1. \A i \in 1 .. Len(Append(q, c)) : Append(q, c)[i] # DRV[1]
    BY <1>1, <1>4
  <2> QED BY <1>1, <2>1 DEF Spoilt, c
<1> QED BY <1>3, <1>4 DEF Spoilt, r

LEMMA SpoiltDrop ==
  ASSUME angles \in Command, NEW m \in 0 .. Size - 1
  PROVE  Spoilt(SubSeq(Text, 1, m), m + 1)
<1> DEFINE c == Text[m + 1]
           r == SubSeq(Text, 1, m)
<1>1. Size \in Nat /\ m \in 0 .. Size /\ m < Size /\ m + 1 \in 1 .. Size /\ c \in Byte /\ c # 0
  BY TextBytes
<1>2. r \in Seq(Byte) /\ SubSeq(Text, 1, m + 1) = Append(r, c)
  BY <1>1, TextPrefix
<1> HIDE DEF c, r
<1>3. Checksum(Append(r, c)) # Checksum(r)
  BY <1>1, <1>2, ChecksumAppend, ToggleMoves
<1> QED BY <1>2, <1>3 DEF Spoilt, r

LEMMA SpoiltChange ==
  ASSUME angles \in Command, NEW m \in 0 .. Size - 1, NEW c \in Byte, c # Text[m + 1]
  PROVE  Spoilt(Append(SubSeq(Text, 1, m), c), m + 1)
<1> DEFINE d == Text[m + 1]
           r == SubSeq(Text, 1, m)
<1>1. Size \in Nat /\ m \in 0 .. Size /\ m < Size /\ m + 1 \in 1 .. Size /\ d \in Byte /\ c # d
  BY TextBytes
<1>2. r \in Seq(Byte) /\ SubSeq(Text, 1, m + 1) = Append(r, d)
  BY <1>1, TextPrefix
<1> HIDE DEF d, r
<1>3. Checksum(Append(r, c)) # Checksum(Append(r, d))
  BY <1>1, <1>2, ChecksumAppend, ToggleDiffers
<1> QED BY <1>2, <1>3 DEF Spoilt, r

LEMMA SpoiltInsert ==
  ASSUME angles \in Command, NEW m \in 0 .. Size, NEW c \in Byte, c # 0
  PROVE  Spoilt(Append(SubSeq(Text, 1, m), c), m)
<1> DEFINE r == SubSeq(Text, 1, m)
<1>1. r \in Seq(Byte)
  BY TextPrefix
<1>2. Checksum(Append(r, c)) # Checksum(r)
  BY <1>1, ChecksumAppend, ToggleMoves
<1> QED BY <1>2 DEF Spoilt

LEMMA SpoiltRestart ==
  ASSUME NEW m \in Nat, m > 0
  PROVE  Spoilt(<< >>, m)
BY DEF Spoilt

-----------------------------------------------------------------------------
\* A frame is accepted at a newline, by the verdict, and nowhere else.
LEMMA AcceptedAtNewline ==
  ASSUME NEW p, BuffersOK(p), NEW c, ProcessByte(p, c).status = "SUCCESS"
  PROVE  p.state = "WAIT_FOR_NEWLINE" /\ c = Newline /\ ProcessByte(p, c) = Verdict(p)
<1> USE DEF Parser, Finish, StartFrame
<1>1. p.state # "WAIT_FOR_START"
  BY DEF ProcessByte, WaitForStart
<1>2. p.state # "ACCUMULATE_PAYLOAD"
  BY DEF ProcessByte, Accumulate, BreakOff, Star, At, Newline
<1>3. p.state # "WAIT_FOR_CHECKSUM"
  BY DEF ProcessByte, WaitForChecksum
<1>4. p.state = "WAIT_FOR_NEWLINE"
  BY <1>1, <1>2, <1>3 DEF BuffersOK, FSMState
<1> QED BY <1>4 DEF ProcessByte, WaitForNewline

\* A command's text in the buffer is taken for that command or not at all.
LEMMA TextRead ==
  ASSUME NEW a \in Command, NEW p, p.payload = Payload(a), Verdict(p).status = "SUCCESS"
  PROVE  Verdict(p).angles = Meant(a)
<1> DEFINE tokens == Tokens(CString(Payload(a)))
<1>1. IsCommand(tokens) /\ Len(tokens) = MAX_ROBOTIC_JOINTS + 1
  BY TextAssumption
<1>2. \A j \in Joint : j < Len(tokens) /\ Clamp(Atoi(tokens[j + 1])) = Meant(a)[j]
  BY <1>1, TextAssumption, JointsAssumption DEF Joint
<1>3. Verdict(p).angles = Extracted(p.angles, tokens)
  BY DEF Verdict, Finish, Parser
<1>4. Extracted(p.angles, tokens) = [j \in Joint |-> Meant(a)[j]]
  <2> HIDE DEF tokens
  <2> QED BY <1>1, <1>2 DEF Extracted
<1>5. [j \in Joint |-> Meant(a)[j]] = Meant(a)
  BY DEF Meant
<1> QED BY <1>3, <1>4, <1>5

\* A spoilt payload is refused in front of the conductor's own digits.
LEMMA SpoiltRefused ==
  ASSUME angles \in Command, sender = "conductor",
         NEW p, p.payload \in Seq(Byte), Spoilt(p.payload, Size),
         p.checksum[1] = CheckDigits(sender, angles)[1],
         p.checksum[2] = CheckDigits(sender, angles)[2]
  PROVE  Verdict(p).status # "SUCCESS"
<1>1. Size \in Nat /\ SubSeq(Text, 1, Size) = Text
  BY TextBytes, TextPrefix
<1>2. CASE Checksum(p.payload) # Checksum(Text)
  <2>1. Bits(16 * Nibble(p.checksum[1]) + Nibble(p.checksum[2])) = Checksum(Text)
    BY TextAssumption DEF Sender, Covered, Text
  <2>2. ~ChecksumMatches(p)
    BY <1>2, <2>1 DEF ChecksumMatches
  <2> QED BY <2>2 DEF Verdict, Finish, Parser
<1>3. CASE \A i \in 1 .. Len(p.payload) : p.payload[i] # DRV[1]
  <2>1. ~IsCommand(Tokens(CString(p.payload)))
    BY <1>3, HeadlessRefused
  <2> QED BY <2>1 DEF Verdict, Finish, Parser
<1> QED BY <1>1, <1>2, <1>3 DEF Spoilt

-----------------------------------------------------------------------------
\* What a byte makes of each state.
LEMMA StartByte ==
  ASSUME NEW p, NEW c, p.state = "WAIT_FOR_START"
  PROVE  LET q == ProcessByte(p, c)
         IN IF c = At THEN q.state = "ACCUMULATE_PAYLOAD" /\ q.payload = << >>
                      ELSE q.state = "WAIT_FOR_START"
BY DEF ProcessByte, WaitForStart, StartFrame, Finish, Parser

LEMMA PayloadByte ==
  ASSUME NEW p, NEW c, p.state = "ACCUMULATE_PAYLOAD"
  PROVE  LET q == ProcessByte(p, c)
         IN /\ c = Star => /\ q.state = "WAIT_FOR_CHECKSUM" /\ q.payload = p.payload
                           /\ q.checksum = << >>
            /\ c = At => q.state = "ACCUMULATE_PAYLOAD" /\ q.payload = << >>
            /\ c = Newline => q.state = "WAIT_FOR_START"
            /\ c \notin {Star, At, Newline} =>
                 \/ q.state = "WAIT_FOR_START"
                 \/ q.state = "ACCUMULATE_PAYLOAD" /\ q.payload = Append(p.payload, c)
BY DEF ProcessByte, Accumulate, BreakOff, StartFrame, Finish, Parser, Star, At, Newline

LEMMA ChecksumByte ==
  ASSUME NEW p, BuffersOK(p), NEW c \in Byte, p.state = "WAIT_FOR_CHECKSUM"
  PROVE  LET q == ProcessByte(p, c)
         IN /\ q.state \in {"WAIT_FOR_CHECKSUM", "WAIT_FOR_NEWLINE"} /\ q.payload = p.payload
            /\ Len(p.checksum) \in {0, 1} /\ Len(q.checksum) = Len(p.checksum) + 1
            /\ q.checksum = Append(p.checksum, c)
<1>1. p.checksum \in Seq(Byte) /\ Len(p.checksum) < 2 /\ Len(p.checksum) \in Nat
  BY DEF BuffersOK
<1>2. \A n \in Nat : n < 2 => n \in {0, 1}
  OBVIOUS
<1>3. Len(p.checksum) \in {0, 1}
  BY <1>1, <1>2
<1>4. Len(Append(p.checksum, c)) = Len(p.checksum) + 1
  BY <1>1
<1> QED BY <1>3, <1>4 DEF ProcessByte, WaitForChecksum, Parser

LEMMA NewlineByte ==
  ASSUME NEW p, NEW c, p.state = "WAIT_FOR_NEWLINE"
  PROVE  ProcessByte(p, c).state = "WAIT_FOR_START"
BY DEF ProcessByte, WaitForNewline, Verdict, Finish, Parser

-----------------------------------------------------------------------------
\* The frame on the line, and a parser at the k-th of its bytes.
Along(p, k) == /\ sender \in Sender /\ angles \in Command
               /\ BuffersOK(p) /\ k \in 0 .. Size + 5

\* How far a parser that has seen the '*' is from the verdict.
LEMMA NeedRange ==
  ASSUME NEW p, BuffersOK(p)
  PROVE  /\ p.state = "WAIT_FOR_CHECKSUM" => Len(p.checksum) \in {0, 1} /\ Need(p) \in {2, 3}
         /\ p.state = "WAIT_FOR_NEWLINE" => Len(p.checksum) = 2 /\ Need(p) = 1
<1>1. CASE p.state = "WAIT_FOR_CHECKSUM"
  <2>1. Len(p.checksum) \in Nat /\ Len(p.checksum) < 2
    BY <1>1 DEF BuffersOK
  <2>2. \A l \in Nat : l < 2 => l \in {0, 1} /\ 3 - l \in {2, 3}
    OBVIOUS
  <2>3. Len(p.checksum) \in {0, 1} /\ 3 - Len(p.checksum) \in {2, 3}
    BY <2>1, <2>2, Zenon
  <2> QED BY <1>1, <2>3 DEF Need
<1>2. CASE p.state = "WAIT_FOR_NEWLINE"
  <2>1. Len(p.checksum) = 2
    BY <1>2 DEF BuffersOK
  <2> QED BY <1>2, <2>1 DEF Need
<1>3. CASE p.state \notin {"WAIT_FOR_CHECKSUM", "WAIT_FOR_NEWLINE"}
  BY <1>3
<1> QED BY <1>1, <1>2, <1>3

\* A byte of a checksum brings the verdict nearer by one.
LEMMA NeedFalls ==
  ASSUME NEW p, BuffersOK(p), NEW c \in Byte, p.state = "WAIT_FOR_CHECKSUM"
  PROVE  /\ Need(p) \in {2, 3} /\ Need(ProcessByte(p, c)) = Need(p) - 1
         /\ Len(p.checksum) = 3 - Need(p)
<1> DEFINE q == ProcessByte(p, c)
<1>1. Len(p.checksum) \in {0, 1} /\ Len(q.checksum) = Len(p.checksum) + 1
  BY ChecksumByte
<1> HIDE DEF q
<1>2. \A l \in {0, 1} : 3 - l \in {2, 3} /\ 3 - (l + 1) = (3 - l) - 1 /\ l = 3 - (3 - l)
  OBVIOUS
<1>3. /\ 3 - Len(p.checksum) \in {2, 3}
      /\ 3 - (Len(p.checksum) + 1) = (3 - Len(p.checksum)) - 1
      /\ Len(p.checksum) = 3 - (3 - Len(p.checksum))
  BY <1>1, <1>2, Zenon
<1> QED BY <1>1, <1>3 DEF Need, q

\* Nothing is known of a parser that hunts, and an accumulator that begins anew
\* is at the frame's first byte or without the 'D'.
LEMMA Hunting ==
  ASSUME NEW p, NEW k, NEW f, NEW z, p.state = "WAIT_FOR_START"
  PROVE  Traces(p, k, f, z)
BY DEF Traces, Gathers, Closes

LEMMA Restarted ==
  ASSUME NEW p, NEW k \in Nat, NEW f, NEW z, angles \in Command,
         p.state = "ACCUMULATE_PAYLOAD", p.payload = << >>, f = 1 \/ k = 1
  PROVE  Traces(p, k, f, z)
<1>1. Size \in Nat
  BY TextBytes
<1>2. ASSUME k \in 1 .. Size + 1
      PROVE  << >> = SubSeq(Text, 1, k - 1) \/ (f = 1 /\ Spoilt(<< >>, k - 1))
  <2>1. k - 1 \in 0 .. Size /\ (k = 1 => k - 1 = 0) /\ (k # 1 => k - 1 > 0) /\ k - 1 \in Nat
    BY <1>1, <1>2
  <2> QED BY <2>1, TextPrefix, SpoiltRestart
<1>3. ASSUME k > Size + 1 PROVE f = 1
  BY <1>1, <1>3
<1>4. Gathers(p, k, f, z)
  BY <1>1, <1>2, <1>3 DEF Gathers
<1> QED BY <1>4 DEF Traces, Closes

\* A byte the line added, or made of another one, in a frame met by no fault yet.
LEMMA FaultyByte ==
  ASSUME NEW p, NEW k, Along(p, k), NEW z \in BOOLEAN, Traces(p, k, 0, z), NEW c \in Byte,
         NEW j, j = k \/ (j = k + 1 /\ k # Size + 5 /\ c # Frame(sender, angles)[k + 1])
  PROVE  Traces(ProcessByte(p, c), j, 1, z \/ c = 0)
<1> DEFINE q == ProcessByte(p, c)
<1>1. /\ Size \in Nat /\ k \in 0 .. Size + 5 /\ sender \in Sender /\ angles \in Command
      /\ BuffersOK(p) /\ p.payload \in Seq(Byte) /\ Gathers(p, k, 0, z) /\ Closes(p, k, 0, z)
  BY TextBytes DEF Along, Traces, BuffersOK
<1>2. j \in Nat /\ (j = k \/ j = k + 1)
  BY <1>1
<1>3. CASE p.state = "WAIT_FOR_START"
  <2>1. CASE c = At
    BY <1>1, <1>2, <1>3, <2>1, StartByte, Restarted
  <2>2. CASE c # At
    BY <1>3, <2>2, StartByte, Hunting
  <2> QED BY <2>1, <2>2
<1>4. CASE p.state = "ACCUMULATE_PAYLOAD"
  <2>1. /\ k \in 0 .. Size + 1
        /\ k = 0 => p.payload = << >>
        /\ k # 0 => p.payload = SubSeq(Text, 1, k - 1)
    BY <1>1, <1>4 DEF Gathers
  <2>2. CASE c = Newline
    BY <1>4, <2>2, PayloadByte, Hunting
  <2>3. CASE c = At
    BY <1>1, <1>2, <1>4, <2>3, PayloadByte, Restarted
  <2>4. CASE c = Star
    <3>1. q.state = "WAIT_FOR_CHECKSUM" /\ q.checksum = << >>
      BY <1>4, <2>4, PayloadByte
    <3>2. Need(q) = 3
      <4> HIDE DEF q
      <4> QED BY <3>1 DEF Need
    <3>3. j <= Size + 1
      <4>1. CASE j = k
        BY <1>1, <2>1, <4>1
      <4>2. CASE j = k + 1 /\ k # Size + 5 /\ c # Frame(sender, angles)[k + 1]
        <5>1. k = Size + 1 => k \in 0 .. Size + 4
          BY <1>1
        <5>2. k # Size + 1
          BY <1>1, <2>4, <4>2, <5>1, FrameByte
        <5> QED BY <1>1, <2>1, <4>2, <5>2
      <4> QED BY <4>1, <4>2
    <3> HIDE DEF q
    <3>4. j + 3 # Size + 5 /\ ~(j + 3 > Size + 5)
      BY <1>1, <1>2, <3>3
    <3> QED BY <3>1, <3>2, <3>4 DEF q, Traces, Gathers, Closes
  <2>5. CASE c \notin {Star, At, Newline} /\ q.state # "WAIT_FOR_START"
    <3>1. q.state = "ACCUMULATE_PAYLOAD" /\ q.payload = Append(p.payload, c)
      BY <1>4, <2>5, PayloadByte
    <3>2. ASSUME j \in 1 .. Size + 1
          PROVE  z \/ c = 0 \/ Spoilt(Append(p.payload, c), j - 1)
      <4>1. CASE j = k \/ k = 0
        <5>1. j - 1 \in 0 .. Size /\ p.payload = SubSeq(Text, 1, j - 1)
          <6>1. CASE k = 0
            <7>1. j - 1 = 0 /\ 0 \in 0 .. Size
              BY <1>1, <1>2, <3>2, <6>1
            <7> QED BY <1>1, <2>1, <6>1, <7>1, TextPrefix
          <6>2. CASE k # 0
            BY <1>1, <2>1, <3>2, <4>1, <6>2
          <6> QED BY <6>1, <6>2
        <5> QED BY <1>1, <5>1, SpoiltInsert
      <4>2. CASE j # k /\ k # 0
        <5> DEFINE m == k - 1
        <5>1. /\ m \in 0 .. Size - 1 /\ m + 1 = k /\ j - 1 = m + 1 /\ k \in 1 .. Size
              /\ k \in 0 .. Size + 4 /\ p.payload = SubSeq(Text, 1, m)
              /\ c # Frame(sender, angles)[k + 1]
          BY <1>1, <1>2, <2>1, <3>2, <4>2
        <5>2. c # Text[m + 1]
          BY <1>1, <5>1, FrameByte
        <5> HIDE DEF m
        <5> QED BY <1>1, <5>1, <5>2, SpoiltChange
      <4> QED BY <4>1, <4>2
    <3>3. j # Size + 5
      BY <1>1, <1>2, <2>1
    <3> HIDE DEF q
    <3> QED BY <3>1, <3>2, <3>3 DEF q, Traces, Gathers, Closes
  <2> QED BY <2>2, <2>3, <2>4, <2>5, Hunting
<1>5. CASE p.state = "WAIT_FOR_CHECKSUM"
  <2>1. q.state \in {"WAIT_FOR_CHECKSUM", "WAIT_FOR_NEWLINE"} /\ q.payload = p.payload
    BY <1>1, <1>5, ChecksumByte
  <2>2. Need(p) \in {2, 3} /\ Need(q) = Need(p) - 1
    BY <1>1, <1>5, NeedFalls
  <2>3. k # 0 /\ k + Need(p) = Size + 5 /\ p.payload = Text
    BY <1>1, <1>5, <2>2 DEF Closes
  <2> HIDE DEF q
  <2>4. j # 0 /\ ~(j + Need(q) > Size + 5)
    BY <1>1, <1>2, <2>2, <2>3
  <2> QED BY <2>1, <2>3, <2>4 DEF q, Traces, Gathers, Closes
<1>6. CASE p.state = "WAIT_FOR_NEWLINE"
  BY <1>6, NewlineByte, Hunting
<1> QED BY <1>1, <1>3, <1>4, <1>5, <1>6 DEF BuffersOK, FSMState

\* A byte that does not arrive.
LEMMA LostByte ==
  ASSUME NEW p, NEW k, Along(p, k), NEW z \in BOOLEAN, Traces(p, k, 0, z), k # Size + 5
  PROVE  Traces(p, k + 1, 1, z)
<1>1. /\ Size \in Nat /\ k \in 0 .. Size + 4 /\ angles \in Command
      /\ BuffersOK(p) /\ Gathers(p, k, 0, z) /\ Closes(p, k, 0, z)
  BY TextBytes DEF Along, Traces
<1>2. CASE p.state = "ACCUMULATE_PAYLOAD"
  <2>1. /\ k \in 0 .. Size + 1
        /\ k = 0 => p.payload = << >>
        /\ k # 0 => p.payload = SubSeq(Text, 1, k - 1)
    BY <1>1, <1>2 DEF Gathers
  <2>2. CASE k = 0
    BY <1>1, <1>2, <2>1, <2>2, Restarted
  <2>3. CASE k # 0
    <3> DEFINE m == k - 1
    <3>1. /\ m \in 0 .. Size /\ (k + 1 \in 1 .. Size + 1 => m \in 0 .. Size - 1)
          /\ m + 1 = (k + 1) - 1 /\ p.payload = SubSeq(Text, 1, m) /\ k + 1 # Size + 5
          /\ k + 1 # 0
      BY <1>1, <2>1, <2>3
    <3> HIDE DEF m
    <3>2. k + 1 \in 1 .. Size + 1 => Spoilt(p.payload, (k + 1) - 1)
      BY <1>1, <3>1, SpoiltDrop
    <3>3. Gathers(p, k + 1, 1, z)
      BY <3>1, <3>2 DEF Gathers
    <3>4. Closes(p, k + 1, 1, z)
      BY <1>2 DEF Closes
    <3> QED BY <3>3, <3>4 DEF Traces
  <2> QED BY <2>2, <2>3
<1>3. CASE p.state \in {"WAIT_FOR_CHECKSUM", "WAIT_FOR_NEWLINE"}
  <2>1. Need(p) \in {1, 2, 3}
    BY <1>1, <1>3, NeedRange
  <2>2. CASE k = 0
    <3>1. (k + 1) + Need(p) < Size + 5
      BY <1>1, <2>1, <2>2
    <3>2. (k + 1) + Need(p) # Size + 5 /\ ~((k + 1) + Need(p) > Size + 5)
      BY <1>1, <2>1, <3>1
    <3> QED BY <1>3, <3>2 DEF Traces, Gathers, Closes
  <2>3. CASE k # 0
    <3>1. k + Need(p) = Size + 5 /\ p.payload = Text
      BY <1>1, <1>3, <2>1, <2>3 DEF Closes
    <3>2. (k + 1) + Need(p) = Size + 6 /\ k + 1 # 0 /\ (k + 1) + Need(p) # Size + 5
      BY <1>1, <2>1, <3>1
    <3> QED BY <1>3, <3>1, <3>2 DEF Traces, Gathers, Closes
  <2> QED BY <2>2, <2>3
<1>4. CASE p.state = "WAIT_FOR_START"
  BY <1>4, Hunting
<1> QED BY <1>1, <1>2, <1>3, <1>4 DEF BuffersOK, FSMState

-----------------------------------------------------------------------------
\* A byte of the frame itself.
LEMMA DeliveredByte ==
  ASSUME NEW p, NEW k, Along(p, k), NEW f \in {0, 1}, NEW z \in BOOLEAN, NEW y \in BOOLEAN, z => y,
         Traces(p, k, f, z), k # Size + 5
  PROVE  Traces(ProcessByte(p, Frame(sender, angles)[k + 1]), k + 1, f, y)
<1> DEFINE c == Frame(sender, angles)[k + 1]
           q == ProcessByte(p, c)
           C == CheckDigits(sender, angles)
<1>1. /\ Size \in Nat /\ k \in 0 .. Size + 4 /\ angles \in Command /\ sender \in Sender
      /\ BuffersOK(p) /\ p.payload \in Seq(Byte) /\ p.checksum \in Seq(Byte)
      /\ Gathers(p, k, f, z) /\ Closes(p, k, f, z)
  BY TextBytes DEF Along, Traces, BuffersOK
<1>2. /\ c \in Byte
      /\ k = 0 <=> c = At
      /\ k \in 1 .. Size => c = Text[k]
      /\ k = Size + 1 <=> c = Star
      /\ k \in {Size + 2, Size + 3} => c = C[k - (Size + 1)]
      /\ k = Size + 4 <=> c = Newline
  BY <1>1, FrameByte
<1> SUFFICES Traces(q, k + 1, f, y)
  OBVIOUS
<1> HIDE DEF c, C
<1>3. CASE p.state = "WAIT_FOR_START"
  <2>1. CASE k = 0
    BY <1>1, <1>2, <1>3, <2>1, StartByte, Restarted
  <2>2. CASE k # 0
    BY <1>2, <1>3, <2>2, StartByte, Hunting
  <2> QED BY <2>1, <2>2
<1>4. CASE p.state = "ACCUMULATE_PAYLOAD"
  <2>1. CASE k = 0
    BY <1>1, <1>2, <1>4, <2>1, PayloadByte, Restarted
  <2>2. CASE k \in 1 .. Size /\ q.state # "WAIT_FOR_START"
    <3> DEFINE m == k - 1
    <3>1. /\ m \in 0 .. Size - 1 /\ m \in 0 .. Size /\ m < Size /\ m + 1 = k
          /\ (k + 1) - 1 = m + 1 /\ k + 1 # 0 /\ ~(k + 1 > Size + 1) /\ k + 1 # Size + 5
          /\ k \in 1 .. Size + 1
      BY <1>1, <2>2
    <3>2. c = Text[m + 1] /\ c \notin {Star, At, Newline}
      BY <1>1, <1>2, <2>2, <3>1
    <3>3. q.state = "ACCUMULATE_PAYLOAD" /\ q.payload = Append(p.payload, c)
      BY <1>4, <2>2, <3>2, PayloadByte
    <3>4. p.payload = SubSeq(Text, 1, m) \/ (f = 1 /\ (z \/ Spoilt(p.payload, m)))
      BY <1>1, <1>4, <3>1 DEF Gathers
    <3> HIDE DEF m, q
    <3>5. \/ q.payload = SubSeq(Text, 1, m + 1)
          \/ f = 1 /\ (y \/ Spoilt(q.payload, m + 1))
      <4>1. CASE p.payload = SubSeq(Text, 1, m)
        BY <1>1, <3>1, <3>2, <3>3, <4>1, TextPrefix
      <4>2. CASE f = 1 /\ (z \/ Spoilt(p.payload, m))
        BY <1>1, <3>1, <3>2, <3>3, <4>2, SpoiltDeliver
      <4> QED BY <3>4, <4>1, <4>2
    <3> QED BY <3>1, <3>3, <3>5 DEF Traces, Gathers, Closes
  <2>3. CASE k = Size + 1
    <3>1. /\ q.state = "WAIT_FOR_CHECKSUM" /\ q.payload = p.payload /\ q.checksum = << >>
      BY <1>2, <1>4, <2>3, PayloadByte
    <3>2. /\ (k + 1) + 3 = Size + 5 /\ k + 1 # 0 /\ ~((k + 1) + 3 > Size + 5)
          /\ k \in 1 .. Size + 1 /\ k - 1 = Size /\ Size \in 0 .. Size
          /\ ~((k + 1) + 3 < Size + 5)
      BY <1>1, <2>3
    <3>3. p.payload = Text \/ (f = 1 /\ (z \/ Spoilt(p.payload, Size)))
      BY <1>1, <1>4, <3>2, TextPrefix DEF Gathers
    <3> HIDE DEF q
    <3>4. Need(q) = 3 /\ \A i \in 1 .. Len(q.checksum) : q.checksum[i] = C[i]
      BY <3>1 DEF Need
    <3> QED BY <3>1, <3>2, <3>3, <3>4 DEF Traces, Gathers, Closes, C
  <2>4. CASE k \in {Size + 2, Size + 3} /\ q.state # "WAIT_FOR_START"
    <3>1. /\ c \notin {Star, At, Newline} /\ k + 1 # 0 /\ k + 1 # Size + 5
          /\ k + 1 \notin 1 .. Size + 1 /\ k > Size + 1
      BY <1>1, <1>2, <2>4
    <3>2. q.state = "ACCUMULATE_PAYLOAD" /\ f = 1
      BY <1>1, <1>4, <2>4, <3>1, PayloadByte DEF Gathers
    <3> HIDE DEF q
    <3> QED BY <3>1, <3>2 DEF Traces, Gathers, Closes
  <2>5. CASE k = Size + 4
    BY <1>2, <1>4, <2>5, PayloadByte, Hunting
  <2>6. k = 0 \/ k \in 1 .. Size \/ k = Size + 1 \/ k \in {Size + 2, Size + 3} \/ k = Size + 4
    BY <1>1
  <2> QED BY <2>1, <2>2, <2>3, <2>4, <2>5, <2>6, Hunting
<1>5. CASE p.state = "WAIT_FOR_CHECKSUM"
  <2>1. /\ q.state \in {"WAIT_FOR_CHECKSUM", "WAIT_FOR_NEWLINE"} /\ q.payload = p.payload
        /\ q.checksum = Append(p.checksum, c)
    BY <1>1, <1>2, <1>5, ChecksumByte
  <2>2. Need(p) \in {2, 3} /\ Need(q) = Need(p) - 1 /\ Len(p.checksum) = 3 - Need(p)
    BY <1>1, <1>2, <1>5, NeedFalls
  <2> HIDE DEF q
  <2>3. /\ (k + 1) + Need(q) = k + Need(p) /\ k + 1 # 0
    BY <1>1, <2>2
  <2>4. k = 0 => f = 1 /\ k + Need(p) # Size + 5 /\ ~(k + Need(p) > Size + 5)
    <3>1. k = 0 => f = 1
      BY <1>1, <1>5 DEF Closes
    <3> QED BY <1>1, <2>2, <3>1
  <2>5. CASE k + Need(p) = Size + 5
    <3>1. \/ p.payload = Text
          \/ /\ f = 1 /\ (z \/ Spoilt(p.payload, Size))
             /\ \A i \in 1 .. Len(p.checksum) : p.checksum[i] = C[i]
      BY <1>1, <1>5, <2>4, <2>5 DEF Closes, C
    <3>2. c = C[Len(p.checksum) + 1]
      <4>1. k \in {Size + 2, Size + 3} /\ Len(p.checksum) + 1 = k - (Size + 1)
        BY <1>1, <2>2, <2>5
      <4> QED BY <1>2, <4>1
    <3>3. (\A i \in 1 .. Len(p.checksum) : p.checksum[i] = C[i]) =>
            \A i \in 1 .. Len(q.checksum) : q.checksum[i] = C[i]
      BY <1>1, <1>2, <2>1, <3>2
    <3>4. ~(k + Need(p) > Size + 5) /\ ~(k + Need(p) < Size + 5)
      BY <1>1, <2>5
    <3> QED BY <2>1, <2>3, <2>5, <3>1, <3>3, <3>4 DEF Traces, Gathers, Closes, C
  <2>6. CASE k + Need(p) # Size + 5
    <3>1. k + Need(p) < Size + 5 => f = 1
      BY <1>1, <1>5, <2>4 DEF Closes
    <3>2. k + Need(p) > Size + 5 => p.payload = Text /\ f = 1 /\ k + Need(p) = Size + 6
      BY <1>1, <1>5 DEF Closes
    <3> QED BY <2>1, <2>3, <2>6, <3>1, <3>2 DEF Traces, Gathers, Closes
  <2> QED BY <2>5, <2>6
<1>6. CASE p.state = "WAIT_FOR_NEWLINE"
  BY <1>6, NewlineByte, Hunting
<1> QED BY <1>1, <1>3, <1>4, <1>5, <1>6 DEF BuffersOK, FSMState

\* A frame is accepted for what it or its predecessor says.
LEMMA AcceptedDelivery ==
  ASSUME NEW p, NEW k, Along(p, k), NEW f \in {0, 1}, Traces(p, k, f, FALSE), k # Size + 5,
         sender = "conductor", previous \in Command,
         NEW q, q = ProcessByte(p, Frame(sender, angles)[k + 1]), q.status = "SUCCESS"
  PROVE  q.angles \in {Meant(angles), Meant(previous)}
<1>1. /\ Size \in Nat /\ k \in 0 .. Size + 4 /\ angles \in Command /\ sender \in Sender
      /\ BuffersOK(p) /\ p.payload \in Seq(Byte)
  BY TextBytes DEF Along, BuffersOK
<1>7. Closes(p, k, f, FALSE)
  BY DEF Traces
<1>2. p.state = "WAIT_FOR_NEWLINE" /\ Frame(sender, angles)[k + 1] = Newline /\ q = Verdict(p)
  BY <1>1, AcceptedAtNewline
<1>3. k = Size + 4 /\ Need(p) = 1 /\ Len(p.checksum) = 2
  BY <1>1, <1>2, FrameByte, NeedRange
<1>4. k + Need(p) = Size + 5 /\ k > 0
  BY <1>1, <1>3
<1>5. CASE p.payload = Text
  BY <1>1, <1>2, <1>5, TextRead DEF Text
<1>6. CASE p.payload # Text
  <2>1. /\ Spoilt(p.payload, Size)
        /\ \A i \in 1 .. 2 : p.checksum[i] = CheckDigits(sender, angles)[i]
    BY <1>2, <1>3, <1>4, <1>6, <1>7 DEF Closes
  <2>2. /\ p.checksum[1] = CheckDigits(sender, angles)[1]
        /\ p.checksum[2] = CheckDigits(sender, angles)[2]
    <3>1. 1 \in 1 .. 2 /\ 2 \in 1 .. 2
      OBVIOUS
    <3> QED BY <2>1, <3>1, Zenon
  <2> QED BY <1>1, <1>2, <2>1, <2>2, SpoiltRefused
<1> QED BY <1>5, <1>6

\* A frame that a fault of its own completes was whole but for its newline.
LEMMA AcceptedFault ==
  ASSUME NEW p, NEW k, Along(p, k), Traces(p, k, 0, FALSE), previous \in Command,
         NEW c, NEW q, q = ProcessByte(p, c), q.status = "SUCCESS"
  PROVE  q.angles \in {Meant(angles), Meant(previous)}
<1>1. /\ Size \in Nat /\ k \in 0 .. Size + 5 /\ angles \in Command
      /\ BuffersOK(p) /\ Closes(p, k, 0, FALSE)
  BY TextBytes DEF Along, Traces
<1>2. p.state = "WAIT_FOR_NEWLINE" /\ q = Verdict(p)
  BY <1>1, AcceptedAtNewline
<1>3. Need(p) = 1
  BY <1>1, <1>2, NeedRange
<1>4. k = 0 \/ k + Need(p) < Size + 5 \/ k + Need(p) = Size + 5 \/ k + Need(p) > Size + 5
  BY <1>1, <1>3
<1>5. p.payload = Text \/ p.payload = Payload(previous)
  BY <1>1, <1>2, <1>4 DEF Closes
<1> QED BY <1>1, <1>2, <1>5, TextRead DEF Text

-----------------------------------------------------------------------------
\* An empty parser in front of a whole frame.
LEMMA MisreadInit ==
  ASSUME Init
  PROVE  MInv
<1>1. RInv
  BY ResyncInit
<1>2. /\ sender \in Sender /\ angles \in Command /\ wire = Frame(sender, angles)
      /\ previous \in Command /\ faults = 0 /\ zeroed = FALSE
      /\ parser.state = "WAIT_FOR_START" /\ parser.status = "IN_PROGRESS"
  BY DEF Init, Initial, Parser
<1>3. Traces(parser, Done, faults, zeroed)
  BY <1>2, Hunting
<1> QED BY <1>1, <1>2, <1>3 DEF MInv, NotMisread

\* How many bytes of the frame have gone by.
LEMMA MPlaces ==
  ASSUME MInv
  PROVE  /\ Along(parser, Done) /\ Len(wire) = Size + 5 - Done /\ wire \in Seq(Byte)
         /\ Size \in Nat /\ Done \in 0 .. Size + 5
<1>1. sender \in Sender /\ angles \in Command /\ BuffersOK(parser) /\ Suffix /\ wire \in Seq(Byte)
  BY DEF MInv, RInv, LinkInv
<1>2. Size \in Nat
  BY <1>1, TextBytes
<1>3. Done = Size + 5 - Len(wire) /\ Len(wire) \in Nat /\ Done \in 0 .. Size + 5
  BY <1>1 DEF Done, Suffix
<1>4. Len(wire) = Size + 5 - Done
  <2>1. \A n, l \in Nat : l = n + 5 - (n + 5 - l)
    OBVIOUS
  <2> QED BY <1>2, <1>3, <2>1
<1> QED BY <1>1, <1>2, <1>3, <1>4 DEF Along

\* What the invariant says of the same frame after a byte.
LEMMA Carried ==
  ASSUME RInv', UNCHANGED <<sender, angles, previous>>, previous \in Command,
         NEW p, parser' = p, NEW k, Done' = k, NEW f \in {0, 1}, faults' = f,
         NEW z \in BOOLEAN, zeroed' = z, Traces(p, k, f, z),
         sender = "conductor" /\ p.status = "SUCCESS" /\ ~z =>
           p.angles \in {Meant(angles), Meant(previous)}
  PROVE  MInv'
<1>1. Traces(parser, Done, faults, zeroed)'
  BY DEF Traces, Gathers, Closes, Spoilt, Text, Size, Need
<1>2. NotMisread'
  BY DEF NotMisread
<1> QED BY <1>1, <1>2 DEF MInv

\* Every byte delivered, lost, changed or added, and every frame sent.
LEMMA MisreadStep ==
  ASSUME MaxFaults <= 1, MInv, [Next]_vars
  PROVE  MInv'
<1>0. RInv'
  BY ResyncStep DEF MInv
<1>1. /\ Along(parser, Done) /\ Len(wire) = Size + 5 - Done /\ wire \in Seq(Byte) 
      /\ Size \in Nat /\ Done \in 0 .. Size + 5
      /\ faults \in {0, 1} /\ zeroed \in BOOLEAN /\ previous \in Command
      /\ Traces(parser, Done, faults, zeroed) /\ NotMisread /\ RInv
  BY MPlaces DEF MInv
<1>2. ASSUME wire # << >>, wire' = Tail(wire), angles' = angles
      PROVE  Done # Size + 5 /\ Done' = Done + 1
  <2>1. Size' = Size /\ Len(wire) \in Nat \ {0} /\ Len(wire') = Len(wire) - 1
    BY <1>1, <1>2 DEF Size
  <2>2. Done # Size + 5
    BY <1>1, <2>1
  <2>3. Done' = Size + 5 - (Len(wire) - 1) /\ Done = Size + 5 - Len(wire)
    BY <2>1 DEF Done
  <2>4. \A n, l \in Nat : n + 5 - (l - 1) = (n + 5 - l) + 1
    OBVIOUS
  <2> QED BY <1>1, <2>1, <2>2, <2>3, <2>4
<1>3. ASSUME Fault PROVE faults = 0 /\ faults' = 1 /\ UNCHANGED <<sender, angles, previous>>
  BY <1>1, <1>3, FaultsAssumption DEF Fault
<1>4. CASE Deliver
  <2> DEFINE b == Frame(sender, angles)[Done + 1]
             p == ProcessByte(parser, b)
             z == zeroed'
  <2>1. /\ wire # << >> /\ wire' = Tail(wire) /\ Receive(Head(wire))
        /\ UNCHANGED <<sender, angles, previous, faults>>
    BY <1>4 DEF Deliver
  <2>2. Done # Size + 5 /\ Done' = Done + 1
    BY <1>2, <2>1
  <2>3. parser' = p
    BY <1>1, <1>4, LineDelivers
  <2>4. z \in BOOLEAN /\ (zeroed => z)
    BY <1>1, <2>1 DEF Receive
  <2>5. Traces(p, Done + 1, faults, z)
    BY <1>1, <2>2, <2>4, DeliveredByte
  <2>6. ASSUME sender = "conductor", p.status = "SUCCESS", ~z
        PROVE  p.angles \in {Meant(angles), Meant(previous)}
    <3>1. zeroed = FALSE
      BY <1>1, <2>4, <2>6
    <3> HIDE DEF z
    <3> QED BY <1>1, <2>2, <2>6, <3>1, AcceptedDelivery
  <2> HIDE DEF b, p
  <2> QED BY <1>0, <1>1, <2>1, <2>2, <2>3, <2>4, <2>5, <2>6, Carried
<1>5. CASE Drop
  <2>1. /\ wire # << >> /\ wire' = Tail(wire) /\ UNCHANGED <<parser, zeroed>> /\ Fault
    BY <1>5 DEF Drop
  <2>2. faults = 0 /\ faults' = 1 /\ UNCHANGED <<sender, angles, previous>>
    BY <1>3, <2>1
  <2>3. Done # Size + 5 /\ Done' = Done + 1
    BY <1>2, <2>1, <2>2
  <2>4. Traces(parser, Done + 1, 1, zeroed)
    BY <1>1, <2>2, <2>3, LostByte
  <2>5. sender = "conductor" /\ parser.status = "SUCCESS" /\ ~zeroed =>
          parser.angles \in {Meant(angles), Meant(previous)}
    BY <1>1 DEF NotMisread
  <2> QED BY <1>0, <1>1, <2>1, <2>2, <2>3, <2>4, <2>5, Carried
<1>6. ASSUME NEW c \in Byte, Fault, Receive(c),
             \/ Done' = Done
             \/ Done' = Done + 1 /\ Done # Size + 5 /\ c # Frame(sender, angles)[Done + 1]
      PROVE  MInv'
  <2> DEFINE p == ProcessByte(parser, c)
  <2>1. faults = 0 /\ faults' = 1 /\ UNCHANGED <<sender, angles, previous>>
    BY <1>3, <1>6
  <2>2. parser' = p /\ zeroed' = (zeroed \/ c = 0)
    BY <1>6 DEF Receive
  <2>3. PICK k : k = Done' /\ (k = Done \/ (k = Done + 1 /\ Done # Size + 5
                                           /\ c # Frame(sender, angles)[Done + 1]))
    BY <1>6
  <2>4. Traces(p, k, 1, zeroed \/ c = 0)
    BY <1>1, <2>1, <2>3, FaultyByte
  <2>5. ASSUME p.status = "SUCCESS", ~(zeroed \/ c = 0)
        PROVE  p.angles \in {Meant(angles), Meant(previous)}
    <3>1. zeroed = FALSE
      BY <1>1, <2>5
    <3> QED BY <1>1, <2>1, <2>5, <3>1, AcceptedFault
  <2> HIDE DEF p
  <2> QED BY <1>0, <1>1, <2>1, <2>2, <2>3, <2>4, <2>5, Carried
<1>7. ASSUME NEW c \in LineByte, Change(c) PROVE MInv'
  <2>1. /\ c \in Byte /\ Fault /\ Receive(c) /\ wire # << >> /\ wire' = Tail(wire)
        /\ c # Head(wire)
    BY <1>7, LineAssumption DEF Change
  <2>2. Done # Size + 5 /\ Done' = Done + 1
    BY <1>2, <1>3, <2>1
  <2>3. Head(wire) = Frame(sender, angles)[Done + 1]
    BY <1>1, <2>1 DEF RInv, Suffix
  <2> QED BY <1>6, <2>1, <2>2, <2>3
<1>8. ASSUME NEW c \in LineByte, Insert(c) PROVE MInv'
  <2>1. c \in Byte /\ Fault /\ Receive(c) /\ UNCHANGED wire
    BY <1>8, LineAssumption DEF Insert
  <2>2. Done' = Done
    BY <1>3, <2>1 DEF Done, Size
  <2> QED BY <1>6, <2>1, <2>2
<1>9. ASSUME NEW a \in Command, Send(a) PROVE MInv'
  <2>1. /\ wire = << >> /\ angles' = a /\ previous' = angles /\ wire' = Frame(sender, a)
        /\ faults' = 0 /\ zeroed' = FALSE /\ sender' = sender
        /\ parser' = [parser EXCEPT !.status = "IN_PROGRESS"]
    BY <1>9 DEF Send
  <2>2. Done = Size + 5 /\ sender \in Sender /\ angles \in Command /\ BuffersOK(parser)
    BY <1>1, <2>1 DEF Along
  <2>3. Size' \in Nat /\ Done' = 0
    <3>1. Size' \in Nat /\ Len(wire') = Size' + 5
      BY <2>1, <2>2, FrameText DEF Size
    <3>2. PICK n \in Nat : n = Size'
      BY <3>1
    <3>3. n + 5 - (n + 5) = 0
      OBVIOUS
    <3>4. Done' = n + 5 - (n + 5)
      BY <3>1, <3>2 DEF Done
    <3> QED BY <3>1, <3>3, <3>4
  <2>4. /\ parser'.state = parser.state /\ parser'.payload = parser.payload
        /\ parser'.checksum = parser.checksum /\ parser'.status = "IN_PROGRESS"
    BY <2>1, <2>2 DEF BuffersOK
  <2>5. parser.state = "ACCUMULATE_PAYLOAD" => parser.payload = << >>
    BY <1>1, <2>2 DEF Traces, Gathers
  <2>6. ASSUME parser.state \in {"WAIT_FOR_CHECKSUM", "WAIT_FOR_NEWLINE"}
        PROVE  parser.state = "WAIT_FOR_NEWLINE" /\ parser.payload = Payload(angles)
    <3>1. Need(parser) \in {1, 2, 3}
      BY <2>2, <2>6, NeedRange
    <3>2. Done + Need(parser) > Size + 5
      BY <1>1, <2>2, <3>1
    <3>3. parser.payload = Text /\ Done + Need(parser) = Size + 6
      BY <1>1, <2>6, <3>2 DEF Traces, Closes
    <3>4. Need(parser) = 1
      BY <1>1, <2>2, <3>1, <3>3
    <3> QED BY <2>2, <2>6, <3>3, <3>4, NeedRange DEF Text
  <2>7. PICK n \in Nat : n = Size'
    BY <2>3
  <2>8. Gathers(parser, Done, faults, zeroed)'
    <3>1. 0 \notin 1 .. n + 1 /\ ~(0 > n + 1) /\ 0 # n + 5
      OBVIOUS
    <3> QED BY <2>3, <2>4, <2>5, <2>7, <3>1 DEF Gathers
  <2>9. Closes(parser, Done, faults, zeroed)'
    <3>1. SUFFICES ASSUME parser'.state \in {"WAIT_FOR_CHECKSUM", "WAIT_FOR_NEWLINE"}
                   PROVE  Closes(parser, Done, faults, zeroed)'
      BY DEF Closes
    <3>2. parser.state = "WAIT_FOR_NEWLINE" /\ parser.payload = Payload(angles)
      BY <2>4, <2>6, <3>1
    <3>3. parser'.state = "WAIT_FOR_NEWLINE" /\ parser'.payload = Payload(previous')
      BY <2>1, <2>4, <3>2
    <3>4. Need(parser)' = Need(parser) /\ Need(parser) \in {1, 2, 3}
      BY <2>2, <2>4, <3>1, NeedRange DEF Need
    <3>5. PICK d \in {1, 2, 3} : d = Need(parser)'
      BY <3>4
    <3>6. ~(0 > 0) /\ ~(0 + d > n + 5)
      OBVIOUS
    <3> QED BY <2>3, <2>7, <3>3, <3>5, <3>6 DEF Closes
  <2>10. NotMisread'
    BY <2>4 DEF NotMisread
  <2> QED BY <1>0, <2>1, <2>2, <2>8, <2>9, <2>10 DEF MInv, Traces
<1>10. CASE UNCHANGED vars
  <2>1. UNCHANGED <<sender, parser, angles, previous, wire, faults, zeroed>>
    BY <1>10 DEF vars
  <2>2. Done' = Done
    BY <2>1 DEF Done, Size
  <2>3. sender = "conductor" /\ parser.status = "SUCCESS" /\ ~zeroed =>
          parser.angles \in {Meant(angles), Meant(previous)}
    BY <1>1 DEF NotMisread
  <2> QED BY <1>0, <1>1, <2>1, <2>2, <2>3, Carried
<1> QED BY <1>4, <1>5, <1>7, <1>8, <1>9, <1>10 DEF Next

\* One byte lost, changed or added in a frame never makes parse_buffer
\* (packet_parser.cpp:49-133) accept angles that neither this frame of
\* _transmit_and_wait nor its predecessor said, whatever the frames before it
\* suffered, unless a zero was added.  The hypothesis is the property's own: of
\* two faults in one frame the second can hide the first from the XOR.
THEOREM NothingMisread ==
  ASSUME MaxFaults <= 1
  PROVE  Spec => []NotMisread
<1>1. Init => MInv
  BY MisreadInit
<1>2. MInv /\ [Next]_vars => MInv'
  BY MisreadStep
<1>3. MInv => NotMisread
  BY DEF MInv
<1> QED BY <1>1, <1>2, <1>3, PTL DEF Spec
=============================================================================
