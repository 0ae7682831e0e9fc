----------------------------- MODULE LspPipeProofs -----------------------------
(***************************************************************************)
(* Proofs about LspPipe for every length of message, capacity of the       *)
(* pipes, number of messages and number of retries.                        *)
(***************************************************************************)
EXTENDS LspPipe, TLAPS

-----------------------------------------------------------------------------
(* The pieces of a message *)

LEMMA LengthType == MessageLen \in Nat /\ MessageLen >= 5 /\ MessageLen = 4 + BodyPieces
                      /\ BodyPieces \in Nat /\ BodyPieces >= 1
BY PipeAssumption DEF MessageLen

\* Division by a length: the quotient and the rest of n whole messages and r pieces.
LEMMA DivisionUnique ==
  ASSUME NEW L \in Nat, L >= 1, NEW n \in Nat, NEW r \in 0..(L - 1)
  PROVE  (n * L + r) \div L = n /\ (n * L + r) % L = r
<1> DEFINE a == n * L + r
           q == a \div L
           m == a % L
<1>1. a \in Nat /\ q \in Int /\ m \in 0..(L - 1) /\ a = L * q + m
  BY SMT
<1> HIDE DEF q, m
<1>2. (n - q) * L = m - r
  BY <1>1, SMT
<1>3. n - q < 1
  <2> SUFFICES ASSUME n - q >= 1 PROVE FALSE
    BY <1>1
  <2>1. (n - q) * L >= L
    BY <1>1, SMT
  <2> QED
    BY <1>1, <1>2, <2>1
<1>4. n - q > -1
  <2> SUFFICES ASSUME n - q <= -1 PROVE FALSE
    BY <1>1
  <2>1. (n - q) * L <= -L
    BY <1>1, SMT
  <2> QED
    BY <1>1, <1>2, <2>1
<1>5. n = q /\ m = r
  BY <1>1, <1>2, <1>3, <1>4
<1> QED
  BY <1>5 DEF q, m

\* Piece k of message n + 1 is part k of it.
LEMMA PieceOf ==
  ASSUME NEW n \in Nat, NEW k \in 1..MessageLen
  PROVE  PartOf(n * MessageLen + k) = k /\ MessageOf(n * MessageLen + k) = n + 1
<1>1. k - 1 \in 0..(MessageLen - 1) /\ MessageLen \in Nat /\ MessageLen >= 1
  BY LengthType
<1>2. (n * MessageLen + k) - 1 = n * MessageLen + (k - 1)
  BY LengthType
<1>3. /\ (n * MessageLen + (k - 1)) \div MessageLen = n
      /\ (n * MessageLen + (k - 1)) % MessageLen = k - 1
  BY <1>1, DivisionUnique
<1>4. /\ PartOf(n * MessageLen + k) = ((n * MessageLen + (k - 1)) % MessageLen) + 1
      /\ MessageOf(n * MessageLen + k) = (n * MessageLen + (k - 1)) \div MessageLen + 1
  <2> DEFINE x == n * MessageLen + k
             y == n * MessageLen + (k - 1)
  <2>1. x - 1 = y
    BY <1>2
  <2> HIDE DEF x, y
  <2>2. PartOf(x) = (y % MessageLen) + 1 /\ MessageOf(x) = y \div MessageLen + 1
    BY <2>1, Zenon DEF PartOf, MessageOf
  <2> QED
    BY <2>2 DEF x, y
<1>5. k - 1 + 1 = k
  OBVIOUS
<1> QED
  BY <1>3, <1>4, <1>5, Zenon

\* The pieces of the messages RecvResponse has returned.
Base == Len(delivered) * MessageLen

\* The same for the message that is being read.
LEMMA PieceOfNext ==
  ASSUME Len(delivered) \in Nat, NEW k \in 1..4
  PROVE  PartOf(Base + k) = k /\ MessageOf(Base + k) = Len(delivered) + 1
<1>1. k \in 1..MessageLen
  BY LengthType
<1> QED
  BY <1>1, PieceOf, Zenon DEF Base

-----------------------------------------------------------------------------
(* The inductive invariant: where the reader can be. *)

\* The reader has ended, or it is inside the first message it has not returned: in its
\* four header pieces, knowing the length only if it read both lines without a drop,
\* or in its content with the length of that very message.
InPlace ==
  \/ reader.at = "ended"
  \/ /\ reader.at \in {"line", "bytes"}
     /\ taken \in Base..(Base + 3)
     /\ \/ reader.from = taken
        \/ /\ reader.at = "bytes" /\ reader.from = taken - 1
           /\ reader.from \in {Base, Base + 2}
     /\ \/ reader.size = NoSize
        \/ reader.size = Len(delivered) + 1 /\ reader.from = Base + 2
  \/ /\ reader.at = "body" /\ taken = Base + 4
     /\ reader.from = taken /\ reader.size = Len(delivered) + 1
  \/ /\ reader.at = "content" /\ taken \in (Base + 4)..(Base + 3 + BodyPieces)
     /\ reader.from = Base + 4 /\ reader.size = Len(delivered) + 1

PipeInv == TypeOK /\ InPlace /\ DeliveredInOrder

LEMMA TypeInit == Init => TypeOK
<1> SUFFICES ASSUME Init PROVE TypeOK
  OBVIOUS
<1>1. 0 \in 0..ContentRetries /\ 0 \in 0..ReadRetries /\ 0 \in 0..InCap /\ 0 \in 0..Chunks
      /\ 0 \in 0..MaxSends /\ 0 \in 0..0 /\ 0 <= 0 + OutCap
  BY PipeAssumption
<1>2. reader \in [at : {"line", "bytes", "body", "content", "ended"}, from : Nat,
                  size : Nat, zero : 0..ContentRetries, part : 0..ReadRetries]
      /\ sender \in [at : {"idle", "lock", "write"}, left : 0..Chunks, sent : 0..MaxSends]
  BY <1>1 DEF Init, NoSize
<1>3. delivered \in Seq(Nat)
  BY DEF Init
<1> QED
  BY <1>1, <1>2, <1>3 DEF Init, TypeOK

LEMMA BaseType ==
  ASSUME TypeOK
  PROVE  Len(delivered) \in Nat /\ Base \in Nat
BY LengthType DEF TypeOK, Base

LEMMA ReaderType ==
  ASSUME TypeOK, NEW place \in {"line", "bytes", "body", "content", "ended"},
         NEW from \in Nat, NEW size \in Nat, ReaderTo(place, from, size)
  PROVE  reader' \in [at : {"line", "bytes", "body", "content", "ended"}, from : Nat,
                      size : Nat, zero : 0..ContentRetries, part : 0..ReadRetries]
BY PipeAssumption DEF ReaderTo

LEMMA LineSteps ==
  ASSUME PipeInv, LockLine \/ ReadByte \/ HeaderDropped
  PROVE  PipeInv'
<1>b. Len(delivered) \in Nat /\ Base \in Nat /\ Base' = Base /\ delivered' = delivered
  BY BaseType DEF PipeInv, LockLine, ReadByte, HeaderDropped, Base
<1>t. taken \in Nat /\ written \in Nat /\ reader.from \in Nat /\ reader.size \in Nat
  BY DEF PipeInv, TypeOK
<1>1. CASE LockLine
  <2>1. TypeOK'
    BY <1>1, <1>t, ReaderType DEF LockLine, PipeInv, TypeOK
  <2>2. InPlace'
    BY <1>1, <1>b, <1>t DEF LockLine, ReaderTo, PipeInv, InPlace
  <2> QED
    BY <1>b, <2>1, <2>2 DEF PipeInv, DeliveredInOrder
<1>2. CASE ReadByte
  <2>1. TypeOK'
    BY <1>2, <1>t, PipeAssumption DEF ReadByte, Empty, PipeInv, TypeOK
  <2>2. PICK k \in 1..4 : taken + 1 = Base + k
    BY <1>2, <1>b, <1>t DEF ReadByte, PipeInv, InPlace
  <2>3. PartOf(taken + 1) = k
    BY <1>b, <2>2, PieceOfNext
  <2>4. k \in {1, 3}
    BY <1>2, <2>3 DEF ReadByte, EndsLine
  <2>5. InPlace'
    BY <1>2, <1>b, <1>t, <2>2, <2>4 DEF ReadByte, PipeInv, InPlace
  <2> QED
    BY <1>b, <2>1, <2>5 DEF PipeInv, DeliveredInOrder
<1>3. CASE HeaderDropped
  <2>1. TypeOK'
    BY <1>3, <1>t, ReaderType DEF HeaderDropped, EmptyLine, Again, Unlock, NoSize, PipeInv, TypeOK
  <2>2. InPlace'
    BY <1>3, <1>b, <1>t DEF HeaderDropped, EmptyLine, Again, ReaderTo, PipeInv, InPlace
  <2> QED
    BY <1>b, <2>1, <2>2 DEF PipeInv, DeliveredInOrder
<1> QED
  BY <1>1, <1>2, <1>3

LEMMA EndOfLineStep ==
  ASSUME PipeInv, EndOfLine
  PROVE  PipeInv'
<1>b. Len(delivered) \in Nat /\ Base \in Nat /\ Base' = Base /\ delivered' = delivered
  BY BaseType DEF PipeInv, EndOfLine, Base
<1>t. taken \in Nat /\ written \in Nat /\ reader.from \in Nat /\ reader.size \in Nat
      /\ taken' = taken + 1 /\ taken' \in 0..written
  BY PipeAssumption DEF PipeInv, TypeOK, EndOfLine, Empty
<1>1. PICK k \in 1..4 : taken + 1 = Base + k
  BY <1>b, <1>t DEF EndOfLine, PipeInv, InPlace
<1>2. PartOf(taken') = k /\ MessageOf(taken') = Len(delivered) + 1
  BY <1>b, <1>t, <1>1, PieceOfNext
<1>3. k \in {2, 4}
  BY <1>t, <1>2 DEF EndOfLine, EndsLine
<1>4. \/ ReaderTo("ended", taken', NoSize)
      \/ k = 2 /\ ReaderTo("line", taken', Len(delivered) + 1)
      \/ k = 4 /\ reader.size = Len(delivered) + 1 /\ ReaderTo("body", taken', reader.size)
      \/ k = 2 /\ reader.from = taken /\ reader.size = NoSize /\ ReaderTo("line", taken', NoSize)
  BY <1>b, <1>t, <1>1, <1>2, <1>3
     DEF EndOfLine, LineIsWhole, LineIsTail, BlankLine, Ended, PipeInv, InPlace
<1>5. TypeOK'
  <2>1. \E place \in {"line", "body", "ended"}, size \in Nat : ReaderTo(place, taken', size)
    BY <1>b, <1>t, <1>4 DEF NoSize
  <2>2. reader' \in [at : {"line", "bytes", "body", "content", "ended"}, from : Nat,
                     size : Nat, zero : 0..ContentRetries, part : 0..ReadRetries]
    BY <1>t, <2>1, ReaderType DEF PipeInv
  <2> QED
    BY <1>b, <1>t, <2>2, PipeAssumption DEF EndOfLine, Unlock, PipeInv, TypeOK
<1>6. InPlace'
  BY <1>b, <1>t, <1>1, <1>4 DEF ReaderTo, InPlace
<1> QED
  BY <1>b, <1>5, <1>6 DEF PipeInv, DeliveredInOrder

LEMMA ContentSteps ==
  ASSUME PipeInv, LockBody \/ ContentRetry \/ ContentDropped
  PROVE  PipeInv'
<1>b. Len(delivered) \in Nat /\ Base \in Nat /\ Base' = Base /\ delivered' = delivered
  BY BaseType DEF PipeInv, LockBody, ContentRetry, ContentDropped, Base
<1>t. taken \in Nat /\ written \in Nat /\ reader.from \in Nat /\ reader.size \in Nat
  BY DEF PipeInv, TypeOK
<1>1. CASE LockBody
  <2>1. TypeOK'
    BY <1>1, <1>t, ReaderType DEF LockBody, PipeInv, TypeOK
  <2>2. InPlace'
    BY <1>1, <1>b, <1>t, LengthType DEF LockBody, ReaderTo, PipeInv, InPlace
  <2> QED
    BY <1>b, <2>1, <2>2 DEF PipeInv, DeliveredInOrder
<1>2. CASE ContentRetry
  <2>1. TypeOK'
    <3>1. /\ reader.zero \in 0..ContentRetries /\ reader.part \in 0..ReadRetries
          /\ IF Started THEN reader.part < ReadRetries ELSE reader.zero < ContentRetries
          /\ reader' = IF Started THEN [reader EXCEPT !.part = reader.part + 1]
                       ELSE [reader EXCEPT !.zero = reader.zero + 1]
      BY <1>2 DEF ContentRetry, Patient, PipeInv, TypeOK
    <3>2. IF Started THEN reader.part + 1 \in 0..ReadRetries
          ELSE reader.zero + 1 \in 0..ContentRetries
      BY <3>1, PipeAssumption
    <3>3. reader' \in [at : {"line", "bytes", "body", "content", "ended"}, from : Nat,
                       size : Nat, zero : 0..ContentRetries, part : 0..ReadRetries]
      BY <3>1, <3>2 DEF PipeInv, TypeOK
    <3> QED
      BY <1>2, <3>3 DEF ContentRetry, PipeInv, TypeOK
  <2>2. /\ reader'.at = reader.at /\ reader'.from = reader.from /\ reader'.size = reader.size
        /\ taken' = taken
    BY <1>2 DEF ContentRetry, PipeInv, TypeOK
  <2>3. InPlace'
    BY <1>b, <2>2 DEF PipeInv, InPlace
  <2> QED
    BY <1>b, <2>1, <2>3 DEF PipeInv, DeliveredInOrder
<1>3. CASE ContentDropped
  <2>1. TypeOK'
    BY <1>3, <1>t, ReaderType DEF ContentDropped, Ended, Unlock, NoSize, PipeInv, TypeOK
  <2>2. InPlace'
    BY <1>3 DEF ContentDropped, Ended, ReaderTo, InPlace
  <2> QED
    BY <1>b, <2>1, <2>2 DEF PipeInv, DeliveredInOrder
<1> QED
  BY <1>1, <1>2, <1>3

LEMMA ReadContentStep ==
  ASSUME PipeInv, ReadContent
  PROVE  PipeInv'
<1>b. Len(delivered) \in Nat /\ Base \in Nat
  BY BaseType DEF PipeInv
<1>t. taken \in Nat /\ written \in Nat /\ reader.from \in Nat /\ reader.size \in Nat
      /\ taken' = taken + 1 /\ taken' \in 0..written /\ delivered \in Seq(Nat)
  BY PipeAssumption DEF PipeInv, TypeOK, ReadContent, Empty
<1>p. /\ reader.from = Base + 4 /\ reader.size = Len(delivered) + 1
      /\ taken \in (Base + 4)..(Base + 3 + BodyPieces)
  BY DEF PipeInv, InPlace, ReadContent
<1>1. CASE taken' < reader.from + BodyPieces
  <2>1. UNCHANGED <<rwMutex, reader, delivered>> /\ Base' = Base
    BY <1>1 DEF ReadContent, Base
  <2>2. TypeOK'
    BY <1>t, <2>1, PipeAssumption DEF ReadContent, PipeInv, TypeOK
  <2>3. InPlace'
    BY <1>1, <1>b, <1>t, <1>p, <2>1, LengthType DEF ReadContent, InPlace
  <2> QED
    BY <2>1, <2>2, <2>3 DEF PipeInv, DeliveredInOrder
<1>2. CASE ~(taken' < reader.from + BodyPieces)
  <2>1. taken' = Base + MessageLen
    BY <1>2, <1>b, <1>t, <1>p, LengthType
  <2>2. Legal
    BY <1>b, <1>p, PieceOfNext DEF Legal
  <2>3. Again(taken') /\ delivered' = Append(delivered, reader.size) /\ rwMutex' = "free"
    BY <1>2, <2>2 DEF ReadContent, Unlock
  <2>4. /\ delivered' \in Seq(Nat) /\ Len(delivered') = Len(delivered) + 1
        /\ \A i \in 1..Len(delivered) : delivered'[i] = delivered[i]
        /\ delivered'[Len(delivered) + 1] = Len(delivered) + 1
    BY <1>b, <1>t, <1>p, <2>3
  <2>5. TypeOK'
    BY <1>t, <2>3, <2>4, ReaderType, PipeAssumption
       DEF Again, NoSize, ReadContent, PipeInv, TypeOK
  <2>6. Base' = Base + MessageLen
    BY <1>b, <2>4, LengthType DEF Base
  <2>7. InPlace'
    BY <1>b, <2>1, <2>3, <2>6, LengthType DEF Again, ReaderTo, InPlace
  <2>8. DeliveredInOrder'
    BY <1>b, <2>4 DEF PipeInv, DeliveredInOrder
  <2> QED
    BY <2>5, <2>7, <2>8 DEF PipeInv
<1> QED
  BY <1>1, <1>2

\* The sender and the server do not touch what the reader keeps.
LEMMA OtherSteps ==
  ASSUME PipeInv, BeginSend \/ SenderStep \/ WriteMessage \/ WritePiece \/ ServerReads
  PROVE  PipeInv'
<1>1. UNCHANGED <<taken, reader, delivered>>
  BY DEF BeginSend, SenderStep, LockSend, WriteChunk, WriteMessage, WritePiece, ServerWrites,
         ServerReads
<1>2. InPlace' /\ DeliveredInOrder'
  BY <1>1 DEF PipeInv, InPlace, DeliveredInOrder, Base
<1>s. sender.left \in 0..Chunks /\ sender.sent \in 0..MaxSends /\ input \in 0..InCap
  BY DEF PipeInv, TypeOK
<1>3. CASE BeginSend \/ LockSend \/ ServerReads
  <2>1. /\ input' \in 0..InCap /\ rwMutex' \in {"free", "reader", "sender"}
        /\ sender' \in [at : {"idle", "lock", "write"}, left : 0..Chunks, sent : 0..MaxSends]
    <3>1. CASE BeginSend
      <4>1. sender.sent + 1 \in 0..MaxSends /\ Chunks \in 0..Chunks
        BY <1>s, <3>1, PipeAssumption DEF BeginSend
      <4> QED
        BY <3>1, <4>1 DEF PipeInv, TypeOK, BeginSend
    <3>2. CASE LockSend
      BY <3>2 DEF PipeInv, TypeOK, LockSend
    <3>3. CASE ServerReads
      <4>1. input - 1 \in 0..InCap
        BY <1>s, <3>3, PipeAssumption DEF ServerReads
      <4> QED
        BY <3>3, <4>1 DEF PipeInv, TypeOK, ServerReads
    <3> QED
      BY <1>3, <3>1, <3>2, <3>3
  <2>2. UNCHANGED <<written, cut>>
    BY <1>3 DEF BeginSend, LockSend, ServerReads
  <2>3. TypeOK'
    BY <1>1, <2>1, <2>2 DEF PipeInv, TypeOK
  <2> QED
    BY <1>2, <2>3 DEF PipeInv
<1>5. CASE WriteChunk
  <2>1. input' \in 0..InCap /\ UNCHANGED <<written, cut>>
    BY <1>s, <1>5, PipeAssumption DEF WriteChunk
  <2>2. CASE sender.left > 1
    <3>1. sender' = [sender EXCEPT !.left = sender.left - 1] /\ UNCHANGED rwMutex
          /\ sender.left - 1 \in 0..Chunks
      BY <1>s, <1>5, <2>2, PipeAssumption DEF WriteChunk
    <3>2. TypeOK'
      BY <1>1, <2>1, <3>1 DEF PipeInv, TypeOK
    <3> QED
      BY <1>2, <3>2 DEF PipeInv
  <2>3. CASE ~(sender.left > 1)
    <3>1. sender' = [sender EXCEPT !.at = "idle", !.left = 0] /\ rwMutex' = "free"
          /\ 0 \in 0..Chunks
      BY <1>5, <2>3, PipeAssumption DEF WriteChunk
    <3>2. TypeOK'
      BY <1>1, <2>1, <3>1 DEF PipeInv, TypeOK
    <3> QED
      BY <1>2, <3>2 DEF PipeInv
  <2> QED
    BY <2>2, <2>3
<1>4. CASE WriteMessage \/ WritePiece
  <2>1. PICK n \in {1, MessageLen} : ServerWrites(n)
    BY <1>4 DEF WriteMessage, WritePiece
  <2>2. written' = written + n /\ n \in Nat /\ written + n - taken <= OutCap
        /\ UNCHANGED <<input, rwMutex, sender>> /\ cut' \in BOOLEAN
    <3>1. cut' \in BOOLEAN
      BY <1>4 DEF WriteMessage, WritePiece, PipeInv, TypeOK
    <3> QED
      BY <2>1, <3>1, LengthType DEF ServerWrites
  <2>4. written' \in Nat /\ taken' \in 0..written' /\ written' <= taken' + OutCap
    BY <1>1, <2>2, PipeAssumption DEF PipeInv, TypeOK
  <2>3. TypeOK'
    BY <1>1, <2>2, <2>4 DEF PipeInv, TypeOK
  <2> QED
    BY <1>2, <2>3 DEF PipeInv
<1> QED
  BY <1>3, <1>4, <1>5 DEF SenderStep

LEMMA PipeStep == PipeInv /\ [Next]_vars => PipeInv'
<1> SUFFICES ASSUME PipeInv, [Next]_vars PROVE PipeInv'
  OBVIOUS
<1>1. CASE UNCHANGED vars
  BY <1>1 DEF vars, PipeInv, TypeOK, InPlace, DeliveredInOrder, Base
<1> QED
  BY <1>1, LineSteps, EndOfLineStep, ContentSteps, ReadContentStep, OtherSteps
     DEF Next, ReaderStep

\* The retries are within their limits and nothing is read before it is written.
THEOREM PipeInvariant == Spec => []PipeInv
<1>1. Init => PipeInv
  BY TypeInit, LengthType DEF Init, PipeInv, InPlace, DeliveredInOrder, Base, NoSize
<1> QED
  BY <1>1, PipeStep, PTL DEF Spec

\* RecvResponse, for every length of message and wherever the pipe runs dry: it returns
\* the server's messages from the first on, in order and without a gap.
THEOREM MessagesInOrder == Spec => []DeliveredInOrder
<1>1. PipeInv => DeliveredInOrder
  BY DEF PipeInv
<1> QED
  BY <1>1, PipeInvariant, PTL
=============================================================================
