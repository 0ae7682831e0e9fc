------------------------------- MODULE LspPipe -------------------------------
(***************************************************************************)
(* JSONRpcEndpoint over a PipeCommunicator: how one language server's      *)
(* messages are cut out of its non-blocking output pipe by the receiving   *)
(* thread, and how requests get into its blocking input pipe, both under   *)
(* the one mutex rwMutex.                                                  *)
(*                                                                         *)
(* The server's output is a stream of numbered pieces.  Every message is   *)
(* the same sequence of MessageLen pieces: the two halves of its           *)
(* Content-Length line, the CR and the LF of its blank line, and its       *)
(* content.  Piece k has been written if k <= written and read if          *)
(* k <= taken; what lies between is in the pipe.                           *)
(***************************************************************************)
EXTENDS Integers, Sequences

CONSTANTS
  BodyPieces,    \* pieces of the content of a message
  MaxMessages,   \* bound: messages the server sends
  OutCap,        \* pieces the server's output pipe holds
  Chunks,        \* chunks of a request
  InCap,         \* chunks the server's input pipe holds
  MaxSends,      \* bound: requests sent
  ContentRetries,  \* maxRetryCnt of readMessageContent (6)
  ReadRetries      \* MaxRetryCnt of PipeCommunicator::read (3)

MessageLen == 4 + BodyPieces

ASSUME PipeAssumption ==
  /\ BodyPieces \in Nat \ {0} /\ MaxMessages \in Nat /\ OutCap \in Nat \ {0}
  /\ Chunks \in Nat \ {0} /\ InCap \in Nat \ {0} /\ MaxSends \in Nat
  /\ ContentRetries \in Nat /\ ReadRetries \in Nat

VARIABLES
  written,    \* pieces the server has written
  taken,      \* pieces read from the pipe
  input,      \* chunks in the server's input pipe
  rwMutex,    \* "free", "reader" or "sender"
  reader,     \* [at, from, size, zero, part]
  sender,     \* [at, left, sent]
  delivered,  \* the messages RecvResponse returned, in order
  cut         \* history: the server has written a message in several pieces

vars == <<written, taken, input, rwMutex, reader, sender, delivered, cut>>

MessageOf(k) == ((k - 1) \div MessageLen) + 1
PartOf(k) == ((k - 1) % MessageLen) + 1
EndsLine(k) == PartOf(k) \in {2, 4}
Empty == taken = written
NoSize == 0

-----------------------------------------------------------------------------
(* RecvResponse: readLine *)

\* `from` is the last piece before the line or content being read; `size` the
\* message whose Content-Length was read; `zero` and `part` count the retries
\* after a read of nothing and after a read of too little.
ReaderTo(place, from, size) ==
  reader' = [at |-> place, from |-> from, size |-> size, zero |-> 0, part |-> 0]

\* The caller's loop, operator(), calls RecvResponse again.
Again(from) == ReaderTo("line", from, NoSize)
\* RecvResponse returned nullopt and operator() ends.
Ended == ReaderTo("ended", taken', NoSize)

\* Seeded fault: the mutex is not given back.
KeepLocked == UNCHANGED rwMutex

Unlock == rwMutex' = "free"

LockLine ==
  /\ reader.at = "line"
  /\ rwMutex = "free"
  /\ rwMutex' = "reader"
  /\ ReaderTo("bytes", taken, reader.size)
  /\ UNCHANGED <<written, taken, input, sender, delivered, cut>>

ReadByte ==
  /\ reader.at = "bytes"
  /\ ~Empty
  /\ ~EndsLine(taken + 1)
  /\ taken' = taken + 1
  /\ UNCHANGED <<written, input, rwMutex, reader, sender, delivered, cut>>

\* The pieces of a line that readLine returns: both of them, or the last one
\* after a drop, or more.
LineIsWhole == reader.from = taken - 1
LineIsTail == reader.from = taken

\* Seeded fault: a blank line without a length before it is skipped.
BlankLineSkipped ==
  IF reader.size = NoSize THEN ReaderTo("line", taken', NoSize)
  ELSE ReaderTo("body", taken', reader.size)

BlankLine ==
  IF reader.size = NoSize THEN Ended ELSE ReaderTo("body", taken', reader.size)

\* The end of a line: a Content-Length line; a blank line; a tail that is a bare
\* LF, which is nullopt and all that is left of a blank line; or a header nobody
\* knows, which is skipped.
EndOfLine ==
  /\ reader.at = "bytes"
  /\ ~Empty
  /\ EndsLine(taken + 1)
  /\ taken' = taken + 1
  /\ Unlock
  /\ \/ /\ PartOf(taken') = 2 /\ LineIsWhole
        /\ ReaderTo("line", taken', MessageOf(taken'))
     \/ PartOf(taken') = 4 /\ LineIsWhole /\ BlankLine
     \/ LineIsTail /\ Ended
     \/ /\ ~LineIsWhole /\ ~(PartOf(taken') = 4 /\ LineIsTail)
        /\ ReaderTo("line", taken', reader.size)
  /\ UNCHANGED <<written, input, sender, delivered, cut>>

\* An empty pipe: readLine forgets what it read of the line and returns "", and
\* RecvResponse returns that and forgets the length.
EmptyLine == Again(taken)

HeaderDropped ==
  /\ reader.at = "bytes"
  /\ Empty
  /\ Unlock
  /\ UNCHANGED taken
  /\ EmptyLine
  /\ UNCHANGED <<written, input, sender, delivered, cut>>

-----------------------------------------------------------------------------
(* RecvResponse: readMessageContent *)

LockBody ==
  /\ reader.at = "body"
  /\ rwMutex = "free"
  /\ rwMutex' = "reader"
  /\ ReaderTo("content", taken, reader.size)
  /\ UNCHANGED <<written, taken, input, sender, delivered, cut>>

\* The content is legal JSON if it is the content of one message.
Legal == PartOf(reader.from) = 4 /\ MessageOf(reader.from) = reader.size

ReadContent ==
  /\ reader.at = "content"
  /\ ~Empty
  /\ taken' = taken + 1
  /\ IF taken' < reader.from + BodyPieces
     THEN UNCHANGED <<rwMutex, reader, delivered>>
     ELSE /\ Unlock
          /\ \/ /\ Legal /\ Again(taken')
                /\ delivered' = Append(delivered, reader.size)
             \/ ~Legal /\ Ended /\ UNCHANGED delivered
  /\ UNCHANGED <<written, input, sender, cut>>

Started == taken > reader.from

Patient == IF Started THEN reader.part < ReadRetries ELSE reader.zero < ContentRetries

\* Seeded fault: the retries are not counted.
RetryUncounted ==
  /\ reader.at = "content"
  /\ Empty
  /\ Patient
  /\ UNCHANGED vars

\* The pipe is empty in the middle of a message: wait a while, with rwMutex held.
ContentRetry ==
  /\ reader.at = "content"
  /\ Empty
  /\ Patient
  /\ reader' = IF Started THEN [reader EXCEPT !.part = @ + 1]
               ELSE [reader EXCEPT !.zero = @ + 1]
  /\ UNCHANGED <<written, taken, input, rwMutex, sender, delivered, cut>>

\* Enough waited: "" is returned, which is no JSON.
ContentDropped ==
  /\ reader.at = "content"
  /\ Empty
  /\ ~Patient
  /\ UNCHANGED taken
  /\ Ended
  /\ Unlock
  /\ UNCHANGED <<written, input, sender, delivered, cut>>

-----------------------------------------------------------------------------
(* SendRequest *)

BeginSend ==
  /\ sender.at = "idle"
  /\ sender.sent < MaxSends
  /\ sender' = [at |-> "lock", left |-> Chunks, sent |-> sender.sent + 1]
  /\ UNCHANGED <<written, taken, input, rwMutex, reader, delivered, cut>>

LockSend ==
  /\ sender.at = "lock"
  /\ rwMutex = "free"
  /\ rwMutex' = "sender"
  /\ sender' = [sender EXCEPT !.at = "write"]
  /\ UNCHANGED <<written, taken, input, reader, delivered, cut>>

\* PipeCommunicator::write: the input pipe blocks when it is full.
WriteChunk ==
  /\ sender.at = "write"
  /\ input < InCap
  /\ input' = input + 1
  /\ IF sender.left > 1
     THEN /\ sender' = [sender EXCEPT !.left = @ - 1]
          /\ UNCHANGED rwMutex
     ELSE /\ sender' = [sender EXCEPT !.at = "idle", !.left = 0]
          /\ rwMutex' = "free"
  /\ UNCHANGED <<written, taken, reader, delivered, cut>>

-----------------------------------------------------------------------------
(* The language server, external: a thread that reads its input and others
   that write, by pieces or by whole messages. *)

ServerWrites(n) ==
  /\ written + n <= MaxMessages * MessageLen
  /\ written + n - taken <= OutCap
  /\ written' = written + n
  /\ UNCHANGED <<taken, input, rwMutex, reader, sender, delivered>>

WriteMessage ==
  /\ written % MessageLen = 0
  /\ ServerWrites(MessageLen)
  /\ UNCHANGED cut

WritePiece == ServerWrites(1) /\ cut' = TRUE

ServerReads ==
  /\ input > 0
  /\ input' = input - 1
  /\ UNCHANGED <<written, taken, rwMutex, reader, sender, delivered, cut>>

-----------------------------------------------------------------------------
Init ==
  /\ written = 0 /\ taken = 0 /\ input = 0
  /\ rwMutex = "free"
  /\ reader = [at |-> "line", from |-> 0, size |-> NoSize, zero |-> 0, part |-> 0]
  /\ sender = [at |-> "idle", left |-> 0, sent |-> 0]
  /\ delivered = <<>>
  /\ cut = FALSE

ReaderStep == LockLine \/ ReadByte \/ EndOfLine \/ HeaderDropped \/ LockBody
                \/ ReadContent \/ ContentRetry \/ ContentDropped
SenderStep == LockSend \/ WriteChunk

Next == ReaderStep \/ BeginSend \/ SenderStep \/ WriteMessage \/ WritePiece \/ ServerReads

Spec == Init /\ [][Next]_vars

\* Both threads run and the server reads its input; it may stop writing at any
\* piece.  rwMutex, which the reader takes and releases all the time, is in the
\* end obtained by the sender that waits for it.
Fairness ==
  /\ WF_vars(ReaderStep) /\ WF_vars(ServerReads)
  /\ WF_vars(SenderStep) /\ SF_vars(LockSend)

FairSpec == Spec /\ Fairness

-----------------------------------------------------------------------------
(* Properties *)

\* Every variable has its type, and nothing is read before it is written.
TypeOK ==
  /\ written \in Nat /\ taken \in 0..written
  /\ written <= taken + OutCap
  /\ input \in 0..InCap
  /\ rwMutex \in {"free", "reader", "sender"}
  /\ reader \in [at : {"line", "bytes", "body", "content", "ended"}, from : Nat,
                 size : Nat, zero : 0..ContentRetries, part : 0..ReadRetries]
  /\ sender \in [at : {"idle", "lock", "write"}, left : 0..Chunks, sent : 0..MaxSends]
  /\ delivered \in Seq(Nat)
  /\ cut \in BOOLEAN

\* However the pipe is cut into pieces, what RecvResponse returns are the
\* server's messages, each once, in order and none left out: a reader that has
\* lost its place never finds another message, it stops.
DeliveredInOrder == \A i \in 1..Len(delivered) : delivered[i] = i

\* Every message the server wrote is returned by RecvResponse, unless one came
\* in several pieces.
AllDelivered == \A n \in 1..MaxMessages :
  (written >= n * MessageLen) ~> (Len(delivered) >= n \/ cut)

\* SendRequest ends, whatever the server leaves unfinished on its output: the
\* reader gives rwMutex back after a bounded number of retries.
SendEnds == (sender.at # "idle") ~> (sender.at = "idle")
=============================================================================
