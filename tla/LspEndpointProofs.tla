--------------------------- MODULE LspEndpointProofs ---------------------------
(***************************************************************************)
(* Proofs about LspEndpoint for every number of builders, calls, messages  *)
(* in the pipes, lost frames and spurious wake-ups.                        *)
(***************************************************************************)
EXTENDS LspEndpoint, SequenceTheorems, TLAPS

-----------------------------------------------------------------------------
(* Pipes *)

LEMMA PipeAppend ==
  ASSUME NEW S, NEW s \in Seq(S), NEW m \in S
  PROVE  Append(s, m) \in Seq(S) /\ Range(Append(s, m)) = Range(s) \cup {m}
<1> DEFINE a == Append(s, m)
<1>1. /\ a \in Seq(S) /\ Len(a) = Len(s) + 1 /\ a[Len(s) + 1] = m /\ Len(s) \in Nat
      /\ \A i \in 1..Len(s) : a[i] = s[i]
  BY AppendProperties
<1>2. Range(a) = {a[i] : i \in 1..Len(a)} /\ Range(s) = {s[i] : i \in 1..Len(s)}
  BY <1>1, RangeEquality
<1> HIDE DEF a
<1>3. {a[i] : i \in 1..Len(a)} = {s[i] : i \in 1..Len(s)} \cup {m}
  BY <1>1
<1> QED
  BY <1>1, <1>2, <1>3 DEF a

LEMMA PipeTail ==
  ASSUME NEW S, NEW s \in Seq(S), s # <<>>
  PROVE  /\ Head(s) \in S /\ Tail(s) \in Seq(S)
         /\ Head(s) \in Range(s) /\ Range(Tail(s)) \subseteq Range(s)
<1>1. /\ Tail(s) \in Seq(S) /\ Len(Tail(s)) = Len(s) - 1
      /\ \A i \in 1..Len(Tail(s)) : Tail(s)[i] = s[i + 1]
      /\ Head(s) \in S /\ Head(s) = s[1] /\ Len(s) \in Nat /\ Len(s) >= 1
  BY HeadTailProperties
<1>2. Range(s) = {s[i] : i \in 1..Len(s)} /\ Range(Tail(s)) = {Tail(s)[i] : i \in 1..Len(Tail(s))}
  BY <1>1, RangeEquality
<1>3. Head(s) \in Range(s)
  BY <1>1, <1>2
<1>4. ASSUME NEW i \in 1..Len(Tail(s)) PROVE Tail(s)[i] \in Range(s)
  <2>1. i + 1 \in 1..Len(s) /\ Tail(s)[i] = s[i + 1]
    BY <1>1
  <2> QED
    BY <1>2, <2>1
<1> QED
  BY <1>1, <1>2, <1>3, <1>4

-----------------------------------------------------------------------------
(* Types *)

LEMMA MsgType ==
  ASSUME NEW kind \in Kinds, NEW id \in Ids, NEW call \in Nat
  PROVE  Msg(kind, id, call) \in Messages
BY DEF Msg, Messages

LEMMA FixedMessages ==
  /\ NoMsg \in Messages
  /\ \A kind \in {"notify", "reply", "exit", "request"} : Msg(kind, -1, 0) \in Messages
BY DEF NoMsg, Msg, Messages, Kinds, Ids

LEMMA TypeInit == Init => TypeOK
<1> SUFFICES ASSUME Init PROVE TypeOK
  OBVIOUS
<1>1. /\ caller \in [Builders -> [at : Places, reg : Nat, id : Ids, call : Nat]]
      /\ receiver \in [Builders -> [at : ReceiverPlaces, msg : Messages]]
  BY FixedMessages DEF Init, Places, ReceiverPlaces, Ids
<1>2. /\ toServer \in [Builders -> Seq(Messages)] /\ toClient \in [Builders -> Seq(Messages)]
      /\ left \in [Builders -> [faults : Nat, spurious : Nat]]
  BY EndpointAssumption DEF Init
<1> QED
  BY <1>1, <1>2, EndpointAssumption DEF Init, TypeOK, nullopt

LEMMA MoveType ==
  ASSUME TypeOK, NEW b \in Builders, NEW place \in Places, Move(b, place)
  PROVE  /\ caller' \in [Builders -> [at : Places, reg : Nat, id : Ids, call : Nat]]
         /\ \A c \in Builders : c # b => caller'[c] = caller[c]
         /\ caller'[b].at = place /\ caller'[b].reg = caller[b].reg
         /\ caller'[b].id = caller[b].id /\ caller'[b].call = caller[b].call
<1>1. caller \in [Builders -> [at : Places, reg : Nat, id : Ids, call : Nat]]
  BY DEF TypeOK
<1> QED
  BY <1>1 DEF Move

LEMMA ReturnType ==
  ASSUME TypeOK, NEW b \in Builders, NEW ans \in Nat, Return(b, ans)
  PROVE  /\ \E place \in {"exit", "build"} : Move(b, place)
         /\ caller' \in [Builders -> [at : Places, reg : Nat, id : Ids, call : Nat]]
         /\ returned' \in [Builders -> [call : Nat, ans : Nat]]
<1>1. PICK place \in {"exit", "build"} : Move(b, place)
  BY DEF Return
<1>2. caller' \in [Builders -> [at : Places, reg : Nat, id : Ids, call : Nat]]
  BY <1>1, MoveType DEF Places
<1> QED
  BY <1>1, <1>2 DEF Return, TypeOK

\* The counter stays a number; unless it is set back, a store never lowers it.
LEMMA StoreCounter ==
  ASSUME TypeOK, NEW n \in Nat, Store(n)
  PROVE  /\ ID' = n /\ ID' \in Nat /\ highest' \in Nat /\ setBack' \in BOOLEAN
         /\ ~setBack' => ~setBack /\ ID <= n
<1>1. ID' = n /\ highest' \in Nat
  BY DEF Store, TypeOK
<1>2. setBack' = (setBack \/ n < ID)
  BY DEF Store
<1>3. setBack' \in BOOLEAN
  BY <1>2
<1>4. ~setBack' => ~setBack /\ ~(n < ID)
  BY <1>2, Zenon
<1>5. ~(n < ID) => ID <= n
  BY DEF TypeOK
<1> QED
  BY <1>1, <1>3, <1>4, <1>5

\* What LoadID and StoreID do to the thread and to the counter.
LEMMA LoadType ==
  ASSUME TypeOK, NEW b \in Builders, LoadID(b)
  PROVE  /\ TypeOK'
         /\ \A c \in Builders : c # b => caller'[c] = caller[c]
         /\ caller[b].at \in {"build", "closing"}
         /\ caller'[b] = [at |-> "increment", reg |-> ID, id |-> caller[b].id,
                          call |-> caller[b].call + 1]
<1>1. caller[b] \in [at : Places, reg : Nat, id : Ids, call : Nat] /\ ID \in Nat
  BY DEF TypeOK
<1>2. caller' = [caller EXCEPT ![b] =
                   [@ EXCEPT !.at = "increment", !.reg = ID, !.call = caller[b].call + 1]]
  BY DEF LoadID
<1>3. caller'[b] = [caller[b] EXCEPT !.at = "increment", !.reg = ID, !.call = caller[b].call + 1]
      /\ \A c \in Builders : c # b => caller'[c] = caller[c]
  BY <1>2 DEF TypeOK
<1>4. caller'[b] = [at |-> "increment", reg |-> ID, id |-> caller[b].id,
                    call |-> caller[b].call + 1]
  BY <1>1, <1>3
<1>5. caller'[b] \in [at : Places, reg : Nat, id : Ids, call : Nat]
  BY <1>1, <1>4 DEF Places
<1>6. caller' \in [Builders -> [at : Places, reg : Nat, id : Ids, call : Nat]]
  BY <1>2, <1>3, <1>5 DEF TypeOK
<1>7. TypeOK'
  BY <1>6 DEF LoadID, TypeOK, counter, local, pipes
<1> QED
  BY <1>3, <1>4, <1>7 DEF LoadID, CallerAt

LEMMA StoreType ==
  ASSUME TypeOK, NEW b \in Builders, StoreID(b)
  PROVE  /\ TypeOK'
         /\ \A c \in Builders : c # b => caller'[c] = caller[c]
         /\ caller[b].at = "increment" /\ ID' = caller[b].reg + 1
         /\ ~setBack' => ~setBack /\ ID <= ID'
         /\ caller'[b] = [at |-> "call", reg |-> caller[b].reg, id |-> caller[b].reg,
                          call |-> caller[b].call]
<1>1. caller[b] \in [at : Places, reg : Nat, id : Ids, call : Nat]
  BY DEF TypeOK
<1>2. caller' = [caller EXCEPT ![b] = [@ EXCEPT !.at = "call", !.id = caller[b].reg]]
  BY DEF StoreID
<1>3. caller'[b] = [caller[b] EXCEPT !.at = "call", !.id = caller[b].reg]
      /\ \A c \in Builders : c # b => caller'[c] = caller[c]
  BY <1>2 DEF TypeOK
<1>4. caller'[b] = [at |-> "call", reg |-> caller[b].reg, id |-> caller[b].reg,
                    call |-> caller[b].call]
  BY <1>1, <1>3
<1>5. caller'[b] \in [at : Places, reg : Nat, id : Ids, call : Nat]
  BY <1>1, <1>4 DEF Places, Ids
<1>6. caller' \in [Builders -> [at : Places, reg : Nat, id : Ids, call : Nat]]
  BY <1>2, <1>3, <1>5 DEF TypeOK
<1>8. caller[b].reg + 1 \in Nat /\ Store(caller[b].reg + 1)
  BY <1>1 DEF StoreID
<1>9. /\ ID' = caller[b].reg + 1 /\ ID' \in Nat /\ highest' \in Nat /\ setBack' \in BOOLEAN
      /\ ~setBack' => ~setBack /\ ID <= caller[b].reg + 1
  BY <1>8, StoreCounter
<1>7. TypeOK'
  BY <1>6, <1>9 DEF StoreID, TypeOK, local, pipes
<1> QED
  BY <1>3, <1>4, <1>7, <1>9 DEF StoreID, CallerAt

LEMMA BuilderType ==
  ASSUME TypeOK, NEW b \in Builders, BuilderStep(b)
  PROVE  TypeOK'
<1>1. CASE initLanguageServer(b)
  BY <1>1, MoveType, FixedMessages DEF initLanguageServer, TypeOK, counter, local, pipes, Places, ReceiverPlaces
<1>2. CASE LanguageServerMissing(b)
  BY <1>2, MoveType DEF LanguageServerMissing, TypeOK, counter, local, pipes, Places
<1>3. CASE SendNotification(b)
  BY <1>3, PipeAppend, FixedMessages DEF SendNotification, TypeOK, counter, local
<1>4. CASE LoadID(b)
  BY <1>4, LoadType
<1>5. CASE Stop(b)
  BY <1>5, MoveType DEF Stop, TypeOK, counter, pipes, Places
<1>6. CASE StopWithoutEndpoint(b)
  BY <1>6 DEF StopWithoutEndpoint, TypeOK, counter, local, pipes
<1>7. CASE SpuriousWakeup(b)
  <2>1. left[b].spurious \in Nat /\ left[b].spurious > 0
    BY <1>7 DEF SpuriousWakeup, TypeOK
  <2>2. left[b].spurious - 1 \in Nat
    BY <2>1
  <2>3. left' \in [Builders -> [faults : Nat, spurious : Nat]]
    BY <1>7, <2>2 DEF SpuriousWakeup, TypeOK
  <2> QED
    BY <1>7, <2>3, MoveType DEF SpuriousWakeup, TypeOK, counter, local, pipes, Places
<1> QED
  BY <1>1, <1>2, <1>3, <1>4, <1>5, <1>6, <1>7 DEF BuilderStep

LEMMA CallerType ==
  ASSUME TypeOK, NEW b \in Builders, CallerStep(b)
  PROVE  TypeOK'
<1>1. CASE StoreID(b)
  BY <1>1, StoreType
<1>2. CASE CallMethod(b)
  <2>1. Msg("call", caller[b].id, caller[b].call) \in Messages
    BY MsgType DEF TypeOK, Kinds
  <2>2. toServer' \in [Builders -> Seq(Messages)] /\ eventDict' \in [Builders -> SUBSET Ids]
    BY <1>2, <2>1, PipeAppend DEF CallMethod, TypeOK, Registered
  <2>3. /\ caller' \in [Builders -> [at : Places, reg : Nat, id : Ids, call : Nat]]
        /\ returned' \in [Builders -> [call : Nat, ans : Nat]]
    BY <1>2, MoveType, ReturnType DEF CallMethod, TypeOK, Places, nullopt
  <2> QED
    BY <1>2, <2>2, <2>3 DEF CallMethod, TypeOK, counter
<1>3. CASE Timeout(b)
  BY <1>3, ReturnType DEF Timeout, TypeOK, counter, local, pipes, nullopt
<1>4. CASE Unregister(b)
  BY <1>4, MoveType DEF Unregister, TypeOK, counter, pipes, Places
<1>5. CASE ReadResponse(b)
  <2>1. \E ans \in Nat : Return(b, ans)
    BY <1>5 DEF ReadResponse, Stored, TypeOK, Messages, nullopt
  <2> QED
    BY <1>5, <2>1, ReturnType DEF ReadResponse, TypeOK, counter, local, pipes
<1>6. CASE LoadID(b)
  BY <1>6, LoadType
<1>7. CASE Exit(b)
  BY <1>7, MoveType, PipeAppend, FixedMessages DEF Exit, TypeOK, counter, local, Places
<1>8. CASE JoinReceiver(b) \/ ReapServer(b)
  BY <1>8, MoveType DEF JoinReceiver, ReapServer, TypeOK, counter, local, pipes, Places
<1> QED
  BY <1>1, <1>2, <1>3, <1>4, <1>5, <1>6, <1>7, <1>8 DEF CallerStep

LEMMA ReceiverType ==
  ASSUME TypeOK, NEW b \in Builders, ReceiverStep(b) \/ RecvFails(b)
  PROVE  TypeOK'
<1>r. ASSUME NEW p \in ReceiverPlaces, NEW m \in Messages, Receiver(b, p, m)
      PROVE  receiver' \in [Builders -> [at : ReceiverPlaces, msg : Messages]]
  BY <1>r DEF Receiver, TypeOK
<1>1. CASE LoopTop(b)
  BY <1>1, <1>r, FixedMessages DEF LoopTop, TypeOK, counter, local, pipes, ReceiverPlaces
<1>2. CASE RecvEmpty(b)
  BY <1>2, <1>r, FixedMessages DEF RecvEmpty, TypeOK, counter, local, pipes, ReceiverPlaces
<1>3. CASE RecvFails(b)
  <2>1. left[b].faults \in Nat /\ left[b].faults > 0
    BY <1>3 DEF RecvFails, TypeOK
  <2>2. left[b].faults - 1 \in Nat
    BY <2>1
  <2>3. left' \in [Builders -> [faults : Nat, spurious : Nat]]
    BY <1>3, <2>2 DEF RecvFails, TypeOK
  <2> QED
    BY <1>3, <1>r, <2>3, FixedMessages DEF RecvFails, TypeOK, counter, local, pipes, ReceiverPlaces
<1>4. CASE RecvResponse(b)
  <2>1. Head(toClient[b]) \in Messages /\ Tail(toClient[b]) \in Seq(Messages)
    BY <1>4, PipeTail DEF RecvResponse, TypeOK
  <2>2. Handling(Head(toClient[b])) \in ReceiverPlaces
    BY DEF Handling, ReceiverPlaces
  <2> QED
    BY <1>4, <1>r, <2>1, <2>2 DEF RecvResponse, TypeOK, counter, local
<1>5. CASE SendResponse(b)
  BY <1>5, <1>r, PipeAppend, FixedMessages DEF SendResponse, TypeOK, counter, local, ReceiverPlaces
<1>6. CASE handleResult(b)
  <2>1. receiver' \in [Builders -> [at : ReceiverPlaces, msg : Messages]]
    BY <1>6, <1>r DEF handleResult, TypeOK, ReceiverPlaces
  <2>2. responseDict' \in [Builders -> SUBSET Messages]
    BY <1>6 DEF handleResult, TypeOK
  <2> QED
    BY <1>6, <2>1, <2>2 DEF handleResult, TypeOK, counter, pipes
<1>7. CASE notify_one(b)
  BY <1>7, <1>r, MoveType, FixedMessages DEF notify_one, TypeOK, counter, local, pipes, Places, ReceiverPlaces
<1> QED
  BY <1>1, <1>2, <1>3, <1>4, <1>5, <1>6, <1>7 DEF ReceiverStep

LEMMA ServerType ==
  ASSUME TypeOK, NEW b \in Builders, ServerStep(b)
  PROVE  TypeOK'
<1>1. CASE ServerReads(b)
  <2>1. Head(toServer[b]) \in Messages /\ Tail(toServer[b]) \in Seq(Messages)
    BY <1>1, PipeTail DEF ServerReads, TypeOK
  <2> QED
    BY <1>1, <2>1 DEF ServerReads, TypeOK, counter, local
<1>2. ASSUME NEW kind \in {"result", "error"}, ServerAnswers(b, kind) PROVE TypeOK'
  <2>1. PICK m \in server[b].owed :
          /\ toClient' = [toClient EXCEPT ![b] = Append(@, Msg(kind, m.id, m.call))]
          /\ server' = [server EXCEPT ![b] = [up |-> TRUE, owed |-> @.owed \ {m}]]
    BY <1>2 DEF ServerAnswers
  <2>2. Msg(kind, m.id, m.call) \in Messages
    <3>1. m \in Messages
      BY DEF TypeOK
    <3>2. m.id \in Ids /\ m.call \in Nat
      BY <3>1 DEF Messages
    <3>3. kind \in Kinds
      BY DEF Kinds
    <3> QED
      BY <3>2, <3>3, MsgType
  <2> QED
    BY <1>2, <2>1, <2>2, PipeAppend DEF ServerAnswers, TypeOK, counter, local
<1>3. ASSUME NEW kind \in Traffic \ {"didOpen"}, ServerSpeaks(b, kind) PROVE TypeOK'
  BY <1>3, PipeAppend, FixedMessages, EndpointAssumption DEF ServerSpeaks, TypeOK, counter, local
<1> QED
  BY <1>1, <1>2, <1>3 DEF ServerStep

LEMMA TypeStep == TypeOK /\ [Next]_vars => TypeOK'
<1> SUFFICES ASSUME TypeOK, [Next]_vars PROVE TypeOK'
  OBVIOUS
<1>1. CASE UNCHANGED vars
  BY <1>1 DEF vars, counter, local, pipes, TypeOK
<1>2. CASE OtherStoresID
  <2>1. others \in Nat /\ others > 0 /\ others' = others - 1
    BY <1>2 DEF OtherStoresID, TypeOK
  <2>2. PICK reg \in 0..highest : Store(reg + 1)
    BY <1>2 DEF OtherStoresID
  <2>3. reg + 1 \in Nat
    BY DEF TypeOK
  <2>4. ID' \in Nat /\ highest' \in Nat /\ setBack' \in BOOLEAN
    BY <2>2, <2>3, StoreCounter
  <2> QED
    BY <1>2, <2>1, <2>4 DEF OtherStoresID, TypeOK, local, pipes
<1> QED
  BY <1>1, <1>2, BuilderType, CallerType, ReceiverType, ServerType DEF Next

\* Every variable of the client keeps its type (TypeOK).
THEOREM EndpointTypeCorrect == Spec => []TypeOK
BY TypeInit, TypeStep, PTL DEF Spec

-----------------------------------------------------------------------------
(* One builder's step leaves the others alone. *)

Local(b) == <<caller[b], receiver[b], shutdownFlag[b], eventDict[b], responseDict[b],
              toServer[b], toClient[b], server[b], returned[b]>>

Step(b) == BuilderStep(b) \/ CallerStep(b) \/ ReceiverStep(b) \/ RecvFails(b) \/ ServerStep(b)

LEMMA OthersKept ==
  ASSUME TypeOK, NEW b \in Builders, NEW c \in Builders, c # b, Step(b)
  PROVE  Local(c)' = Local(c)
<1> USE DEF Local, TypeOK, Move, Return, Receiver, local, pipes
<1>1. CASE BuilderStep(b)
  BY <1>1 DEF BuilderStep, initLanguageServer, LanguageServerMissing, SendNotification,
              LoadID, Stop, StopWithoutEndpoint, SpuriousWakeup
<1>2. CASE CallerStep(b)
  BY <1>2 DEF CallerStep, StoreID, CallMethod, Timeout, Unregister, ReadResponse, LoadID,
              Exit, JoinReceiver, ReapServer
<1>3. CASE ReceiverStep(b) \/ RecvFails(b)
  BY <1>3 DEF ReceiverStep, LoopTop, RecvEmpty, RecvFails, RecvResponse, SendResponse,
              handleResult, notify_one
<1>4. CASE ServerStep(b)
  BY <1>4 DEF ServerStep, ServerReads, ServerAnswers, ServerSpeaks
<1> QED
  BY <1>1, <1>2, <1>3, <1>4 DEF Step

-----------------------------------------------------------------------------
(* Where messages come from *)

\* The messages of a builder that are under way or kept, and their numbers.
Known(b) == Range(toServer[b]) \cup Range(toClient[b]) \cup server[b].owed
              \cup responseDict[b] \cup {receiver[b].msg}
Nums(b) == {<<m.id, m.call>> : m \in Known(b)}
NoCall == <<-1, 0>>

\* The numbers of a message are copied, never made up: only CallMethod brings new ones.
LEMMA CopiesOnly ==
  ASSUME NEW b \in Builders, NEW X,
         \A m \in Known(b)' : m \in Known(b) \/ <<m.id, m.call>> \in X \cup Nums(b)
  PROVE  Nums(b)' \subseteq Nums(b) \cup X
BY DEF Nums

LEMMA FixedNums ==
  /\ <<NoMsg.id, NoMsg.call>> = NoCall
  /\ \A kind : <<Msg(kind, -1, 0).id, Msg(kind, -1, 0).call>> = NoCall
BY DEF NoMsg, Msg, NoCall

LEMMA CallFlow ==
  ASSUME TypeOK, NEW b \in Builders, CallMethod(b)
  PROVE  Nums(b)' \subseteq Nums(b) \cup {<<caller[b].id, caller[b].call>>}
<1> DEFINE m == Msg("call", caller[b].id, caller[b].call)
<1>1. m \in Messages /\ <<m.id, m.call>> = <<caller[b].id, caller[b].call>>
  BY MsgType DEF TypeOK, Kinds, Msg
<1>2. toServer'[b] = Append(toServer[b], m) /\ toServer[b] \in Seq(Messages)
      /\ UNCHANGED <<toClient, server, responseDict, receiver>>
  BY DEF CallMethod, TypeOK
<1> HIDE DEF m
<1>3. Range(toServer'[b]) = Range(toServer[b]) \cup {m}
  BY <1>1, <1>2, PipeAppend
<1>4. Known(b)' = Known(b) \cup {m}
  BY <1>2, <1>3 DEF Known
<1> QED
  BY <1>1, <1>4, CopiesOnly

LEMMA OtherFlow ==
  ASSUME TypeOK, NEW b \in Builders, Step(b), ~CallMethod(b)
  PROVE  Nums(b)' \subseteq Nums(b) \cup {NoCall}
<1>1. CASE UNCHANGED <<toServer, toClient, server, responseDict, receiver>>
  BY <1>1 DEF Nums, Known
<1>2. CASE /\ UNCHANGED <<toServer, toClient, responseDict>>
           /\ receiver'[b].msg = NoMsg
           /\ server'[b].owed \subseteq server[b].owed
  <2>1. Known(b)' \subseteq Known(b) \cup {NoMsg}
    BY <1>2 DEF Known
  <2> QED
    BY <2>1, FixedNums, CopiesOnly
<1>3. ASSUME NEW m \in Messages, <<m.id, m.call>> \in Nums(b) \cup {NoCall},
             \/ toServer' = [toServer EXCEPT ![b] = Append(@, m)] /\ UNCHANGED toClient
             \/ toClient' = [toClient EXCEPT ![b] = Append(@, m)] /\ UNCHANGED toServer,
             UNCHANGED responseDict, server'[b].owed \subseteq server[b].owed,
             receiver' = receiver \/ receiver'[b].msg = NoMsg
      PROVE  Nums(b)' \subseteq Nums(b) \cup {NoCall}
  <2>1. toServer[b] \in Seq(Messages) /\ toClient[b] \in Seq(Messages)
    BY DEF TypeOK
  <2>2. \/ toServer'[b] = Append(toServer[b], m) /\ toClient'[b] = toClient[b]
        \/ toClient'[b] = Append(toClient[b], m) /\ toServer'[b] = toServer[b]
    BY <1>3 DEF TypeOK
  <2>3. Range(toServer'[b]) \cup Range(toClient'[b])
          = Range(toServer[b]) \cup Range(toClient[b]) \cup {m}
    <3>1. /\ Range(Append(toServer[b], m)) = Range(toServer[b]) \cup {m}
          /\ Range(Append(toClient[b], m)) = Range(toClient[b]) \cup {m}
      BY <2>1, PipeAppend
    <3> QED
      BY <2>2, <3>1
  <2>4. Known(b)' \subseteq Known(b) \cup {m, NoMsg}
    BY <1>3, <2>3 DEF Known
  <2> QED
    BY <1>3, <2>4, FixedNums, CopiesOnly
<1>4. CASE SendNotification(b) \/ Exit(b) \/ SendResponse(b)
  <2>1. PICK kind \in {"notify", "reply", "exit"} :
          toServer' = [toServer EXCEPT ![b] = Append(@, Msg(kind, -1, 0))]
    BY <1>4 DEF SendNotification, Exit, SendResponse
  <2>2. /\ UNCHANGED <<toClient, responseDict, server>>
        /\ receiver' = receiver \/ receiver'[b].msg = NoMsg
    BY <1>4 DEF SendNotification, Exit, SendResponse, Receiver, TypeOK, counter, local
  <2>3. Msg(kind, -1, 0) \in Messages
        /\ <<Msg(kind, -1, 0).id, Msg(kind, -1, 0).call>> = NoCall
    BY FixedMessages, FixedNums
  <2> QED
    BY <1>3, <2>1, <2>2, <2>3
<1>5. CASE RecvResponse(b)
  <2>1. /\ toClient[b] \in Seq(Messages) /\ toClient[b] # <<>>
        /\ toClient'[b] = Tail(toClient[b]) /\ receiver'[b].msg = Head(toClient[b])
        /\ UNCHANGED <<toServer, server, responseDict>>
    BY <1>5 DEF RecvResponse, TypeOK, Receiver, local
  <2>2. Head(toClient[b]) \in Range(toClient[b]) /\ Range(toClient'[b]) \subseteq Range(toClient[b])
    BY <2>1, PipeTail
  <2>3. Known(b)' \subseteq Known(b)
    BY <2>1, <2>2 DEF Known
  <2> QED
    BY <2>3 DEF Nums
<1>6. CASE handleResult(b)
  <2>1. /\ UNCHANGED <<toServer, toClient, server>>
        /\ responseDict'[b] \subseteq responseDict[b] \cup {receiver[b].msg}
        /\ receiver'[b].msg = receiver[b].msg
    BY <1>6 DEF handleResult, TypeOK, Receiver, pipes
  <2>2. Known(b)' \subseteq Known(b)
    BY <2>1 DEF Known
  <2> QED
    BY <2>2 DEF Nums
<1>7. CASE ServerReads(b)
  <2>1. /\ toServer[b] \in Seq(Messages) /\ toServer[b] # <<>>
        /\ toServer'[b] = Tail(toServer[b])
        /\ server'[b].owed \subseteq server[b].owed \cup {Head(toServer[b])}
        /\ UNCHANGED <<toClient, responseDict, receiver>>
    BY <1>7 DEF ServerReads, TypeOK, counter, local
  <2>2. Head(toServer[b]) \in Range(toServer[b]) /\ Range(toServer'[b]) \subseteq Range(toServer[b])
    BY <2>1, PipeTail
  <2>3. Known(b)' \subseteq Known(b)
    BY <2>1, <2>2 DEF Known
  <2> QED
    BY <2>3 DEF Nums
<1>8. ASSUME NEW kind \in {"result", "error"}, ServerAnswers(b, kind)
      PROVE  Nums(b)' \subseteq Nums(b) \cup {NoCall}
  <2>1. PICK m \in server[b].owed :
          /\ toClient' = [toClient EXCEPT ![b] = Append(@, Msg(kind, m.id, m.call))]
          /\ server' = [server EXCEPT ![b] = [up |-> TRUE, owed |-> @.owed \ {m}]]
    BY <1>8 DEF ServerAnswers
  <2>2. m \in Messages /\ m \in Known(b) /\ kind \in Kinds
    BY DEF TypeOK, Known, Kinds
  <2>3. <<m.id, m.call>> \in Nums(b) /\ m.id \in Ids /\ m.call \in Nat
    BY <2>2 DEF Nums, Messages
  <2>4. Msg(kind, m.id, m.call) \in Messages
    BY <2>2, <2>3, MsgType
  <2>5. <<Msg(kind, m.id, m.call).id, Msg(kind, m.id, m.call).call>> = <<m.id, m.call>>
    BY DEF Msg
  <2>6. server'[b].owed \subseteq server[b].owed /\ UNCHANGED <<toServer, responseDict, receiver>>
    BY <1>8, <2>1 DEF TypeOK, ServerAnswers, local
  <2> QED
    BY <1>3, <2>1, <2>3, <2>4, <2>5, <2>6
<1>9. ASSUME NEW kind \in Traffic \ {"didOpen"}, ServerSpeaks(b, kind)
      PROVE  Nums(b)' \subseteq Nums(b) \cup {NoCall}
  <2>1. kind \in {"notify", "request"}
    BY EndpointAssumption
  <2> QED
    BY <1>3, <1>9, <2>1, FixedMessages, FixedNums DEF ServerSpeaks, local
<1>10. CASE BuilderStep(b)
  BY <1>1, <1>2, <1>4, <1>10
     DEF BuilderStep, initLanguageServer, LanguageServerMissing, LoadID, Stop,
         StopWithoutEndpoint, SpuriousWakeup, local, pipes, TypeOK
<1>11. CASE CallerStep(b)
  BY <1>1, <1>4, <1>11
     DEF CallerStep, StoreID, Timeout, Unregister, ReadResponse, LoadID, JoinReceiver,
         ReapServer, local, pipes
<1>12. CASE ReceiverStep(b) \/ RecvFails(b)
  BY <1>2, <1>4, <1>5, <1>6, <1>12
     DEF ReceiverStep, LoopTop, RecvEmpty, RecvFails, notify_one, Receiver, local, pipes, TypeOK
<1>13. CASE ServerStep(b)
  BY <1>7, <1>8, <1>9, <1>13 DEF ServerStep
<1> QED
  BY <1>10, <1>11, <1>12, <1>13 DEF Step

-----------------------------------------------------------------------------
(* No notification is lost *)

Calling == {"increment", "call", "wait", "woken", "read"}

\* The numbers of the builder's messages belong to its past calls, or to the call that
\* is under way once CallMethod has sent it.
Numbered(b) == \A n \in Nums(b) :
  /\ n[2] \in Nat /\ n[2] <= caller[b].call
  /\ n[2] = caller[b].call /\ n[2] > 0 =>
       n[1] = caller[b].id /\ caller[b].at \notin {"increment", "call"}

Notified(b) ==
  caller[b].at = "wait" =>
    \A m \in responseDict[b] :
      m.id = caller[b].id /\ m.call = caller[b].call
        => receiver[b].at = "notify" /\ receiver[b].msg = m

CallInv(b) ==
  /\ Numbered(b)
  /\ caller[b].at \in Calling => caller[b].call > 0
  /\ caller[b].at = "wait" => caller[b].id \in eventDict[b]
  /\ Notified(b)

\* A step of the builder's thread to a place where it does not wait.
LEMMA CallerMoves ==
  ASSUME TypeOK, NEW b \in Builders, CallInv(b), Nums(b)' \subseteq Nums(b) \cup {NoCall},
         NEW place \in Places \ {"increment", "call", "wait"}, Move(b, place),
         place \in Calling => caller[b].at \in Calling
  PROVE  CallInv(b)'
<1>1. /\ caller'[b].at = place /\ caller'[b].id = caller[b].id
      /\ caller'[b].call = caller[b].call /\ caller[b].call \in Nat
  BY MoveType DEF TypeOK
<1>2. Numbered(b)'
  BY <1>1 DEF CallInv, Numbered, NoCall
<1> QED
  BY <1>1, <1>2 DEF CallInv, Notified

\* A step that leaves the builder's thread and its condition variables alone.
LEMMA CallerStays ==
  ASSUME TypeOK, NEW b \in Builders, CallInv(b), Nums(b)' \subseteq Nums(b) \cup {NoCall},
         caller'[b] = caller[b], eventDict'[b] = eventDict[b],
         \/ Notified(b)'
         \/ responseDict'[b] = responseDict[b] /\ receiver'[b] = receiver[b]
         \/ responseDict'[b] = responseDict[b] /\ receiver[b].at # "notify"
  PROVE  CallInv(b)'
<1>1. caller[b].call \in Nat
  BY DEF TypeOK
<1>2. Numbered(b)'
  BY <1>1 DEF CallInv, Numbered, NoCall
<1>3. Notified(b)'
  BY DEF CallInv, Notified
<1> QED
  BY <1>2, <1>3 DEF CallInv

LEMMA HandleNotifies ==
  ASSUME TypeOK, NEW b \in Builders, CallInv(b), handleResult(b)
  PROVE  Notified(b)'
<1> DEFINE m == receiver[b].msg
<1>1. /\ receiver[b].at = "handle" /\ caller' = caller
      /\ responseDict'[b] = {n \in responseDict[b] : n.id # m.id} \cup {m}
      /\ receiver'[b] = [at |-> IF m.id \in eventDict[b] THEN "notify" ELSE "loop", msg |-> m]
  BY DEF handleResult, TypeOK, ReceiverAt, Receiver
<1>2. ASSUME caller[b].at = "wait", NEW n \in responseDict[b]
      PROVE  ~(n.id = caller[b].id /\ n.call = caller[b].call)
  BY <1>1, <1>2 DEF CallInv, Notified
<1>3. caller[b].at = "wait" => caller[b].id \in eventDict[b]
  BY DEF CallInv
<1> QED
  BY <1>1, <1>2, <1>3 DEF Notified

LEMMA CallMethodKeeps ==
  ASSUME TypeOK, NEW b \in Builders, CallInv(b), CallMethod(b)
  PROVE  CallInv(b)'
<1>1. caller[b].at = "call" /\ caller[b].call > 0 /\ caller[b].call \in Nat
  BY DEF CallMethod, CallerAt, CallInv, Calling, TypeOK
<1>2. PICK place \in {"wait", "exit", "build"} : Move(b, place)
  BY DEF CallMethod, Return
<1>3. /\ caller'[b].at = place /\ caller'[b].id = caller[b].id
      /\ caller'[b].call = caller[b].call
  BY <1>2, MoveType DEF Places
<1>4. \A n \in Nums(b) : n[2] \in Nat /\ n[2] <= caller[b].call /\ n[2] # caller[b].call
  BY <1>1 DEF CallInv, Numbered
<1>5. Numbered(b)'
  BY <1>1, <1>3, <1>4, CallFlow DEF Numbered
<1>6. caller'[b].id \in eventDict'[b]
  BY <1>3 DEF CallMethod, TypeOK, Registered
<1>7. \A m \in responseDict[b] : m.call # caller[b].call
  <2>1. \A m \in responseDict[b] : <<m.id, m.call>> \in Nums(b)
    BY DEF Nums, Known
  <2> QED
    BY <1>4, <2>1
<1>8. Notified(b)'
  BY <1>3, <1>7 DEF Notified, CallMethod
<1> QED
  BY <1>1, <1>3, <1>5, <1>6, <1>8 DEF CallInv

LEMMA CallKept ==
  ASSUME TypeOK, NEW b \in Builders, CallInv(b), Step(b)
  PROVE  CallInv(b)'
<1>f. ~CallMethod(b) => Nums(b)' \subseteq Nums(b) \cup {NoCall}
  BY OtherFlow
<1>c. caller[b].call \in Nat
  BY DEF TypeOK
<1>1. CASE LoadID(b)
  <2>1. ~CallMethod(b) /\ caller'[b].at = "increment" /\ caller'[b].call = caller[b].call + 1
    <3>1. caller[b].at \in {"build", "closing"}
          /\ caller'[b] = [at |-> "increment", reg |-> ID, id |-> caller[b].id,
                           call |-> caller[b].call + 1]
      BY <1>1, LoadType
    <3> QED
      BY <3>1 DEF CallMethod, CallerAt
  <2>2. \A n \in Nums(b)' : n[2] \in Nat /\ n[2] <= caller[b].call
    BY <1>f, <1>c, <2>1 DEF CallInv, Numbered, NoCall
  <2>3. Numbered(b)'
    BY <1>c, <2>1, <2>2 DEF Numbered
  <2> QED
    BY <1>c, <2>1, <2>3 DEF CallInv, Notified
<1>2. CASE StoreID(b)
  <2>1. /\ ~CallMethod(b) /\ caller[b].at = "increment" /\ caller'[b].at = "call"
        /\ caller'[b].call = caller[b].call
    <3>1. caller[b].at = "increment"
          /\ caller'[b] = [at |-> "call", reg |-> caller[b].reg, id |-> caller[b].reg,
                           call |-> caller[b].call]
      BY <1>2, StoreType
    <3> QED
      BY <3>1 DEF CallMethod, CallerAt
  <2>2. Numbered(b)'
    BY <1>f, <1>c, <2>1 DEF CallInv, Numbered, NoCall
  <2> QED
    BY <2>1, <2>2 DEF CallInv, Notified, Calling
<1>3. CASE CallMethod(b)
  BY <1>3, CallMethodKeeps
<1>4. CASE /\ ~CallMethod(b)
           /\ \E place \in Places \ {"increment", "call", "wait"} :
                Move(b, place) /\ (place \in Calling => caller[b].at \in Calling)
  BY <1>f, <1>4, CallerMoves
<1>5. CASE initLanguageServer(b) \/ LanguageServerMissing(b) \/ Stop(b) \/ SpuriousWakeup(b)
           \/ Unregister(b) \/ Exit(b) \/ JoinReceiver(b) \/ ReapServer(b)
  BY <1>4, <1>5 DEF initLanguageServer, LanguageServerMissing, Stop, SpuriousWakeup, Unregister,
       Exit, JoinReceiver, ReapServer, CallMethod, CallerAt, Places, Calling
<1>6. CASE Timeout(b) \/ ReadResponse(b)
  <2>1. \E place \in {"exit", "build"} : Move(b, place)
    BY <1>6 DEF Timeout, ReadResponse, Return
  <2> QED
    BY <1>4, <1>6, <2>1 DEF Timeout, ReadResponse, CallMethod, CallerAt, Places, Calling
<1>7. CASE SendNotification(b) \/ StopWithoutEndpoint(b) \/ ServerStep(b)
  <2>1. UNCHANGED <<caller, eventDict, responseDict, receiver>>
    BY <1>7 DEF SendNotification, StopWithoutEndpoint, ServerStep, ServerReads, ServerAnswers,
                ServerSpeaks, local
  <2>2. CASE ~CallMethod(b)
    BY <1>f, <2>1, <2>2, CallerStays
  <2> QED
    BY <1>3, <2>2
<1>8. CASE RecvFails(b) \/ LoopTop(b) \/ RecvEmpty(b) \/ RecvResponse(b) \/ SendResponse(b)
  <2>1. UNCHANGED <<caller, eventDict, responseDict>> /\ receiver[b].at # "notify"
    BY <1>8 DEF RecvFails, LoopTop, RecvEmpty, RecvResponse, SendResponse, ReceiverAt, local
  <2>2. CASE ~CallMethod(b)
    BY <1>f, <2>1, <2>2, CallerStays
  <2> QED
    BY <1>3, <2>2
<1>9. CASE handleResult(b)
  <2>1. UNCHANGED <<caller, eventDict>> /\ Notified(b)'
    BY <1>9, HandleNotifies DEF handleResult
  <2>2. CASE ~CallMethod(b)
    BY <1>f, <2>1, <2>2, CallerStays
  <2> QED
    BY <1>3, <2>2
<1>10. CASE notify_one(b)
  <2>1. CASE caller[b].at = "wait" /\ caller[b].id = receiver[b].msg.id
    BY <1>4, <1>10, <2>1 DEF notify_one, CallMethod, CallerAt, Places, Calling
  <2>2. CASE ~(caller[b].at = "wait" /\ caller[b].id = receiver[b].msg.id)
    <3>1. UNCHANGED <<caller, eventDict, responseDict>>
      BY <1>10, <2>2 DEF notify_one, local
    <3>2. Notified(b)'
      BY <2>2, <3>1 DEF CallInv, Notified
    <3>3. CASE ~CallMethod(b)
      BY <1>f, <3>1, <3>2, <3>3, CallerStays
    <3> QED
      BY <1>3, <3>3
  <2> QED
    BY <2>1, <2>2
<1> QED
  BY <1>1, <1>2, <1>3, <1>5, <1>6, <1>7, <1>8, <1>9, <1>10
     DEF Step, BuilderStep, CallerStep, ReceiverStep

\* CallMethod and handleResult, for every number of builders: the response to a call
\* that waits is never stored without its waiter being notified, whatever frames are
\* lost, threads woken spuriously or calls timed out before.
THEOREM NotificationsArrive == Spec => []NoLostNotify
<1> DEFINE Inv == TypeOK /\ \A b \in Builders : CallInv(b)
<1>1. Init => Inv
  <2> SUFFICES ASSUME Init, NEW b \in Builders PROVE CallInv(b)
    BY TypeInit
  <2>1. toServer[b] = <<>> /\ toClient[b] = <<>> /\ <<>> \in Seq(Messages)
    BY DEF Init
  <2>2. Range(toServer[b]) = {} /\ Range(toClient[b]) = {}
    BY <2>1 DEF Range
  <2>3. Nums(b) = {NoCall}
    BY <2>2, FixedNums DEF Init, Nums, Known
  <2> QED
    BY <2>3 DEF Init, CallInv, Numbered, Notified, NoCall, Calling
<1>2. Inv /\ [Next]_vars => Inv'
  <2> SUFFICES ASSUME Inv, [Next]_vars PROVE Inv'
    OBVIOUS
  <2>1. TypeOK'
    BY TypeStep
  <2>2. ASSUME NEW c \in Builders, Local(c)' = Local(c) PROVE CallInv(c)'
    BY <2>2 DEF Local, CallInv, Numbered, Notified, Nums, Known
  <2>3. ASSUME NEW b \in Builders, Step(b), NEW c \in Builders PROVE CallInv(c)'
    BY <2>2, <2>3, OthersKept, CallKept
  <2>4. CASE UNCHANGED vars \/ OtherStoresID
    BY <2>2, <2>1, <2>4 DEF vars, local, pipes, Local, OtherStoresID
  <2> QED
    BY <2>1, <2>3, <2>4 DEF Next, Step
<1>3. Inv => NoLostNotify
  BY DEF CallInv, Notified, NoLostNotify
<1> QED
  BY <1>1, <1>2, <1>3, PTL DEF Spec

-----------------------------------------------------------------------------
(* Answers belong to their calls unless the counter was set back *)

\* As long as no store has lowered the counter, every number the builder has used is
\* below the counter, and below the value the builder has loaded for its next call; the
\* number of its present call is that of no other call.
Numbers(b) ==
  /\ caller[b].id < ID
  /\ caller[b].at = "increment" => caller[b].id < caller[b].reg
  /\ caller[b].at \in {"call", "wait", "woken", "read"} => caller[b].id >= 0
  /\ \A n \in Nums(b) :
       /\ n[1] \in Ids /\ n[1] < ID
       /\ caller[b].at = "increment" => n[1] < caller[b].reg
       /\ n[1] = caller[b].id /\ n[1] >= 0 /\ caller[b].at # "increment" => n[2] = caller[b].call
  /\ returned[b].ans # nullopt => returned[b].ans = returned[b].call

NumberInv(b) == ~setBack => Numbers(b)

\* A step of the builder's thread that keeps its numbers and the counter.
LEMMA NumberMoves ==
  ASSUME TypeOK, NEW b \in Builders, Numbers(b), UNCHANGED ID, NEW place \in Places,
         Nums(b)' \subseteq Nums(b) \cup {NoCall, <<caller[b].id, caller[b].call>>},
         Move(b, place), place # "increment", caller[b].at # "increment",
         place \in {"call", "wait", "woken", "read"} =>
           caller[b].at \in {"call", "wait", "woken", "read"},
         returned'[b].ans # nullopt => returned'[b].ans = returned'[b].call
  PROVE  Numbers(b)'
<1>1. /\ caller'[b].at = place /\ caller'[b].id = caller[b].id
      /\ caller'[b].call = caller[b].call /\ caller[b].id \in Ids /\ ID \in Nat
  BY MoveType DEF TypeOK
<1> QED
  BY <1>1 DEF Numbers, NoCall, Ids

\* A step that leaves the builder's thread alone and does not lower the counter.
LEMMA NumberStays ==
  ASSUME TypeOK, NEW b \in Builders, Numbers(b), ID' \in Nat, ID <= ID',
         caller'[b] = caller[b], returned'[b] = returned[b],
         Nums(b)' \subseteq Nums(b) \cup {NoCall}
  PROVE  Numbers(b)'
<1>1. ID \in Nat /\ caller[b].id \in Ids /\ caller[b].reg \in Nat
  BY DEF TypeOK
<1>2. \A n \in Nums(b)' : /\ n[1] \in Ids /\ n[1] < ID'
                          /\ caller[b].at = "increment" => n[1] < caller[b].reg
  BY <1>1 DEF Numbers, NoCall, Ids
<1>3. \A n \in Nums(b)' :
        n[1] = caller[b].id /\ n[1] >= 0 /\ caller[b].at # "increment" => n[2] = caller[b].call
  BY <1>1 DEF Numbers, NoCall
<1>4. caller[b].id < ID'
  BY <1>1 DEF Numbers, Ids
<1> QED
  BY <1>2, <1>3, <1>4 DEF Numbers

LEMMA ReturnNothing ==
  ASSUME TypeOK, NEW b \in Builders, Return(b, nullopt)
  PROVE  returned'[b].ans = nullopt /\ \E place \in {"exit", "build"} : Move(b, place)
BY DEF TypeOK, Return

LEMMA NumberKept ==
  ASSUME TypeOK, NEW b \in Builders, Numbers(b), Step(b), ~setBack'
  PROVE  Numbers(b)'
<1>f. Nums(b)' \subseteq Nums(b) \cup {NoCall, <<caller[b].id, caller[b].call>>}
  BY OtherFlow, CallFlow
<1>t. ID \in Nat /\ caller[b].id \in Ids /\ caller[b].reg \in Nat
  BY DEF TypeOK
<1>a. returned[b].ans # nullopt => returned[b].ans = returned[b].call
  BY DEF Numbers
<1>1. CASE LoadID(b)
  <2>1. caller[b].at \in {"build", "closing"}
        /\ caller'[b] = [at |-> "increment", reg |-> ID, id |-> caller[b].id,
                         call |-> caller[b].call + 1]
    BY <1>1, LoadType
  <2>2. UNCHANGED <<ID, returned>>
    BY <1>1 DEF LoadID, counter
  <2> QED
    BY <1>f, <1>t, <2>1, <2>2 DEF Numbers, NoCall, Ids
<1>2. CASE StoreID(b)
  <2>1. /\ caller[b].at = "increment" /\ ID' = caller[b].reg + 1
        /\ caller'[b] = [at |-> "call", reg |-> caller[b].reg, id |-> caller[b].reg,
                         call |-> caller[b].call]
        /\ UNCHANGED returned
    BY <1>2, StoreType DEF StoreID
  <2>2. ~CallMethod(b)
    BY <2>1 DEF CallMethod, CallerAt
  <2>3. \A n \in Nums(b)' : n[1] \in Ids /\ n[1] < caller[b].reg
    BY <1>t, <2>1, <2>2, OtherFlow DEF Numbers, NoCall, Ids
  <2> QED
    BY <1>t, <2>1, <2>3 DEF Numbers, Ids
<1>3. ASSUME NEW place \in Places \ {"increment"}, Move(b, place), UNCHANGED ID,
             caller[b].at # "increment",
             place \in {"call", "wait", "woken", "read"} =>
               caller[b].at \in {"call", "wait", "woken", "read"},
             UNCHANGED returned \/ returned'[b].ans = nullopt
      PROVE  Numbers(b)'
  BY <1>f, <1>a, <1>3, NumberMoves
<1>4. CASE CallMethod(b) \/ Timeout(b)
  <2>1. caller[b].at \in {"call", "wait"} /\ UNCHANGED ID
    BY <1>4 DEF CallMethod, Timeout, CallerAt, counter
  <2>2. CASE Return(b, nullopt)
    BY <1>3, <2>1, <2>2, ReturnNothing DEF Places
  <2>3. CASE Move(b, "wait") /\ UNCHANGED returned /\ CallMethod(b)
    BY <1>3, <2>1, <2>3 DEF Places
  <2> QED
    BY <1>4, <2>2, <2>3 DEF CallMethod, Timeout
<1>5. CASE ReadResponse(b)
  <2>1. caller[b].at = "read" /\ UNCHANGED ID
    BY <1>5 DEF ReadResponse, CallerAt, counter
  <2>2. CASE Return(b, nullopt)
    BY <1>3, <2>1, <2>2, ReturnNothing DEF Places
  <2>3. ASSUME NEW m \in Stored(b), Return(b, m.call) PROVE Numbers(b)'
    <3>1. <<m.id, m.call>> \in Nums(b) /\ m.id = caller[b].id
      BY DEF Stored, Nums, Known
    <3>2. m.call = caller[b].call
      BY <2>1, <3>1 DEF Numbers
    <3>3. returned'[b].ans = returned'[b].call /\ \E place \in {"exit", "build"} : Move(b, place)
      BY <2>3, <3>2 DEF Return, TypeOK
    <3> QED
      BY <1>f, <2>1, <3>3, NumberMoves DEF Places
  <2> QED
    BY <1>5, <2>2, <2>3 DEF ReadResponse
<1>6. CASE initLanguageServer(b) \/ LanguageServerMissing(b) \/ Stop(b) \/ SpuriousWakeup(b)
           \/ Unregister(b) \/ Exit(b) \/ JoinReceiver(b) \/ ReapServer(b)
  BY <1>3, <1>6 DEF initLanguageServer, LanguageServerMissing, Stop, SpuriousWakeup, Unregister,
       Exit, JoinReceiver, ReapServer, CallerAt, Places, counter
<1>7. CASE UNCHANGED <<ID, caller, returned>> /\ ~CallMethod(b)
  BY <1>7, <1>t, NumberStays, OtherFlow
<1>8. CASE SendNotification(b) \/ StopWithoutEndpoint(b) \/ ServerStep(b)
           \/ RecvFails(b) \/ LoopTop(b) \/ RecvEmpty(b) \/ RecvResponse(b) \/ SendResponse(b)
           \/ handleResult(b)
  <2>1. UNCHANGED <<ID, caller, returned>>
    BY <1>8 DEF SendNotification, StopWithoutEndpoint, ServerStep, ServerReads, ServerAnswers,
                ServerSpeaks, RecvFails, LoopTop, RecvEmpty, RecvResponse, SendResponse,
                handleResult, counter
  <2> QED
    BY <1>4, <1>7, <2>1
<1>9. CASE notify_one(b)
  <2>1. CASE caller[b].at = "wait" /\ Move(b, "woken")
    BY <1>3, <1>9, <2>1 DEF notify_one, Places, counter
  <2>2. CASE UNCHANGED caller
    <3>1. UNCHANGED <<ID, caller, returned>>
      BY <1>9, <2>2 DEF notify_one, counter
    <3> QED
      BY <1>4, <1>7, <3>1
  <2> QED
    BY <1>9, <2>1, <2>2 DEF notify_one
<1> QED
  BY <1>1, <1>2, <1>4, <1>5, <1>6, <1>8, <1>9 DEF Step, BuilderStep, CallerStep, ReceiverStep

\* The counter after a step: unless it is set back it does not fall.
LEMMA CounterGrows ==
  ASSUME TypeOK, [Next]_vars, ~setBack'
  PROVE  ~setBack /\ ID' \in Nat /\ ID <= ID'
<1>t. ID \in Nat /\ ID' \in Nat
  BY TypeStep DEF TypeOK
<1>1. CASE UNCHANGED counter
  BY <1>t, <1>1 DEF counter
<1>2. CASE OtherStoresID
  <2>1. PICK reg \in 0..highest : Store(reg + 1)
    BY <1>2 DEF OtherStoresID
  <2>2. reg + 1 \in Nat
    BY DEF TypeOK
  <2> QED
    BY <1>t, <2>1, <2>2, StoreCounter
<1>3. ASSUME NEW b \in Builders, StoreID(b) PROVE ~setBack /\ ID' \in Nat /\ ID <= ID'
  BY <1>t, <1>3, StoreType
<1>4. ASSUME NEW b \in Builders, Step(b), ~StoreID(b) PROVE UNCHANGED counter
  BY <1>4 DEF Step, BuilderStep, CallerStep, ReceiverStep, ServerStep, initLanguageServer,
       LanguageServerMissing, SendNotification, LoadID, Stop, StopWithoutEndpoint,
       SpuriousWakeup, CallMethod, Timeout, Unregister, ReadResponse, Exit, JoinReceiver,
       ReapServer, LoopTop, RecvEmpty, RecvFails, RecvResponse, SendResponse, handleResult,
       notify_one, ServerReads, ServerAnswers, ServerSpeaks
<1>5. CASE UNCHANGED vars
  BY <1>1, <1>5 DEF vars
<1> QED
  BY <1>1, <1>2, <1>3, <1>4, <1>5 DEF Next, Step

\* What a step of somebody else leaves of a builder's numbers.
LEMMA NumberOthers ==
  ASSUME TypeOK, NEW c \in Builders, Numbers(c), [Next]_vars, ~setBack',
         Local(c)' = Local(c)
  PROVE  Numbers(c)'
<1>1. caller'[c] = caller[c] /\ returned'[c] = returned[c] /\ Nums(c)' = Nums(c)
  BY DEF Local, Nums, Known
<1> QED
  BY <1>1, CounterGrows, NumberStays

\* The endpoint "handles the details of matching responses to requests" for any number of
\* builders, in full or as further users of the counter, and any value the counter starts
\* from: what CallMethod returns is the answer to that call unless some builder's store
\* has set the shared counter back.  The unsynchronised `ID++` is thus the only way in which
\* an answer can go to a call it does not belong to.
THEOREM AnswersBelongUnlessSetBack == Spec => []AnswerBelongs
<1> DEFINE Inv == TypeOK /\ \A b \in Builders : NumberInv(b)
<1>1. Init => Inv
  <2> SUFFICES ASSUME Init, NEW b \in Builders PROVE Numbers(b)
    BY TypeInit DEF NumberInv
  <2>1. Range(toServer[b]) = {} /\ Range(toClient[b]) = {}
    BY DEF Init, Range
  <2>2. Nums(b) = {NoCall}
    BY <2>1, FixedNums DEF Init, Nums, Known
  <2> QED
    BY <2>2, EndpointAssumption DEF Init, Numbers, NoCall, Ids
<1>2. Inv /\ [Next]_vars => Inv'
  <2> SUFFICES ASSUME Inv, [Next]_vars, NEW c \in Builders, ~setBack' PROVE Numbers(c)'
    BY TypeStep DEF NumberInv
  <2>1. Numbers(c)
    BY CounterGrows DEF NumberInv
  <2>2. CASE Local(c)' = Local(c)
    BY <2>1, <2>2, NumberOthers
  <2>3. ASSUME NEW b \in Builders, Step(b) PROVE Numbers(c)'
    BY <2>1, <2>2, <2>3, OthersKept, NumberKept
  <2>4. CASE UNCHANGED vars \/ OtherStoresID
    BY <2>2, <2>4 DEF vars, local, pipes, Local, OtherStoresID
  <2> QED
    BY <2>3, <2>4 DEF Next, Step
<1>3. Inv => AnswerBelongs
  BY DEF NumberInv, Numbers, AnswerBelongs
<1> QED
  BY <1>1, <1>2, <1>3, PTL DEF Spec
=============================================================================
