----------------------------- MODULE LspEndpoint -----------------------------
(***************************************************************************)
(* The language-server client of lsp/client.cpp as the GraphBuilders use   *)
(* it.  Three builders run at a time, one per side of the merge; each has  *)
(* an LspEndpoint of its own with a receiving thread and a clangd process, *)
(* and all endpoints draw their request numbers from one static counter.   *)
(*                                                                         *)
(* Messages are whole here: how they are cut out of the bytes of a pipe is *)
(* the subject of LspPipe, of which RecvFails is the bad outcome.  Every   *)
(* use of cvMutex is one critical section and so one action.               *)
(***************************************************************************)
EXTENDS Integers, Sequences

CONSTANTS
  Builders,     \* GraphBuilder objects, each a thread in tbb::parallel_invoke
  MaxCalls,     \* bound: calls of CallMethod by a builder before it ends
  FirstID,      \* the counter when the builders start: it is static, and may have
                \* been used by earlier jobs and by further builders of this one
  MaxOther,     \* bound: calls of CallMethod by further builders, of which only
                \* the use of the counter is modelled: endpoints share nothing else
  MaxWire,      \* bound: messages a pipe holds; a full pipe blocks the writer
  Traffic,      \* bound: which messages without answer are sent: "didOpen" by
                \* the builder, "notify" and "request" by clangd
  MaxFaults,    \* bound: messages whose framing is lost, per builder
  MaxSpurious   \* bound: spurious wake-ups, per builder

ASSUME EndpointAssumption ==
  /\ FirstID \in Nat /\ MaxCalls \in Nat /\ MaxOther \in Nat /\ MaxWire \in Nat \ {0}
  /\ Traffic \subseteq {"didOpen", "notify", "request"}
  /\ MaxFaults \in Nat /\ MaxSpurious \in Nat

VARIABLES
  ID,            \* the static counter of request numbers
  caller,        \* the builder's thread: [at, reg, id, call]
  receiver,      \* the thread of operator(): [at, msg]
  shutdownFlag,
  eventDict,     \* request numbers with a condition variable
  responseDict,  \* the responses stored, as a set of messages
  toServer, toClient,   \* the two pipes
  server,        \* clangd: [up, owed], owed the calls it has yet to answer
  crashed,       \* the process dereferenced a null pointer
  left,          \* [faults, spurious] each builder may still meet
  others,        \* calls the further builders may still make
  highest,       \* the largest value the counter has had
  \* history, read by no action:
  returned,      \* what the last CallMethod returned, [call, ans]
  setBack        \* a store lowered the counter

counter == <<ID, others, highest, setBack>>
local == <<eventDict, responseDict, shutdownFlag>>
pipes == <<toServer, toClient>>
vars == <<counter, caller, receiver, local, pipes, server, crashed, left, returned>>

\* `call` is the builder's own count of its calls.  No code reads it: it tells
\* two requests with the same number apart.
Msg(kind, id, call) == [kind |-> kind, id |-> id, call |-> call]
NoMsg == Msg("none", -1, 0)
nullopt == 0

-----------------------------------------------------------------------------
(* GraphBuilder::initLanguageServer and the builder's use of its client *)

CallerAt(b, place) == ~crashed /\ caller[b].at = place
Move(b, place) == caller' = [caller EXCEPT ![b] = [@ EXCEPT !.at = place]]

\* The endpoint and its receiving thread are created.
initLanguageServer(b) ==
  /\ CallerAt(b, "start")
  /\ Move(b, "build")
  /\ receiver' = [receiver EXCEPT ![b] = [at |-> "loop", msg |-> NoMsg]]
  /\ server' = [server EXCEPT ![b] = [up |-> TRUE, owed |-> {}]]
  /\ UNCHANGED <<counter, local, pipes, crashed, left, returned>>

\* clangd is not there, or the pipes or the fork failed: build() returns false
\* and the builder is left with a client that has no endpoint.
LanguageServerMissing(b) ==
  /\ CallerAt(b, "start")
  /\ Move(b, "noClient")
  /\ UNCHANGED <<counter, receiver, local, pipes, server, crashed, left, returned>>

\* ~GraphBuilder calls Shutdown, whose first step is Stop.
Stop(b) ==
  /\ CallerAt(b, "build")
  /\ shutdownFlag' = [shutdownFlag EXCEPT ![b] = TRUE]
  /\ Move(b, "closing")
  /\ UNCHANGED <<counter, receiver, eventDict, responseDict, pipes, server, crashed,
                 left, returned>>

\* The same call on the client without endpoint writes through a null pointer.
StopWithoutEndpoint(b) ==
  /\ CallerAt(b, "noClient")
  /\ crashed' = TRUE
  /\ UNCHANGED <<counter, caller, receiver, local, pipes, server, left, returned>>

\* DidOpen, DidClose: notifications are sent and forgotten.
SendNotification(b) ==
  /\ CallerAt(b, "build")
  /\ "didOpen" \in Traffic
  /\ Len(toServer[b]) < MaxWire
  /\ toServer' = [toServer EXCEPT ![b] = Append(@, Msg("notify", -1, 0))]
  /\ UNCHANGED <<counter, caller, receiver, local, toClient, server, crashed, left,
                 returned>>

-----------------------------------------------------------------------------
(* CallMethod *)

\* ID++ is a load and a store that nothing makes atomic: a thread that loaded the
\* counter before others used it sets it back.
Store(n) ==
  /\ ID' = n
  /\ highest' = IF n > highest THEN n ELSE highest
  /\ setBack' = (setBack \/ n < ID)

LoadID(b) ==
  /\ \/ CallerAt(b, "build") /\ caller[b].call < MaxCalls
     \/ CallerAt(b, "closing")
  /\ caller' = [caller EXCEPT ![b] =
                  [@ EXCEPT !.at = "increment", !.reg = ID, !.call = caller[b].call + 1]]
  /\ UNCHANGED <<counter, receiver, local, pipes, server, crashed, left, returned>>

StoreID(b) ==
  /\ CallerAt(b, "increment")
  /\ Store(caller[b].reg + 1)
  /\ caller' = [caller EXCEPT ![b] = [@ EXCEPT !.at = "call", !.id = caller[b].reg]]
  /\ UNCHANGED <<others, receiver, local, pipes, server, crashed, left, returned>>

\* The same by a further builder, whose request goes to a clangd of its own.  It
\* may have loaded any value the counter has had.
OtherStoresID ==
  /\ ~crashed /\ others > 0
  /\ others' = others - 1
  /\ \E reg \in 0..highest : Store(reg + 1)
  /\ UNCHANGED <<caller, receiver, local, pipes, server, crashed, left, returned>>

\* The builder goes on with its syntax tree or with its destructor.
Return(b, ans) ==
  /\ Move(b, IF shutdownFlag[b] THEN "exit" ELSE "build")
  /\ returned' = [returned EXCEPT ![b] = [call |-> caller[b].call, ans |-> ans]]

\* Seeded fault: the request is sent without a condition variable to notify.
Unregistered(b) == eventDict[b]

\* eventDict with the call's condition variable.
Registered(b) == eventDict[b] \cup {caller[b].id}

\* cvMutex is held from the registration over the write to the pipe to wait_for.
CallMethod(b) ==
  /\ CallerAt(b, "call")
  /\ Len(toServer[b]) < MaxWire
  /\ eventDict' = [eventDict EXCEPT ![b] = Registered(b)]
  /\ toServer' = [toServer EXCEPT ![b] =
                    Append(@, Msg("call", caller[b].id, caller[b].call))]
  /\ \/ shutdownFlag[b] /\ Return(b, nullopt)
     \/ ~shutdownFlag[b] /\ Move(b, "wait") /\ UNCHANGED returned
  /\ UNCHANGED <<counter, receiver, responseDict, shutdownFlag, toClient, server,
                 crashed, left>>

\* Seeded fault: wait_for without a limit.
NoTimeout(b) == FALSE

\* wait_for reaches its limit; the condition variable stays in eventDict.
Timeout(b) ==
  /\ CallerAt(b, "wait")
  /\ Return(b, nullopt)
  /\ UNCHANGED <<counter, receiver, local, pipes, server, crashed, left>>

\* wait_for has no predicate, so a spurious wake-up ends the wait.
SpuriousWakeup(b) ==
  /\ CallerAt(b, "wait")
  /\ left[b].spurious > 0
  /\ left' = [left EXCEPT ![b].spurious = @ - 1]
  /\ Move(b, "woken")
  /\ UNCHANGED <<counter, receiver, local, pipes, server, crashed, returned>>

Unregister(b) ==
  /\ CallerAt(b, "woken")
  /\ eventDict' = [eventDict EXCEPT ![b] = @ \ {caller[b].id}]
  /\ Move(b, "read")
  /\ UNCHANGED <<counter, receiver, responseDict, shutdownFlag, pipes, server,
                 crashed, left, returned>>

\* Seeded fault: any response will do.
AnyStored(b) == responseDict[b]

\* The response kept under the call's number.
Stored(b) == {m \in responseDict[b] : m.id = caller[b].id}

\* No response, or a response with an error in it, is nullopt.
ReadResponse(b) ==
  /\ CallerAt(b, "read")
  /\ \/ \E m \in Stored(b) : Return(b, IF m.kind = "error" THEN nullopt ELSE m.call)
     \/ Stored(b) = {} /\ Return(b, nullopt)
  /\ UNCHANGED <<counter, receiver, local, pipes, server, crashed, left>>

-----------------------------------------------------------------------------
(* operator(), the receiving thread *)

ReceiverAt(b, place) == ~crashed /\ receiver[b].at = place
Receiver(b, place, m) == receiver' = [receiver EXCEPT ![b] = [at |-> place, msg |-> m]]

\* Seeded fault: the flag is never looked at.
LoopForever(b) == TRUE

Goes(b) == ~shutdownFlag[b]

LoopTop(b) ==
  /\ ReceiverAt(b, "loop")
  /\ Receiver(b, IF Goes(b) THEN "recv" ELSE "ended", NoMsg)
  /\ UNCHANGED <<counter, caller, local, pipes, server, crashed, left, returned>>

\* RecvResponse finds the pipe empty and returns "", a JSON string: it is not
\* `empty()` and has neither id nor method, so the loop turns without a pause.
RecvEmpty(b) ==
  /\ ReceiverAt(b, "recv")
  /\ toClient[b] = <<>>
  /\ Receiver(b, "loop", NoMsg)
  /\ UNCHANGED <<counter, caller, local, pipes, server, crashed, left, returned>>

\* RecvResponse returns nullopt: the thread ends, with callers waiting or not.
RecvFails(b) ==
  /\ ReceiverAt(b, "recv")
  /\ toClient[b] # <<>>
  /\ left[b].faults > 0
  /\ left' = [left EXCEPT ![b].faults = @ - 1]
  /\ Receiver(b, "ended", NoMsg)
  /\ UNCHANGED <<counter, caller, local, pipes, server, crashed, returned>>

Handling(m) == CASE m.kind = "notify" -> "loop" [] m.kind = "request" -> "reply"
                 [] OTHER -> "handle"

RecvResponse(b) ==
  /\ ReceiverAt(b, "recv")
  /\ toClient[b] # <<>>
  /\ toClient' = [toClient EXCEPT ![b] = Tail(@)]
  /\ LET m == Head(toClient[b]) IN Receiver(b, Handling(m), m)
  /\ UNCHANGED <<counter, caller, local, toServer, server, crashed, left, returned>>

\* A request of the server is answered at once.
SendResponse(b) ==
  /\ ReceiverAt(b, "reply")
  /\ Len(toServer[b]) < MaxWire
  /\ toServer' = [toServer EXCEPT ![b] = Append(@, Msg("reply", -1, 0))]
  /\ Receiver(b, "loop", NoMsg)
  /\ UNCHANGED <<counter, caller, local, toClient, server, crashed, left, returned>>

\* The response is stored and its condition variable looked up under cvMutex ...
handleResult(b) ==
  /\ ReceiverAt(b, "handle")
  /\ LET m == receiver[b].msg
     IN /\ responseDict' = [responseDict EXCEPT ![b] =
                              {n \in @ : n.id # m.id} \cup {m}]
        /\ Receiver(b, IF m.id \in eventDict[b] THEN "notify" ELSE "loop", m)
  /\ UNCHANGED <<counter, caller, eventDict, shutdownFlag, pipes, server, crashed,
                 left, returned>>

\* ... and used, through the iterator, after the unlock.
notify_one(b) ==
  /\ ReceiverAt(b, "notify")
  /\ Receiver(b, "loop", NoMsg)
  /\ IF caller[b].at = "wait" /\ caller[b].id = receiver[b].msg.id
     THEN Move(b, "woken") ELSE UNCHANGED caller
  /\ UNCHANGED <<counter, local, pipes, server, crashed, left, returned>>

-----------------------------------------------------------------------------
(* The rest of ~GraphBuilder: Exit, ~LspClient and ~PipeCommunicator *)

Exit(b) ==
  /\ CallerAt(b, "exit")
  /\ Len(toServer[b]) < MaxWire
  /\ toServer' = [toServer EXCEPT ![b] = Append(@, Msg("exit", -1, 0))]
  /\ Move(b, "join")
  /\ UNCHANGED <<counter, receiver, local, toClient, server, crashed, left, returned>>

JoinReceiver(b) ==
  /\ CallerAt(b, "join")
  /\ receiver[b].at = "ended"
  /\ Move(b, "reap")
  /\ UNCHANGED <<counter, receiver, local, pipes, server, crashed, left, returned>>

\* waitpid; the ends of the pipes are closed only afterwards.
ReapServer(b) ==
  /\ CallerAt(b, "reap")
  /\ ~server[b].up
  /\ Move(b, "gone")
  /\ UNCHANGED <<counter, receiver, local, pipes, server, crashed, left, returned>>

-----------------------------------------------------------------------------
(* clangd, external: it reads its input in order, answers calls in any order,
   each once, or never, and sends notifications and requests of its own. *)

ServerReads(b) ==
  /\ ~crashed /\ server[b].up
  /\ toServer[b] # <<>>
  /\ toServer' = [toServer EXCEPT ![b] = Tail(@)]
  /\ LET m == Head(toServer[b])
     IN server' = [server EXCEPT ![b] =
          [up |-> m.kind # "exit", owed |-> IF m.kind = "call" THEN @.owed \cup {m} ELSE @.owed]]
  /\ UNCHANGED <<counter, caller, receiver, local, toClient, crashed, left, returned>>

ServerAnswers(b, kind) ==
  /\ ~crashed /\ server[b].up
  /\ Len(toClient[b]) < MaxWire
  /\ \E m \in server[b].owed :
       /\ toClient' = [toClient EXCEPT ![b] = Append(@, Msg(kind, m.id, m.call))]
       /\ server' = [server EXCEPT ![b] = [up |-> TRUE, owed |-> @.owed \ {m}]]
  /\ UNCHANGED <<counter, caller, receiver, local, toServer, crashed, left, returned>>

ServerSpeaks(b, kind) ==
  /\ ~crashed /\ server[b].up
  /\ Len(toClient[b]) < MaxWire
  /\ toClient' = [toClient EXCEPT ![b] = Append(@, Msg(kind, -1, 0))]
  /\ UNCHANGED <<counter, caller, receiver, local, toServer, server, crashed, left, returned>>

-----------------------------------------------------------------------------
Init ==
  /\ ID = FirstID /\ highest = FirstID /\ setBack = FALSE
  /\ others = MaxOther
  /\ caller = [b \in Builders |-> [at |-> "start", reg |-> 0, id |-> -1, call |-> 0]]
  /\ receiver = [b \in Builders |-> [at |-> "none", msg |-> NoMsg]]
  /\ shutdownFlag = [b \in Builders |-> FALSE]
  /\ eventDict = [b \in Builders |-> {}]
  /\ responseDict = [b \in Builders |-> {}]
  /\ toServer = [b \in Builders |-> <<>>]
  /\ toClient = [b \in Builders |-> <<>>]
  /\ server = [b \in Builders |-> [up |-> FALSE, owed |-> {}]]
  /\ crashed = FALSE
  /\ left = [b \in Builders |-> [faults |-> MaxFaults, spurious |-> MaxSpurious]]
  /\ returned = [b \in Builders |-> [call |-> 0, ans |-> nullopt]]

\* What a builder's thread does once it has begun a call or its destructor.
CallerStep(b) ==
  \/ StoreID(b) \/ CallMethod(b) \/ Timeout(b) \/ Unregister(b) \/ ReadResponse(b)
  \/ (LoadID(b) /\ shutdownFlag[b]) \/ Exit(b) \/ JoinReceiver(b) \/ ReapServer(b)

ReceiverStep(b) ==
  \/ LoopTop(b) \/ RecvEmpty(b) \/ RecvResponse(b) \/ SendResponse(b)
  \/ handleResult(b) \/ notify_one(b)

BuilderStep(b) ==
  \/ initLanguageServer(b) \/ LanguageServerMissing(b) \/ SendNotification(b)
  \/ LoadID(b) \/ Stop(b) \/ StopWithoutEndpoint(b) \/ SpuriousWakeup(b)

ServerStep(b) ==
  \/ ServerReads(b)
  \/ \E kind \in {"result", "error"} : ServerAnswers(b, kind)
  \/ \E kind \in Traffic \ {"didOpen"} : ServerSpeaks(b, kind)

Next ==
  \/ \E b \in Builders :
       BuilderStep(b) \/ CallerStep(b) \/ ReceiverStep(b) \/ RecvFails(b) \/ ServerStep(b)
  \/ OtherStoresID

Spec == Init /\ [][Next]_vars

\* The two threads run, wait_for has a limit, and clangd reads its input; it
\* need not answer.  A caller that waits to write gets its turn, although the
\* receiving thread writes to the same pipe whenever clangd asks something.  No
\* builder is obliged to make another call.
Fairness == \A b \in Builders :
  /\ WF_vars(CallerStep(b)) /\ WF_vars(ReceiverStep(b)) /\ WF_vars(ServerReads(b))
  /\ SF_vars(CallMethod(b) \/ Exit(b))

FairSpec == Spec /\ Fairness

-----------------------------------------------------------------------------
(* Properties *)

Places == {"start", "noClient", "build", "closing", "increment", "call", "wait",
           "woken", "read", "exit", "join", "reap", "gone"}
ReceiverPlaces == {"none", "loop", "recv", "reply", "handle", "notify", "ended"}
Kinds == {"none", "call", "notify", "reply", "exit", "request", "result", "error"}
Ids == Nat \cup {-1}
Messages == [kind : Kinds, id : Ids, call : Nat]

\* Every variable has its type; a call has a request number once it has one.
TypeOK ==
  /\ ID \in Nat /\ highest \in Nat /\ others \in Nat /\ setBack \in BOOLEAN
  /\ caller \in [Builders -> [at : Places, reg : Nat, id : Ids, call : Nat]]
  /\ receiver \in [Builders -> [at : ReceiverPlaces, msg : Messages]]
  /\ shutdownFlag \in [Builders -> BOOLEAN]
  /\ eventDict \in [Builders -> SUBSET Ids]
  /\ responseDict \in [Builders -> SUBSET Messages]
  /\ toServer \in [Builders -> Seq(Messages)]
  /\ toClient \in [Builders -> Seq(Messages)]
  /\ server \in [Builders -> [up : BOOLEAN, owed : SUBSET Messages]]
  /\ crashed \in BOOLEAN
  /\ left \in [Builders -> [faults : Nat, spurious : Nat]]
  /\ returned \in [Builders -> [call : Nat, ans : Nat]]

\* No notification is lost: while a call waits, the response to it is not in
\* responseDict, unless the receiving thread is about to notify that call.  A
\* response stored before the wait began would leave it to its time limit.
NoLostNotify == \A b \in Builders :
  caller[b].at = "wait" =>
    \A m \in responseDict[b] :
      m.id = caller[b].id /\ m.call = caller[b].call
        => receiver[b].at = "notify" /\ receiver[b].msg = m

\* The comment of LspEndpoint, "handles the details of matching responses to
\* requests", and its limit: what CallMethod returns is the server's answer to that
\* call, as long as no builder's store has set the shared counter back.  After that
\* a number may be used again, and the answer to the earlier call is returned.
AnswerBelongs == \A b \in Builders :
  returned[b].ans \notin {nullopt, returned[b].call} => setBack

\* Every CallMethod returns, whether or not clangd answers and whether or not
\* the receiving thread is still there.
CallReturns == \A b \in Builders :
  caller[b].at \in {"increment", "call", "wait", "woken", "read"}
    ~> (caller[b].at \in {"build", "exit"} \/ crashed)

\* ~GraphBuilder ends: the receiving thread sees the flag, clangd gets `exit`
\* and is waited for.
DestructorEnds == \A b \in Builders :
  caller[b].at = "closing" ~> (caller[b].at = "gone" \/ crashed)
=============================================================================
