---------------------------- MODULE CommandRunner ----------------------------
(***************************************************************************)
(* ExecCommand (sa_utility.cpp), which runs git for the request handlers   *)
(* and for the jobs, in several threads of one process at a time.  A call  *)
(* starts a child with popen, asks once with waitpid(0, WNOHANG) whether   *)
(* SOME child of the process has ended (a status of 0 reads as "exited"    *)
(* also when none has), reads the pipe to its end and closes it with       *)
(* pclose, which waits for the call's own child.  The language servers are *)
(* children of the same process group, and their transport waits for them. *)
(***************************************************************************)
EXTENDS Naturals, FiniteSets

CONSTANTS
  Callers,    \* threads that run commands
  Servers,    \* language-server processes
  MaxCalls    \* bound: calls of each thread

\* A language server is started by fork and exec, never by ExecCommand.
ASSUME CommandAssumption == Callers \cap Servers = {} /\ MaxCalls \in Nat

Children == Callers \cup Servers       \* a caller has at most one child at a time
Statuses == {"ok", "failed", "killed"}

VARIABLES
  at,       \* where a caller is: "idle", "poll", "read", "close"
  calls,    \* calls it has begun
  check,    \* checkExitCode of its call
  child,    \* of each child: "none", "running", "ended" (a zombie) or "reaped"
  status,   \* how it ended
  answer,   \* what the call returns: "none", "output", or an error
  shared    \* whether, during the call, another child could have been reaped

vars == <<at, calls, check, child, status, answer, shared>>

Init ==
  /\ at = [c \in Callers |-> "idle"]
  /\ calls = [c \in Callers |-> 0]
  /\ check = [c \in Callers |-> TRUE]
  /\ child = [x \in Children |-> IF x \in Servers THEN "running" ELSE "none"]
  /\ status = [x \in Children |-> "ok"]
  /\ answer = [c \in Callers |-> "none"]
  /\ shared = [c \in Callers |-> FALSE]

\* The other calls under way.
Active(c) == {d \in Callers \ {c} : at[d] # "idle"}

\* popen; without a pipe the call is over.
popen(c) ==
  /\ at[c] = "idle" /\ calls[c] < MaxCalls
  /\ calls' = [calls EXCEPT ![c] = @ + 1]
  /\ \E b \in BOOLEAN : check' = [check EXCEPT ![c] = b]
  /\ shared' = [d \in Callers |->
                 IF d = c THEN Active(c) # {} \/ \E s \in Servers : child[s] = "ended"
                 ELSE shared[d] \/ at[d] # "idle"]
  /\ \/ /\ at' = [at EXCEPT ![c] = "poll"]
        /\ child' = [child EXCEPT ![c] = "running"]
        /\ answer' = [answer EXCEPT ![c] = "none"]
     \/ /\ answer' = [answer EXCEPT ![c] = "io_error"]
        /\ UNCHANGED <<at, child>>
  /\ UNCHANGED status

\* A status that counts as success lets the call read its own pipe.
Classify(c, st) ==
  CASE st = "failed" /\ check[c] -> [at |-> "close", answer |-> "exit_code"]
    [] st = "killed" -> [at |-> "close", answer |-> "interrupted"]
    [] OTHER -> [at |-> "read", answer |-> "none"]
Go(c, r) == /\ at' = [at EXCEPT ![c] = r.at]
            /\ answer' = [answer EXCEPT ![c] = r.answer]

\* Seeded fault: status is not initialised.
waitpidStale(c) ==
  /\ at[c] = "poll"
  /\ \/ \E x \in Children :
          /\ child[x] = "ended"
          /\ child' = [child EXCEPT ![x] = "reaped"]
          /\ Go(c, Classify(c, status[x]))
     \/ /\ \A x \in Children : child[x] # "ended"
        /\ \E st \in Statuses : Go(c, Classify(c, st))
        /\ UNCHANGED child
  /\ UNCHANGED <<calls, check, status, shared>>
\* waitpid(0, &status, WNOHANG): some child that has ended; none (0, and status is
\* still 0); or an error because the process has no child left.
waitpid(c) ==
  /\ at[c] = "poll"
  /\ \/ \E x \in Children :
          /\ child[x] = "ended"
          /\ child' = [child EXCEPT ![x] = "reaped"]
          /\ Go(c, Classify(c, status[x]))
     \/ /\ \A x \in Children : child[x] # "ended"
        /\ Go(c, IF \E x \in Children : child[x] = "running"
                 THEN Classify(c, "ok")
                 ELSE [at |-> "close", answer |-> "no_child"])
        /\ UNCHANGED child
  /\ UNCHANGED <<calls, check, status, shared>>

\* The thread was off the processor for longer than the timeout.
timedOut(c) ==
  /\ at[c] = "poll"
  /\ Go(c, [at |-> "close", answer |-> "timed_out"])
  /\ UNCHANGED <<calls, check, child, status, shared>>

\* fgets until the end of the pipe, which comes when the child has ended.
read(c) ==
  /\ at[c] = "read" /\ child[c] # "running"
  /\ Go(c, [at |-> "close", answer |-> "output"])
  /\ UNCHANGED <<calls, check, child, status, shared>>

\* Seeded fault: a child that is already reaped is waited for.
pcloseAgain(c) ==
  /\ at[c] = "close" /\ child[c] = "ended"
  /\ child' = [child EXCEPT ![c] = "reaped"]
  /\ at' = [at EXCEPT ![c] = "idle"]
  /\ UNCHANGED <<calls, check, status, answer, shared>>
\* pclose waits for the call's own child, whatever the answer is.
pclose(c) ==
  /\ at[c] = "close" /\ child[c] \in {"ended", "reaped"}
  /\ child' = [child EXCEPT ![c] = "reaped"]
  /\ at' = [at EXCEPT ![c] = "idle"]
  /\ UNCHANGED <<calls, check, status, answer, shared>>

ends(x) ==
  /\ child[x] = "running"
  /\ child' = [child EXCEPT ![x] = "ended"]
  /\ \E st \in Statuses : status' = [status EXCEPT ![x] = st]
  /\ shared' = IF x \in Servers THEN [c \in Callers |-> shared[c] \/ at[c] # "idle"] ELSE shared
  /\ UNCHANGED <<at, calls, check, answer>>

\* PipeCommunicator's destructor waits for its server and only logs the status.
waitServer(s) ==
  /\ child[s] = "ended"
  /\ child' = [child EXCEPT ![s] = "reaped"]
  /\ UNCHANGED <<at, calls, check, status, answer, shared>>

Call(c) == waitpid(c) \/ timedOut(c) \/ read(c) \/ pclose(c)
Next == \/ \E c \in Callers : popen(c) \/ Call(c)
        \/ \E x \in Children : ends(x)
        \/ \E s \in Servers : waitServer(s)

Spec == Init /\ [][Next]_vars
\* Threads run, and the commands end by themselves: nothing here ends one that
\* does not.
FairSpec == Spec /\ \A c \in Callers : WF_vars(Call(c)) /\ WF_vars(ends(c))

-----------------------------------------------------------------------------
\* ExecCommand: the answer is about the call's own command if no other call overlaps
\* it and no language server ends during it or was left unreaped: an error code
\* then means that the command failed, "interrupted" that it was killed, and the
\* child is there to be waited for.  A call that is over leaves no zombie.
AnswersOwnCommand ==
  \A c \in Callers : calls[c] > 0 =>
    /\ at[c] = "idle" => child[c] # "ended"
    /\ ~shared[c] =>
         CASE answer[c] = "exit_code" -> check[c] /\ status[c] = "failed"
           [] answer[c] = "interrupted" -> status[c] = "killed"
           [] OTHER -> answer[c] # "no_child"

\* ExecCommand: a call of a command that ends returns, even if its child was reaped by
\* another call; the timeout plays no part in it.
CallsReturn == \A c \in Callers : at[c] # "idle" ~> at[c] = "idle"
=============================================================================
