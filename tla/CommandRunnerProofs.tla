------------------------- MODULE CommandRunnerProofs -------------------------
(***************************************************************************)
(* Proofs about CommandRunner for every number of calling threads, of      *)
(* language servers and of calls.                                          *)
(***************************************************************************)
EXTENDS CommandRunner, TLAPS

Places == {"idle", "poll", "read", "close"}
States == {"none", "running", "ended", "reaped"}
Answers == {"none", "output", "exit_code", "interrupted", "no_child", "timed_out", "io_error"}

TypeOK ==
  /\ at \in [Callers -> Places]
  /\ calls \in [Callers -> Nat]
  /\ check \in [Callers -> BOOLEAN]
  /\ child \in [Children -> States]
  /\ status \in [Children -> Statuses]
  /\ answer \in [Callers -> Answers]
  /\ shared \in [Callers -> BOOLEAN]

\* No child of another call, and no language server, can be reaped for caller c's.
Alone(c) ==
  /\ \A d \in Callers \ {c} : at[d] = "idle"
  /\ \A s \in Servers : child[s] # "ended"

\* pclose takes the call's child away before the call is over.
NoZombie(c) == at[c] = "idle" => child[c] \in {"none", "reaped"}

\* A call that nobody disturbed is alone, and its child is there to be polled.
Undisturbed(c) ==
  ~shared[c] /\ at[c] # "idle" =>
    /\ Alone(c)
    /\ at[c] = "poll" => child[c] \in {"running", "ended"}

\* A verdict was read from the call's own child, which is gone since.
Verdict(c) ==
  ~shared[c] =>
    /\ answer[c] # "no_child"
    /\ answer[c] = "exit_code" => check[c] /\ status[c] = "failed" /\ child[c] = "reaped"
    /\ answer[c] = "interrupted" => status[c] = "killed" /\ child[c] = "reaped"

CommandInv ==
  /\ TypeOK
  /\ \A c \in Callers : NoZombie(c) /\ Undisturbed(c) /\ Verdict(c)

-----------------------------------------------------------------------------
LEMMA InitCommand == Init => CommandInv
BY CommandAssumption DEF Init, CommandInv, TypeOK, NoZombie, Undisturbed, Verdict, Alone,
  Places, States, Answers, Statuses, Children

\* Where a status leads: on to the pipe, or to pclose with a verdict.
LEMMA ClassifyValue ==
  ASSUME NEW c \in Callers, NEW st \in Statuses
  PROVE  /\ Classify(c, st).at \in {"close", "read"}
         /\ Classify(c, st).answer \in {"none", "exit_code", "interrupted"}
         /\ Classify(c, st).answer = "exit_code" => st = "failed" /\ check[c]
         /\ Classify(c, st).answer = "interrupted" => st = "killed"
<1>1. CASE st = "failed" /\ check[c]
  BY <1>1 DEF Classify
<1>2. CASE st = "killed"
  BY <1>2 DEF Classify
<1>3. CASE ~(st = "failed" /\ check[c]) /\ st # "killed"
  BY <1>3 DEF Classify
<1> QED
  BY <1>1, <1>2, <1>3

LEMMA PopenStep ==
  ASSUME CommandInv, NEW c \in Callers, popen(c)
  PROVE  CommandInv'
<1> USE CommandAssumption DEF CommandInv
<1>1. /\ at[c] = "idle" /\ status' = status
      /\ calls' = [calls EXCEPT ![c] = @ + 1]
      /\ \E b \in BOOLEAN : check' = [check EXCEPT ![c] = b]
      /\ shared' \in [Callers -> BOOLEAN]
      /\ \A d \in Callers : d # c => shared'[d] = (shared[d] \/ at[d] # "idle")
      /\ ~shared'[c] => \A d \in Callers \ {c} : at[d] = "idle"
      /\ ~shared'[c] => \A s \in Servers : child[s] # "ended"
  BY DEF popen, Active, TypeOK
<1>2. CASE /\ at' = [at EXCEPT ![c] = "poll"] /\ child' = [child EXCEPT ![c] = "running"]
           /\ answer' = [answer EXCEPT ![c] = "none"]
  <2>1. TypeOK'
    BY <1>1, <1>2 DEF TypeOK, Places, States, Answers, Children
  <2>2. ASSUME NEW d \in Callers PROVE (NoZombie(d) /\ Undisturbed(d) /\ Verdict(d))'
    BY <1>1, <1>2 DEF TypeOK, Children, NoZombie, Undisturbed, Verdict, Alone
  <2> QED
    BY <2>1, <2>2
<1>3. CASE answer' = [answer EXCEPT ![c] = "io_error"] /\ UNCHANGED <<at, child>>
  <2>1. TypeOK'
    BY <1>1, <1>3 DEF TypeOK, Answers
  <2>2. ASSUME NEW d \in Callers PROVE (NoZombie(d) /\ Undisturbed(d) /\ Verdict(d))'
    BY <1>1, <1>3 DEF TypeOK, Children, NoZombie, Undisturbed, Verdict, Alone
  <2> QED
    BY <2>1, <2>2
<1> QED
  BY <1>2, <1>3 DEF popen

\* A step of caller c after popen that leaves the statuses alone and sends it to
\* place p with answer a.
LEMMA CallStep ==
  ASSUME CommandInv, NEW c \in Callers, at[c] # "idle",
         NEW p \in {"read", "close"}, NEW a \in Answers,
         at' = [at EXCEPT ![c] = p], answer' = [answer EXCEPT ![c] = a],
         UNCHANGED <<calls, check, status, shared>>,
         \/ UNCHANGED child
         \/ \E x \in Children : child[x] = "ended" /\ child' = [child EXCEPT ![x] = "reaped"],
         Verdict(c)'
  PROVE  CommandInv'
<1> USE CommandAssumption DEF CommandInv
<1>1. TypeOK'
  BY DEF TypeOK, Places, States, Children
<1>2. ASSUME NEW d \in Callers PROVE (NoZombie(d) /\ Undisturbed(d) /\ Verdict(d))'
  BY DEF TypeOK, Children, NoZombie, Undisturbed, Verdict, Alone
<1> QED
  BY <1>1, <1>2

LEMMA WaitpidStep ==
  ASSUME CommandInv, NEW c \in Callers, waitpid(c)
  PROVE  CommandInv'
<1> USE CommandAssumption
<1>0. at[c] = "poll" /\ check' = check /\ status' = status /\ shared' = shared /\ calls' = calls
  BY DEF waitpid
<1>1. ASSUME NEW x \in Children, child[x] = "ended",
             child' = [child EXCEPT ![x] = "reaped"], Go(c, Classify(c, status[x]))
      PROVE  CommandInv'
  <2>1. status[x] \in Statuses
    BY DEF CommandInv, TypeOK
  <2>2. ~shared[c] => x = c
    BY <1>0, <1>1 DEF CommandInv, NoZombie, Undisturbed, Alone, Children
  <2>3. Verdict(c)'
    BY <1>0, <1>1, <2>1, <2>2, ClassifyValue DEF Go, Verdict, CommandInv, TypeOK, Children
  <2> DEFINE r == Classify(c, status[x])
  <2>4. r.at \in {"read", "close"} /\ r.answer \in Answers
    BY <2>1, ClassifyValue DEF Answers
  <2>5. at' = [at EXCEPT ![c] = r.at] /\ answer' = [answer EXCEPT ![c] = r.answer]
    BY <1>1 DEF Go
  <2> HIDE DEF r
  <2> QED
    BY <1>0, <1>1, <2>3, <2>4, <2>5, CallStep
<1>2. ASSUME \A x \in Children : child[x] # "ended", UNCHANGED child,
             Go(c, IF \E x \in Children : child[x] = "running"
                   THEN Classify(c, "ok") ELSE [at |-> "close", answer |-> "no_child"])
      PROVE  CommandInv'
  <2> DEFINE r == IF \E x \in Children : child[x] = "running"
                  THEN Classify(c, "ok") ELSE [at |-> "close", answer |-> "no_child"]
  <2>1. r.at \in {"read", "close"} /\ r.answer \in Answers
    BY ClassifyValue DEF Answers, Statuses
  <2>2. ~shared[c] => r.answer = "none"
    BY <1>0, <1>2 DEF CommandInv, Undisturbed, Children, Classify
  <2>3. at' = [at EXCEPT ![c] = r.at] /\ answer' = [answer EXCEPT ![c] = r.answer]
    BY <1>2 DEF Go
  <2> HIDE DEF r
  <2>4. Verdict(c)'
    BY <1>0, <2>2, <2>3 DEF Verdict, CommandInv, TypeOK
  <2> QED
    BY <1>0, <1>2, <2>1, <2>3, <2>4, CallStep
<1> QED
  BY <1>1, <1>2 DEF waitpid

\* What the other steps of a call do to the invariant.
LEMMA OtherCallStep ==
  ASSUME CommandInv, NEW c \in Callers, timedOut(c) \/ read(c)
  PROVE  CommandInv'
<1>1. PICK a \in {"timed_out", "output"} :
        /\ at[c] # "idle" /\ at' = [at EXCEPT ![c] = "close"]
        /\ answer' = [answer EXCEPT ![c] = a]
        /\ UNCHANGED <<calls, check, child, status, shared>>
  BY DEF timedOut, read, Go
<1>2. Verdict(c)'
  BY <1>1 DEF Verdict, CommandInv, TypeOK
<1> QED
  BY <1>1, <1>2, CallStep DEF Answers

LEMMA PcloseStep ==
  ASSUME CommandInv, NEW c \in Callers, pclose(c)
  PROVE  CommandInv'
<1> USE CommandAssumption DEF CommandInv, pclose
<1>1. TypeOK'
  BY DEF TypeOK, Places, States, Children
<1>2. ASSUME NEW d \in Callers PROVE (NoZombie(d) /\ Undisturbed(d) /\ Verdict(d))'
  BY DEF TypeOK, Children, NoZombie, Undisturbed, Verdict, Alone
<1> QED
  BY <1>1, <1>2

LEMMA EndsStep ==
  ASSUME CommandInv, NEW x \in Children, ends(x)
  PROVE  CommandInv'
<1> USE CommandAssumption DEF CommandInv, ends
<1>1. TypeOK'
  BY DEF TypeOK, Places, States, Children
<1>2. ASSUME NEW d \in Callers PROVE (NoZombie(d) /\ Undisturbed(d) /\ Verdict(d))'
  <2> USE DEF TypeOK, Children, NoZombie, Undisturbed, Verdict, Alone
  <2>1. CASE x \in Servers
    BY <2>1
  <2>2. CASE x \notin Servers
    BY <2>2
  <2> QED
    BY <2>1, <2>2
<1> QED
  BY <1>1, <1>2

LEMMA WaitServerStep ==
  ASSUME CommandInv, NEW s \in Servers, waitServer(s)
  PROVE  CommandInv'
BY CommandAssumption DEF CommandInv, waitServer, TypeOK, States, Children,
  NoZombie, Undisturbed, Verdict, Alone

LEMMA CommandStep == CommandInv /\ [Next]_vars => CommandInv'
<1> SUFFICES ASSUME CommandInv, [Next]_vars PROVE CommandInv'
  OBVIOUS
<1>1. ASSUME NEW c \in Callers, popen(c) \/ Call(c) PROVE CommandInv'
  BY <1>1, PopenStep, WaitpidStep, OtherCallStep, PcloseStep DEF Call
<1>2. CASE UNCHANGED vars
  BY <1>2 DEF vars, CommandInv, TypeOK, NoZombie, Undisturbed, Verdict, Alone
<1> QED
  BY <1>1, <1>2, EndsStep, WaitServerStep DEF Next

\* ExecCommand, for every number of threads, servers and calls: a call that no other
\* call overlaps and no ended language server meets reports an error code or a kill
\* only of its own command and never misses its child, and a call that is over leaves
\* no zombie.
THEOREM AnswersAreOwn == Spec => []AnswersOwnCommand
<1>1. CommandInv => AnswersOwnCommand
  BY DEF CommandInv, AnswersOwnCommand, NoZombie, Verdict
<1> QED
  BY <1>1, InitCommand, CommandStep, PTL DEF Spec
=============================================================================
