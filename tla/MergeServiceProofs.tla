-------------------------- MODULE MergeServiceProofs --------------------------
(***************************************************************************)
(* Proofs about MergeService for any number of worker threads, projects,   *)
(* scenarios, blocks, jobs and faults.                                     *)
(***************************************************************************)
EXTENDS MergeService, FiniteSetTheorems, TLAPS

-----------------------------------------------------------------------------
(* Records of the threads: what an update keeps. *)

\* An idle worker, the state every request of the handlers starts and ends in.
LEMMA IdleType == Idle \in WorkerRec /\ Idle.at = "idle" /\ Idle.ms = None
BY DEF Idle, WorkerRec, WorkerAt, PostAt

\* A request that is accepted: the worker takes up scenario s.
LEMMA TakeUpType ==
  ASSUME NEW s \in Scenarios, NEW place \in WorkerAt, NEW b \in BOOLEAN
  PROVE  /\ [Idle EXCEPT !.at = place, !.ms = s, !.files = b] \in WorkerRec
         /\ [Idle EXCEPT !.at = place, !.ms = s] \in WorkerRec
BY DEF Idle, WorkerRec, WorkerAt, PostAt

\* A request that goes on keeps its scenario.
LEMMA MoveType ==
  ASSUME NEW r \in WorkerRec, r.at # "idle", NEW place \in WorkerAt,
         NEW b \in BOOLEAN, NEW entries \in SUBSET Entries
  PROVE  /\ [r EXCEPT !.at = place] \in WorkerRec
         /\ [r EXCEPT !.copy = entries, !.at = place] \in WorkerRec
         /\ [r EXCEPT !.at = place, !.pend = b] \in WorkerRec
BY DEF WorkerRec

\* Every response of the handlers without data.
LEMMA ResponseType ==
  ASSUME NEW code
  PROVE  Response(code) \in AnswerRec
BY DEF Response, AnswerRec

\* An error response is not a success.
LEMMA ErrorResponse ==
  ASSUME NEW code, code # "00000"
  PROVE  ~Response(code).ok
BY Zenon DEF Response

\* A free job slot, the state of a job thread before it is created.
LEMMA NoJobType == NoJob \in JobRec /\ NoJob.st = "none"
BY DEF NoJob, Fresh, JobRec, JobAt, Working, Handlers, LastHandler

\* doResolution gives a free slot its scenario; a job that ends keeps it.
LEMMA FreshType ==
  ASSUME NEW s \in Scenarios, NEW st \in JobAt
  PROVE  Fresh(st, s) \in JobRec /\ Fresh(st, s).ms = s /\ Fresh(st, s).st = st
BY DEF Fresh, JobRec, Handlers, LastHandler

\* The updates of a job's record: none of them changes the job's scenario.
LEMMA JobMoveType ==
  ASSUME NEW r \in JobRec, r.st # "none", NEW st \in JobAt, st # "none",
         NEW todo \in SUBSET Sides, NEW left \in SUBSET Blocks,
         NEW buf \in SUBSET (Jobs \X Blocks), NEW gen \in Nat
  PROVE  /\ [r EXCEPT !.st = st] \in JobRec /\ [r EXCEPT !.st = st].ms = r.ms
         /\ [r EXCEPT !.st = st, !.todo = todo] \in JobRec
         /\ [r EXCEPT !.left = left, !.st = st] \in JobRec
         /\ [r EXCEPT !.st = st, !.buf = buf] \in JobRec
         /\ [r EXCEPT !.st = st, !.gen = gen] \in JobRec
         /\ [r EXCEPT !.done = buf] \in JobRec
BY DEF JobRec

LEMMA JobTodoType ==
  ASSUME NEW r \in JobRec, NEW todo \in SUBSET Sides
  PROVE  [r EXCEPT !.todo = todo] \in JobRec
BY DEF JobRec

LEMMA JobBlocksType ==
  ASSUME NEW r \in JobRec, NEW left \in SUBSET Blocks,
         NEW buf \in SUBSET (Jobs \X Blocks)
  PROVE  /\ [r EXCEPT !.left = left, !.buf = buf] \in JobRec
         /\ [r EXCEPT !.left = left, !.buf = buf].st = r.st
BY DEF JobRec

\* SAHandler::handle after a handler: the chain changes neither the job's
\* scenario nor what it has written, and stays within the handlers.
LEMMA FollowingType ==
  ASSUME NEW r \in JobRec, r.st # "none"
  PROVE  /\ Following(r) \in JobRec
         /\ Following(r).ms = r.ms
         /\ Following(r).st \in {"unlock", "handle", "report"}
         /\ Following(r).done = r.done
<1> DEFINE F == Following(r)
<1> USE DEF JobRec, JobAt, Working, Handlers, LastHandler
<1>1. CASE r.left = {}
  <2>1. F = [r EXCEPT !.st = "unlock", !.buf = {}]
    BY <1>1 DEF Following
  <2> QED  BY <2>1
<1>2. CASE r.left # {} /\ r.h < LastHandler
  <2>1. F = [r EXCEPT !.st = "handle", !.h = r.h + 1, !.buf = {}]
    BY <1>2 DEF Following
  <2>2. r.h + 1 \in 1..4
    BY <1>2
  <2> QED  BY <2>1, <2>2
<1>3. CASE r.left # {} /\ ~(r.h < LastHandler)
  <2>1. F = [r EXCEPT !.st = "report", !.buf = {}]
    BY <1>3 DEF Following
  <2> QED  BY <2>1
<1> QED  BY <1>1, <1>2, <1>3

-----------------------------------------------------------------------------
(* What the building blocks of the actions preserve. *)

\* A request under way has a scenario, and the manifest copy it took.
LEMMA WorkerFacts ==
  ASSUME ThreadsTyped, NEW w \in Workers
  PROVE  /\ worker[w] \in WorkerRec
         /\ worker[w].at # "idle" => worker[w].ms \in Scenarios
         /\ worker[w].copy \in SUBSET Entries
         /\ worker[w].pend \in BOOLEAN
BY DEF ThreadsTyped, WorkerRec

\* A job that was started has a scenario.
LEMMA JobFacts ==
  ASSUME ThreadsTyped, NEW j \in Jobs
  PROVE  /\ job[j] \in JobRec
         /\ job[j].st # "none" => job[j].ms \in Scenarios
         /\ job[j].todo \in SUBSET Sides
         /\ job[j].left \in SUBSET Blocks
         /\ job[j].buf \in SUBSET (Jobs \X Blocks)
         /\ job[j].done \in SUBSET (Jobs \X Blocks)
BY DEF ThreadsTyped, JobRec

LEMMA GotoType ==
  ASSUME ThreadsTyped, NEW w \in Workers, worker[w].at # "idle",
         NEW place \in WorkerAt, Goto(w, place)
  PROVE  worker' \in [Workers -> WorkerRec]
<1>1. [worker[w] EXCEPT !.at = place] \in WorkerRec
  BY WorkerFacts, MoveType
<1> QED
  BY <1>1 DEF Goto, ThreadsTyped

LEMMA FinishType ==
  ASSUME ThreadsTyped, NEW w \in Workers, NEW code, Finish(w, code)
  PROVE  worker' \in [Workers -> WorkerRec] /\ answer' \in AnswerRec
BY IdleType, ResponseType DEF Finish, ThreadsTyped

LEMMA BeginManifestWriteType ==
  ASSUME FilesTyped, ThreadsTyped, NEW w \in Workers, worker[w].at # "idle",
         NEW entry \in Entries, NEW place \in WorkerAt,
         BeginManifestWrite(w, entry, place)
  PROVE  /\ worker' \in [Workers -> WorkerRec]
         /\ peek' \in Workers \cup {None}
         /\ manifest' \in [st : {"absent", "ok", "torn"}, entries : SUBSET Entries]
<1> DEFINE all == manifest.entries \cup {entry}
<1>1. all \in SUBSET Entries
  BY DEF FilesTyped
<1>2. [worker[w] EXCEPT !.copy = all, !.at = place] \in WorkerRec
  BY <1>1, WorkerFacts, MoveType
<1>3. worker' = [worker EXCEPT ![w] = [worker[w] EXCEPT !.copy = all, !.at = place]]
  BY DEF BeginManifestWrite
<1>4. worker' \in [Workers -> WorkerRec]
  BY <1>2, <1>3 DEF ThreadsTyped
<1>5. manifest' \in [st : {"absent", "ok", "torn"}, entries : SUBSET Entries]
  BY DEF BeginManifestWrite, FilesTyped
<1> QED
  BY <1>4, <1>5 DEF BeginManifestWrite

LEMMA RemoveSignType ==
  ASSUME FilesTyped, HistoryTyped, NEW s \in Scenarios, NEW who, RemoveSign(s, who)
  PROVE  sign' \in SUBSET Scenarios /\ stolen' \in SUBSET Scenarios
BY DEF RemoveSign, FilesTyped, HistoryTyped

\* A step of a job to record r.
LEMMA StepRecType ==
  ASSUME ThreadsTyped, HistoryTyped, NEW j \in Jobs, NEW r \in JobRec,
         r.st # "none", Step(j, r)
  PROVE  /\ job' \in [Jobs -> JobRec]
         /\ final' \in [Scenarios -> SUBSET (Jobs \X Blocks)]
<1>1. r.ms \in Scenarios /\ r.done \in SUBSET (Jobs \X Blocks)
  BY DEF JobRec
<1> QED
  BY <1>1 DEF Step, ThreadsTyped, HistoryTyped


\* The ways out of goResolve: an exception nobody catches, an error exit that
\* cleans up, or on to the job with the list of sources written or not.
LEMMA goResolveOutcome ==
  ASSUME NEW w \in Workers, goResolve(w)
  PROVE  /\ At(w, "collect")
         /\ UNCHANGED <<up, manifest, store, peek, job, registered, setter, unguarded, final>>
         /\ \/ UNCHANGED faults
            \/ faults < MaxFaults /\ faults' = faults + 1
         /\ \/ \E code : /\ LeaveSign(w, code)
                         /\ dirs' \in {dirs, dirs \cup {worker[w].ms}}
                         /\ UNCHANGED sources
            \/ Abandon(w, "U1000") /\ UNCHANGED <<dirs, sources, leaked>>
            \/ /\ sources' \in {sources, sources \cup {worker[w].ms}, sources \ {worker[w].ms}}
               /\ dirs' = dirs \cup {worker[w].ms}
               /\ Goto(w, "spawn")
               /\ UNCHANGED <<sign, leaked, stolen, answer>>
<1>1. /\ At(w, "collect")
      /\ UNCHANGED <<up, manifest, store, peek, job, registered, setter, unguarded, final>>
  BY DEF goResolve
<1>2. CASE LeaveSign(w, "S1000") /\ UNCHANGED <<dirs, sources, faults>>
  BY <1>1, <1>2
<1>3. CASE Abandon(w, "U1000") /\ UNCHANGED <<dirs, sources, leaked, faults>>
  BY <1>1, <1>3
<1>4. CASE writeConflictFiles(w)
  <2>1. CASE faults < MaxFaults /\ faults' = faults + 1 /\ LeaveSign(w, "S0000")
             /\ dirs' \in {dirs, dirs \cup {worker[w].ms}} /\ UNCHANGED sources
    BY <1>1, <2>1
  <2>2. CASE /\ \/ UNCHANGED faults
                \/ faults < MaxFaults /\ faults' = faults + 1
             /\ sources' \in {sources, sources \cup {worker[w].ms}, sources \ {worker[w].ms}}
             /\ dirs' = dirs \cup {worker[w].ms}
             /\ Goto(w, "spawn")
             /\ UNCHANGED <<sign, leaked, stolen, answer>>
    BY <1>1, <2>2
  <2> QED
    BY <1>4, <2>1, <2>2 DEF writeConflictFiles
<1> QED
  BY <1>2, <1>3, <1>4 DEF goResolve

-----------------------------------------------------------------------------
(* TypeOK is inductive. *)

LEMMA InitType == Init => TypeOK
<1> SUFFICES ASSUME Init PROVE TypeOK
  OBVIOUS
<1>1. FilesTyped
  BY DEF Init, FilesTyped, EmptyManifest, EmptyStore, StoreRec
<1>2. ThreadsTyped
  <2>1. NoAnswer \in AnswerRec
    BY ResponseType DEF NoAnswer
  <2> QED
    BY <2>1, ServiceAssumption, IdleType, NoJobType DEF Init, ThreadsTyped
<1>3. HistoryTyped
  BY DEF Init, HistoryTyped, NoSetter, NothingFinal
<1> QED
  BY <1>1, <1>2, <1>3 DEF TypeOK

\* The end of the process leaves the files and no thread.
LEMMA CrashType ==
  ASSUME TypeOK, Crash, faults' \in 0..MaxFaults
  PROVE  TypeOK'
<1>1. NoAnswer \in AnswerRec
  BY ResponseType DEF NoAnswer
<1> QED
  BY <1>1, IdleType, NoJobType
     DEF Crash, files, history, TypeOK, FilesTyped, ThreadsTyped, HistoryTyped

\* The steps of the requests keep the types.
LEMMA WorkerStepType ==
  ASSUME TypeOK, NEW w \in Workers, WorkerStep(w) \/ Request(w)
  PROVE  TypeOK'
<1>t. FilesTyped /\ ThreadsTyped /\ HistoryTyped
  BY DEF TypeOK
<1>a. NoAnswer \in AnswerRec
  BY ResponseType DEF NoAnswer
<1>m. worker[w].at # "idle" => /\ worker[w].ms \in Scenarios
                               /\ worker[w].ms \in Entries
                               /\ ProjectOf[worker[w].ms] \in Entries
  BY <1>t, WorkerFacts, ServiceAssumption DEF Entries
<1>p. PostAt \subseteq WorkerAt /\ {"pending", "exists", "read"} \subseteq WorkerAt
      /\ "project" \in PostAt /\ "projectWrite" \in PostAt /\ "scenario" \in PostAt
      /\ "scenarioWrite" \in PostAt /\ "go" \in PostAt /\ "collect" \in PostAt
      /\ "spawn" \in PostAt
  BY DEF WorkerAt, PostAt
<1> USE <1>t DEF files, history
<1>1. ASSUME NEW s \in Scenarios, NEW b \in BOOLEAN, PostMergeScenario(w, s, b)
      PROVE  TypeOK'
  <2>1. [Idle EXCEPT !.at = "project", !.ms = s, !.files = b] \in WorkerRec
    BY TakeUpType, <1>p
  <2> QED
    BY <1>1, <1>a, <2>1
       DEF PostMergeScenario, TypeOK, FilesTyped, ThreadsTyped, HistoryTyped
<1>2. CASE PostRejected(w)
  BY <1>2, FinishType DEF PostRejected, TypeOK, FilesTyped, ThreadsTyped, HistoryTyped
<1>3. ASSUME NEW place, ManifestUnreadable(w, place) PROVE TypeOK'
  BY <1>3, FinishType
     DEF ManifestUnreadable, TypeOK, FilesTyped, ThreadsTyped, HistoryTyped
<1>4. CASE checkAndAddProjectMetadata(w)
  <2>1. worker[w].at # "idle" /\ up' = up
        /\ UNCHANGED <<dirs, sources, sign, store, answer, job, faults,
                      history>>
    BY <1>4 DEF checkAndAddProjectMetadata, At
  <2>2. CASE Goto(w, "scenario") /\ UNCHANGED <<manifest, peek>>
    BY <2>1, <2>2, <1>p, GotoType DEF TypeOK, FilesTyped, ThreadsTyped, HistoryTyped
  <2>3. CASE BeginManifestWrite(w, ProjectOf[worker[w].ms], "projectWrite")
    BY <2>1, <2>3, <1>p, <1>m, BeginManifestWriteType
       DEF TypeOK, FilesTyped, ThreadsTyped, HistoryTyped
  <2> QED
    BY <1>4, <2>2, <2>3 DEF checkAndAddProjectMetadata
<1>5. CASE checkAndAddMSMetadata(w)
  <2>1. worker[w].at # "idle" /\ up' = up
        /\ UNCHANGED <<sources, sign, store, job, faults, history>>
    BY <1>5 DEF checkAndAddMSMetadata, At
  <2>2. CASE Finish(w, "C1000") /\ UNCHANGED <<manifest, dirs, peek>>
    BY <2>1, <2>2, FinishType DEF TypeOK, FilesTyped, ThreadsTyped, HistoryTyped
  <2>3. CASE Goto(w, "go") /\ UNCHANGED <<manifest, dirs, peek, answer>>
    BY <2>1, <2>3, <1>p, GotoType DEF TypeOK, FilesTyped, ThreadsTyped, HistoryTyped
  <2>4. CASE /\ dirs' = dirs \cup {worker[w].ms}
             /\ BeginManifestWrite(w, worker[w].ms, "scenarioWrite")
             /\ UNCHANGED answer
    <3>1. dirs' \in SUBSET Scenarios
      BY <2>1, <2>4, <1>m DEF FilesTyped
    <3> QED
      BY <2>1, <2>4, <3>1, <1>p, <1>m, BeginManifestWriteType
         DEF TypeOK, FilesTyped, ThreadsTyped, HistoryTyped
  <2> QED
    BY <1>5, <2>2, <2>3, <2>4 DEF checkAndAddMSMetadata
<1>6. CASE WriteManifest(w)
  <2>1. worker[w].at # "idle" /\ worker[w].copy \in SUBSET Entries
    BY <1>6, WorkerFacts DEF WriteManifest
  <2>2. worker' \in [Workers -> WorkerRec]
    BY <1>6, <2>1, <1>p, GotoType DEF WriteManifest
  <2>3. manifest' \in [st : {"absent", "ok", "torn"}, entries : SUBSET Entries]
    BY <1>6, <2>1 DEF WriteManifest
  <2>4. registered' \in SUBSET Entries
    BY <1>6, <2>1, <1>m DEF WriteManifest, NewEntry, HistoryTyped
  <2> QED
    BY <1>6, <2>2, <2>3, <2>4
       DEF WriteManifest, ReleasePeekMutex, TypeOK, FilesTyped, ThreadsTyped, HistoryTyped
<1>7. CASE MetadataFails(w)
  <2>1. worker[w].at # "idle"
    BY <1>7 DEF MetadataFails
  <2>2. worker' \in [Workers -> WorkerRec]
    BY <1>7, <2>1, <1>p, GotoType DEF MetadataFails
  <2>3. dirs' \in SUBSET Scenarios /\ unguarded' \in SUBSET Scenarios
    BY <1>7, <2>1, <1>m DEF MetadataFails, FilesTyped, HistoryTyped
  <2>4. faults' \in 0..MaxFaults
    BY <1>7, ServiceAssumption DEF MetadataFails, ThreadsTyped
  <2>5. peek' \in Workers \cup {None}
    BY <1>7 DEF MetadataFails, ReleasePeekMutex, ThreadsTyped
  <2> QED
    BY <1>7, <2>2, <2>3, <2>4, <2>5
       DEF MetadataFails, TypeOK, FilesTyped, ThreadsTyped, HistoryTyped
<1>8. CASE setRunningSign(w)
  <2>1. worker[w].at # "idle"
    BY <1>8 DEF setRunningSign, At
  <2>2. worker' \in [Workers -> WorkerRec]
    BY <1>8, <2>1, <1>p, GotoType DEF setRunningSign
  <2>3. sign' \in SUBSET Scenarios
        /\ setter' \in [Scenarios -> Workers \cup Jobs \cup {None}]
    BY <1>8, <2>1, <1>m DEF setRunningSign, FilesTyped, HistoryTyped
  <2> QED
    BY <1>8, <2>2, <2>3 DEF setRunningSign, TypeOK, FilesTyped, ThreadsTyped, HistoryTyped
<1>9. CASE goResolve(w)
  <2>1. worker[w].at # "idle"
        /\ UNCHANGED <<up, manifest, store, peek, job, registered, setter, unguarded, final>>
    BY <1>9, goResolveOutcome DEF At
  <2>5. faults' \in 0..MaxFaults
    <3>1. UNCHANGED faults \/ (faults < MaxFaults /\ faults' = faults + 1)
      BY <1>9, goResolveOutcome
    <3> QED
      BY <3>1, ServiceAssumption DEF ThreadsTyped
  <2>6. dirs \cup {worker[w].ms} \in SUBSET Scenarios
        /\ sources \cup {worker[w].ms} \in SUBSET Scenarios
        /\ sources \ {worker[w].ms} \in SUBSET Scenarios
        /\ leaked \cup {worker[w].ms} \in SUBSET Scenarios
    BY <2>1, <1>m DEF FilesTyped, HistoryTyped
  <2>2. ASSUME NEW code, LeaveSign(w, code),
               dirs' \in {dirs, dirs \cup {worker[w].ms}}, UNCHANGED sources
        PROVE  TypeOK'
    BY <2>1, <2>2, <2>5, <2>6, FinishType
       DEF LeaveSign, TypeOK, FilesTyped, ThreadsTyped, HistoryTyped
  <2>3. CASE Abandon(w, "U1000") /\ UNCHANGED <<dirs, sources, leaked>>
    BY <2>1, <2>3, <2>5, <1>m, FinishType, RemoveSignType
       DEF Abandon, TypeOK, FilesTyped, ThreadsTyped, HistoryTyped
  <2>4. CASE /\ sources' \in {sources, sources \cup {worker[w].ms}, sources \ {worker[w].ms}}
             /\ dirs' = dirs \cup {worker[w].ms}
             /\ Goto(w, "spawn")
             /\ UNCHANGED <<sign, leaked, stolen, answer>>
    BY <2>1, <2>4, <2>5, <2>6, <1>p, GotoType
       DEF TypeOK, FilesTyped, ThreadsTyped, HistoryTyped
  <2> QED
    BY <1>9, <2>2, <2>3, <2>4, goResolveOutcome
<1>10. CASE doResolution(w)
  <2>1. worker[w].at # "idle"
        /\ UNCHANGED <<up, manifest, dirs, sources, store, peek, registered,
                      leaked, unguarded, final>>
    BY <1>10 DEF doResolution, At
  <2>2. ASSUME NEW j \in Jobs,
               job' = [job EXCEPT ![j] = Fresh("clean", worker[w].ms)],
               setter' = IF setter[worker[w].ms] = w
                           THEN [setter EXCEPT ![worker[w].ms] = j] ELSE setter,
               Finish(w, "00000"), UNCHANGED <<sign, stolen, faults>>
        PROVE  TypeOK'
    <3>1. Fresh("clean", worker[w].ms) \in JobRec
      BY <2>1, <1>m, FreshType DEF JobAt, Working
    <3>2. job' \in [Jobs -> JobRec]
      BY <2>2, <3>1 DEF ThreadsTyped
    <3>3. setter' \in [Scenarios -> Workers \cup Jobs \cup {None}]
      BY <2>1, <2>2, <1>m DEF HistoryTyped
    <3> QED
      BY <2>1, <2>2, <3>2, <3>3, FinishType
         DEF TypeOK, FilesTyped, ThreadsTyped, HistoryTyped
  <2>3. CASE faults < MaxFaults /\ faults' = faults + 1 /\ Abandon(w, "S0000")
             /\ UNCHANGED <<job, setter>>
    <3>1. faults' \in 0..MaxFaults
      BY <2>3, ServiceAssumption DEF ThreadsTyped
    <3> QED
      BY <2>1, <2>3, <3>1, <1>m, FinishType, RemoveSignType
         DEF Abandon, TypeOK, FilesTyped, ThreadsTyped, HistoryTyped
  <2> QED
    BY <1>10, <2>2, <2>3 DEF doResolution
<1>11. ASSUME NEW s \in Scenarios, GetFileResolution(w, s) PROVE TypeOK'
  <2>1. [Idle EXCEPT !.at = "pending", !.ms = s] \in WorkerRec
    BY TakeUpType, <1>p
  <2> QED
    BY <1>11, <1>a, <2>1
       DEF GetFileResolution, TypeOK, FilesTyped, ThreadsTyped, HistoryTyped
<1>12. ASSUME NEW s \in Scenarios, GetRejected(w, s) PROVE TypeOK'
  <2>1. \E code : Finish(w, code)
    BY <1>12 DEF GetRejected
  <2>2. worker' \in [Workers -> WorkerRec] /\ answer' \in AnswerRec
    BY <2>1, FinishType
  <2> QED
    BY <1>12, <2>2 DEF GetRejected, TypeOK, FilesTyped, ThreadsTyped, HistoryTyped
<1>13. CASE ReadPending(w)
  <2> DEFINE r == [worker[w] EXCEPT !.at = "exists", !.pend = worker[w].ms \in sign]
  <2>1. r \in WorkerRec
    <3> (worker[w].ms \in sign) \in BOOLEAN
      OBVIOUS
    <3> QED
      BY <1>13, <1>p, WorkerFacts, MoveType DEF ReadPending, At
  <2>2. worker' = [worker EXCEPT ![w] = r]
    BY <1>13 DEF ReadPending
  <2>3. worker' \in [Workers -> WorkerRec]
    BY <2>1, <2>2 DEF ThreadsTyped
  <2> QED
    BY <1>13, <2>3 DEF ReadPending, TypeOK, FilesTyped, ThreadsTyped, HistoryTyped
<1>14. ASSUME NEW data \in SUBSET (Jobs \X Blocks), worker[w].at # "idle", Answer(w, data),
              UNCHANGED <<up, files, peek, job, faults, history>>
       PROVE  TypeOK'
  <2>1. answer' \in AnswerRec
    BY <1>14, WorkerFacts DEF Answer, AnswerRec
  <2> QED
    BY <1>14, <2>1, IdleType DEF Answer, TypeOK, FilesTyped, ThreadsTyped, HistoryTyped
<1>15. CASE FindResolution(w)
  <2>1. worker[w].at # "idle" /\ UNCHANGED <<up, files, peek, job, faults, history>>
    BY <1>15 DEF FindResolution, At
  <2>2. CASE Answer(w, {})
    BY <2>1, <2>2, <1>14
  <2>3. CASE Goto(w, "read") /\ UNCHANGED answer
    BY <2>1, <2>3, <1>p, GotoType DEF TypeOK, FilesTyped, ThreadsTyped, HistoryTyped
  <2> QED
    BY <1>15, <2>2, <2>3 DEF FindResolution
<1>16. CASE getFileResolution(w)
  <2>1. worker[w].at # "idle" /\ UNCHANGED <<up, files, peek, job, faults, history>>
    BY <1>16 DEF getFileResolution, At
  <2>2. CASE Finish(w, "S0000")
    BY <2>1, <2>2, FinishType DEF TypeOK, FilesTyped, ThreadsTyped, HistoryTyped
  <2>3. CASE Answer(w, store[worker[w].ms].data)
    <3>1. store[worker[w].ms].data \in SUBSET (Jobs \X Blocks)
      BY <2>1, <1>m DEF FilesTyped, StoreRec
    <3> QED
      BY <2>1, <2>3, <3>1, <1>14
  <2> QED
    BY <1>16, <2>2, <2>3 DEF getFileResolution
<1>17. CASE OpenFails(w)
  <2>1. faults' \in 0..MaxFaults
    BY <1>17, ServiceAssumption DEF OpenFails, ThreadsTyped
  <2> QED
    BY <1>17, <2>1, CrashType DEF OpenFails
<1> QED
  BY <1>1, <1>2, <1>3, <1>4, <1>5, <1>6, <1>7, <1>8, <1>9, <1>10, <1>11, <1>12,
     <1>13, <1>15, <1>16, <1>17 DEF WorkerStep, Request

\* The steps of the jobs keep the types.
LEMMA JobStepType ==
  ASSUME TypeOK, NEW j \in Jobs, JobStep(j) \/ JobThrows(j)
  PROVE  TypeOK'
<1>t. FilesTyped /\ ThreadsTyped /\ HistoryTyped
  BY DEF TypeOK
<1>r. /\ job[j] \in JobRec
      /\ job[j].st # "none" => job[j].ms \in Scenarios
      /\ job[j].todo \in SUBSET Sides
      /\ job[j].left \in SUBSET Blocks
      /\ job[j].buf \in SUBSET (Jobs \X Blocks)
      /\ job[j].done \in SUBSET (Jobs \X Blocks)
  BY <1>t, JobFacts
<1>n. "none" \in JobAt /\ "clean" \in JobAt /\ "copy" \in JobAt /\ "prepare" \in JobAt
      /\ "handle" \in JobAt /\ "marshal" \in JobAt /\ "open" \in JobAt /\ "write" \in JobAt
      /\ "report" \in JobAt /\ "unlock" \in JobAt /\ "done" \in JobAt
  BY DEF JobAt, Working
<1>s. job[j].st # "none" => store[job[j].ms] \in StoreRec
  BY <1>t, <1>r DEF FilesTyped
<1>o. ASSUME NEW r \in StoreRec
      PROVE  r.data \in SUBSET (Jobs \X Blocks) /\ r.gen \in Nat
  BY DEF StoreRec
<1>f. job[j].st # "none" => /\ Following(job[j]) \in JobRec
                            /\ Following(job[j]).st # "none"
  BY <1>r, FollowingType
<1> USE <1>t DEF files, history
<1>1. CASE CleanResolutions(j)
  <2>1. job[j].st # "none"
    BY <1>1 DEF CleanResolutions, In
  <2>2. [job[j] EXCEPT !.st = "copy"] \in JobRec
    BY <2>1, <1>r, <1>n, JobMoveType
  <2>3. Removed(store[job[j].ms]) \in StoreRec
    BY <2>1, <1>s, <1>o DEF Removed, StoreRec
  <2>4. job' \in [Jobs -> JobRec] /\ store' \in [Scenarios -> StoreRec]
    BY <1>1, <1>r, <2>1, <2>2, <2>3 DEF CleanResolutions, FilesTyped, ThreadsTyped
  <2> QED
    BY <1>1, <2>4 DEF CleanResolutions, TypeOK, FilesTyped, ThreadsTyped, HistoryTyped
<1>2. CASE FindBase(j)
  <2>1. job[j].st # "none"
    BY <1>2 DEF FindBase, In
  <2>2. PICK todo \in SUBSET Sides :
          job' = [job EXCEPT ![j] = [job[j] EXCEPT !.st = "prepare", !.todo = todo]]
    BY <1>2 DEF FindBase
  <2>3. [job[j] EXCEPT !.st = "prepare", !.todo = todo] \in JobRec
    BY <2>1, <1>r, <1>n, JobMoveType
  <2>4. job' \in [Jobs -> JobRec]
    BY <2>2, <2>3 DEF ThreadsTyped
  <2> QED
    BY <1>2, <2>4 DEF FindBase, TypeOK, FilesTyped, ThreadsTyped, HistoryTyped
<1>3. ASSUME NEW side \in Sides, prepareSource(j, side) PROVE TypeOK'
  <2> DEFINE rest == job[j].todo \ {side}
  <2>1. job[j].st # "none" /\ rest \in SUBSET Sides
    BY <1>3, <1>r DEF prepareSource, In
  <2>3. job' = [job EXCEPT ![j] = [job[j] EXCEPT !.todo = rest]]
    BY <1>3 DEF prepareSource
  <2> HIDE DEF rest
  <2>2. [job[j] EXCEPT !.todo = rest] \in JobRec
    BY <2>1, <1>r, JobTodoType
  <2>4. job' \in [Jobs -> JobRec]
    BY <2>2, <2>3 DEF ThreadsTyped
  <2> QED
    BY <1>3, <2>4 DEF prepareSource, TypeOK, FilesTyped, ThreadsTyped, HistoryTyped
<1>4. CASE StartChain(j)
  <2>1. job[j].st # "none"
    BY <1>4 DEF StartChain, In
  <2>2. PICK blocks \in SUBSET Blocks :
          Step(j, [job[j] EXCEPT !.left = blocks,
                                 !.st = IF blocks = {} THEN "unlock" ELSE "handle"])
    BY <1>4 DEF StartChain
  <2> DEFINE st == IF blocks = {} THEN "unlock" ELSE "handle"
             r == [job[j] EXCEPT !.left = blocks, !.st = st]
  <2>3. st \in JobAt /\ st # "none"
    BY <1>n
  <2> HIDE DEF st
  <2>4. r \in JobRec
    BY <2>1, <2>3, <1>r, JobMoveType
  <2>5. r.st = st
    BY <1>r DEF JobRec
  <2>6. Step(j, r)
    BY <2>2 DEF st
  <2> HIDE DEF r
  <2>7. /\ job' \in [Jobs -> JobRec]
        /\ final' \in [Scenarios -> SUBSET (Jobs \X Blocks)]
    BY <2>3, <2>4, <2>5, <2>6, StepRecType
  <2> QED
    BY <1>4, <2>7 DEF StartChain, TypeOK, FilesTyped, ThreadsTyped, HistoryTyped
<1>5. CASE ResolveBlocks(j)
  <2>1. job[j].st # "none"
    BY <1>5 DEF ResolveBlocks, In
  <2>2. PICK blocks \in SUBSET job[j].left :
          LET r == [job[j] EXCEPT !.left = @ \ blocks, !.buf = Results(j, blocks)]
          IN Step(j, IF blocks = {} THEN Following(r) ELSE [r EXCEPT !.st = "marshal"])
    BY <1>5 DEF ResolveBlocks
  <2> DEFINE left == job[j].left \ blocks
             buf == Results(j, blocks)
             r == [job[j] EXCEPT !.left = left, !.buf = buf]
             q == IF blocks = {} THEN Following(r) ELSE [r EXCEPT !.st = "marshal"]
  <2>3. left \in SUBSET Blocks /\ buf \in SUBSET (Jobs \X Blocks)
    BY <1>r DEF Results
  <2>4. r \in JobRec /\ r.st # "none"
    <3> HIDE DEF left, buf
    <3>1. [job[j] EXCEPT !.left = left, !.buf = buf] \in JobRec
          /\ [job[j] EXCEPT !.left = left, !.buf = buf].st = job[j].st
      BY <2>3, <1>r, JobBlocksType
    <3> QED
      BY <2>1, <3>1
  <2>5. Step(j, q)
    BY <2>2
  <2> HIDE DEF r
  <2>6. [r EXCEPT !.st = "marshal"] \in JobRec /\ [r EXCEPT !.st = "marshal"].st = "marshal"
    <3>1. [r EXCEPT !.st = "marshal"] \in JobRec
      BY <2>4, <1>n, <1>r, JobMoveType
    <3> QED
      BY <2>4, <3>1 DEF JobRec
  <2>7. q \in JobRec /\ q.st # "none"
    BY <2>4, <2>6, FollowingType
  <2> HIDE DEF q
  <2>8. /\ job' \in [Jobs -> JobRec]
        /\ final' \in [Scenarios -> SUBSET (Jobs \X Blocks)]
    BY <2>5, <2>7, StepRecType
  <2> QED
    BY <1>5, <2>8 DEF ResolveBlocks, TypeOK, FilesTyped, ThreadsTyped, HistoryTyped
<1>6. CASE MergeGraphs(j)
  <2>1. job[j].st # "none"
    BY <1>6 DEF MergeGraphs, In
  <2>2. /\ job' \in [Jobs -> JobRec]
        /\ final' \in [Scenarios -> SUBSET (Jobs \X Blocks)]
    BY <1>6, <2>1, <1>f, StepRecType DEF MergeGraphs
  <2> QED
    BY <1>6, <2>2 DEF MergeGraphs, TypeOK, FilesTyped, ThreadsTyped, HistoryTyped
<1>7. CASE MarshalRead(j)
  <2> DEFINE buf == MergeResults(store[job[j].ms], job[j].buf)
  <2>1. job[j].st # "none"
    BY <1>7 DEF MarshalRead, In
  <2>2. buf \in SUBSET (Jobs \X Blocks)
    BY <2>1, <1>r, <1>s, <1>o DEF MergeResults
  <2>3. job' = [job EXCEPT ![j] = [job[j] EXCEPT !.st = "open", !.buf = buf]]
    BY <1>7 DEF MarshalRead
  <2> HIDE DEF buf
  <2>4. [job[j] EXCEPT !.st = "open", !.buf = buf] \in JobRec
    BY <2>1, <2>2, <1>r, <1>n, JobMoveType
  <2>5. job' \in [Jobs -> JobRec]
    BY <2>3, <2>4 DEF ThreadsTyped
  <2> QED
    BY <1>7, <2>5 DEF MarshalRead, TypeOK, FilesTyped, ThreadsTyped, HistoryTyped
<1>8. CASE OpenStore(j)
  <2> DEFINE s == job[j].ms
             g == store[s].gen
             r == [job[j] EXCEPT !.st = "write", !.gen = g]
  <2>1. job[j].st # "none"
        /\ UNCHANGED <<up, manifest, dirs, sources, sign, peek, worker,
                      answer, registered, setter, leaked, stolen, unguarded>>
    BY <1>8 DEF OpenStore, In
  <2>2. CASE /\ store' = [store EXCEPT ![s] = [@ EXCEPT !.st = "torn", !.data = {}]]
             /\ Step(j, r)
             /\ UNCHANGED faults
    <3>0. g \in Nat
      BY <2>1, <1>s, <1>o
    <3> HIDE DEF g
    <3>1. r \in JobRec
      BY <2>1, <3>0, <1>r, <1>n, JobMoveType
    <3>2. r.st = "write"
      BY <1>r DEF JobRec
    <3>3. /\ job' \in [Jobs -> JobRec]
          /\ final' \in [Scenarios -> SUBSET (Jobs \X Blocks)]
      BY <2>2, <3>1, <3>2, StepRecType
    <3>4. [store[s] EXCEPT !.st = "torn", !.data = {}] \in StoreRec
      BY <2>1, <1>s DEF StoreRec
    <3>5. store' \in [Scenarios -> StoreRec]
      BY <2>2, <3>4 DEF FilesTyped
    <3> QED
      BY <2>1, <2>2, <3>3, <3>5 DEF TypeOK, FilesTyped, ThreadsTyped, HistoryTyped
  <2>3. CASE faults < MaxFaults /\ faults' = faults + 1 /\ Step(j, Following(job[j]))
             /\ UNCHANGED store
    <3>1. faults' \in 0..MaxFaults
      BY <2>3, ServiceAssumption DEF ThreadsTyped
    <3>2. /\ job' \in [Jobs -> JobRec]
          /\ final' \in [Scenarios -> SUBSET (Jobs \X Blocks)]
      BY <2>1, <2>3, <1>f, StepRecType
    <3> QED
      BY <2>1, <2>3, <3>1, <3>2 DEF TypeOK, FilesTyped, ThreadsTyped, HistoryTyped
  <2> QED
    BY <1>8, <2>2, <2>3 DEF OpenStore
<1>9. CASE WriteStore(j)
  <2> DEFINE s == job[j].ms
             mine == {e \in job[j].buf : e[1] = j}
             d == job[j].done \cup mine
             r == [job[j] EXCEPT !.done = d]
  <2>1. job[j].st # "none"
        /\ UNCHANGED <<up, manifest, dirs, sources, sign, peek, worker,
                      answer, registered, setter, leaked, stolen, unguarded>>
    BY <1>9 DEF WriteStore, In
  <2>2. store' \in [Scenarios -> StoreRec]
    <3>1. /\ [store[s] EXCEPT !.st = "ok", !.data = job[j].buf] \in StoreRec
          /\ [store[s] EXCEPT !.st = "torn", !.data = {}] \in StoreRec
      BY <2>1, <1>s, <1>r DEF StoreRec
    <3>2. \/ store' = store
          \/ store' = [store EXCEPT ![s] = [store[s] EXCEPT !.st = "ok", !.data = job[j].buf]]
          \/ store' = [store EXCEPT ![s] = [store[s] EXCEPT !.st = "torn", !.data = {}]]
      BY <1>9 DEF WriteStore
    <3> QED
      BY <3>1, <3>2 DEF FilesTyped
  <2>3. CASE Step(j, Following(r)) /\ UNCHANGED faults
    <3>1. d \in SUBSET (Jobs \X Blocks)
      BY <1>r
    <3> HIDE DEF d
    <3>2. r \in JobRec
      BY <2>1, <3>1, <1>r, <1>n, JobMoveType
    <3>3. r.st # "none"
      BY <2>1, <1>r DEF JobRec
    <3>4. Following(r) \in JobRec /\ Following(r).st # "none"
      BY <3>2, <3>3, FollowingType
    <3>5. /\ job' \in [Jobs -> JobRec]
          /\ final' \in [Scenarios -> SUBSET (Jobs \X Blocks)]
      BY <2>3, <3>4, StepRecType
    <3> QED
      BY <2>1, <2>2, <2>3, <3>5 DEF TypeOK, FilesTyped, ThreadsTyped, HistoryTyped
  <2>4. CASE faults < MaxFaults /\ faults' = faults + 1 /\ Step(j, Following(job[j]))
    <3>1. faults' \in 0..MaxFaults
      BY <2>4, ServiceAssumption DEF ThreadsTyped
    <3>2. /\ job' \in [Jobs -> JobRec]
          /\ final' \in [Scenarios -> SUBSET (Jobs \X Blocks)]
      BY <2>1, <2>4, <1>f, StepRecType
    <3> QED
      BY <2>1, <2>2, <2>4, <3>1, <3>2 DEF TypeOK, FilesTyped, ThreadsTyped, HistoryTyped
  <2> QED
    BY <1>9, <2>3, <2>4 DEF WriteStore
<1>10. CASE ReportLeft(j)
  <2>1. job[j].st # "none"
    BY <1>10 DEF ReportLeft, In
  <2>2. [job[j] EXCEPT !.st = "unlock"] \in JobRec
    BY <2>1, <1>r, <1>n, JobMoveType
  <2>3. job' \in [Jobs -> JobRec]
    BY <1>10, <2>2 DEF ReportLeft, ThreadsTyped
  <2>4. sign' \in SUBSET Scenarios /\ stolen' \in SUBSET Scenarios
    BY <1>10, <2>1, <1>r, RemoveSignType DEF ReportLeft
  <2> QED
    BY <1>10, <2>3, <2>4 DEF ReportLeft, TypeOK, FilesTyped, ThreadsTyped, HistoryTyped
<1>11. CASE UnlockScenario(j)
  <2>1. job[j].st # "none"
    BY <1>11 DEF UnlockScenario, In
  <2>2. Fresh("done", job[j].ms) \in JobRec
    BY <2>1, <1>r, <1>n, FreshType
  <2>3. job' \in [Jobs -> JobRec]
    BY <1>11, <2>2 DEF UnlockScenario, ThreadsTyped
  <2>4. sign' \in SUBSET Scenarios /\ stolen' \in SUBSET Scenarios
    BY <1>11, <2>1, <1>r, RemoveSignType DEF UnlockScenario
  <2> QED
    BY <1>11, <2>3, <2>4 DEF UnlockScenario, TypeOK, FilesTyped, ThreadsTyped, HistoryTyped
<1>12. CASE JobThrows(j)
  <2>1. faults' \in 0..MaxFaults
    BY <1>12, ServiceAssumption DEF JobThrows, ThreadsTyped
  <2> QED
    BY <1>12, <2>1, CrashType DEF JobThrows
<1> QED
  BY <1>1, <1>2, <1>3, <1>4, <1>5, <1>6, <1>7, <1>8, <1>9, <1>10, <1>11, <1>12
     DEF JobStep

\* Every step of the service keeps the types.
LEMMA StepType == TypeOK /\ [Next]_vars => TypeOK'
<1> SUFFICES ASSUME TypeOK, [Next]_vars PROVE TypeOK'
  OBVIOUS
<1>1. CASE InitMergebot
  <2>1. FilesTyped'
    BY <1>1 DEF InitMergebot, FilesTyped, EmptyManifest, EmptyStore, StoreRec
  <2>2. ThreadsTyped'
    BY <1>1 DEF InitMergebot, TypeOK, ThreadsTyped, threads
  <2>3. HistoryTyped'
    BY <1>1 DEF InitMergebot, HistoryTyped, NoSetter, NothingFinal
  <2> QED
    BY <2>1, <2>2, <2>3 DEF TypeOK
<1>2. CASE UNCHANGED vars
  BY <1>2 DEF vars, files, threads, history, TypeOK, FilesTyped, ThreadsTyped, HistoryTyped
<1> QED
  BY <1>1, <1>2, WorkerStepType, JobStepType DEF Next

\* Type correctness for every number of workers, scenarios, jobs and faults: in
\* particular SAHandler::handle never goes past the last handler and every
\* request or job under way has a merge scenario (TypeOK).
THEOREM TypeCorrect == Spec => []TypeOK
BY InitType, StepType, PTL DEF Spec

-----------------------------------------------------------------------------
(* A `running` file is somebody's to remove. *)

\* SignAccounted survives a step that may drop the workers and jobs of one
\* scenario x only, provided that x itself is accounted for afterwards.
LEMMA SignFrame ==
  ASSUME SignAccounted, NEW x,
         up' = up,
         \A s \in sign' : s # x => s \in sign,
         leaked \subseteq leaked',
         \A s \in sign : s # x => Resolving(s) \subseteq Resolving(s)',
         \A j \in Jobs : Live(j) /\ job[j].ms # x => Live(j)' /\ job'[j].ms = job[j].ms,
         x \in sign' => \/ Resolving(x)' # {}
                        \/ \E j \in Jobs : Live(j)' /\ job'[j].ms = x
                        \/ x \in leaked'
  PROVE  SignAccounted'
<1> SUFFICES ASSUME NEW s \in sign', up'
             PROVE  \/ Resolving(s)' # {}
                    \/ \E j \in Jobs : Live(j)' /\ job'[j].ms = s
                    \/ s \in leaked'
  BY DEF SignAccounted
<1>1. CASE s = x
  BY <1>1
<1>2. CASE s # x /\ Resolving(s) # {}
  BY <1>2
<1>3. CASE s # x /\ \E j \in Jobs : Live(j) /\ job[j].ms = s
  BY <1>3
<1>4. CASE s # x /\ s \in leaked
  BY <1>4
<1> QED
  BY <1>1, <1>2, <1>3, <1>4 DEF SignAccounted

\* What every step of a job but its last does: it stays alive on its scenario.
LEMMA JobStaysLive ==
  ASSUME TypeOK, NEW j \in Jobs, JobStep(j), ~UnlockScenario(j)
  PROVE  /\ UNCHANGED <<up, worker, leaked>>
         /\ sign' \subseteq sign
         /\ Live(j)' /\ job'[j].ms = job[j].ms
         /\ \A k \in Jobs : k # j => job'[k] = job[k]
<1>t. ThreadsTyped
  BY DEF TypeOK
<1>r. job[j] \in JobRec /\ job \in [Jobs -> JobRec]
  BY <1>t, JobFacts DEF ThreadsTyped
<1>k. ASSUME NEW r, job' = [job EXCEPT ![j] = r], r.ms = job[j].ms,
             r.st \notin {"none", "done"}
      PROVE  /\ Live(j)' /\ job'[j].ms = job[j].ms
             /\ \A k \in Jobs : k # j => job'[k] = job[k]
  BY <1>k, <1>r DEF Live
<1>f. job[j].st # "none" => /\ Following(job[j]).ms = job[j].ms
                            /\ Following(job[j]).st \notin {"none", "done"}
  BY <1>r, FollowingType
<1> USE DEF files, history
<1>1. CASE CleanResolutions(j)
  <2>1. [job[j] EXCEPT !.st = "copy"].ms = job[j].ms /\ [job[j] EXCEPT !.st = "copy"].st = "copy"
    BY <1>r DEF JobRec
  <2> QED
    BY <1>1, <1>k, <2>1 DEF CleanResolutions
<1>2. CASE FindBase(j)
  <2>1. PICK todo : job' = [job EXCEPT ![j] = [job[j] EXCEPT !.st = "prepare", !.todo = todo]]
    BY <1>2 DEF FindBase
  <2> DEFINE r == [job[j] EXCEPT !.st = "prepare", !.todo = todo]
  <2>2. r.ms = job[j].ms /\ r.st = "prepare"
    BY <1>r DEF JobRec
  <2> QED
    BY <1>2, <1>k, <2>1, <2>2 DEF FindBase
<1>3. ASSUME NEW side \in Sides, prepareSource(j, side)
      PROVE  /\ UNCHANGED <<up, worker, leaked>>
             /\ sign' \subseteq sign
             /\ Live(j)' /\ job'[j].ms = job[j].ms
             /\ \A k \in Jobs : k # j => job'[k] = job[k]
  <2> DEFINE r == [job[j] EXCEPT !.todo = job[j].todo \ {side}]
  <2>1. r.ms = job[j].ms /\ r.st = job[j].st
    BY <1>r DEF JobRec
  <2>2. job' = [job EXCEPT ![j] = r] /\ job[j].st = "prepare"
    BY <1>3 DEF prepareSource, In
  <2> QED
    BY <1>3, <1>k, <2>1, <2>2 DEF prepareSource
<1>4. CASE StartChain(j)
  <2>1. PICK blocks :
          job' = [job EXCEPT ![j] = [job[j] EXCEPT !.left = blocks,
                                       !.st = IF blocks = {} THEN "unlock" ELSE "handle"]]
    BY <1>4 DEF StartChain, Step
  <2> DEFINE st == IF blocks = {} THEN "unlock" ELSE "handle"
             r == [job[j] EXCEPT !.left = blocks, !.st = st]
  <2>2. r.ms = job[j].ms /\ r.st = st
    BY <1>r DEF JobRec
  <2>3. job' = [job EXCEPT ![j] = r] /\ st \notin {"none", "done"}
    BY <2>1
  <2> HIDE DEF r, st
  <2> QED
    BY <1>4, <1>k, <2>2, <2>3 DEF StartChain
<1>5. CASE ResolveBlocks(j)
  <2>1. PICK blocks \in SUBSET job[j].left :
          LET r == [job[j] EXCEPT !.left = @ \ blocks, !.buf = Results(j, blocks)]
          IN Step(j, IF blocks = {} THEN Following(r) ELSE [r EXCEPT !.st = "marshal"])
    BY <1>5 DEF ResolveBlocks
  <2> DEFINE left == job[j].left \ blocks
             buf == Results(j, blocks)
             r == [job[j] EXCEPT !.left = left, !.buf = buf]
             q == IF blocks = {} THEN Following(r) ELSE [r EXCEPT !.st = "marshal"]
  <2>2. job' = [job EXCEPT ![j] = q]
    BY <2>1 DEF Step
  <2>3. left \in SUBSET Blocks /\ buf \in SUBSET (Jobs \X Blocks)
    BY <1>t, JobFacts DEF Results
  <2>4. r \in JobRec /\ r.st # "none" /\ r.ms = job[j].ms
    <3> HIDE DEF left, buf
    <3>1. [job[j] EXCEPT !.left = left, !.buf = buf] \in JobRec
          /\ [job[j] EXCEPT !.left = left, !.buf = buf].st = job[j].st
      BY <2>3, <1>r, JobBlocksType
    <3>2. r.ms = job[j].ms
      BY <1>r DEF JobRec
    <3> QED
      BY <1>5, <3>1, <3>2 DEF ResolveBlocks, In
  <2> HIDE DEF r
  <2>5. [r EXCEPT !.st = "marshal"].ms = r.ms /\ [r EXCEPT !.st = "marshal"].st = "marshal"
    BY <2>4 DEF JobRec
  <2>6. q.ms = job[j].ms /\ q.st \notin {"none", "done"}
    BY <2>4, <2>5, FollowingType
  <2> HIDE DEF q
  <2> QED
    BY <1>5, <1>k, <2>2, <2>6 DEF ResolveBlocks
<1>6. CASE MergeGraphs(j)
  BY <1>6, <1>k, <1>f DEF MergeGraphs, Step, In
<1>7. CASE MarshalRead(j)
  <2> DEFINE buf == MergeResults(store[job[j].ms], job[j].buf)
             r == [job[j] EXCEPT !.st = "open", !.buf = buf]
  <2>1. job' = [job EXCEPT ![j] = r]
    BY <1>7 DEF MarshalRead
  <2> HIDE DEF buf
  <2>2. r.ms = job[j].ms /\ r.st = "open"
    BY <1>r DEF JobRec
  <2> QED
    BY <1>7, <1>k, <2>1, <2>2 DEF MarshalRead
<1>8. CASE OpenStore(j)
  <2> DEFINE g == store[job[j].ms].gen
             r == [job[j] EXCEPT !.st = "write", !.gen = g]
  <2>1. job' = [job EXCEPT ![j] = r] \/ job' = [job EXCEPT ![j] = Following(job[j])]
    BY <1>8 DEF OpenStore, Step
  <2> HIDE DEF g
  <2>2. r.ms = job[j].ms /\ r.st = "write"
    BY <1>r DEF JobRec
  <2> QED
    BY <1>8, <1>k, <1>f, <2>1, <2>2 DEF OpenStore, In
<1>9. CASE WriteStore(j)
  <2> DEFINE d == job[j].done \cup {e \in job[j].buf : e[1] = j}
             r == [job[j] EXCEPT !.done = d]
  <2>1. \/ job' = [job EXCEPT ![j] = Following(r)]
        \/ job' = [job EXCEPT ![j] = Following(job[j])]
    BY <1>9 DEF WriteStore, Step
  <2>2. d \in SUBSET (Jobs \X Blocks)
    BY <1>t, JobFacts
  <2> HIDE DEF d
  <2>3. r \in JobRec /\ r.ms = job[j].ms /\ r.st = job[j].st
    BY <1>r, <2>2 DEF JobRec
  <2>4. Following(r).ms = job[j].ms /\ Following(r).st \notin {"none", "done"}
    BY <1>9, <2>3, FollowingType DEF WriteStore, In
  <2> HIDE DEF r
  <2> QED
    BY <1>9, <1>k, <1>f, <2>1, <2>4 DEF WriteStore, In
<1>10. CASE ReportLeft(j)
  <2>1. [job[j] EXCEPT !.st = "unlock"].ms = job[j].ms
        /\ [job[j] EXCEPT !.st = "unlock"].st = "unlock"
    BY <1>r DEF JobRec
  <2> QED
    BY <1>10, <1>k, <2>1 DEF ReportLeft, RemoveSign
<1> QED
  BY <1>1, <1>2, <1>3, <1>4, <1>5, <1>6, <1>7, <1>8, <1>9, <1>10 DEF JobStep

\* A step of a request that is not inside goResolve touches no sign but the one
\* setRunningSign creates, and no other thread.
LEMMA RequestFrame ==
  ASSUME TypeOK, NEW w \in Workers, WorkerStep(w) \/ Request(w),
         ~goResolve(w), ~doResolution(w), ~setRunningSign(w), ~OpenFails(w)
  PROVE  /\ UNCHANGED <<up, sign, leaked, job>>
         /\ worker[w].at \notin {"collect", "spawn"}
         /\ \A v \in Workers : v # w => worker'[v] = worker[v]
BY DEF TypeOK, ThreadsTyped, WorkerStep, Request, PostMergeScenario, PostRejected,
       ManifestUnreadable, checkAndAddProjectMetadata, checkAndAddMSMetadata,
       WriteManifest, MetadataFails, GetFileResolution, GetRejected, ReadPending,
       FindResolution, getFileResolution, Answer, At, Goto, Finish, BeginManifestWrite,
       files, history

LEMMA SignStep == TypeOK /\ SignAccounted /\ [Next]_vars => SignAccounted'
<1> SUFFICES ASSUME TypeOK, SignAccounted, [Next]_vars PROVE SignAccounted'
  OBVIOUS
<1>n. None \notin sign /\ None \notin sign'
  BY StepType, ServiceAssumption DEF TypeOK, FilesTyped
<1>1. ASSUME NEW w \in Workers, WorkerStep(w) \/ Request(w) PROVE SignAccounted'
  <2>t. worker \in [Workers -> WorkerRec] /\ worker[w] \in WorkerRec
    BY <1>1 DEF TypeOK, ThreadsTyped
  <2>p. PICK x : x = worker[w].ms
    OBVIOUS
  <2>1. CASE setRunningSign(w)
    <3>1. UNCHANGED <<up, leaked, job>> /\ sign' \subseteq sign \cup {x}
      BY <2>1, <2>p DEF setRunningSign
    <3>2. /\ worker'[w].at = "collect" /\ worker'[w].ms = x
          /\ \A v \in Workers : v # w => worker'[v] = worker[v]
          /\ worker[w].at = "go"
      BY <2>1, <2>t, <2>p DEF setRunningSign, Goto, At, WorkerRec
    <3>3. w \in Resolving(x)'
      BY <3>2 DEF Resolving
    <3>4. \A s \in sign : s # x => Resolving(s) \subseteq Resolving(s)'
      BY <3>2 DEF Resolving
    <3> QED
      BY <3>1, <3>3, <3>4, SignFrame DEF Live
  <2>2. CASE goResolve(w)
    <3>1. UNCHANGED <<up, job>> /\ leaked \subseteq leaked' /\ sign' \subseteq sign
      BY <2>2, goResolveOutcome DEF LeaveSign, Abandon, RemoveSign
    <3>2. \A v \in Workers : v # w => worker'[v] = worker[v]
      BY <2>2, <2>t, goResolveOutcome DEF LeaveSign, Abandon, Finish, Goto
    <3>3. \A s \in sign : s # x => Resolving(s) \subseteq Resolving(s)'
      BY <3>2, <2>p DEF Resolving
    <3>4. x \in sign' => Resolving(x)' # {} \/ x \in leaked'
      <4>1. CASE leaked' = leaked \cup {worker[w].ms}
        BY <4>1, <2>p
      <4>2. CASE Abandon(w, "U1000")
        BY <4>2, <2>p DEF Abandon, RemoveSign
      <4>3. CASE Goto(w, "spawn")
        <5>1. worker'[w].at = "spawn" /\ worker'[w].ms = x
          BY <4>3, <2>t, <2>p DEF Goto, WorkerRec
        <5>2. w \in Resolving(x)'
          BY <5>1 DEF Resolving
        <5> QED
          BY <5>2
      <4> QED
        BY <2>2, <4>1, <4>2, <4>3, goResolveOutcome DEF LeaveSign
    <3> QED
      BY <3>1, <3>3, <3>4, SignFrame DEF Live
  <2>3. CASE doResolution(w)
    <3>1. UNCHANGED <<up, leaked>> /\ sign' \subseteq sign
      BY <2>3 DEF doResolution, Abandon, RemoveSign
    <3>2. \A v \in Workers : v # w => worker'[v] = worker[v]
      BY <2>3, <2>t DEF doResolution, Abandon, Finish
    <3>3. \A s \in sign : s # x => Resolving(s) \subseteq Resolving(s)'
      BY <3>2, <2>p DEF Resolving
    <3>4. CASE Abandon(w, "S0000") /\ UNCHANGED <<job, setter>>
      <4>1. x \notin sign'
        BY <3>4, <2>p DEF Abandon, RemoveSign
      <4> QED
        BY <3>1, <3>3, <3>4, <4>1, SignFrame DEF Live
    <3>5. ASSUME NEW j \in Jobs, job[j].st = "none",
                 job' = [job EXCEPT ![j] = Fresh("clean", worker[w].ms)]
          PROVE  SignAccounted'
      <4>1. job'[j].st = "clean" /\ job'[j].ms = x
        BY <3>5, <2>p DEF Fresh, TypeOK, ThreadsTyped
      <4>2. \A k \in Jobs : k # j => job'[k] = job[k]
        BY <3>5 DEF TypeOK, ThreadsTyped
      <4>3. Live(j)' /\ \A k \in Jobs : Live(k) => Live(k)' /\ job'[k].ms = job[k].ms
        BY <3>5, <4>1, <4>2 DEF Live
      <4> QED
        BY <3>1, <3>3, <4>1, <4>3, SignFrame
    <3> QED
      BY <2>3, <3>4, <3>5 DEF doResolution
  <2>5. CASE OpenFails(w)
    BY <2>5 DEF OpenFails, Crash, SignAccounted
  <2>4. CASE ~setRunningSign(w) /\ ~goResolve(w) /\ ~doResolution(w) /\ ~OpenFails(w)
    <3>1. /\ UNCHANGED <<up, sign, leaked, job>>
          /\ worker[w].at \notin {"collect", "spawn"}
          /\ \A v \in Workers : v # w => worker'[v] = worker[v]
      BY <1>1, <2>4, RequestFrame
    <3>2. \A s \in sign : Resolving(s) \subseteq Resolving(s)'
      BY <3>1 DEF Resolving
    <3> QED
      BY <1>n, <3>1, <3>2, SignFrame DEF Live
  <2> QED
    BY <2>1, <2>2, <2>3, <2>4, <2>5
<1>2. ASSUME NEW j \in Jobs, JobStep(j) PROVE SignAccounted'
  <2>1. CASE UnlockScenario(j)
    <3>p. PICK x : x = job[j].ms
      OBVIOUS
    <3>1. UNCHANGED <<up, worker, leaked>> /\ sign' = sign \ {x}
          /\ \A k \in Jobs : k # j => job'[k] = job[k]
      BY <2>1, <3>p DEF UnlockScenario, RemoveSign, TypeOK, ThreadsTyped
    <3>2. \A k \in Jobs : Live(k) /\ job[k].ms # x => Live(k)' /\ job'[k].ms = job[k].ms
      BY <3>1, <3>p DEF Live
    <3>3. \A s \in sign : Resolving(s) \subseteq Resolving(s)'
      BY <3>1 DEF Resolving
    <3> QED
      BY <3>1, <3>2, <3>3, SignFrame
  <2>2. CASE ~UnlockScenario(j)
    <3>1. /\ UNCHANGED <<up, worker, leaked>>
          /\ sign' \subseteq sign
          /\ Live(j)' /\ job'[j].ms = job[j].ms
          /\ \A k \in Jobs : k # j => job'[k] = job[k]
      BY <1>2, <2>2, JobStaysLive
    <3>2. \A k \in Jobs : Live(k) => Live(k)' /\ job'[k].ms = job[k].ms
      BY <3>1 DEF Live
    <3>3. \A s \in sign : Resolving(s) \subseteq Resolving(s)'
      BY <3>1 DEF Resolving
    <3> QED
      BY <1>n, <3>1, <3>2, <3>3, SignFrame
  <2> QED
    BY <2>1, <2>2
<1>3. ASSUME NEW j \in Jobs, JobThrows(j) PROVE SignAccounted'
  BY <1>3 DEF JobThrows, Crash, SignAccounted
<1>4. CASE InitMergebot
  BY <1>4 DEF InitMergebot, SignAccounted
<1>5. CASE UNCHANGED vars
  BY <1>5 DEF vars, files, threads, history, SignAccounted, Resolving, Live
<1> QED
  BY <1>1, <1>2, <1>3, <1>4, <1>5 DEF Next

\* goResolve, doResolution and _doResolutionAsync between them account for every
\* `running` file, whatever the number of worker threads, jobs, scenarios and
\* faults: one that nobody will remove is left only where an exception leaves
\* goResolve uncaught (a failed git command, a directory that cannot be created).
THEOREM SignIsAccounted == Spec => []SignAccounted
<1>1. Init => SignAccounted
  BY DEF Init, SignAccounted
<1> QED
  BY <1>1, TypeCorrect, SignStep, PTL DEF Spec

-----------------------------------------------------------------------------
(* The manifest loses no entry. *)

\* RegistrationsKept alone is not inductive: a worker between the truncation and
\* the write of the manifest carries the whole list in its copy, and only
\* peekMutex keeps a second worker from carrying an older one.
Writing(w) == worker[w].at \in {"projectWrite", "scenarioWrite"}
ManifestInv ==
  /\ manifest.st # "torn" => registered \subseteq manifest.entries
  /\ \A w \in Workers : ~up => ~Writing(w)
  /\ \A w \in Workers : Writing(w) => /\ peek = w
                                      /\ manifest.st = "torn"
                                      /\ registered \cup {NewEntry(w)} \subseteq worker[w].copy

\* Steps that leave the manifest, its history and every writer alone.
LEMMA ManifestFrame ==
  ASSUME ManifestInv, UNCHANGED <<manifest, registered>>,
         \A w \in Workers : Writing(w)' => /\ Writing(w)
                                           /\ worker'[w] = worker[w]
                                           /\ peek' = peek /\ up' = up
  PROVE  ManifestInv'
BY DEF ManifestInv, NewEntry

LEMMA ManifestStep == TypeOK /\ ManifestInv /\ [Next]_vars => ManifestInv'
<1> SUFFICES ASSUME TypeOK, ManifestInv, [Next]_vars PROVE ManifestInv'
  OBVIOUS
<1>t. worker \in [Workers -> WorkerRec]
      /\ manifest \in [st : {"absent", "ok", "torn"}, entries : SUBSET Entries]
  BY DEF TypeOK, ThreadsTyped, FilesTyped
<1> USE DEF files, history
<1>g. ASSUME NEW w \in Workers, NEW place, Goto(w, place),
             place \notin {"projectWrite", "scenarioWrite"}
      PROVE  \A v \in Workers : Writing(v)' => v # w /\ worker'[v] = worker[v]
  <2>1. worker'[w].at = place
    BY <1>g, <1>t DEF Goto, WorkerRec
  <2> QED
    BY <1>g, <1>t, <2>1 DEF Goto, Writing
<1>f. ASSUME NEW w \in Workers, worker' = [worker EXCEPT ![w] = Idle]
      PROVE  \A v \in Workers : Writing(v)' => v # w /\ worker'[v] = worker[v]
  BY <1>f, <1>t, IdleType DEF Writing
<1>b. ASSUME NEW w \in Workers, NEW entry,
             NEW place \in {"projectWrite", "scenarioWrite"}, manifest.st # "torn", up, up' = up,
             entry = IF place = "projectWrite" THEN ProjectOf[worker[w].ms] ELSE worker[w].ms,
             BeginManifestWrite(w, entry, place), UNCHANGED registered
      PROVE  ManifestInv'
  <2>1. \A v \in Workers : ~Writing(v)
    BY <1>b DEF ManifestInv
  <2> DEFINE all == manifest.entries \cup {entry}
  <2>2. worker' = [worker EXCEPT ![w] = [worker[w] EXCEPT !.copy = all, !.at = place]]
    BY <1>b DEF BeginManifestWrite
  <2>3. /\ worker'[w].copy = all /\ worker'[w].at = place /\ worker'[w].ms = worker[w].ms
        /\ \A v \in Workers : v # w => worker'[v] = worker[v]
    BY <2>2, <1>t DEF WorkerRec
  <2>4. manifest'.st = "torn" /\ peek' = w
    BY <1>b, <1>t DEF BeginManifestWrite
  <2>5. registered' \cup {NewEntry(w)'} \subseteq worker'[w].copy
    BY <1>b, <2>3 DEF ManifestInv, NewEntry
  <2>6. \A v \in Workers : Writing(v)' => v = w
    BY <2>1, <2>3 DEF Writing
  <2> QED
    BY <1>b, <2>4, <2>5, <2>6 DEF ManifestInv
<1>1. ASSUME NEW w \in Workers, WorkerStep(w) \/ Request(w) PROVE ManifestInv'
  <2>1. ASSUME NEW s \in Scenarios, NEW b \in BOOLEAN, PostMergeScenario(w, s, b)
        PROVE  ManifestInv'
    <3> DEFINE r == [Idle EXCEPT !.at = "project", !.ms = s, !.files = b]
    <3>1. r.at = "project"
      BY DEF Idle
    <3>2. worker' = [worker EXCEPT ![w] = r]
      BY <2>1 DEF PostMergeScenario
    <3> HIDE DEF r
    <3> QED
      BY <2>1, <3>1, <3>2, <1>t, ManifestFrame DEF PostMergeScenario, Writing
  <2>2. CASE PostRejected(w)
    BY <2>2, <1>f, ManifestFrame DEF PostRejected, Finish, Writing
  <2>3. ASSUME NEW place, ManifestUnreadable(w, place) PROVE ManifestInv'
    BY <2>3, <1>f, ManifestFrame DEF ManifestUnreadable, Finish, Writing
  <2>4. CASE checkAndAddProjectMetadata(w)
    <3>1. CASE Goto(w, "scenario") /\ UNCHANGED <<manifest, peek>>
      BY <2>4, <3>1, <1>g, ManifestFrame DEF checkAndAddProjectMetadata, Writing
    <3>2. CASE BeginManifestWrite(w, ProjectOf[worker[w].ms], "projectWrite")
      <4>1. PICK e : e = ProjectOf[worker[w].ms]
        OBVIOUS
      <4> QED
        BY <2>4, <3>2, <4>1, <1>b DEF checkAndAddProjectMetadata, At
    <3> QED
      BY <2>4, <3>1, <3>2 DEF checkAndAddProjectMetadata
  <2>5. CASE checkAndAddMSMetadata(w)
    <3>1. CASE Finish(w, "C1000") /\ UNCHANGED <<manifest, dirs, peek>>
      BY <2>5, <3>1, <1>f, ManifestFrame DEF checkAndAddMSMetadata, Finish, Writing
    <3>2. CASE Goto(w, "go") /\ UNCHANGED <<manifest, dirs, peek, answer>>
      BY <2>5, <3>2, <1>g, ManifestFrame DEF checkAndAddMSMetadata, Writing
    <3>3. CASE BeginManifestWrite(w, worker[w].ms, "scenarioWrite")
      <4>1. PICK e : e = worker[w].ms
        OBVIOUS
      <4> QED
        BY <2>5, <3>3, <4>1, <1>b DEF checkAndAddMSMetadata, At
    <3> QED
      BY <2>5, <3>1, <3>2, <3>3 DEF checkAndAddMSMetadata
  <2>6. CASE WriteManifest(w)
    <3>1. Writing(w) /\ peek = w /\ registered \cup {NewEntry(w)} \subseteq worker[w].copy
      BY <2>6 DEF WriteManifest, Writing, ManifestInv
    <3>2. \A v \in Workers : Writing(v) => v = w
      BY <3>1 DEF ManifestInv
    <3>3. PICK place \in {"scenario", "go"} : Goto(w, place)
      BY <2>6 DEF WriteManifest
    <3>4. \A v \in Workers : ~Writing(v)'
      BY <3>2, <3>3, <1>g DEF Writing
    <3> QED
      BY <2>6, <3>1, <3>4 DEF WriteManifest, ManifestInv
  <2>7. CASE MetadataFails(w)
    <3>1. \A v \in Workers : Writing(v)' => v # w /\ worker'[v] = worker[v]
      BY <2>7, <1>g DEF MetadataFails
    <3>2. CASE Writing(w)
      <4>1. \A v \in Workers : Writing(v) => v = w
        BY <3>2 DEF ManifestInv
      <4>2. \A v \in Workers : ~Writing(v)'
        BY <3>1, <4>1 DEF Writing
      <4> QED
        BY <2>7, <4>2, ManifestFrame DEF MetadataFails
    <3>3. CASE ~Writing(w)
      <4>1. peek' = peek
        BY <2>7, <3>3 DEF MetadataFails, Writing
      <4> QED
        BY <2>7, <3>1, <4>1, ManifestFrame DEF MetadataFails, Writing
    <3> QED
      BY <3>2, <3>3
  <2>8. CASE setRunningSign(w)
    BY <2>8, <1>g, ManifestFrame DEF setRunningSign, Writing
  <2>9. CASE goResolve(w)
    <3>1. UNCHANGED <<up, manifest, peek, registered>>
      BY <2>9, goResolveOutcome
    <3>2. (\E code : Finish(w, code)) \/ Goto(w, "spawn")
      BY <2>9, goResolveOutcome DEF LeaveSign, Abandon
    <3>3. worker[w].at = "collect"
      BY <2>9, goResolveOutcome DEF At
    <3> QED
      BY <3>1, <3>2, <3>3, <1>g, <1>f, ManifestFrame DEF Finish, Writing
  <2>10. CASE doResolution(w)
    BY <2>10, <1>f, ManifestFrame DEF doResolution, Abandon, Finish, Writing
  <2>11. ASSUME NEW s \in Scenarios, GetFileResolution(w, s) PROVE ManifestInv'
    <3> DEFINE r == [Idle EXCEPT !.at = "pending", !.ms = s]
    <3>1. r.at = "pending"
      BY DEF Idle
    <3>2. worker' = [worker EXCEPT ![w] = r]
      BY <2>11 DEF GetFileResolution
    <3> HIDE DEF r
    <3> QED
      BY <2>11, <3>1, <3>2, <1>t, ManifestFrame DEF GetFileResolution, Writing
  <2>12. ASSUME NEW s \in Scenarios, GetRejected(w, s) PROVE ManifestInv'
    BY <2>12, <1>f, ManifestFrame DEF GetRejected, Finish, Writing
  <2>13. CASE ReadPending(w)
    <3> DEFINE r == [worker[w] EXCEPT !.at = "exists", !.pend = worker[w].ms \in sign]
    <3>1. r.at = "exists"
      BY <1>t DEF WorkerRec
    <3>2. worker' = [worker EXCEPT ![w] = r]
      BY <2>13 DEF ReadPending
    <3> HIDE DEF r
    <3> QED
      BY <2>13, <3>1, <3>2, <1>t, ManifestFrame DEF ReadPending, Writing
  <2>14. CASE getFileResolution(w)
    BY <2>14, <1>f, ManifestFrame DEF getFileResolution, Answer, Finish, Writing
  <2>15. CASE FindResolution(w)
    BY <2>15, <1>g, <1>f, ManifestFrame DEF FindResolution, Answer, Writing
  <2>16. CASE OpenFails(w)
    BY <2>16, IdleType, ManifestFrame DEF OpenFails, Crash, Writing
  <2> QED
    BY <1>1, <2>1, <2>2, <2>3, <2>4, <2>5, <2>6, <2>7, <2>8, <2>9, <2>10, <2>11,
       <2>12, <2>13, <2>14, <2>15, <2>16 DEF WorkerStep, Request
<1>2. ASSUME NEW j \in Jobs, JobStep(j) PROVE ManifestInv'
  <2>1. UNCHANGED <<up, manifest, registered, worker, peek>>
    BY <1>2 DEF JobStep, CleanResolutions, FindBase, prepareSource, StartChain,
                ResolveBlocks, MergeGraphs, MarshalRead, OpenStore, WriteStore,
                ReportLeft, UnlockScenario
  <2> QED
    BY <2>1, ManifestFrame DEF Writing
<1>3. ASSUME NEW j \in Jobs, JobThrows(j) PROVE ManifestInv'
  BY <1>3, IdleType, ManifestFrame DEF JobThrows, Crash, Writing
<1>4. CASE InitMergebot
  <2>1. UNCHANGED worker /\ manifest' = EmptyManifest /\ registered' = {}
    BY <1>4 DEF InitMergebot, threads
  <2>2. \A w \in Workers : ~Writing(w)
    BY <1>4 DEF InitMergebot, ManifestInv
  <2> QED
    BY <2>1, <2>2 DEF ManifestInv, Writing, EmptyManifest
<1>5. CASE UNCHANGED vars
  BY <1>5, ManifestFrame DEF vars, threads, Writing
<1> QED
  BY <1>1, <1>2, <1>3, <1>4, <1>5 DEF Next

\* The read-modify-write of the manifest under peekMutex, in
\* checkAndAddProjectMetadata and checkAndAddMSMetadata, loses no project and no
\* scenario, however many worker threads register them at the same time.
THEOREM NothingUnregistered == Spec => []RegistrationsKept
<1>1. Init => ManifestInv
  BY IdleType DEF Init, ManifestInv, Writing, EmptyManifest
<1>2. ManifestInv => RegistrationsKept
  BY DEF ManifestInv, RegistrationsKept
<1> QED
  BY <1>1, <1>2, TypeCorrect, ManifestStep, PTL DEF Spec

-----------------------------------------------------------------------------
(* What the `running` file guarantees in the configuration server.cpp runs:  *)
(* app.run() without multithreaded(), that is one worker thread.  Any number *)
(* of projects, scenarios, blocks, detached jobs and faults; crashes and     *)
(* restarts included.                                                        *)

\* The server runs one worker thread.
SingleWorker == \A v, w \in Workers : v = w

-----------------------------------------------------------------------------
(* The invariant. *)

\* A process that ended has no threads.
Down == ~up => /\ \A w \in Workers : worker[w].at = "idle"
               /\ \A j \in Jobs : job[j].st = "none"

\* A scenario of the manifest has its directory, and the list a worker is about
\* to write is the one it truncated with its own entry.
Listed ==
  /\ \A s \in Scenarios : s \in manifest.entries => s \in dirs
  /\ \A w \in Workers : Writing(w) => worker[w].copy = manifest.entries \cup {NewEntry(w)}
  /\ \A w \in Workers : worker[w].at = "scenarioWrite" => worker[w].ms \in dirs

\* Job j is in its handler chain, or before it, for scenario s.
Busy(j, s) == job[j].st \in Working /\ job[j].ms = s
NobodyOn(s) == \A j \in Jobs : ~Busy(j, s)

\* The `running` file of s exists and `who` is responsible for it.
Holds(s, who) == s \in sign /\ setter[s] = who

\* The `running` file of s belongs to the request or the job that is resolving
\* s; a request that has found no `running` file meets no job.
Owned(s) ==
  /\ \A j \in Jobs : Busy(j, s) => Holds(s, j)
  /\ \A w \in Workers : worker[w].ms = s =>
       /\ worker[w].at \in {"collect", "spawn"} => Holds(s, w)
       /\ worker[w].at \in {"scenarioWrite", "go"} => s \notin sign
       /\ worker[w].at = "go" => s \in manifest.entries
       /\ worker[w].at \in {"exists", "read"} /\ ~worker[w].pend => NobodyOn(s)
  /\ s \in sign => s \in manifest.entries

Mine(j, results) == \A e \in results : e[1] = j

\* What the record r of working job j knows of the resolution file it will
\* merge its results with: until the next write the file holds what the chain
\* has written, or a failed write of the first handler left it torn.
JobStore(r, j, file) ==
  /\ Mine(j, r.done)
  /\ r.st = "clean" \/ r.h = 1 => r.done = {}
  /\ r.st \in {"copy", "prepare", "handle", "marshal", "open"} =>
       r.done = (IF file.st = "torn" THEN {} ELSE file.data)
  /\ r.st \in {"marshal", "open", "write"} => r.h \in {1, LastHandler} /\ Mine(j, r.buf)
  /\ r.st \in {"open", "write"} => r.done \subseteq r.buf
  /\ r.st = "write" => file.st = "torn" /\ r.gen = file.gen

\* The resolution file of s is one job's, and complete once nobody works on s.
OneSource(data) == \A e, f \in data : e[1] = f[1]
Stored(s) ==
  /\ OneSource(store[s].data)
  /\ \A j \in Jobs : Busy(j, s) => JobStore(job[j], j, store[s])
  /\ up /\ NobodyOn(s) /\ store[s].st # "torn" => store[s].data = final[s]

TornIsEmpty == \A s \in Scenarios : store[s].st # "ok" => store[s].data = {}

SingleInv ==
  /\ Down
  /\ Listed
  /\ TornIsEmpty
  /\ \A s \in Scenarios : Guarded(s) => Owned(s) /\ Stored(s)

-----------------------------------------------------------------------------
(* Requests. *)

\* Places of a worker that Owned says nothing about.
Quiet == {"idle", "project", "projectWrite", "scenario", "pending"}

\* A step of the worker that ends at such a place, or with another scenario,
\* and leaves the signs and the jobs alone.
LEMMA OwnedFrame ==
  ASSUME SingleWorker, NEW w \in Workers, NEW s \in Scenarios, Owned(s),
         worker'[w].at \in Quiet \/ worker'[w].ms # s,
         UNCHANGED job,
         s \in sign' <=> s \in sign, setter'[s] = setter[s],
         s \in manifest.entries => s \in manifest'.entries
  PROVE  Owned(s)'
<1>1. \A v \in Workers : v = w
  BY DEF SingleWorker
<1>2. \A j \in Jobs : Busy(j, s)' => Busy(j, s)
  BY DEF Busy
<1>3. \A j \in Jobs : Busy(j, s)' => Holds(s, j)'
  BY <1>2 DEF Owned, Holds
<1>4. \A v \in Workers : worker'[v].ms = s => worker'[v].at \in Quiet
  BY <1>1
<1>5. s \in sign' => s \in manifest'.entries
  BY DEF Owned
<1> QED
  BY <1>3, <1>4, <1>5 DEF Owned, Quiet

\* Stored is about the resolution files and the jobs only.
LEMMA StoredFrame ==
  ASSUME NEW s \in Scenarios, Stored(s), UNCHANGED <<up, store, job, final>>
  PROVE  Stored(s)'
BY DEF Stored, NobodyOn, Busy

\* Steps that change neither the resolution files nor the jobs, one obligation
\* per part of the invariant that is left.
LEMMA RequestInv ==
  ASSUME SingleInv, Listed',
         UNCHANGED <<up, store, job, final>>, up,
         \A s \in Scenarios : Guarded(s)' => Guarded(s),
         \A s \in Scenarios : Guarded(s)' /\ Owned(s) => Owned(s)'
  PROVE  SingleInv'
<1>1. Down'
  BY DEF Down
<1>2. TornIsEmpty'
  BY DEF SingleInv, TornIsEmpty
<1>3. ASSUME NEW s \in Scenarios, Guarded(s)' PROVE Owned(s)' /\ Stored(s)'
  BY <1>3, StoredFrame DEF SingleInv
<1> QED
  BY <1>1, <1>2, <1>3 DEF SingleInv

\* Listed after a step of the worker that does not begin a manifest write.
LEMMA ListedFrame ==
  ASSUME SingleWorker, Listed, NEW w \in Workers,
         worker'[w].at \notin {"projectWrite", "scenarioWrite"},
         manifest'.entries = manifest.entries, dirs \subseteq dirs'
  PROVE  Listed'
<1>1. \A v \in Workers : v = w
  BY DEF SingleWorker
<1> QED
  BY <1>1 DEF Listed, Writing

\* A request that goes on, with what its record then holds.
LEMMA GotoFacts ==
  ASSUME ThreadsTyped, NEW w \in Workers, NEW place, Goto(w, place)
  PROVE  /\ worker'[w].at = place /\ worker'[w].ms = worker[w].ms
         /\ worker'[w].copy = worker[w].copy
BY DEF Goto, ThreadsTyped, WorkerRec

LEMMA FinishFacts ==
  ASSUME ThreadsTyped, NEW w \in Workers, NEW code, Finish(w, code)
  PROVE  worker'[w].at = "idle"
BY IdleType DEF Finish, ThreadsTyped

\* The truncation of the manifest loses no entry of the copy.
LEMMA BeginFacts ==
  ASSUME FilesTyped, ThreadsTyped, NEW w \in Workers, NEW entry, NEW place,
         BeginManifestWrite(w, entry, place)
  PROVE  /\ worker'[w].at = place /\ worker'[w].ms = worker[w].ms
         /\ worker'[w].copy = manifest.entries \cup {entry}
         /\ manifest'.entries = manifest.entries
<1> DEFINE all == manifest.entries \cup {entry}
<1>1. worker' = [worker EXCEPT ![w] = [worker[w] EXCEPT !.copy = all, !.at = place]]
  BY DEF BeginManifestWrite
<1>2. worker'[w] = [worker[w] EXCEPT !.copy = all, !.at = place]
  BY <1>1 DEF ThreadsTyped
<1>3. manifest'.entries = manifest.entries
  BY DEF BeginManifestWrite, FilesTyped
<1> HIDE DEF all
<1>4. worker'[w].at = place /\ worker'[w].ms = worker[w].ms /\ worker'[w].copy = all
  BY <1>2, WorkerFacts DEF WorkerRec
<1> QED
  BY <1>3, <1>4 DEF all

\* Signs only ever become unguarded while the process runs.
LEMMA RemoveSignGuard ==
  ASSUME NEW x, NEW who, RemoveSign(x, who)
  PROVE  stolen \subseteq stolen' /\ (x \in sign /\ setter[x] # who => x \in stolen')
BY DEF RemoveSign

\* Requests that only answer, or take up a scenario, or look at the manifest.
LEMMA QuietStep ==
  ASSUME SingleWorker, TypeOK, SingleInv, NEW w \in Workers,
         \/ \E s \in Scenarios : \E b \in BOOLEAN : PostMergeScenario(w, s, b)
         \/ PostRejected(w)
         \/ \E place : ManifestUnreadable(w, place)
         \/ \E s \in Scenarios : GetFileResolution(w, s) \/ GetRejected(w, s)
         \/ getFileResolution(w)
         \/ FindResolution(w) /\ Answer(w, {})
  PROVE  SingleInv'
<1>t. ThreadsTyped /\ worker \in [Workers -> WorkerRec]
  BY DEF TypeOK, ThreadsTyped
<1>1. up /\ UNCHANGED <<up, manifest, dirs, sign, setter, store, job, final, stolen, unguarded>>
  BY DEF PostMergeScenario, PostRejected, ManifestUnreadable, GetFileResolution,
         GetRejected, getFileResolution, FindResolution, At, files, history
<1>2. worker'[w].at \in {"idle", "project", "pending"}
  <2>1. CASE \E s \in Scenarios : \E b \in BOOLEAN : PostMergeScenario(w, s, b)
    BY <2>1, <1>t DEF PostMergeScenario, Idle
  <2>2. CASE PostRejected(w)
    BY <2>2, <1>t, FinishFacts DEF PostRejected
  <2>3. CASE \E place : ManifestUnreadable(w, place)
    BY <2>3, <1>t, FinishFacts DEF ManifestUnreadable
  <2>4. CASE \E s \in Scenarios : GetFileResolution(w, s)
    BY <2>4, <1>t DEF GetFileResolution, Idle
  <2>5. CASE \E s \in Scenarios : GetRejected(w, s)
    BY <2>5, <1>t, FinishFacts DEF GetRejected
  <2>6. CASE getFileResolution(w)
    BY <2>6, <1>t, FinishFacts, IdleType DEF getFileResolution, Answer
  <2>7. CASE Answer(w, {})
    BY <2>7, <1>t, IdleType DEF Answer
  <2> QED
    BY <2>1, <2>2, <2>3, <2>4, <2>5, <2>6, <2>7
<1>3. Listed'
  BY <1>1, <1>2, ListedFrame DEF SingleInv
<1>4. \A s \in Scenarios : Guarded(s)' => Guarded(s)
  BY <1>1 DEF Guarded
<1>5. ASSUME NEW s \in Scenarios, Guarded(s)', Owned(s) PROVE Owned(s)'
  BY <1>1, <1>2, <1>5, OwnedFrame DEF Quiet
<1> QED
  BY <1>1, <1>3, <1>4, <1>5, RequestInv

\* checkAndAddProjectMetadata.
LEMMA ProjectStep ==
  ASSUME SingleWorker, TypeOK, SingleInv, NEW w \in Workers,
         checkAndAddProjectMetadata(w)
  PROVE  SingleInv'
<1>t. ThreadsTyped /\ FilesTyped
  BY DEF TypeOK
<1>o. \A v \in Workers : v = w
  BY DEF SingleWorker
<1>1. up /\ UNCHANGED <<up, dirs, sign, setter, store, job, final, stolen, unguarded>>
  BY DEF checkAndAddProjectMetadata, At, history
<1>2. PICK p : p = ProjectOf[worker[w].ms]
  OBVIOUS
<1>3. \/ Goto(w, "scenario") /\ UNCHANGED <<manifest, peek>>
      \/ BeginManifestWrite(w, p, "projectWrite")
  BY <1>2 DEF checkAndAddProjectMetadata
<1>4. worker'[w].at \in {"scenario", "projectWrite"} /\ worker'[w].ms = worker[w].ms
      /\ manifest'.entries = manifest.entries
  BY <1>3, <1>t, GotoFacts, BeginFacts
<1>5. Listed'
  <2>1. CASE Goto(w, "scenario")
    BY <2>1, <1>t, <1>1, <1>4, GotoFacts, ListedFrame DEF SingleInv
  <2>2. CASE BeginManifestWrite(w, p, "projectWrite")
    <3>1. worker'[w].at = "projectWrite" /\ worker'[w].copy = manifest.entries \cup {p}
      BY <2>2, <1>t, BeginFacts
    <3> QED
      BY <3>1, <1>o, <1>1, <1>2, <1>4 DEF SingleInv, Listed, NewEntry, Writing
  <2> QED
    BY <2>1, <2>2, <1>3
<1>6. \A s \in Scenarios : Guarded(s)' => Guarded(s)
  BY <1>1 DEF Guarded
<1>7. ASSUME NEW s \in Scenarios, Guarded(s)', Owned(s) PROVE Owned(s)'
  BY <1>1, <1>4, <1>7, OwnedFrame DEF Quiet
<1> QED
  BY <1>1, <1>5, <1>6, <1>7, RequestInv

\* checkAndAddMSMetadata: whoever finds no sign of a guarded scenario finds no
\* job in its chain either.
LEMMA ScenarioStep ==
  ASSUME SingleWorker, TypeOK, SingleInv, NEW w \in Workers,
         checkAndAddMSMetadata(w)
  PROVE  SingleInv'
<1>t. ThreadsTyped /\ FilesTyped
  BY DEF TypeOK
<1>o. \A v \in Workers : v = w
  BY DEF SingleWorker
<1>p. PICK x : x = worker[w].ms
  OBVIOUS
<1>1. up /\ UNCHANGED <<up, sign, setter, store, job, final, stolen, unguarded>>
  BY DEF checkAndAddMSMetadata, At, history
<1>2. x \in Scenarios
  BY <1>t, <1>p, WorkerFacts DEF checkAndAddMSMetadata, At
<1>6. \A s \in Scenarios : Guarded(s)' => Guarded(s)
  BY <1>1 DEF Guarded
<1>3. CASE Finish(w, "C1000") /\ UNCHANGED <<manifest, dirs, peek>>
  <2>1. worker'[w].at = "idle"
    BY <1>3, <1>t, FinishFacts
  <2>2. Listed'
    BY <1>3, <2>1, ListedFrame DEF SingleInv
  <2>3. ASSUME NEW s \in Scenarios, Guarded(s)', Owned(s) PROVE Owned(s)'
    BY <1>1, <1>3, <2>1, <2>3, OwnedFrame DEF Quiet
  <2> QED
    BY <1>1, <2>2, <1>6, <2>3, RequestInv
<1>4. CASE /\ x \in manifest.entries /\ x \notin sign
           /\ Goto(w, "go") /\ UNCHANGED <<manifest, dirs>>
  <2>1. worker'[w].at = "go" /\ worker'[w].ms = x
    BY <1>4, <1>t, <1>p, GotoFacts
  <2>2. Listed'
    BY <1>4, <2>1, ListedFrame DEF SingleInv
  <2>3. ASSUME NEW s \in Scenarios, Guarded(s)', Owned(s) PROVE Owned(s)'
    <3>1. CASE s = x
      BY <3>1, <1>o, <1>1, <1>4, <2>1, <2>3 DEF Owned, Busy, Holds
    <3>2. CASE s # x
      BY <3>2, <1>1, <1>4, <2>1, <2>3, OwnedFrame
    <3> QED
      BY <3>1, <3>2
  <2> QED
    BY <1>1, <2>2, <1>6, <2>3, RequestInv
<1>5. CASE /\ x \notin manifest.entries /\ dirs' = dirs \cup {x}
           /\ BeginManifestWrite(w, x, "scenarioWrite")
  <2>1. /\ worker'[w].at = "scenarioWrite" /\ worker'[w].ms = x
        /\ worker'[w].copy = manifest.entries \cup {x}
        /\ manifest'.entries = manifest.entries
    BY <1>5, <1>t, <1>p, BeginFacts
  <2>2. Listed'
    BY <1>o, <1>5, <2>1 DEF SingleInv, Listed, NewEntry, Writing
  <2>3. ASSUME NEW s \in Scenarios, Guarded(s)', Owned(s) PROVE Owned(s)'
    <3>1. CASE s = x
      BY <3>1, <1>o, <1>1, <1>5, <2>1, <2>3 DEF Owned, Busy, Holds
    <3>2. CASE s # x
      BY <3>2, <1>1, <2>1, <2>3, OwnedFrame
    <3> QED
      BY <3>1, <3>2
  <2> QED
    BY <1>1, <2>2, <1>6, <2>3, RequestInv
<1> QED
  BY <1>3, <1>4, <1>5, <1>p DEF checkAndAddMSMetadata, SignExists

\* The end of both manifest writes.
LEMMA WriteManifestStep ==
  ASSUME SingleWorker, TypeOK, SingleInv, NEW w \in Workers, WriteManifest(w)
  PROVE  SingleInv'
<1>t. ThreadsTyped /\ FilesTyped
  BY DEF TypeOK
<1>o. \A v \in Workers : v = w
  BY DEF SingleWorker
<1>p. PICK x : x = worker[w].ms
  OBVIOUS
<1>1. up /\ UNCHANGED <<up, dirs, sign, setter, store, job, final, stolen, unguarded>>
  BY DEF WriteManifest
<1>2. x \in Scenarios /\ ProjectOf[x] \notin Scenarios
  BY <1>t, <1>p, WorkerFacts, ServiceAssumption DEF WriteManifest
<1>3. manifest'.entries = manifest.entries \cup {NewEntry(w)}
  BY DEF WriteManifest, SingleInv, Listed, Writing
<1>4. worker'[w].at = (IF worker[w].at = "projectWrite" THEN "scenario" ELSE "go")
      /\ worker'[w].ms = x
  BY <1>t, <1>p, GotoFacts DEF WriteManifest
<1>5. Listed'
  <2>1. \A s \in Scenarios : s \in manifest'.entries => s \in dirs'
    BY <1>1, <1>2, <1>3, <1>p DEF WriteManifest, NewEntry, SingleInv, Listed
  <2> QED
    BY <2>1, <1>o, <1>4 DEF Listed, Writing
<1>6. \A s \in Scenarios : Guarded(s)' => Guarded(s)
  BY <1>1 DEF Guarded
<1>7. ASSUME NEW s \in Scenarios, Guarded(s)', Owned(s) PROVE Owned(s)'
  <2>1. CASE s # x \/ worker[w].at = "projectWrite"
    BY <2>1, <1>1, <1>3, <1>4, <1>7, OwnedFrame DEF Quiet
  <2>2. CASE s = x /\ worker[w].at = "scenarioWrite"
    <3>1. x \notin sign /\ x \in manifest'.entries /\ worker'[w].at = "go"
      BY <2>2, <1>p, <1>3, <1>4, <1>7 DEF Owned, NewEntry
    <3> QED
      BY <2>2, <3>1, <1>o, <1>1, <1>4, <1>7 DEF Owned, Busy, Holds
  <2> QED
    BY <2>1, <2>2 DEF WriteManifest
<1> QED
  BY <1>1, <1>5, <1>6, <1>7, RequestInv

\* A failed metadata step gives up the guard of its scenario.
LEMMA MetadataFailsStep ==
  ASSUME SingleWorker, TypeOK, SingleInv, NEW w \in Workers, MetadataFails(w)
  PROVE  SingleInv'
<1>t. ThreadsTyped /\ FilesTyped
  BY DEF TypeOK
<1>p. PICK x : x = worker[w].ms
  OBVIOUS
<1>1. /\ up /\ UNCHANGED <<up, manifest, sign, setter, store, job, final, stolen>>
      /\ unguarded' = unguarded \cup {x} /\ dirs \subseteq dirs'
  BY <1>p DEF MetadataFails
<1>2. worker'[w].at = "go" /\ worker'[w].ms = x
  BY <1>t, <1>p, GotoFacts DEF MetadataFails
<1>3. Listed'
  BY <1>1, <1>2, ListedFrame DEF SingleInv
<1>4. \A s \in Scenarios : Guarded(s)' => Guarded(s) /\ s # x
  BY <1>1 DEF Guarded
<1>5. ASSUME NEW s \in Scenarios, Guarded(s)', Owned(s) PROVE Owned(s)'
  BY <1>1, <1>2, <1>4, <1>5, OwnedFrame
<1> QED
  BY <1>1, <1>3, <1>4, <1>5, RequestInv

\* setRunningSign: the directory of a guarded scenario exists, so the sign is
\* created, and it was nobody's before.
LEMMA SetSignStep ==
  ASSUME SingleWorker, TypeOK, SingleInv, NEW w \in Workers, setRunningSign(w)
  PROVE  SingleInv'
<1>t. ThreadsTyped /\ FilesTyped /\ HistoryTyped
  BY DEF TypeOK
<1>o. \A v \in Workers : v = w
  BY DEF SingleWorker
<1>p. PICK x : x = worker[w].ms
  OBVIOUS
<1>1. up /\ UNCHANGED <<up, manifest, dirs, store, job, final, stolen, unguarded>>
  BY DEF setRunningSign, At
<1>2. worker'[w].at = "collect" /\ worker'[w].ms = x /\ worker[w].at = "go"
  BY <1>t, <1>p, GotoFacts DEF setRunningSign, At
<1>x. x \in Scenarios
  BY <1>t, <1>p, <1>2, WorkerFacts
<1>3. Listed'
  BY <1>1, <1>2, ListedFrame DEF SingleInv
<1>4. \A s \in Scenarios : Guarded(s)' => Guarded(s)
  BY <1>1 DEF Guarded
<1>5. \A s \in Scenarios : s # x => (s \in sign' <=> s \in sign) /\ setter'[s] = setter[s]
  BY <1>t, <1>p, <1>x DEF setRunningSign, HistoryTyped
<1>6. ASSUME NEW s \in Scenarios, Guarded(s)', Owned(s) PROVE Owned(s)'
  <2>1. CASE s # x
    BY <2>1, <1>1, <1>2, <1>5, <1>6, OwnedFrame
  <2>2. CASE s = x
    <3>1. x \in manifest.entries /\ x \notin sign
      BY <2>2, <1>p, <1>2, <1>6 DEF Owned
    <3>2. x \in dirs
      BY <3>1, <1>x DEF SingleInv, Listed
    <3>3. Holds(x, w)'
      BY <3>2, <1>t, <1>p, <1>x DEF setRunningSign, Holds, HistoryTyped
    <3>4. \A j \in Jobs : ~Busy(j, x)'
      BY <2>2, <3>1, <1>1, <1>6 DEF Owned, Holds, Busy
    <3> QED
      BY <2>2, <3>1, <3>3, <3>4, <1>o, <1>1, <1>2 DEF Owned
  <2> QED
    BY <2>1, <2>2
<1> QED
  BY <1>1, <1>3, <1>4, <1>6, RequestInv

\* Nobody works on a scenario whose sign a request holds.
LEMMA HolderAlone ==
  ASSUME NEW s \in Scenarios, NEW w \in Workers, Owned(s), Holds(s, w)
  PROVE  NobodyOn(s)
BY ServiceAssumption DEF Owned, Holds, NobodyOn

\* The exits that remove the sign: a guarded scenario loses its own sign.
LEMMA AbandonStep ==
  ASSUME SingleWorker, TypeOK, SingleInv, NEW w \in Workers, NEW code,
         worker[w].at \in {"collect", "spawn"}, up, Abandon(w, code),
         UNCHANGED <<up, manifest, dirs, setter, store, job, final, unguarded>>
  PROVE  SingleInv'
<1>t. ThreadsTyped /\ FilesTyped
  BY DEF TypeOK
<1>p. PICK x : x = worker[w].ms
  OBVIOUS
<1>o. \A v \in Workers : v = w
  BY DEF SingleWorker
<1>1. worker'[w].at = "idle" /\ RemoveSign(x, w)
  BY <1>t, <1>p, FinishFacts DEF Abandon
<1>2. sign' = sign \ {x} /\ stolen \subseteq stolen'
  BY <1>1 DEF RemoveSign
<1>3. Listed'
  BY <1>1, ListedFrame DEF SingleInv
<1>4. \A s \in Scenarios : Guarded(s)' => Guarded(s)
  BY <1>2 DEF Guarded
<1>5. ASSUME NEW s \in Scenarios, Guarded(s)', Owned(s) PROVE Owned(s)'
  <2>1. CASE s # x
    BY <2>1, <1>1, <1>2, <1>5, OwnedFrame DEF Quiet
  <2>2. CASE s = x
    <3>1. NobodyOn(s)
      BY <2>2, <1>p, <1>5, HolderAlone DEF Owned
    <3>2. \A j \in Jobs : ~Busy(j, s)'
      BY <3>1 DEF NobodyOn, Busy
    <3> QED
      BY <2>2, <3>2, <1>1, <1>2, <1>o DEF Owned
  <2> QED
    BY <2>1, <2>2
<1> QED
  BY <1>3, <1>4, <1>5, RequestInv

\* goResolve.
LEMMA CollectStep ==
  ASSUME SingleWorker, TypeOK, SingleInv, NEW w \in Workers, goResolve(w)
  PROVE  SingleInv'
<1>t. ThreadsTyped /\ FilesTyped
  BY DEF TypeOK
<1>p. PICK x : x = worker[w].ms
  OBVIOUS
<1>o. \A v \in Workers : v = w
  BY DEF SingleWorker
<1>1. up /\ worker[w].at = "collect"
      /\ UNCHANGED <<up, manifest, setter, store, job, final, unguarded>>
  BY goResolveOutcome DEF At
<1>2. ASSUME NEW code, LeaveSign(w, code), dirs \subseteq dirs' PROVE SingleInv'
  <2>1. worker'[w].at = "idle" /\ UNCHANGED <<sign, stolen>>
    BY <1>2, <1>t, FinishFacts DEF LeaveSign
  <2>2. Listed'
    BY <1>1, <1>2, <2>1, ListedFrame DEF SingleInv
  <2>3. \A s \in Scenarios : Guarded(s)' => Guarded(s)
    BY <1>1, <2>1 DEF Guarded
  <2>4. ASSUME NEW s \in Scenarios, Guarded(s)', Owned(s) PROVE Owned(s)'
    BY <1>1, <2>1, <2>4, OwnedFrame DEF Quiet
  <2> QED
    BY <1>1, <2>2, <2>3, <2>4, RequestInv
<1>3. CASE Abandon(w, "U1000") /\ UNCHANGED <<dirs, sources, leaked>>
  BY <1>1, <1>3, AbandonStep
<1>4. CASE /\ dirs' = dirs \cup {worker[w].ms} /\ Goto(w, "spawn")
           /\ UNCHANGED <<sign, leaked, stolen, answer>>
  <2>1. worker'[w].at = "spawn" /\ worker'[w].ms = x
    BY <1>4, <1>t, <1>p, GotoFacts
  <2>2. Listed'
    BY <1>1, <1>4, <2>1, ListedFrame DEF SingleInv
  <2>3. \A s \in Scenarios : Guarded(s)' => Guarded(s)
    BY <1>1, <1>4 DEF Guarded
  <2>4. ASSUME NEW s \in Scenarios, Guarded(s)', Owned(s) PROVE Owned(s)'
    <3>1. CASE s # x
      BY <3>1, <1>1, <1>4, <2>1, <2>4, OwnedFrame
    <3>2. CASE s = x
      BY <3>2, <1>o, <1>p, <1>1, <1>4, <2>1, <2>4 DEF Owned, Busy, Holds
    <3> QED
      BY <3>1, <3>2
  <2> QED
    BY <1>1, <2>2, <2>3, <2>4, RequestInv
<1>5. \A d : dirs' \in {dirs, dirs \cup {d}} => dirs \subseteq dirs'
  OBVIOUS
<1> QED
  BY <1>2, <1>3, <1>4, <1>5, goResolveOutcome

\* getFileResolution's look at the sign: without one, nobody works on it.
LEMMA PendingStep ==
  ASSUME SingleWorker, TypeOK, SingleInv, NEW w \in Workers, ReadPending(w)
  PROVE  SingleInv'
<1>t. ThreadsTyped /\ worker \in [Workers -> WorkerRec]
  BY DEF TypeOK, ThreadsTyped
<1>p. PICK x : x = worker[w].ms
  OBVIOUS
<1>o. \A v \in Workers : v = w
  BY DEF SingleWorker
<1>1. up /\ UNCHANGED <<up, manifest, dirs, sign, setter, store, job, final, stolen, unguarded>>
  BY DEF ReadPending, At, files, history
<1>2. worker'[w].at = "exists" /\ worker'[w].ms = x /\ (worker'[w].pend <=> x \in sign)
  <2> DEFINE seen == worker[w].ms \in sign
             r == [worker[w] EXCEPT !.at = "exists", !.pend = seen]
  <2>1. worker'[w] = r
    BY <1>t DEF ReadPending
  <2> HIDE DEF seen
  <2>2. r.at = "exists" /\ r.ms = worker[w].ms /\ r.pend = seen
    BY <1>t DEF WorkerRec
  <2> QED
    BY <2>1, <2>2, <1>p DEF seen
<1>3. Listed'
  BY <1>1, <1>2, ListedFrame DEF SingleInv
<1>4. \A s \in Scenarios : Guarded(s)' => Guarded(s)
  BY <1>1 DEF Guarded
<1>5. ASSUME NEW s \in Scenarios, Guarded(s)', Owned(s) PROVE Owned(s)'
  <2>1. CASE s # x
    BY <2>1, <1>1, <1>2, <1>5, OwnedFrame
  <2>2. CASE s = x
    <3>1. s \notin sign => NobodyOn(s)'
      BY <1>1, <1>5 DEF Owned, NobodyOn, Busy, Holds
    <3>2. \A j \in Jobs : Busy(j, s)' => Holds(s, j)'
      BY <1>1, <1>5 DEF Owned, Busy, Holds
    <3> QED
      BY <2>2, <3>1, <3>2, <1>o, <1>1, <1>2, <1>5 DEF Owned
  <2> QED
    BY <2>1, <2>2
<1> QED
  BY <1>1, <1>3, <1>4, <1>5, RequestInv

\* ... and whether there is a resolution file.
LEMMA FindStep ==
  ASSUME SingleWorker, TypeOK, SingleInv, NEW w \in Workers, FindResolution(w), Goto(w, "read")
  PROVE  SingleInv'
<1>t. ThreadsTyped /\ worker \in [Workers -> WorkerRec]
  BY DEF TypeOK, ThreadsTyped
<1>p. PICK x : x = worker[w].ms
  OBVIOUS
<1>o. \A v \in Workers : v = w
  BY DEF SingleWorker
<1>1. up /\ worker[w].at = "exists"
      /\ UNCHANGED <<up, manifest, dirs, sign, setter, store, job, final, stolen, unguarded>>
  BY DEF FindResolution, At, files, history
<1>2. worker'[w].at = "read" /\ worker'[w].ms = x /\ worker'[w].pend = worker[w].pend
  BY <1>t, <1>p DEF Goto, WorkerRec
<1>3. Listed'
  BY <1>1, <1>2, ListedFrame DEF SingleInv
<1>4. \A s \in Scenarios : Guarded(s)' => Guarded(s)
  BY <1>1 DEF Guarded
<1>5. ASSUME NEW s \in Scenarios, Guarded(s)', Owned(s) PROVE Owned(s)'
  <2>1. CASE s # x
    BY <2>1, <1>1, <1>2, <1>5, OwnedFrame
  <2>2. CASE s = x
    <3>1. ~worker'[w].pend => NobodyOn(s)'
      BY <2>2, <1>p, <1>1, <1>2, <1>5 DEF Owned, NobodyOn, Busy
    <3>2. \A j \in Jobs : Busy(j, s)' => Holds(s, j)'
      BY <1>1, <1>5 DEF Owned, Busy, Holds
    <3> QED
      BY <2>2, <3>1, <3>2, <1>o, <1>1, <1>2, <1>5 DEF Owned
  <2> QED
    BY <2>1, <2>2
<1> QED
  BY <1>1, <1>3, <1>4, <1>5, RequestInv

\* doResolution: the request hands its sign to the job it starts.
LEMMA SpawnStep ==
  ASSUME SingleWorker, TypeOK, SingleInv, NEW w \in Workers, doResolution(w)
  PROVE  SingleInv'
<1>t. ThreadsTyped /\ FilesTyped /\ HistoryTyped
  BY DEF TypeOK
<1>p. PICK x : x = worker[w].ms
  OBVIOUS
<1>o. \A v \in Workers : v = w
  BY DEF SingleWorker
<1>1. up /\ worker[w].at = "spawn"
      /\ UNCHANGED <<up, manifest, dirs, store, final, unguarded>>
  BY DEF doResolution, At
<1>x. x \in Scenarios
  BY <1>t, <1>p, <1>1, WorkerFacts
<1>2. CASE Abandon(w, "S0000") /\ UNCHANGED <<job, setter>>
  BY <1>1, <1>2, AbandonStep
<1>3. ASSUME NEW j \in Jobs, job[j].st = "none",
             job' = [job EXCEPT ![j] = Fresh("clean", x)],
             setter' = IF setter[x] = w THEN [setter EXCEPT ![x] = j] ELSE setter,
             Finish(w, "00000"), UNCHANGED <<sign, stolen, faults>>
      PROVE  SingleInv'
  <2>1. worker'[w].at = "idle"
    BY <1>3, <1>t, FinishFacts
  <2>2. job'[j] = Fresh("clean", x) /\ \A k \in Jobs : k # j => job'[k] = job[k]
    BY <1>3, <1>t DEF ThreadsTyped
  <2>3. job'[j].st = "clean" /\ job'[j].ms = x /\ job'[j].done = {}
    BY <2>2 DEF Fresh
  <2>4. \A k \in Jobs : \A s \in Scenarios :
          Busy(k, s)' <=> IF k = j THEN s = x ELSE Busy(k, s)
    BY <2>2, <2>3 DEF Busy, Working
  <2>5. \A s \in Scenarios : ~Busy(j, s)
    BY <1>3 DEF Busy, Working
  <2>6. Down' /\ TornIsEmpty'
    BY <1>1 DEF Down, SingleInv, TornIsEmpty
  <2>7. Listed'
    BY <1>1, <2>1, ListedFrame DEF SingleInv
  <2>8. ASSUME NEW s \in Scenarios, Guarded(s)' PROVE Owned(s)' /\ Stored(s)'
    <3>1. Owned(s) /\ Stored(s)
      BY <2>8, <1>1, <1>3 DEF SingleInv, Guarded
    <3>2. CASE s # x
      <4>1. \A k \in Jobs : Busy(k, s)' <=> Busy(k, s)
        BY <3>2, <2>4, <2>5
      <4>2. setter'[s] = setter[s]
        BY <3>2, <1>3, <1>t, <1>x DEF HistoryTyped
      <4>3. Owned(s)'
        BY <3>1, <4>1, <4>2, <1>1, <1>3, <1>o, <2>1 DEF Owned, Holds
      <4>4. \A k \in Jobs : Busy(k, s)' => job'[k] = job[k]
        BY <4>1, <2>2, <2>5
      <4>5. NobodyOn(s)' <=> NobodyOn(s)
        BY <4>1 DEF NobodyOn
      <4>6. Stored(s)'
        BY <3>1, <4>1, <4>4, <4>5, <1>1 DEF Stored
      <4> QED
        BY <4>3, <4>6
    <3>3. CASE s = x
      <4>1. Holds(s, w)
        BY <3>1, <3>3, <1>p, <1>1 DEF Owned
      <4>2. Holds(s, j)'
        BY <3>3, <4>1, <1>3, <1>t, <1>x DEF Holds, HistoryTyped
      <4>3. \A k \in Jobs : Busy(k, s)' => k = j
        BY <3>1, <4>1, <2>4, HolderAlone DEF NobodyOn
      <4>4. Owned(s)'
        BY <3>1, <4>2, <4>3, <1>1, <1>3, <1>o, <2>1 DEF Owned
      <4>5. JobStore(job'[j], j, store'[s])
        BY <2>3 DEF JobStore, Mine
      <4>6. ~NobodyOn(s)'
        BY <3>3, <2>4 DEF NobodyOn
      <4>7. Stored(s)'
        BY <3>1, <4>3, <4>5, <4>6, <1>1 DEF Stored
      <4> QED
        BY <4>4, <4>7
    <3> QED
      BY <3>2, <3>3
  <2> QED
    BY <2>6, <2>7, <2>8 DEF SingleInv
<1> QED
  BY <1>2, <1>3, <1>p DEF doResolution

\* The process ends: no thread is left, the files stay as they are.
LEMMA CrashStep ==
  ASSUME TypeOK, SingleInv, Crash
  PROVE  SingleInv'
<1>1. /\ up' = FALSE
      /\ UNCHANGED <<manifest, dirs, sign, store, setter, stolen, unguarded, final>>
      /\ \A w \in Workers : worker'[w].at = "idle"
      /\ \A k \in Jobs : job'[k].st = "none"
  BY IdleType, NoJobType DEF Crash, files, history
<1>2. \A k \in Jobs : \A s \in Scenarios : ~Busy(k, s)'
  BY <1>1 DEF Busy, Working
<1>3. Down' /\ Listed' /\ TornIsEmpty'
  BY <1>1 DEF Down, SingleInv, Listed, Writing, TornIsEmpty
<1>4. ASSUME NEW s \in Scenarios, Guarded(s)' PROVE Owned(s)' /\ Stored(s)'
  <2>1. Owned(s) /\ Stored(s)
    BY <1>1, <1>4 DEF SingleInv, Guarded
  <2> QED
    BY <2>1, <1>1, <1>2 DEF Owned, Stored
<1> QED
  BY <1>3, <1>4 DEF SingleInv

\* Every step of the worker thread.
LEMMA WorkerInv ==
  ASSUME SingleWorker, TypeOK, SingleInv, NEW w \in Workers, WorkerStep(w) \/ Request(w)
  PROVE  SingleInv'
BY QuietStep, ProjectStep, ScenarioStep, WriteManifestStep, MetadataFailsStep,
   SetSignStep, CollectStep, SpawnStep, PendingStep, FindStep, CrashStep
   DEF WorkerStep, Request, FindResolution, OpenFails

-----------------------------------------------------------------------------
(* Jobs. *)

\* The only working job of a guarded scenario takes a step to record r: what is
\* left to show is about that job and the resolution file.
LEMMA ChainFrame ==
  ASSUME TypeOK, SingleInv, NEW j \in Jobs, NEW x \in Scenarios, NEW r,
         Busy(j, x), up, r.ms = x, r.st \in Working \cup {"report", "unlock"},
         job' = [job EXCEPT ![j] = r],
         UNCHANGED <<up, manifest, dirs, sign, worker, setter, stolen, unguarded>>,
         \A s \in Scenarios : s # x => store'[s] = store[s] /\ final'[s] = final[s],
         store'[x].st # "ok" => store'[x].data = {},
         Owned(x) /\ Stored(x) =>
           /\ OneSource(store'[x].data)
           /\ r.st \in Working => JobStore(r, j, store'[x])
           /\ r.st \notin Working /\ store'[x].st # "torn" => store'[x].data = final'[x]
  PROVE  SingleInv'
<1>t. job'[j] = r /\ \A k \in Jobs : k # j => job'[k] = job[k]
  BY DEF TypeOK, ThreadsTyped
<1>1. Down'
  BY DEF Down
<1>2. Listed'
  BY DEF SingleInv, Listed, Writing, NewEntry
<1>3. TornIsEmpty'
  BY DEF SingleInv, TornIsEmpty
<1>4. \A k \in Jobs : \A s \in Scenarios : Busy(k, s)' => Busy(k, s)
  BY <1>t DEF Busy
<1>5. \A k \in Jobs : \A s \in Scenarios : s # x => (Busy(k, s)' <=> Busy(k, s))
  BY <1>t DEF Busy
<1>6. ASSUME NEW s \in Scenarios, Guarded(s)' PROVE Owned(s)' /\ Stored(s)'
  <2>1. Owned(s) /\ Stored(s)
    BY <1>6 DEF SingleInv, Guarded
  <2>2. Owned(s)'
    <3>1. NobodyOn(s) => NobodyOn(s)'
      BY <1>4 DEF NobodyOn
    <3> QED
      BY <2>1, <3>1, <1>4 DEF Owned, Holds
  <2>3. CASE s # x
    <3>1. \A k \in Jobs : Busy(k, s)' => Busy(k, s) /\ job'[k] = job[k]
      BY <2>3, <1>5, <1>t DEF Busy
    <3>2. NobodyOn(s)' <=> NobodyOn(s)
      BY <2>3, <1>5 DEF NobodyOn
    <3>3. Stored(s)'
      BY <2>1, <2>3, <3>1, <3>2 DEF Stored
    <3> QED
      BY <2>2, <3>3
  <2>4. CASE s = x
    <3>1. \A k \in Jobs : Busy(k, s) => k = j
      BY <2>1, <2>4 DEF Owned, Holds
    <3>2. \A k \in Jobs : Busy(k, s)' => k = j /\ r.st \in Working
      BY <3>1, <1>4, <1>t DEF Busy
    <3>3. r.st \in Working => ~NobodyOn(s)'
      BY <2>4, <1>t DEF NobodyOn, Busy
    <3>4. Stored(s)'
      BY <2>1, <2>4, <3>2, <3>3, <1>t DEF Stored
    <3> QED
      BY <2>2, <3>4
  <2> QED
    BY <2>3, <2>4
<1> QED
  BY <1>1, <1>2, <1>3, <1>6 DEF SingleInv

\* Step records what the chain has written when it is over.
LEMMA StepFinal ==
  ASSUME HistoryTyped, NEW j \in Jobs, NEW r, NEW x \in Scenarios, r.ms = x, Step(j, r)
  PROVE  /\ job' = [job EXCEPT ![j] = r]
         /\ \A s \in Scenarios : s # x => final'[s] = final[s]
         /\ r.st \in {"report", "unlock"} => final'[x] = r.done
BY DEF Step, HistoryTyped

\* SAHandler::handle goes on to a handler that is not the first, and only from
\* one that is not the last.
LEMMA FollowingHandler ==
  ASSUME NEW r \in JobRec, r.st # "none", Following(r).st = "handle"
  PROVE  Following(r).h # 1 /\ r.h # LastHandler
<1>1. r.h \in 1..4
  BY DEF JobRec, Handlers, LastHandler
<1>2. r.left # {} /\ r.h < LastHandler
  BY DEF Following, JobRec
<1>3. Following(r) = [r EXCEPT !.st = "handle", !.h = r.h + 1, !.buf = {}]
  BY <1>2 DEF Following
<1>4. Following(r).h = r.h + 1
  BY <1>3 DEF JobRec
<1> QED
  BY <1>1, <1>2, <1>4 DEF LastHandler

\* What the next handler of the chain finds.
LEMMA FollowingStore ==
  ASSUME NEW r \in JobRec, r.st # "none", NEW j, NEW file, Mine(j, r.done),
         \/ r.done = IF file.st = "torn" THEN {} ELSE file.data
         \/ r.h = LastHandler /\ file.st = "torn"
  PROVE  /\ Following(r).st \in Working \cup {"report", "unlock"}
         /\ Following(r).st \in Working => JobStore(Following(r), j, file)
         /\ Following(r).st \notin Working => Following(r).st \in {"report", "unlock"}
         /\ file.st # "torn" => Following(r).done = file.data
<1>1. Following(r).st \in {"unlock", "handle", "report"} /\ Following(r).done = r.done
  BY FollowingType
<1>2. Following(r).st = "handle" => Following(r).h # 1 /\ r.h # LastHandler
  BY FollowingHandler
<1>3. ASSUME Following(r).st = "handle" PROVE JobStore(Following(r), j, file)
  BY <1>1, <1>2, <1>3 DEF JobStore
<1> QED
  BY <1>1, <1>3 DEF Working

\* A handler that writes nothing: the chain goes on with record r.
LEMMA PassStep ==
  ASSUME TypeOK, SingleInv, NEW j \in Jobs, NEW x \in Scenarios, NEW r \in JobRec,
         up, Busy(j, x), job[j].st \in {"handle", "open"},
         r.ms = x, r.st # "none", r.done = job[j].done, Step(j, Following(r)),
         UNCHANGED <<up, manifest, dirs, sign, store, worker, setter, stolen, unguarded>>
  PROVE  SingleInv'
<1> DEFINE q == Following(r)
<1>t. HistoryTyped
  BY DEF TypeOK
<1>1. q.ms = x /\ q.st \in Working \cup {"report", "unlock"}
  BY FollowingType DEF Working
<1>2. /\ job' = [job EXCEPT ![j] = q]
      /\ \A s \in Scenarios : s # x => final'[s] = final[s]
      /\ q.st \in {"report", "unlock"} => final'[x] = q.done
  BY <1>1, <1>t, StepFinal
<1>3. ASSUME Stored(x)
      PROVE  /\ OneSource(store'[x].data)
             /\ q.st \in Working => JobStore(q, j, store'[x])
             /\ q.st \notin Working /\ store'[x].st # "torn" => store'[x].data = final'[x]
  <2>1. JobStore(job[j], j, store[x])
    BY <1>3 DEF Stored
  <2>2. Mine(j, r.done) /\ r.done = (IF store[x].st = "torn" THEN {} ELSE store[x].data)
    BY <2>1 DEF JobStore
  <2>3. /\ q.st \in Working => JobStore(q, j, store[x])
        /\ q.st \notin Working => q.st \in {"report", "unlock"}
        /\ store[x].st # "torn" => q.done = store[x].data
    BY <2>2, FollowingStore
  <2> QED
    BY <2>3, <1>2, <1>3 DEF Stored
<1>4. store'[x].st # "ok" => store'[x].data = {}
  BY DEF SingleInv, TornIsEmpty
<1> HIDE DEF q
<1> QED
  BY <1>1, <1>2, <1>3, <1>4, ChainFrame

\* The steps before the chain, and the one that starts it.
LEMMA PrepareStep ==
  ASSUME TypeOK, SingleInv, NEW j \in Jobs,
         \/ CleanResolutions(j) \/ FindBase(j)
         \/ \E side \in Sides : prepareSource(j, side)
         \/ StartChain(j)
  PROVE  SingleInv'
<1>t. ThreadsTyped /\ FilesTyped /\ HistoryTyped /\ job[j] \in JobRec
  BY JobFacts DEF TypeOK
<1>p. PICK x : x = job[j].ms
  OBVIOUS
<1> USE DEF files, history
<1>1. /\ up /\ job[j].st \in {"clean", "copy", "prepare"}
      /\ UNCHANGED <<up, manifest, dirs, sign, worker, setter, stolen, unguarded>>
  BY DEF CleanResolutions, FindBase, prepareSource, StartChain, In
<1>2. x \in Scenarios /\ Busy(j, x)
  BY <1>p, <1>1, <1>t, JobFacts DEF Busy, Working
<1>3. Stored(x) => JobStore(job[j], j, store[x]) /\ OneSource(store[x].data)
  BY <1>2 DEF Stored
<1>e. store[x].st # "ok" => store[x].data = {}
  BY <1>2 DEF SingleInv, TornIsEmpty
<1>4. CASE CleanResolutions(j)
  <2> DEFINE r == [job[j] EXCEPT !.st = "copy"]
  <2>1. r.ms = x /\ r.st = "copy" /\ r.done = job[j].done /\ r.h = job[j].h
    BY <1>t, <1>p DEF JobRec
  <2>2. job' = [job EXCEPT ![j] = r] /\ final' = final /\ job[j].st = "clean"
    BY <1>4 DEF CleanResolutions, In
  <2>3. store'[x].data = {} /\ store'[x].st = "absent"
        /\ \A s \in Scenarios : s # x => store'[s] = store[s]
    BY <1>4, <1>t, <1>p, <1>2 DEF CleanResolutions, Removed, FilesTyped
  <2> HIDE DEF r
  <2>4. Stored(x) => JobStore(r, j, store'[x]) /\ OneSource(store'[x].data)
    BY <2>1, <2>2, <2>3, <1>3 DEF JobStore, Mine, OneSource
  <2> QED
    BY <1>1, <1>2, <2>1, <2>2, <2>3, <2>4, ChainFrame DEF Working
<1>5. ASSUME NEW r, job' = [job EXCEPT ![j] = r], r.ms = x, r.done = job[j].done,
             r.h = job[j].h, r.st \in {"prepare", "handle", "unlock"},
             job[j].st \in {"copy", "prepare"}, UNCHANGED store,
             \A s \in Scenarios : s # x => final'[s] = final[s],
             r.st = "unlock" => final'[x] = r.done
      PROVE  SingleInv'
  <2>1. Stored(x) => /\ r.st # "unlock" => JobStore(r, j, store[x])
                     /\ store[x].st # "torn" => r.done = store[x].data
    BY <1>5, <1>3 DEF JobStore
  <2> QED
    BY <1>1, <1>2, <1>3, <1>5, <1>e, <2>1, ChainFrame DEF Working
<1>6. CASE FindBase(j)
  <2>1. PICK todo : job' = [job EXCEPT ![j] = [job[j] EXCEPT !.st = "prepare", !.todo = todo]]
    BY <1>6 DEF FindBase
  <2> DEFINE r == [job[j] EXCEPT !.st = "prepare", !.todo = todo]
  <2>2. r.ms = x /\ r.st = "prepare" /\ r.done = job[j].done /\ r.h = job[j].h
    BY <1>t, <1>p DEF JobRec
  <2>3. job' = [job EXCEPT ![j] = r] /\ job[j].st = "copy" /\ UNCHANGED <<store, final>>
    BY <1>6, <2>1 DEF FindBase, In
  <2> HIDE DEF r
  <2> QED
    BY <2>2, <2>3, <1>5
<1>7. ASSUME NEW side \in Sides, prepareSource(j, side) PROVE SingleInv'
  <2> DEFINE left == job[j].todo \ {side}
             r == [job[j] EXCEPT !.todo = left]
  <2>1. job' = [job EXCEPT ![j] = r] /\ job[j].st = "prepare" /\ UNCHANGED <<store, final>>
    BY <1>7 DEF prepareSource, In
  <2> HIDE DEF left
  <2>2. r.ms = x /\ r.st = job[j].st /\ r.done = job[j].done /\ r.h = job[j].h
    BY <1>t, <1>p DEF JobRec
  <2> HIDE DEF r
  <2> QED
    BY <2>1, <2>2, <1>5
<1>8. CASE StartChain(j)
  <2>1. PICK blocks \in SUBSET Blocks :
          Step(j, [job[j] EXCEPT !.left = blocks,
                                 !.st = IF blocks = {} THEN "unlock" ELSE "handle"])
    BY <1>8 DEF StartChain
  <2> DEFINE st == IF blocks = {} THEN "unlock" ELSE "handle"
             r == [job[j] EXCEPT !.left = blocks, !.st = st]
  <2>2. Step(j, r) /\ st \in {"unlock", "handle"}
    BY <2>1
  <2> HIDE DEF st
  <2>3. r.ms = x /\ r.st = st /\ r.done = job[j].done /\ r.h = job[j].h
    BY <1>t, <1>p DEF JobRec
  <2> HIDE DEF r
  <2>4. /\ job' = [job EXCEPT ![j] = r]
        /\ \A s \in Scenarios : s # x => final'[s] = final[s]
        /\ r.st = "unlock" => final'[x] = r.done
    BY <2>2, <2>3, <1>t, <1>2, StepFinal
  <2>5. job[j].st = "prepare" /\ UNCHANGED store
    BY <1>8 DEF StartChain, In
  <2> QED
    BY <2>2, <2>3, <2>4, <2>5, <1>5
<1> QED
  BY <1>4, <1>6, <1>7, <1>8

\* The style and the text based handler.
LEMMA ResolveStep ==
  ASSUME TypeOK, SingleInv, NEW j \in Jobs, ResolveBlocks(j)
  PROVE  SingleInv'
<1>t. ThreadsTyped /\ HistoryTyped /\ job[j] \in JobRec
  BY JobFacts DEF TypeOK
<1>p. PICK x : x = job[j].ms
  OBVIOUS
<1>1. /\ up /\ job[j].st = "handle" /\ job[j].h \in {1, LastHandler}
      /\ UNCHANGED <<up, manifest, dirs, sign, store, worker, setter, stolen, unguarded>>
  BY DEF ResolveBlocks, In, files
<1>2. x \in Scenarios /\ Busy(j, x)
  BY <1>p, <1>1, <1>t, JobFacts DEF Busy, Working
<1>3. PICK blocks \in SUBSET job[j].left :
        LET r == [job[j] EXCEPT !.left = @ \ blocks, !.buf = Results(j, blocks)]
        IN Step(j, IF blocks = {} THEN Following(r) ELSE [r EXCEPT !.st = "marshal"])
  BY DEF ResolveBlocks
<1> DEFINE left == job[j].left \ blocks
           buf == Results(j, blocks)
           r == [job[j] EXCEPT !.left = left, !.buf = buf]
           q == [r EXCEPT !.st = "marshal"]
<1>4. left \in SUBSET Blocks /\ buf \in SUBSET (Jobs \X Blocks) /\ Mine(j, buf)
  BY <1>t, JobFacts DEF Results, Mine
<1>5. IF blocks = {} THEN Step(j, Following(r)) ELSE Step(j, q)
  BY <1>3
<1> HIDE DEF left, buf
<1>6. r \in JobRec /\ r.st = "handle"
  BY <1>1, <1>4, <1>t, JobBlocksType
<1>7. r.ms = x /\ r.done = job[j].done /\ r.h = job[j].h /\ r.buf = buf
  BY <1>t, <1>p DEF JobRec
<1> HIDE DEF r
<1>8. CASE blocks = {}
  BY <1>1, <1>2, <1>5, <1>6, <1>7, <1>8, PassStep
<1>9. CASE blocks # {}
  <2>1. q.ms = x /\ q.st = "marshal" /\ q.done = job[j].done /\ q.h = job[j].h /\ q.buf = buf
    BY <1>6, <1>7 DEF JobRec
  <2> HIDE DEF q
  <2>2. job' = [job EXCEPT ![j] = q] /\ \A s \in Scenarios : s # x => final'[s] = final[s]
    BY <1>5, <1>9, <2>1, <1>t, <1>2, StepFinal
  <2>3. Stored(x) => JobStore(q, j, store[x]) /\ OneSource(store[x].data)
    <3>1. Stored(x) => JobStore(job[j], j, store[x])
      BY <1>2 DEF Stored
    <3> QED
      BY <3>1, <1>1, <1>4, <2>1 DEF Stored, JobStore
  <2>4. store[x].st # "ok" => store[x].data = {}
    BY <1>2 DEF SingleInv, TornIsEmpty
  <2> QED
    BY <1>1, <1>2, <2>1, <2>2, <2>3, <2>4, ChainFrame DEF Working
<1> QED
  BY <1>8, <1>9

\* The AST based and the LLVM based handler.
LEMMA MergeGraphsStep ==
  ASSUME TypeOK, SingleInv, NEW j \in Jobs, MergeGraphs(j)
  PROVE  SingleInv'
<1>t. ThreadsTyped /\ job[j] \in JobRec
  BY JobFacts DEF TypeOK
<1>p. PICK x : x = job[j].ms
  OBVIOUS
<1>1. /\ up /\ job[j].st = "handle" /\ Step(j, Following(job[j]))
      /\ UNCHANGED <<up, manifest, dirs, sign, store, worker, setter, stolen, unguarded>>
  BY DEF MergeGraphs, In, files
<1>2. x \in Scenarios /\ Busy(j, x)
  BY <1>p, <1>1, <1>t, JobFacts DEF Busy, Working
<1> QED
  BY <1>1, <1>2, <1>p, <1>t, PassStep

\* marshalResolutionResult: the file is read, opened with O_TRUNC and written.
LEMMA MarshalStep ==
  ASSUME TypeOK, SingleInv, NEW j \in Jobs, MarshalRead(j)
  PROVE  SingleInv'
<1>t. ThreadsTyped /\ job[j] \in JobRec
  BY JobFacts DEF TypeOK
<1>p. PICK x : x = job[j].ms
  OBVIOUS
<1>1. /\ up /\ job[j].st = "marshal"
      /\ UNCHANGED <<up, manifest, dirs, sign, store, worker, setter, stolen, unguarded, final>>
  BY DEF MarshalRead, In, files, history
<1>2. x \in Scenarios /\ Busy(j, x)
  BY <1>p, <1>1, <1>t, JobFacts DEF Busy, Working
<1> DEFINE buf == MergeResults(store[x], job[j].buf)
           r == [job[j] EXCEPT !.st = "open", !.buf = buf]
<1>3. job' = [job EXCEPT ![j] = r]
  BY <1>p DEF MarshalRead
<1>4. store[x].st # "ok" => store[x].data = {}
  BY <1>2 DEF SingleInv, TornIsEmpty
<1>5. ASSUME Stored(x)
      PROVE  Mine(j, buf) /\ job[j].done \subseteq buf
  <2>1. JobStore(job[j], j, store[x])
    BY <1>2, <1>5 DEF Stored
  <2>2. Mine(j, job[j].done) /\ Mine(j, job[j].buf)
        /\ job[j].done = (IF store[x].st = "torn" THEN {} ELSE store[x].data)
    BY <2>1, <1>1 DEF JobStore
  <2>3. CASE store[x].st = "ok"
    BY <2>2, <2>3 DEF MergeResults, Mine
  <2>4. CASE store[x].st # "ok"
    BY <2>2, <2>4, <1>4 DEF MergeResults, Mine
  <2> QED
    BY <2>3, <2>4
<1> HIDE DEF buf
<1>6. r.ms = x /\ r.st = "open" /\ r.done = job[j].done /\ r.h = job[j].h /\ r.buf = buf
  BY <1>t, <1>p DEF JobRec
<1> HIDE DEF r
<1>7. Stored(x) => JobStore(r, j, store[x]) /\ OneSource(store[x].data)
  <2>1. Stored(x) => JobStore(job[j], j, store[x])
    BY <1>2 DEF Stored
  <2> QED
    BY <2>1, <1>1, <1>5, <1>6 DEF Stored, JobStore
<1> QED
  BY <1>1, <1>2, <1>3, <1>4, <1>6, <1>7, ChainFrame DEF Working

LEMMA OpenStep ==
  ASSUME TypeOK, SingleInv, NEW j \in Jobs, OpenStore(j)
  PROVE  SingleInv'
<1>t. ThreadsTyped /\ FilesTyped /\ HistoryTyped /\ job[j] \in JobRec
  BY JobFacts DEF TypeOK
<1>p. PICK x : x = job[j].ms
  OBVIOUS
<1>1. /\ up /\ job[j].st = "open"
      /\ UNCHANGED <<up, manifest, dirs, sign, worker, setter, stolen, unguarded>>
  BY DEF OpenStore, In
<1>2. x \in Scenarios /\ Busy(j, x)
  BY <1>p, <1>1, <1>t, JobFacts DEF Busy, Working
<1>3. CASE Step(j, Following(job[j])) /\ UNCHANGED store
  BY <1>1, <1>2, <1>3, <1>p, <1>t, PassStep
<1> DEFINE g == store[x].gen
           r == [job[j] EXCEPT !.st = "write", !.gen = g]
<1>4. CASE /\ store' = [store EXCEPT ![x] = [@ EXCEPT !.st = "torn", !.data = {}]]
           /\ Step(j, r)
  <2>1. /\ store'[x].st = "torn" /\ store'[x].data = {} /\ store'[x].gen = g
        /\ \A s \in Scenarios : s # x => store'[s] = store[s]
    BY <1>4, <1>t, <1>2 DEF FilesTyped, StoreRec
  <2> HIDE DEF g
  <2>2. /\ r.ms = x /\ r.st = "write" /\ r.done = job[j].done /\ r.h = job[j].h
        /\ r.buf = job[j].buf /\ r.gen = g
    BY <1>t, <1>p DEF JobRec
  <2> HIDE DEF r
  <2>3. job' = [job EXCEPT ![j] = r] /\ \A s \in Scenarios : s # x => final'[s] = final[s]
    BY <1>4, <2>2, <1>t, <1>2, StepFinal
  <2>4. Stored(x) => JobStore(r, j, store'[x]) /\ OneSource(store'[x].data)
    <3>1. Stored(x) => JobStore(job[j], j, store[x])
      BY <1>2 DEF Stored
    <3> QED
      BY <3>1, <1>1, <2>1, <2>2 DEF JobStore, OneSource
  <2> QED
    BY <1>1, <1>2, <2>1, <2>2, <2>3, <2>4, ChainFrame DEF Working
<1> QED
  BY <1>3, <1>4, <1>p DEF OpenStore

LEMMA WriteStep ==
  ASSUME TypeOK, SingleInv, NEW j \in Jobs, WriteStore(j)
  PROVE  SingleInv'
<1>t. ThreadsTyped /\ FilesTyped /\ HistoryTyped /\ job[j] \in JobRec
  BY JobFacts DEF TypeOK
<1>p. PICK x : x = job[j].ms
  OBVIOUS
<1>1. /\ up /\ job[j].st = "write"
      /\ UNCHANGED <<up, manifest, dirs, sign, worker, setter, stolen, unguarded>>
  BY DEF WriteStore, In
<1>2. x \in Scenarios /\ Busy(j, x)
  BY <1>p, <1>1, <1>t, JobFacts DEF Busy, Working
<1>3. Stored(x) => JobStore(job[j], j, store[x]) /\ OneSource(store[x].data)
  BY <1>2 DEF Stored
<1>e. store[x].st # "ok" => store[x].data = {}
  BY <1>2 DEF SingleInv, TornIsEmpty
<1> DEFINE mine == {e \in job[j].buf : e[1] = j}
           d == job[j].done \cup mine
           r == [job[j] EXCEPT !.done = d]
<1>k. ASSUME NEW r0 \in JobRec, r0.st = "write", r0.ms = x, Step(j, Following(r0)),
             \A s \in Scenarios : s # x => store'[s] = store[s],
             store'[x].st # "ok" => store'[x].data = {},
             Stored(x) => /\ OneSource(store'[x].data)
                          /\ Mine(j, r0.done)
                          /\ \/ r0.done = IF store'[x].st = "torn" THEN {} ELSE store'[x].data
                             \/ r0.h = LastHandler /\ store'[x].st = "torn"
      PROVE  SingleInv'
  <2> DEFINE q == Following(r0)
  <2>1. q.ms = x /\ q.st \in Working \cup {"report", "unlock"}
    BY <1>k, FollowingType DEF Working
  <2>2. /\ job' = [job EXCEPT ![j] = q]
        /\ \A s \in Scenarios : s # x => final'[s] = final[s]
        /\ q.st \in {"report", "unlock"} => final'[x] = q.done
    BY <2>1, <1>k, <1>t, <1>2, StepFinal
  <2>3. Stored(x) => /\ q.st \in Working => JobStore(q, j, store'[x])
                     /\ q.st \notin Working => q.st \in {"report", "unlock"}
                     /\ store'[x].st # "torn" => q.done = store'[x].data
    BY <1>k, FollowingStore
  <2> HIDE DEF q
  <2> QED
    BY <1>1, <1>2, <1>k, <2>1, <2>2, <2>3, ChainFrame
<1>4. CASE Step(j, Following(job[j])) /\ UNCHANGED store
  <2>1. Stored(x) => /\ Mine(j, job[j].done) /\ store[x].st = "torn"
                     /\ job[j].h = LastHandler \/ job[j].done = {}
    BY <1>1, <1>3 DEF JobStore
  <2> QED
    BY <1>1, <1>3, <1>4, <1>e, <1>p, <1>t, <2>1, <1>k
<1>5. CASE /\ \/ UNCHANGED store /\ job[j].gen # store[x].gen
              \/ /\ store' = [store EXCEPT ![x] = [@ EXCEPT !.st = "ok", !.data = job[j].buf]]
                 /\ job[j].gen = store[x].gen
              \/ /\ store[x].st = "ok"
                 /\ store' = [store EXCEPT ![x] = [@ EXCEPT !.st = "torn", !.data = {}]]
           /\ Step(j, Following(r))
  <2>1. d \in SUBSET (Jobs \X Blocks)
    BY <1>t, JobFacts
  <2>2. Stored(x) => /\ Mine(j, d) /\ d = job[j].buf
                     /\ store[x].st = "torn" /\ job[j].gen = store[x].gen
    BY <1>1, <1>3 DEF JobStore, Mine
  <2> HIDE DEF d
  <2>3. r \in JobRec /\ r.ms = x /\ r.st = "write" /\ r.done = d /\ r.h = job[j].h
    BY <1>t, <1>p, <1>1, <2>1 DEF JobRec
  <2>4. \A s \in Scenarios : s # x => store'[s] = store[s]
    BY <1>5, <1>t, <1>2 DEF FilesTyped
  <2>5. store'[x].st # "ok" => store'[x].data = {}
    <3>1. CASE UNCHANGED store
      BY <3>1, <1>e
    <3>2. CASE store' = [store EXCEPT ![x] = [@ EXCEPT !.st = "ok", !.data = job[j].buf]]
      BY <3>2, <1>t, <1>2 DEF FilesTyped, StoreRec
    <3>3. CASE store' = [store EXCEPT ![x] = [@ EXCEPT !.st = "torn", !.data = {}]]
      BY <3>3, <1>t, <1>2 DEF FilesTyped, StoreRec
    <3> QED
      BY <1>5, <3>1, <3>2, <3>3
  <2>6. Stored(x) => store'[x].st = "ok" /\ store'[x].data = d
    BY <1>5, <2>2, <1>t, <1>2 DEF FilesTyped, StoreRec
  <2>7. Stored(x) => OneSource(store'[x].data)
    BY <2>2, <2>6 DEF Mine, OneSource
  <2> HIDE DEF r
  <2> QED
    BY <1>5, <2>2, <2>3, <2>4, <2>5, <2>6, <2>7, <1>k
<1> QED
  BY <1>4, <1>5, <1>p DEF WriteStore

\* The two removals of the sign after the chain: a job that removes the sign of
\* somebody else gives up the guard of its scenario.
LEMMA CleanUpStep ==
  ASSUME TypeOK, SingleInv, NEW j \in Jobs, ReportLeft(j) \/ UnlockScenario(j)
  PROVE  SingleInv'
<1>t. ThreadsTyped /\ job[j] \in JobRec /\ job \in [Jobs -> JobRec]
  BY JobFacts DEF TypeOK, ThreadsTyped
<1>p. PICK x : x = job[j].ms
  OBVIOUS
<1>1. /\ up /\ job[j].st \in {"report", "unlock"} /\ RemoveSign(x, j)
      /\ UNCHANGED <<up, manifest, dirs, store, worker, setter, unguarded, final>>
  BY <1>p DEF ReportLeft, UnlockScenario, In
<1>2. sign' = sign \ {x} /\ stolen \subseteq stolen'
      /\ (x \in sign /\ setter[x] # j => x \in stolen')
  BY <1>1, RemoveSignGuard DEF RemoveSign
<1>3. job'[j].st \in {"unlock", "done"} /\ \A k \in Jobs : k # j => job'[k] = job[k]
  BY <1>t DEF ReportLeft, UnlockScenario, Fresh, JobRec
<1>4. \A k \in Jobs : \A s \in Scenarios :
        /\ Busy(k, s)' <=> Busy(k, s)
        /\ Busy(k, s) => k # j /\ job'[k] = job[k]
  BY <1>1, <1>3 DEF Busy, Working
<1>5. \A s \in Scenarios : NobodyOn(s)' <=> NobodyOn(s)
  BY <1>4 DEF NobodyOn
<1>6. Down' /\ TornIsEmpty'
  BY <1>1 DEF Down, SingleInv, TornIsEmpty
<1>7. Listed'
  BY <1>1 DEF SingleInv, Listed, Writing, NewEntry
<1>8. ASSUME NEW s \in Scenarios, Guarded(s)' PROVE Owned(s)' /\ Stored(s)'
  <2>1. Owned(s) /\ Stored(s)
    BY <1>8, <1>1, <1>2 DEF SingleInv, Guarded
  <2>2. Stored(s)'
    BY <2>1, <1>1, <1>4, <1>5 DEF Stored
  <2>3. \A who \in Workers \cup (Jobs \ {j}) : Holds(s, who) => Holds(s, who)'
    <3>1. CASE s # x
      BY <3>1, <1>1, <1>2 DEF Holds
    <3>2. CASE s = x
      BY <3>2, <1>2, <1>8, ServiceAssumption DEF Holds, Guarded
    <3> QED
      BY <3>1, <3>2
  <2>4. Owned(s)'
    BY <2>1, <2>3, <1>1, <1>2, <1>4, <1>5 DEF Owned
  <2> QED
    BY <2>2, <2>4
<1> QED
  BY <1>6, <1>7, <1>8 DEF SingleInv

LEMMA JobInv ==
  ASSUME TypeOK, SingleInv, NEW j \in Jobs, JobStep(j)
  PROVE  SingleInv'
BY PrepareStep, ResolveStep, MergeGraphsStep, MarshalStep, OpenStep, WriteStep,
   CleanUpStep DEF JobStep

\* An empty cache directory satisfies the invariant when no thread runs.
LEMMA EmptyCache ==
  ASSUME manifest = EmptyManifest, dirs = {}, sign = {}, store = EmptyStore,
         final = NothingFinal,
         \A w \in Workers : worker[w].at = "idle",
         \A j \in Jobs : job[j].st = "none"
  PROVE  SingleInv
<1>1. Down /\ Listed
  BY DEF Down, Listed, Writing, EmptyManifest
<1>2. \A s \in Scenarios : store[s].data = {} /\ final[s] = {}
  BY DEF EmptyStore, NothingFinal
<1>3. \A k \in Jobs : \A s \in Scenarios : ~Busy(k, s)
  BY DEF Busy, Working
<1>4. \A s \in Scenarios : Owned(s)
  BY <1>3 DEF Owned
<1>5. \A s \in Scenarios : Stored(s)
  BY <1>2, <1>3 DEF Stored, OneSource
<1> QED
  BY <1>1, <1>2, <1>4, <1>5 DEF SingleInv, TornIsEmpty

LEMMA SingleInit == Init => SingleInv
<1> SUFFICES ASSUME Init PROVE SingleInv
  OBVIOUS
<1>1. /\ \A w \in Workers : worker[w].at = "idle"
      /\ \A j \in Jobs : job[j].st = "none"
  BY IdleType, NoJobType DEF Init
<1> QED
  BY <1>1, EmptyCache DEF Init

LEMMA RestartStep ==
  ASSUME SingleInv, InitMergebot
  PROVE  SingleInv'
<1>1. /\ \A w \in Workers : worker'[w].at = "idle"
      /\ \A j \in Jobs : job'[j].st = "none"
  BY DEF SingleInv, Down, InitMergebot, threads
<1>2. /\ manifest' = EmptyManifest /\ dirs' = {} /\ sign' = {} /\ store' = EmptyStore
      /\ final' = NothingFinal
  BY DEF InitMergebot
<1>3. Down' /\ Listed'
  BY <1>1, <1>2 DEF Down, Listed, Writing, EmptyManifest
<1>4. \A s \in Scenarios : store'[s].data = {} /\ final'[s] = {}
  BY <1>2 DEF EmptyStore, NothingFinal
<1>5. \A k \in Jobs : \A s \in Scenarios : ~Busy(k, s)'
  BY <1>1 DEF Busy, Working
<1>6. \A s \in Scenarios : Owned(s)'
  BY <1>1, <1>2, <1>5 DEF Owned
<1>7. \A s \in Scenarios : Stored(s)'
  BY <1>4, <1>5 DEF Stored, OneSource
<1> QED
  BY <1>3, <1>4, <1>6, <1>7 DEF SingleInv, TornIsEmpty

\* SingleInv is inductive for one worker thread.
LEMMA SingleStep ==
  ASSUME SingleWorker, TypeOK, SingleInv, [Next]_vars
  PROVE  SingleInv'
<1>1. CASE UNCHANGED vars
  BY <1>1 DEF vars, files, threads, history, SingleInv, Down, Listed, Writing, NewEntry,
              TornIsEmpty, Guarded, Owned, Stored, Holds, Busy, NobodyOn
<1> QED
  BY <1>1, WorkerInv, JobInv, CrashStep, RestartStep DEF Next, JobThrows

-----------------------------------------------------------------------------
(* The results. *)

\* What the `running` file is for: with one worker thread, whatever the number
\* of scenarios, jobs and faults, two jobs are in their chains for one merge
\* scenario only after a job deleted a `running` file that was not its own or a
\* failed metadata step was ignored.
THEOREM JobsExcludeEachOther ==
  ASSUME SingleWorker
  PROVE  Spec => []OverlapOnlyUnguarded
<1>1. ASSUME SingleInv PROVE OverlapOnlyUnguarded
  <2> SUFFICES ASSUME NEW s \in Scenarios, Guarded(s)
               PROVE  Cardinality(WorkingOn(s)) <= 1
    BY DEF OverlapOnlyUnguarded
  <2>1. \A j \in WorkingOn(s) : j = setter[s]
    BY <1>1 DEF SingleInv, Owned, Holds, Busy, WorkingOn
  <2>2. CASE WorkingOn(s) = {}
    BY <2>2, FS_EmptySet
  <2>3. CASE WorkingOn(s) # {}
    <3>1. WorkingOn(s) = {setter[s]}
      BY <2>1, <2>3
    <3>2. Cardinality({setter[s]}) = 1
      BY FS_Singleton
    <3> QED
      BY <3>1, <3>2
  <2> QED
    BY <2>2, <2>3
<1> QED
  BY <1>1, TypeCorrect, SingleInit, SingleStep, PTL DEF Spec

\* Under the same exclusion the resolution file never mixes the results of two
\* jobs, so marshalResolutionResult meets no block index twice.
THEOREM StoreHasOneSource ==
  ASSUME SingleWorker
  PROVE  Spec => []StoreFromOneJob
<1>1. SingleInv => StoreFromOneJob
  BY DEF SingleInv, Stored, OneSource, StoreFromOneJob
<1> QED
  BY <1>1, TypeCorrect, SingleInit, SingleStep, PTL DEF Spec

\* getFileResolution reads the sign before the resolution file: an answer of
\* /resolve that is not pending, about a guarded scenario, carries everything
\* the last finished job wrote.
THEOREM AnswersAreComplete ==
  ASSUME SingleWorker
  PROVE  Spec => FinishedAnswerIsComplete
<1> DEFINE Complete ==
      \A w \in Workers :
        (/\ worker[w].at \in {"exists", "read"} /\ worker'[w].at = "idle"
         /\ answer'.ok /\ ~answer'.pending
         /\ Guarded(worker[w].ms))
        => answer'.data = final[worker[w].ms]
<1>1. ASSUME TypeOK, SingleInv, [Next]_vars PROVE [Complete]_vars
  <2> SUFFICES ASSUME NEW w \in Workers, Next,
                      worker[w].at \in {"exists", "read"}, worker'[w].at = "idle",
                      answer'.ok, ~answer'.pending,
                      Guarded(worker[w].ms)
               PROVE  answer'.data = final[worker[w].ms]
    BY <1>1
  <2>t. ThreadsTyped /\ worker[w].ms \in Scenarios
    BY <1>1, WorkerFacts DEF TypeOK
  <2>n. ~Crash
    BY ErrorResponse DEF Crash, NoAnswer
  <2>1. getFileResolution(w) \/ FindResolution(w)
    <3>1. ASSUME NEW v \in Workers, WorkerStep(v) \/ Request(v)
          PROVE  getFileResolution(w) \/ FindResolution(w)
      <4>1. v = w
        BY <3>1 DEF SingleWorker
      <4> QED
        BY <3>1, <4>1, <2>n DEF WorkerStep, Request, At, ManifestUnreadable,
             checkAndAddProjectMetadata, checkAndAddMSMetadata, WriteManifest,
             MetadataFails, setRunningSign, goResolve, doResolution, ReadPending, OpenFails,
             PostRejected, PostMergeScenario, GetFileResolution, GetRejected
    <3>2. ASSUME NEW j \in Jobs, JobStep(j) PROVE FALSE
      <4>1. worker' = worker
        BY <3>2 DEF JobStep, CleanResolutions, FindBase, prepareSource, StartChain,
                    ResolveBlocks, MergeGraphs, MarshalRead, OpenStore, WriteStore,
                    ReportLeft, UnlockScenario
      <4> QED
        BY <4>1
    <3>3. ASSUME NEW j \in Jobs, JobThrows(j) PROVE FALSE
      BY <3>3, <2>n DEF JobThrows
    <3>4. ~InitMergebot
      BY DEF InitMergebot, threads
    <3> QED
      BY <3>1, <3>2, <3>3, <3>4 DEF Next
  <2>2. /\ up /\ store[worker[w].ms].st # "torn"
        /\ answer'.data = store[worker[w].ms].data /\ answer'.pending = worker[w].pend
    <3>1. CASE getFileResolution(w)
      <4>1. ~Finish(w, "S0000")
        BY ErrorResponse DEF Finish
      <4> QED
        BY <3>1, <4>1 DEF getFileResolution, At, Answer
    <3>2. CASE FindResolution(w)
      <4>1. worker'[w].at # "read"
        OBVIOUS
      <4>2. ~Goto(w, "read")
        BY <4>1, <2>t, GotoFacts
      <4>3. store[worker[w].ms].st = "absent" /\ Answer(w, {}) /\ up
        BY <3>2, <4>2 DEF FindResolution, At
      <4>4. store[worker[w].ms].data = {}
        BY <1>1, <4>3, <2>t DEF SingleInv, TornIsEmpty
      <4> QED
        BY <4>3, <4>4 DEF Answer
    <3> QED
      BY <2>1, <3>1, <3>2
  <2>3. NobodyOn(worker[w].ms)
    BY <1>1, <2>2, <2>t DEF SingleInv, Owned
  <2> QED
    BY <1>1, <2>2, <2>3, <2>t DEF SingleInv, Stored
<1> HIDE DEF Complete
<1>2. [][Complete]_vars => FinishedAnswerIsComplete
  BY DEF Complete, FinishedAnswerIsComplete
<1> QED
  BY <1>1, <1>2, TypeCorrect, SingleInit, SingleStep, PTL DEF Spec

=============================================================================
