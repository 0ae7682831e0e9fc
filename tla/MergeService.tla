----------------------------- MODULE MergeService -----------------------------
(***************************************************************************)
(* The merge-scenario service: the Crow request handlers for POST /ms and  *)
(* POST /resolve, the project manifest they share, the per-scenario        *)
(* `running` file that is meant to keep two resolution jobs off the same   *)
(* merge scenario, the detached job threads, and the resolution file the   *)
(* jobs write and /resolve reads.  A crash of the process and the start-up *)
(* that wipes the cache directory are included.                            *)
(*                                                                         *)
(* One manifest file stands for all projects whose checksums share their   *)
(* first two digits, and one resolution file for each merge scenario.      *)
(***************************************************************************)
EXTENDS Naturals, FiniteSets

CONSTANTS
  Workers,     \* Crow worker threads (one with the default `run()`)
  Projects,    \* projects recorded in the manifest
  Scenarios,   \* merge scenarios, each in the cache directory of its project
  ProjectOf,   \* [Scenarios -> Projects]
  Blocks,      \* conflict blocks a scenario can contain
  MaxJobs,     \* bound: jobs started since the last start-up
  MaxFaults,   \* bound: failed system calls and uncaught exceptions
  None

Jobs == 1..MaxJobs

\* The handler chain: 1 style based, 2 AST based, 3 LLVM based, 4 text based.
LastHandler == 4
Handlers == 1..LastHandler
Sides == {"base", "ours", "theirs"}

ASSUME ServiceAssumption ==
  /\ MaxJobs \in Nat
  /\ MaxFaults \in Nat
  /\ ProjectOf \in [Scenarios -> Projects]
  /\ Projects \cap Scenarios = {}
  /\ None \notin Workers \cup Scenarios \cup Jobs
  /\ Workers \cap Jobs = {}

VARIABLES
  up,          \* the server process is running
  manifest,    \* manifest file: [st, entries]
  dirs,        \* scenarios whose cache directory exists
  sources,     \* scenarios with a conflicts/conflict-sources.txt
  sign,        \* scenarios whose `running` file exists
  store,       \* resolution file of each scenario: [st, gen, data]
  peek,        \* the worker that holds peekMutex
  worker,      \* request state of each worker thread
  answer,      \* the last response the service sent
  job,         \* state of each detached job thread
  faults,      \* faults taken so far
  \* history, read by no action of the service:
  registered,  \* entries whose manifest write succeeded
  setter,      \* who created the `running` file now on disk
  leaked,      \* scenarios whose POST left goResolve by an exit that forgets the sign
  stolen,      \* scenarios whose sign was removed by someone else's code
  unguarded,   \* scenarios resolved although their metadata step failed
  final        \* blocks resolved by the job that last finished its chain

files == <<manifest, dirs, sources, sign, store>>
threads == <<peek, worker, answer, job>>
history == <<registered, setter, leaked, stolen, unguarded, final>>
vars == <<up, files, threads, faults, history>>

-----------------------------------------------------------------------------
(* State of the threads. *)

PostAt == {"project", "projectWrite", "scenario", "scenarioWrite", "go",
           "collect", "spawn"}
WorkerAt == PostAt \cup {"idle", "pending", "exists", "read"}
Entries == Projects \cup Scenarios

Idle == [at |-> "idle", ms |-> None, files |-> FALSE, copy |-> {}, pend |-> FALSE]

\* Of a response's code only success is kept: no client of the model reads the rest.
Response(code) == [ok |-> code = "00000", pending |-> FALSE, data |-> {}]
NoAnswer == Response("none")

\* A job works until its handler chain is over; then it only cleans up.
Working == {"clean", "copy", "prepare", "handle", "marshal", "open", "write"}
JobAt == Working \cup {"none", "report", "unlock", "done"}
Fresh(st, s) == [st |-> st, ms |-> s, todo |-> {}, h |-> 1, left |-> {},
                 buf |-> {}, gen |-> 0, done |-> {}]
NoJob == Fresh("none", None)

Live(j) == job[j].st \notin {"none", "done"}
WorkingOn(s) == {j \in Jobs : job[j].st \in Working /\ job[j].ms = s}

\* Who removes the sign matters to the history only: `running` names nobody.
RemoveSign(s, who) ==
  /\ sign' = sign \ {s}
  /\ stolen' = IF s \in sign /\ setter[s] # who THEN stolen \cup {s} ELSE stolen

-----------------------------------------------------------------------------
(* POST /ms *)

At(w, place) == up /\ worker[w].at = place
Goto(w, place) == worker' = [worker EXCEPT ![w] = [@ EXCEPT !.at = place]]
Finish(w, code) ==
  /\ worker' = [worker EXCEPT ![w] = Idle]
  /\ answer' = Response(code)

\* Bound: a POST is accepted by the model only if its job has a slot.
SlotFree == Cardinality({w \in Workers : worker[w].at \in PostAt})
              + Cardinality({j \in Jobs : job[j].st # "none"}) < MaxJobs

\* doPostMergeScenario up to handleMergeScenario: the request is validated
\* (body, path, git repository, revisions, files); a bad one changes nothing.
PostMergeScenario(w, s, hasFiles) ==
  /\ At(w, "idle")
  /\ SlotFree
  /\ worker' = [worker EXCEPT ![w] =
                  [Idle EXCEPT !.at = "project", !.ms = s, !.files = hasFiles]]
  /\ answer' = NoAnswer
  /\ UNCHANGED <<up, files, peek, job, faults, history>>

PostRejected(w) ==
  /\ At(w, "idle")
  /\ Finish(w, "C1000")
  /\ UNCHANGED <<up, files, peek, job, faults, history>>

\* json::parse throws on a manifest that a failed write left torn; the
\* lock_guard unwinds and ExceptionHandlerAspect answers S0000.
ManifestUnreadable(w, place) ==
  /\ At(w, place)
  /\ peek = None
  /\ manifest.st = "torn"
  /\ Finish(w, "S0000")
  /\ UNCHANGED <<up, files, peek, job, faults, history>>

\* Seeded fault: peekMutex covers the read only; the file is truncated later.
BeginManifestWriteUnlocked(w, entry, place) ==
  /\ UNCHANGED <<peek, manifest>>
  /\ worker' = [worker EXCEPT ![w] =
                  [@ EXCEPT !.copy = manifest.entries \cup {entry}, !.at = place]]

\* lockWRFD opens the manifest with O_TRUNC; peekMutex stays held.
BeginManifestWrite(w, entry, place) ==
  /\ peek' = w
  /\ manifest' = [manifest EXCEPT !.st = "torn"]
  /\ worker' = [worker EXCEPT ![w] =
                  [@ EXCEPT !.copy = manifest.entries \cup {entry}, !.at = place]]

\* checkAndAddProjectMetadata: the project is already recorded, or the worker
\* holds peekMutex and truncates the manifest to write it.
checkAndAddProjectMetadata(w) ==
  LET p == ProjectOf[worker[w].ms]
      known == manifest.st = "ok" /\ p \in manifest.entries
  IN
  /\ At(w, "project")
  /\ peek = None
  /\ manifest.st # "torn"
  /\ \/ known /\ Goto(w, "scenario") /\ UNCHANGED <<manifest, peek>>
     \/ ~known /\ BeginManifestWrite(w, p, "projectWrite")
  /\ UNCHANGED <<up, dirs, sources, sign, store, answer, job, faults, history>>

\* Seeded fault: a `running` file is not noticed.
SignUnseen(s) == FALSE

SignExists(s) == s \in sign

\* checkAndAddMSMetadata: a recorded scenario is refused while its sign is
\* there; an unrecorded one gets its directory and its manifest entry.
checkAndAddMSMetadata(w) ==
  LET s == worker[w].ms IN
  /\ At(w, "scenario")
  /\ peek = None
  /\ manifest.st = "ok"
  /\ \/ /\ s \in manifest.entries /\ SignExists(s)
        /\ Finish(w, "C1000")
        /\ UNCHANGED <<manifest, dirs, peek>>
     \/ /\ s \in manifest.entries /\ ~SignExists(s)
        /\ Goto(w, "go")
        /\ UNCHANGED <<manifest, dirs, peek, answer>>
     \/ /\ s \notin manifest.entries
        /\ dirs' = dirs \cup {s}
        /\ BeginManifestWrite(w, s, "scenarioWrite")
        /\ UNCHANGED answer
  /\ UNCHANGED <<up, sources, sign, store, job, faults, history>>

\* Seeded fault: the mutex is not released.
KeepPeekMutex(w) == UNCHANGED peek

\* The destructor of the lock_guard.
ReleasePeekMutex(w) == peek' = None

\* The entry a worker is about to write: the project first, then the scenario.
NewEntry(w) ==
  IF worker[w].at = "projectWrite" THEN ProjectOf[worker[w].ms] ELSE worker[w].ms

\* The write of the list read under the mutex; peekMutex is released.
WriteManifest(w) ==
  /\ up /\ worker[w].at \in {"projectWrite", "scenarioWrite"}
  /\ ReleasePeekMutex(w)
  /\ manifest' = [st |-> "ok", entries |-> worker[w].copy]
  /\ registered' = registered \cup {NewEntry(w)}
  /\ Goto(w, IF worker[w].at = "projectWrite" THEN "scenario" ELSE "go")
  /\ UNCHANGED <<up, dirs, sources, sign, store, answer, job, faults,
                 setter, leaked, stolen, unguarded, final>>

\* A failed open or write makes the metadata functions return false.
\* handleMergeScenario only logs that, and goes on to goResolve.
MetadataFails(w) ==
  /\ faults < MaxFaults
  /\ faults' = faults + 1
  /\ up
  /\ \/ /\ worker[w].at \in {"projectWrite", "scenarioWrite"}  \* write: file stays torn
        /\ ReleasePeekMutex(w)
        /\ UNCHANGED dirs
     \/ /\ worker[w].at \in {"project", "scenario"}             \* open
        /\ peek = None
        /\ dirs' \in IF worker[w].at = "scenario" /\ manifest.st = "ok"
                        /\ worker[w].ms \notin manifest.entries
                       THEN {dirs, dirs \cup {worker[w].ms}} ELSE {dirs}
        /\ UNCHANGED peek
  /\ Goto(w, "go")
  /\ unguarded' = unguarded \cup {worker[w].ms}
  /\ UNCHANGED <<up, manifest, sources, sign, store, answer, job,
                 registered, setter, leaked, stolen, final>>

\* setRunningSign: the file cannot be created in a directory that is missing.
setRunningSign(w) ==
  LET s == worker[w].ms IN
  /\ At(w, "go")
  /\ IF s \in dirs
       THEN sign' = sign \cup {s} /\ setter' = [setter EXCEPT ![s] = w]
       ELSE UNCHANGED <<sign, setter>>
  /\ Goto(w, "collect")
  /\ UNCHANGED <<up, manifest, dirs, sources, store, peek, answer, job,
                 faults, registered, leaked, stolen, unguarded, final>>

\* Seeded fault: an error exit of goResolve keeps the sign.
AbandonWithSign(w, code) == Finish(w, code) /\ UNCHANGED <<sign, stolen>>

\* The error exits of goResolve that clean up: removeRunningSign, then throw.
Abandon(w, code) == RemoveSign(worker[w].ms, w) /\ Finish(w, code)

\* An exception that nobody between here and ExceptionHandlerAspect catches: the
\* sign stays.
LeaveSign(w, code) ==
  /\ Finish(w, code)
  /\ leaked' = leaked \cup {worker[w].ms}
  /\ UNCHANGED <<sign, stolen>>

\* writeConflictFiles.  create_directories may throw; that the list cannot be
\* opened or written is ignored, and leaves the old list or an empty one.
writeConflictFiles(w) ==
  LET s == worker[w].ms IN
  \/ /\ sources' = sources \cup {s}
     /\ dirs' = dirs \cup {s}
     /\ Goto(w, "spawn")
     /\ UNCHANGED <<sign, leaked, stolen, answer, faults>>
  \/ /\ faults < MaxFaults
     /\ faults' = faults + 1
     /\ \/ /\ dirs' \in {dirs, dirs \cup {s}}
           /\ LeaveSign(w, "S0000")
           /\ UNCHANGED sources
        \/ /\ sources' \in {sources, sources \ {s}}
           /\ dirs' = dirs \cup {s}
           /\ Goto(w, "spawn")
           /\ UNCHANGED <<sign, leaked, stolen, answer>>

\* goResolve collects the conflicting files.  The failed `git diff` throws
\* out of handleServerExecError with the sign in place.
goResolve(w) ==
  /\ At(w, "collect")
  /\ \/ /\ ~worker[w].files
        /\ LeaveSign(w, "S1000")
        /\ UNCHANGED <<dirs, sources, faults>>
     \/ /\ Abandon(w, "U1000")    \* no conflicting file, or none in C or C++
        /\ UNCHANGED <<dirs, sources, leaked, faults>>
     \/ writeConflictFiles(w)
  /\ UNCHANGED <<up, manifest, store, peek, job, registered, setter,
                 unguarded, final>>

\* doResolution detaches the job thread; a failing thread constructor removes
\* the sign and is rethrown.
doResolution(w) ==
  LET s == worker[w].ms IN
  /\ At(w, "spawn")
  /\ \/ \E j \in Jobs :
          /\ job[j].st = "none"
          /\ \A k \in Jobs : k < j => job[k].st # "none"
          /\ job' = [job EXCEPT ![j] = Fresh("clean", s)]
          /\ setter' = IF setter[s] = w THEN [setter EXCEPT ![s] = j] ELSE setter
          /\ Finish(w, "00000")
          /\ UNCHANGED <<sign, stolen, faults>>
     \/ /\ faults < MaxFaults
        /\ faults' = faults + 1
        /\ Abandon(w, "S0000")
        /\ UNCHANGED <<job, setter>>
  /\ UNCHANGED <<up, manifest, dirs, sources, store, peek, registered,
                 leaked, unguarded, final>>

-----------------------------------------------------------------------------
(* POST /resolve *)

\* checkMSMetadata reads the manifest without peekMutex, checkConflictFile
\* the list of conflicting sources.
Resolvable(s) == manifest.st = "ok" /\ s \in manifest.entries /\ s \in dirs /\ s \in sources

GetFileResolution(w, s) ==
  /\ At(w, "idle")
  /\ Resolvable(s)
  /\ worker' = [worker EXCEPT ![w] = [Idle EXCEPT !.at = "pending", !.ms = s]]
  /\ answer' = NoAnswer
  /\ UNCHANGED <<up, files, peek, job, faults, history>>

GetRejected(w, s) ==
  /\ At(w, "idle")
  /\ \/ manifest.st = "torn" /\ Finish(w, "S0000")
     \/ manifest.st # "torn" /\ ~Resolvable(s) /\ Finish(w, "C1000")
     \/ Finish(w, "S1000")       \* the manifest cannot be opened
  /\ UNCHANGED <<up, files, peek, job, faults, history>>

\* getFileResolution reads the sign first ...
ReadPending(w) ==
  /\ At(w, "pending")
  /\ worker' = [worker EXCEPT ![w] =
                  [@ EXCEPT !.at = "exists", !.pend = worker[w].ms \in sign]]
  /\ UNCHANGED <<up, files, peek, answer, job, faults, history>>

Answer(w, data) ==
  /\ worker' = [worker EXCEPT ![w] = Idle]
  /\ answer' = [ok |-> TRUE, pending |-> worker[w].pend, data |-> data]

\* ... then whether there is a resolution file ...
FindResolution(w) ==
  LET s == worker[w].ms IN
  /\ At(w, "exists")
  /\ \/ store[s].st = "absent" /\ Answer(w, {})
     \/ store[s].st # "absent" /\ Goto(w, "read") /\ UNCHANGED answer
  /\ UNCHANGED <<up, files, peek, job, faults, history>>

\* ... and that file.  The merged sources it also sends are left out.
getFileResolution(w) ==
  LET s == worker[w].ms IN
  /\ At(w, "read")
  /\ \/ store[s].st = "torn" /\ Finish(w, "S0000")
     \/ store[s].st = "ok" /\ Answer(w, store[s].data)
  /\ UNCHANGED <<up, files, peek, job, faults, history>>

\* The process ends, and its threads with it.
Crash ==
  /\ up' = FALSE
  /\ peek' = None
  /\ worker' = [w \in Workers |-> Idle]
  /\ answer' = NoAnswer
  /\ job' = [k \in Jobs |-> NoJob]
  /\ UNCHANGED <<files, history>>

\* A job has removed the file meanwhile, or it cannot be opened: the error is
\* logged, fdopen(-1) gives a null pointer, and fclose of it ends the process.
OpenFails(w) ==
  /\ At(w, "read")
  /\ \/ store[worker[w].ms].st = "absent" /\ UNCHANGED faults
     \/ faults < MaxFaults /\ faults' = faults + 1
  /\ Crash

-----------------------------------------------------------------------------
(* The detached job: ResolutionManager::_doResolutionAsync. *)

In(j, place) == up /\ job[j].st = place
Results(j, blocks) == {<<j, b>> : b \in blocks}

\* Seeded fault: an existing resolutions directory is kept.
Kept(file) == [file EXCEPT !.gen = @ + 1]

\* The resolution file after remove_all and create_directories.
Removed(file) == [st |-> "absent", gen |-> file.gen + 1, data |-> {}]

\* Remove and recreate the resolutions directory.  `gen` is the identity of
\* the file: a job that still holds the removed one writes to nowhere.
CleanResolutions(j) ==
  LET s == job[j].ms IN
  /\ In(j, "clean")
  /\ store' = [store EXCEPT ![s] = Removed(@)]
  /\ job' = [job EXCEPT ![j] = [@ EXCEPT !.st = "copy"]]
  /\ UNCHANGED <<up, manifest, dirs, sources, sign, peek, worker, answer,
                 faults, history>>

\* copyConflicts, then `git merge-base`: without a 40 digit hash the base
\* version is not prepared.  The error value read after a failed command is
\* either not a hash or ends the process (JobThrows).
FindBase(j) ==
  /\ In(j, "copy")
  /\ \E todo \in {Sides, Sides \ {"base"}} :
       job' = [job EXCEPT ![j] = [@ EXCEPT !.st = "prepare", !.todo = todo]]
  /\ UNCHANGED <<up, files, peek, worker, answer, faults, history>>

\* The tasks of the tbb::task_group run in any order.
prepareSource(j, side) ==
  /\ In(j, "prepare")
  /\ side \in job[j].todo
  /\ job' = [job EXCEPT ![j] = [@ EXCEPT !.todo = job[j].todo \ {side}]]
  /\ UNCHANGED <<up, files, peek, worker, answer, faults, history>>

\* Seeded fault: off by one at the end of the chain.
FollowingPastLast(r) ==
  IF r.left = {} THEN [r EXCEPT !.st = "unlock", !.buf = {}]
  ELSE IF r.h <= LastHandler THEN [r EXCEPT !.st = "handle", !.h = @ + 1, !.buf = {}]
  ELSE [r EXCEPT !.st = "report", !.buf = {}]

\* SAHandler::handle after resolveConflictFiles: all resolved, next handler,
\* or the last handler's report.
Following(r) ==
  IF r.left = {} THEN [r EXCEPT !.st = "unlock", !.buf = {}]
  ELSE IF r.h < LastHandler THEN [r EXCEPT !.st = "handle", !.h = @ + 1, !.buf = {}]
  ELSE [r EXCEPT !.st = "report", !.buf = {}]

\* History: what the finished chain has written.
Step(j, r) ==
  /\ job' = [job EXCEPT ![j] = r]
  /\ final' = IF r.st \in {"report", "unlock"}
                THEN [final EXCEPT ![r.ms] = r.done] ELSE final

\* TG.wait, then the HandlerChain constructor reads the conflict blocks and
\* handle() starts the chain unless there are none.
StartChain(j) ==
  /\ In(j, "prepare")
  /\ job[j].todo = {}
  /\ \E blocks \in SUBSET Blocks :
       Step(j, [job[j] EXCEPT !.left = blocks,
                              !.st = IF blocks = {} THEN "unlock" ELSE "handle"])
  /\ UNCHANGED <<up, files, peek, worker, answer, faults, registered, setter,
                 leaked, stolen, unguarded>>

\* The style and the text based handler resolve some of the blocks left.
ResolveBlocks(j) ==
  /\ In(j, "handle")
  /\ job[j].h \in {1, LastHandler}
  /\ \E blocks \in SUBSET job[j].left :
       LET r == [job[j] EXCEPT !.left = @ \ blocks, !.buf = Results(j, blocks)]
       IN Step(j, IF blocks = {} THEN Following(r) ELSE [r EXCEPT !.st = "marshal"])
  /\ UNCHANGED <<up, files, peek, worker, answer, faults, registered, setter,
                 leaked, stolen, unguarded>>

\* The AST based handler resolves no block: it writes merged sources (see
\* GraphMerge), which only a client reads.  The LLVM based one does nothing.
MergeGraphs(j) ==
  /\ In(j, "handle")
  /\ job[j].h \in {2, 3}
  /\ Step(j, Following(job[j]))
  /\ UNCHANGED <<up, files, peek, worker, answer, faults, registered, setter,
                 leaked, stolen, unguarded>>

\* Seeded fault: the results of an earlier handler are overwritten.
MergeResultsOverwrites(file, results) == results

\* The results of earlier handlers are kept if the file parses.
MergeResults(file, results) == IF file.st = "ok" THEN results \cup file.data ELSE results

\* marshalResolutionResult reads what is there ...
MarshalRead(j) ==
  LET s == job[j].ms IN
  /\ In(j, "marshal")
  /\ job' = [job EXCEPT ![j] =
               [@ EXCEPT !.st = "open", !.buf = MergeResults(store[s], job[j].buf)]]
  /\ UNCHANGED <<up, files, peek, worker, answer, faults, history>>

\* ... file_overwrite_content_sync opens it with O_TRUNC ...
OpenStore(j) ==
  LET s == job[j].ms IN
  /\ In(j, "open")
  /\ \/ /\ store' = [store EXCEPT ![s] = [@ EXCEPT !.st = "torn", !.data = {}]]
        /\ Step(j, [job[j] EXCEPT !.st = "write", !.gen = store[s].gen])
        /\ UNCHANGED faults
     \/ /\ faults < MaxFaults
        /\ faults' = faults + 1
        /\ Step(j, Following(job[j]))
        /\ UNCHANGED store
  /\ UNCHANGED <<up, manifest, dirs, sources, sign, peek, worker, answer,
                 registered, setter, leaked, stolen, unguarded>>

\* ... and writes it.  The fcntl lock is per process and excludes no thread:
\* two overlapping writers may leave a mixture that does not parse.
WriteStore(j) ==
  LET s == job[j].ms
      mine == {e \in job[j].buf : e[1] = j}
  IN
  /\ In(j, "write")
  /\ \/ /\ IF job[j].gen # store[s].gen THEN UNCHANGED store
           ELSE \/ store' = [store EXCEPT ![s] = [@ EXCEPT !.st = "ok", !.data = job[j].buf]]
                \/ /\ store[s].st = "ok"
                   /\ store' = [store EXCEPT ![s] = [@ EXCEPT !.st = "torn", !.data = {}]]
        /\ Step(j, Following([job[j] EXCEPT !.done = @ \cup mine]))
        /\ UNCHANGED faults
     \/ /\ faults < MaxFaults
        /\ faults' = faults + 1
        /\ Step(j, Following(job[j]))
        /\ UNCHANGED store
  /\ UNCHANGED <<up, manifest, dirs, sources, sign, peek, worker, answer,
                 registered, setter, leaked, stolen, unguarded>>

\* The last handler of the chain reports the files left and removes the sign.
ReportLeft(j) ==
  /\ In(j, "report")
  /\ RemoveSign(job[j].ms, j)
  /\ job' = [job EXCEPT ![j] = [@ EXCEPT !.st = "unlock"]]
  /\ UNCHANGED <<up, manifest, dirs, sources, store, peek, worker, answer,
                 faults, registered, setter, leaked, unguarded, final>>

\* Seeded fault: the job ends without removing the sign.
UnlockScenarioForgets(j) ==
  /\ In(j, "unlock")
  /\ job' = [job EXCEPT ![j] = Fresh("done", job[j].ms)]
  /\ UNCHANGED <<up, files, peek, worker, answer, faults, history>>

\* writeResolveRatio, then the job removes the sign if it exists.
UnlockScenario(j) ==
  /\ In(j, "unlock")
  /\ RemoveSign(job[j].ms, j)
  /\ job' = [job EXCEPT ![j] = Fresh("done", job[j].ms)]
  /\ UNCHANGED <<up, manifest, dirs, sources, store, peek, worker, answer,
                 faults, registered, setter, leaked, unguarded, final>>

\* An exception nobody catches in the detached thread ends the process.
JobThrows(j) ==
  /\ up /\ Live(j)
  /\ faults < MaxFaults
  /\ faults' = faults + 1
  /\ Crash

-----------------------------------------------------------------------------
EmptyManifest == [st |-> "absent", entries |-> {}]
EmptyStore == [s \in Scenarios |-> [st |-> "absent", gen |-> 0, data |-> {}]]
NoSetter == [s \in Scenarios |-> None]
NothingFinal == [s \in Scenarios |-> {}]

\* main: InitMergebot leaves an empty cache directory, Crow starts its workers.
Init ==
  /\ up = TRUE
  /\ manifest = EmptyManifest
  /\ dirs = {} /\ sources = {} /\ sign = {}
  /\ store = EmptyStore
  /\ peek = None
  /\ worker = [w \in Workers |-> Idle]
  /\ answer = NoAnswer
  /\ job = [j \in Jobs |-> NoJob]
  /\ faults = 0
  /\ registered = {} /\ leaked = {} /\ stolen = {} /\ unguarded = {}
  /\ setter = NoSetter
  /\ final = NothingFinal

\* A new process: InitMergebot removes ~/.mergebot and everything in it.
InitMergebot ==
  /\ ~up
  /\ up' = TRUE
  /\ manifest' = EmptyManifest
  /\ dirs' = {} /\ sources' = {} /\ sign' = {}
  /\ store' = EmptyStore
  /\ registered' = {} /\ leaked' = {} /\ stolen' = {} /\ unguarded' = {}
  /\ setter' = NoSetter
  /\ final' = NothingFinal
  /\ UNCHANGED <<threads, faults>>

WorkerStep(w) ==
  \/ ManifestUnreadable(w, "project") \/ ManifestUnreadable(w, "scenario")
  \/ checkAndAddProjectMetadata(w) \/ checkAndAddMSMetadata(w) \/ WriteManifest(w)
  \/ MetadataFails(w) \/ setRunningSign(w) \/ goResolve(w) \/ doResolution(w)
  \/ ReadPending(w) \/ FindResolution(w) \/ getFileResolution(w) \/ OpenFails(w)

Request(w) ==
  \/ PostRejected(w)
  \/ \E s \in Scenarios :
       \/ \E hasFiles \in BOOLEAN : PostMergeScenario(w, s, hasFiles)
       \/ GetFileResolution(w, s) \/ GetRejected(w, s)

JobStep(j) ==
  \/ CleanResolutions(j) \/ FindBase(j) \/ (\E side \in Sides : prepareSource(j, side))
  \/ StartChain(j) \/ ResolveBlocks(j) \/ MergeGraphs(j) \/ MarshalRead(j)
  \/ OpenStore(j) \/ WriteStore(j) \/ ReportLeft(j) \/ UnlockScenario(j)

Next ==
  \/ \E w \in Workers : WorkerStep(w) \/ Request(w)
  \/ \E j \in Jobs : JobStep(j) \/ JobThrows(j)
  \/ InitMergebot

Spec == Init /\ [][Next]_vars

\* Threads that can run do run; nothing obliges clients to send requests, or
\* the process to be restarted.
Fairness ==
  /\ \A w \in Workers : WF_vars(WorkerStep(w))
  /\ \A j \in Jobs : WF_vars(JobStep(j))

FairSpec == Spec /\ Fairness
-----------------------------------------------------------------------------
(* Properties *)

\* A worker or job that is under way knows its merge scenario.
WorkerRec ==
  {r \in [at : WorkerAt, ms : Scenarios \cup {None}, files : BOOLEAN,
          copy : SUBSET Entries, pend : BOOLEAN] : r.at # "idle" => r.ms \in Scenarios}
AnswerRec == [ok : BOOLEAN, pending : BOOLEAN, data : SUBSET (Jobs \X Blocks)]
JobRec ==
  {r \in [st : JobAt, ms : Scenarios \cup {None}, todo : SUBSET Sides,
          h : Handlers, left : SUBSET Blocks, buf : SUBSET (Jobs \X Blocks),
          gen : Nat, done : SUBSET (Jobs \X Blocks)] : r.st # "none" => r.ms \in Scenarios}
StoreRec == [st : {"absent", "ok", "torn"}, gen : Nat, data : SUBSET (Jobs \X Blocks)]

FilesTyped ==
  /\ manifest \in [st : {"absent", "ok", "torn"}, entries : SUBSET Entries]
  /\ dirs \in SUBSET Scenarios
  /\ sources \in SUBSET Scenarios
  /\ sign \in SUBSET Scenarios
  /\ store \in [Scenarios -> StoreRec]

ThreadsTyped ==
  /\ up \in BOOLEAN
  /\ peek \in Workers \cup {None}
  /\ worker \in [Workers -> WorkerRec]
  /\ answer \in AnswerRec
  /\ job \in [Jobs -> JobRec]
  /\ faults \in 0..MaxFaults

HistoryTyped ==
  /\ registered \in SUBSET Entries
  /\ setter \in [Scenarios -> Workers \cup Jobs \cup {None}]
  /\ leaked \in SUBSET Scenarios
  /\ stolen \in SUBSET Scenarios
  /\ unguarded \in SUBSET Scenarios
  /\ final \in [Scenarios -> SUBSET (Jobs \X Blocks)]

\* Every variable has its type: no handler past the last one, no request or job
\* under way without a merge scenario.
TypeOK == FilesTyped /\ ThreadsTyped /\ HistoryTyped

\* A worker between setRunningSign and the end of goResolve for s.
Resolving(s) == {w \in Workers : worker[w].at \in {"collect", "spawn"} /\ worker[w].ms = s}

\* A `running` file on disk is somebody's to remove: of the request that is
\* inside goResolve, of a job that has not ended, or of nobody since goResolve was
\* left by an exception nobody there catches: the git command failed, or
\* writeConflictFiles could not create its directory.
SignAccounted ==
  \A s \in sign :
    \/ ~up
    \/ Resolving(s) # {}
    \/ \E j \in Jobs : Live(j) /\ job[j].ms = s
    \/ s \in leaked

\* The comment above the call of setRunningSign in goResolve: every way out of
\* the control flow removes the sign (or hands it to the job).
NoOrphanSign ==
  \A s \in sign :
    \/ ~up
    \/ Resolving(s) # {}
    \/ \E j \in Jobs : Live(j) /\ job[j].ms = s

\* Read-modify-write of the manifest under peekMutex loses no entry: whenever
\* the file is readable it lists every project and scenario ever recorded.
RegistrationsKept == manifest.st = "ok" => registered \subseteq manifest.entries

\* The scenario's exclusion by the `running` file is still intact.
Guarded(s) == s \notin stolen \cup unguarded

\* With one worker thread, two jobs work on one merge scenario only after a
\* job's last clean-up deleted a `running` file that was not its own, or after
\* handleMergeScenario went on from a failed metadata step.
OverlapOnlyUnguarded ==
  \A s \in Scenarios : Guarded(s) => Cardinality(WorkingOn(s)) <= 1

\* The resolution file of a guarded scenario holds the results of one job, so
\* no block index twice (the overlap marshalResolutionResult logs as a fatal
\* logic error in debug builds).
StoreFromOneJob ==
  \A s \in Scenarios : Guarded(s) =>
    \A e, f \in store[s].data : e[1] = f[1]

\* /resolve reads the sign before the resolution file: for a guarded scenario,
\* an answer that is not pending carries all the last finished job wrote.
FinishedAnswerIsComplete ==
  [][\A w \in Workers :
       (/\ worker[w].at \in {"exists", "read"} /\ worker'[w].at = "idle"
        /\ answer'.ok /\ ~answer'.pending
        /\ Guarded(worker[w].ms))
       => answer'.data = final[worker[w].ms]]_vars

\* A scenario does not stay locked: unless its sign leaked (or the process
\* died) the `running` file is removed again.
SignReleased ==
  \A s \in Scenarios : (s \in sign) ~> (s \notin sign \/ s \in leaked \/ ~up)

\* Every request is answered unless the process ends.  No way out of a metadata
\* step (recorded, refused, written, not written, unparsable manifest) leaves
\* peekMutex held against the requests that follow; only an exception in a job
\* or a resolution file that cannot be opened takes the answer away.
RequestsAnswered ==
  \A w \in Workers : (worker[w].at # "idle") ~> (worker[w].at = "idle" \/ ~up)
=============================================================================
