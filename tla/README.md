# mergebot: models, checks and proofs

mergebot is a service that proposes resolutions for the merge conflicts of C
and C++ projects.  A client posts a merge scenario (a project and two
revisions); the service starts a detached job that runs a chain of handlers
over the conflicting files and leaves the proposals in a cache directory, from
where a second route serves them until a `pending` flag turns false.

This directory holds TLA+ modules of the service with its files and jobs, the
thread pool, the language-server client, the runner of child processes, the
handlers that resolve conflict blocks, and the three stages of the semantic
merge.  `PROJECT.json` maps every definition to the lines it models, lists the
runs, the seeded faults (`mutants`) that show each property can fail, the
hazards of the code and the theorems.  Paths below are relative to `src/`.

## 1. Inventory

| Part | Where | State it keeps | Operations |
|---|---|---|---|
| HTTP controllers | `src/controller/project_controller.cpp`, `resolve_controller.cpp`, `src/server.cpp` | manifest file shared by projects, one cache directory per scenario with `running` and `conflict-sources.txt`, `peekMutex` | POST /ms, POST /resolve |
| ResolutionManager | `src/core/ResolutionManager.cpp` | the detached job thread, `resolutions/`, `merged/`, source trees | clean, copy, merge-base, prepare three sides, run chain, clean up |
| Handler chain | `include/mergebot/core/handler/*`, `src/core/handler/*` | conflict files and the blocks left | style, AST, LLVM and text handler in turn; report; tidy up |
| Resolution store | `src/core/sa_utility.cpp`, `src/utils/fileio.cpp` | one JSON file per conflict file | read, merge, overwrite |
| Thread pool | `src/utils/ThreadPool.cpp` | ring of tasks, counters, mutex, condition variable | create, add, worker loop, destroy, free |
| Language-server client | `src/lsp/client.cpp`, `communicator.cpp`, `include/mergebot/lsp/client.h` | pipes to clangd, `eventDict`, `responseDict`, static request counter, receiving thread | call, notify, receive, shut down |
| Child-process runner | `src/core/sa_utility.cpp` (`ExecCommand`) | children of the process | popen, one poll with waitpid, read, pclose |
| Style and text handlers | `src/core/handler/StyleBasedHandler.cpp`, `TextBasedHandler.cpp` | conflict blocks, files under `conflicts/` | compare modulo layout; deletion, one-sided change, inclusion, list merge |
| Graph construction | `src/core/semantic/GraphBuilder.cpp`, `src/parser/utils.cpp` | a graph of nodes per revision, documents open in clangd | walk a syntax tree, keep comments and sections |
| Graph matching | `src/core/semantic/GraphMatcher.cpp`, `include/mergebot/core/model/*` | pairs of matched nodes, vectors of unmatched ones | by signature, then one matcher per kind |
| Graph merging and printing | `src/core/semantic/GraphMerger.cpp`, `pretty_printer.cpp` | the base graph, which becomes the merged one | merge texts, signatures, lists of children; print |
| Source collection | `src/core/semantic/SourceCollectorV2.cpp` | the set of sources of each side | list the files of the deltas |
| String helpers, dependency graph | `include/mergebot/utils/stringop.h` | none | list merging, topological sort, removal of comments |
| Git service, tree-sitter wrapper, containers, similarity | `src/utils`, `src/parser` | none of their own | calls of C libraries, pure functions |
| Web front end, conflict manager, husky, eva | `ui/`, `husky/`, `eva/` | programs of their own | |

How they interact.  A Crow worker thread runs a controller from start to end.
POST /ms records project and scenario in a manifest, creates the `running`
file and hands the scenario to ResolutionManager, which detaches a thread and
returns; from there on the controllers and the job communicate only through
files.  The job runs the chain; the AST handler builds three graphs in parallel
(`tbb::parallel_invoke`), each builder with a clangd process of its own reached
through a pair of pipes, a receiving thread and condition variables.  Handlers
write results through the resolution store.  Whoever ends the chain removes the
`running` file; POST /resolve reports `pending` from its existence.

What is hard, and what correctness means there:

* *Exclusion by a file.*  The `running` file has no owner.  It must be removed
  on every path, by the job that created it, and only when that job is over.
* *Read-modify-write of the manifest*, with failing system calls in between.
* *Crash and restart.*  An exception in a detached thread ends the process; the
  next start must not trust what it left.
* *Readers and writers of one result file*, which is truncated, then written.
* *Wake-ups and shutdown of the pool*: no accepted task is lost, destroy ends.
* *Answers that are late, missing or early* in the language-server client, on a
  byte stream that may be cut anywhere; destructors that wait for threads and
  processes.
* *Children of one process reaped by many threads.*
* *A pipeline of passes over the same blocks* that must neither drop nor repeat
  one, and whose later passes read files an earlier one may have left.
* *Text that must not vanish*: everything a developer wrote passes through a
  graph whose identity is a hash of names that the merge itself changes, with
  containers that are erased from while they are iterated.

The full list, with lines, is under `hazards` in `PROJECT.json`.

## 2. Plan

Done: `MergeService`; `ThreadPool` with the abstract `TaskQueue`; `LspPipe` and
`LspEndpoint` (`LspEndpoint.RecvFails` is the bad outcome that `LspPipe`
explains); `CommandRunner`; `BlockHandlers`, the inside of the steps
`MergeService.ResolveBlocks` and `MarshalRead`; `SemanticNode`, `GraphBuild`,
`GraphMatch`, `GraphMerge`, the inside of `MergeService.MergeGraphs`.

The order was: the service and its files first, then the concurrent parts below
it, then the passes over the blocks and the graphs, and last the proofs.  What is
left open is the merge of the graphs for graphs of any size (section 6).

## 3. Modules and the code

### MergeService

State.  Files: `manifest` (with the torn state between `O_TRUNC` and the
write), `dirs`, `sources`, `sign` (scenarios with a `running` file), `store`
(resolution file, with its identity `gen` so that a job that holds a removed
file writes nowhere).  Threads: `peek` (peekMutex), `worker`, `job`,
`answer`.  The rest is history: no action reads it except to update it.

Actions.  POST /ms is cut at the points where another thread can see a
difference: `PostMergeScenario`, `checkAndAddProjectMetadata`,
`checkAndAddMSMetadata`, `WriteManifest`, `MetadataFails`, `setRunningSign`,
`goResolve` (with `writeConflictFiles`, which may throw or fail unnoticed),
`doResolution`, with `PostRejected` and `ManifestUnreadable` for the early ends.
POST /resolve reads the running file (`ReadPending`), looks for the results
(`FindResolution`) and opens them (`getFileResolution`); if they are gone by then,
or cannot be opened, the process ends (`OpenFails`).  The job runs `CleanResolutions`,
`FindBase`, `prepareSource` for each side, `StartChain`, then for each handler
`ResolveBlocks` or `MergeGraphs` and `MarshalRead`, `OpenStore`, `WriteStore`,
and at the end `ReportLeft` and `UnlockScenario`.  `JobThrows` is an uncaught
exception, which ends the process as well (`Crash`); `InitMergebot` is the next
start, which wipes the cache directory.

Abstractions.  A scenario has one resolution file; blocks are numbers; which
blocks a handler resolves is arbitrary; paths, hashes and JSON are left out;
`MaxJobs` and `MaxFaults` bound jobs and failures.  Crow is started by `run()`
with its default, one worker thread; two are used where the question is whether
`peekMutex` does its work.

### ThreadPool and TaskQueue

Each use of the pool's mutex is one action: `threadpool_add`,
`threadpool_thread` (one turn of the loop: wait, leave or take), `TaskReturns`,
`threadpool_destroy`, `JoinAll`, `threadpool_free`; `CreateThread` and
`CreateFails` are threadpool_create.  `SpuriousWakeup` is what
pthread_cond_wait may do.  `lock` is explicit only because one path leaves the
mutex locked and `threadpool_free` destroys it.  `TaskQueue` is what callers may
rely on: a bounded first-in first-out queue with two ways to close it; the
refinement reads the ring from `head` over `count` slots.

### LspPipe

One clangd, its two pipes, the receiving thread in `RecvResponse` and a sender
in `SendRequest`, both under `rwMutex`.  The output of clangd is a numbered
stream of pieces, so "a message" is a position in it: two halves of the
Content-Length line, CR and LF of the blank line, and the content.  `LockLine`,
`ReadByte`, `EndOfLine`, `HeaderDropped` are readLine and the header loop;
`LockBody`, `ReadContent`, `ContentRetry`, `ContentDropped` are
readMessageContent with the two retry limits (6 and 3) of the code.  clangd
writes whole messages (`WriteMessage`) or single pieces (`WritePiece`).

### LspEndpoint

The builders of one merge, each with its endpoint, receiving thread and
clangd, over whole messages.  `LoadID` and `StoreID` are the two halves of the
unsynchronised `ID++`; `CallMethod` is the critical section from registration
to `wait_for`; `Timeout`, `SpuriousWakeup`, `Unregister` and `ReadResponse` the
rest of the call.  `OtherStoresID` is the store of a builder that is not followed
otherwise: it may have loaded any value the counter has had.  `setBack` records
that a store lowered the counter.  `LoopTop`, `RecvEmpty`, `RecvResponse`, `SendResponse`,
`handleResult`, `notify_one` are the receiving thread, `Stop`, `Exit`,
`JoinReceiver`, `ReapServer` the destructors.  clangd is external: it reads in
order, answers each call once, in any order, or never.  `call`, a builder's own
count of its calls, is in the messages only so that the properties can tell two
requests with the same number apart.

### CommandRunner

ExecCommand in several threads of one process.  `popen`, `waitpid`, `timedOut`,
`read` and `pclose` are the calls it makes; `ends` is a command (or a server)
that ends, `waitServer` the destructor of the language-server transport.  The
poll is one step because its loop never turns twice: a waitpid that finds no
ended child leaves `status` 0, which `WIFEXITED` takes for an exit.  `shared`
records whether another child could have been reaped during a call.

### BlockHandlers

A merge as git leaves it, in either conflict style, goes through the style
handler and the text handler (the AST handler between them resolves no block,
the LLVM handler does nothing).  `beginHandler` chooses `WithBase` and, for the
text handler, rewrites the files under `conflicts/` (`threeWayMerge`; for each file
the command may fail to run, which leaves the old file, or git may fail, whose
empty output is written); `resolveBlock` is one block, `finishFile` the results of a
file, `finishHandler` the shrinking of the list and the hand-over.  The
heuristics are operators that give the set of their possible results, empty if
they do not apply; `topologicalSort` is given by its in-degrees, as the code
computes them.  Code is a sequence of lines; the characters that are left of a line
without layout and comments (`Core`), its macro expansion and its kind for
tree-sitter are constants.  `removeCommentsAndSpaces` joins the first into one text,
and inclusion is a search in it (`Found`), across the ends of lines and words.  How the two
conflict styles show one and the same conflict is git's (`Diff3`, `Merge`).  The
list that a handler leaves (`tidyUpConflictFiles`) is given by the positions it
keeps, in their order (`Kept`).

### SemanticNode, GraphBuild, GraphMatch, GraphMerge

`SemanticNode` has the hash signature of every kind of node, as a tuple of what
the code hashes; equality of nodes is equality of signatures everywhere.  What
stands behind the parameters of a function, and the `= default` of a special
member, are part of it and are overwritten by the merge, as names are.

`GraphBuild` walks a syntax tree with the stack of calls of
`parseCompositeNode`: `AddTextual`, `AddMember`, `AddComment`, `AddAccess`,
`OpenComposite`, `SkipUnhandled` are its branches, `CloseComposite` the return;
`OpenFile`, `ParseFails`, `parseTranslationUnit`, `CloseFile` the rest of a
file.  An item of the tree is its shape and its distance from the item before
it; `rep` counts the places of the graph that hold its text.

`GraphMatch` runs the top-down match and the eight matchers in turn.  A vector
of unmatched nodes is modelled with the memory behind its end, because the loops
erase from the vectors that bound them: `Compare` is one iteration of a nested
loop, `Visit` one of a loop over Boost's mates.  Similarity and the mates are
arbitrary.  A match is kept in a Boost bimap, which ignores a pair when either
signature is in it already (`Paired`): with several unmatched enums the loop can
erase a revision enum whose match was refused, which is then in neither list.

`GraphMerge` starts from any matching that `GraphMatch` can arrive at
(`Matchings`), merges the base graph in place, one child per step (`mergeChild`,
`returnChildren`), in our or their order, and prints.  The access labels of a
class are among the children, as in the code, but are no vertices (`Nodes`).  A look-up finds a node
only if the signature it has now is the one it was inserted with (`LeftOf`).
Texts are compared for equality; two different changes of one text become
libgit2's conflict.  Layout is left out.

## 4. Runs

Every passing run has, for each of its properties, a seeded fault in
`PROJECT.json` under which TLC finds that property violated.

| Run | Checks | Shows |
|---|---|---|
| `service_one_worker` | TypeOK, SignAccounted, StoreFromOneJob, OverlapOnlyUnguarded, FinishedAnswerIsComplete, SignReleased, RequestsAnswered | One worker, two jobs, two blocks, one fault anywhere (a failed call, an exception or a crash with restart): a running file always has somebody to remove it and goes away again on every early end of a request or a job, except after the two leaking exits of goResolve; two jobs overlap only after a file was removed by a job that does not own it, or after a metadata failure was ignored; while neither happened, results of two jobs never mix and an answer with `pending` false has all the last job wrote.  Every request is answered unless the process ends. |
| `service_two_workers` | RegistrationsKept | Two workers contend for `peekMutex`, with one fault anywhere: a readable manifest has every entry ever recorded. |
| `service_orphan_sign` | NoOrphanSign | *Violated*: a failing `git diff` leaves the file for ever. |
| `pool_safe` | TypeOK, RingConsistent, GracefulDrains, FreedPoolIsQuiet, IsTaskQueue, AcceptedRuns, DestroyOnceEnds | The pool implements the queue, loses no wake-up, drains on a graceful shutdown, is freed only when quiet, and a destroy that nobody repeats ends. |
| `lsp_pipe_pieces` | DeliveredInOrder, AllDelivered, SendEnds | However the stream is cut, nothing is delivered out of order, twice or after a gap; uncut messages are all delivered; a sender always gets `rwMutex`. |
| `lsp_one_builder` | NoLostNotify, AnswerBelongs, CallReturns, DestructorEnds | With late, missing and early answers, time limits, a spurious wake-up and a lost frame: no notification is lost, every call returns, the destructor ends, and a call returns its own answer or nothing, whatever other builders store into the counter, until a store sets it back. |
| `exec_threads` | AnswersOwnCommand, CallsReturn | An error code, "interrupted" and "no child" are about the call's own command unless another child could be reaped during the call; no call leaves a zombie; every call of a command that ends returns, even if its child was reaped by somebody else. |
| `blocks_all` | BlocksAccounted, DescribedIfAligned, MarksOnlyAfterBlocklessFile, BothSidesKept, ListsRefusedOnly | No block is lost or stored twice between the handlers; what a resolution says of a block is so wherever the file it looked the base up in is the right one; resolutions that claim both sides have the lines of both in order, or at least their text where the handlers compare text; why a list merge is refused, and when a base mark gets into a resolution. |
| `blocks_described` | DescriptionHolds | *Violated*: in the merge style a side is dropped as unchanged, or as deleted, when it is neither. |
| `build_walk` | LostOnly, TwiceOnly, DocumentsClosed | Exactly which text the walk drops and which it keeps twice; documents are closed again unless their file could not be parsed. |
| `match_all` | EachNodeOnce, SkippedOnlyAtTail, StaleSlotOnlyInEnums | Every node is matched once or still unmatched, never both (a revision enum that was erased and refused excepted, in a loop that is bound to read a moved-from slot); erasing from the vector that bounds a loop costs only pairs at its end; a moved-from slot is read only among enums. |
| `merge_all` | AdditionsKept, MembersOnce, ChangesKept, AdditionsInOrder, SectionsKept | What a side added is printed once, what both have is printed once and as changed, in order and in its section, with the exceptions the code has (see section 7). |

Bounds, and why they are enough for the question asked.  Two jobs are what an
overlap, a mixed result file or a stolen running file needs, and two blocks
what a lost result of an earlier handler needs; one fault can strike at every
step, with one worker and with two.  The manifest's race needs two workers.  That
every request is answered is asked of the one worker `run()` starts: a path that
keeps `peekMutex` stops its next request, and the open of a resolution file that
another job has just removed is among its steps.  The ring of two slots, three
tasks, two callers and two threads reaches full, empty and wrap-around, two
destroyers the repeated shutdown; `QueueSize` and `MaxThreads` are free in the
proofs.  In LspPipe three messages are one before, one at and one after a cut;
the pipe holds two; retry limits have their real values, pieces of content are
three so that the partial-read counter is reached.  In LspEndpoint two calls
and the `shutdown` request make three numbers; one store of another builder
(`MaxOther`) is enough to set the counter back, and the run has behaviours in which
the answer of an earlier call is then returned; a pipe of one message makes writers
block.  In CommandRunner two callers with two
calls each and a server are what a stolen status, a stolen child and a zombie of
an earlier call need.  The inputs of BlockHandlers are every conflict of up to
two or three lines a side over lines that are equal, equal but for layout or
macros, comments, or different, in both styles, and files with shared lines, two
conflicts, other files of the same name and no conflict at all; they are
restricted to what git can write (the merge style leaves out lines that begin
or end both sides).  GraphBuild has every shape next to every other that
matters to it (a comment before, after and two rows away) in nested bodies of
four items.  GraphMatch and GraphMerge have chosen graphs for each kind of node
and exhaustive families where orders and repetitions interact: all pairs of
revisions of a file of two functions with up to three of four items; of a file in
which theirs may have the same declaration again and again and ours renames one to
it; of up to two namespaces, reopened, renamed or merged; of two files that declare
the same functions; and of a class with access labels.  Larger graphs add siblings,
which the code treats one by one.

Deadlock is checked in the service.
Elsewhere it is not: a destroyed pool, a finished builder, merge or call stops.

## 5. Fairness

* Service: weak fairness of each worker inside a request and of each job
  thread.  They are operating-system threads without priorities; nothing
  obliges a client to send, a call to fail, or the process to be restarted.
* Pool: weak fairness of callers inside a call, of pool threads and of
  destroyers.  The mutex is held across two actions only by the path that
  leaves it locked, so weak fairness suffices.  Spurious wake-ups are never
  relied upon.
* LspPipe: weak fairness of both threads and of clangd reading its input;
  clangd may stop writing at any piece.  Strong fairness of `LockSend`: the
  receiving thread polls, taking and releasing `rwMutex` without a pause (the
  10 ms sleep of `operator()` is for an empty JSON value, and the value it gets
  is a string), so that a sender gets the mutex is an assumption on the
  platform's mutex, stated here and nowhere in the code.
* LspEndpoint: weak fairness of both threads and of clangd reading; strong
  fairness of a caller's write, for the same reason.  clangd need not answer:
  the time limit of `wait_for` is what makes calls return.

* CommandRunner: weak fairness of a thread inside a call, and of its command
  ending.  The second is an assumption on git, needed because nothing in the
  code ends a command that does not; a language server need not end.

The handlers and the graph modules have safety properties only: their loops run
over finite lists.

## 6. What is proved

TLAPS checks the theorems of the modules whose names end in `Proofs`, for every
value of the constants that satisfies the named assumption of the module they
are about: `ServiceAssumption` (bounds are naturals, every scenario has a
project, names of different kinds differ), `PoolAssumption` (at least one thread
and one slot), `EndpointAssumption`, `PipeAssumption`, `CommandAssumption` (a
caller is no server, the bound is a natural), `BuildAssumption` (what stands in
a file or a body is a list of items, the bounds are naturals, there is a file),
`InputAssumption` of `GraphMatch` and `BlockHandlers` (graphs, files, conflicts
and parts are lists, and each side of a part is a list of lines).  `BlockHandlers`
has three more: `ConflictAssumption` (git calls it a conflict where both sides
changed the base and not alike: no two of the three sides are the same; only
`DescriptionsRestOnAlignment` uses it), `FavourAssumption` (`initDeletionInfavor`
gives one of its two values for any environment) and `LayoutAssumption` (tree-sitter
takes a base mark for no code; a comment without layout and comments is nothing).
The second is where `BothSidesStay` stops: `removeCommentsAndSpaces` looks for a
quotation mark before it looks whether it is in a comment, so that a comment with an
apostrophe stays.  How layout and macros are related is left open: removing spaces
may join two words into the name of a macro.
TLC evaluates these assumptions in the runs.  Each inductive invariant below was
also checked by TLC on the instance of its run.

| Theorem | Property | For every |
|---|---|---|
| `TypeCorrect`, `SignIsAccounted`, `NothingUnregistered` | TypeOK, SignAccounted, RegistrationsKept | number of workers, jobs, scenarios, blocks, faults |
| `JobsExcludeEachOther`, `StoreHasOneSource`, `AnswersAreComplete` | OverlapOnlyUnguarded, StoreFromOneJob, FinishedAnswerIsComplete | number of jobs, scenarios, blocks, faults; one worker |
| `PoolTypeCorrect`, `RingIsConsistent`, `FreeFindsNoThread`, `GracefulShutdownDrains`, `PoolImplementsQueue` | TypeOK, RingConsistent, FreedPoolIsQuiet, GracefulDrains, IsTaskQueue | size of the ring, number of threads, callers, tasks |
| `AnswersAreOwn` | AnswersOwnCommand | number of threads, calls, servers |
| `NotificationsArrive`, `AnswersBelongUnlessSetBack` | NoLostNotify, AnswerBelongs | number of builders and calls, stores of other builders, time limits, size of pipes |
| `MessagesInOrder` | DeliveredInOrder | number and length of messages, retry limits |
| `EachNodeOnceAlways`, `TailOnly`, `StaleOnlyInEnums` | EachNodeOnce, SkippedOnlyAtTail, StaleSlotOnlyInEnums | pair of graphs, similarity, mates |
| `LossesKnown`, `RepetitionsKnown`, `DocumentsAreClosed` | LostOnly, TwiceOnly, DocumentsClosed | contents of the files, depth of nesting, number of files and items |
| `BlocksAlwaysAccounted` | BlocksAccounted | merge, outcome of the heuristics |
| `DescriptionsRestOnAlignment` | DescribedIfAligned | merge of conflicts, macro expansion, layout, failure of `git merge-file` |
| `MarksStayOut` | MarksOnlyAfterBlocklessFile | merge, outcome of the heuristics |
| `BothSidesStay` | BothSidesKept | merge, macro expansion, length of the lists |
| `ListsRefusedForCause` | ListsRefusedOnly | merge, length of the lists |

**MergeService.**  `TypeOK` is inductive; one lemma per kind of record update
(`MoveType`, `FollowingType`, ...), one step per action.  `SignAccounted` with
`TypeOK` is inductive: a step that creates a running file leaves its worker in
`Resolving`; a worker leaves that place by removing the file, by handing over to
a job, or by a leaking exit; a job stays live (`JobStaysLive`) until the step
that removes the file.  `RegistrationsKept` alone is not inductive, because a
worker may be about to overwrite the manifest with an old list; `ManifestInv`
adds that such a worker holds `peekMutex` (hence is the only one), has truncated
the file, and carries a list with every registered entry and the new one.

For one worker (`SingleWorker`: `server.cpp` calls `app.run()`) `SingleInv` says
of every scenario that is still guarded that its running file belongs to the
request or the one job that resolves it (`Owned`), and what that job knows of the
resolution file (`Stored`, `JobStore`): until its next write the file holds what
its earlier handlers wrote, or is torn by its own failed first write.  Beside it
stand `Down` (a process that ended has no threads), `Listed` (a scenario of the
manifest has its directory) and `TornIsEmpty`.  With two workers the three
properties do not hold: the tests between which the other worker acts are the
hazard at `project_controller.cpp:335`.

**ThreadPool.**  `PoolInv` joins `TypeOK`, `RingConsistent`, `FreedPoolIsQuiet`
and what makes them inductive: `started` is the number of threads alive (so it
never drops below zero), threads are created in order, and nobody destroys a
pool before it is ready.  Addition and removal at the ring's ends rest on lemmas
on the remainder of a sum of two slots (`ModOnce`, `SlotValue`, `RingAdd`,
`RingTake`).  `GracefulDrains` needs `DrainInv` beside it: an accepted task was
handed out or is in the ring, and a thread has ended only where the loop may be
left, which in a graceful shutdown takes an empty ring.  `PoolImplementsQueue`: every initial state maps to the empty
open queue and every step, under `PoolInv`, to a step of `TaskQueue` or a
stutter; `ReadAdd` and `ReadTake` say what the ring operations do to the
sequence read.

**CommandRunner.**  `CommandInv` follows a child from popen to pclose: a call that
nobody disturbed is the only one, with its child there to be polled
(`Undisturbed`), and what it reports was read from that child (`Verdict`).

**LspEndpoint, LspPipe.**  `CallInv` ties an entry of `eventDict`, the stored
response and the notification together under `cvMutex`.  `NumberInv` says that a
request number in a message, in the server's debts, in `responseDict` or with a
caller is below the counter, and below the value the builder loaded for its next
call, so that it determines the call it stands for; all this as long as no store has
set the counter back (two builders that load the same value store the same one).
Nothing is assumed about how the builders take turns.  `PipeInv` says which piece of
the stream comes next at each place of the reader.

**GraphBuild.**  `LostOnly` and `TwiceOnly` speak about a call that returns and
say nothing before that, so the invariant speaks about every call on the stack at
every child.  `Walked` counts the places of each child: the front declarations
are in one, what the call has not reached is in none, what is behind it is where
its branch put it (`ItemHeld`), and a comment also with the node below it once
the call is past that node (`Taken`, `CommentHeld`).  A comment is decided upon
before the end of its run is reached, so `CommentHeld` also says why one that
stands alone in the middle of a run does: it is beside a namespace's brace.
`Apart` (the calls work on different items) lets a step of the innermost call
leave what is said of the others alone.  The lemmas on runs of comments
(`RunEndFacts`, `RunStartFacts`, `SameRun`, `NodeComment`) tie `getNodeComment`,
which looks up from a node, to `getComment`, which looks down from a comment; one
lemma per kind of child (`WalkItem`, `WalkComment`, `WalkOrphan`, `UnitCall`,
`FreshCall`) is about one call, and `Advance`, `PushCall`, `PopCall` and
`GrowCalls` about the stack.  This proof showed `getFrontDecls` to be misread by
the parser (a conjunction list out of line made it an implication that the end
of the list satisfies as well); TLC's choice of the least value had hidden it.
`DocumentsClosed` is inductive with the shape of `docs`.

**GraphMatch.**  `EachNodeOnce` is not inductive: whether an erased node was
matched depends on what the loop visits next.  `GraphInv` adds the shape of the
vectors with the memory behind their end (`VectorsInv`), that matched nodes are
of one kind and no signature is matched twice (`MatchedInv`), that every other
node is listed once (`ListedInv`), that behind the end of a vector are the nodes
the current loop erased (`ErasedInv`), and where a loop over mates stands
(`MatesInv`).  An enum pair refused by the bimap dooms its loop to read a
moved-from slot (`Doomed`), so that a matching that is finished lost no node.
This proof showed an earlier form of the model, in which a refused pair replaced
the other, to be wrong, and added the two instances of `MCGraphMatch` with
several enums.

**BlockHandlers.**  `BlocksInv` follows a block through a handler: in a file not
reached yet nothing is resolved or stored, in the current one the resolved blocks
are those of the results, in the files behind it those of the store; files and
blocks are listed once; what is not stored is listed.  `Positions` and
`UnresolvedList` say that the tidied list has every unresolved item, once;
`OriginalNumbers` that blocks are numbered from 1.

`DescribedIfAligned` alone is not inductive: the lists under `conflicts/` change
when the text handler begins, which could make a file aligned after something was
stored for it.  `DescInv` adds that until then only the style handler stored
anything, which claims nothing about the base; that a listed block is still the one
the markers gave (`Genuine`); that `WithBase` holds only in diff3 style, so that no
our side is read as empty for want of a mark; and that the results of the current
file are described as well.  `MergeBlocks` shows that without split conflicts the
merge style numbers its markers as diff3 does (`SingleParts` counts them), and
`AlignedBlocks` that the block looked up then has the sides of the block at hand.  A
deletion has a base because the missing side is not the base: that is where
`checkDeletion`, which never looks at it, needs `ConflictAssumption`.

The other three properties are about lines.  Below them are lemmas on the
operators, for lists of any length: what `Kept` keeps and in which order; that
the code lines of a list that is in order in another are so again (`LinesInOrder`,
`LinesKept`); that `isSubSequence` finds an order (`SubSequenceOrder`); that what `topologicalSort`
gives has both lists in order (`SortOrder`, `MergedList`); and, the other way round,
that it finds an order wherever there is one and the lists have no edge in common
(`SortFound`): then the in-degree of a node is the number of its neighbours in front,
which is what the code waits for.  The lemmas that need induction over a number take
the least counterexample instead (`LeastNumber`, from the well-ordering of the
naturals), and `SetInduction` is the same for finite sets.  `Sound` then says of each
heuristic that its answer has both sides if it claims so, and a mark only if our side
had one.

None of the three is inductive.  A handler asks for a base section for all files if
the first block of the first file has one, and the list of files shrinks between the
handlers, so `SidesInv` says why the first file cannot come to be without blocks: it
is dropped only if it was resolved completely, and a file is listed without blocks
only if it never had any.  With that a mark that is not asked for is due to a first
file that had no block to begin with (`NoBase`).  For the refused lists it adds that
every block behind the loop's position that the text handler left was left for a
cause (`Tried`, `Refused`).

Only model-checked:

* everything temporal under fairness (SignReleased, RequestsAnswered,
  AcceptedRuns, DestroyOnceEnds, AllDelivered, SendEnds, CallReturns,
  DestructorEnds, CallsReturn), which is out of the prover's reach;
* the five properties of GraphMerge (AdditionsKept, MembersOnce, ChangesKept,
  AdditionsInOrder, SectionsKept).  They speak about the printed text, which is
  given by a recursion over a graph whose lists of children the merge builds: a
  proof has to begin with an order on that graph in which the recursion ends, which
  nothing in the code states, and to go on by induction over it.

## 7. Findings

With a run that shows them:

1. `project_controller.cpp:126`: when `git diff` fails, goResolve is left with
   the running file on disk, against the comment at line 111.  Every later POST
   for the scenario is refused until a restart.  A `create_directories` that throws
   in `writeConflictFiles` (line 59) is a second exit of this kind.
2. `TextBasedHandler.cpp:342`: the base of a block is looked up by number in a
   file that need not be the diff3 merge of this file.  Where it is not, a side
   is dropped with the description "De facto one-sided modification"; and
   `checkDeletion` (line 689) calls a side deleted without a look at the base.

Named as exceptions in the properties of passing runs, which hold only with
them:

* `ResolutionManager.cpp:238`: the running file is removed twice, the second
  time after a successor may have created its own (`OverlapOnlyUnguarded`);
  `pending` is then false while a job works, against
  `docs/api-mergebot-sa.md:770`.
* `ThreadPool.cpp:112`: a second threadpool_destroy leaves with the mutex locked
  (`DestroyOnceEnds` excludes it).
* `client.cpp:189`: the static request counter is incremented without
  synchronisation by three builders (`LoadID`, `StoreID`).  A store that comes late
  sets it back, a number is used again, and the answer to the earlier call of that
  number is returned: the claim of `client.h` that responses are matched to requests
  holds only until then (`AnswerBelongs`).
* `resolve_controller.cpp:70`: the result file may be gone between `exists` and
  `open`; `fclose` of the null pointer then ends the service (`RequestsAnswered`).
* `client.cpp:94`: a header read in two parts loses the reader's place, and the
  receiving thread ends for good (`AllDelivered` asks for uncut messages).
* `sa_utility.cpp:68`: waitpid(0) takes any child's status
  (`AnswersOwnCommand`); the time limit at line 63 never bounds a call.
* `TextBasedHandler.cpp:371`: inclusion is a search for text without blanks, so
  that in a header `unsigned int a;` includes `int a;`, which is dropped
  (`BothSidesKept`); in a source file `isSubSequence` looks at whole lines after it.
* `TextBasedHandler.cpp:543`: the exit code of `git merge-file` is not looked at, and
  its empty output replaces the file under `conflicts/` (`DescribedIfAligned` asks
  for the diff3 merge there).
* `StyleBasedHandler.cpp:41`: the first file decides for all whether there is a
  base section (`MarksOnlyAfterBlocklessFile`).
* `stringop.h:382`: an edge that both lists have counts twice, so lists that
  agree on two neighbours are not merged (`ListsRefusedOnly`).
* `parser/utils.cpp:209` and `GraphBuilder.cpp:505`: comments above a closing
  brace, an access label or a preprocessor line, and preprocessor lines inside a
  body, are in no node (`LostOnly`); others are kept twice (`TwiceOnly`).
* `GraphBuilder.cpp:228`: documents of a file that cannot be parsed stay open
  (`DocumentsClosed`).
* `EnumMatcher.h:38`: with two unmatched enums in the revision the loops read a
  moved-from pointer after the first match (`StaleSlotOnlyInEnums`), and before
  that may match an erased enum again, which the bimap refuses (`EachNodeOnce`);
  `FuncDefMathcer.h:60` and its like stop early (`SkippedOnlyAtTail`).
* `GraphMerger.cpp:583`: what a side adds to a container that the other renames
  is lost; so is what theirs adds to a namespace that ours reopens, if ours adds it
  too, in the part that is not matched (`AdditionsKept`).
* `GraphMerger.cpp:506`: a reopened namespace, a repeated text or a declaration in
  two files is one base node that is merged twice.  The second time gives back a
  change (`ChangesKept`), or does not find what the first renamed (`MembersOnce`).
* `GraphMerger.cpp:621`: a declaration added behind a comment of its own is put in
  front of it; one whose signature occurs twice among its siblings, or that ours
  has under another node's old name, is placed by the first (`AdditionsInOrder`).
* `pretty_printer.cpp:168`: a member without an access label (the first of a class
  has none, `TypeDeclNode.h:50`) that theirs adds, or that stands behind one theirs
  adds, can come under another label (`SectionsKept`).

In the model, without a property:

* `client.cpp:294`: an iterator found under `cvMutex` is used after it.
* `GraphBuilder.cpp:1271`: the destructor of a builder whose language server did
  not start uses a null endpoint (`StopWithoutEndpoint`).
* `parser/utils.cpp:93`: the child after the comments of a header is looked at
  without a test that there is one (`pc = "crashed"` in GraphBuild).

## 8. Not modelled

* Message contents, JSON layouts, URIs, logging, command line: data without
  control.
* The undefined behaviour of reading an `ErrorOr` without a value
  (`ResolutionManager.cpp:180`) beyond "not a hash" and "the process ends"; a
  data race on the hash table `responseDict` itself; the death of clangd with
  SIGPIPE; a clangd that stops reading while its own output is full.
* Source collection: lists of files from git's deltas.  Its concurrent part, the
  look-up of included files over a shared static vector, is not reached, since
  the constructor turns it off (the comment at `ASTBasedHandler.cpp:84` says it
  is enabled by default) and nobody turns it on.
* Inside modelled parts: scanning of conflict markers and of comments character
  by character (an unterminated block, an apostrophe in a comment), the optional
  clang-format pass of the style handler, layout in the printer, the edges of
  the graph other than containment, whose functions are not called, an
  `OrderInFavour` that is not initialised when the environment variable has an
  unknown value.
* tree-sitter wrapper, libgit2 calls, containers, similarity measures: bindings
  and numerical kernels.  Front end, Java back end, husky, eva: other programs.

## 9. Running

    tlc -workers 2 -config MCMergeService_one.cfg MCMergeService
    tlapm MergeServiceProofs.tla

Each run takes at most about two minutes on two cores; names of modules and
configurations are under `runs` in `PROJECT.json`.
