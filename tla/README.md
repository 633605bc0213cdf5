# DAGClaw: a TLA+ verification project

DAGClaw turns a prompt into a *plan* of subtasks, executes the subtasks with
Claude CLI processes in the order of their dependencies, verifies the result
and retries what was rejected.  It runs from a command line (`cli/`) or as a
server with a task board (`backend/`, `frontend/`); both drive the same core
(`core/`).  This directory holds models of the parts of it that are hard to
test, the TLC configurations that check them on small instances, and proofs,
checked by TLAPS, of what matters most for every size.

Paths below are relative to the root of the repository.

## 1. Inventory of the system

| part | state it keeps | operations | interacts with |
|---|---|---|---|
| dependency resolver, `core/dependencyResolver.ts` | `states` of the subtasks | `getReady`, `markComplete`, `markSkipped`; `detectCircularDependencies`, `getDownstreamDependents` | called by the DAG scheduler and by the Plan stage |
| DAG scheduler, `TaskOrchestrator.runDAG`, `executeSubtask` | the Map `running`, attempts, `skippedIndices` | `tryLaunch`, the `.then`/`.catch`/`.finally` of a subtask, attempts, `shutdown` | starts CLI processes or child orchestrators; leaves snapshots and `skippedIndices` to the pipeline |
| pipeline and retry loop, `TaskOrchestrator.run`, `runOne`, `retryLoop`, and the stages of `core/stageDefinitions.ts` | `PipelineState`, the status in `manifest.json`, `tmp/*.json` | stages Plan, Execute, Verify; approval; interpretation of the verdict; retries; distillation | the lock, the logger, the callbacks of its owner |
| recursive decomposition, `runRecursive` | a child orchestrator with a logger and a tmp directory of its own | `child.run()` | is one attempt of a subtask of the parent; is not told of a shutdown |
| run lock, `core/taskManager.ts` | the file `.dagclaw/lock` | `checkStaleLock`, `acquireLock`, `releaseLock` | all runs, of all processes, of a work directory |
| task store, `backend/src/taskStore.ts`, `taskStateMachine.ts` | `ManagedTask` (status, pending approval, orchestrator) | create, execute, approve, reject, retry, cancel | called by the HTTP routes; tells the scheduler and the board |
| task scheduler, `backend/src/taskScheduler.ts` | `queue`, `running` | `enqueue`, `drain`, `dequeue`, `onTaskFinished` | starts tasks through the orchestrator manager |
| orchestrator manager, `backend/src/orchestratorManager.ts` | none of its own | `startTask`; the end of a run; a question for approval | writes the status of the task from the run's side |
| Claude runner, `core/claudeRunner.ts` | a child process, its timer, the file it is told to write | run, timeout, exit, reading the file, the fallback | called by `runOne` |
| run logger, `core/runLogger.ts` | `.dagclaw/runs/<id>/` | manifest, usage, logs, verdicts, events | read back by the restorer, the routes |
| memory, `core/memoryManager.ts`, `memoryDistiller.ts` | `.dagclaw/memory/` | distil, index, read | after a run; the prompts |
| persistence and restart, `backend/src/stateRestorer.ts`, `taskPersistence.ts`, `projectStore.ts` | `tasks.json`, `projects.json`, manifests | persist, remove, restore | the task store |
| WebSocket server, `backend/src/websocket/`, `broadcastManager.ts` | ring buffers, subscriptions, clients | broadcast, subscribe with replay, snapshot | the task store and the browsers |
| routes and middleware, `backend/src/routes/`, `middleware/` | hit counters | validation, calls of the task store | HTTP clients |
| command line, `cli/` | options, display entries | parse, run, draw | one orchestrator |
| browser front end, `frontend/src/` | the board's store, the socket and its subscriptions | handle messages, reconnect | the WebSocket server, the routes |
| task registry, `TaskRegistry` in `core/taskManager.ts` | a tree of nodes | register, query | no caller in the program |

What is hard here:

- **callbacks**: one thread, but every `await` and every link of a promise
  chain lets the callbacks of other subtasks and tasks run in between;
- **two writers**: the status of a task is written by the user's requests and by
  its run, which do not wait for each other;
- **processes**: command lines and backends share a work directory and its lock;
- **agents** answer by writing a file, or by not writing it, or something else, and
  may still be writing when nobody waits for them any more;
- **connections** deliver messages late, break and come back, while lists of the same
  tasks are under way over HTTP;
- **a screen** is rewritten by several parties that count its lines;
- **cancellation** is a flag that is looked at later, or never;
- **crashes** leave a lock, a running manifest, a queue that existed in memory only.

`PROJECT.json` lists the hazards one by one with their lines, the properties that
would catch them, and what no property covers yet.

What makes each part correct: the resolver and the scheduler start a subtask
only after its dependencies, at most so many at a time, forget none, and skip
exactly what depends on a failure; the pipeline succeeds only on a passing
verdict of the current work and always settles, with one status in its manifest;
the lock keeps two pipelines apart and never wedges the directory; tasks are
served in order, no slot leaks, and a task's status tells what its run does; a subtask
succeeds only on a report made in its own directory by one of its own processes, and
no run or process goes on without somebody who waits for it; what a browser shows is
what the server knows once all messages have arrived; and what became of a subtask
stays on the screen.

## 2. Modules

| module | models | checked by | proved in |
|---|---|---|---|
| `SubtaskGraph` | plans, cycles, cascades, readiness; what a stage that ran a plan may leave behind (`DagOutcome`) | the modules that extend it | `DagProofs` (lemmas) |
| `DagContract` | abstract: a subtask waits, is active, and is done, failed or skipped | as a property of `DagScheduler` | |
| `DagScheduler` | `runDAG` and `executeSubtask` | `MCDagScheduler` | `DagProofs` |
| `RunContract` | abstract: what the owner of a run may rely on | as a property of `Pipeline` | |
| `Pipeline` | `run`, `requestApproval`, `retryLoop`, the built-in stages | `MCPipeline` | `PipelineProofs` |
| `TaskLifecycle` | task store, task scheduler, orchestrator manager | `MCTaskLifecycle` | `TaskLifecycleProofs` |
| `Persistence` | the board of `TaskLifecycle` with `tasks.json` and the manifests, over crash and restart | `MCPersistence` | `PersistenceProofs` |
| `RunLock` | the lock and `run()` around it | `MCRunLock` | `RunLockProofs` |
| `Attempts` | the attempts of a run: processes, files, timeouts, and nested runs | `MCAttempts` | `AttemptsProofs` |
| `MessageBuffer` | the ring that keeps the latest messages of a task | the modules that use it | `BoardSyncProofs` |
| `BoardSync` | the server's messages and a browser's board, with the tasks of `TaskLifecycle` behind them | `MCBoardSync` | `BoardSyncProofs` |
| `DagDisplay` | the live display of the command line, with `DagScheduler` behind it | `MCDagDisplay` | `DagProofs` |
| `SequenceFacts` | induction and recursion over the naturals, stated without operators as parameters, and the sequences of the models | | itself (lemmas) |

How they compose.  `Pipeline` does not repeat the scheduler: its action `DagEnds`
takes any outcome that `DagOutcome` admits.  That runDAG returns only with such
an outcome is `ReturnsWhenSettled` of `DagScheduler`, checked and proved, and that
it returns at all is `EventuallyReturns`.  `TaskLifecycle` in turn sees a run only
as `RunContract` describes it: it may ask, is over once it is refused, and settles
in one of three ways.  That `Pipeline` behaves so is `ImplementsRunContract`.
`Persistence` instantiates `TaskLifecycle` and joins each of its actions with what
the operation writes.  `RunLock` sees a pipeline as something that begins and ends.
`BoardSync` joins each action of `TaskLifecycle` with the messages that the operation
sends, and `DagDisplay`, which extends `DagScheduler`, each action of it with the events that it emits.
`Attempts` refines what `DagScheduler` and `Pipeline` leave open, the outcome of an attempt;
it has a cruder order of subtasks and stages in return.

### SubtaskGraph

A plan maps each subtask to the set of the indices it depends on.  Nothing in
the code demands that these exist, so `Strangers` are indices that are no subtask.
The work lists of the code (`getDownstreamDependents`, the depth-first search of
`detectCircularDependencies`) are modelled by the sets they compute, written as
least closed sets: no recursion, which TLAPS could not reason about.  A subtask
stands for its position in the plan's array, the order in which `getReady` and
`retryLoop` go through them; that two subtasks have the same index is left out.

### DagScheduler

One action is one callback, from one await to the next.  `phase[t]` is the progress
of the promise chain of a subtask: `executing` (an attempt is under way), `resolved`
or `rejected` (`.then` or `.catch` is due), `settled` (`.finally` is due), `retired`.
`Running`, the subtasks between launch and `.finally`, is the Map `running`.
`TryLaunch` is the whole synchronous loop of `tryLaunch`: a prefix of the ready
subtasks that ends at the bound.  Actions: `Begin`, `AttemptSucceeds`, `AttemptFails`
(with `isRetryableError` as a choice), `OnResolved`, `OnRejected`, `Finally`,
`DagComplete`, `Shutdown`.  Events, logs and status lines are left out.

### Pipeline

`pc` says where `run()` is.  The states of `Awaiting` are its awaits, during which
`Shutdown` may come; those of `Between` are the synchronous stretches, in which nothing
else happens.  The agents are external: a plan, the outcome of an attempt, a verdict
are whatever they may be, among them none and one that does not parse.  `verifyFile`
is the file that each Verify of a run is told to write and that is not removed in
between, so that reading an old verdict is a step of the model (`VerifyOutput`).
`retryLoop` runs from `Decide` (interpretation, what to retry, giving up) through
`NextRetry`/`RetryEnds` (one subtask after the other, in the order of the plan) to
`RecheckEnds`.  `approved`, `everSkipped` and `fresh` are history variables that only
properties read.

Abstractions: Verify is the last stage of a pipeline that has it (the default, and
assumed in `PipelineAssumption`); custom stages and file-system errors are left out; when
the run was shut down, `DagOutcome` also admits outcomes with less done than the
scheduler could leave.

### TaskLifecycle

`status`, `queue` and `running` are the fields of the code; `run` is what the promise of
`run()` is up to and `shutdown` the flag of each orchestrator.  Each operation of the
API is one synchronous call, hence one action, and `Drain` with all its starts is part
of the operation that causes it.  `StartRejected` is the `.catch` of a start that threw
because the project's custom stages could not be merged (`Misconfigured`).  A task that
was cancelled keeps its run: the run goes on, asks and ends.

### Persistence

`Board` is `TaskLifecycle`; `number` and `next` are the fields of the registry,
`todoFile` is `tasks.json`, `runs` and `manifest` are the directories under
`.dagclaw/runs` with the status in their manifests, and `saved` is the number that a task's
entry or manifest carries.  A task that leaves the queue begins its run, and writes its
first manifest, within the same synchronous stretch (`BeginRuns`), or has none because no
claude program is found.  `WriteOutcome` comes before `RunSettles`: the crash in between
is the interesting one.  `GracefulShutdown` cancels what is under way one task after the
other, each cancellation draining the queue.  `Restart` is a crash followed by
`restoreState`: the board in memory is forgotten and built from the files in the order in which
the code reads them, numbers are given (`Register`) and written back.  A write that a crash
interrupts leaves a file that cannot be parsed: an empty `tasks.json`, or a run that is not
restored.

Abstractions: one project; a restored run gets a new UUID as its task's name, where the model
keeps the name; errors of the file system that the code catches in a process that lives
on are left out; a crash during a restore is followed by a restart that reads the same
files and gives the same numbers, so it is not a state of its own.  A queued task is in memory
only and a crash loses it; the code promises nothing else.

### RunLock

Each system call on the lock is one action, and creating the file and writing into it
are two.  Runs of one process do not interleave in the synchronous code (`HasThread`);
runs of different processes do, at every call.  `Crash` ends a process with all its
runs.  `crowded` and `robbed` are history: who ever had company, whose lock another run
removed.  Pids are not reused.

### Attempts

`run[r]` is an orchestrator, the root or one nested in it, `job[r][s]` what `executeSubtask`
or `retryLoop` is doing with a subtask, and `file[r][s]` the output file of that subtask.
An attempt is a call of `runClaudeCli`: it spawns a process, number `calls` of the
subtask, and ends in one of the ways of that function and of `runOne`: with a report of success
(`Succeeds`) or failure (`Fails`), without a report, where the fallback makes one up from
the output and writes it into the file (`NoReport`), with a nonzero code (`ExitsNonzero`), with no
process at all (`SpawnFails`), or by its timer (`Timeout`).  The timer sends SIGTERM and rejects
at once; the process is then a stray that may `Write` until it dies (`Die`).  `Throws` is what
follows an attempt that failed: another one, the end of the subtask, or, in `retryLoop`, of the
whole run.  A subtask marked for decomposition starts a child (`WithChild`) and waits for it
(`Resume`); one beyond `MaxDepth` fails.  `cut`, `before` and `source` are history.

Abstractions: the subtasks of a plan are independent and start together, without a bound on
how many run (`DagScheduler` has both); a Plan or Verify stage ends in any way, without
processes of its own (`Pipeline` has these); at most one subtask of a plan is decomposed;
once a run has ended, only its processes are kept, since nothing reads its files.

### MessageBuffer and BoardSync

`MessageBuffer` is the ring with its array, head and count; a slot that was never written
holds `NoMessage`.

In `BoardSync`, `Store` is `TaskLifecycle`.  The server has `buffers`, `sent` (how many events each
task has had) and `subscriptions`; `link` is the socket, with the browser's requests under way in
`outbox` and the server's messages in `inbox`, each in order.  What goes over HTTP is on connections of
its own and in no order with the socket: `asked` are the lists that are requested, `answers` those on their
way back, and with them what the server answers to the browser's own user (`Reply`).  The browser has
`activeSubscriptions`, the cards it shows (`rootTasks`) and `columnCounts`.  A card is a status, and
`rootTasks[t]` a sequence, so that a task could be shown twice; `hidden` are the tasks whose card has no
`projectId`, which the board leaves out.

Everybody who writes cards is there.  `HandleRequest` is `WsServer.handleMessage`, `HandleWsMessage` the
browser's handler with all its branches.  `TakeAnswer` is what the browser does with an answer: with the list of all tasks (`TakeList`,
of App), with a page of one status (`TakePage`: the ones that ProjectSidebar fetches, and the ones of the button below
a column, `LoadMore`), with that to a creation (`TakeCreated`), to a retry
(`TakeCreated` again if the button was on the card, which takes the new task for queued; `TakeRetried` if it was on the
panel, which takes it for running and knows no project), and to a cancellation (`TakeDeleted`).  `Own` are the tasks that the user of this browser
creates, retries and cancels; those of somebody else have no answer here.
`Connect` and `Disconnect` are the socket; on a reconnection the browser subscribes again and is sent
the buffers (`Replay`).  `seen`, `stale` and `unbroken` are
history: the last event of each task that was handled, the tasks whose card a list has replaced that
messages had overtaken, and whether the connection has held since the project was selected.

Abstractions: one project and one browser; the server runs without `CLAW_API_KEY`; a connection
that is refused for `MAX_WS_CLIENTS` is one that does not come about; the limit of 100 ids per
subscription is not reached; HTTP requests do not fail.  A page holds any part of the tasks of its status, which
stands for offsets and limits.  Pressing a button and the server's handling of the request are one step; more cards of a column are not
asked for while they are under way; two identical answers are one.  What the panel shows of a task (`nodeMap`) is left out.
The 10,000 rings that the server keeps at most are not reached; commands that the browser could send over the socket instead of HTTP have the same effect and are
left out; `broadcastProject` has no caller.  Of a run's events only those matter that change a
status; plans, stage times, usage and the timeline are left out.

### DagDisplay

`display` holds the fields of `DagDisplay` and the `screen` it has written, line by line: a line
is about a subtask, the blocked ones, a stage, or is a status line.  The methods are functions of the
display (`Render`, `EraseZone`, `WriteZone`, `StageLine`, `WriteStatus`), and each action of
`DagScheduler` passes the events that it emits to `HandleEvent`: the action with what is shown of it is
called `OnResolvedShown` and so on.  `StageTick` and `DagTick` are
the two timers, which both run during Execute.  `BeginShown` is the way from `onStageStart` over
the status line of `runDAG` to the first launches.  What the command line logs while nothing is
displayed is part of the screen, too (`Status` between the stages).

Abstractions: elapsed times, the width of the terminal and what is written to stderr are left
out; within one cascade the subtasks are skipped in the order of their indices; the approval
prompt, which waits for a key on a line of its own, is not a line.

## 3. Runs

| run | instance | shows |
|---|---|---|
| `dag` | four subtasks, all acyclic plans of three of them with the fourth joined in five ways, one unknown index, two slots, two attempts; 424,038 states | dependencies first, the bound, no lost wake-up, exact cascades, final outcomes, nothing left behind, termination, `DagContract` |
| `pipeline` | three subtasks in five plans (one cyclic, one against the order of indices, one blocked), 48 kinds of verdict, two retries, three pipelines; 76,084 states | success only on a fresh passing verdict, nothing unapproved runs, no skip forgotten, all retries used, termination, `RunContract` |
| `tasks` | four tasks, one of them misconfigured, two slots; 29,775 states | queue and statuses agree, slots are well used and do not leak, statuses match runs, rejections stay, first come first served, the queue moves |
| `lock` | two runs of a backend and two command lines, crashes; 2,592,645 states | the directory is never wedged, a lone run always gets the lock, pipelines overlap only after a theft |
| `persistence` | two tasks, a run of the command line and an old todo task that has no number and is misconfigured; one slot, crashes and torn files at any time; 608,603 states | work is saved once, outcomes shown are outcomes saved, numbers are distinct and kept, a graceful shutdown reaches every run |
| `attempts` | a run with one or two subtasks, one of which may be decomposed, down to depth one, three runs in all; two attempts, one round of `retryLoop`, one stray at a time; 1,218,942 states | no attempt is withheld or added, success has a reporter of its own, nothing works unattended, the run ends whatever the processes do |
| `board` | two tasks, one of them this browser's own and misconfigured, one slot; rings of two; one message or request under way beside what one step sends; and two scenarios (below); 3,451,673 states | rings hold the latest in their order, a subscriber catches up, the board and its counts are right once all is delivered |
| `display` | three subtasks in four plans, one with an unknown index, two slots, two attempts, one round of `retryLoop`, status lines, with and without a terminal; 558,474 states | outcomes stay, the zone is what was counted, and what is lost of the status lines |
| `tasks_bound` | as `tasks` | expected violation, section 5 |
| `lock_backend` | three runs of one backend | expected violation, section 5 |
| `board_follow`, `board_retry` | two tasks, one event, a connection that may break once, or does not | expected violations, section 5 |

Why the bounds are enough to be of interest.  Four subtasks give chains, forks, joins
and diamonds, with a fifth index that is unknown; two slots make tasks wait for
slots and for each other; two attempts give one retry, the default.  Four tasks on two slots
leave a queue of two, in which order matters.  Three runs are what a refused run needs
to let another one in; the fourth follows crashes of the others.  Two retries are
what the Verify stage is configured with (`maxRetries: 2`).  A bound of zero slots is
covered by the theorems only.  `persistence` has one slot, so that a second task queues
and a shutdown starts it on the way; `MaxNumber` lets both tasks be created and one number
be given after a restart.  Its runs of the command line always complete (`CliOutcomes`): a
failed one takes the same path.  Its two tasks are interchangeable, and the run is reduced
by that symmetry; it checks no liveness.

`attempts`: two attempts are a first and a last one, and a round of `retryLoop` a third call on the same file; a
stray of either may write under the next call, and a second stray at once (`MaxStrays`) would only be
another process of the same kind.  Three runs let a child be retried once; the guards on `Unborn`
keep the model from wanting a fourth.  `board`: both tasks at once, with every
event and break, are too many states, so `Scenarios`, a constraint of the configuration, joins two parts.  As long as there is one
task, it has four events, which ask, are answered and end its run, and fill a ring of two and wrap it around, with a connection that breaks at
any point.  With two tasks, there is one event or one break, and from then on a state with more than three messages, requests and answers under way is checked but not continued; one task on the
slot and one behind it give every order of statuses, and the second one is created, retried and cancelled by the browser's own
user, so that its answers race with everything else.  `MaxInFlight` bounds what is under way, after which the sender waits.
That the properties hold beyond these bounds, and the ring is right for every size, is proved.
`display`: three subtasks have a chain, a fork and a blocked one; `MaxStatus` bounds the status
lines besides that of `runDAG`.

`attempts` and `display` set `CHECK_DEADLOCK FALSE`, because their runs end for good.  In `tasks`, `persistence`
and `board` tasks can be cancelled, and the server restarted or the page reloaded, again and again;
the other models end in explicit `Terminated` steps where the program has ended.

Every property of a passing run has a mutant in `PROJECT.json`: a faulty variant of a
definition, next to it in its module, with which TLC finds the property violated.

**Fairness.**  `DagScheduler`: an attempt ends, because `runClaudeCli` rejects at its
timeout, and a callback that is due runs; no fairness for `Shutdown`.  `Pipeline`: the
same for each await, `runDAG` by `EventuallyReturns`, and the user answers.
`TaskLifecycle`: a due callback runs; a run that may end time and again ends (strong
fairness, since it may ask in between; its pipeline is finite); a question is answered,
which is an assumption on the user: an unanswered one holds its slot for ever.
`Attempts`: some step of a run, or the timer of an attempt, happens as long as one can (weak
fairness of `Progress`); none for processes, which may neither write nor exit, and none for `Shutdown`.
`RunLock`, `Persistence`, `BoardSync` and `DagDisplay` have no fairness and state no liveness; what
`BoardSync` says of a board that has caught up, it says of the states in which nothing is under way.

## 4. Proofs

All theorems hold for every value of the constants under the named assumptions of the
modules (`SubtasksAssumption`, `DagAssumption`, `PipelineAssumption`, `RunsAssumption`, `AttemptsAssumption`,
`TasksAssumption`, `PersistenceAssumption`), which say: finitely many subtasks, numbered; plans that the Plan stage has accepted are acyclic;
at least one attempt; Verify is last; every run has a process; finitely many tasks and at least one slot;
runs of the command line are not in `tasks.json`.

**DagProofs, the scheduler.**  The state properties alone are not inductive: that a
cascade spares running and finished work depends on how the state of a subtask and
its promise chain agree.  `IInv` adds `StateAgreesWithPhase` (idle: pending or skipped; launched:
pending; settled: complete or skipped), a form of greediness that survives each
callback (`GreedyWhenNoneSettled`), and `EmptyMapOutsideTheRace`.  The heart is
`CascadeHitsOnlyIdle`: the subtasks neither launched nor complete absorb all
dependents of a failing one, hence contain its least such set, `Downstream`.
From `Invariance` follow `TypeCorrect`, `DependenciesFirst`, `Bound`, `ExactCascades`,
`Greedy` and `NothingLeftBehind`; the last also needs that, plans being acyclic, pending
subtasks that are not blocked include one that is ready.  `OutcomesNeverChange` is the
action property, and `Implements` the refinement: `Begin` and `Finally` map to `Start` or
a stutter, `OnResolved` to `Finish`, `OnRejected` to `Fail`, the rest to stutters.

**DagProofs, the display.**  The two properties of the screen are far from inductive: an erasure is harmless
only if the number of lines it erases is that of the zone, and no outcome is printed twice only if the display
remembers which it has printed.  `GoodDisplay` says this of a display between any two writes: its screen is a part
that stays and a zone of as many lines as `zone` counts (`Layout`); status lines are in order, with or without the
zone (`StatusOrder`); what it remembers, `printed` on a terminal and `last` without one, is what
it has shown (`Remembers`, `Shows`: each outcome once); as many lines announce something as status lines were sent; and the zone
is empty, the line of the stage, a status line below it that is now counted as the zone, or the one of the DAG (`ZoneIs`).  A lemma for each
method (`RenderIs`, `HandleEventIs`, `HandleEachIs`, `StageStartIs`, `StageEndIs`, `WriteStatusIs`, `DagTickIs`,
`DagCompleteIs`) says that it keeps `GoodDisplay` and what it does to the entries, so that the two tickers and the status
lines may come in between at any time.  They need that no event replaces an outcome, which the
display does not check; that is where the scheduler comes in: `DisplayIInv` joins `GoodDisplay` and the scheduler's `IInv` by
`Expected`, what the entry of a subtask is, given its state and its promise chain, and by the stage that is shown (`StagesAgree`).
Then a cascade marks only subtasks that wait or were skipped before (`CascadeHitsOnlyIdle` again), and a launch only
those that wait (`LaunchesAre`).
Theorems: `DisplayInvariance`, `OutcomesAreShownOnce`, `ScreenAlwaysRight`, for any plan, with and without a terminal, and any
number of status lines and rounds of retryLoop.

**PipelineProofs.**  `IInv` ties `pc` to the stage at hand (`StageOfPc`), and says why an old
verdict is harmless: `StaleVerdictsFail`, an old verdict in the file is a failing one,
because a passing one ends the loop and the stages that execute anything come
before Verify.  `SkipsAccountedFor` follows a skipped subtask through the loop: it is listed,
about to be executed, or done.  Theorems: `TypeCorrect`, `Verified`, `ApprovedFirst`, `SkipsAreRetried`,
`Persistent`, and the refinement `KeepsContract`.

**RunLockProofs.**  `IInv` adds that a run past the creation of the lock that was not robbed
still owns the file (`OwnersKeepTheLock`), and that active runs are of live processes.
A second invariant, `LoneRuns`, follows a run that has been alone so far: any step of another run makes one of the two
crowded, so the lock it finds is one that `LockIsAccountedFor` attributes to a dead process (`AloneMeansDead`),
and it never gets to the second half of `acquireLock`.
Theorems: `TypeCorrect`, `Accounted`, `Exclusion`, `LoneRunIsNotRefused`.

**TaskLifecycleProofs.**  The properties hold only together: that a queued task has no run keeps `drain` from
giving it a second slot, and that a slot belongs to a run is what gives it back; `IInv` is their conjunction with
`RefusedIsCancelled`, without which a rejected run could still be shown as done.  Nearly every operation ends in `drain`:
`Drainable` says what holds before it, when slots may be free, and `DrainPreserves` proves once that `IInv` holds
after it and that nobody in the queue was overtaken (`InOrder`).  `StartedIs`, `AppendedIs` and `DequeuedIs` are the arithmetic
of the queue: what `drain` takes from its front, `enqueue` puts behind it, and `dequeue` cuts out of it.
Theorems: `TypeCorrect`, `QueueAgrees`, `SlotsAreWellUsed`, `SlotsAreGivenBack`, `StatusIsTrue`, `RejectionIsFinal`, `NobodyOvertakes`.

**PersistenceProofs.**  The properties hold only together with what ties each task to its files: `TaskFits` says, by the
status of a task, what its entry or manifest may be (`FileOK`), which outcome is saved of it (`OutcomeOK`), that a
run of the command line is on the board only with its outcome (`CliOK`), and which number is in its file (`NumberOK`:
the one it shows, below the counter).  `IInv` adds `NewTasksDiffer`, that no two tasks which the server created
have the same number, and what `TaskLifecycleProofs` shows of queue and slots, whose lemmas about `Drain` are cited here, too.  Three loops of the code are recursive
functions in the model, and an induction each says what they compute for every length: `FilteredIs` (`tasks.json` without
one task), `RegisteringIs` (the numbering of a restart: saved numbers stay, the counter ends above all of them) and
`CancellingIs` (a shutdown cancels one task after the other, and a task that one cancellation starts is one
that a later one cancels).  `RestoreOK` is the restart, `ShutdownIs` and `ShutdownReaches` the shutdown.
Theorems: `TypeCorrect`, `WorkSavedOnce`, `OutcomesSaved`, `NumbersDistinct`, `NumbersKept`, `ShutdownReachesEveryRun`.

**SequenceFacts.**  The induction theorems of the library take an operator as a parameter, which no installed prover can
instantiate.  `UpTo` states induction of a set of indices instead, and `Recursion` that a recursion whose steps
are functions on a set has a solution; `LeastElement`, from well-foundedness, carries both.  Below them are the
facts about sequences that the proofs about `Persistence`, `BoardSync` and `DagDisplay` share: what appending, concatenating and taking the
first away do to positions and elements, that `SetToSeqs` gives permutations, and (`FlattenIs`) what `FlattenSeq` computes;
and those that `DagDisplay` needs: that a finite set of numbers can be listed in increasing order (`IncreasingExists`), how
often something occurs in a concatenation (`CountConcat`), and that `SubSeq` finds its two parts (`PartsOfConcat`).

**BoardSyncProofs.**  `PushWithRoom` and `PushWhenFull` are the arithmetic of the
ring: `GetAll` after a `Push` is `GetAll` before, without its first message if the ring was full, and the
new one behind it.  `RingsKeepTheLatest` carries that through every action of `BoardSync`: whatever was
sent of a task, its ring holds the latest messages in their order, as many as fit.

What the browser shows is right only when nothing is under way; the invariant has to say what is right before that.  It
does so by what is said *last*: `Ends(s, A, ok)` is that of the elements of `s` which are in `A` the last is in `ok`.  Of every task
(`TaskOK`), the invariant `IInv` says that

- its ring, if it is replayed, ends with the status of the task (`RingFits`), and a task that has not started had no events;
- the inbox ends with its status, and nothing about it comes before its creation (`InboxFits`);
- once the list of all tasks was taken, it has a card unless its creation is still in the inbox, and the card is right
  unless a message in the inbox will change it; and what an answer under way will write is right, or about to be changed as well (`CardFits`, `AnswerFits`);
- of a subscribed task, what was not seen is in the inbox, and the latest event comes last (`SeenFits`);
- the last request about it in the outbox, or the server's subscriptions if there is none, is what the browser wants (`SubscriptionFits`).

`CountsFit` says of the counts that handling the inbox, message after message, leads from those shown to the true ones
(`Leads`, a sequence of counts between the two), as soon as the request for a snapshot is answered; a snapshot leads there from anywhere.  The
invariant of `TaskLifecycleProofs` is part of `IInv`, because a message tells the truth only if queue, slots, statuses and runs agree.

The backend's operations all have one form, `Operation`: a task changes its status, all clients are told, its event goes to the
ring and the subscribers, and tasks that waited are started and announced.  `OperationKeeps` proves once that such a step keeps `IInv`, and
each operation is shown to be one.  `ReplayIs` says what a new subscriber is sent, whatever the order of the ids; `AnswerKeeps`
what an answer of the server has to be; `AnswerTaken`, `AppendTasksIs` and `TakeAddedKeeps` what the five ways to take one do to the cards; that the answer to a cancellation
never takes a newer status away rests on `CancelledIsShutDown`: a cancelled task has no run, or one that was shut down, which is the first exception below.  `MessageKeeps` is what the four handlers of the browser have in common; `NewsComeYet` that
a list which is out of date and not overtaken is corrected by a message still in the inbox.
`BoardShowsTheTasks` has three exceptions, each a behaviour of the code that section 5 lists: a task whose cancelled run goes on to tell of itself, one whose card was replaced
from a list that messages had overtaken, until its status changes again, and one whose card has no `projectId`.
Theorems: `TypeCorrect`, `NothingIsMissed`, `BoardShowsTheTasks`, `CountsDoNotDrift`, `RingsKeepTheLatest`.  They hold for any
finite set of tasks, any ring size, any number of slots, messages and lost connections, and any limit on the messages under way.

**AttemptsProofs.**  `IInv` says, subtask by subtask, whose success the file may report (`FileOK`: the
process that is waited for, one that was cut off, or one of an earlier round), which processes may be
alive (`ProcessesOK`), how many there have been (`BoundsOK`: in runDAG, none for a child run, else as many as attempts) and what goes on in which phase
(`StateOK`: the process that is waited for was not cut off, and a subtask that was given up after a cut-off process has used its attempts up); and of the runs, that one which waits for a child has one a level deeper (`HasChild`), and one
that has not ended is waited for (`HasParent`).  None of these is inductive alone: a file is
harmless only because whoever may still write it was cut off, and a child's success counts only because a run
that has ended does not change.  A step concerns one run and at most one that is born of it, so
`StepPreserves` proves once that it preserves `IInv` if it leaves that run in order (`Orderly`); the
lemmas below it (`JobStep`, `PhaseStep`, `EndStep`, `ThrowsPreserves`) reduce the actions to it.
Theorems: `AttemptsAreBounded`, `AttemptsAreMade`, `SuccessIsEarned`, `NothingIsAbandoned`.

Model-checked only: every liveness property (`EventuallyReturns`, `EventuallySettles`,
`QueueMoves`), since TLAPS does not reason about fairness here; and the violations of section 5.  Type correctness and `OutcomesAreFinal` of `DagScheduler`, and type correctness of
`Pipeline`, `RunLock`, `TaskLifecycle` and `Attempts`, are theorems and not checked by a run.

## 5. Where the code and its documentation differ

Four runs are expected to fail, each on one property that a document or a comment
states.  `PROJECT.json` quotes the lines.

- `RunsWithinBound`: cancelling a running task frees its slot while its run goes on.
- `MutualExclusion`, one backend: a run that is refused the lock removes it on its way out.
- `ActiveTasksAreFollowed`: a page that is opened while a task runs does not subscribe to it.
- `RetriedTasksAreShown`: a task that is retried from the panel gets a card with no `projectId`, which is on no column, if
  the answer is handled before the message `task_created`; that message then changes nothing (orchestratorStore.ts:126), and the card is
  not seen until the project is loaded again.

The models show further ones, on which no run is spent:

- two command lines: the lock is read between its creation and its first write, taken for
  corrupted, and removed (taskManager.ts:104; line 44 promises "no TOCTOU race"); `MutualExclusion` fails
  in the instance of `lock`, too, and `ExclusiveUnlessRobbed` says what holds;
- the run of a cancelled task still writes its status, against docs/DATAFLOW.md:1211 (`RunSucceeds`,
  `RunFails`, `AskApproval` of `TaskLifecycle` look at no status);
- the list of all tasks replaces the board although messages that are younger have been applied (App.tsx:63), and nothing sends again
  what they brought, against docs/DATAFLOW.md:1124-1126; `BoardIsRight` excepts the cards concerned (`stale`);
- on a terminal the status line that announces a DAG is erased by the first event of the DAG, and the line of the stage
  stays in its place (dagDisplay.ts:177), against the comment at line 4; so is that of Ctrl+C during Plan or Verify.  `ScreenIsRight` says
  that nothing else is lost;
- `retryLoop` executes in the order of the plan and checks no dependency, against the comment
  at taskOrchestrator.ts:638, and a skipped subtask that the verdict names stays listed as skipped,
  against HUMAN.md:176 (`RetryList` and `RetryAgain` of `Pipeline`);
- a todo task that is cancelled stays in `tasks.json`, against taskPersistence.ts:50, and is todo again
  after a restart (`CancelTask` of `Persistence`).

## 6. What is not modelled, and the plan

Not modelled because it is data or presentation: prompts, schemas, log files, usage
totals, memory texts, how React renders what the stores hold and the views of plans and timelines, the validation of requests, the options of the command line.
`TaskRegistry` is not used by the program.  The rate limiter and authentication decide about a
single request each, and keep a counter that nothing else reads.  Callbacks that throw, errors of the
file system that the code logs and survives, and the pids that the system gives twice are left out everywhere.

Of `Persistence`, two things are not covered: that a number given to a run without one (an old
run, or one of the command line) may be one that a later file brings along, which is why
`NumbersAreDistinct` speaks of new tasks; and several projects, which share the numbers.  Of
`BoardSync`: several projects and browsers; the panel, whose `nodeMap` addRootTask overwrites also where it leaves the card alone (orchestratorStore.ts:124), so
that the two may differ; and the timeline of events, whose request checks before and overwrites after (orchestratorStore.ts:223-245).

What is left of the plan: custom stages in `Pipeline`; several projects in `BoardSync`.
