----------------------------- MODULE Persistence ----------------------------
(***************************************************************************)
(* The tasks of the backend across crashes and restarts, of one project.   *)
(*                                                                         *)
(* TaskLifecycle, the board in memory, is composed with what is on disk:   *)
(* tasks.json, which holds the tasks that wait to be executed, and one     *)
(* manifest for each run.  Every operation of the board is joined with     *)
(* what it writes; a restart forgets the board and builds it anew from the *)
(* files (restoreState).  Nothing else is saved: a queued task is on the   *)
(* board only.  Runs of the command line leave manifests too; the board    *)
(* learns of them, and numbers them, when it is restored.                  *)
(*                                                                         *)
(* A file is replaced in one step, but by a process that dies meanwhile:   *)
(* it leaves a file nobody can read, which counts as an empty one.  Errors *)
(* of the file system in a process that lives on are caught and logged by  *)
(* the code; they are not modelled.                                        *)
(***************************************************************************)
EXTENDS Naturals, FiniteSets, Sequences, SequencesExt

CONSTANTS
  Tasks,          \* the names of tasks, those of CliRuns among them
  MaxConcurrent,  \* CLAW_MAX_TASKS
  Misconfigured,  \* tasks of a project whose custom stages cannot be merged
  CliRuns,        \* the runs that are started from the command line
  CliOutcomes,    \* the outcomes they may have
  Unnumbered,     \* todo tasks in a tasks.json from before tasks had numbers
  MaxNumber       \* bound of the model: the last number given to a new task

ASSUME PersistenceAssumption ==
  /\ IsFiniteSet(Tasks)
  /\ MaxConcurrent \in Nat \ {0}
  /\ Misconfigured \subseteq Tasks
  /\ CliRuns \subseteq Tasks
  /\ Unnumbered \subseteq Tasks \ CliRuns
  /\ CliOutcomes \subseteq {"completed", "failed", "cancelled"}
  /\ MaxNumber \in Nat

VARIABLES
  status, queue, running, run, shutdown,   \* of TaskLifecycle
  number,     \* ManagedTask.taskNumber; 0 if the task is not on the board
  next,       \* TaskStateMachine.nextTaskNumber
  todoFile,   \* the tasks of tasks.json, in its order
  runs,       \* the runs that have a manifest, the oldest first
  manifest,   \* the status in the manifest of each task's run
  saved       \* the number in the task's entry or manifest; 0 if it has none

Board == INSTANCE TaskLifecycle

boardVars == <<status, queue, running, run, shutdown>>
diskVars == <<todoFile, runs, manifest, saved>>
vars == <<boardVars, number, next, diskVars>>

ManifestStatus == {"running", "completed", "failed", "cancelled"}

InFile == ToSet(todoFile)

\* The sequence s without the elements of `out` (Array.filter).
Filtered(s, out) ==
  LET kept[i \in 0 .. Len(s)] ==
        CASE i = 0 -> <<>>
          [] i > 0 /\ s[i] \in out -> kept[i - 1]
          [] OTHER -> Append(kept[i - 1], s[i])
  IN  kept[Len(s)]

TypeOK ==
  /\ Board!TypeOK
  /\ number \in [Tasks -> Nat]
  /\ next \in Nat \ {0}
  /\ todoFile \in Seq(Tasks)
  /\ runs \in Seq(Tasks)
  /\ manifest \in [Tasks -> ManifestStatus \cup {"none"}]
  /\ saved \in [Tasks -> Nat]

-----------------------------------------------------------------------------
(***************************************************************************)
(* The board that restoreState builds from a tasks.json and the runs.      *)
(***************************************************************************)
\* Faulty variant: an interrupted run has a status of its own.
OutcomeInterrupted(s) == IF s = "running" THEN "interrupted" ELSE s

Outcome(s) == IF s = "running" THEN "failed" ELSE s

RestoredStatus(file, ran) ==
  [t \in Tasks |-> CASE t \in ToSet(file) -> "todo"
                     [] t \in ToSet(ran) \ ToSet(file) -> Outcome(manifest[t])
                     [] OTHER -> "absent"]

\* Faulty variant: nextTaskNumber does not follow the numbers that were saved.
RegisterWithoutUpdate(board, t) ==
  IF saved[t] = 0
  THEN [next |-> board.next + 1, number |-> [board.number EXCEPT ![t] = board.next]]
  ELSE [board EXCEPT !.number[t] = saved[t]]

\* registerTask: a task without a number is given the next one.
Register(board, t) ==
  LET n == IF saved[t] = 0 THEN board.next ELSE saved[t]
  IN  [next |-> IF n >= board.next THEN n + 1 ELSE board.next,
       number |-> [board.number EXCEPT ![t] = n]]

\* The numbering after each of the tasks in `order` was registered.
Registering(order) ==
  LET board[i \in 0 .. Len(order)] ==
        IF i = 0 THEN [next |-> 1, number |-> [t \in Tasks |-> 0]]
        ELSE Register(board[i - 1], order[i])
  IN  board

Numbered(file, ran) == Registering(file \o ran)[Len(file \o ran)]

Init ==
  /\ todoFile = SetToSeq(Unnumbered)
  /\ runs = <<>>
  /\ manifest = [t \in Tasks |-> "none"]
  /\ status = [t \in Tasks |-> IF t \in Unnumbered THEN "todo" ELSE "absent"]
  /\ number = [t \in Tasks |-> IF t \in Unnumbered
                               THEN CHOOSE i \in DOMAIN todoFile : todoFile[i] = t
                               ELSE 0]
  /\ next = Len(todoFile) + 1
  /\ saved = number
  /\ queue = <<>>
  /\ running = {}
  /\ run = [t \in Tasks |-> "none"]
  /\ shutdown = {}

-----------------------------------------------------------------------------
(***************************************************************************)
(* What the operations of the board write.                                 *)
(*                                                                         *)
(* A task that leaves the queue begins its run at once: run() looks for    *)
(* the claude program and, if it is there, writes the first manifest, all  *)
(* before it waits for anything.  If not, the run has no manifest.         *)
(***************************************************************************)
Beginning == {t \in Tasks : run[t] = "none" /\ run'[t] = "active"}

BeginRuns(onDisk) ==
  \E begin \in {Beginning, {}} :
    /\ \E order \in SetToSeqs(begin) : runs' = runs \o order
    /\ manifest' = [t \in Tasks |-> IF t \in begin THEN "running" ELSE manifest[t]]
    /\ saved' = [t \in Tasks |-> IF t \in begin THEN number'[t] ELSE onDisk[t]]

NewNumber(t) ==
  /\ t \notin CliRuns
  /\ next <= MaxNumber
  /\ number' = [number EXCEPT ![t] = next]
  /\ next' = next + 1

CreateTodoTask(t) ==
  /\ NewNumber(t)
  /\ Board!CreateTodoTask(t)
  /\ todoFile' = Append(todoFile, t)
  /\ saved' = [saved EXCEPT ![t] = next]
  /\ UNCHANGED <<runs, manifest>>

\* Also what retryTask does, if the original task is not under way.
CreateTask(t) ==
  /\ NewNumber(t)
  /\ Board!CreateTask(t)
  /\ BeginRuns(saved)
  /\ UNCHANGED todoFile

\* Faulty variant: the task is executed and stays in tasks.json.
ExecuteWithoutRemoval(t) ==
  /\ Board!ExecuteTask(t)
  /\ UNCHANGED <<number, next>>
  /\ BeginRuns(saved)
  /\ UNCHANGED todoFile

ExecuteTask(t) ==
  /\ Board!ExecuteTask(t)
  /\ UNCHANGED <<number, next>>
  /\ BeginRuns([saved EXCEPT ![t] = 0])
  /\ todoFile' = Filtered(todoFile, {t})

\* cancelTask leaves tasks.json alone, also when it cancels a todo task.
CancelTask(t) ==
  /\ Board!CancelTask(t)
  /\ UNCHANGED <<number, next>>
  /\ BeginRuns(saved)
  /\ UNCHANGED todoFile

Answer(t) ==
  /\ Board!Answer(t)
  /\ UNCHANGED <<number, next, diskVars>>

StartRejected(t) ==
  /\ Board!StartRejected(t)
  /\ UNCHANGED <<number, next>>
  /\ BeginRuns(saved)
  /\ UNCHANGED todoFile

-----------------------------------------------------------------------------
(***************************************************************************)
(* A run writes its outcome into the manifest before its promise settles,  *)
(* and the board learns of it after that, or never if the server dies.     *)
(* Distilling the memory of a successful run takes its time in between.    *)
(***************************************************************************)
AskApproval(t) ==
  /\ manifest[t] = "running"
  /\ Board!AskApproval(t)
  /\ UNCHANGED <<number, next, diskVars>>

WriteOutcome(t) ==
  /\ manifest[t] = "running"
  /\ \E s \in ManifestStatus \ {"running"} :
       /\ run[t] = IF s = "cancelled" THEN "refused" ELSE "active"
       /\ manifest' = [manifest EXCEPT ![t] = s]
  /\ UNCHANGED <<boardVars, number, next, todoFile, runs, saved>>

\* Faulty variant: the board is told before the outcome is written.
SettlesBeforeWriting(t) ==
  /\ Board!RunSucceeds(t) \/ Board!RunUnsuccessful(t) \/ Board!RunFails(t)
  /\ UNCHANGED <<number, next>>
  /\ BeginRuns(saved)
  /\ UNCHANGED todoFile

RunSettles(t) ==
  /\ \/ manifest[t] = "completed" /\ Board!RunSucceeds(t)
     \/ manifest[t] \in {"failed", "cancelled"} /\ Board!RunUnsuccessful(t)
     \/ manifest[t] \in {"failed", "none"} /\ Board!RunFails(t)
  /\ UNCHANGED <<number, next>>
  /\ BeginRuns(saved)
  /\ UNCHANGED todoFile

\* A run of the command line, which knows nothing of the board.
CliRunStarts(c) ==
  /\ c \notin ToSet(runs)
  /\ runs' = Append(runs, c)
  /\ manifest' = [manifest EXCEPT ![c] = "running"]
  /\ UNCHANGED <<boardVars, number, next, todoFile, saved>>

CliRunEnds(c) ==
  /\ manifest[c] = "running"
  /\ \E s \in CliOutcomes : manifest' = [manifest EXCEPT ![c] = s]
  /\ UNCHANGED <<boardVars, number, next, todoFile, runs, saved>>

-----------------------------------------------------------------------------
(***************************************************************************)
(* SIGTERM: the tasks that are under way are cancelled one after the other *)
(* in the order of the registry, which may be any.  Each cancellation      *)
(* drains the queue, so that queued tasks begin a run before their turn to *)
(* be cancelled comes.  The process ends some time later.                  *)
(***************************************************************************)
UnderWay == {t \in Tasks : status[t] \in {"running", "queued", "awaiting_approval"}}

CancelNext(board, t) ==
  LET q == Board!Dequeued(board.queue, t)
      held == board.held \ {t}
      S == Board!Started(q, held)
  IN  [queue |-> SubSeq(q, Cardinality(S) + 1, Len(q)),
       held |-> held \cup S,
       began |-> board.began \cup S]

\* The scheduler after each of the tasks in `order` was cancelled.
Cancelling(order) ==
  LET board[i \in 0 .. Len(order)] ==
        IF i = 0 THEN [queue |-> queue, held |-> running, began |-> {}]
        ELSE CancelNext(board[i - 1], order[i])
  IN  board

CancelAll(order) ==
  LET end == Cancelling(order)[Len(order)]
      begun == end.began \ Misconfigured
  IN  /\ queue' = end.queue
      /\ running' = end.held
      /\ status' = [t \in Tasks |-> IF t \in ToSet(order) THEN "cancelled"
                                    ELSE IF t \in end.began THEN "running" ELSE status[t]]
      /\ run' = [t \in Tasks |-> CASE t \in begun -> "active"
                                   [] t \in end.began \ begun -> "failing"
                                   [] OTHER -> run[t]]
      /\ shutdown' = shutdown \cup
           {t \in ToSet(order) : run[t] \in Board!Live \/ t \in begun}

\* Faulty variant: queued tasks are not cancelled, for they do not run yet.
ShutdownOfRunning ==
  /\ \E order \in SetToSeqs({t \in UnderWay : status[t] # "queued"}) : CancelAll(order)
  /\ UNCHANGED <<number, next>>
  /\ BeginRuns(saved)
  /\ UNCHANGED todoFile

GracefulShutdown ==
  /\ \E order \in SetToSeqs(UnderWay) : CancelAll(order)
  /\ UNCHANGED <<number, next>>
  /\ BeginRuns(saved)
  /\ UNCHANGED todoFile

-----------------------------------------------------------------------------
(***************************************************************************)
(* The server dies and comes back, with the runs in `torn` unreadable.     *)
(* Numbers that were given on the way are written back to the files.  A    *)
(* crash on the way is followed by a restart that gives the same numbers.  *)
(***************************************************************************)
Forget ==
  /\ queue' = <<>>
  /\ running' = {}
  /\ run' = [t \in Tasks |-> "none"]
  /\ shutdown' = {}

\* Faulty variant: the numbers that were given are not written back.
RestoreWithoutBackfill(file, torn) ==
  LET ran == Filtered(runs, torn)
      board == Numbered(file, ran)
  IN  /\ Forget
      /\ status' = RestoredStatus(file, ran)
      /\ number' = board.number
      /\ next' = board.next
      /\ todoFile' = file
      /\ runs' = ran
      /\ manifest' = [t \in Tasks |-> IF t \in torn THEN "none" ELSE manifest[t]]
      /\ saved' = [t \in Tasks |-> IF t \in ToSet(file \o ran) THEN saved[t] ELSE 0]

Restore(file, torn) ==
  LET ran == Filtered(runs, torn)
      board == Numbered(file, ran)
  IN  /\ Forget
      /\ status' = RestoredStatus(file, ran)
      /\ number' = board.number
      /\ next' = board.next
      /\ todoFile' = file
      /\ runs' = ran
      /\ manifest' = [t \in Tasks |-> IF t \in torn THEN "none" ELSE manifest[t]]
      /\ saved' = board.number

\* tasks.json may be torn while it is written, and so may be the manifest of
\* a run under way, which is rewritten at the end of each of its stages.
Restart ==
  \/ Restore(todoFile, {})
  \/ Restore(<<>>, {})
  \/ \E t \in Tasks : /\ run[t] \in Board!Live
                      /\ manifest[t] = "running"
                      /\ Restore(todoFile, {t})

Next ==
  \/ \E t \in Tasks : CreateTodoTask(t)
  \/ \E t \in Tasks : CreateTask(t)
  \/ \E t \in Tasks : ExecuteTask(t)
  \/ \E t \in Tasks : CancelTask(t)
  \/ \E t \in Tasks : Answer(t)
  \/ \E t \in Tasks : StartRejected(t)
  \/ \E t \in Tasks : AskApproval(t)
  \/ \E t \in Tasks : WriteOutcome(t)
  \/ \E t \in Tasks : RunSettles(t)
  \/ \E c \in CliRuns : CliRunStarts(c)
  \/ \E c \in CliRuns : CliRunEnds(c)
  \/ GracefulShutdown
  \/ Restart

Spec == Init /\ [][Next]_vars
-----------------------------------------------------------------------------
(***************************************************************************)
(* A crash at any moment brings no piece of work back twice: not as a todo *)
(* task and as the run that executed it (executeTask, restoreState), nor   *)
(* as two entries of the same file.                                        *)
(***************************************************************************)
WorkIsSavedOnce ==
  /\ \A t \in InFile : manifest[t] = "none"
  /\ IsInjective(todoFile)
  /\ IsInjective(runs)

(***************************************************************************)
(* What the board shows as waiting or as done is what it would show after  *)
(* a crash at this moment, although the board and the files are written    *)
(* one after the other by different classes; only the failure of a run     *)
(* that never had a manifest would be gone.                                *)
(***************************************************************************)
OutcomesAreSaved ==
  LET again == RestoredStatus(todoFile, runs)
      Settled(t) == status[t] \in {"completed", "failed"}
                    \/ (run[t] = "ended" /\ t \notin shutdown)
  IN  \A t \in Tasks \ CliRuns :
        /\ status[t] = "todo" => again[t] = "todo"
        /\ status[t] = "completed" => manifest[t] = "completed"
        /\ Settled(t) /\ manifest[t] # "none" => again[t] = status[t]

(***************************************************************************)
(* Numbers that were given to new tasks are distinct over all restarts,    *)
(* and a new task has a number that no task on the board has.  (A number   *)
(* given by a restore may be one that a later file brings along.)          *)
(***************************************************************************)
NumbersAreDistinct ==
  /\ \A t, u \in Tasks \ (CliRuns \cup Unnumbered) :
       number[t] = number[u] /\ number[t] # 0 => t = u
  /\ \A t \in Tasks : number[t] < next

(***************************************************************************)
(* A task keeps its number for as long as it is on the board, restarts     *)
(* included (the backfill of restoreState, "for stability across           *)
(* restarts").                                                             *)
(***************************************************************************)
NumbersAreKept ==
  [][\A t \in Tasks : status[t] # "absent" /\ status'[t] # "absent"
                      => number'[t] = number[t]]_vars

(***************************************************************************)
(* A graceful shutdown reaches the runs that its own cancellations start:  *)
(* afterwards nothing is queued and every run that goes on was told to     *)
(* stop, but for a refused one, which stops by itself.                     *)
(***************************************************************************)
ShutdownReachesAll ==
  [][GracefulShutdown =>
       /\ queue' = <<>>
       /\ \A t \in Tasks : run'[t] \in Board!Live => t \in shutdown' \/ run'[t] = "refused"
    ]_vars
=============================================================================
