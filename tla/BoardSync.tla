------------------------------ MODULE BoardSync -----------------------------
(***************************************************************************)
(* What a browser shows of the tasks of one project.                       *)
(*                                                                         *)
(* TaskLifecycle, the tasks in the backend, is composed with the messages  *)
(* its operations send (BroadcastManager, WsServer), with one browser that *)
(* applies them (useWebSocket, wsMessageHandlers, orchestratorStore), and  *)
(* with what the browser asks for over HTTP, on connections of their own:  *)
(* the lists it fetches, and the answers to its own requests to create,    *)
(* retry and cancel a task, each of which writes cards.  An answer may be  *)
(* overtaken by messages that are younger, and may overtake older ones.    *)
(*                                                                         *)
(* A status change goes to every client.  What happens inside a run goes   *)
(* to the clients that subscribed to the task, and into the task's ring,   *)
(* from which a new subscriber gets what it missed.  The browser           *)
(* subscribes when it hears that a task runs.                              *)
(*                                                                         *)
(* The browser is opened at any time in the life of the tasks, loses and   *)
(* regains its connection at any time, and selects the project once.       *)
(***************************************************************************)
EXTENDS MessageBuffer, FiniteSets, SequencesExt

CONSTANTS
  Tasks,          \* the tasks of the project
  MaxConcurrent,  \* CLAW_MAX_TASKS
  Misconfigured,  \* tasks whose stage registry cannot be built
  Paged,          \* the statuses whose cards may be fetched page by page
  Own,            \* bound of the model: the tasks this browser's user may
                  \* create, retry and cancel
  MaxSent,        \* bound of the model: for each task, messages about its run
  MaxBreaks,      \* bound of the model: how often the connection breaks
  MaxInFlight     \* bound of the model: a step of the backend waits if more
                  \* messages and requests than this are on their way, or
                  \* more than one list or answer beside them

ASSUME BoardSyncAssumption ==
  /\ IsFiniteSet(Tasks)
  /\ MaxConcurrent \in Nat \ {0}
  /\ Misconfigured \subseteq Tasks
  /\ Paged \subseteq {"todo", "queued", "running", "awaiting_approval",
                      "completed", "failed", "cancelled"}
  /\ Own \subseteq Tasks
  /\ MaxSent \in [Tasks -> Nat]
  /\ {MaxBreaks, MaxInFlight} \subseteq Nat

VARIABLES
  status, queue, running, run, shutdown,   \* of TaskLifecycle
  buffers,       \* WsServer.buffers
  sent,          \* how many messages were broadcast about each task
  subscriptions, \* WsServer.subscriptions of the client's connection
  link,          \* the WebSocket, "up" or "down"
  breaks,        \* how often the connection broke
  outbox,        \* requests on their way to the server
  inbox,         \* messages on their way to the browser
  selected,      \* whether the project is selected
  activeSubscriptions,   \* the tasks the browser wants to follow
  rootTasks,     \* for each task, the statuses its cards show
  hidden,        \* tasks whose card has no projectId: the board leaves it out
  columnCounts,  \* the counts above the columns
  asked,         \* lists that were requested over HTTP
  answers,       \* lists, and answers to its user, on their way to the browser
  seen,          \* the number of the last message handled about each task
  unbroken,      \* whether the link was up ever since the project was selected
  stale          \* tasks whose card an overtaken list has replaced

Store == INSTANCE TaskLifecycle

storeVars == <<status, queue, running, run, shutdown>>
serverVars == <<buffers, sent, subscriptions>>
httpVars == <<asked, answers>>
viewVars == <<activeSubscriptions, rootTasks, hidden, columnCounts, seen, stale>>
vars == <<storeVars, serverVars, link, breaks, outbox, inbox, selected, unbroken, httpVars, viewVars>>

Shown == Store!Status \ {"absent"}
Existing == {t \in Tasks : status[t] # "absent"}
Terminal == {"completed", "failed", "cancelled"}
Active == Shown \ Terminal

(***************************************************************************)
(* The messages.  An event is numbered, so that properties can tell which  *)
(* were handled; "approved" and "rejected" are approval_resolved, and      *)
(* "progress" stands for the events that change no status.                 *)
(***************************************************************************)
TaskCreated(t, s) == [type |-> "task_created", task |-> t, status |-> s]

StatusChanged(t, old, new) ==
  [type |-> "task_status_changed", task |-> t, oldStatus |-> old, newStatus |-> new]

Event(t, type) == [type |-> type, task |-> t, n |-> sent[t] + 1]

EventType == {"approval_required", "approved", "rejected", "task_complete", "task_error", "progress"}
EventMessage == [type : EventType, task : Tasks, n : Nat \ {0}]

Subscribe(S) == [type |-> "subscribe", nodeIds |-> S]
Unsubscribe(S) == [type |-> "unsubscribe", nodeIds |-> S]
SubscribeProject == [type |-> "subscribe_project"]

(***************************************************************************)
(* A list over HTTP, of all tasks or of one status, and the answers to the *)
(* requests of the user: which card to add, and with which status.         *)
(***************************************************************************)
ListKind == Paged \cup {"all"}
Reply(kind, t, s) == [kind |-> kind, tasks |-> [u \in {t} |-> s]]

Ring == [buffer : [Places -> EventMessage \cup {NoMessage}], head : Places, count : 0 .. MaxSize]

TypeOK ==
  /\ Store!TypeOK
  /\ buffers \in [Tasks -> Ring]
  /\ sent \in [Tasks -> Nat]
  /\ \A t \in Tasks : sent[t] <= MaxSent[t]
  /\ subscriptions \in SUBSET Tasks
  /\ link \in {"up", "down"}
  /\ breaks \in 0 .. MaxBreaks
  /\ link = "down" => inbox = <<>> /\ outbox = <<>> /\ subscriptions = {}
  /\ {selected, unbroken} \subseteq BOOLEAN
  /\ activeSubscriptions \in SUBSET Tasks
  /\ rootTasks \in [Tasks -> {<<>>} \cup {<<s>> : s \in Shown}]
  /\ hidden \in SUBSET Tasks
  /\ columnCounts \in [Shown -> Nat]
  /\ asked \in SUBSET ListKind
  /\ seen \in [Tasks -> Nat]
  /\ stale \in SUBSET Tasks

Init ==
  /\ Store!Init
  /\ buffers = [t \in Tasks |-> Empty]
  /\ sent = [t \in Tasks |-> 0]
  /\ subscriptions = {}
  /\ link = "down"
  /\ breaks = 0
  /\ outbox = <<>>
  /\ inbox = <<>>
  /\ selected = FALSE
  /\ activeSubscriptions = {}
  /\ rootTasks = [t \in Tasks |-> <<>>]
  /\ hidden = {}
  /\ columnCounts = [s \in Shown |-> 0]
  /\ asked = {}
  /\ answers = {}
  /\ seen = [t \in Tasks |-> 0]
  /\ unbroken = FALSE
  /\ stale = {}

-----------------------------------------------------------------------------
(***************************************************************************)
(* What the operations of the backend send: status changes to all, then    *)
(* the event, if there is one, to the ring and to the subscribers, then    *)
(* the starts of the tasks that the scheduler took from `waiting`.         *)
(***************************************************************************)
\* Faulty variant: only the creation or execution of a task is announced.
StartsUnannounced(waiting) == <<>>

\* One message for each of the tasks in `waiting` that was started.
StartsFrom(waiting) ==
  LET told[i \in 0 .. Len(waiting)] ==
        CASE i = 0 -> <<>>
          [] i > 0 /\ run[waiting[i]] = "none" /\ run'[waiting[i]] # "none" ->
               Append(told[i - 1], StatusChanged(waiting[i], "queued", "running"))
          [] OTHER -> told[i - 1]
  IN  told[Len(waiting)]

Keep(events) ==
  /\ \A i \in DOMAIN events : sent[events[i].task] < MaxSent[events[i].task]
  /\ buffers' = [t \in Tasks |->
       IF events # <<>> /\ events[1].task = t THEN Push(buffers[t], events[1]) ELSE buffers[t]]
  /\ sent' = [t \in Tasks |->
       IF events # <<>> /\ events[1].task = t THEN sent[t] + 1 ELSE sent[t]]

ToSubscribers(events) ==
  IF events # <<>> /\ events[1].task \in subscriptions THEN events ELSE <<>>

Broadcast(toAll, events, waiting) ==
  /\ Len(inbox) + Len(outbox) <= MaxInFlight
  /\ Len(inbox) + Len(outbox) + Cardinality(asked) + Cardinality(answers) <= MaxInFlight + 1
  /\ Keep(events)
  /\ inbox' = IF link = "down" THEN inbox
              ELSE inbox \o toAll \o ToSubscribers(events) \o StartsFrom(waiting)
  /\ UNCHANGED <<subscriptions, link, breaks, outbox, selected, unbroken, asked, viewVars>>

(***************************************************************************)
(* A request comes from somebody else, or from the user of this browser,   *)
(* who gets an answer.                                                     *)
(***************************************************************************)
Answer(t, replies) ==
  selected /\ t \in Own /\ \E reply \in replies : answers' = answers \cup {reply}

CreateTodoTask(t) ==
  /\ Store!CreateTodoTask(t)
  /\ Broadcast(<<TaskCreated(t, "todo")>>, <<>>, <<>>)
  /\ UNCHANGED answers \/ Answer(t, {Reply("created", t, "todo")})

\* The answer tells the status after the call, which may have started the task.
CreateTask(t) ==
  /\ Store!CreateTask(t)
  /\ Broadcast(<<TaskCreated(t, "queued")>>, <<>>, Append(queue, t))
  /\ UNCHANGED answers \/ Answer(t, {Reply("created", t, status'[t])})

(***************************************************************************)
(* The user retries a task whose card shows that it failed or was          *)
(* cancelled (a retry by somebody else is a CreateTask).  The answer is    *)
(* only an id: the browser takes the new task for queued if the button was *)
(* on the card (TaskCard), and for running, with no projectId, if it was   *)
(* on the panel (DetailPanel).                                             *)
(***************************************************************************)
RetryTask(t) ==
  /\ \E original \in Tasks : /\ rootTasks[original] \in {<<"failed">>, <<"cancelled">>}
                             /\ Store!RetryTask(original, t)
  /\ Broadcast(<<TaskCreated(t, "queued")>>, <<>>, Append(queue, t))
  /\ Answer(t, {Reply("created", t, "queued"), Reply("retried", t, "running")})

ExecuteTask(t) ==
  /\ Store!ExecuteTask(t)
  /\ Broadcast(<<StatusChanged(t, "todo", "queued")>>, <<>>, Append(queue, t))
  /\ UNCHANGED answers

ApproveTask(t) ==
  /\ Store!ApproveTask(t)
  /\ Broadcast(<<StatusChanged(t, status[t], "running")>>, <<Event(t, "approved")>>, <<>>)
  /\ UNCHANGED answers

RejectTask(t) ==
  /\ Store!RejectTask(t)
  /\ Broadcast(<<StatusChanged(t, status[t], "cancelled")>>, <<Event(t, "rejected")>>, <<>>)
  /\ UNCHANGED answers

CancelTask(t) ==
  /\ Store!CancelTask(t)
  /\ Broadcast(<<StatusChanged(t, status[t], "cancelled")>>, <<>>, queue)
  /\ UNCHANGED answers \/ Answer(t, {Reply("deleted", t, "cancelled")})

\* Faulty variant: the old status is read after it was replaced.
AskForgettingOldStatus(t) ==
  /\ Store!AskApproval(t)
  /\ Broadcast(<<StatusChanged(t, status'[t], "awaiting_approval")>>,
               <<Event(t, "approval_required")>>, <<>>)
  /\ UNCHANGED answers

AskApproval(t) ==
  /\ Store!AskApproval(t)
  /\ Broadcast(<<StatusChanged(t, status[t], "awaiting_approval")>>,
               <<Event(t, "approval_required")>>, <<>>)
  /\ UNCHANGED answers

RunSucceeds(t) ==
  /\ Store!RunSucceeds(t)
  /\ Broadcast(<<StatusChanged(t, status[t], "completed")>>, <<Event(t, "task_complete")>>, queue)
  /\ UNCHANGED answers

\* A refused run has its status from rejectTask, and tells the error only.
RunUnsuccessful(t) ==
  /\ Store!RunUnsuccessful(t)
  /\ Broadcast(IF status'[t] = status[t] THEN <<>> ELSE <<StatusChanged(t, status[t], "failed")>>,
               <<Event(t, "task_error")>>, queue)
  /\ UNCHANGED answers

RunFails(t) ==
  /\ Store!RunFails(t)
  /\ Broadcast(<<StatusChanged(t, status[t], "failed")>>, <<Event(t, "task_error")>>, queue)
  /\ UNCHANGED answers

StartRejected(t) ==
  /\ Store!StartRejected(t)
  /\ Broadcast(<<>>, <<>>, queue)
  /\ UNCHANGED answers

\* The callbacks of a run for its stages, subtasks, plan and messages.
Progress(t) ==
  /\ run[t] = "active"
  /\ Broadcast(<<>>, <<Event(t, "progress")>>, <<>>)
  /\ UNCHANGED <<storeVars, answers>>

-----------------------------------------------------------------------------
(***************************************************************************)
(* WsServer.handleMessage: a request of the browser.                       *)
(***************************************************************************)
Replay(order) == FlattenSeq([i \in DOMAIN order |-> GetAll(buffers[order[i]])])

\* Faulty variant: nothing is replayed.
ServeSubscribeLive(nodeIds) ==
  /\ subscriptions' = subscriptions \cup nodeIds
  /\ UNCHANGED inbox

ServeSubscribe(nodeIds) ==
  /\ subscriptions' = subscriptions \cup nodeIds
  /\ \E order \in SetToSeqs(nodeIds \ subscriptions) : inbox' = inbox \o Replay(order)

ServeUnsubscribe(nodeIds) ==
  /\ subscriptions' = subscriptions \ nodeIds
  /\ UNCHANGED inbox

Count(s) == Cardinality({t \in Tasks : status[t] = s})

\* Active tasks only, the counts for all of them.
Snapshot ==
  [type |-> "project_tasks_snapshot",
   tasks |-> [t \in {u \in Tasks : status[u] \in Active} |-> status[t]],
   counts |-> [s \in Shown |-> Count(s)]]

ServeSubscribeProject ==
  /\ inbox' = Append(inbox, Snapshot)
  /\ UNCHANGED subscriptions

HandleRequest ==
  /\ outbox # <<>>
  /\ LET request == Head(outbox)
     IN  CASE request.type = "subscribe" -> ServeSubscribe(request.nodeIds)
           [] request.type = "unsubscribe" -> ServeUnsubscribe(request.nodeIds)
           [] request.type = "subscribe_project" -> ServeSubscribeProject
  /\ outbox' = Tail(outbox)
  /\ UNCHANGED <<storeVars, buffers, sent, link, breaks, selected, unbroken, httpVars, viewVars>>

-----------------------------------------------------------------------------
(***************************************************************************)
(* The connection.  What was on its way when it broke is lost, and with it *)
(* the server's subscriptions (cleanup); the browser connects again and    *)
(* asks for everything it wants to follow.                                 *)
(***************************************************************************)
Resubscribe ==
  (IF activeSubscriptions # {} THEN <<Subscribe(activeSubscriptions)>> ELSE <<>>)
    \o (IF selected THEN <<SubscribeProject>> ELSE <<>>)

Connect ==
  /\ link = "down"
  /\ link' = "up"
  /\ outbox' = Resubscribe
  /\ UNCHANGED <<storeVars, serverVars, breaks, inbox, selected, unbroken, httpVars, viewVars>>

Disconnect ==
  /\ link = "up"
  /\ selected /\ asked = {} /\ answers = {}   \* bound of the model: the lists are there
  /\ breaks < MaxBreaks
  /\ breaks' = breaks + 1
  /\ link' = "down"
  /\ subscriptions' = {}
  /\ inbox' = <<>>
  /\ outbox' = <<>>
  /\ unbroken' = FALSE
  /\ UNCHANGED <<storeVars, buffers, sent, selected, httpVars, viewVars>>

\* send: a request is dropped if the socket is not open.
Send(request) == outbox' = IF link = "up" THEN Append(outbox, request) ELSE outbox

-----------------------------------------------------------------------------
(***************************************************************************)
(* The lists.  Selecting a project empties the board, subscribes to the    *)
(* project and fetches the pages of the terminal statuses (ProjectSidebar) *)
(* and the list of all its tasks (App).  A column with fewer cards than    *)
(* its count says has a button that fetches more, of any status.           *)
(***************************************************************************)
SelectProject ==
  /\ ~selected
  /\ selected' = TRUE
  /\ rootTasks' = [t \in Tasks |-> <<>>]
  /\ Send(SubscribeProject)
  /\ asked' = {"all"} \cup (Paged \cap Terminal)
  /\ hidden' = {}
  /\ unbroken' = (link = "up")
  /\ UNCHANGED <<storeVars, serverVars, link, breaks, inbox, answers,
                 activeSubscriptions, columnCounts, seen, stale>>

Column == {{"todo"}, {"queued"}, {"awaiting_approval"}, {"running"}, {"failed", "cancelled"}, {"completed"}}

Cards(column) == {t \in Tasks \ hidden : \E s \in column : rootTasks[t] = <<s>>}
Total(column) == MapThenSumSet(LAMBDA s : columnCounts[s], column)

LoadMore(column) ==
  /\ selected
  /\ Total(column) > Cardinality(Cards(column))
  /\ column \cap Paged # {}
  /\ column \cap (asked \cup {answer.kind : answer \in answers}) = {}   \* bound of the model
  /\ Len(inbox) + Len(outbox) + Cardinality(asked) + Cardinality(answers) <= MaxInFlight
  /\ asked' = asked \cup (column \cap Paged)
  /\ UNCHANGED <<storeVars, serverVars, link, breaks, inbox, outbox, selected, unbroken, answers, viewVars>>

\* Which part of the tasks a page holds depends on its offset and its limit.
Listed(kind) ==
  IF kind = "all" THEN {Existing} ELSE SUBSET {t \in Tasks : status[t] = kind}

AnswerList(kind) ==
  /\ kind \in asked
  /\ asked' = asked \ {kind}
  /\ \E listed \in Listed(kind) :
       answers' = answers \cup {[kind |-> kind, tasks |-> [t \in listed |-> status[t]]]}
  /\ UNCHANGED <<storeVars, serverVars, link, breaks, inbox, outbox, selected, unbroken, viewVars>>

\* Faulty variant: cards are not looked for before they are added.
AppendTasksTwice(tasks) ==
  [t \in Tasks |-> IF t \in DOMAIN tasks THEN Append(rootTasks[t], tasks[t]) ELSE rootTasks[t]]

AppendTasks(tasks) ==
  [t \in Tasks |-> IF t \in DOMAIN tasks /\ rootTasks[t] = <<>> THEN <<tasks[t]>> ELSE rootTasks[t]]

SetRootTasks(tasks) == [t \in Tasks |-> IF t \in DOMAIN tasks THEN <<tasks[t]>> ELSE <<>>]

(***************************************************************************)
(* For the properties: list `tasks` is old news about t, and the message   *)
(* that brings the news has been handled already, or is lost.              *)
(***************************************************************************)
Overtaken(tasks, t) ==
  LET listed == IF t \in DOMAIN tasks THEN tasks[t] ELSE "absent"
      news == IF listed = "absent" THEN "task_created" ELSE "task_status_changed"
  IN  /\ listed # status[t]
      /\ \A i \in DOMAIN inbox : inbox[i].type = news => inbox[i].task # t

TakeList(answer) ==
  /\ answer.kind = "all"
  /\ rootTasks' = SetRootTasks(answer.tasks)
  /\ hidden' = {}
  /\ stale' = {t \in Tasks : Overtaken(answer.tasks, t)}

TakePage(answer) ==
  /\ answer.kind \in Paged
  /\ rootTasks' = AppendTasks(answer.tasks)
  /\ stale' = stale \cup {t \in DOMAIN answer.tasks :
                            rootTasks[t] = <<>> /\ Overtaken(answer.tasks, t)}
  /\ UNCHANGED hidden

\* addRootTask: one card, like appendTasks; a card that exists is left as it is.
TakeCreated(answer) ==
  /\ answer.kind = "created"
  /\ rootTasks' = AppendTasks(answer.tasks)
  /\ UNCHANGED <<hidden, stale>>

TakeRetried(answer) ==
  /\ answer.kind = "retried"
  /\ rootTasks' = AppendTasks(answer.tasks)
  /\ hidden' = hidden \cup {t \in DOMAIN answer.tasks : rootTasks[t] = <<>>}
  /\ UNCHANGED stale

UpdateTaskStatus(t, s) == [rootTasks EXCEPT ![t] = [i \in DOMAIN @ |-> s]]

TakeDeleted(answer) ==
  /\ answer.kind = "deleted"
  /\ \E t \in DOMAIN answer.tasks : rootTasks' = UpdateTaskStatus(t, answer.tasks[t])
  /\ UNCHANGED <<hidden, stale>>

TakeAnswer(answer) ==
  /\ answer \in answers
  /\ answers' = answers \ {answer}
  /\ \/ TakeList(answer)
     \/ TakePage(answer)
     \/ TakeCreated(answer)
     \/ TakeRetried(answer)
     \/ TakeDeleted(answer)
  /\ UNCHANGED <<storeVars, serverVars, link, breaks, inbox, outbox, selected, unbroken, asked,
                 activeSubscriptions, columnCounts, seen>>

-----------------------------------------------------------------------------
(***************************************************************************)
(* The handlers of the browser's store.                                    *)
(***************************************************************************)

Follow(t) ==
  /\ activeSubscriptions' = activeSubscriptions \cup {t}
  /\ Send(Subscribe({t}))

Unfollow(t) ==
  /\ activeSubscriptions' = activeSubscriptions \ {t}
  /\ Send(Unsubscribe({t}))

HandleTaskCreated(m) ==
  /\ rootTasks' = [rootTasks EXCEPT ![m.task] = IF @ = <<>> THEN <<m.status>> ELSE @]
  /\ columnCounts' = [columnCounts EXCEPT ![m.status] = @ + 1]
  /\ UNCHANGED <<activeSubscriptions, outbox, seen, stale>>

Moved(counts, old, new) ==
  [[counts EXCEPT ![old] = IF @ > 0 THEN @ - 1 ELSE @] EXCEPT ![new] = @ + 1]

HandleTaskStatusChanged(m) ==
  /\ rootTasks' = UpdateTaskStatus(m.task, m.newStatus)
  /\ columnCounts' = Moved(columnCounts, m.oldStatus, m.newStatus)
  /\ CASE m.newStatus = "running" -> Follow(m.task)
       [] m.newStatus \in Terminal -> Unfollow(m.task)
       [] OTHER -> UNCHANGED <<activeSubscriptions, outbox>>
  /\ stale' = IF rootTasks[m.task] = <<>> THEN stale ELSE stale \ {m.task}
  /\ UNCHANGED seen

\* A card that exists is left as it is, and nothing is subscribed to.
HandleProjectTasksSnapshot(m) ==
  /\ columnCounts' = m.counts
  /\ rootTasks' = AppendTasks(m.tasks)
  /\ UNCHANGED <<activeSubscriptions, outbox, seen, stale>>

StatusOf(type) ==
  CASE type = "approval_required" -> "awaiting_approval"
    [] type = "approved" -> "running"
    [] type = "rejected" -> "cancelled"
    [] type = "task_complete" -> "completed"
    [] type = "task_error" -> "failed"

HandleEvent(m) ==
  /\ seen' = [seen EXCEPT ![m.task] = m.n]
  /\ rootTasks' = IF m.type = "progress" THEN rootTasks
                  ELSE UpdateTaskStatus(m.task, StatusOf(m.type))
  /\ IF m.type \in {"task_complete", "task_error"}
     THEN Unfollow(m.task)
     ELSE UNCHANGED <<activeSubscriptions, outbox>>
  /\ UNCHANGED <<columnCounts, stale>>

HandleWsMessage ==
  /\ inbox # <<>>
  /\ inbox' = Tail(inbox)
  /\ LET m == Head(inbox)
     IN  CASE m.type = "task_created" -> HandleTaskCreated(m)
           [] m.type = "task_status_changed" -> HandleTaskStatusChanged(m)
           [] m.type = "project_tasks_snapshot" -> HandleProjectTasksSnapshot(m)
           [] OTHER -> HandleEvent(m)
  /\ UNCHANGED <<storeVars, serverVars, link, breaks, selected, unbroken, httpVars, hidden>>

-----------------------------------------------------------------------------
Next ==
  \/ \E t \in Tasks : CreateTodoTask(t)
  \/ \E t \in Tasks : CreateTask(t)
  \/ \E t \in Tasks : RetryTask(t)
  \/ \E t \in Tasks : ExecuteTask(t)
  \/ \E t \in Tasks : ApproveTask(t)
  \/ \E t \in Tasks : RejectTask(t)
  \/ \E t \in Tasks : CancelTask(t)
  \/ \E t \in Tasks : AskApproval(t)
  \/ \E t \in Tasks : RunSucceeds(t)
  \/ \E t \in Tasks : RunUnsuccessful(t)
  \/ \E t \in Tasks : RunFails(t)
  \/ \E t \in Tasks : StartRejected(t)
  \/ \E t \in Tasks : Progress(t)
  \/ HandleRequest
  \/ Connect
  \/ Disconnect
  \/ SelectProject
  \/ \E column \in Column : LoadMore(column)
  \/ \E kind \in ListKind : AnswerList(kind)
  \/ \E answer \in answers : TakeAnswer(answer)
  \/ HandleWsMessage

Spec == Init /\ [][Next]_vars
-----------------------------------------------------------------------------
Delivered == link = "up" /\ inbox = <<>> /\ outbox = <<>>

Loaded == selected /\ unbroken /\ asked = {} /\ answers = {}

(***************************************************************************)
(* A ring holds the latest events of its task, all that were sent while    *)
(* they fit, in their order, however often it has wrapped around.          *)
(***************************************************************************)
BuffersHoldTheLatest ==
  \A t \in Tasks :
    LET held == GetAll(buffers[t])
    IN  /\ Len(held) = IF sent[t] < MaxSize THEN sent[t] ELSE MaxSize
        /\ \A i \in 1 .. Len(held) : held[i].task = t /\ held[i].n = sent[t] - Len(held) + i

(***************************************************************************)
(* Nothing is missed for good: once all messages are delivered, the server *)
(* sends the browser exactly what it wants to follow, and the browser has  *)
(* the latest event of each of these tasks, through any subscriptions,     *)
(* cancellations and lost connections that raced with the events.          *)
(***************************************************************************)
CaughtUp ==
  Delivered =>
    /\ subscriptions = activeSubscriptions
    /\ \A t \in activeSubscriptions : seen[t] = sent[t]

\* Not told apart: what the run of a task shows that has been cancelled.
ShowsStatus(t) ==
  /\ Len(rootTasks[t]) = IF status[t] = "absent" THEN 0 ELSE 1
  /\ rootTasks[t] \in {<<>>, <<status[t]>>} \/ status[t] = "cancelled" \/ t \in shutdown

(***************************************************************************)
(* The board is right: once everything is delivered to a browser whose     *)
(* connection held, each task has its one card, and the card shows the     *)
(* status of the task.  Replays, snapshots, lists and the answers to the   *)
(* user arrive in any order.  Three exceptions: a task whose cancelled run *)
(* goes on to tell of itself; a task whose card was replaced from a list   *)
(* that was overtaken, until its status changes again; and one whose card  *)
(* was added with no projectId, of which see RetriedTasksAreShown.         *)
(***************************************************************************)
BoardIsRight ==
  Delivered /\ Loaded => \A t \in Tasks \ (stale \cup hidden) : ShowsStatus(t)

(***************************************************************************)
(* The counts above the columns are kept by increments and decrements only *)
(* and yet never drift from the number of tasks: neither through a         *)
(* snapshot among the changes nor through a lost connection.               *)
(***************************************************************************)
CountsAreRight ==
  Delivered /\ selected => \A s \in Shown : columnCounts[s] = Count(s)

-----------------------------------------------------------------------------
(***************************************************************************)
(* What the documentation says and the code does not do.                   *)
(*                                                                         *)
(* "Auto-subscribe to tasks with status 'running' or 'awaiting_approval'"  *)
(* when a project is selected.                                             *)
(***************************************************************************)
ActiveTasksAreFollowed ==
  Delivered /\ Loaded =>
    \A t \in Tasks : status[t] \in {"running", "awaiting_approval"} => t \in activeSubscriptions

(***************************************************************************)
(* "Add the new task to the sidebar and select it": a task that its user   *)
(* has retried has a card on the board.                                    *)
(***************************************************************************)
RetriedTasksAreShown == Delivered /\ Loaded => hidden = {}
=============================================================================
