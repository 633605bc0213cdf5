----------------------------- MODULE DagDisplay -----------------------------
(***************************************************************************)
(* The live display of a run on the command line, composed with the        *)
(* scheduler whose events it shows.                                        *)
(*                                                                         *)
(* On a terminal the display ends with a zone of lines that are rewritten  *)
(* in place: it remembers how many there are, moves the cursor up by as    *)
(* many, and clears them.  Outcomes and status lines are printed above it, *)
(* to stay.  Four parties write: the events of runDAG, the ticker of the   *)
(* DAG, the ticker of a stage, which runs beside it, and status lines,     *)
(* which a run, those nested in it and a signal handler send.              *)
(*                                                                         *)
(* Elapsed times are left out, and with them the lines that, where there   *)
(* is no terminal, only bring them up to date; so is the width of lines.   *)
(*                                                                         *)
(* A step of DagScheduler with what the display makes of it has the name   *)
(* of that step and Shown after it.                                        *)
(***************************************************************************)
EXTENDS DagScheduler, Sequences, SequencesExt

CONSTANTS
  MaxRetries,   \* maxRetries, the rounds of retryLoop
  MaxStatus     \* bound of the model: status lines

VARIABLES
  stage,       \* what run() is at
  round,       \* the rounds of retryLoop so far
  display,     \* the DagDisplay, and what it has written
  said         \* how many status lines were sent

displayVars == <<vars, stage, round, display, said>>

Stage == {"Plan", "approval", "Execute", "Verify", "retry", "done"}
Ticking == {"Plan", "Execute", "Verify"}

EntryState == {"absent", "waiting", "running", "completed", "failed", "skipped"}
Final == {"completed", "failed", "skipped"}
Begun == Final \cup {"running"}

\* A line of the screen: about a subtask, or the list of what is blocked, or
\* the stage, or the n-th status line.
Line(kind, of) == [kind |-> kind, of |-> of]

-----------------------------------------------------------------------------
(***************************************************************************)
(* The methods of DagDisplay, as functions of the display.                 *)
(***************************************************************************)
Sorted(S) ==
  CHOOSE indices \in [1 .. Cardinality(S) -> S] :
    \A i, j \in 1 .. Cardinality(S) : i < j => indices[i] < indices[j]

InState(d, S) == {t \in Subtasks : d.entries[t] \in S}

EntryLines(d, S) ==
  LET indices == Sorted(S)
  IN  [i \in 1 .. Cardinality(S) |-> Line(d.entries[indices[i]], indices[i])]

\* getBlockedEntries; an index that is not an entry blocks nothing.
BlockedEntries(d) ==
  {t \in Subtasks : /\ d.entries[t] = "waiting"
                    /\ \E i \in plan[t] \cap Subtasks : d.entries[i] # "completed"}

WaitingLine(d) ==
  IF BlockedEntries(d) = {} THEN <<>> ELSE <<Line("blocked", BlockedEntries(d))>>

ZoneLines(d) == EntryLines(d, InState(d, {"running"})) \o WaitingLine(d)

Write(d, lines) == [d EXCEPT !.screen = @ \o lines]

EraseZone(d) ==
  [d EXCEPT !.screen = SubSeq(@, 1, Len(@) - d.zone), !.zone = 0]

\* Faulty variants: the list of the blocked is counted although it is empty, or
\* is not counted.
WriteZoneOverCounted(d) ==
  [Write(d, ZoneLines(d)) EXCEPT !.zone = Cardinality(InState(d, {"running"})) + 1]

WriteZoneUnderCounted(d) ==
  [Write(d, ZoneLines(d)) EXCEPT !.zone = Cardinality(InState(d, {"running"}))]

WriteZone(d) == [Write(d, ZoneLines(d)) EXCEPT !.zone = Len(ZoneLines(d))]

\* Outcomes that were not printed yet are printed, once and for all.
PrintOnce(d, S) ==
  LET new == InState(d, S) \ d.printed
  IN  [Write(d, EntryLines(d, new)) EXCEPT !.printed = @ \cup new]

RenderTTY(d) == WriteZone(PrintOnce(EraseZone(d), Final))

\* Without a terminal: a line for every change of state, and the blocked.
RenderNonTTY(d) ==
  LET changed == {t \in InState(d, Begun) : d.entries[t] # d.last[t]}
  IN  [Write(d, EntryLines(d, changed) \o WaitingLine(d)) EXCEPT !.last = d.entries]

Render(d) == IF d.isTTY THEN RenderTTY(d) ELSE RenderNonTTY(d)

Finalize(d) ==
  LET ended == [d EXCEPT !.active = FALSE]
  IN  IF d.isTTY THEN PrintOnce(EraseZone(ended), Begun) ELSE ended

HandleEvent(d, event) ==
  CASE event.type = "dag-start" ->
         Render([d EXCEPT !.active = TRUE, !.entries = [t \in Subtasks |-> "waiting"]])
    [] event.type = "dag-complete" -> Finalize(d)
    [] OTHER -> Render([d EXCEPT !.entries[event.index] = event.type])

StageLine(d) ==
  LET erased == IF d.isTTY THEN EraseZone(d) ELSE d
  IN  [Write(erased, <<Line("stage", d.stageLabel)>>) EXCEPT !.zone = IF d.isTTY THEN 1 ELSE 0]

StageStart(d, label) == StageLine([d EXCEPT !.stageLabel = label])

StageEnd(d) ==
  LET erased == IF d.isTTY /\ d.stageLabel # "none" THEN EraseZone(d) ELSE d
  IN  [erased EXCEPT !.stageLabel = "none", !.zone = 0]

WriteStatus(d, line) ==
  IF d.isTTY /\ d.active
  THEN WriteZone(Write(EraseZone(d), <<line>>))
  ELSE Write(d, <<line>>)

-----------------------------------------------------------------------------
(***************************************************************************)
(* The events that a step of runDAG emits: the end of a subtask with the   *)
(* cascade it causes, an attempt that is repeated, the launches.           *)
(***************************************************************************)
Event(type, t) == [type |-> type, index |-> t]

\* One event of a kind after the other, about each subtask of S.  The launches
\* are in this order; that of a cascade is the resolver's, and nothing stated
\* here depends on it.
HandleEach(d, type, S) ==
  LET shown[i \in 0 .. Cardinality(S)] ==
        IF i = 0 THEN d ELSE HandleEvent(shown[i - 1], Event(type, Sorted(S)[i]))
  IN  shown[Cardinality(S)]

Launches == {t \in Subtasks : phase[t] = "idle" /\ phase'[t] = "executing"}

DisplayInit ==
  /\ Init
  /\ stage = "Plan"
  /\ round = 0
  /\ \E tty \in BOOLEAN :
       display = StageStart(
         [isTTY |-> tty, active |-> FALSE, stageLabel |-> "none", zone |-> 0,
          entries |-> [t \in Subtasks |-> "absent"], last |-> [t \in Subtasks |-> "absent"],
          printed |-> {}, screen |-> <<>>], "Plan")
  /\ said = 0

\* The Plan stage ends, and the user is asked for an approval, or it throws.
PlanEnds ==
  /\ stage = "Plan"
  /\ stage' \in {"approval", "done"}
  /\ display' = StageEnd(display)
  /\ UNCHANGED <<vars, round, said>>

\* The Execute stage begins: its ticker is started, and runDAG sends a status
\* line and launches.
BeginShown ==
  /\ stage = "approval" /\ ~ isShuttingDown
  /\ stage' = "Execute"
  /\ Begin
  /\ said' = said + 1
  /\ LET announced == WriteStatus(StageStart(display, "Execute"), Line("status", said'))
     IN  display' = HandleEach(HandleEvent(announced, [type |-> "dag-start"]),
                               "running", Launches)
  /\ UNCHANGED round

Refused ==
  /\ stage = "approval"
  /\ stage' = "done"
  /\ UNCHANGED <<vars, round, display, said>>

AttemptSucceedsShown(t) ==
  /\ AttemptSucceeds(t)
  /\ UNCHANGED <<stage, round, display, said>>

AttemptFailsShown(t, retryable) ==
  /\ AttemptFails(t, retryable)
  /\ display' = IF phase'[t] = "executing" THEN HandleEvent(display, Event("running", t))
                                           ELSE display
  /\ UNCHANGED <<stage, round, said>>

OnResolvedShown(t) ==
  /\ OnResolved(t)
  /\ display' = HandleEvent(display, Event("completed", t))
  /\ UNCHANGED <<stage, round, said>>

OnRejectedShown(t) ==
  /\ OnRejected(t)
  /\ display' = HandleEach(HandleEvent(display, Event("failed", t)),
                           "skipped", Downstream(plan, t))
  /\ UNCHANGED <<stage, round, said>>

FinallyShown(t) ==
  /\ Finally(t)
  /\ display' = HandleEach(display, "running", Launches)
  /\ UNCHANGED <<stage, round, said>>

\* runDAG returns, the ticker of the stage is stopped, and Verify begins.
DagCompleteShown ==
  /\ DagComplete
  /\ LET over == StageEnd(HandleEvent(display, [type |-> "dag-complete"]))
     IN  /\ stage' = IF isShuttingDown THEN "done" ELSE "Verify"
         /\ display' = IF isShuttingDown THEN over ELSE StageStart(over, "Verify")
  /\ UNCHANGED <<round, said>>

\* Verify ends, for good or for a round of retryLoop, which shows nothing.
VerifyEnds ==
  /\ stage = "Verify"
  /\ \/ stage' = "done" /\ UNCHANGED round
     \/ round < MaxRetries /\ stage' = "retry" /\ round' = round + 1
  /\ display' = StageEnd(display)
  /\ UNCHANGED <<vars, said>>

Recheck ==
  /\ stage = "retry"
  /\ \/ stage' = "Verify" /\ display' = StageStart(display, "Verify")
     \/ stage' = "done" /\ UNCHANGED display
  /\ UNCHANGED <<vars, round, said>>

StageTick ==
  /\ display.stageLabel # "none" /\ display.isTTY
  /\ display' = StageLine(display)
  /\ UNCHANGED <<vars, stage, round, said>>

DagTick ==
  /\ display.active /\ display.isTTY
  /\ \E t \in Subtasks : display.entries[t] = "running"
  /\ display' = WriteZone(EraseZone(display))
  /\ UNCHANGED <<vars, stage, round, said>>

Say ==
  /\ said < MaxStatus
  /\ said' = said + 1
  /\ display' = WriteStatus(display, Line("status", said'))
  /\ UNCHANGED <<stage, round>>

\* A status line of the run between its stages, or of a run nested in it.
Status ==
  /\ stage \in {"approval", "Execute", "retry"}
  /\ Say
  /\ UNCHANGED vars

\* The handler of SIGINT sends one at any time.
ShutdownShown ==
  /\ stage # "done" /\ ~ isShuttingDown
  /\ isShuttingDown' = TRUE
  /\ Say
  /\ UNCHANGED <<plan, dag, state, phase, attempt, skippedIndices>>

DisplayNext ==
  \/ PlanEnds \/ BeginShown \/ Refused
  \/ \E t \in Subtasks : AttemptSucceedsShown(t)
  \/ \E t \in Subtasks, r \in BOOLEAN : AttemptFailsShown(t, r)
  \/ \E t \in Subtasks : OnResolvedShown(t) \/ OnRejectedShown(t) \/ FinallyShown(t)
  \/ DagCompleteShown \/ VerifyEnds \/ Recheck
  \/ StageTick \/ DagTick \/ Status \/ ShutdownShown

DisplaySpec == DisplayInit /\ [][DisplayNext]_displayVars
-----------------------------------------------------------------------------
OfKind(lines, kinds) == {i \in DOMAIN lines : lines[i].kind \in kinds}

Shown(line) == Cardinality({i \in DOMAIN display.screen : display.screen[i] = line})

OutcomeOf(t) ==
  CASE state[t] = "complete" -> "completed"
    [] state[t] = "skipped" -> IF t \in Failed THEN "failed" ELSE "skipped"
    [] OTHER -> "none"

(***************************************************************************)
(* What became of a subtask is on the screen once, from the step that      *)
(* settles it on, and nothing else is said of it: the erasures never reach *)
(* it, neither those of the tickers nor those around status lines, and it  *)
(* is not repeated by a later rendering.                                   *)
(***************************************************************************)
OutcomesStay ==
  \A t \in Subtasks, outcome \in Final :
    Shown(Line(outcome, t)) = IF outcome = OutcomeOf(t) THEN 1 ELSE 0

(***************************************************************************)
(* On a terminal there are above the zone only lines that were printed to  *)
(* stay, and as many status lines are missing, or still in the zone, as a  *)
(* stage's line was left behind; those that are there are in their order.  *)
(* The zone shows the subtasks that run now and those that are blocked,    *)
(* or, where the ticker of the stage was last, its line, or a status line  *)
(* that came in while only that ticker ran and will be erased with it.     *)
(***************************************************************************)
ScreenIsRight ==
  display.isTTY =>
    LET above == SubSeq(display.screen, 1, Len(display.screen) - display.zone)
        zone == SubSeq(display.screen, Len(above) + 1, Len(display.screen))
        statuses == OfKind(above, {"status"})
        running == {t \in Subtasks : phase[t] = "executing"}
    IN  /\ OfKind(above, Final \cup {"status", "stage"}) = DOMAIN above
        /\ \A i, j \in statuses : i < j => above[i].of < above[j].of
        /\ said = Cardinality(OfKind(above, {"status", "stage"}))
        /\ \/ zone = <<>> /\ stage \notin Ticking
           \/ zone = <<Line("stage", stage)>> /\ stage \in Ticking
           \/ zone = <<Line("status", said)>> /\ stage \in Ticking /\ ~ display.active
           \/ /\ stage = "Execute"
              /\ \A t \in running : Line("running", t) \in ToSet(zone)
              /\ \A t \in Subtasks :
                   Line("running", t) \in ToSet(zone) => t \in Running
              /\ \A t \in Subtasks : state[t] = "skipped" \/ phase[t] = "retired" =>
                   \A i \in DOMAIN zone : zone[i].kind = "blocked" => t \notin zone[i].of
=============================================================================
