----------------------------- MODULE Projection -----------------------------
(***************************************************************************)
(* What ProjectExecution derives from State for the readers that act on    *)
(* it: the service launches what Queue lists and has PendingTurns decided. *)
(* An Execution is its Workflow here; texts, times, the status of Nodes    *)
(* and that of the whole Execution, which only displays read, are left out.*)
(***************************************************************************)
EXTENDS Supervisor

\* Where an Activity's status is looked up: the end of its chain of fallbacks.
\* A parent has one fallback child while a Work names one fallback; were there
\* more, the code takes the one created first.
Representative(a) ==
  LET end[b \in Activity] ==
        IF FallbackChildren(b) = {} THEN b
        ELSE end[CHOOSE c \in FallbackChildren(b) : TRUE]
  IN  IF FallbackChildren(a) = {} THEN a ELSE end[a]

ResultStatus(status) ==
  IF status \in {"needs_human", "blocked"} THEN status ELSE "completed"

LiveAttempts(a) == {t \in AttemptsOf(a) : ~HasExit(t)}

\* Mutant: a report is enough, its process may still run.
ReportedAtLeast(a) == HasWorkerResult(a)

ReportedAndExited(a) ==
  \E t \in AttemptsOf(a) : {"result", "exit"} \subseteq attempts[t].milestones

\* Mutant: a started turn is never the last one.
RelaunchesLeft(a) == LaunchesOf(a) < workflows[activities[a].workflow].maxLaunches

BudgetLeft(a) ==
  LET budget == workflows[activities[a].workflow]
  IN  \/ LaunchesOf(a) = 0
      \/ LaunchesOf(a) < budget.maxLaunches /\ TurnsOf(a) < budget.maxTaskAttempts

\* The switch of projectActivity for an Activity without a fallback child.
OwnStatus(a) ==
  IF results[a] # None THEN ResultStatus(results[a].status)
  ELSE IF workflows[activities[a].workflow].goal /\ HasWorkerResult(a)
  THEN IF ReportedAndExited(a) THEN "deciding" ELSE "running"
  ELSE IF pauses[activities[a].workflow] # None THEN "paused"
  ELSE IF a \in waiting THEN "scheduled"
  ELSE IF LiveAttempts(a) # {}
  THEN IF \E t \in LiveAttempts(a) : "turn_started" \in attempts[t].milestones
       THEN "running" ELSE "starting"
  ELSE IF BudgetLeft(a) THEN IF LaunchesOf(a) = 0 THEN "queued" ELSE "retryable"
  ELSE "failed"

\* A parent shows what its fallback child does.
Status(a) == OwnStatus(Representative(a))

ActivitiesOf(w) == {a \in Activity : Known(a) /\ activities[a].workflow = w}

Queue(w) ==
  {a \in ActivitiesOf(w) : /\ Status(a) \in {"queued", "retryable"}
                           /\ FallbackChildren(a) = {}}

PendingTurns(w) == {a \in ActivitiesOf(w) : Status(a) = "deciding"}

-----------------------------------------------------------------------------

\* What PrepareAttempt asks of an Activity, its worktree's Lease left out.
Launchable(a) ==
  /\ results[a] = None /\ ~HasWorkerResult(a)
  /\ FallbackChildren(a) = {}
  /\ pauses[activities[a].workflow] = None
  /\ a \notin waiting
  /\ LaunchesOf(a) < workflows[activities[a].workflow].maxLaunches
  /\ TurnsOf(a) < workflows[activities[a].workflow].maxTaskAttempts
  /\ \A t \in AttemptsOf(a) : HasExit(t)

\* The reader and the command agree: the service is told to launch exactly the
\* Activities that PrepareAttempt accepts once their worktree is free.  One more
\* and it retries a refusal for ever, one less and work never runs.
QueueIsExact ==
  \A w \in Workflow : Queue(w) = {a \in ActivitiesOf(w) : Launchable(a)}

\* Every turn DecideTurn accepts a decision for is offered to the evaluator, by
\* itself or, when it fell back, by its parents too.
DecidableIsPending ==
  \A w \in Workflow :
    LET childless == {a \in ActivitiesOf(w) : FallbackChildren(a) = {}}
    IN  childless \cap PendingTurns(w)
          = {a \in childless : \E t \in Attempt : Decidable(a, t)}
=============================================================================
