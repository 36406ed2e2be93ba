------------------------------- MODULE Replay -------------------------------
(***************************************************************************)
(* Supervisor together with what another process, or the next one, knows   *)
(* of it: replica is the State rebuilt from nothing but the journal.  Each *)
(* command appends one entry, the events its decide returns.  What a       *)
(* command does to Supervisor's variables is thrown away with the process: *)
(* only what its events carry survives.                                    *)
(*                                                                         *)
(* An event carries the records its command creates (the primed ones) and  *)
(* otherwise only identities.                                              *)
(***************************************************************************)
EXTENDS Reducer

VARIABLE replica    \* None once an entry was refused

replayVars == <<vars, replica>>

ReplayInit == Init /\ replica = EmptyState

\* Execute, from the decided events to the append.  Its validation of the result
\* is a conjunct of ReplayAgrees.
Journal(entry) == replica' = ApplyEntry(replica, entry)

-----------------------------------------------------------------------------
(* The events of the commands. *)

StartedEvent(w, n, s, a) ==
  [type |-> "execution.started", workflow |-> w, node |-> n, session |-> s, activity |-> a,
   profile |-> workflows'[w], nodeRecord |-> nodes'[w][n], sessionRecord |-> sessions'[s],
   activityRecord |-> activities'[a]]

NodeEvent(w, n) ==
  [type |-> "node.added", workflow |-> w, node |-> n, nodeRecord |-> nodes'[w][n]]

ActivityEvent(a) ==
  [type |-> "activity.queued", activity |-> a, activityRecord |-> activities'[a]]

FallbackEvent(s, a) ==
  [type |-> "activity.fallback_queued", session |-> s, activity |-> a,
   sessionRecord |-> sessions'[s], activityRecord |-> activities'[a]]

MessageEvent(a) ==
  [type |-> "message.queued", activity |-> a, messageRecord |-> messages'[a]]

MilestoneEvent(t, kind) == [type |-> "attempt.milestone", attempt |-> t, kind |-> kind]

BindingEvent(t, native) ==
  [type |-> "attempt.milestone", attempt |-> t, kind |-> "session_bound", native |-> native]

ResultEvent(a) ==
  [type |-> "result.created", activity |-> a, resultRecord |-> results'[a]]

ReleaseEvent(t) == [type |-> "lease.released", attempt |-> t]

ControlEvent(c) ==
  [type |-> "control.recorded", control |-> c, controlRecord |-> controls'[c]]

OnlyIf(condition, events) == IF condition THEN events ELSE <<>>

\* settleMessages: an event only for a Message this Attempt holds.
SettleEvents(t, delivered) ==
  LET a == attempts[t].activity
  IN  OnlyIf(DispatchedTo(a, t),
             <<[type |-> "message.settled", activity |-> a, delivered |-> delivered]>>)

PrepareEntry(a, t) ==
  <<[type |-> "attempt.prepared", attempt |-> t, attemptRecord |-> attempts'[t],
     leaseRecord |-> leases'[t]]>>
  \o OnlyIf(messages[a] # None /\ messages[a].state = "queued",
            <<[type |-> "message.dispatched", activity |-> a, attempt |-> t,
               delivery |-> messages'[a].delivery]>>)

ResultEntry(t) ==
  <<MilestoneEvent(t, "result")>>
  \o OnlyIf(~ProfileOf(t).goal, <<ResultEvent(attempts[t].activity)>>)
  \o SettleEvents(t, TRUE)

FailureEntry(t, kind) == <<MilestoneEvent(t, kind)>> \o SettleEvents(t, FALSE)

\* An exit looks for the Result in the State before this entry.
ExitEntry(t) ==
  LET unanswered == results[attempts[t].activity] = None IN
  <<MilestoneEvent(t, "exit")>>
  \o OnlyIf(unanswered /\ ProfileOf(t).sessionMode, <<ResultEvent(attempts[t].activity)>>)
  \o OnlyIf(unanswered, SettleEvents(t, FALSE))
  \o <<ReleaseEvent(t)>>

RecoveryEvents(t) ==
  OnlyIf(attempts[t].milestones = {}, <<MilestoneEvent(t, "adapter_start_failed")>>)
  \o <<MilestoneEvent(t, "exit")>> \o SettleEvents(t, FALSE) \o <<ReleaseEvent(t)>>

\* In whatever order the set is read.
ForEach(T, Events(_)) ==
  LET order == SetToSeq(T)
  IN  FlattenSeq([i \in DOMAIN order |-> Events(order[i])])

ContinueEntry(a, b) ==
  <<ResultEvent(a)>>
  \o OnlyIf(ExistingContinuations(a) = {}, <<ActivityEvent(b), MessageEvent(b)>>)

\* An accepted stop stands in for the pause's own control.
FenceEvents(t) ==
  OnlyIf(AcceptedControls(t) = {}, <<ControlEvent(t)>>) \o SettleEvents(t, FALSE)

PauseEntry(w) ==
  ForEach(Running(w), FenceEvents)
  \o <<[type |-> "workflow.paused", workflow |-> w, pauseRecord |-> pauses'[w]]>>

-----------------------------------------------------------------------------

ReplayWork ==
  \/ \E w \in Workflow, p \in Profiles, n \in Node, k \in Works, s \in Session,
        x \in OrNone(NativeId), a \in Activity :
       StartExecution(w, p, n, k, s, x, a) /\ Journal(<<StartedEvent(w, n, s, a)>>)
  \/ \E w \in Workflow, n \in Node, k \in Works, deps \in SUBSET Node :
       AddNode(w, n, k, deps) /\ Journal(<<NodeEvent(w, n)>>)
  \/ \E w \in Workflow, n \in Node, s \in Session, a \in Activity :
       QueueActivity(w, n, s, a) /\ Journal(<<ActivityEvent(a)>>)
  \/ \E p, a \in Activity :
       ContinueSession(p, a) /\ Journal(<<ActivityEvent(a), MessageEvent(a)>>)
  \/ \E p, a \in Activity, r \in Runtime, s \in Session :
       StartFallback(p, r, s, a) /\ Journal(<<FallbackEvent(s, a)>>)
  \/ \E a \in Activity : WakeTimeReached(a) /\ UNCHANGED replica

ReplayAttempts ==
  \/ \E a \in Activity, r \in Runtime, t \in Attempt :
       PrepareAttempt(a, r, t) /\ Journal(PrepareEntry(a, t))
  \/ \E t \in Attempt : RecordSpawned(t) /\ Journal(<<MilestoneEvent(t, "process_spawned")>>)
  \/ \E t \in Attempt, x \in NativeId :
       RecordSessionBound(t, x) /\ Journal(<<BindingEvent(t, x)>>)
  \/ \E t \in Attempt : RecordTurnStarted(t) /\ Journal(<<MilestoneEvent(t, "turn_started")>>)
  \/ \E t \in Attempt, status \in WorkerStatus :
       RecordResult(t, status) /\ Journal(ResultEntry(t))
  \/ \E t \in Attempt, kind \in StartFailures :
       RecordStartFailure(t, kind) /\ Journal(FailureEntry(t, kind))
  \/ \E t \in Attempt, succeeded \in BOOLEAN :
       RecordExit(t, succeeded) /\ Journal(ExitEntry(t))
  \/ \E T \in SUBSET Attempt : ReconcileStartup(T) /\ Journal(ForEach(T, RecoveryEvents))

ReplayDecisions ==
  \/ \E a \in Activity, t \in Attempt, status \in {"completed", "needs_human"} :
       DecideStop(a, t, status) /\ Journal(<<ResultEvent(a)>>)
  \/ \E a, b \in Activity, t \in Attempt :
       DecideContinue(a, t, b) /\ Journal(ContinueEntry(a, b))

ReplayControls ==
  \/ \E k \in Request, t \in Attempt : RequestControl(k, t) /\ Journal(<<ControlEvent(k)>>)
  \/ \E k \in Request : RequestStaleControl(k) /\ Journal(<<ControlEvent(k)>>)
  \/ \E c \in Control :
       ApplyControl(c) /\ Journal(<<[type |-> "control.applied", control |-> c]>>)
  \/ \E w \in Workflow : PauseWorkflow(w) /\ Journal(PauseEntry(w))
  \/ \E w \in Workflow :
       SettlePause(w) /\ Journal(<<[type |-> "workflow.pause_settled", workflow |-> w]>>)

ReplayNext == ReplayWork \/ ReplayAttempts \/ ReplayDecisions \/ ReplayControls

ReplaySpec == ReplayInit /\ [][ReplayNext]_replayVars

-----------------------------------------------------------------------------

\* The State with each Attempt's milestones as the set of the kinds recorded.
Unordered(S) ==
  [S EXCEPT !.attempts = [t \in Attempt |->
     IF S.attempts[t] = None THEN None
     ELSE [S.attempts[t] EXCEPT !.milestones = ToSet(@)]]]

\* The journal is the State: no entry a command decides is refused by the reducer
\* or by validateState, and a process that replays the entries knows exactly what
\* the commands did, down to each Message's holder and each pause's releases.
ReplayAgrees == replica # None /\ ValidState(replica) /\ Unordered(replica) = Current
=============================================================================
