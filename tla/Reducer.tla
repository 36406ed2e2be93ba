------------------------------ MODULE Reducer ------------------------------
(***************************************************************************)
(* The reducer of internal/supervisor: how State is rebuilt from journal   *)
(* events (applyDomainEvent), and what validateState demands of the result *)
(* before a command may be journaled or a projection returned.             *)
(*                                                                         *)
(* A State is a record of the maps that Supervisor keeps as variables,     *)
(* except that an Attempt's milestones are the sequence the reducer        *)
(* appends to.  An event it refuses makes the State None.  Events no       *)
(* command of this release emits (node.superseded, the retired kinds) and  *)
(* those of role ladders, finalizations and legacy imports are left out.   *)
(***************************************************************************)
EXTENDS Supervisor, SequencesExt

\* An Attempt with its milestones in the order they were recorded.
HistoryRecord ==
  [activity: Activity, ordinal: Nat \ {0}, runtime: Runtime, milestones: Seq(Kinds)]

StateRecord ==
  [workflows : [Workflow -> OrNone(Profiles)],
   nodes : [Workflow -> [Node -> OrNone(NodeRecord)]],
   sessions : [Session -> OrNone(SessionRecord)],
   activities : [Activity -> OrNone(ActivityRecord)],
   attempts : [Attempt -> OrNone(HistoryRecord)],
   leases : [Attempt -> OrNone(LeaseRecord)],
   results : [Activity -> OrNone(ResultRecord)],
   messages : [Activity -> OrNone(MessageRecord)],
   controls : [Control -> OrNone(ControlRecord)],
   pauses : [Workflow -> OrNone(PauseRecord)]]

ASSUME StateAssumption == None \notin StateRecord /\ None \notin HistoryRecord

EmptyState ==
  [workflows |-> [w \in Workflow |-> None],
   nodes |-> [w \in Workflow |-> [n \in Node |-> None]],
   sessions |-> [s \in Session |-> None],
   activities |-> [a \in Activity |-> None],
   attempts |-> [t \in Attempt |-> None],
   leases |-> [t \in Attempt |-> None],
   results |-> [a \in Activity |-> None],
   messages |-> [a \in Activity |-> None],
   controls |-> [c \in Control |-> None],
   pauses |-> [w \in Workflow |-> None]]

-----------------------------------------------------------------------------
(* applyDomainEvent: S after the event e, or None when the reducer refuses. *)

When(accepted, S) == IF accepted THEN S ELSE None

ExecutionStarted(S, e) ==
  When(/\ S.workflows[e.workflow] = None
       /\ S.sessions[e.session] = None
       /\ S.activities[e.activity] = None,
       [S EXCEPT !.workflows[e.workflow] = e.profile,
                 !.nodes[e.workflow] = [n \in Node |-> IF n = e.node THEN e.nodeRecord ELSE None],
                 !.sessions[e.session] = e.sessionRecord,
                 !.activities[e.activity] = e.activityRecord])

NodeAdded(S, e) ==
  When(S.workflows[e.workflow] # None /\ S.nodes[e.workflow][e.node] = None,
       [S EXCEPT !.nodes[e.workflow][e.node] = e.nodeRecord])

ActivityQueued(S, e) ==
  When(S.activities[e.activity] = None,
       [S EXCEPT !.activities[e.activity] = e.activityRecord])

FallbackQueued(S, e) ==
  LET parent == e.activityRecord.parent
      w == e.activityRecord.workflow
  IN  When(/\ S.sessions[e.session] = None
           /\ S.activities[e.activity] = None
           /\ S.workflows[w] # None
           /\ parent \notin {None, e.activity}
           /\ S.activities[parent] # None
           /\ S.activities[parent].workflow = w
           /\ e.sessionRecord.workflow = w
           /\ e.activityRecord.session = e.session,
           [S EXCEPT !.sessions[e.session] = e.sessionRecord,
                     !.activities[e.activity] = e.activityRecord])

AttemptPrepared(S, e) ==
  When(S.attempts[e.attempt] = None /\ S.leases[e.attempt] = None,
       [S EXCEPT !.attempts[e.attempt] = [e.attemptRecord EXCEPT !.milestones = <<>>],
                 !.leases[e.attempt] = e.leaseRecord])

\* session_bound is kept in the Session alone, as in Supervisor.
BoundTo(S, t, native) ==
  LET s == S.activities[S.attempts[t].activity].session
  IN  When(S.sessions[s] # None /\ S.sessions[s].native \in {None, native},
           [S EXCEPT !.sessions[s].native = native])

MilestoneRecorded(S, e) ==
  When(S.attempts[e.attempt] # None,
       IF e.kind = "session_bound" THEN BoundTo(S, e.attempt, e.native)
       ELSE [S EXCEPT !.attempts[e.attempt].milestones = Append(@, e.kind)])

ResultCreated(S, e) ==
  When(S.results[e.activity] = None, [S EXCEPT !.results[e.activity] = e.resultRecord])

MessageQueued(S, e) ==
  When(S.messages[e.activity] = None, [S EXCEPT !.messages[e.activity] = e.messageRecord])

MessageDispatched(S, e) ==
  When(S.messages[e.activity] # None /\ S.messages[e.activity].state = "queued",
       [S EXCEPT !.messages[e.activity] =
          [state |-> "dispatched", attempt |-> e.attempt, delivery |-> e.delivery]])

\* Mutant: a Message that goes back to the queue keeps its Attempt.
SettledWithAttempt(S, e) ==
  When(S.messages[e.activity] # None /\ S.messages[e.activity].state = "dispatched",
       [S EXCEPT !.messages[e.activity].state = IF e.delivered THEN "delivered" ELSE "queued"])

MessageSettled(S, e) ==
  When(S.messages[e.activity] # None /\ S.messages[e.activity].state = "dispatched",
       IF e.delivered THEN [S EXCEPT !.messages[e.activity].state = "delivered"]
       ELSE [S EXCEPT !.messages[e.activity].state = "queued",
                      !.messages[e.activity].attempt = None])

LeaseReleased(S, e) ==
  When(S.leases[e.attempt] # None /\ ~S.leases[e.attempt].released,
       [S EXCEPT !.leases[e.attempt].released = TRUE,
                 !.pauses = [w \in Workflow |->
                    IF S.pauses[w] # None /\ e.attempt \in S.pauses[w].fenced
                    THEN [S.pauses[w] EXCEPT !.released = @ \cup {e.attempt}]
                    ELSE S.pauses[w]]])

ControlRecorded(S, e) ==
  When(S.controls[e.control] = None, [S EXCEPT !.controls[e.control] = e.controlRecord])

ControlApplied(S, e) ==
  When(/\ S.controls[e.control] # None
       /\ S.controls[e.control].accepted /\ ~S.controls[e.control].applied,
       [S EXCEPT !.controls[e.control].applied = TRUE])

WorkflowPaused(S, e) ==
  When(S.workflows[e.workflow] # None /\ S.pauses[e.workflow] = None,
       [S EXCEPT !.pauses[e.workflow] = e.pauseRecord])

PauseSettled(S, e) ==
  When(S.pauses[e.workflow] # None /\ S.pauses[e.workflow].phase # "completed",
       [S EXCEPT !.pauses[e.workflow].phase = "completed"])

ApplyEvent(S, e) ==
  CASE e.type = "execution.started" -> ExecutionStarted(S, e)
    [] e.type = "node.added" -> NodeAdded(S, e)
    [] e.type = "activity.queued" -> ActivityQueued(S, e)
    [] e.type = "activity.fallback_queued" -> FallbackQueued(S, e)
    [] e.type = "attempt.prepared" -> AttemptPrepared(S, e)
    [] e.type = "attempt.milestone" -> MilestoneRecorded(S, e)
    [] e.type = "result.created" -> ResultCreated(S, e)
    [] e.type = "message.queued" -> MessageQueued(S, e)
    [] e.type = "message.dispatched" -> MessageDispatched(S, e)
    [] e.type = "message.settled" -> MessageSettled(S, e)
    [] e.type = "lease.released" -> LeaseReleased(S, e)
    [] e.type = "control.recorded" -> ControlRecorded(S, e)
    [] e.type = "control.applied" -> ControlApplied(S, e)
    [] e.type = "workflow.paused" -> WorkflowPaused(S, e)
    [] e.type = "workflow.pause_settled" -> PauseSettled(S, e)

\* applyEntry: the events in their order, given up at the first refusal.
ApplyEntry(S, entry) ==
  LET after[i \in 0 .. Len(entry)] ==
        IF i = 0 THEN S
        ELSE IF after[i - 1] = None THEN None ELSE ApplyEvent(after[i - 1], entry[i])
  IN  after[Len(entry)]

-----------------------------------------------------------------------------
(* validateState, one operator per loop. *)

\* Every Lease belongs to a known Attempt of a known Activity, and no worktree
\* has two that are not released.
LeasesFenced(S) ==
  /\ \A t \in Attempt : S.leases[t] # None =>
       /\ S.attempts[t] # None
       /\ S.activities[S.attempts[t].activity] # None
  /\ \A t, u \in Attempt :
       /\ S.leases[t] # None /\ ~S.leases[t].released
       /\ S.leases[u] # None /\ ~S.leases[u].released
       /\ S.leases[t].worktree = S.leases[u].worktree
       => t = u

\* An Activity's Workflow, Node and Session exist, and so does each Result it is
\* bound to, as a Result of that dependency.
ActivitiesBound(S) ==
  \A a \in Activity : S.activities[a] # None =>
    LET activity == S.activities[a] IN
    /\ S.workflows[activity.workflow] # None
    /\ S.nodes[activity.workflow][activity.node] # None
    /\ S.sessions[activity.session] # None
    /\ \A d \in Node : activity.bindings[d] # None =>
         /\ S.results[activity.bindings[d]] # None
         /\ S.activities[activity.bindings[d]].node = d

AttemptsKnown(S) ==
  \A t \in Attempt : S.attempts[t] # None => S.activities[S.attempts[t].activity] # None

Occurrences(kind, history) == Cardinality({i \in DOMAIN history : history[i] = kind})

MilestonesOnce(S) ==
  \A t \in Attempt : S.attempts[t] # None =>
    \A kind \in {"turn_started", "result"} : Occurrences(kind, S.attempts[t].milestones) <= 1

PausesTraced(S) ==
  \A w \in Workflow : S.pauses[w] # None =>
    /\ S.workflows[w] # None
    /\ \A t \in S.pauses[w].fenced :
         /\ S.attempts[t] # None
         /\ S.activities[S.attempts[t].activity] # None
         /\ S.activities[S.attempts[t].activity].workflow = w

ResultsTraced(S) ==
  \A a \in Activity : S.results[a] # None =>
    /\ S.activities[a] # None
    /\ S.attempts[S.results[a].attempt] # None
    /\ S.attempts[S.results[a].attempt].activity = a

\* validateDAG: dependencies exist, and every set of Nodes has one that depends
\* on none of them, so following dependencies comes to an end.
Acyclic(nodesOf) ==
  LET known == {n \in Node : nodesOf[n] # None} IN
  /\ \A n \in known : nodesOf[n].deps \subseteq known
  /\ \A N \in SUBSET known : N # {} => \E n \in N : nodesOf[n].deps \cap N = {}

\* All of validateState but the count of milestones.
IdentitiesSound(S) ==
  /\ LeasesFenced(S) /\ ActivitiesBound(S) /\ AttemptsKnown(S)
  /\ PausesTraced(S) /\ ResultsTraced(S)
  /\ \A w \in Workflow : S.workflows[w] # None => Acyclic(S.nodes[w])

ValidState(S) == IdentitiesSound(S) /\ MilestonesOnce(S)

-----------------------------------------------------------------------------

\* The State that Supervisor's variables are.
Current ==
  [workflows |-> workflows, nodes |-> nodes, sessions |-> sessions,
   activities |-> activities, attempts |-> attempts, leases |-> leases,
   results |-> results, messages |-> messages, controls |-> controls, pauses |-> pauses]

\* validateState never turns a projection away: whatever interleaving of commands
\* built it, no worktree has two writers, no pause fences another Workflow's
\* Attempt, bound Results exist and dependencies are acyclic.
StateAccepted == IdentitiesSound(Current)
=============================================================================
