-------------------------- MODULE SupervisorProofs --------------------------
(***************************************************************************)
(* The inductive invariant of identities, Foundation, and what follows     *)
(* from it alone: every variable keeps its type, no command can fail the   *)
(* reducer's validateState, a Lease is unreleased exactly as long as its   *)
(* Attempt has not exited, and nothing a command created changes its       *)
(* identity.                                                               *)
(*                                                                         *)
(* Type correctness is not inductive by itself: a command follows          *)
(* references (an Attempt's Activity, that Activity's Session) and updates *)
(* the record it finds there in place, so TypeOK needs StateValid, and the *)
(* release of a Lease needs LeaseTracksAttempt.                            *)
(*                                                                         *)
(* Then Leases, controls and pauses: what a step may do to one Attempt and *)
(* its Lease (AttemptStep), and the results that rest on it.  The facts of *)
(* an exited Attempt are closed, no two writers hold one worktree, and a   *)
(* pause freezes the Attempts it found, waits for their exits and then is  *)
(* quiet for ever, however stops, pauses, milestones and restarts          *)
(* interleave.                                                             *)
(***************************************************************************)
EXTENDS Supervisor, TLAPS

USE DEF OrNone

\* The empty state is well typed.
LEMMA InitType == Init => TypeOK
  BY DEF Init, TypeOK, NodeRecord

\* Generations are positive.
LEMMA GenerationsType ==
  ASSUME TypeOK, NEW n \in Node, NEW minimum \in Nat \ {0}, NEW g \in NextGenerations(n, minimum)
  PROVE  g \in Nat \ {0}
  BY DEF NextGenerations, GenerationsFrom, TypeOK, ActivityRecord, Known

\* Delivery generations are numbers.
LEMMA DeliveriesType ==
  ASSUME TypeOK, NEW s \in Session, NEW d \in NextDeliveries(s)
  PROVE  d \in Nat
  BY DEF NextDeliveries, DeliveriesFrom, TypeOK, MessageRecord

\* Ordinals are positive.
LEMMA OrdinalsType ==
  ASSUME TypeOK, NEW a \in Activity, NEW o \in NextOrdinals(a)
  PROVE  o \in Nat \ {0}
  BY DEF NextOrdinals, AttemptsOf, TypeOK, AttemptRecord

\* StartExecution preserves types.
LEMMA StartExecutionType ==
  ASSUME TypeOK, NEW w \in Workflow, NEW p \in Profiles, NEW n \in Node, NEW k \in Works,
         NEW s \in Session, NEW x \in OrNone(NativeId), NEW a \in Activity,
         StartExecution(w, p, n, k, s, x, a)
  PROVE  TypeOK'
  BY WorksAssumption DEF StartExecution, NewSession, NewActivity, NoBindings, TypeOK, WorkRecord,
     NodeRecord, SessionRecord, ActivityRecord

\* AddNode preserves types.
LEMMA AddNodeType ==
  ASSUME TypeOK, NEW w \in Workflow, NEW n \in Node, NEW k \in Works, NEW deps \in SUBSET Node,
         AddNode(w, n, k, deps)
  PROVE  TypeOK'
  BY WorksAssumption DEF AddNode, TypeOK, NodeRecord

\* QueueActivity preserves types.
LEMMA QueueActivityType ==
  ASSUME TypeOK, NEW w \in Workflow, NEW n \in Node, NEW s \in Session, NEW a \in Activity,
         QueueActivity(w, n, s, a)
  PROVE  TypeOK'
  BY DEF QueueActivity, NewActivity, Bindings, TypeOK, ActivityRecord

\* The next generation of a known Activity is an Activity record.
LEMMA SuccessorType ==
  ASSUME TypeOK, NEW a \in Activity, Known(a), NEW s \in Session, NEW g \in Nat \ {0}
  PROVE  Successor(a, s, g) \in ActivityRecord
<1>1. activities[a] \in ActivityRecord
  BY DEF Known, TypeOK
<1> QED
  BY <1>1 DEF Successor, ActivityRecord

\* Queueing a well-typed Activity with its Message.
LEMMA NewActivityType ==
  ASSUME TypeOK, NEW a \in Activity, NEW record \in ActivityRecord, NewActivity(a, record)
  PROVE  activities' \in [Activity -> OrNone(ActivityRecord)]
  BY DEF NewActivity, TypeOK

\* A queued Message is a Message record.
LEMMA NewMessageType ==
  ASSUME TypeOK, NEW a \in Activity, NewMessage(a)
  PROVE  messages' \in [Activity -> OrNone(MessageRecord)]
  BY DEF NewMessage, TypeOK, MessageRecord

\* ContinueSession preserves types.
LEMMA ContinueSessionType ==
  ASSUME TypeOK, NEW p \in Activity, NEW a \in Activity, ContinueSession(p, a)
  PROVE  TypeOK'
<1>1. activities[p] \in ActivityRecord
  BY DEF ContinueSession, Known, TypeOK
<1>2. PICK g \in NextGenerations(activities[p].node, activities[p].generation + 1) :
        NewActivity(a, Successor(p, activities[p].session, g))
  BY DEF ContinueSession
<1>3. g \in Nat \ {0}
  BY <1>1, GenerationsType DEF ActivityRecord
<1>4. Successor(p, activities[p].session, g) \in ActivityRecord
  BY <1>1, <1>3, SuccessorType DEF ContinueSession, ActivityRecord
<1>5. activities' \in [Activity -> OrNone(ActivityRecord)]
  BY <1>2, <1>4, NewActivityType
<1>6. messages' \in [Activity -> OrNone(MessageRecord)]
  BY NewMessageType DEF ContinueSession
<1> QED
  BY <1>5, <1>6 DEF ContinueSession, TypeOK

\* StartFallback preserves types.
LEMMA StartFallbackType ==
  ASSUME TypeOK, NEW p \in Activity, NEW r \in Runtime, NEW s \in Session, NEW a \in Activity,
         StartFallback(p, r, s, a)
  PROVE  TypeOK'
<1>1. Known(p) /\ activities[p] \in ActivityRecord
  BY DEF StartFallback, Known, TypeOK
<1>2. Successor(p, s, activities[p].generation) \in ActivityRecord
  BY <1>1, SuccessorType DEF ActivityRecord
<1>3. activities' \in [Activity -> OrNone(ActivityRecord)]
  BY <1>2, NewActivityType DEF StartFallback
<1>4. sessions' \in [Session -> OrNone(SessionRecord)]
  BY <1>1 DEF StartFallback, NewSession, TypeOK, SessionRecord, ActivityRecord
<1> QED
  BY <1>3, <1>4 DEF StartFallback, TypeOK

\* WakeTimeReached preserves types.
LEMMA WakeTimeReachedType ==
  ASSUME TypeOK, NEW a \in Activity, WakeTimeReached(a)
  PROVE  TypeOK'
  BY DEF WakeTimeReached, TypeOK

\* A known Activity's Node has a WorkSpec.
LEMMA WorkOfType ==
  ASSUME TypeOK, StateValid, NEW a \in Activity, Known(a)
  PROVE  WorkOf(a) \in WorkRecord
  BY DEF TypeOK, StateValid, Known, WorkOf, ActivityRecord, NodeRecord

\* PrepareAttempt preserves types.
LEMMA PrepareAttemptType ==
  ASSUME TypeOK, StateValid, NEW a \in Activity, NEW r \in Runtime, NEW t \in Attempt,
         PrepareAttempt(a, r, t)
  PROVE  TypeOK'
<1>1. activities[a] \in ActivityRecord /\ WorkOf(a) \in WorkRecord
  BY WorkOfType DEF PrepareAttempt, Known, TypeOK
<1>2. attempts' \in [Attempt -> OrNone(AttemptRecord)]
  BY OrdinalsType DEF PrepareAttempt, TypeOK, AttemptRecord
<1>3. leases' \in [Attempt -> OrNone(LeaseRecord)]
  BY <1>1 DEF PrepareAttempt, TypeOK, LeaseRecord, WorkRecord
<1>4. messages' \in [Activity -> OrNone(MessageRecord)]
  BY <1>1, DeliveriesType DEF PrepareAttempt, TypeOK, MessageRecord, ActivityRecord
<1> QED
  BY <1>2, <1>3, <1>4 DEF PrepareAttempt, TypeOK

\* A milestone keeps Attempts well typed.
LEMMA AddMilestoneType ==
  ASSUME TypeOK, NEW t \in Attempt, attempts[t] # None, NEW kind \in Kinds, AddMilestone(t, kind)
  PROVE  attempts' \in [Attempt -> OrNone(AttemptRecord)]
  BY DEF AddMilestone, TypeOK, AttemptRecord

\* Settling an Attempt's Message keeps Messages well typed.
LEMMA SettledType ==
  ASSUME TypeOK, NEW a \in Activity, NEW t \in Attempt, NEW delivered \in BOOLEAN
  PROVE  Settled(a, t, delivered) \in [Activity -> OrNone(MessageRecord)]
<1>1. CASE ~DispatchedTo(a, t)
  BY <1>1 DEF Settled, TypeOK
<1>2. CASE DispatchedTo(a, t)
  <2>1. messages[a] \in MessageRecord
    BY <1>2 DEF DispatchedTo, TypeOK
  <2>2. [state |-> IF delivered THEN "delivered" ELSE "queued",
         attempt |-> IF delivered THEN t ELSE None,
         delivery |-> messages[a].delivery] \in MessageRecord
    BY <2>1 DEF MessageRecord
  <2> QED
    BY <1>2, <2>2 DEF Settled, TypeOK
<1> QED
  BY <1>1, <1>2

\* Requeueing dispatched Messages keeps Messages well typed.
LEMMA RequeuedType ==
  ASSUME TypeOK, NEW T \in SUBSET Attempt
  PROVE  Requeued(T) \in [Activity -> OrNone(MessageRecord)]
<1>1. ASSUME NEW a \in Activity, \E t \in T : DispatchedTo(a, t)
      PROVE  [messages[a] EXCEPT !.state = "queued", !.attempt = None] \in MessageRecord
  <2>1. messages[a] \in MessageRecord
    BY <1>1 DEF DispatchedTo, TypeOK
  <2> QED
    BY <2>1 DEF MessageRecord
<1> QED
  BY <1>1 DEF Requeued, TypeOK

\* Releasing existing Leases keeps Leases well typed.
LEMMA ReleasedType ==
  ASSUME TypeOK, NEW T \in SUBSET Attempt, \A t \in T : leases[t] # None
  PROVE  Released(T) \in [Attempt -> OrNone(LeaseRecord)]
  BY DEF Released, TypeOK, LeaseRecord

\* Noting releases keeps pauses well typed.
LEMMA PausesAfterReleaseType ==
  ASSUME TypeOK, NEW T \in SUBSET Attempt
  PROVE  PausesAfterRelease(T) \in [Workflow -> OrNone(PauseRecord)]
  BY DEF PausesAfterRelease, TypeOK, PauseRecord

\* RecordSpawned preserves types.
LEMMA RecordSpawnedType ==
  ASSUME TypeOK, NEW t \in Attempt, RecordSpawned(t)
  PROVE  TypeOK'
  BY AddMilestoneType DEF RecordSpawned, MayRecord, Kinds, TypeOK

\* RecordSessionBound preserves types.
LEMMA RecordSessionBoundType ==
  ASSUME TypeOK, StateValid, NEW t \in Attempt, NEW x \in NativeId, RecordSessionBound(t, x)
  PROVE  TypeOK'
<1>1. ActivityOf(t).session \in Session /\ sessions[ActivityOf(t).session] # None
  <2>1. attempts[t] # None /\ attempts[t].activity \in Activity
    BY DEF RecordSessionBound, MayRecord, TypeOK, AttemptRecord
  <2>2. Known(attempts[t].activity)
    BY <2>1 DEF StateValid
  <2> QED
    BY <2>1, <2>2 DEF ActivityOf, StateValid, Known, TypeOK, ActivityRecord
<1>2. \A r \in SessionRecord : [r EXCEPT !.native = x] \in SessionRecord
  BY DEF SessionRecord
<1>3. sessions' \in [Session -> OrNone(SessionRecord)]
  BY <1>1, <1>2 DEF RecordSessionBound, TypeOK
<1> QED
  BY <1>3 DEF RecordSessionBound, TypeOK

\* RecordTurnStarted preserves types.
LEMMA RecordTurnStartedType ==
  ASSUME TypeOK, NEW t \in Attempt, RecordTurnStarted(t)
  PROVE  TypeOK'
  BY AddMilestoneType DEF RecordTurnStarted, MayRecord, Kinds, TypeOK

\* RecordResult preserves types.
LEMMA RecordResultType ==
  ASSUME TypeOK, NEW t \in Attempt, NEW status \in WorkerStatus, RecordResult(t, status)
  PROVE  TypeOK'
<1>1. attempts[t] # None /\ attempts[t].activity \in Activity
  BY DEF RecordResult, MayRecord, TypeOK, AttemptRecord
<1>2. attempts' \in [Attempt -> OrNone(AttemptRecord)]
  BY <1>1, AddMilestoneType DEF RecordResult, Kinds
<1>3. results' \in [Activity -> OrNone(ResultRecord)]
  BY <1>1 DEF RecordResult, TypeOK, ResultRecord
<1>4. messages' \in [Activity -> OrNone(MessageRecord)]
  BY <1>1, SettledType DEF RecordResult
<1> QED
  BY <1>2, <1>3, <1>4 DEF RecordResult, TypeOK

\* RecordStartFailure preserves types.
LEMMA RecordStartFailureType ==
  ASSUME TypeOK, NEW t \in Attempt, NEW kind \in StartFailures, RecordStartFailure(t, kind)
  PROVE  TypeOK'
<1>1. attempts[t] # None /\ attempts[t].activity \in Activity
  BY DEF RecordStartFailure, MayRecord, TypeOK, AttemptRecord
<1>2. attempts' \in [Attempt -> OrNone(AttemptRecord)]
  BY <1>1, AddMilestoneType DEF RecordStartFailure, StartFailures, Kinds
<1>3. messages' \in [Activity -> OrNone(MessageRecord)]
  BY <1>1, SettledType DEF RecordStartFailure
<1> QED
  BY <1>2, <1>3 DEF RecordStartFailure, TypeOK

\* RecordExit preserves types.
LEMMA RecordExitType ==
  ASSUME TypeOK, LeaseTracksAttempt, NEW t \in Attempt, NEW succeeded \in BOOLEAN,
         RecordExit(t, succeeded)
  PROVE  TypeOK'
<1>1. attempts[t] # None /\ attempts[t].activity \in Activity /\ leases[t] # None
  BY DEF RecordExit, MayRecord, LeaseTracksAttempt, TypeOK, AttemptRecord
<1>2. attempts' \in [Attempt -> OrNone(AttemptRecord)]
  BY <1>1, AddMilestoneType DEF RecordExit, Kinds
<1>3. results' \in [Activity -> OrNone(ResultRecord)]
  BY <1>1 DEF RecordExit, TypeOK, ResultRecord, WorkerStatus
<1>4. messages' \in [Activity -> OrNone(MessageRecord)]
  BY <1>1, SettledType DEF RecordExit, TypeOK
<1>5. leases' \in [Attempt -> OrNone(LeaseRecord)]
  BY <1>1, ReleasedType DEF RecordExit
<1>6. pauses' \in [Workflow -> OrNone(PauseRecord)]
  BY PausesAfterReleaseType DEF RecordExit
<1> QED
  BY <1>2, <1>3, <1>4, <1>5, <1>6 DEF RecordExit, TypeOK

\* ReconcileStartup preserves types.
LEMMA ReconcileStartupType ==
  ASSUME TypeOK, LeaseTracksAttempt, NEW T \in SUBSET Attempt, ReconcileStartup(T)
  PROVE  TypeOK'
<1>1. \A t \in T : attempts[t] # None /\ leases[t] # None
  BY DEF ReconcileStartup, Live, LeaseTracksAttempt
<1>2. attempts' \in [Attempt -> OrNone(AttemptRecord)]
  BY <1>1 DEF ReconcileStartup, TypeOK, AttemptRecord, Kinds
<1>3. messages' \in [Activity -> OrNone(MessageRecord)]
  BY RequeuedType DEF ReconcileStartup
<1>4. leases' \in [Attempt -> OrNone(LeaseRecord)]
  BY <1>1, ReleasedType DEF ReconcileStartup
<1>5. pauses' \in [Workflow -> OrNone(PauseRecord)]
  BY PausesAfterReleaseType DEF ReconcileStartup
<1> QED
  BY <1>2, <1>3, <1>4, <1>5 DEF ReconcileStartup, TypeOK

\* DecideStop preserves types.
LEMMA DecideStopType ==
  ASSUME TypeOK, NEW a \in Activity, NEW t \in Attempt, NEW status \in {"completed",
         "needs_human"},
         DecideStop(a, t, status)
  PROVE  TypeOK'
  BY DEF DecideStop, TypeOK, ResultRecord, WorkerStatus

\* DecideContinue preserves types.
LEMMA DecideContinueType ==
  ASSUME TypeOK, NEW a \in Activity, NEW b \in Activity, NEW t \in Attempt, DecideContinue(a, t,
         b)
  PROVE  TypeOK'
<1>1. results' \in [Activity -> OrNone(ResultRecord)]
  BY DEF DecideContinue, TypeOK, ResultRecord, WorkerStatus
<1>2. Known(a) /\ activities[a] \in ActivityRecord
  BY DEF DecideContinue, Decidable, Known, TypeOK
<1>3. CASE ExistingContinuations(a) # {}
  BY <1>1, <1>3 DEF DecideContinue, TypeOK
<1>4. CASE ExistingContinuations(a) = {}
  <2>1. PICK g \in NextGenerations(activities[a].node, activities[a].generation + 1) :
          NewActivity(b, Successor(a, activities[a].session, g))
    BY <1>4 DEF DecideContinue
  <2>2. g \in Nat \ {0}
    BY <1>2, GenerationsType DEF ActivityRecord
  <2>3. Successor(a, activities[a].session, g) \in ActivityRecord
    BY <1>2, <2>2, SuccessorType DEF ActivityRecord
  <2>4. activities' \in [Activity -> OrNone(ActivityRecord)]
    BY <2>1, <2>3, NewActivityType
  <2>5. messages' \in [Activity -> OrNone(MessageRecord)]
    BY <1>4, NewMessageType DEF DecideContinue
  <2> QED
    BY <1>1, <1>4, <2>4, <2>5 DEF DecideContinue, TypeOK
<1> QED
  BY <1>3, <1>4

\* RequestControl preserves types.
LEMMA RequestControlType ==
  ASSUME TypeOK, NEW k \in Request, NEW t \in Attempt, RequestControl(k, t)
  PROVE  TypeOK'
  BY DEF RequestControl, StopControl, Control, TypeOK, ControlRecord

\* RequestStaleControl preserves types.
LEMMA RequestStaleControlType ==
  ASSUME TypeOK, NEW k \in Request, RequestStaleControl(k)
  PROVE  TypeOK'
  BY DEF RequestStaleControl, StopControl, Control, TypeOK, ControlRecord

\* ApplyControl preserves types.
LEMMA ApplyControlType ==
  ASSUME TypeOK, NEW c \in Control, ApplyControl(c)
  PROVE  TypeOK'
<1>1. controls[c] \in ControlRecord
  BY DEF ApplyControl, TypeOK
<1>2. [controls[c] EXCEPT !.applied = TRUE] \in ControlRecord
  BY <1>1 DEF ControlRecord
<1> QED
  BY <1>2 DEF ApplyControl, TypeOK

\* PauseWorkflow preserves types.
LEMMA PauseWorkflowType ==
  ASSUME TypeOK, NEW w \in Workflow, PauseWorkflow(w)
  PROVE  TypeOK'
<1>1. Running(w) \in SUBSET Attempt
  BY DEF Running
<1>2. controls' \in [Control -> OrNone(ControlRecord)]
  BY <1>1 DEF PauseWorkflow, PauseControl, TypeOK, ControlRecord
<1>3. messages' \in [Activity -> OrNone(MessageRecord)]
  BY <1>1, RequeuedType DEF PauseWorkflow
<1>4. pauses' \in [Workflow -> OrNone(PauseRecord)]
  BY <1>1 DEF PauseWorkflow, TypeOK, PauseRecord
<1> QED
  BY <1>2, <1>3, <1>4 DEF PauseWorkflow, TypeOK

\* SettlePause preserves types.
LEMMA SettlePauseType ==
  ASSUME TypeOK, NEW w \in Workflow, SettlePause(w)
  PROVE  TypeOK'
<1>1. pauses[w] \in PauseRecord
  BY DEF SettlePause, TypeOK
<1>2. [pauses[w] EXCEPT !.phase = "completed"] \in PauseRecord
  BY <1>1 DEF PauseRecord
<1> QED
  BY <1>2 DEF SettlePause, TypeOK

-----------------------------------------------------------------------------
(* Identities.  What a command created keeps its identity for ever, and the  *)
(* parts of a Workflow exist only under it.                                  *)

NodesHaveWorkflow ==
  \A w \in Workflow, n \in Node : nodes[w][n] # None => workflows[w] # None

IdentitiesKept ==
  /\ \A w \in Workflow : workflows[w] # None => workflows'[w] = workflows[w]
  /\ \A w \in Workflow, n \in Node : nodes[w][n] # None => nodes'[w][n] = nodes[w][n]
  /\ \A s \in Session : sessions[s] # None =>
       sessions'[s] # None /\ sessions'[s].workflow = sessions[s].workflow
  /\ \A a \in Activity : activities[a] # None => activities'[a] = activities[a]
  /\ \A t \in Attempt : attempts[t] # None =>
       attempts'[t] # None /\ attempts'[t].activity = attempts[t].activity

\* The inductive invariant of identities: TypeOK needs the others, since a
\* command follows references and updates records in place.
Foundation == TypeOK /\ NodesHaveWorkflow /\ StateValid /\ LeaseTracksAttempt

\* Creating, queueing and falling back touch no launch, answer, control or pause.
LEMMA WorkCommandsFrame ==
  ASSUME WorkCommands
  PROVE  UNCHANGED <<attempts, leases, results, controls, pauses>>
<1>1. ASSUME NEW w \in Workflow, NEW p \in Profiles, NEW n \in Node, NEW k \in Works,
             NEW s \in Session, NEW x \in OrNone(NativeId), NEW a \in Activity,
             StartExecution(w, p, n, k, s, x, a)
      PROVE  UNCHANGED <<attempts, leases, results, controls, pauses>>
  BY <1>1 DEF StartExecution
<1>2. ASSUME NEW w \in Workflow, NEW n \in Node, NEW k \in Works, NEW deps \in SUBSET Node,
             AddNode(w, n, k, deps)
      PROVE  UNCHANGED <<attempts, leases, results, controls, pauses>>
  BY <1>2 DEF AddNode
<1>3. ASSUME NEW w \in Workflow, NEW n \in Node, NEW s \in Session, NEW a \in Activity,
             QueueActivity(w, n, s, a)
      PROVE  UNCHANGED <<attempts, leases, results, controls, pauses>>
  BY <1>3 DEF QueueActivity
<1>4. ASSUME NEW p \in Activity, NEW a \in Activity, ContinueSession(p, a)
      PROVE  UNCHANGED <<attempts, leases, results, controls, pauses>>
  BY <1>4 DEF ContinueSession
<1>5. ASSUME NEW p \in Activity, NEW r \in Runtime, NEW s \in Session, NEW a \in Activity,
             StartFallback(p, r, s, a)
      PROVE  UNCHANGED <<attempts, leases, results, controls, pauses>>
  BY <1>5 DEF StartFallback
<1>6. ASSUME NEW a \in Activity, WakeTimeReached(a)
      PROVE  UNCHANGED <<attempts, leases, results, controls, pauses>>
  BY <1>6 DEF WakeTimeReached
<1> QED
  BY <1>1, <1>2, <1>3, <1>4, <1>5, <1>6 DEF WorkCommands

\* A milestone extends one existing Attempt and no other.
LEMMA AddMilestoneEffect ==
  ASSUME TypeOK, NEW t \in Attempt, attempts[t] # None, NEW kind \in Kinds, AddMilestone(t, kind)
  PROVE  /\ attempts'[t] \in AttemptRecord
         /\ attempts'[t] # None
         /\ attempts'[t].activity = attempts[t].activity
         /\ attempts'[t].milestones = attempts[t].milestones \cup {kind}
         /\ \A u \in Attempt : u # t => attempts'[u] = attempts[u]
<1>1. [attempts[t] EXCEPT !.milestones = @ \cup {kind}] \in AttemptRecord
  BY DEF TypeOK, AttemptRecord
<1> QED
  BY <1>1, NoneAssumption DEF AddMilestone, TypeOK, AttemptRecord

\* A launch creates one Attempt, without milestones, and changes no other.
LEMMA PrepareAttemptEffect ==
  ASSUME TypeOK, NEW a \in Activity, NEW r \in Runtime, NEW t \in Attempt, PrepareAttempt(a, r, t)
  PROVE  /\ attempts[t] = None /\ attempts'[t] # None
         /\ attempts'[t].activity = a /\ attempts'[t].milestones = {}
         /\ \A u \in Attempt : u # t => attempts'[u] = attempts[u]
<1>1. PICK o \in NextOrdinals(a) :
        attempts' = [attempts EXCEPT ![t] = [activity |-> a, ordinal |-> o, runtime |-> r,
                                             milestones |-> {}]]
  BY DEF PrepareAttempt
<1>2. [activity |-> a, ordinal |-> o, runtime |-> r, milestones |-> {}] \in AttemptRecord
  BY OrdinalsType DEF AttemptRecord
<1> QED
  BY <1>1, <1>2, NoneAssumption DEF TypeOK, PrepareAttempt

\* A startup reconciliation ends the Attempts it is given, adds nothing but the
\* ends to their histories, and changes no other.
LEMMA ReconcileStartupEffect ==
  ASSUME TypeOK, NEW T \in SUBSET Attempt, ReconcileStartup(T)
  PROVE  /\ \A t \in T : /\ attempts[t] # None /\ attempts'[t] # None
                         /\ attempts'[t].activity = attempts[t].activity
                         /\ attempts'[t].milestones \subseteq
                              attempts[t].milestones \cup {"exit", "adapter_start_failed"}
                         /\ attempts[t].milestones \cup {"exit"} \subseteq attempts'[t].milestones
         /\ \A t \in Attempt \ T : attempts'[t] = attempts[t]
<1>1. ASSUME NEW r \in AttemptRecord, NEW extra \in SUBSET {"adapter_start_failed"}
      PROVE  LET ended == [r EXCEPT !.milestones = @ \cup {"exit"} \cup extra] IN
             /\ ended \in AttemptRecord
             /\ ended.activity = r.activity
             /\ ended.milestones = r.milestones \cup {"exit"} \cup extra
  BY DEF AttemptRecord, Kinds
<1>2. ASSUME NEW t \in T
      PROVE  /\ attempts[t] \in AttemptRecord
             /\ \E extra \in SUBSET {"adapter_start_failed"} :
                  attempts'[t] = [attempts[t] EXCEPT !.milestones = @ \cup {"exit"} \cup extra]
  <2>1. attempts[t] \in AttemptRecord
    BY DEF ReconcileStartup, Live, TypeOK
  <2>2. attempts'[t] = [attempts[t] EXCEPT !.milestones =
          @ \cup {"exit"}
            \cup (IF attempts[t].milestones = {} THEN {"adapter_start_failed"} ELSE {})]
    BY <2>1 DEF ReconcileStartup
  <2> QED
    BY <2>1, <2>2
<1>3. \A t \in T : attempts[t] # None
  BY DEF ReconcileStartup, Live
<1>4. \A t \in Attempt \ T : attempts'[t] = attempts[t]
  BY DEF ReconcileStartup
<1>5. ASSUME NEW t \in T
      PROVE  /\ attempts'[t] \in AttemptRecord
             /\ attempts'[t].activity = attempts[t].activity
             /\ attempts'[t].milestones \subseteq
                  attempts[t].milestones \cup {"exit", "adapter_start_failed"}
             /\ attempts[t].milestones \cup {"exit"} \subseteq attempts'[t].milestones
  <2>1. PICK extra \in SUBSET {"adapter_start_failed"} :
          attempts'[t] = [attempts[t] EXCEPT !.milestones = @ \cup {"exit"} \cup extra]
    BY <1>2
  <2>2. attempts[t] \in AttemptRecord
    BY <1>2
  <2> QED
    BY <1>1, <2>1, <2>2
<1> QED
  BY <1>3, <1>4, <1>5, NoneAssumption


\* The WorkSpec an Attempt was launched for never changes.
LEMMA WorkKept ==
  ASSUME TypeOK, StateValid, IdentitiesKept, NEW t \in Attempt, attempts[t] # None
  PROVE  WorkOf(attempts[t].activity)' = WorkOf(attempts[t].activity)
<1> DEFINE a == attempts[t].activity
<1>1. /\ a \in Activity /\ Known(a)
      /\ attempts'[t].activity = a /\ activities'[a] = activities[a]
  BY DEF TypeOK, StateValid, IdentitiesKept, Known, AttemptRecord
<1>2. /\ activities[a].workflow \in Workflow /\ activities[a].node \in Node
      /\ nodes[activities[a].workflow][activities[a].node] # None
  BY <1>1 DEF TypeOK, StateValid, Known, ActivityRecord
<1>3. nodes'[activities[a].workflow][activities[a].node]
        = nodes[activities[a].workflow][activities[a].node]
  BY <1>2 DEF IdentitiesKept
<1> QED
  BY <1>1, <1>3 DEF WorkOf

\* A step that launches, ends and releases nothing keeps Leases in step with
\* Attempts.
LEMMA LeasesFramed ==
  ASSUME TypeOK, StateValid, IdentitiesKept, LeaseTracksAttempt, leases' = leases,
         \A t \in Attempt : attempts[t] = None => attempts'[t] = None,
         \A t \in Attempt : attempts[t] # None => HasExit(t)' = HasExit(t)
  PROVE  LeaseTracksAttempt'
  BY WorkKept DEF LeaseTracksAttempt, IdentitiesKept

\* Released releases the given Leases and no other, on their own worktrees.
LEMMA ReleasedEffect ==
  ASSUME TypeOK, NEW T \in SUBSET Attempt, \A t \in T : leases[t] # None, leases' = Released(T)
  PROVE  /\ \A t \in T : /\ leases'[t] # None /\ leases'[t].released
                         /\ leases'[t].worktree = leases[t].worktree
         /\ \A t \in Attempt \ T : leases'[t] = leases[t]
<1>1. \A t \in T : [leases[t] EXCEPT !.released = TRUE] \in LeaseRecord
  BY DEF TypeOK, LeaseRecord
<1> QED
  BY <1>1, NoneAssumption DEF Released, TypeOK, LeaseRecord

\* An Activity stands on an existing Workflow, Node and Session of that Workflow.
ActivityPlaced(a) ==
  /\ workflows[activities[a].workflow] # None
  /\ nodes[activities[a].workflow][activities[a].node] # None
  /\ sessions[activities[a].session] # None
  /\ sessions[activities[a].session].workflow = activities[a].workflow

\* Old identities stay valid; only what a command creates has to be looked at.
LEMMA StateValidExtended ==
  ASSUME TypeOK, StateValid, IdentitiesKept,
         \A a \in Activity : activities[a] = None /\ activities'[a] # None => ActivityPlaced(a)',
         \A t \in Attempt : attempts[t] = None /\ attempts'[t] # None
                             => Known(attempts[t].activity)',
         \A a \in Activity : \/ results'[a] = results[a]
                             \/ Known(a) /\ results'[a].attempt \in AttemptsOf(a),
         \A w \in Workflow :
           \/ pauses'[w] = None
           \/ pauses[w] # None /\ pauses'[w].fenced = pauses[w].fenced
           \/ /\ workflows[w] # None
              /\ \A t \in pauses'[w].fenced :
                   t \in Attempt /\ attempts[t] # None /\ WorkflowOf(t) = w
  PROVE  StateValid'
<1>1. \A a \in Activity : Known(a)' => ActivityPlaced(a)'
  BY DEF TypeOK, StateValid, IdentitiesKept, ActivityPlaced, Known, ActivityRecord
<1>2. \A t \in Attempt : attempts'[t] # None => Known(attempts[t].activity)'
  BY DEF TypeOK, StateValid, IdentitiesKept, Known, AttemptRecord
<1>3. ASSUME NEW a \in Activity, results'[a] # None
      PROVE  Known(a)' /\ results'[a].attempt \in AttemptsOf(a)'
  <2>1. Known(a) /\ results'[a].attempt \in AttemptsOf(a)
    BY <1>3 DEF StateValid
  <2> QED
    BY <2>1 DEF IdentitiesKept, Known, AttemptsOf
<1>4. \A t \in Attempt : attempts[t] # None => attempts'[t] # None /\ WorkflowOf(t)' = WorkflowOf(t)
  BY DEF TypeOK, StateValid, IdentitiesKept, Known, WorkflowOf, ActivityOf, AttemptRecord
<1>5. ASSUME NEW w \in Workflow, pauses'[w] # None
      PROVE  /\ workflows'[w] # None
             /\ \A t \in pauses'[w].fenced : attempts'[t] # None /\ WorkflowOf(t)' = w
  <2>1. /\ workflows[w] # None
        /\ \A t \in pauses'[w].fenced : t \in Attempt /\ attempts[t] # None /\ WorkflowOf(t) = w
    BY <1>5 DEF TypeOK, StateValid, PauseRecord
  <2> QED
    BY <1>4, <2>1 DEF IdentitiesKept
<1> QED
  BY <1>1, <1>2, <1>3, <1>5 DEF StateValid, ActivityPlaced

\* A launch and its Lease appear together.
LEMMA PrepareAttemptLeases ==
  ASSUME TypeOK, StateValid, IdentitiesKept, LeaseTracksAttempt,
         NEW a \in Activity, NEW r \in Runtime, NEW t \in Attempt, PrepareAttempt(a, r, t)
  PROVE  LeaseTracksAttempt'
<1>1. /\ attempts'[t] # None /\ attempts'[t].activity = a /\ ~HasExit(t)'
      /\ \A u \in Attempt : u # t => attempts'[u] = attempts[u]
  BY PrepareAttemptEffect DEF HasExit
<1>2. /\ leases'[t] # None /\ leases'[t].worktree = WorkOf(a).root /\ ~leases'[t].released
      /\ \A u \in Attempt : u # t => leases'[u] = leases[u]
  <2>1. [worktree |-> WorkOf(a).root, released |-> FALSE] \in LeaseRecord
    BY WorkOfType DEF PrepareAttempt, WorkRecord, LeaseRecord
  <2> QED
    BY <2>1, NoneAssumption DEF PrepareAttempt, TypeOK
<1>3. WorkOf(a)' = WorkOf(a)
  BY DEF PrepareAttempt, WorkOf
<1>4. \A u \in Attempt : u # t /\ attempts[u] # None => /\ HasExit(u)' = HasExit(u)
                                   /\ WorkOf(attempts[u].activity)' = WorkOf(attempts[u].activity)
  BY <1>1, WorkKept DEF HasExit
<1> QED
  BY <1>1, <1>2, <1>3, <1>4 DEF LeaseTracksAttempt

\* Ends and releases of the same Attempts keep Leases in step.
LEMMA EndedLeases ==
  ASSUME TypeOK, StateValid, IdentitiesKept, LeaseTracksAttempt,
         NEW T \in SUBSET Attempt, 
         \A t \in T : attempts[t] # None /\ HasExit(t)',
         \A t \in Attempt \ T : attempts'[t] = attempts[t],
         leases' = Released(T)
  PROVE  LeaseTracksAttempt'
<1>1. \A t \in T : leases[t] # None
  BY DEF LeaseTracksAttempt
<1>2. \A t \in Attempt \ T : attempts[t] # None => HasExit(t)' = HasExit(t)
  BY DEF HasExit
<1> QED
  BY <1>1, <1>2, ReleasedEffect, WorkKept DEF LeaseTracksAttempt, IdentitiesKept

\* StartExecution preserves the invariant and every identity.
LEMMA StartExecutionKeepsFoundation ==
  ASSUME Foundation, NEW w \in Workflow, NEW p \in Profiles, NEW n \in Node, NEW k \in Works,
         NEW s \in Session, NEW x \in OrNone(NativeId), NEW a \in Activity,
         StartExecution(w, p, n, k, s, x, a)
  PROVE  Foundation' /\ IdentitiesKept
<1> USE DEF Foundation
<1>1. TypeOK'
  BY StartExecutionType
<1>2. IdentitiesKept
  BY DEF IdentitiesKept, NodesHaveWorkflow, TypeOK, StartExecution, NewSession, NewActivity
<1>3. NodesHaveWorkflow'
  BY NoneAssumption DEF NodesHaveWorkflow, TypeOK, StartExecution
<1>4. StateValid'
  <2>1. /\ [work |-> k, deps |-> {}] \in NodeRecord
        /\ [workflow |-> w, runtime |-> k.runtime, native |-> x,
          parent |-> None] \in SessionRecord
    BY WorksAssumption DEF NodeRecord, WorkRecord, SessionRecord
  <2>2. /\ workflows'[w] # None
        /\ nodes'[w][n] # None
        /\ sessions'[s] # None /\ sessions'[s].workflow = w
    <3>1. workflows'[w] # None
      BY NoneAssumption DEF TypeOK, StartExecution
    <3>2. nodes'[w][n] # None
      BY <2>1, NoneAssumption DEF TypeOK, StartExecution
    <3>3. sessions'[s] # None /\ sessions'[s].workflow = w
      BY <2>1, NoneAssumption DEF TypeOK, StartExecution, NewSession
    <3> QED
      BY <3>1, <3>2, <3>3
  <2>3. \A b \in Activity : activities[b] = None /\ activities'[b] # None => ActivityPlaced(b)'
    <3> DEFINE first == [workflow |-> w, node |-> n, session |-> s, generation |-> 1,
                         parent |-> None, bindings |-> NoBindings]
    <3>1. activities' = [activities EXCEPT ![a] = first]
      BY DEF StartExecution, NewActivity
    <3>2. activities'[a] = first /\ \A b \in Activity : b # a => activities'[b] = activities[b]
      BY <3>1 DEF TypeOK
    <3>3. ActivityPlaced(a)'
      BY <2>2, <3>2 DEF ActivityPlaced
    <3> QED
      BY <3>2, <3>3
  <2> QED
    BY <1>2, <2>3, StateValidExtended DEF StartExecution
<1>5. LeaseTracksAttempt'
  BY <1>2, LeasesFramed DEF HasExit, StartExecution
<1> QED
  BY <1>1, <1>2, <1>3, <1>4, <1>5

\* AddNode preserves the invariant and every identity.
LEMMA AddNodeKeepsFoundation ==
  ASSUME Foundation, NEW w \in Workflow, NEW n \in Node, NEW k \in Works,
         NEW deps \in SUBSET Node,
         AddNode(w, n, k, deps)
  PROVE  Foundation' /\ IdentitiesKept
<1> USE DEF Foundation
<1>1. TypeOK'
  BY AddNodeType
<1>2. IdentitiesKept
  BY DEF IdentitiesKept, TypeOK, AddNode
<1>3. NodesHaveWorkflow'
  BY DEF NodesHaveWorkflow, TypeOK, AddNode
<1>4. StateValid'
  BY <1>2, StateValidExtended DEF AddNode
<1>5. LeaseTracksAttempt'
  BY <1>2, LeasesFramed DEF HasExit, AddNode
<1> QED
  BY <1>1, <1>2, <1>3, <1>4, <1>5

\* QueueActivity preserves the invariant and every identity.
LEMMA QueueActivityKeepsFoundation ==
  ASSUME Foundation, NEW w \in Workflow, NEW n \in Node, NEW s \in Session, NEW a \in Activity,
         QueueActivity(w, n, s, a)
  PROVE  Foundation' /\ IdentitiesKept
<1> USE DEF Foundation
<1>1. TypeOK'
  BY QueueActivityType
<1>2. IdentitiesKept
  BY DEF IdentitiesKept, TypeOK, QueueActivity, NewActivity
<1>3. NodesHaveWorkflow'
  BY DEF NodesHaveWorkflow, QueueActivity
<1>4. StateValid'
  BY <1>2, StateValidExtended DEF TypeOK, ActivityPlaced, QueueActivity, NewActivity
<1>5. LeaseTracksAttempt'
  BY <1>2, LeasesFramed DEF HasExit, QueueActivity
<1> QED
  BY <1>1, <1>2, <1>3, <1>4, <1>5

\* ContinueSession preserves the invariant and every identity.
LEMMA ContinueSessionKeepsFoundation ==
  ASSUME Foundation, NEW p \in Activity, NEW a \in Activity,
         ContinueSession(p, a)
  PROVE  Foundation' /\ IdentitiesKept
<1> USE DEF Foundation
<1>1. TypeOK'
  BY ContinueSessionType
<1>2. IdentitiesKept
  BY DEF IdentitiesKept, TypeOK, ContinueSession, NewActivity
<1>3. NodesHaveWorkflow'
  BY DEF NodesHaveWorkflow, ContinueSession
<1>4. StateValid'
  <2>1. activities[p] \in ActivityRecord /\ ActivityPlaced(p)
    BY DEF ContinueSession, Known, TypeOK, StateValid, ActivityPlaced
  <2>2. PICK g : NewActivity(a, Successor(p, activities[p].session, g))
    BY DEF ContinueSession
  <2>3. \A b \in Activity : activities[b] = None /\ activities'[b] # None => ActivityPlaced(b)'
    BY <2>1, <2>2
    DEF TypeOK, ActivityPlaced, ContinueSession, NewActivity, Successor, ActivityRecord
  <2> QED
    BY <1>2, <2>3, StateValidExtended DEF ContinueSession
<1>5. LeaseTracksAttempt'
  BY <1>2, LeasesFramed DEF HasExit, ContinueSession
<1> QED
  BY <1>1, <1>2, <1>3, <1>4, <1>5

\* StartFallback preserves the invariant and every identity.
LEMMA StartFallbackKeepsFoundation ==
  ASSUME Foundation, NEW p \in Activity, NEW r \in Runtime, NEW s \in Session, NEW a \in Activity,
         StartFallback(p, r, s, a)
  PROVE  Foundation' /\ IdentitiesKept
<1> USE DEF Foundation
<1>1. TypeOK'
  BY StartFallbackType
<1>2. IdentitiesKept
  BY DEF IdentitiesKept, TypeOK, StartFallback, NewActivity, NewSession
<1>3. NodesHaveWorkflow'
  BY DEF NodesHaveWorkflow, StartFallback
<1>4. StateValid'
  <2> DEFINE child == [workflow |-> activities[p].workflow, runtime |-> r, native |-> None,
                       parent |-> activities[p].session]
  <2>1. activities[p] \in ActivityRecord /\ child \in SessionRecord
    BY DEF StartFallback, Known, TypeOK, ActivityRecord, SessionRecord
  <2>2. sessions'[s] # None /\ sessions'[s].workflow = activities[p].workflow
    BY <2>1, NoneAssumption DEF TypeOK, StartFallback, NewSession
  <2>3. \A b \in Activity : activities[b] = None /\ activities'[b] # None => ActivityPlaced(b)'
    BY <2>1, <2>2 DEF TypeOK, StateValid, ActivityPlaced, Known, StartFallback, NewActivity,
       Successor,
       ActivityRecord
  <2> QED
    BY <1>2, <2>3, StateValidExtended DEF StartFallback
<1>5. LeaseTracksAttempt'
  BY <1>2, LeasesFramed DEF HasExit, StartFallback
<1> QED
  BY <1>1, <1>2, <1>3, <1>4, <1>5

\* WakeTimeReached preserves the invariant and every identity.
LEMMA WakeTimeReachedKeepsFoundation ==
  ASSUME Foundation, NEW a \in Activity,
         WakeTimeReached(a)
  PROVE  Foundation' /\ IdentitiesKept
<1> USE DEF Foundation
<1>1. TypeOK'
  BY WakeTimeReachedType
<1>2. IdentitiesKept
  BY DEF IdentitiesKept, WakeTimeReached
<1>3. NodesHaveWorkflow'
  BY DEF NodesHaveWorkflow, WakeTimeReached
<1>4. StateValid'
  BY <1>2, StateValidExtended DEF WakeTimeReached
<1>5. LeaseTracksAttempt'
  BY <1>2, LeasesFramed DEF HasExit, WakeTimeReached
<1> QED
  BY <1>1, <1>2, <1>3, <1>4, <1>5

\* PrepareAttempt preserves the invariant and every identity.
LEMMA PrepareAttemptKeepsFoundation ==
  ASSUME Foundation, NEW a \in Activity, NEW r \in Runtime, NEW t \in Attempt,
         PrepareAttempt(a, r, t)
  PROVE  Foundation' /\ IdentitiesKept
<1> USE DEF Foundation
<1>1. TypeOK'
  BY PrepareAttemptType
<1>2. IdentitiesKept
  BY PrepareAttemptEffect DEF IdentitiesKept, PrepareAttempt
<1>3. NodesHaveWorkflow'
  BY DEF NodesHaveWorkflow, PrepareAttempt
<1>4. StateValid'
  BY <1>2, PrepareAttemptEffect, StateValidExtended DEF Known, PrepareAttempt
<1>5. LeaseTracksAttempt'
  BY <1>2, PrepareAttemptLeases
<1> QED
  BY <1>1, <1>2, <1>3, <1>4, <1>5

\* RecordSpawned preserves the invariant and every identity.
LEMMA RecordSpawnedKeepsFoundation ==
  ASSUME Foundation, NEW t \in Attempt,
         RecordSpawned(t)
  PROVE  Foundation' /\ IdentitiesKept
<1> USE DEF Foundation
<1>1. TypeOK'
  BY RecordSpawnedType
<1>2. IdentitiesKept
  BY AddMilestoneEffect DEF IdentitiesKept, RecordSpawned, MayRecord, Kinds
<1>3. NodesHaveWorkflow'
  BY DEF NodesHaveWorkflow, RecordSpawned
<1>4. StateValid'
  BY <1>2, AddMilestoneEffect, StateValidExtended DEF RecordSpawned, MayRecord, Kinds
<1>5. LeaseTracksAttempt'
  BY <1>2, AddMilestoneEffect, LeasesFramed DEF HasExit, RecordSpawned, MayRecord, Kinds
<1> QED
  BY <1>1, <1>2, <1>3, <1>4, <1>5

\* RecordSessionBound preserves the invariant and every identity.
LEMMA RecordSessionBoundKeepsFoundation ==
  ASSUME Foundation, NEW t \in Attempt, NEW x \in NativeId,
         RecordSessionBound(t, x)
  PROVE  Foundation' /\ IdentitiesKept
<1> USE DEF Foundation
<1>1. TypeOK'
  BY RecordSessionBoundType
<1>2. IdentitiesKept
  <2>1. \A r \in SessionRecord : /\ [r EXCEPT !.native = x] \in SessionRecord
                                  /\ [r EXCEPT !.native = x].workflow = r.workflow
    BY DEF SessionRecord
  <2>2. \A s \in Session : sessions[s] # None =>
          sessions'[s] # None /\ sessions'[s].workflow = sessions[s].workflow
    BY <2>1, NoneAssumption DEF RecordSessionBound, TypeOK
  <2> QED
    BY <2>2 DEF IdentitiesKept, RecordSessionBound
<1>3. NodesHaveWorkflow'
  BY DEF NodesHaveWorkflow, RecordSessionBound
<1>4. StateValid'
  BY <1>2, StateValidExtended DEF RecordSessionBound
<1>5. LeaseTracksAttempt'
  BY <1>2, LeasesFramed DEF HasExit, RecordSessionBound
<1> QED
  BY <1>1, <1>2, <1>3, <1>4, <1>5

\* RecordTurnStarted preserves the invariant and every identity.
LEMMA RecordTurnStartedKeepsFoundation ==
  ASSUME Foundation, NEW t \in Attempt,
         RecordTurnStarted(t)
  PROVE  Foundation' /\ IdentitiesKept
<1> USE DEF Foundation
<1>1. TypeOK'
  BY RecordTurnStartedType
<1>2. IdentitiesKept
  BY AddMilestoneEffect DEF IdentitiesKept, RecordTurnStarted, MayRecord, Kinds
<1>3. NodesHaveWorkflow'
  BY DEF NodesHaveWorkflow, RecordTurnStarted
<1>4. StateValid'
  BY <1>2, AddMilestoneEffect, StateValidExtended DEF RecordTurnStarted, MayRecord, Kinds
<1>5. LeaseTracksAttempt'
  BY <1>2, AddMilestoneEffect, LeasesFramed DEF HasExit, RecordTurnStarted, MayRecord, Kinds
<1> QED
  BY <1>1, <1>2, <1>3, <1>4, <1>5

\* RecordResult preserves the invariant and every identity.
LEMMA RecordResultKeepsFoundation ==
  ASSUME Foundation, NEW t \in Attempt, NEW status \in WorkerStatus,
         RecordResult(t, status)
  PROVE  Foundation' /\ IdentitiesKept
<1> USE DEF Foundation
<1>1. TypeOK'
  BY RecordResultType
<1>2. IdentitiesKept
  BY AddMilestoneEffect DEF IdentitiesKept, RecordResult, MayRecord, Kinds
<1>3. NodesHaveWorkflow'
  BY DEF NodesHaveWorkflow, RecordResult
<1>4. StateValid'
  <2>1. \A u \in Attempt : attempts[u] = None => attempts'[u] = None
    BY AddMilestoneEffect DEF RecordResult, MayRecord, Kinds
  <2>2. \A a \in Activity : \/ results'[a] = results[a]
                            \/ Known(a) /\ results'[a].attempt \in AttemptsOf(a)
    BY DEF TypeOK, StateValid, RecordResult, MayRecord, AttemptsOf
  <2> QED
    BY <1>2, <2>1, <2>2, StateValidExtended DEF RecordResult
<1>5. LeaseTracksAttempt'
  BY <1>2, AddMilestoneEffect, LeasesFramed DEF HasExit, RecordResult, MayRecord, Kinds
<1> QED
  BY <1>1, <1>2, <1>3, <1>4, <1>5

\* RecordStartFailure preserves the invariant and every identity.
LEMMA RecordStartFailureKeepsFoundation ==
  ASSUME Foundation, NEW t \in Attempt, NEW kind \in StartFailures,
         RecordStartFailure(t, kind)
  PROVE  Foundation' /\ IdentitiesKept
<1> USE DEF Foundation
<1>1. TypeOK'
  BY RecordStartFailureType
<1>2. IdentitiesKept
  BY AddMilestoneEffect DEF IdentitiesKept, RecordStartFailure, MayRecord, Kinds, StartFailures
<1>3. NodesHaveWorkflow'
  BY DEF NodesHaveWorkflow, RecordStartFailure
<1>4. StateValid'
  BY <1>2, AddMilestoneEffect, StateValidExtended DEF RecordStartFailure, MayRecord, Kinds,
     StartFailures
<1>5. LeaseTracksAttempt'
  BY <1>2, AddMilestoneEffect, LeasesFramed DEF HasExit, RecordStartFailure, MayRecord, Kinds,
     StartFailures
<1> QED
  BY <1>1, <1>2, <1>3, <1>4, <1>5

\* RecordExit preserves the invariant and every identity.
LEMMA RecordExitKeepsFoundation ==
  ASSUME Foundation, NEW t \in Attempt, NEW succeeded \in BOOLEAN,
         RecordExit(t, succeeded)
  PROVE  Foundation' /\ IdentitiesKept
<1> USE DEF Foundation
<1>1. TypeOK'
  BY RecordExitType
<1>2. IdentitiesKept
  BY AddMilestoneEffect DEF IdentitiesKept, RecordExit, MayRecord, Kinds
<1>3. NodesHaveWorkflow'
  BY DEF NodesHaveWorkflow, RecordExit
<1>4. StateValid'
  <2>1. \A u \in Attempt : attempts[u] = None => attempts'[u] = None
    BY AddMilestoneEffect DEF RecordExit, MayRecord, Kinds
  <2>2. \A a \in Activity : \/ results'[a] = results[a]
                            \/ Known(a) /\ results'[a].attempt \in AttemptsOf(a)
    BY DEF TypeOK, StateValid, RecordExit, MayRecord, AttemptsOf
  <2>3. \A w \in Workflow : pauses'[w] # None
                               => pauses[w] # None /\ pauses'[w].fenced = pauses[w].fenced
    BY DEF TypeOK, PauseRecord, RecordExit, PausesAfterRelease
  <2> QED
    BY <1>2, <2>1, <2>2, <2>3, StateValidExtended DEF RecordExit
<1>5. LeaseTracksAttempt'
  BY <1>2, AddMilestoneEffect, EndedLeases DEF HasExit, RecordExit, MayRecord, Kinds
<1> QED
  BY <1>1, <1>2, <1>3, <1>4, <1>5

\* ReconcileStartup preserves the invariant and every identity.
LEMMA ReconcileStartupKeepsFoundation ==
  ASSUME Foundation, NEW T \in SUBSET Attempt,
         ReconcileStartup(T)
  PROVE  Foundation' /\ IdentitiesKept
<1> USE DEF Foundation
<1>1. TypeOK'
  BY ReconcileStartupType
<1>2. IdentitiesKept
  BY ReconcileStartupEffect DEF IdentitiesKept, ReconcileStartup
<1>3. NodesHaveWorkflow'
  BY DEF NodesHaveWorkflow, ReconcileStartup
<1>4. StateValid'
  <2>1. \A w \in Workflow : pauses'[w] # None
                               => pauses[w] # None /\ pauses'[w].fenced = pauses[w].fenced
    BY DEF TypeOK, PauseRecord, ReconcileStartup, PausesAfterRelease
  <2> QED
    BY <1>2, <2>1, ReconcileStartupEffect, StateValidExtended DEF ReconcileStartup
<1>5. LeaseTracksAttempt'
  <2>1. \A t \in T : attempts[t] # None /\ HasExit(t)'
    BY ReconcileStartupEffect DEF HasExit
  <2> QED
    BY <1>2, <2>1, ReconcileStartupEffect, EndedLeases DEF ReconcileStartup
<1> QED
  BY <1>1, <1>2, <1>3, <1>4, <1>5

\* DecideStop preserves the invariant and every identity.
LEMMA DecideStopKeepsFoundation ==
  ASSUME Foundation, NEW a \in Activity, NEW t \in Attempt, NEW status \in {"completed",
         "needs_human"},
         DecideStop(a, t, status)
  PROVE  Foundation' /\ IdentitiesKept
<1> USE DEF Foundation
<1>1. TypeOK'
  BY DecideStopType
<1>2. IdentitiesKept
  BY DEF IdentitiesKept, DecideStop
<1>3. NodesHaveWorkflow'
  BY DEF NodesHaveWorkflow, DecideStop
<1>4. StateValid'
  BY <1>2, StateValidExtended DEF TypeOK, DecideStop, Decidable
<1>5. LeaseTracksAttempt'
  BY <1>2, LeasesFramed DEF HasExit, DecideStop
<1> QED
  BY <1>1, <1>2, <1>3, <1>4, <1>5

\* DecideContinue preserves the invariant and every identity.
LEMMA DecideContinueKeepsFoundation ==
  ASSUME Foundation, NEW a \in Activity, NEW b \in Activity, NEW t \in Attempt,
         DecideContinue(a, t, b)
  PROVE  Foundation' /\ IdentitiesKept
<1> USE DEF Foundation
<1>1. TypeOK'
  BY DecideContinueType
<1>2. IdentitiesKept
  BY DEF IdentitiesKept, TypeOK, DecideContinue, NewActivity
<1>3. NodesHaveWorkflow'
  BY DEF NodesHaveWorkflow, DecideContinue
<1>4. StateValid'
  <2>1. \A c \in Activity : activities[c] = None /\ activities'[c] # None => ActivityPlaced(c)'
    <3>1. CASE ExistingContinuations(a) # {}
      BY <3>1 DEF DecideContinue
    <3>2. CASE ExistingContinuations(a) = {}
      <4>1. PICK g : NewActivity(b, Successor(a, activities[a].session, g))
        BY <3>2 DEF DecideContinue
      <4>2. Known(a) /\ activities[a] \in ActivityRecord
        BY DEF DecideContinue, Decidable, Known, TypeOK
      <4> QED
        BY <4>1, <4>2 DEF TypeOK, StateValid, ActivityPlaced, Known, DecideContinue, NewActivity,
           Successor, ActivityRecord
    <3> QED
      BY <3>1, <3>2
  <2>2. \A c \in Activity : \/ results'[c] = results[c]
                            \/ Known(c) /\ results'[c].attempt \in AttemptsOf(c)
    BY DEF TypeOK, DecideContinue, Decidable
  <2> QED
    BY <1>2, <2>1, <2>2, StateValidExtended DEF DecideContinue
<1>5. LeaseTracksAttempt'
  BY <1>2, LeasesFramed DEF HasExit, DecideContinue
<1> QED
  BY <1>1, <1>2, <1>3, <1>4, <1>5

\* RequestControl preserves the invariant and every identity.
LEMMA RequestControlKeepsFoundation ==
  ASSUME Foundation, NEW k \in Request, NEW t \in Attempt,
         RequestControl(k, t)
  PROVE  Foundation' /\ IdentitiesKept
<1> USE DEF Foundation
<1>1. TypeOK'
  BY RequestControlType
<1>2. IdentitiesKept
  BY DEF IdentitiesKept, RequestControl
<1>3. NodesHaveWorkflow'
  BY DEF NodesHaveWorkflow, RequestControl
<1>4. StateValid'
  BY <1>2, StateValidExtended DEF RequestControl
<1>5. LeaseTracksAttempt'
  BY <1>2, LeasesFramed DEF HasExit, RequestControl
<1> QED
  BY <1>1, <1>2, <1>3, <1>4, <1>5

\* RequestStaleControl preserves the invariant and every identity.
LEMMA RequestStaleControlKeepsFoundation ==
  ASSUME Foundation, NEW k \in Request,
         RequestStaleControl(k)
  PROVE  Foundation' /\ IdentitiesKept
<1> USE DEF Foundation
<1>1. TypeOK'
  BY RequestStaleControlType
<1>2. IdentitiesKept
  BY DEF IdentitiesKept, RequestStaleControl
<1>3. NodesHaveWorkflow'
  BY DEF NodesHaveWorkflow, RequestStaleControl
<1>4. StateValid'
  BY <1>2, StateValidExtended DEF RequestStaleControl
<1>5. LeaseTracksAttempt'
  BY <1>2, LeasesFramed DEF HasExit, RequestStaleControl
<1> QED
  BY <1>1, <1>2, <1>3, <1>4, <1>5

\* ApplyControl preserves the invariant and every identity.
LEMMA ApplyControlKeepsFoundation ==
  ASSUME Foundation, NEW c \in Control,
         ApplyControl(c)
  PROVE  Foundation' /\ IdentitiesKept
<1> USE DEF Foundation
<1>1. TypeOK'
  BY ApplyControlType
<1>2. IdentitiesKept
  BY DEF IdentitiesKept, ApplyControl
<1>3. NodesHaveWorkflow'
  BY DEF NodesHaveWorkflow, ApplyControl
<1>4. StateValid'
  BY <1>2, StateValidExtended DEF ApplyControl
<1>5. LeaseTracksAttempt'
  BY <1>2, LeasesFramed DEF HasExit, ApplyControl
<1> QED
  BY <1>1, <1>2, <1>3, <1>4, <1>5

\* PauseWorkflow preserves the invariant and every identity.
LEMMA PauseWorkflowKeepsFoundation ==
  ASSUME Foundation, NEW w \in Workflow,
         PauseWorkflow(w)
  PROVE  Foundation' /\ IdentitiesKept
<1> USE DEF Foundation
<1>1. TypeOK'
  BY PauseWorkflowType
<1>2. IdentitiesKept
  BY DEF IdentitiesKept, PauseWorkflow
<1>3. NodesHaveWorkflow'
  BY DEF NodesHaveWorkflow, PauseWorkflow
<1>4. StateValid'
  BY <1>2, StateValidExtended DEF TypeOK, PauseWorkflow, Running, Live
<1>5. LeaseTracksAttempt'
  BY <1>2, LeasesFramed DEF HasExit, PauseWorkflow
<1> QED
  BY <1>1, <1>2, <1>3, <1>4, <1>5

\* SettlePause preserves the invariant and every identity.
LEMMA SettlePauseKeepsFoundation ==
  ASSUME Foundation, NEW w \in Workflow,
         SettlePause(w)
  PROVE  Foundation' /\ IdentitiesKept
<1> USE DEF Foundation
<1>1. TypeOK'
  BY SettlePauseType
<1>2. IdentitiesKept
  BY DEF IdentitiesKept, SettlePause
<1>3. NodesHaveWorkflow'
  BY DEF NodesHaveWorkflow, SettlePause
<1>4. StateValid'
  BY <1>2, StateValidExtended DEF TypeOK, SettlePause, PauseRecord
<1>5. LeaseTracksAttempt'
  BY <1>2, LeasesFramed DEF HasExit, SettlePause
<1> QED
  BY <1>1, <1>2, <1>3, <1>4, <1>5

-----------------------------------------------------------------------------
(* The invariant holds of the whole specification. *)

\* The empty state satisfies the invariant.
LEMMA InitFoundation == Init => Foundation
  BY InitType DEF Init, Foundation, NodesHaveWorkflow, StateValid, LeaseTracksAttempt, Known

\* So does a stuttering step.
LEMMA StutterKeepsFoundation ==
  ASSUME Foundation, UNCHANGED vars
  PROVE  Foundation' /\ IdentitiesKept
<1> USE DEF vars, Foundation
<1>1. IdentitiesKept
  BY DEF IdentitiesKept
<1>2. TypeOK' /\ NodesHaveWorkflow'
  BY DEF TypeOK, NodesHaveWorkflow
<1>3. StateValid'
  BY <1>1, StateValidExtended
<1>4. LeaseTracksAttempt'
  BY <1>1, LeasesFramed DEF HasExit
<1> QED
  BY <1>1, <1>2, <1>3, <1>4

\* Every step does, one lemma per command.
LEMMA StepKeepsFoundation ==
  ASSUME Foundation, [Next]_vars
  PROVE  Foundation' /\ IdentitiesKept
<1>1. CASE WorkCommands
  BY <1>1, StartExecutionKeepsFoundation, AddNodeKeepsFoundation, QueueActivityKeepsFoundation,
     ContinueSessionKeepsFoundation, StartFallbackKeepsFoundation, WakeTimeReachedKeepsFoundation
  DEF WorkCommands
<1>2. CASE AttemptCommands
  BY <1>2, PrepareAttemptKeepsFoundation, RecordSpawnedKeepsFoundation,
     RecordSessionBoundKeepsFoundation, RecordTurnStartedKeepsFoundation,
     RecordResultKeepsFoundation, RecordStartFailureKeepsFoundation,
     RecordExitKeepsFoundation, ReconcileStartupKeepsFoundation
  DEF AttemptCommands
<1>3. CASE DecisionCommands
  BY <1>3, DecideStopKeepsFoundation, DecideContinueKeepsFoundation DEF DecisionCommands
<1>4. CASE ControlCommands
  BY <1>4, RequestControlKeepsFoundation, RequestStaleControlKeepsFoundation,
     ApplyControlKeepsFoundation, PauseWorkflowKeepsFoundation, SettlePauseKeepsFoundation
  DEF ControlCommands
<1> QED
  BY <1>1, <1>2, <1>3, <1>4, StutterKeepsFoundation DEF Next

\* The invariant the theorems below are read off from.
LEMMA FoundationHolds == Spec => []Foundation
  BY InitFoundation, StepKeepsFoundation, PTL DEF Spec

\* Every variable keeps its type, for any sets of identities and any budgets.
THEOREM TypeCorrect == Spec => []TypeOK
<1>1. Foundation => TypeOK
  BY DEF Foundation
<1> QED
  BY <1>1, FoundationHolds, PTL

\* The part of validateState that the inductive invariant needs holds: Activities,
\* Attempts, Results and pauses name what exists.  StatesAreAccepted and ReplaysAgree
\* of StateProofs say it of the whole.
THEOREM StateAlwaysValid == Spec => []StateValid
<1>1. Foundation => StateValid
  BY DEF Foundation
<1> QED
  BY <1>1, FoundationHolds, PTL

\* A Lease is unreleased exactly as long as its Attempt has no exit evidence, and
\* names the worktree of the Attempt's work, whoever records the exit.
THEOREM LeasesTrackAttempts == Spec => []LeaseTracksAttempt
<1>1. Foundation => LeaseTracksAttempt
  BY DEF Foundation
<1> QED
  BY <1>1, FoundationHolds, PTL

\* No command changes what a Workflow, Node, Activity or Attempt was created as.
THEOREM IdentitiesAreKept == Spec => [][IdentitiesKept]_vars
<1>1. Foundation /\ [Next]_vars => [IdentitiesKept]_vars
  BY StepKeepsFoundation
<1> QED
  BY <1>1, FoundationHolds, PTL DEF Spec

-----------------------------------------------------------------------------
(* Attempts and their Leases. *)

\* What one step may do to an Attempt and its Lease: nothing, the launch of a new
\* one, or one more fact about a live one, whose Lease is at most released.
AttemptStep(t) ==
  \/ attempts'[t] = attempts[t] /\ leases'[t] = leases[t]
  \/ /\ attempts[t] = None
     /\ \E a \in Activity, r \in Runtime : PrepareAttempt(a, r, t)
  \/ /\ Live(t)
     /\ leases'[t] = leases[t] \/ leases'[t].released

\* A launch changes nothing about other Attempts.
LEMMA PrepareAttemptStep ==
  ASSUME TypeOK, NEW a \in Activity, NEW r \in Runtime, NEW t \in Attempt, PrepareAttempt(a, r, t)
  PROVE  \A u \in Attempt : AttemptStep(u)
<1>1. \A u \in Attempt : u # t => attempts'[u] = attempts[u] /\ leases'[u] = leases[u]
  BY PrepareAttemptEffect DEF PrepareAttempt, TypeOK
<1>2. attempts[t] = None
  BY DEF PrepareAttempt
<1> QED
  BY <1>1, <1>2 DEF AttemptStep

\* A milestone other than exit leaves every Lease alone.
LEMMA MilestoneStep ==
  ASSUME TypeOK, NEW t \in Attempt, NEW kind \in Kinds, MayRecord(t, kind), AddMilestone(t, kind),
         leases' = leases
  PROVE  \A u \in Attempt : AttemptStep(u)
  BY AddMilestoneEffect DEF AttemptStep, Live, MayRecord

\* An exit changes its own Attempt, which was live, and releases its Lease.
LEMMA RecordExitStep ==
  ASSUME Foundation, NEW t \in Attempt, NEW succeeded \in BOOLEAN, RecordExit(t, succeeded)
  PROVE  \A u \in Attempt : AttemptStep(u)
<1>1. attempts[t] # None /\ leases[t] # None /\ Live(t)
  BY DEF RecordExit, MayRecord, Live, Foundation, LeaseTracksAttempt
<1>2. \A u \in Attempt : u # t => attempts'[u] = attempts[u]
  BY <1>1, AddMilestoneEffect DEF RecordExit, Kinds, Foundation
<1>3. leases'[t].released /\ \A u \in Attempt : u # t => leases'[u] = leases[u]
  <2>1. leases' = Released({t}) /\ {t} \in SUBSET Attempt
    BY DEF RecordExit
  <2>2. \A u \in {t} : leases[u] # None
    BY <1>1
  <2> QED
    BY <2>1, <2>2, ReleasedEffect DEF Foundation
<1> QED
  BY <1>1, <1>2, <1>3 DEF AttemptStep

\* A reconciliation changes only live Attempts and releases their Leases.
LEMMA ReconcileStartupStep ==
  ASSUME Foundation, NEW T \in SUBSET Attempt, ReconcileStartup(T)
  PROVE  \A u \in Attempt : AttemptStep(u)
<1>1. \A t \in T : Live(t) /\ leases[t] # None
  BY DEF ReconcileStartup, Live, Foundation, LeaseTracksAttempt
<1>2. \A t \in T : leases'[t].released
  BY <1>1, ReleasedEffect DEF ReconcileStartup, Foundation
<1>3. \A t \in Attempt \ T : attempts'[t] = attempts[t] /\ leases'[t] = leases[t]
  BY <1>1, ReleasedEffect, ReconcileStartupEffect DEF ReconcileStartup, Foundation
<1> QED
  BY <1>1, <1>2, <1>3 DEF AttemptStep

\* Every command is an AttemptStep of every Attempt.
LEMMA StepOnAttempts ==
  ASSUME Foundation, [Next]_vars
  PROVE  \A t \in Attempt : AttemptStep(t)
<1>1. CASE attempts' = attempts /\ leases' = leases
  BY <1>1 DEF AttemptStep
<1>2. CASE UNCHANGED vars
  BY <1>1, <1>2 DEF vars
<1>3. CASE WorkCommands
  <2>1. attempts' = attempts /\ leases' = leases
    BY <1>3, WorkCommandsFrame
  <2> QED
    BY <1>1, <2>1
<1>4. CASE DecisionCommands
  BY <1>1, <1>4 DEF DecisionCommands, DecideStop, DecideContinue
<1>5. CASE ControlCommands
  BY <1>1, <1>5 DEF ControlCommands, RequestControl, RequestStaleControl, ApplyControl,
     PauseWorkflow, SettlePause
<1>6. CASE AttemptCommands
  <2> USE DEF Foundation
  <2>1. ASSUME NEW t \in Attempt, RecordSpawned(t) PROVE \A u \in Attempt : AttemptStep(u)
    BY <2>1, MilestoneStep DEF RecordSpawned, Kinds
  <2>2. ASSUME NEW t \in Attempt, NEW x \in NativeId, RecordSessionBound(t, x)
        PROVE  \A u \in Attempt : AttemptStep(u)
    BY <1>1, <2>2 DEF RecordSessionBound
  <2>3. ASSUME NEW t \in Attempt, RecordTurnStarted(t) PROVE \A u \in Attempt : AttemptStep(u)
    BY <2>3, MilestoneStep DEF RecordTurnStarted, Kinds
  <2>4. ASSUME NEW t \in Attempt, NEW status \in WorkerStatus, RecordResult(t, status)
        PROVE  \A u \in Attempt : AttemptStep(u)
    BY <2>4, MilestoneStep DEF RecordResult, Kinds
  <2>5. ASSUME NEW t \in Attempt, NEW kind \in StartFailures, RecordStartFailure(t, kind)
        PROVE  \A u \in Attempt : AttemptStep(u)
    BY <2>5, MilestoneStep DEF RecordStartFailure, Kinds, StartFailures
  <2> QED
    BY <1>6, <2>1, <2>2, <2>3, <2>4, <2>5, PrepareAttemptStep, RecordExitStep,
       ReconcileStartupStep DEF AttemptCommands
<1> QED
  BY <1>2, <1>3, <1>4, <1>5, <1>6 DEF Next

\* An exited Attempt's history and its released Lease never change again,
\* whatever a late executor, a second reconciliation or a pause still writes.
THEOREM ExitsAreFinal == Spec => ExitIsFinal
<1>1. ASSUME Foundation, [Next]_vars
      PROVE  [\A t \in Attempt : attempts[t] # None /\ HasExit(t)
                           => attempts'[t] = attempts[t] /\ leases'[t] = leases[t]]_vars
  BY <1>1, StepOnAttempts DEF AttemptStep, Live
<1> QED
  BY <1>1, FoundationHolds, PTL DEF Spec, ExitIsFinal

\* A launch takes a worktree no unreleased Lease names; every other step only
\* gives Leases up.
LEMMA StepKeepsWriterExclusion ==
  ASSUME Foundation, WriterExclusion, [Next]_vars
  PROVE  WriterExclusion'
<1> DEFINE Held(t) == leases[t] # None /\ ~leases[t].released
<1>1. CASE \E a \in Activity, r \in Runtime, t \in Attempt : PrepareAttempt(a, r, t)
  <2>1. PICK a \in Activity, r \in Runtime, t \in Attempt : PrepareAttempt(a, r, t)
    BY <1>1
  <2>2. /\ leases'[t].worktree = WorkOf(a).root
        /\ \A u \in Attempt : u # t => leases'[u] = leases[u]
    BY <2>1 DEF PrepareAttempt, Foundation, TypeOK
  <2>3. \A u \in Attempt : u # t /\ leases'[u] # None /\ ~leases'[u].released
          => leases'[u].worktree # WorkOf(a).root
    BY <2>1, <2>2 DEF PrepareAttempt, LeaseHeld
  <2> QED
    BY <2>2, <2>3 DEF WriterExclusion
<1>2. CASE ~\E a \in Activity, r \in Runtime, t \in Attempt : PrepareAttempt(a, r, t)
  <2>1. \A t \in Attempt : Held(t)' => leases'[t] = leases[t]
    BY <1>2, StepOnAttempts DEF AttemptStep
  <2> QED
    BY <2>1 DEF WriterExclusion
<1> QED
  BY <1>1, <1>2

\* At most one unreleased writer Lease names a worktree, across all Workflows
\* and for any number of processes preparing Attempts.
THEOREM WritersExcluded == Spec => []WriterExclusion
<1>1. Init => WriterExclusion
  BY DEF Init, WriterExclusion
<1> QED
  BY <1>1, FoundationHolds, StepKeepsWriterExclusion, PTL DEF Spec

-----------------------------------------------------------------------------
(* Controls. *)

Accepted(c) == controls[c] # None /\ controls[c].accepted

\* Controls named by an Attempt are that Attempt's pause controls.
PauseControlsNamed ==
  \A c \in Attempt : controls[c] # None => controls[c].accepted /\ controls[c].attempt = c

\* An accepted control is never withdrawn or redirected.
AcceptedKept ==
  \A c \in Control : Accepted(c) => Accepted(c)' /\ controls'[c].attempt = controls[c].attempt

\* A journaled stop is the only control that changes, accepted or not as
\* decided.
LEMMA StopControlStep ==
  ASSUME TypeOK, NEW k \in Request, NEW t \in OrNone(Attempt), NEW accepted \in BOOLEAN,
         controls[k] = None, controls' = [controls EXCEPT ![k] = StopControl(t, accepted)]
  PROVE  /\ Accepted(k)' <=> accepted
         /\ controls'[k].attempt = t
         /\ \A c \in Control : c # k => controls'[c] = controls[c]
<1>1. StopControl(t, accepted) \in ControlRecord
  BY DEF StopControl, ControlRecord
<1>2. controls'[k] = StopControl(t, accepted) /\ StopControl(t, accepted) # None
  BY <1>1, NoneAssumption DEF TypeOK, Control
<1>3. \A c \in Control : c # k => controls'[c] = controls[c]
  BY DEF TypeOK
<1> QED
  BY <1>2, <1>3 DEF StopControl, Accepted

\* Applying a control changes nobody's acceptance or target.
LEMMA ApplyControlStep ==
  ASSUME TypeOK, NEW c \in Control, ApplyControl(c)
  PROVE  \A d \in Control : /\ (controls'[d] = None) <=> (controls[d] = None)
                            /\ controls'[d].accepted = controls[d].accepted
                            /\ controls'[d].attempt = controls[d].attempt
<1>1. \A r \in ControlRecord : LET applied == [r EXCEPT !.applied = TRUE] IN
        /\ applied \in ControlRecord
        /\ applied.accepted = r.accepted /\ applied.attempt = r.attempt
  BY DEF ControlRecord
<1>2. controls[c] \in ControlRecord /\ controls'[c] = [controls[c] EXCEPT !.applied = TRUE]
  BY DEF ApplyControl, TypeOK
<1>3. \A d \in Control : d # c => controls'[d] = controls[d]
  BY DEF ApplyControl, TypeOK
<1>4. controls'[c] \in ControlRecord /\ controls[c] # None
  BY <1>1, <1>2 DEF ApplyControl
<1>5. /\ controls'[c].accepted = controls[c].accepted
      /\ controls'[c].attempt = controls[c].attempt
  BY <1>1, <1>2
<1> QED
  BY <1>3, <1>4, <1>5, NoneAssumption

\* A pause gives each running Attempt without an accepted control its own.
LEMMA PauseWorkflowStep ==
  ASSUME TypeOK, NEW w \in Workflow, PauseWorkflow(w)
  PROVE  \A c \in Control :
           \/ controls'[c] = controls[c] /\ ~(c \in Running(w) /\ AcceptedControls(c) = {})
           \/ /\ c \in Running(w) /\ AcceptedControls(c) = {}
              /\ Accepted(c)' /\ controls'[c].attempt = c
<1>1. \A t \in Attempt : PauseControl(t) \in ControlRecord
  BY DEF PauseControl, ControlRecord
<1>2. \A t \in Attempt : PauseControl(t) # None
  BY <1>1, NoneAssumption
<1>3. Running(w) \subseteq Attempt
  BY DEF Running
<1> QED
  BY <1>2, <1>3 DEF PauseWorkflow, PauseControl, Accepted

\* No step makes a second accepted control for an Attempt, or withdraws one.
LEMMA StepOnControls ==
  ASSUME TypeOK, OneAcceptedControl, PauseControlsNamed, [Next]_vars
  PROVE  OneAcceptedControl' /\ PauseControlsNamed' /\ AcceptedKept
<1> DEFINE Goal == OneAcceptedControl' /\ PauseControlsNamed' /\ AcceptedKept
<1>1. CASE controls' = controls
  BY <1>1 DEF OneAcceptedControl, PauseControlsNamed, AcceptedKept, Accepted
<1>2. CASE UNCHANGED vars
  BY <1>1, <1>2 DEF vars
<1>3. CASE WorkCommands
  <2>1. controls' = controls
    BY <1>3, WorkCommandsFrame
  <2> QED
    BY <1>1, <2>1
<1>4. CASE AttemptCommands
  <2>1. controls' = controls
    BY <1>4 DEF AttemptCommands, PrepareAttempt, RecordSpawned, RecordSessionBound,
       RecordTurnStarted, RecordResult, RecordStartFailure, RecordExit, ReconcileStartup
  <2> QED
    BY <1>1, <2>1
<1>5. CASE DecisionCommands
  BY <1>1, <1>5 DEF DecisionCommands, DecideStop, DecideContinue
<1>6. CASE ControlCommands
  <2>1. ASSUME NEW k \in Request, NEW t \in Attempt, RequestControl(k, t) PROVE Goal
    <3>1. /\ controls'[k].attempt = t
          /\ \A c \in Control : c # k => controls'[c] = controls[c]
      BY <2>1, StopControlStep DEF RequestControl
    <3>2. AcceptedControls(t) = {} /\ controls[k] = None /\ k \in Control /\ k \notin Attempt
      BY <2>1, NoneAssumption DEF RequestControl, Control
    <3>3. \A c \in Control : ~(Accepted(c) /\ controls[c].attempt = t)
      BY <3>2 DEF AcceptedControls, Accepted
    <3> QED
      BY <3>1, <3>2, <3>3
      DEF OneAcceptedControl, PauseControlsNamed, AcceptedKept, Accepted, Control
  <2>2. ASSUME NEW k \in Request, RequestStaleControl(k) PROVE Goal
    <3>1. ~Accepted(k)' /\ \A c \in Control : c # k => controls'[c] = controls[c]
      BY <2>2, StopControlStep DEF RequestStaleControl
    <3>2. controls[k] = None /\ k \notin Attempt
      BY <2>2, NoneAssumption DEF RequestStaleControl
    <3> QED
      BY <3>1, <3>2 DEF OneAcceptedControl, PauseControlsNamed, AcceptedKept, Accepted, Control
  <2>3. ASSUME NEW c \in Control, ApplyControl(c) PROVE Goal
    BY <2>3, ApplyControlStep
    DEF OneAcceptedControl, PauseControlsNamed, AcceptedKept, Accepted, Control
  <2>4. ASSUME NEW w \in Workflow, PauseWorkflow(w) PROVE Goal
    <3>1. \A c \in Control :
            \/ controls'[c] = controls[c]
            \/ /\ c \in Attempt /\ ~Accepted(c)
               /\ \A d \in Control : ~(Accepted(d) /\ controls[d].attempt = c)
               /\ Accepted(c)' /\ controls'[c].attempt = c
      BY <2>4, PauseWorkflowStep
      DEF AcceptedControls, Accepted, Running, PauseControlsNamed
    <3> QED
      BY <3>1 DEF OneAcceptedControl, PauseControlsNamed, AcceptedKept, Accepted, Control
  <2>5. ASSUME NEW w \in Workflow, SettlePause(w) PROVE Goal
    BY <1>1, <2>5 DEF SettlePause
  <2> QED
    BY <1>6, <2>1, <2>2, <2>3, <2>4, <2>5 DEF ControlCommands
<1> QED
  BY <1>2, <1>3, <1>4, <1>5, <1>6 DEF Next

\* The invariant of controls holds of the specification.
LEMMA ControlsSound == Spec => [](OneAcceptedControl /\ PauseControlsNamed)
<1>1. Init => OneAcceptedControl /\ PauseControlsNamed
  BY DEF Init, OneAcceptedControl, PauseControlsNamed, Control
<1> QED
  BY <1>1, TypeCorrect, StepOnControls, PTL DEF Spec

\* However stops and pauses race for an Attempt, at most one is accepted.
THEOREM ControlsExclude == Spec => []OneAcceptedControl
  BY ControlsSound, PTL

-----------------------------------------------------------------------------
(* What a pause knows of its Workflow. *)

PausesSound ==
  /\ DrainingPauseIsControlled
  /\ CompletedPauseIsQuiet
  /\ \A w \in Workflow : pauses[w] # None => pauses[w].released \subseteq pauses[w].fenced

\* An existing Attempt stays in its Workflow.
LEMMA WorkflowKept ==
  ASSUME Foundation, IdentitiesKept, NEW t \in Attempt, attempts[t] # None
  PROVE  WorkflowOf(t) \in Workflow /\ WorkflowOf(t)' = WorkflowOf(t) /\ attempts'[t] # None
  BY DEF Foundation, TypeOK, StateValid, IdentitiesKept, Known, WorkflowOf, ActivityOf,
     AttemptRecord, ActivityRecord

\* An Attempt's Lease is released exactly when it has exited.
LEMMA ReleasedMeansExited ==
  ASSUME Foundation, NEW t \in Attempt, attempts[t] # None
  PROVE  leases[t].released <=> HasExit(t)
  BY DEF Foundation, LeaseTracksAttempt

\* A fenced Attempt is an existing Attempt of the paused Workflow.
LEMMA FencedAttempt ==
  ASSUME Foundation, NEW w \in Workflow, pauses[w] # None, NEW t \in pauses[w].fenced
  PROVE  t \in Attempt /\ attempts[t] # None /\ WorkflowOf(t) = w
  BY DEF Foundation, StateValid, TypeOK, PauseRecord

\* An Attempt held by an accepted control stays held by one.
LEMMA FenceStaysControlled ==
  ASSUME AcceptedKept, NEW t \in Attempt,
         \E c \in Control : controls[c] # None /\ controls[c].accepted /\ controls[c].attempt = t
  PROVE  \E c \in Control : controls'[c] # None /\ controls'[c].accepted /\ controls'[c].attempt = t
  BY DEF AcceptedKept, Accepted

\* A step that leaves pauses, exits and paused Workflows' launches alone keeps
\* pauses sound.
LEMMA PausesFramed ==
  ASSUME Foundation, Foundation', IdentitiesKept, AcceptedKept, PausesSound, pauses' = pauses,
         \A t \in Attempt : attempts[t] # None => HasExit(t)' = HasExit(t),
         \A t \in Attempt : attempts[t] = None /\ attempts'[t] # None
                             => pauses[WorkflowOf(t)'] = None
  PROVE  PausesSound'
<1>1. \A t \in Attempt : attempts[t] # None =>
        /\ attempts'[t] # None
        /\ WorkflowOf(t)' = WorkflowOf(t)
        /\ leases'[t].released = leases[t].released
        /\ HasExit(t)' = HasExit(t)
  <2>1. \A t \in Attempt : attempts[t] # None =>
          (leases[t].released <=> HasExit(t)) /\ (leases'[t].released <=> HasExit(t)')
    BY WorkflowKept, ReleasedMeansExited DEF Foundation, LeaseTracksAttempt
  <2>2. \A t \in Attempt : attempts[t] # None
                            => leases'[t] \in LeaseRecord /\ leases[t] \in LeaseRecord
    BY WorkflowKept DEF Foundation, LeaseTracksAttempt, TypeOK
  <2> QED
    BY <2>1, <2>2, WorkflowKept DEF LeaseRecord
<1>2. ASSUME NEW w \in Workflow, pauses[w] # None, NEW t \in Attempt, attempts'[t] # None,
             WorkflowOf(t)' = w
      PROVE  attempts[t] # None /\ WorkflowOf(t) = w
  BY <1>1, <1>2
<1>3. DrainingPauseIsControlled'
  <2>1. ASSUME NEW w \in Workflow, pauses[w] # None
        PROVE /\ \A t \in Attempt : Live(t)' /\ WorkflowOf(t)' = w => t \in pauses[w].fenced
              /\ \A t \in pauses[w].fenced :
                   /\ \E c \in Control : /\ controls'[c] # None /\ controls'[c].accepted
                                         /\ controls'[c].attempt = t
                   /\ t \in pauses[w].released <=> leases'[t].released
    <3>1. \A t \in Attempt : Live(t)' /\ WorkflowOf(t)' = w => Live(t) /\ WorkflowOf(t) = w
      BY <1>1, <1>2, <2>1 DEF Live
    <3>2. ASSUME NEW t \in pauses[w].fenced
          PROVE  /\ \E c \in Control : /\ controls'[c] # None /\ controls'[c].accepted
                                       /\ controls'[c].attempt = t
                 /\ t \in pauses[w].released <=> leases'[t].released
      <4>1. t \in Attempt /\ attempts[t] # None
        BY <2>1, FencedAttempt
      <4> QED
        BY <1>1, <2>1, <4>1, FenceStaysControlled DEF PausesSound, DrainingPauseIsControlled
    <3> QED
      BY <2>1, <3>1, <3>2 DEF PausesSound, DrainingPauseIsControlled
  <2> QED
    BY <2>1 DEF DrainingPauseIsControlled
<1>4. CompletedPauseIsQuiet'
  BY <1>1, <1>2 DEF PausesSound, CompletedPauseIsQuiet
<1> QED
  BY <1>3, <1>4 DEF PausesSound

\* Noting releases changes only the released part of a pause.
LEMMA PausesAfterReleaseEffect ==
  ASSUME TypeOK, NEW T \in SUBSET Attempt, pauses' = PausesAfterRelease(T)
  PROVE  \A w \in Workflow :
           IF pauses[w] = None THEN pauses'[w] = None
           ELSE /\ pauses'[w] # None
                /\ pauses'[w].phase = pauses[w].phase
                /\ pauses'[w].fenced = pauses[w].fenced
                /\ pauses'[w].released = pauses[w].released \cup (T \cap pauses[w].fenced)
<1>1. \A p \in PauseRecord :
        LET noted == [p EXCEPT !.released = @ \cup (T \cap p.fenced)] IN
        /\ noted \in PauseRecord /\ noted.phase = p.phase /\ noted.fenced = p.fenced
        /\ noted.released = p.released \cup (T \cap p.fenced)
  BY DEF PauseRecord
<1>2. \A w \in Workflow : pauses[w] # None =>
        /\ pauses[w] \in PauseRecord
        /\ pauses'[w] = [pauses[w] EXCEPT !.released = @ \cup (T \cap pauses[w].fenced)]
  BY DEF TypeOK, PausesAfterRelease
<1>3. \A w \in Workflow : pauses[w] = None => pauses'[w] = None
  BY DEF PausesAfterRelease
<1>4. ASSUME NEW w \in Workflow, pauses[w] # None
      PROVE  /\ pauses'[w] \in PauseRecord
             /\ pauses'[w].phase = pauses[w].phase
             /\ pauses'[w].fenced = pauses[w].fenced
             /\ pauses'[w].released = pauses[w].released \cup (T \cap pauses[w].fenced)
  BY <1>1, <1>2, <1>4
<1>5. \A w \in Workflow : pauses[w] # None => pauses'[w] # None
  BY <1>4, NoneAssumption
<1> QED
  BY <1>3, <1>4, <1>5

\* Ending live Attempts and noting their releases keeps pauses sound.
LEMMA EndedPauses ==
  ASSUME Foundation, Foundation', IdentitiesKept, AcceptedKept, PausesSound,
         NEW T \in SUBSET Attempt, \A t \in T : Live(t) /\ HasExit(t)',
         \A t \in Attempt \ T : attempts'[t] = attempts[t],
         pauses' = PausesAfterRelease(T)
  PROVE  PausesSound'
<1>1. \A t \in Attempt : attempts'[t] # None => attempts[t] # None
  BY DEF Live
<1>2. \A t \in Attempt : attempts[t] # None =>
        /\ attempts'[t] # None
        /\ WorkflowOf(t)' = WorkflowOf(t)
        /\ leases'[t].released <=> leases[t].released \/ t \in T
        /\ HasExit(t)' <=> HasExit(t) \/ t \in T
  <2>1. \A t \in Attempt : attempts[t] # None =>
          (leases[t].released <=> HasExit(t)) /\ (leases'[t].released <=> HasExit(t)')
    BY WorkflowKept, ReleasedMeansExited DEF Foundation, LeaseTracksAttempt
  <2>2. \A t \in Attempt : attempts[t] # None => (HasExit(t)' <=> HasExit(t) \/ t \in T)
    BY DEF HasExit
  <2> QED
    BY <2>1, <2>2, WorkflowKept
<1>3. DrainingPauseIsControlled'
  <2>1. ASSUME NEW w \in Workflow, pauses'[w] # None
        PROVE /\ \A t \in Attempt : Live(t)' /\ WorkflowOf(t)' = w => t \in pauses'[w].fenced
              /\ \A t \in pauses'[w].fenced :
                   /\ \E c \in Control : /\ controls'[c] # None /\ controls'[c].accepted
                                         /\ controls'[c].attempt = t
                   /\ t \in pauses'[w].released <=> leases'[t].released
    <3>1. /\ pauses[w] # None /\ pauses'[w].fenced = pauses[w].fenced
          /\ pauses'[w].released = pauses[w].released \cup (T \cap pauses[w].fenced)
      BY <2>1, PausesAfterReleaseEffect DEF Foundation
    <3>2. \A t \in Attempt : Live(t)' /\ WorkflowOf(t)' = w => Live(t) /\ WorkflowOf(t) = w
      BY <1>1, <1>2 DEF Live
    <3>3. ASSUME NEW t \in pauses[w].fenced
          PROVE  /\ \E c \in Control : /\ controls'[c] # None /\ controls'[c].accepted
                                       /\ controls'[c].attempt = t
                 /\ t \in pauses'[w].released <=> leases'[t].released
      <4>1. t \in Attempt /\ attempts[t] # None
        BY <3>1, FencedAttempt
      <4> QED
        BY <1>2, <3>1, <4>1, FenceStaysControlled DEF PausesSound, DrainingPauseIsControlled
    <3> QED
      BY <3>1, <3>2, <3>3 DEF PausesSound, DrainingPauseIsControlled
  <2> QED
    BY <2>1 DEF DrainingPauseIsControlled
<1>4. CompletedPauseIsQuiet'
  <2>1. ASSUME NEW w \in Workflow, pauses'[w] # None, pauses'[w].phase = "completed"
        PROVE  /\ \A t \in Attempt : attempts'[t] # None /\ WorkflowOf(t)' = w
                                       => HasExit(t)' /\ leases'[t].released
               /\ pauses'[w].released = pauses'[w].fenced
    <3>1. /\ pauses[w] # None /\ pauses[w].phase = "completed"
          /\ pauses'[w].fenced = pauses[w].fenced
          /\ pauses'[w].released = pauses[w].released \cup (T \cap pauses[w].fenced)
      BY <2>1, PausesAfterReleaseEffect DEF Foundation
    <3> QED
      BY <1>1, <1>2, <3>1 DEF PausesSound, CompletedPauseIsQuiet
  <2> QED
    BY <2>1 DEF CompletedPauseIsQuiet
<1>5. \A w \in Workflow : pauses'[w] # None => pauses'[w].released \subseteq pauses'[w].fenced
  BY PausesAfterReleaseEffect DEF PausesSound, Foundation
<1> QED
  BY <1>3, <1>4, <1>5 DEF PausesSound

\* A new pause fences exactly the running Attempts, under accepted controls.
LEMMA PauseWorkflowKeepsPauses ==
  ASSUME Foundation, Foundation', IdentitiesKept, AcceptedKept, PausesSound,
         NEW w \in Workflow, PauseWorkflow(w)
  PROVE  PausesSound'
<1>1. /\ pauses'[w] # None /\ pauses'[w].fenced = Running(w) /\ pauses'[w].released = {}
      /\ pauses'[w].phase = "completed" => Running(w) = {}
      /\ \A v \in Workflow : v # w => pauses'[v] = pauses[v]
  <2>1. [phase |-> IF Running(w) = {} THEN "completed" ELSE "draining",
         fenced |-> Running(w), released |-> {}] \in PauseRecord
    BY DEF PauseRecord, Running
  <2>2. pauses' = [pauses EXCEPT ![w] =
                     [phase |-> IF Running(w) = {} THEN "completed" ELSE "draining",
                      fenced |-> Running(w), released |-> {}]]
    BY DEF PauseWorkflow
  <2>3. pauses \in [Workflow -> OrNone(PauseRecord)]
    BY DEF Foundation, TypeOK
  <2> QED
    BY <2>1, <2>2, <2>3, NoneAssumption
<1>2. attempts' = attempts /\ leases' = leases /\ activities' = activities
  BY DEF PauseWorkflow
<1>3. \A t \in Attempt : Live(t) /\ WorkflowOf(t) = w <=> t \in Running(w)
  BY ReleasedMeansExited DEF Running, Live
<1>4. ASSUME NEW t \in Running(w)
      PROVE  \E c \in Control : /\ controls'[c] # None /\ controls'[c].accepted
                                /\ controls'[c].attempt = t
  <2>1. t \in Attempt /\ t \in Control
    BY DEF Running, Control
  <2>2. CASE AcceptedControls(t) = {}
    BY <2>1, <2>2, PauseWorkflowStep DEF Foundation, Accepted
  <2>3. CASE AcceptedControls(t) # {}
    BY <2>1, <2>3, FenceStaysControlled DEF AcceptedControls
  <2> QED
    BY <2>2, <2>3
<1>5. \A t \in Running(w) : t \in Attempt /\ ~leases[t].released
  BY DEF Running
<1>6. DrainingPauseIsControlled'
  <2>1. ASSUME NEW v \in Workflow, pauses'[v] # None
        PROVE /\ \A t \in Attempt : Live(t)' /\ WorkflowOf(t)' = v => t \in pauses'[v].fenced
              /\ \A t \in pauses'[v].fenced :
                   /\ \E c \in Control : /\ controls'[c] # None /\ controls'[c].accepted
                                         /\ controls'[c].attempt = t
                   /\ t \in pauses'[v].released <=> leases'[t].released
    <3>1. \A t \in Attempt : (Live(t)' <=> Live(t)) /\ WorkflowOf(t)' = WorkflowOf(t)
      BY <1>2 DEF Live, HasExit, WorkflowOf, ActivityOf
    <3>2. CASE v = w
      BY <1>1, <1>2, <1>3, <1>4, <1>5, <3>1, <3>2
    <3>3. CASE v # w
      <4>1. \A t \in pauses[v].fenced : t \in Attempt
        BY <1>1, <2>1, <3>3, FencedAttempt
      <4> QED
        BY <1>1, <1>2, <2>1, <3>1, <3>3, <4>1, FenceStaysControlled
        DEF PausesSound, DrainingPauseIsControlled
    <3> QED
      BY <3>2, <3>3
  <2> QED
    BY <2>1 DEF DrainingPauseIsControlled
<1>7. CompletedPauseIsQuiet'
  <2>1. \A t \in Attempt : /\ attempts'[t] = attempts[t] /\ leases'[t] = leases[t]
                           /\ HasExit(t)' = HasExit(t) /\ WorkflowOf(t)' = WorkflowOf(t)
    BY <1>2 DEF HasExit, WorkflowOf, ActivityOf
  <2>2. Running(w) = {} => \A t \in Attempt : attempts[t] # None /\ WorkflowOf(t) = w
                                                => HasExit(t) /\ leases[t].released
    BY <1>3, ReleasedMeansExited DEF Live
  <2>3. ASSUME NEW v \in Workflow, pauses'[v] # None, pauses'[v].phase = "completed"
        PROVE  /\ \A t \in Attempt : attempts[t] # None /\ WorkflowOf(t) = v
                                       => HasExit(t) /\ leases[t].released
               /\ pauses'[v].released = pauses'[v].fenced
    <3>1. CASE v = w
      BY <1>1, <2>2, <2>3, <3>1
    <3>2. CASE v # w
      BY <1>1, <2>3, <3>2 DEF PausesSound, CompletedPauseIsQuiet
    <3> QED
      BY <3>1, <3>2
  <2> QED
    BY <2>1, <2>3 DEF CompletedPauseIsQuiet
<1> QED
  BY <1>1, <1>6, <1>7 DEF PausesSound

\* A pause settles only when everything it fenced has ended, hence when nothing
\* runs.
LEMMA SettlePauseKeepsPauses ==
  ASSUME Foundation, Foundation', IdentitiesKept, AcceptedKept, PausesSound,
         NEW w \in Workflow, SettlePause(w)
  PROVE  PausesSound'
<1>1. /\ pauses[w] # None /\ pauses'[w] # None
      /\ pauses'[w].fenced = pauses[w].fenced /\ pauses'[w].released = pauses[w].released
      /\ \A v \in Workflow : v # w => pauses'[v] = pauses[v]
  <2>0. pauses[w] \in PauseRecord
    BY DEF SettlePause, Foundation, TypeOK
  <2>1. [pauses[w] EXCEPT !.phase = "completed"] \in PauseRecord
    BY <2>0 DEF PauseRecord
  <2>2. /\ pauses' = [pauses EXCEPT ![w] = [pauses[w] EXCEPT !.phase = "completed"]]
        /\ pauses \in [Workflow -> OrNone(PauseRecord)]
    BY DEF SettlePause, Foundation, TypeOK
  <2> QED
    BY <2>0, <2>1, <2>2, NoneAssumption DEF SettlePause, PauseRecord
<1>2. \A t \in Attempt : /\ attempts'[t] = attempts[t] /\ leases'[t] = leases[t]
                         /\ HasExit(t)' = HasExit(t) /\ WorkflowOf(t)' = WorkflowOf(t)
                         /\ Live(t)' = Live(t)
  BY DEF SettlePause, HasExit, WorkflowOf, ActivityOf, Live
<1>3. controls' = controls
  BY DEF SettlePause
<1>4. DrainingPauseIsControlled'
  BY <1>1, <1>2, <1>3, FencedAttempt DEF PausesSound, DrainingPauseIsControlled
<1>5. /\ \A t \in Attempt : attempts[t] # None /\ WorkflowOf(t) = w
                              => HasExit(t) /\ leases[t].released
      /\ pauses[w].released = pauses[w].fenced
  <2>1. \A t \in pauses[w].fenced : HasExit(t) /\ leases[t].released
    BY DEF SettlePause, Drained
  <2>2. pauses[w].fenced \subseteq Attempt
    BY <1>1, FencedAttempt
  <2> QED
    BY <1>1, <2>1, <2>2, ReleasedMeansExited DEF PausesSound, DrainingPauseIsControlled, Live
<1>6. CompletedPauseIsQuiet'
  BY <1>1, <1>2, <1>5 DEF PausesSound, CompletedPauseIsQuiet
<1> QED
  BY <1>1, <1>4, <1>6 DEF PausesSound
\* The milestones other than exit end nothing.
LEMMA MilestoneKeepsExits ==
  ASSUME Foundation, NEW t \in Attempt, NEW kind \in Kinds \ {"exit"}, attempts[t] # None,
         AddMilestone(t, kind)
  PROVE  /\ \A u \in Attempt : attempts[u] # None => HasExit(u)' = HasExit(u)
         /\ \A u \in Attempt : attempts[u] = None => attempts'[u] = None
  BY AddMilestoneEffect DEF Foundation, HasExit

\* Every command keeps pauses sound.
LEMMA StepKeepsPauses ==
  ASSUME Foundation, OneAcceptedControl, PauseControlsNamed, PausesSound, [Next]_vars
  PROVE  PausesSound'
<1>1. Foundation' /\ IdentitiesKept /\ AcceptedKept
  BY StepKeepsFoundation, StepOnControls DEF Foundation
<1>2. CASE pauses' = pauses /\ attempts' = attempts
  BY <1>1, <1>2, PausesFramed DEF HasExit
<1>3. CASE UNCHANGED vars
  BY <1>2, <1>3 DEF vars
<1>4. CASE WorkCommands
  <2>1. pauses' = pauses /\ attempts' = attempts
    BY <1>4, WorkCommandsFrame
  <2> QED
    BY <1>2, <2>1
<1>5. CASE DecisionCommands
  BY <1>2, <1>5 DEF DecisionCommands, DecideStop, DecideContinue
<1>6. CASE ControlCommands
  <2>1. ASSUME NEW w \in Workflow, PauseWorkflow(w) PROVE PausesSound'
    BY <1>1, <2>1, PauseWorkflowKeepsPauses
  <2>2. ASSUME NEW w \in Workflow, SettlePause(w) PROVE PausesSound'
    BY <1>1, <2>2, SettlePauseKeepsPauses
  <2> QED
    BY <1>2, <1>6, <2>1, <2>2 DEF ControlCommands, RequestControl, RequestStaleControl,
       ApplyControl
<1>7. CASE AttemptCommands
  <2>1. ASSUME NEW a \in Activity, NEW r \in Runtime, NEW t \in Attempt, PrepareAttempt(a, r, t)
        PROVE  PausesSound'
    <3>1. /\ attempts[t] = None /\ attempts'[t].activity = a
          /\ \A u \in Attempt : u # t => attempts'[u] = attempts[u]
      BY <2>1, PrepareAttemptEffect DEF Foundation
    <3>2. pauses[activities[a].workflow] = None /\ pauses' = pauses /\ activities' = activities
      BY <2>1 DEF PrepareAttempt
    <3> QED
      BY <1>1, <3>1, <3>2, PausesFramed DEF HasExit, WorkflowOf, ActivityOf
  <2>2. ASSUME NEW t \in Attempt, RecordSpawned(t) PROVE PausesSound'
    <3>1. pauses' = pauses
      BY <2>2 DEF RecordSpawned
    <3> QED
      BY <1>1, <2>2, <3>1, MilestoneKeepsExits, PausesFramed DEF RecordSpawned, MayRecord, Kinds
  <2>3. ASSUME NEW t \in Attempt, NEW x \in NativeId, RecordSessionBound(t, x) PROVE PausesSound'
    BY <1>2, <2>3 DEF RecordSessionBound
  <2>4. ASSUME NEW t \in Attempt, RecordTurnStarted(t) PROVE PausesSound'
    <3>1. pauses' = pauses
      BY <2>4 DEF RecordTurnStarted
    <3> QED
      BY <1>1, <2>4, <3>1, MilestoneKeepsExits, PausesFramed DEF RecordTurnStarted, MayRecord,
         Kinds
  <2>5. ASSUME NEW t \in Attempt, NEW status \in WorkerStatus, RecordResult(t, status)
        PROVE  PausesSound'
    <3>1. pauses' = pauses
      BY <2>5 DEF RecordResult
    <3> QED
      BY <1>1, <2>5, <3>1, MilestoneKeepsExits, PausesFramed DEF RecordResult, MayRecord, Kinds
  <2>6. ASSUME NEW t \in Attempt, NEW kind \in StartFailures, RecordStartFailure(t, kind)
        PROVE  PausesSound'
    <3>1. pauses' = pauses /\ kind \in Kinds \ {"exit"}
      BY <2>6 DEF RecordStartFailure, StartFailures, Kinds
    <3> QED
      BY <1>1, <2>6, <3>1, MilestoneKeepsExits, PausesFramed DEF RecordStartFailure, MayRecord
  <2>7. ASSUME NEW t \in Attempt, NEW succeeded \in BOOLEAN, RecordExit(t, succeeded)
        PROVE  PausesSound'
    <3>1. /\ attempts[t] # None /\ Live(t) /\ AddMilestone(t, "exit")
          /\ pauses' = PausesAfterRelease({t})
      BY <2>7 DEF RecordExit, MayRecord, Live
    <3>2. HasExit(t)' /\ \A u \in Attempt \ {t} : attempts'[u] = attempts[u]
      BY <3>1, AddMilestoneEffect DEF Foundation, Kinds, HasExit
    <3> QED
      BY <1>1, <3>1, <3>2, EndedPauses
  <2>8. ASSUME NEW T \in SUBSET Attempt, ReconcileStartup(T) PROVE PausesSound'
    <3>1. /\ \A t \in T : Live(t) /\ HasExit(t)'
          /\ \A t \in Attempt \ T : attempts'[t] = attempts[t]
          /\ pauses' = PausesAfterRelease(T)
      BY <2>8, ReconcileStartupEffect DEF Foundation, ReconcileStartup, HasExit
    <3> QED
      BY <1>1, <3>1, EndedPauses
  <2> QED
    BY <1>7, <2>1, <2>2, <2>3, <2>4, <2>5, <2>6, <2>7, <2>8 DEF AttemptCommands
<1> QED
  BY <1>3, <1>4, <1>5, <1>6, <1>7 DEF Next

\* The invariant of pauses holds of the specification.
LEMMA PausesStaySound == Spec => []PausesSound
<1>1. Init => PausesSound
  BY DEF Init, PausesSound, DrainingPauseIsControlled, CompletedPauseIsQuiet, Live
<1> QED
  BY <1>1, FoundationHolds, ControlsSound, StepKeepsPauses, PTL DEF Spec

\* From the moment it is requested, a pause fences every running Attempt of its
\* Workflow, holds each by an accepted control and records exactly the releases
\* that happened.
THEOREM PausesAreControlled == Spec => []DrainingPauseIsControlled
<1>1. PausesSound => DrainingPauseIsControlled
  BY DEF PausesSound
<1> QED
  BY <1>1, PausesStaySound, PTL

\* A completed pause's Workflow has no running Attempt and no held worktree,
\* then and ever after.
THEOREM CompletedPausesAreQuiet == Spec => []CompletedPauseIsQuiet
<1>1. PausesSound => CompletedPauseIsQuiet
  BY DEF PausesSound
<1> QED
  BY <1>1, PausesStaySound, PTL

-----------------------------------------------------------------------------
(* A paused Workflow records only ends. *)

\* Milestones other than exit are recorded only in Workflows without a pause.
LEMMA UnpausedMilestone ==
  ASSUME Foundation, IdentitiesKept, NEW t \in Attempt, NEW kind \in Kinds \ {"exit"},
         MayRecord(t, kind), AddMilestone(t, kind), NEW u \in Attempt, attempts'[u] # attempts[u]
  PROVE  pauses[WorkflowOf(u)'] = None
<1>1. u = t /\ attempts[t] # None
  BY AddMilestoneEffect DEF Foundation, MayRecord
<1> QED
  BY <1>1, WorkflowKept DEF MayRecord

\* In a paused Workflow an Attempt changes only by ending.
LEMMA StepFreezesPaused ==
  ASSUME Foundation, [Next]_vars, NEW t \in Attempt, attempts'[t] # attempts[t],
         pauses[WorkflowOf(t)'] # None
  PROVE  /\ attempts[t] # None
         /\ "exit" \in attempts'[t].milestones
         /\ attempts'[t].milestones \ attempts[t].milestones \subseteq
               {"exit", "adapter_start_failed"}
<1>1. IdentitiesKept
  BY StepKeepsFoundation
<1>2. CASE AttemptCommands
  <2>1. ASSUME NEW a \in Activity, NEW r \in Runtime, NEW u \in Attempt, PrepareAttempt(a, r, u)
        PROVE  FALSE
    <3>1. u = t /\ attempts'[t].activity = a
      BY <2>1, PrepareAttemptEffect DEF Foundation
    <3>2. pauses[activities[a].workflow] = None /\ activities' = activities
      BY <2>1 DEF PrepareAttempt
    <3> QED
      BY <3>1, <3>2 DEF WorkflowOf, ActivityOf
  <2>2. ASSUME NEW u \in Attempt, RecordSpawned(u) PROVE FALSE
    BY <1>1, <2>2, UnpausedMilestone DEF RecordSpawned, Kinds
  <2>3. ASSUME NEW u \in Attempt, NEW x \in NativeId, RecordSessionBound(u, x) PROVE FALSE
    BY <2>3 DEF RecordSessionBound
  <2>4. ASSUME NEW u \in Attempt, RecordTurnStarted(u) PROVE FALSE
    BY <1>1, <2>4, UnpausedMilestone DEF RecordTurnStarted, Kinds
  <2>5. ASSUME NEW u \in Attempt, NEW status \in WorkerStatus, RecordResult(u, status) PROVE FALSE
    BY <1>1, <2>5, UnpausedMilestone DEF RecordResult, Kinds
  <2>6. ASSUME NEW u \in Attempt, NEW kind \in StartFailures, RecordStartFailure(u, kind)
        PROVE  FALSE
    <3>1. kind \in Kinds \ {"exit"}
      BY DEF StartFailures, Kinds
    <3> QED
      BY <1>1, <2>6, <3>1, UnpausedMilestone DEF RecordStartFailure
  <2>7. ASSUME NEW u \in Attempt, NEW succeeded \in BOOLEAN, RecordExit(u, succeeded)
        PROVE  t = u /\ attempts[t] # None
               /\ attempts'[t].milestones = attempts[t].milestones \cup {"exit"}
    BY <2>7, AddMilestoneEffect DEF RecordExit, MayRecord, Kinds, Foundation
  <2>8. ASSUME NEW T \in SUBSET Attempt, ReconcileStartup(T)
        PROVE  /\ attempts[t] # None
               /\ attempts'[t].milestones \subseteq
                    attempts[t].milestones \cup {"exit", "adapter_start_failed"}
               /\ attempts[t].milestones \cup {"exit"} \subseteq attempts'[t].milestones
    BY <2>8, ReconcileStartupEffect DEF Foundation
  <2> QED
    BY <1>2, <2>1, <2>2, <2>3, <2>4, <2>5, <2>6, <2>7, <2>8 DEF AttemptCommands
<1>3. CASE WorkCommands
  <2>1. attempts' = attempts
    BY <1>3, WorkCommandsFrame
  <2> QED
    BY <2>1
<1>4. CASE DecisionCommands
  BY <1>4 DEF DecisionCommands, DecideStop, DecideContinue
<1>5. CASE ControlCommands
  BY <1>5 DEF ControlCommands, RequestControl, RequestStaleControl, ApplyControl, PauseWorkflow,
     SettlePause
<1> QED
  BY <1>2, <1>3, <1>4, <1>5 DEF Next, vars

\* No step launches an Attempt in a paused Workflow or records anything but the
\* end of one.
THEOREM PausesFreezeAttempts == Spec => PauseFreezesAttempts
<1>1. Foundation /\ [Next]_vars =>
        [\A t \in Attempt : attempts'[t] # attempts[t] /\ pauses[WorkflowOf(t)'] # None =>
           /\ attempts[t] # None
           /\ "exit" \in attempts'[t].milestones
           /\ attempts'[t].milestones \ attempts[t].milestones
                \subseteq {"exit", "adapter_start_failed"}]_vars
  BY StepFreezesPaused
<1> QED
  BY <1>1, FoundationHolds, PTL DEF Spec, PauseFreezesAttempts
=============================================================================
