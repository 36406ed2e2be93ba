----------------------------- MODULE Supervisor -----------------------------
(***************************************************************************)
(* The command core of internal/supervisor: every Store method that        *)
(* changes durable state is one action.  Store.Execute runs one command    *)
(* under the journal lock against the replayed State (decide), applies its *)
(* events (applyEntry) and appends them as one entry, so a command is one  *)
(* atomic step.  The reducer's own rejections and validateState are NOT    *)
(* guards here: that no command ever needs them is what StateValid and the *)
(* other properties below say.                                             *)
(*                                                                         *)
(* Identities are hashes of caller-chosen idempotency keys; here a command *)
(* takes any unused identity.  A Result and a Message carry the identity   *)
(* of their Activity (ResultID = stableID(activity), one Message per       *)
(* continuation) and a Lease that of its Attempt, so each of these maps is *)
(* indexed by its owner.  A pause's Control for an Attempt is named by the *)
(* Attempt; a stop's by the request that made it.                          *)
(*                                                                         *)
(* A definition introduced as a "Mutant" belongs to no action: it is the   *)
(* definition after it with one plausible bug, to show which property      *)
(* notices.                                                                *)
(***************************************************************************)
EXTENDS Naturals, FiniteSets

CONSTANTS
  Workflow, Node, Session, Activity, Attempt,
  Request,    \* idempotency keys of RequestControl calls
  NativeId,   \* native session identifiers a harness may report
  Worktree,   \* canonical worktree paths
  Runtime,    \* runtime (provider) names
  Profiles,   \* the Workflow settings StartExecution is called with
  Works,      \* the WorkSpecs given to StartExecution and AddNode
  None        \* Go's nil or "" for any identity or record

ProfileRecord ==
  [goal: BOOLEAN,            \* an evaluator model is set (runsAsGoal)
   sessionMode: BOOLEAN,     \* ExecutionModeSession
   maxTurns: Nat,            \* 0: unbounded
   wakes: BOOLEAN,           \* WakeIntervalSeconds > 0
   supervised: BOOLEAN,      \* SupervisionIntervalSeconds > 0
   maxTaskAttempts: Nat, maxLaunches: Nat]

WorkRecord == [root: Worktree, runtime: Runtime, fallbacks: SUBSET Runtime]

\* The milestones some command reads.  session_bound lives in the Session it
\* binds; effect_started and meaningful_progress are evidence for readers of
\* the projection, legal only in a started turn, and change nothing here.
Kinds == {"process_spawned", "turn_started", "result", "provider_unavailable",
          "adapter_start_failed", "exit"}

StartFailures == {"adapter_start_failed", "provider_unavailable"}

WorkerStatus == {"completed", "continue", "needs_human", "blocked"}

Control == Request \cup Attempt

NodeRecord == [work: WorkRecord, deps: SUBSET Node]

SessionRecord ==
  [workflow: Workflow, runtime: Runtime, native: NativeId \cup {None},
   parent: Session \cup {None}]

ActivityRecord ==
  [workflow: Workflow, node: Node, session: Session, generation: Nat \ {0},
   parent: Activity \cup {None}, bindings: [Node -> Activity \cup {None}]]

\* milestones is the set of kinds recorded so far: every check on the ordered
\* history asks only whether a kind occurred.  The status a worker reports is
\* kept where it has an effect, in a one-shot's Result.
AttemptRecord ==
  [activity: Activity, ordinal: Nat \ {0}, runtime: Runtime,
   milestones: SUBSET Kinds]

LeaseRecord == [worktree: Worktree, released: BOOLEAN]

ResultRecord == [attempt: Attempt, status: WorkerStatus]

MessageRecord ==
  [state: {"queued", "dispatched", "delivered"}, attempt: Attempt \cup {None},
   delivery: Nat]

\* attempt is None when the request named no exact Activity generation and
\* Attempt; such a control is journaled as rejected evidence.
ControlRecord ==
  [kind: {"stop", "pause"}, attempt: Attempt \cup {None},
   accepted: BOOLEAN, applied: BOOLEAN]

PauseRecord ==
  [phase: {"draining", "completed"}, fenced: SUBSET Attempt,
   released: SUBSET Attempt]

ASSUME ProfilesAssumption ==
  \A p \in Profiles :
    /\ p \in ProfileRecord
    /\ p.maxTaskAttempts \in 1 .. p.maxLaunches
    /\ p.sessionMode => ~p.goal
    /\ p.supervised => p.sessionMode
    /\ ~p.goal => p.maxTurns = 0 /\ ~p.wakes

ASSUME WorksAssumption == \A k \in Works : k \in WorkRecord /\ k.runtime \notin k.fallbacks

ASSUME NoneAssumption ==
  /\ None \notin Workflow \cup Node \cup Session \cup Activity \cup Attempt
                 \cup Request \cup NativeId \cup WorkerStatus
  /\ \A p \in Profiles : p # None
  /\ Request \cap Attempt = {}
  /\ None \notin NodeRecord /\ None \notin SessionRecord
  /\ None \notin ActivityRecord /\ None \notin AttemptRecord
  /\ None \notin LeaseRecord /\ None \notin ResultRecord
  /\ None \notin MessageRecord /\ None \notin ControlRecord
  /\ None \notin PauseRecord

VARIABLES
  workflows, nodes, sessions, activities, attempts, leases, results, messages,
  controls, pauses,
  waiting     \* Activities whose NotBefore instant lies ahead

vars == <<workflows, nodes, sessions, activities, attempts, leases, results,
          messages, controls, pauses, waiting>>

OrNone(S) == S \cup {None}

TypeOK ==
  /\ workflows \in [Workflow -> OrNone(Profiles)]
  /\ nodes \in [Workflow -> [Node -> OrNone(NodeRecord)]]
  /\ sessions \in [Session -> OrNone(SessionRecord)]
  /\ activities \in [Activity -> OrNone(ActivityRecord)]
  /\ attempts \in [Attempt -> OrNone(AttemptRecord)]
  /\ leases \in [Attempt -> OrNone(LeaseRecord)]
  /\ results \in [Activity -> OrNone(ResultRecord)]
  /\ messages \in [Activity -> OrNone(MessageRecord)]
  /\ controls \in [Control -> OrNone(ControlRecord)]
  /\ pauses \in [Workflow -> OrNone(PauseRecord)]
  /\ waiting \in SUBSET Activity

Init ==
  /\ workflows = [w \in Workflow |-> None]
  /\ nodes = [w \in Workflow |-> [n \in Node |-> None]]
  /\ sessions = [s \in Session |-> None]
  /\ activities = [a \in Activity |-> None]
  /\ attempts = [t \in Attempt |-> None]
  /\ leases = [t \in Attempt |-> None]
  /\ results = [a \in Activity |-> None]
  /\ messages = [a \in Activity |-> None]
  /\ controls = [c \in Control |-> None]
  /\ pauses = [w \in Workflow |-> None]
  /\ waiting = {}

-----------------------------------------------------------------------------
(* Queries on State. *)

Known(a) == activities[a] # None
HasExit(t) == "exit" \in attempts[t].milestones
Live(t) == attempts[t] # None /\ ~HasExit(t)
AttemptsOf(a) == {t \in Attempt : attempts[t] # None /\ attempts[t].activity = a}

ActivityOf(t) == activities[attempts[t].activity]
WorkflowOf(t) == ActivityOf(t).workflow
ProfileOf(t) == workflows[WorkflowOf(t)]
WorkOf(a) == nodes[activities[a].workflow][activities[a].node].work

\* Mutant: a report is remembered only while its process runs.
ReportingNow(a) == \E t \in AttemptsOf(a) : Live(t) /\ "result" \in attempts[t].milestones

HasWorkerResult(a) == \E t \in AttemptsOf(a) : "result" \in attempts[t].milestones

RuntimesOf(work) == {work.runtime} \cup work.fallbacks

LaunchesOf(a) == Cardinality(AttemptsOf(a))

\* Mutant: a turn is charged only when it reported.
TurnsReported(a) == Cardinality({t \in AttemptsOf(a) : "result" \in attempts[t].milestones})

TurnsOf(a) == Cardinality({t \in AttemptsOf(a) :
                             /\ "turn_started" \in attempts[t].milestones
                             /\ "provider_unavailable" \notin attempts[t].milestones})

\* Children created by StartFallback live on another Session than their parent.
FallbackChildren(a) ==
  {b \in Activity : /\ Known(b) /\ activities[b].parent = a
                    /\ activities[b].session # activities[a].session}

TurnsForNode(w, n) ==
  Cardinality({a \in Activity : /\ Known(a)
                                /\ activities[a].workflow = w
                                /\ activities[a].node = n
                                /\ HasWorkerResult(a)})

\* Mutant: one past the predecessor, whatever was queued since.
GenerationAfter(n, minimum) == {minimum}

\* Generations are unique per Node identity over all Workflows: the loop keeps
\* the larger of minimum and one past every existing generation.
GenerationsFrom(n, minimum) ==
  {minimum} \cup {activities[b].generation + 1 :
                    b \in {c \in Activity : Known(c) /\ activities[c].node = n}}

NextGenerations(n, minimum) ==
  {g \in GenerationsFrom(n, minimum) : \A h \in GenerationsFrom(n, minimum) : h <= g}

\* Mutant: any other Activity of the Session will do.
OtherActivities(a) ==
  {b \in Activity : /\ b # a /\ Known(b)
                    /\ activities[b].workflow = activities[a].workflow
                    /\ activities[b].node = activities[a].node
                    /\ activities[b].session = activities[a].session}

\* Another unresolved Activity of the same Workflow, Node and Session.
ExistingContinuations(a) ==
  {b \in Activity : /\ b # a /\ Known(b) /\ results[b] = None
                    /\ activities[b].workflow = activities[a].workflow
                    /\ activities[b].node = activities[a].node
                    /\ activities[b].session = activities[a].session}

\* Mutant: a dependency is satisfied by any Result.
AnyResults(w, n) ==
  {a \in Activity : /\ results[a] # None
                    /\ activities[a].workflow = w /\ activities[a].node = n}

\* The completed Results of highest generation: equal generations (a parent and
\* its fallback child) are told apart by a hash, hence by nothing.
CompletedResults(w, n) ==
  {a \in Activity : /\ results[a] # None /\ results[a].status = "completed"
                    /\ activities[a].workflow = w /\ activities[a].node = n}

LatestResults(w, n) ==
  {a \in CompletedResults(w, n) : \A b \in CompletedResults(w, n) :
     activities[b].generation <= activities[a].generation}

AcceptedControls(t) ==
  {c \in Control : controls[c] # None /\ controls[c].accepted /\ controls[c].attempt = t}

\* Delivery generations grow per Session.
DeliveriesFrom(s) ==
  {1} \cup {messages[b].delivery + 1 :
              b \in {c \in Activity : messages[c] # None /\ activities[c].session = s}}

NextDeliveries(s) == {d \in DeliveriesFrom(s) : \A e \in DeliveriesFrom(s) : e <= d}

\* Mutant: ordinals count from zero.
OrdinalsFromZero(a) == {LaunchesOf(a)}

NextOrdinals(a) ==
  LET used == {attempts[u].ordinal : u \in AttemptsOf(a)}
  IN  {o \in {1} \cup {u + 1 : u \in used} : \A u \in used : u < o}

\* settleMessages: what becomes of the Message a live Attempt was given.
DispatchedTo(a, t) ==
  messages[a] # None /\ messages[a].state = "dispatched" /\ messages[a].attempt = t

Settled(a, t, delivered) ==
  IF ~DispatchedTo(a, t) THEN messages
  ELSE [messages EXCEPT ![a] = [state |-> IF delivered THEN "delivered" ELSE "queued",
                                attempt |-> IF delivered THEN t ELSE None,
                                delivery |-> @.delivery]]

\* Mutant: a pause or a restart leaves Messages where they are.
LeftDispatched(T) == messages

\* Each given Attempt's dispatched Message returns to its Session's queue.
Requeued(T) ==
  [a \in Activity |->
     IF \E t \in T : DispatchedTo(a, t)
     THEN [messages[a] EXCEPT !.state = "queued", !.attempt = None]
     ELSE messages[a]]

\* Mutant: the Lease of a launch that never spawned leaks.
ReleasedIfSpawned(T) ==
  [t \in Attempt |-> IF t \in T /\ "process_spawned" \in attempts[t].milestones
                    THEN [leases[t] EXCEPT !.released = TRUE] ELSE leases[t]]

\* eventLeaseReleased also notes the release in every pause that fences it.
Released(T) ==
  [t \in Attempt |-> IF t \in T THEN [leases[t] EXCEPT !.released = TRUE] ELSE leases[t]]

PausesAfterRelease(T) ==
  [w \in Workflow |->
     IF pauses[w] = None THEN None
     ELSE [pauses[w] EXCEPT !.released = @ \cup (T \cap pauses[w].fenced)]]

-----------------------------------------------------------------------------
(* Work, Sessions and Activities. *)

NewActivity(a, record) ==
  /\ activities[a] = None
  /\ activities' = [activities EXCEPT ![a] = record]

NewSession(s, record) ==
  /\ sessions[s] = None
  /\ sessions' = [sessions EXCEPT ![s] = record]

NewMessage(a) ==
  messages' = [messages EXCEPT
    ![a] = [state |-> "queued", attempt |-> None, delivery |-> 0]]

NoBindings == [n \in Node |-> None]

\* One entry creates the Workflow, its root Node, the Session (with or without
\* a native identity to resume) and the first Activity.
StartExecution(w, profile, n, work, s, native, a) ==
  /\ workflows[w] = None
  /\ workflows' = [workflows EXCEPT ![w] = profile]
  /\ nodes' = [nodes EXCEPT ![w][n] = [work |-> work, deps |-> {}]]
  /\ NewSession(s, [workflow |-> w, runtime |-> work.runtime, native |-> native,
                    parent |-> None])
  /\ NewActivity(a, [workflow |-> w, node |-> n, session |-> s, generation |-> 1,
                     parent |-> None, bindings |-> NoBindings])
  /\ UNCHANGED <<attempts, leases, results, messages, controls, pauses, waiting>>

AddNode(w, n, work, deps) ==
  /\ workflows[w] # None
  /\ nodes[w][n] = None
  /\ \A d \in deps : nodes[w][d] # None
  /\ nodes' = [nodes EXCEPT ![w][n] = [work |-> work, deps |-> deps]]
  /\ UNCHANGED <<workflows, sessions, activities, attempts, leases, results,
                 messages, controls, pauses, waiting>>

\* dependencyBindings: for each dependency the exact Result to build on.
Bindings(w, n) ==
  {f \in [Node -> OrNone(Activity)] : \A d \in Node :
     IF d \in nodes[w][n].deps THEN f[d] \in LatestResults(w, d) ELSE f[d] = None}

\* The test for an earlier Activity compares Node identities only.
QueueActivity(w, n, s, a) ==
  /\ workflows[w] # None
  /\ nodes[w][n] # None
  /\ sessions[s] # None
  /\ sessions[s].workflow = w
  /\ \A b \in Activity : Known(b) => activities[b].node # n
  /\ \E f \in Bindings(w, n) :
       NewActivity(a, [workflow |-> w, node |-> n, session |-> s, generation |-> 1,
                       parent |-> None, bindings |-> f])
  /\ UNCHANGED <<workflows, nodes, sessions, attempts, leases, results, messages,
                 controls, pauses, waiting>>

\* The next generation of a resolved or fallen-back Activity's work.
Successor(a, session, generation) ==
  [activities[a] EXCEPT !.session = session, !.generation = generation, !.parent = a]

\* A human reply: a new Activity on the predecessor's exact Session.
ContinueSession(predecessor, a) ==
  /\ Known(predecessor)
  /\ results[predecessor] # None
  /\ sessions[activities[predecessor].session].native # None
  /\ \E g \in NextGenerations(activities[predecessor].node,
                              activities[predecessor].generation + 1) :
       NewActivity(a, Successor(predecessor, activities[predecessor].session, g))
  /\ NewMessage(a)
  /\ UNCHANGED <<workflows, nodes, sessions, attempts, leases, results, controls,
                 pauses, waiting>>

\* An authorized provider other than the Session's own takes over the Activity
\* on a child Session, at the same generation.
StartFallback(parent, runtime, s, a) ==
  /\ Known(parent)
  /\ results[parent] = None
  /\ runtime \in RuntimesOf(WorkOf(parent))
  /\ runtime # sessions[activities[parent].session].runtime
  /\ \A b \in Activity : Known(b) /\ activities[b].parent = parent
                          => sessions[activities[b].session].runtime # runtime
  /\ NewSession(s, [workflow |-> activities[parent].workflow, runtime |-> runtime,
                    native |-> None, parent |-> activities[parent].session])
  /\ NewActivity(a, Successor(parent, s, activities[parent].generation))
  /\ UNCHANGED <<workflows, nodes, attempts, leases, results, messages, controls,
                 pauses, waiting>>

\* The wall clock reaches an Activity's NotBefore.
WakeTimeReached(a) ==
  /\ a \in waiting
  /\ waiting' = waiting \ {a}
  /\ UNCHANGED <<workflows, nodes, sessions, activities, attempts, leases, results,
                 messages, controls, pauses>>

-----------------------------------------------------------------------------
(* Attempts and their milestones. *)

\* Mutant: a Lease counts only once its process runs.
LeaseHeldBySpawned(worktree) ==
  \E u \in Attempt : /\ leases[u] # None /\ ~leases[u].released
                     /\ leases[u].worktree = worktree
                     /\ "process_spawned" \in attempts[u].milestones

LeaseHeld(worktree) ==
  \E u \in Attempt : /\ leases[u] # None /\ ~leases[u].released
                     /\ leases[u].worktree = worktree

\* Launch intent, the worktree's writer Lease and the dispatch of the Activity's
\* queued Message are one entry.
PrepareAttempt(a, runtime, t) ==
  /\ Known(a)
  /\ results[a] = None
  /\ ~HasWorkerResult(a)
  /\ FallbackChildren(a) = {}
  /\ pauses[activities[a].workflow] = None
  /\ a \notin waiting
  /\ runtime \in RuntimesOf(WorkOf(a))
  /\ LaunchesOf(a) < workflows[activities[a].workflow].maxLaunches
  /\ TurnsOf(a) < workflows[activities[a].workflow].maxTaskAttempts
  /\ \A u \in AttemptsOf(a) : HasExit(u)
  /\ ~LeaseHeld(WorkOf(a).root)
  /\ attempts[t] = None
  /\ \E o \in NextOrdinals(a) :
       attempts' = [attempts EXCEPT ![t] =
                     [activity |-> a, ordinal |-> o, runtime |-> runtime,
                      milestones |-> {}]]
  /\ leases' = [leases EXCEPT ![t] = [worktree |-> WorkOf(a).root, released |-> FALSE]]
  /\ IF messages[a] # None /\ messages[a].state = "queued"
     THEN \E d \in NextDeliveries(activities[a].session) :
            messages' = [messages EXCEPT
              ![a] = [state |-> "dispatched", attempt |-> t, delivery |-> d]]
     ELSE UNCHANGED messages
  /\ UNCHANGED <<workflows, nodes, sessions, activities, results, controls, pauses,
                 waiting>>

\* Mutant: a paused Workflow's Attempts keep recording.
MayRecordWhilePaused(t, kind) ==
  /\ attempts[t] # None
  /\ ~leases[t].released
  /\ ~HasExit(t)
  /\ kind # "exit" => attempts[t].milestones \cap (StartFailures \cup {"result"}) = {}

\* The fences of RecordMilestone and the history rules of validateMilestone
\* that do not depend on the payload.
MayRecord(t, kind) ==
  /\ attempts[t] # None
  /\ ~leases[t].released
  /\ ~HasExit(t)
  /\ kind # "exit" =>
       /\ pauses[WorkflowOf(t)] = None
       /\ attempts[t].milestones \cap (StartFailures \cup {"result"}) = {}

AddMilestone(t, kind) == attempts' = [attempts EXCEPT ![t].milestones = @ \cup {kind}]

RecordSpawned(t) ==
  /\ MayRecord(t, "process_spawned")
  /\ "process_spawned" \notin attempts[t].milestones
  /\ AddMilestone(t, "process_spawned")
  /\ UNCHANGED <<workflows, nodes, sessions, activities, leases, results, messages,
                 controls, pauses, waiting>>

AcceptsNative(s, native) == sessions[s].native \in {None, native}

\* The harness names its native session; a bound Session accepts only its own.
RecordSessionBound(t, native) ==
  LET s == ActivityOf(t).session IN
  /\ MayRecord(t, "session_bound")
  /\ "process_spawned" \in attempts[t].milestones
  /\ sessions[s].runtime = attempts[t].runtime
  /\ AcceptsNative(s, native)
  /\ sessions' = [sessions EXCEPT ![s].native = native]
  /\ UNCHANGED <<workflows, nodes, activities, attempts, leases, results, messages,
                 controls, pauses, waiting>>

RecordTurnStarted(t) ==
  /\ MayRecord(t, "turn_started")
  /\ "process_spawned" \in attempts[t].milestones
  /\ "turn_started" \notin attempts[t].milestones
  /\ AddMilestone(t, "turn_started")
  /\ UNCHANGED <<workflows, nodes, sessions, activities, leases, results, messages,
                 controls, pauses, waiting>>

\* Either way the message is delivered; only a one-shot's result is already the
\* Activity's Result, a goal's waits for DecideTurn.
RecordResult(t, status) ==
  LET a == attempts[t].activity IN
  /\ MayRecord(t, "result")
  /\ "turn_started" \in attempts[t].milestones
  /\ status = "continue" => ProfileOf(t).goal
  /\ AddMilestone(t, "result")
  /\ results' = IF ProfileOf(t).goal THEN results
                ELSE [results EXCEPT ![a] = [attempt |-> t, status |-> status]]
  /\ messages' = Settled(a, t, TRUE)
  /\ UNCHANGED <<workflows, nodes, sessions, activities, leases, controls, pauses,
                 waiting>>

\* adapter_start_failed and provider_unavailable, both pre-turn.
RecordStartFailure(t, kind) ==
  /\ MayRecord(t, kind)
  /\ "turn_started" \notin attempts[t].milestones
  /\ AddMilestone(t, kind)
  /\ messages' = Settled(attempts[t].activity, t, FALSE)
  /\ UNCHANGED <<workflows, nodes, sessions, activities, leases, results, controls,
                 pauses, waiting>>

\* The terminal fact.  In session mode it is the Result when there is none yet;
\* the Message is settled by the Result that existed before this command.
RecordExit(t, succeeded) ==
  LET a == attempts[t].activity IN
  /\ MayRecord(t, "exit")
  /\ AddMilestone(t, "exit")
  /\ results' =
       IF results[a] = None /\ ProfileOf(t).sessionMode
       THEN [results EXCEPT ![a] =
               [attempt |-> t, status |-> IF succeeded THEN "completed" ELSE "blocked"]]
       ELSE results
  /\ messages' = IF results[a] = None THEN Settled(a, t, FALSE) ELSE messages
  /\ leases' = Released({t})
  /\ pauses' = PausesAfterRelease({t})
  /\ UNCHANGED <<workflows, nodes, sessions, activities, controls, waiting>>

\* ReconcileStartup terminalizes, in one entry, the inherited Attempts whose
\* process is gone (whether it is, the environment decides) or never existed.
ReconcileStartup(T) ==
  /\ T # {}
  /\ \A t \in T : Live(t) /\ ~leases[t].released
  /\ attempts' = [t \in Attempt |->
       IF t \notin T THEN attempts[t]
       ELSE [attempts[t] EXCEPT !.milestones =
               @ \cup {"exit"} \cup (IF @ = {} THEN {"adapter_start_failed"} ELSE {})]]
  /\ messages' = Requeued(T)
  /\ leases' = Released(T)
  /\ pauses' = PausesAfterRelease(T)
  /\ UNCHANGED <<workflows, nodes, sessions, activities, results, controls, waiting>>

-----------------------------------------------------------------------------
(* The evaluator's decision about a goal's finished turn. *)

Decidable(a, t) ==
  /\ Known(a)
  /\ results[a] = None
  /\ t \in AttemptsOf(a)
  /\ {"result", "exit"} \subseteq attempts[t].milestones
  /\ workflows[activities[a].workflow].goal

\* Mutant: one turn more.
TurnLimitPassed(a) ==
  LET w == activities[a].workflow IN
  /\ workflows[w].maxTurns > 0
  /\ TurnsForNode(w, activities[a].node) > workflows[w].maxTurns

TurnLimitReached(a) ==
  LET w == activities[a].workflow IN
  /\ workflows[w].maxTurns > 0
  /\ TurnsForNode(w, activities[a].node) >= workflows[w].maxTurns

\* accept completes the goal; escalate, which a continue at the turn limit is
\* turned into, asks a human.
DecideStop(a, t, status) ==
  /\ Decidable(a, t)
  /\ results' = [results EXCEPT ![a] = [attempt |-> t, status |-> status]]
  /\ UNCHANGED <<workflows, nodes, sessions, activities, attempts, leases, messages,
                 controls, pauses, waiting>>

\* continue reuses an unresolved Activity of the Session when there is one, and
\* otherwise queues the next turn, perhaps for a later instant.
DecideContinue(a, t, b) ==
  /\ Decidable(a, t)
  /\ ~TurnLimitReached(a)
  /\ sessions[activities[a].session].native # None
  /\ results' = [results EXCEPT ![a] = [attempt |-> t, status |-> "continue"]]
  /\ \/ /\ ExistingContinuations(a) # {}
        /\ UNCHANGED <<activities, messages, waiting>>
     \/ /\ ExistingContinuations(a) = {}
        /\ \E g \in NextGenerations(activities[a].node, activities[a].generation + 1) :
             NewActivity(b, Successor(a, activities[a].session, g))
        /\ NewMessage(b)
        /\ waiting' = IF workflows[activities[a].workflow].wakes
                      THEN waiting \cup {b} ELSE waiting
  /\ UNCHANGED <<workflows, nodes, sessions, attempts, leases, controls, pauses>>

-----------------------------------------------------------------------------
(* Controls and pauses. *)

StopControl(t, accepted) ==
  [kind |-> "stop", attempt |-> t, accepted |-> accepted, applied |-> FALSE]

\* A stop naming an exact Activity generation and Attempt.
RequestControl(k, t) ==
  /\ controls[k] = None
  /\ attempts[t] # None
  /\ AcceptedControls(t) = {}
  /\ controls' = [controls EXCEPT
       ![k] = StopControl(t, pauses[WorkflowOf(t)] = None /\ ~HasExit(t))]
  /\ UNCHANGED <<workflows, nodes, sessions, activities, attempts, leases, results,
                 messages, pauses, waiting>>

\* A stop whose identity does not match is journaled as rejected.
RequestStaleControl(k) ==
  /\ controls[k] = None
  /\ controls' = [controls EXCEPT ![k] = StopControl(None, FALSE)]
  /\ UNCHANGED <<workflows, nodes, sessions, activities, attempts, leases, results,
                 messages, pauses, waiting>>

ApplyControl(c) ==
  /\ controls[c] # None
  /\ controls[c].accepted
  /\ ~controls[c].applied
  /\ controls' = [controls EXCEPT ![c].applied = TRUE]
  /\ UNCHANGED <<workflows, nodes, sessions, activities, attempts, leases, results,
                 messages, pauses, waiting>>

\* Mutant: a pause looks for processes and misses an Attempt about to spawn.
RunningProcesses(w) ==
  {t \in Attempt : /\ Live(t) /\ WorkflowOf(t) = w /\ ~leases[t].released
                   /\ "process_spawned" \in attempts[t].milestones}

\* The Attempts a pause fences.
Running(w) == {t \in Attempt : Live(t) /\ WorkflowOf(t) = w /\ ~leases[t].released}

PauseControl(t) ==
  [kind |-> "pause", attempt |-> t, accepted |-> TRUE, applied |-> FALSE]

\* Each running Attempt gets exactly one accepted control: the pause's own
\* unless a stop was accepted before.
PauseWorkflow(w) ==
  /\ workflows[w] # None
  /\ pauses[w] = None
  /\ controls' = [c \in Control |->
       IF c \in Running(w) /\ AcceptedControls(c) = {} THEN PauseControl(c)
                                                     ELSE controls[c]]
  /\ messages' = Requeued(Running(w))
  /\ pauses' = [pauses EXCEPT
       ![w] = [phase |-> IF Running(w) = {} THEN "completed" ELSE "draining",
               fenced |-> Running(w), released |-> {}]]
  /\ UNCHANGED <<workflows, nodes, sessions, activities, attempts, leases, results,
                 waiting>>

\* Mutant: the first exit settles the pause.
DrainedOne(w) == \E t \in pauses[w].fenced : HasExit(t) /\ leases[t].released

Drained(w) == \A t \in pauses[w].fenced : HasExit(t) /\ leases[t].released

SettlePause(w) ==
  /\ pauses[w] # None
  /\ pauses[w].phase = "draining"
  /\ Drained(w)
  /\ pauses' = [pauses EXCEPT ![w].phase = "completed"]
  /\ UNCHANGED <<workflows, nodes, sessions, activities, attempts, leases, results,
                 messages, controls, waiting>>

-----------------------------------------------------------------------------

WorkCommands ==
  \/ \E w \in Workflow, p \in Profiles, n \in Node, k \in Works, s \in Session,
        x \in OrNone(NativeId), a \in Activity : StartExecution(w, p, n, k, s, x, a)
  \/ \E w \in Workflow, n \in Node, k \in Works, deps \in SUBSET Node : AddNode(w, n, k, deps)
  \/ \E w \in Workflow, n \in Node, s \in Session, a \in Activity : QueueActivity(w, n, s, a)
  \/ \E p, a \in Activity : ContinueSession(p, a)
  \/ \E p, a \in Activity, r \in Runtime, s \in Session : StartFallback(p, r, s, a)
  \/ \E a \in Activity : WakeTimeReached(a)

AttemptCommands ==
  \/ \E a \in Activity, r \in Runtime, t \in Attempt : PrepareAttempt(a, r, t)
  \/ \E t \in Attempt : RecordSpawned(t)
  \/ \E t \in Attempt, x \in NativeId : RecordSessionBound(t, x)
  \/ \E t \in Attempt : RecordTurnStarted(t)
  \/ \E t \in Attempt, status \in WorkerStatus : RecordResult(t, status)
  \/ \E t \in Attempt, kind \in StartFailures : RecordStartFailure(t, kind)
  \/ \E t \in Attempt, succeeded \in BOOLEAN : RecordExit(t, succeeded)
  \/ \E T \in SUBSET Attempt : ReconcileStartup(T)

DecisionCommands ==
  \/ \E a \in Activity, t \in Attempt, status \in {"completed", "needs_human"} :
       DecideStop(a, t, status)
  \/ \E a, b \in Activity, t \in Attempt : DecideContinue(a, t, b)

ControlCommands ==
  \/ \E k \in Request, t \in Attempt : RequestControl(k, t)
  \/ \E k \in Request : RequestStaleControl(k)
  \/ \E c \in Control : ApplyControl(c)
  \/ \E w \in Workflow : PauseWorkflow(w)
  \/ \E w \in Workflow : SettlePause(w)

Next == WorkCommands \/ AttemptCommands \/ DecisionCommands \/ ControlCommands

Spec == Init /\ [][Next]_vars

-----------------------------------------------------------------------------
(* Safety. *)

\* At most one unreleased writer Lease names a canonical worktree, across all
\* Workflows (PrepareAttempt; validateState only re-checks it).
WriterExclusion ==
  \A t, u \in Attempt :
    /\ leases[t] # None /\ ~leases[t].released
    /\ leases[u] # None /\ ~leases[u].released
    /\ leases[t].worktree = leases[u].worktree
    => t = u

\* Terminal exit evidence and the release of the Lease are one event, whoever
\* records it: no early release, no leak, on the Activity's own worktree.
LeaseTracksAttempt ==
  \A t \in Attempt :
    /\ attempts[t] = None <=> leases[t] = None
    /\ attempts[t] # None => /\ leases[t].released <=> HasExit(t)
                             /\ leases[t].worktree = WorkOf(attempts[t].activity).root

\* What validateState demands of identities: no command's events can fail it.
StateValid ==
  /\ \A a \in Activity : Known(a) =>
       /\ workflows[activities[a].workflow] # None
       /\ nodes[activities[a].workflow][activities[a].node] # None
       /\ sessions[activities[a].session] # None
       /\ sessions[activities[a].session].workflow = activities[a].workflow
  /\ \A t \in Attempt : attempts[t] # None => Known(attempts[t].activity)
  /\ \A a \in Activity : results[a] # None =>
       /\ Known(a)
       /\ results[a].attempt \in AttemptsOf(a)
  /\ \A w \in Workflow : pauses[w] # None =>
       /\ workflows[w] # None
       /\ \A t \in pauses[w].fenced : attempts[t] # None /\ WorkflowOf(t) = w

\* Work with dependencies stands on one completed Result of each of them and of
\* nothing else, down every continuation and fallback (dependencyBindings).
BindingsSound ==
  \A a \in Activity : Known(a) =>
    \A d \in Node :
      LET bound == activities[a].bindings[d]
          w == activities[a].workflow
      IN  IF d \in nodes[w][activities[a].node].deps
          THEN /\ bound # None
               /\ activities[bound].workflow = w /\ activities[bound].node = d
               /\ results[bound] # None /\ results[bound].status = "completed"
          ELSE bound = None

\* The budgets bound every Activity's launches and started turns, and a started
\* turn is never refunded by a provider failure.
BudgetRespected ==
  \A a \in Activity : Known(a) =>
    LET budget == workflows[activities[a].workflow]
    IN  /\ LaunchesOf(a) <= budget.maxLaunches
        /\ Cardinality({t \in AttemptsOf(a) : "turn_started" \in attempts[t].milestones})
             <= budget.maxTaskAttempts

\* The Attempt a Result names is the only one of its Activity whose worker ever
\* reported; a goal's Result waits for that Attempt's exit.
ResultProvenance ==
  \A a \in Activity :
    /\ \A t, u \in AttemptsOf(a) :
         "result" \in attempts[t].milestones /\ "result" \in attempts[u].milestones => t = u
    /\ results[a] # None =>
         LET t == results[a].attempt IN
         /\ \A u \in AttemptsOf(a) : "result" \in attempts[u].milestones => u = t
         /\ ProfileOf(t).goal => {"result", "exit"} \subseteq attempts[t].milestones

\* A Message follows the turn it asks for: dispatched, it is in the hands of a
\* live launch of its own Activity that can still answer it, never of one that
\* failed, finished or was paused; and outside session mode its Activity has a
\* Result only if the launch that answered is the one it was delivered to.
MessagesFollowTurns ==
  \A a \in Activity : messages[a] # None =>
    /\ messages[a].state = "dispatched" =>
         LET t == messages[a].attempt IN
         /\ t \in AttemptsOf(a)
         /\ Live(t)
         /\ attempts[t].milestones \cap (StartFailures \cup {"result"}) = {}
         /\ pauses[activities[a].workflow] = None
    /\ results[a] # None /\ ~workflows[activities[a].workflow].sessionMode =>
         /\ messages[a].state = "delivered"
         /\ messages[a].attempt = results[a].attempt

\* Once a pause is completed nothing of its Workflow runs or holds a worktree.
CompletedPauseIsQuiet ==
  \A w \in Workflow : pauses[w] # None /\ pauses[w].phase = "completed" =>
    /\ \A t \in Attempt : attempts[t] # None /\ WorkflowOf(t) = w
                           => HasExit(t) /\ leases[t].released
    /\ pauses[w].released = pauses[w].fenced

\* A draining pause holds every Attempt it waits for by an accepted control, and
\* no Attempt of its Workflow is outside its fence.
DrainingPauseIsControlled ==
  \A w \in Workflow : pauses[w] # None =>
    /\ \A t \in Attempt : Live(t) /\ WorkflowOf(t) = w => t \in pauses[w].fenced
    /\ \A t \in pauses[w].fenced :
         /\ \E c \in Control : /\ controls[c] # None /\ controls[c].accepted
                                /\ controls[c].attempt = t
         /\ t \in pauses[w].released <=> leases[t].released

\* However stops and pauses race, an Attempt has at most one accepted control.
OneAcceptedControl ==
  \A c, d \in Control :
    /\ controls[c] # None /\ controls[c].accepted
    /\ controls[d] # None /\ controls[d].accepted
    /\ controls[c].attempt = controls[d].attempt
    => c = d

\* One Node's Activities of one generation are a fallback family: each runs on a
\* Session of its own.
GenerationsIdentifyTurns ==
  \A a, b \in Activity :
    /\ Known(a) /\ Known(b) /\ a # b
    /\ activities[a].node = activities[b].node
    /\ activities[a].generation = activities[b].generation
    => activities[a].session # activities[b].session

\* Turn limit: replies may exceed it, automatic continuations never do.  At most
\* maxTurns - 1 turns of a Node were continued by the evaluator.
AutomaticTurnsCapped ==
  \A w \in Workflow, n \in Node :
    workflows[w] # None /\ workflows[w].goal /\ workflows[w].maxTurns > 0 =>
      Cardinality({a \in Activity : /\ results[a] # None /\ results[a].status = "continue"
                                    /\ activities[a].workflow = w
                                    /\ activities[a].node = n}) < workflows[w].maxTurns

-----------------------------------------------------------------------------
(* What a step may never do. *)

\* A Result, once created, is never changed or withdrawn.
ResultsImmutable ==
  [][\A a \in Activity : results[a] # None => results'[a] = results[a]]_vars

\* A released Lease stays released, and an exited Attempt's history is closed.
ExitIsFinal ==
  [][\A t \in Attempt : attempts[t] # None /\ HasExit(t)
                           => attempts'[t] = attempts[t] /\ leases'[t] = leases[t]]_vars

\* A paused Workflow launches nothing, and its Attempts record nothing but the
\* end (ReconcileStartup may add that the launch never happened).
PauseFreezesAttempts ==
  [][\A t \in Attempt : attempts'[t] # attempts[t] /\ pauses[WorkflowOf(t)'] # None =>
       /\ attempts[t] # None
       /\ "exit" \in attempts'[t].milestones
       /\ attempts'[t].milestones \ attempts[t].milestones
            \subseteq {"exit", "adapter_start_failed"}]_vars

\* A continue decision leaves the Session with unresolved work.
ContinueKeepsSessionOpen ==
  [][\A a \in Activity :
       (results[a] = None /\ results'[a] # None /\ results'[a].status = "continue") =>
         \E b \in Activity : /\ b # a /\ activities'[b] # None /\ results'[b] = None
                             /\ activities'[b].session = activities[a].session
                             /\ activities'[b].node = activities[a].node]_vars

-----------------------------------------------------------------------------
(* What the documentation says a continue decision does. *)

\* Unresolved work a later Attempt, or the one now running, can still resolve.
CanTakeTurn(b) ==
  /\ Known(b) /\ results[b] = None
  /\ FallbackChildren(b) = {}
  /\ \/ \E t \in AttemptsOf(b) : Live(t) \/ "result" \in attempts[t].milestones
     \/ /\ LaunchesOf(b) < workflows[activities[b].workflow].maxLaunches
        /\ TurnsOf(b) < workflows[activities[b].workflow].maxTaskAttempts

\* "`continue` also queues its reason as a Message and creates the next Activity
\* on the exact bound Session in the same transaction": after it, the Session
\* has an Activity that can take the next turn.
ContinueHasNextTurn ==
  [][\A a \in Activity :
       (results[a] = None /\ results'[a] # None /\ results'[a].status = "continue") =>
         \E b \in Activity : /\ CanTakeTurn(b)'
                             /\ activities'[b].session = activities[a].session]_vars
=============================================================================
