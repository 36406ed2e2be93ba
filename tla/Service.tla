------------------------------- MODULE Service ------------------------------
(***************************************************************************)
(* internal/service ServeV2 around the executor: a service that starts,    *)
(* reconciles and adopts what it inherits, schedules what the projection   *)
(* queues, has finished turns decided and checks quiet sessions; that may  *)
(* die at any step and is started again; and the commands people give      *)
(* while all this goes on.                                                 *)
(***************************************************************************)
EXTENDS Executor

CONSTANTS
  Workers,     \* executor and decision goroutines of one service
  Rank,        \* place of an Execution's identity in the order of strings
  MaxCrashes   \* bound: services that die

ASSUME WorkersAssumption == Workers \in Nat \ {0} /\ MaxCrashes \in Nat

ASSUME RankAssumption ==
  /\ Rank \in [Workflow -> Nat]
  /\ \A v, w \in Workflow : Rank[v] = Rank[w] => v = w

\* What the loop finds to do: a turn to be decided, an Activity to be launched.
Task == {"decide", "launch"} \X Activity

VARIABLES
  service,     \* how far ServeV2 is
  inspection,  \* what a ReconcileStartup in progress found dead
  deciding,    \* Activities some decision goroutine works on
  crashes,
  walk,        \* Tasks the run in progress has not come to yet
  delayed,     \* Tasks that failed and whose retry delay lasts
  fresh        \* those of them that failed since the last run began

serviceVars == <<service, inspection, deciding, crashes>>
loopVars == <<walk, delayed, fresh>>
allVars == <<vars, processVars, serviceVars, loopVars>>

RunTypeOK ==
  /\ TypeOK
  /\ ProcessTypeOK
  /\ service \in {"down", "reconciling", "adopting", "rechecking", "serving"}
  /\ inspection \in OrNone([dead : SUBSET Attempt, unspawned : SUBSET Attempt])
  /\ deciding \subseteq Activity
  /\ crashes \in 0 .. MaxCrashes

LoopTypeOK == walk \subseteq Task /\ delayed \subseteq Task /\ fresh \subseteq delayed

ServiceTypeOK == RunTypeOK /\ LoopTypeOK

ServiceInit ==
  /\ Init
  /\ ProcessInit
  /\ service = "down"
  /\ inspection = None
  /\ deciding = {}
  /\ crashes = 0
  /\ walk = {}
  /\ delayed = {}
  /\ fresh = {}

Spawned(t) == "process_spawned" \in attempts[t].milestones

\* processidentity.MatchExact: the recorded process is still there.
ExactProcess(t) == Spawned(t) /\ process[t] \in {"gated", "running"}

-----------------------------------------------------------------------------
(* A service starts, and dies. *)

StartService ==
  /\ service = "down"
  /\ service' = "reconciling"
  /\ UNCHANGED <<vars, processVars, inspection, deciding, crashes, loopVars>>

\* Its goroutines are gone; a process whose gate is still shut reads the end of
\* the pipe and exits, a released one runs on.
Crash ==
  /\ service # "down"
  /\ crashes < MaxCrashes
  /\ service' = "down"
  /\ crashes' = crashes + 1
  /\ inspection' = None
  /\ deciding' = {}
  /\ walk' = {}
  /\ delayed' = {}
  /\ fresh' = {}
  /\ worker' = [a \in Activity |-> Idle]
  /\ adopter' = [t \in Attempt |-> "none"]
  /\ process' = [t \in Attempt |-> IF process[t] = "gated" THEN "killed" ELSE process[t]]
  /\ UNCHANGED <<vars, stdout, launchKeys>>

\* Mutant: an Attempt that was prepared and never spawned is not looked at.
DeadProcesses == {t \in Attempt : Live(t) /\ Spawned(t) /\ ~ExactProcess(t)}

\* ReconcileStartup's own look, before its command.
DeadAttempts == {t \in Attempt : Live(t) /\ ~ExactProcess(t)}

\* quietSessionCheck skips every Workflow without a cadence.
Supervised(w) ==
  workflows[w] # None /\ workflows[w].sessionMode /\ workflows[w].supervised

\* A run begins with the check; when the cadence of one is due is left open.
QuietCheckDue == service = "serving" /\ walk = {} /\ \E w \in Workflow : Supervised(w)

Inspect ==
  /\ inspection = None
  /\ \/ service \in {"reconciling", "rechecking"}
     \/ QuietCheckDue /\ DeadAttempts # {}
  /\ inspection' = [dead |-> DeadAttempts,
                    unspawned |-> {t \in DeadAttempts : ~Spawned(t)}]
  /\ UNCHANGED <<vars, processVars, service, deciding, crashes, loopVars>>

\* The service goes on to its next stage, or is still serving.
AfterReconcile ==
  CASE service = "reconciling" -> "adopting"
    [] service = "rechecking" -> "serving"
    [] OTHER -> "serving"

\* The command looks again at every Attempt; one that changed fences them all,
\* which stops a starting service.
StillDead ==
  \A t \in inspection.dead : Live(t) /\ ~ExactProcess(t)
                             /\ (t \in inspection.unspawned <=> ~Spawned(t))

Reconcile ==
  /\ inspection # None
  /\ inspection' = None
  /\ \/ /\ inspection.dead # {} /\ StillDead
        /\ ReconcileStartup(inspection.dead)
        /\ service' = AfterReconcile
     \/ /\ inspection.dead = {}
        /\ service' = AfterReconcile
        /\ UNCHANGED vars
     \/ /\ ~StillDead
        /\ service' = IF service = "serving" THEN "serving" ELSE "down"
        /\ UNCHANGED vars
  /\ UNCHANGED <<processVars, deciding, crashes, loopVars>>

\* LiveAttemptIDs: one observer for every inherited process that still runs.
Adopt ==
  /\ service = "adopting"
  /\ adopter' = [t \in Attempt |->
       IF Live(t) /\ ExactProcess(t) THEN "watching" ELSE adopter[t]]
  /\ service' = "rechecking"
  /\ UNCHANGED <<vars, worker, process, stdout, launchKeys, inspection, deciding, crashes,
                 loopVars>>

-----------------------------------------------------------------------------
(* The scheduling loop: each run reads the projection once and walks what it  *)
(* lists.                                                                     *)

Busy == {a \in Activity : worker[a].pc # "idle"}

FreeWorker == Cardinality(Busy) + Cardinality(deciding) < Workers

Listed ==
  UNION {({"decide"} \X PendingTurns(w)) \cup ({"launch"} \X Queue(w)) : w \in Workflow}

InHand(i) == IF i[1] = "decide" THEN i[2] \in deciding ELSE i[2] \in Busy

\* Executions in the order of their identities, and of each the turns to decide
\* before the queue; the order of creation within these is left open.
Ahead(i, j) ==
  LET v == activities[i[2]].workflow
      w == activities[j[2]].workflow
  IN  Rank[v] < Rank[w] \/ (v = w /\ i[1] = "decide" /\ j[1] = "launch")

Heads == {i \in walk : \A j \in walk : ~Ahead(j, i)}

\* The ticker fires.
Look ==
  /\ service = "serving"
  /\ inspection = None
  /\ walk = {}
  /\ walk' = Listed
  /\ fresh' = {}
  /\ UNCHANGED <<vars, processVars, serviceVars, delayed>>

Waits(i) == InHand(i) \/ i \in delayed

\* Mutant: a Task that must wait ends the whole run.
SkipAll ==
  /\ \E i \in Heads : Waits(i) /\ walk' = {}
  /\ UNCHANGED <<vars, processVars, serviceVars, delayed, fresh>>

Skip ==
  /\ \E i \in Heads : Waits(i) /\ walk' = walk \ {i}
  /\ UNCHANGED <<vars, processVars, serviceVars, delayed, fresh>>

\* What was listed may be stale by now, and again when the goroutine reads its
\* own state: that gap is between this step and SelectRuntime or EndDecision.
Take ==
  /\ FreeWorker
  /\ \E i \in Heads :
       /\ ~Waits(i)
       /\ walk' = walk \ {i}
       /\ IF i[1] = "decide"
          THEN deciding' = deciding \cup {i[2]} /\ UNCHANGED worker
          ELSE To(i[2], "selecting") /\ UNCHANGED deciding
  /\ UNCHANGED <<vars, adopter, process, stdout, launchKeys, service, inspection, crashes,
                 delayed, fresh>>

\* The whole run returns, whoever comes later in the walk.
PoolFull ==
  /\ ~FreeWorker
  /\ \E i \in Heads : ~Waits(i)
  /\ walk' = {}
  /\ UNCHANGED <<vars, processVars, serviceVars, delayed, fresh>>

Visit == Skip \/ Take \/ PoolFull

\* A retry delay is longer than the ticker's interval (30s and 2s by default, and
\* only the interval is a flag), so it outlasts one run.
DelayPasses ==
  /\ walk = {}
  /\ \E i \in delayed \ fresh : delayed' = delayed \ {i}
  /\ UNCHANGED <<vars, processVars, serviceVars, walk, fresh>>

Delay(i) == delayed' = delayed \cup {i} /\ fresh' = fresh \cup {i}

\* The evaluator answers, or it or the command fails and is asked again after
\* its delay.
EndDecision(a) ==
  /\ a \in deciding
  /\ deciding' = deciding \ {a}
  /\ \/ /\ \/ \E t \in Attempt, status \in {"completed", "needs_human"} : DecideStop(a, t, status)
           \/ \E t \in Attempt, b \in Activity : DecideContinue(a, t, b)
        /\ UNCHANGED <<delayed, fresh>>
     \/ Delay(<<"decide", a>>) /\ UNCHANGED vars
  /\ UNCHANGED <<processVars, service, inspection, crashes, walk>>

-----------------------------------------------------------------------------

\* One `handoff` command line call.
UserCommands ==
  /\ \/ \E w \in Workflow, p \in Profiles, n \in Node, k \in Works, s \in Session,
           x \in OrNone(NativeId), a \in Activity : StartExecution(w, p, n, k, s, x, a)
     \/ \E p, a \in Activity : ContinueSession(p, a)
     \/ \E k \in Request, t \in Attempt : RequestControl(k, t)
     \/ \E w \in Workflow : PauseWorkflow(w)
  /\ UNCHANGED <<processVars, serviceVars, loopVars>>

\* A scheduled Activity falls due.
Wake(a) == WakeTimeReached(a) /\ UNCHANGED <<processVars, serviceVars, loopVars>>

HarnessSteps ==
  /\ \E t \in Attempt :
       \/ \E line \in Line : HarnessPrints(t, line)
       \/ \E how \in Ending : HarnessEnds(t, how)
       \/ ProcessLost(t)
  /\ UNCHANGED <<serviceVars, loopVars>>

\* What a goroutine of RunActivity does next.  Whether it returns an error in the
\* end, which delays its Activity, is left open.
WorkerStep(a) ==
  /\ \/ SelectRuntime(a)
     \/ \E s \in Session, b \in Activity : FallBack(a, s, b)
     \/ CountLaunches(a)
     \/ \E kind \in {"prepare", "prelaunch"} :
          LaunchRefused(a, kind) \/ \E t \in Attempt : PrepareLaunch(a, kind, t)
     \/ SpawnFails(a) \/ Spawn(a) \/ RecordSpawn(a)
     \/ Release(a) \/ ReleaseFails(a)
     \/ RecordFailedStart(a) \/ RecordFailedExit(a)
     \/ ProcessWaited(a) \/ DecoderDone(a) \/ DecoderFails(a)
     \/ PollControl(a) \/ ApplyStop(a)
     \/ DeadlinePasses(a) \/ (\E k \in Request : RequestDeadlineStop(a, k)) \/ RecordLate(a)
     \/ StopLate(a) \/ RecordEnd(a) \/ Settle(a)
  /\ \/ UNCHANGED <<delayed, fresh>>
     \/ worker'[a].pc = "idle" /\ Delay(<<"launch", a>>)
  /\ UNCHANGED <<serviceVars, walk>>

DecoderStep(a) == Decode(a) /\ UNCHANGED <<serviceVars, loopVars>>

AdopterStep(t) ==
  /\ \/ AdopterStops(t) \/ AdopterApplies(t) \/ AdopterReads(t) \/ AdopterBinds(t)
     \/ AdopterTurns(t) \/ AdopterAnswers(t) \/ AdopterExits(t)
  /\ UNCHANGED <<serviceVars, loopVars>>

ServiceNext ==
  \/ UserCommands
  \/ HarnessSteps
  \/ StartService \/ Crash \/ Inspect \/ Reconcile \/ Adopt
  \/ Look \/ Skip \/ Take \/ PoolFull \/ DelayPasses
  \/ \E a \in Activity : Wake(a) \/ EndDecision(a) \/ WorkerStep(a) \/ DecoderStep(a)
  \/ \E t \in Attempt : AdopterStep(t)

ServiceSafety == ServiceInit /\ [][ServiceNext]_allVars

\* What the loop, its ticker, the passing of time and Go's scheduler justify: the
\* loop is fair as a whole, never to one Task, so runs that return again and again
\* at one place starve whatever comes after it.  Two steps are strongly fair, for
\* runs of the loop are what disables them: the quiet check, with which a run
\* begins when a cadence has passed, and a delay, which passes in any case.  A
\* harness may run, and an evaluator fail, for ever; people need not do anything.
Fairness ==
  /\ WF_allVars(StartService) /\ WF_allVars(Adopt)
  /\ SF_allVars(Inspect) /\ WF_allVars(Reconcile)
  /\ WF_allVars(Look) /\ WF_allVars(Visit)
  /\ SF_allVars(DelayPasses) /\ WF_allVars(\E a \in Activity : Wake(a))
  /\ \A a \in Activity :
       WF_allVars(EndDecision(a)) /\ WF_allVars(WorkerStep(a)) /\ WF_allVars(DecoderStep(a))
  /\ \A t \in Attempt : WF_allVars(AdopterStep(t))

ServiceSpec == ServiceSafety /\ Fairness

-----------------------------------------------------------------------------

\* A harness runs only for a recorded, unfinished Attempt whose Lease holds its
\* worktree, and no other harness runs there: through services that die at every
\* step, adoption, quiet checks, fallbacks and stops.
HarnessHoldsWorktree ==
  \A t \in Attempt : process[t] = "running" =>
    /\ Live(t) /\ Spawned(t) /\ ~leases[t].released
    /\ \A u \in Attempt :
         process[u] = "running" /\ leases[u].worktree = leases[t].worktree => u = t

\* Whoever reads that a control was applied may rely on it: the process of its
\* Attempt has ended, and no later step of worker, adopter or service runs it.
AppliedMeansStopped ==
  \A c \in Control : controls[c] # None /\ controls[c].applied =>
    process[controls[c].attempt] \in Ended

\* An adopted Attempt whose process has ended and left an exit record or output
\* that cannot be used, while no quiet check looks at the Attempts of this
\* service: its exit is recorded when the next service starts, not before.
Lost(t) ==
  /\ Live(t) /\ adopter[t] = "failed"
  /\ service = "serving" /\ \A w \in Workflow : ~Supervised(w)

\* A control was accepted after the last poll before the startup deadline, so the
\* worker's own stop is refused and it waits for a harness that nobody stops.
Unheard(t) ==
  process[t] = "running" /\ \E a \in Activity : worker[a].attempt = t /\ worker[a].pc = "joined"

\* An accepted stop or pause reaches its Attempt wherever it is (not yet spawned,
\* held by a worker, adopted after a crash, its process already gone) and ends it.
StopsTakeEffect ==
  \A t \in Attempt : AcceptedControls(t) # {} ~> ~Live(t) \/ Lost(t) \/ Unheard(t)

\* Every launch is accounted for: an Attempt without an exit, which holds its
\* worktree's Lease, gets one unless a harness runs for it, although the service
\* dies, a spawn fails or output is garbage, and although the exit record is torn
\* where a quiet check looks at it.
LaunchesEnd ==
  \A t \in Attempt : Live(t) ~> ~Live(t) \/ process[t] = "running" \/ Lost(t)

InQueue(a) == Known(a) /\ a \in Queue(activities[a].workflow)

Undecided(a) == Known(a) /\ a \in PendingTurns(activities[a].workflow)

\* Tasks that fail and come back: a turn no evaluator has decided, an Activity
\* without a provider left to try.
Recurring ==
  {<<"decide", a>> : a \in {b \in Activity : Undecided(b)}}
    \cup {<<"launch", a>> : a \in {b \in Activity : InQueue(b) /\ NoCandidate(b)}}

\* Queued work leaves the queue wherever its Execution stands in the order of the
\* walk and however often a run returns before it: it is launched until it has a
\* Result, its budgets are spent or its Workflow is paused, unless no provider is
\* left.  A harness may be slow but must end, a Lost Attempt must be found, and of
\* the Tasks that fail for ever there may be one for each slot, no more.  With
\* infinitely many Activities it would not hold: a goal without a turn limit that
\* always continues may keep the only slot from the Executions after it.
QueueIsServed ==
  /\ \A t \in Attempt : []<>~(Live(t) /\ (process[t] = "running" \/ Lost(t)))
  /\ <>[](Cardinality(Recurring) <= Workers)
  => \A a \in Activity : InQueue(a) ~> ~InQueue(a) \/ NoCandidate(a)

\* "session-mode's successful target exit is the equivalent proof": a session
\* whose target exited with a failure is not recorded as completed.
CompletedSessionSucceeded ==
  \A a \in Activity :
    /\ results[a] # None /\ results[a].status = "completed"
    /\ workflows[activities[a].workflow].sessionMode
    => process[results[a].attempt] # "failure"

\* "The command commits pause controls, then waits [...] until the executor records
\* exact terminal exit evidence and the later idempotent settle command marks the
\* pause complete": a pause does not drain for ever.
PauseSettles ==
  \A w \in Workflow :
    pauses[w] # None ~> pauses[w] # None /\ pauses[w].phase = "completed"
=============================================================================
