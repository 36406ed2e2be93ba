--------------------------- MODULE ServiceProofs ----------------------------
(***************************************************************************)
(* The service keeps what the command core promises, and runs a harness    *)
(* only where a live Attempt holds the worktree.                           *)
(*                                                                         *)
(* Attended is inductive: the core's Foundation, and for each worker       *)
(* what its step says of its Attempt and process.  A worker follows what   *)
(* it chose earlier, so even that its calls are commands of the core rests *)
(* on it.                                                                  *)
(***************************************************************************)
EXTENDS Service, SupervisorProofs, SequenceTheorems

USE DEF OrNone

-----------------------------------------------------------------------------
(* The invariant. *)

\* The steps in which a worker has an Attempt.
Holding == WorkerSteps \ {"idle", "selecting", "falling", "counting", "building"}

\* The steps in which its decoder may run.
Decoding == WaitLoop \cup {"joined", "draining", "exiting", "settling"}

\* The processes a worker's Attempt may have at each step that holds one.
ProcessesAt(step) ==
  CASE step = "prepared" -> {"none"}
    [] step \in {"failing", "failed"} -> {"none"} \cup Ended
    [] step \in {"spawned", "releasing"} -> {"gated"} \cup Ended
    [] step \in {"waiting", "deadline", "lateFailing", "lateStopping", "lateRefused", "joined"}
         -> {"running"} \cup Ended
    [] OTHER -> Ended

WorkerSound(a) ==
  /\ worker[a].pc = "selecting" => Known(a)
  /\ worker[a].pc = "falling" => worker[a].runtime \in Runtime
  /\ worker[a].pc \in {"counting", "building"} =>
       worker[a].runtime \in Runtime /\ worker[a].target \in Activity
  /\ worker[a].decoder # "off" => worker[a].pc \in Decoding
  /\ worker[a].pc \in Holding =>
       /\ worker[a].target \in Activity /\ Known(worker[a].target)
       /\ worker[a].attempt \in Attempt /\ attempts[worker[a].attempt] # None
       /\ process[worker[a].attempt] \in ProcessesAt(worker[a].pc)
  /\ worker[a].pc = "releasing" =>
       /\ Spawned(worker[a].attempt)
       /\ process[worker[a].attempt] = "gated" => Live(worker[a].attempt)

ProcessSound(t) ==
  /\ process[t] # "none" => attempts[t] # None
  /\ process[t] = "running" => Live(t) /\ Spawned(t)

AdopterSound(t) == adopter[t] \notin {"none", "watching"} => process[t] \in Ended

ControlSound(c) ==
  controls[c] # None /\ controls[c].applied =>
    controls[c].attempt \in Attempt /\ process[controls[c].attempt] \in Ended

\* No two workers hold one Attempt.
WorkersApart ==
  \A a, b \in Activity :
    /\ worker[a].pc \in Holding /\ worker[b].pc \in Holding
    /\ worker[a].attempt = worker[b].attempt
    => a = b

Attended ==
  /\ Foundation
  /\ RunTypeOK
  /\ \A a \in Activity : WorkerSound(a)
  /\ WorkersApart
  /\ \A t \in Attempt : ProcessSound(t) /\ AdopterSound(t)
  /\ \A c \in Control : ControlSound(c)

\* What the scheduling loop has before it are Activities that exist.
LoopSound == LoopTypeOK /\ \A i \in walk : Known(i[2])

\* What every step of the service has to be: the invariant is kept, and the core
\* sees one of its commands or nothing.
Kept == [Next]_vars /\ Attended'

-----------------------------------------------------------------------------
(* What a step may do. *)

\* A command of the core that ends no Attempt outside E.
Grows(E) ==
  \A t \in Attempt : attempts[t] # None =>
    /\ attempts'[t] # None
    /\ Spawned(t) => Spawned(t)'
    /\ t \notin E /\ Live(t) => Live(t)'

\* A process changes only by ending.
Stopped(t) ==
  \/ process'[t] = process[t]
  \/ process[t] \in {"gated", "running"} /\ process'[t] \in Ended

EndedStays == \A t \in Attempt : process[t] \in Ended => process'[t] \in Ended

\* No control becomes an applied one of a process that has not ended.
AppliedKept ==
  \A c \in Control : controls'[c] # None /\ controls'[c].applied =>
    \/ /\ controls[c] # None /\ controls[c].applied
       /\ controls'[c].attempt = controls[c].attempt
    \/ controls'[c].attempt \in Attempt /\ process[controls'[c].attempt] \in Ended

\* No ending is also a state before the end.
LEMMA EndedApart == {"none", "gated", "running"} \cap Ended = {}
  BY EndingAssumption DEF Ended

\* An Attempt whose history only grows stays spawned, and live without an exit.
LEMMA MilestoneGrows ==
  ASSUME TypeOK, NEW t \in Attempt, NEW kind \in Kinds, MayRecord(t, kind), AddMilestone(t, kind)
  PROVE  Grows(IF kind = "exit" THEN {t} ELSE {})
<1>1. /\ attempts[t] # None /\ attempts'[t] # None
      /\ attempts'[t].milestones = attempts[t].milestones \cup {kind}
      /\ \A u \in Attempt : u # t => attempts'[u] = attempts[u]
  BY AddMilestoneEffect DEF MayRecord
<1> QED
  BY <1>1 DEF Grows, Spawned, Live, HasExit

\* A launch ends nothing.
LEMMA LaunchGrows ==
  ASSUME TypeOK, NEW a \in Activity, NEW r \in Runtime, NEW t \in Attempt, PrepareAttempt(a, r, t)
  PROVE  Grows({})
  BY PrepareAttemptEffect DEF Grows, Spawned, Live, HasExit

\* A reconciliation ends what it is given.
LEMMA ReconcileGrows ==
  ASSUME TypeOK, NEW T \in SUBSET Attempt, ReconcileStartup(T)
  PROVE  Grows(T)
  BY ReconcileStartupEffect DEF Grows, Spawned, Live, HasExit

\* A command that leaves the Attempts alone ends nothing.
LEMMA StillGrows == attempts' = attempts => Grows({})
  BY DEF Grows, Spawned, Live, HasExit

\* A command that leaves the controls alone applies none.
LEMMA ControlsKept == controls' = controls => AppliedKept
  BY DEF AppliedKept

\* A new stop is not applied.
LEMMA RequestKeepsApplied ==
  ASSUME TypeOK, NEW k \in Request, NEW t \in Attempt, RequestControl(k, t)
  PROVE  AppliedKept
<1> DEFINE accepted == pauses[WorkflowOf(t)] = None /\ ~HasExit(t)
<1>1. controls' = [controls EXCEPT ![k] = StopControl(t, accepted)]
  BY DEF RequestControl
<1>2. ~StopControl(t, accepted).applied
  BY DEF StopControl
<1>3. \A c \in Control : controls'[c] = IF c = k THEN StopControl(t, accepted) ELSE controls[c]
  BY <1>1 DEF TypeOK
<1> QED
  BY <1>2, <1>3 DEF AppliedKept

\* Nor are the controls of a new pause.
LEMMA PauseKeepsApplied ==
  ASSUME TypeOK, NEW w \in Workflow, PauseWorkflow(w)
  PROVE  AppliedKept
<1>1. \A c \in Control : controls'[c] = PauseControl(c) \/ controls'[c] = controls[c]
  BY DEF PauseWorkflow
<1>2. \A c \in Control : ~PauseControl(c).applied
  BY DEF PauseControl
<1> QED
  BY <1>1, <1>2 DEF AppliedKept

\* A control is applied when its process has ended.
LEMMA ApplyKeepsApplied ==
  ASSUME TypeOK, NEW c \in Control, ApplyControl(c), controls[c].attempt \in Attempt,
         process[controls[c].attempt] \in Ended
  PROVE  AppliedKept
<1>1. controls' = [controls EXCEPT ![c].applied = TRUE]
  BY DEF ApplyControl
<1>2. controls[c] \in ControlRecord
  BY DEF ApplyControl, TypeOK
<1>3. controls'[c].attempt = controls[c].attempt
  BY <1>1, <1>2 DEF TypeOK, ControlRecord
<1>4. \A d \in Control : d # c => controls'[d] = controls[d]
  BY <1>1 DEF TypeOK
<1> QED
  BY <1>3, <1>4 DEF AppliedKept

-----------------------------------------------------------------------------
(* What a step leaves as it was. *)

\* A worker that does not move stays sound while its Attempt's process at most
\* ends and its Attempt is not ended under it.
LEMMA WorkerKept ==
  ASSUME NEW a \in Activity, WorkerSound(a), worker'[a] = worker[a], IdentitiesKept,
         NEW E \in SUBSET Attempt, Grows(E), worker[a].pc \in WorkerSteps,
         worker[a].pc \in Holding => Stopped(worker[a].attempt),
         worker[a].pc = "releasing" /\ process[worker[a].attempt] = "gated"
           => worker[a].attempt \notin E
  PROVE  WorkerSound(a)'
<1>1. /\ worker[a].pc = "selecting" => Known(a)'
      /\ worker[a].pc \in Holding => Known(worker[a].target)'
  BY DEF WorkerSound, IdentitiesKept, Known
<1>2. worker[a].pc \in Holding => attempts'[worker[a].attempt] # None
  BY DEF WorkerSound, Grows
<1>3. worker[a].pc \in Holding => process'[worker[a].attempt] \in ProcessesAt(worker[a].pc)
  BY EndedApart DEF WorkerSound, Stopped, ProcessesAt, Holding, WorkerSteps, WaitLoop
<1>4. worker[a].pc = "releasing" =>
        /\ Spawned(worker[a].attempt)'
        /\ process'[worker[a].attempt] = "gated" => Live(worker[a].attempt)'
  BY EndedApart DEF WorkerSound, Grows, Stopped, Holding, WorkerSteps
<1> QED
  BY <1>1, <1>2, <1>3, <1>4 DEF WorkerSound

\* A process stays that of a live, recorded Attempt while it at most ends.
LEMMA ProcessKept ==
  ASSUME NEW t \in Attempt, ProcessSound(t), NEW E \in SUBSET Attempt, Grows(E), Stopped(t),
         process[t] = "running" => t \notin E \/ process'[t] # "running"
  PROVE  ProcessSound(t)'
  BY EndedApart DEF ProcessSound, Grows, Stopped, Live

\* An adopter that does not move, and an applied control, rely on an end only.
LEMMA AdopterKept ==
  ASSUME NEW t \in Attempt, AdopterSound(t), adopter'[t] = adopter[t], EndedStays
  PROVE  AdopterSound(t)'
  BY DEF AdopterSound, EndedStays

LEMMA AppliedStaysStopped ==
  ASSUME \A c \in Control : ControlSound(c), AppliedKept, EndedStays
  PROVE  (\A c \in Control : ControlSound(c))'
  BY DEF ControlSound, AppliedKept, EndedStays

\* Ends are for ever when processes change only by ending.
LEMMA StoppedStays == (\A t \in Attempt : Stopped(t)) => EndedStays
  BY EndedApart DEF Stopped, EndedStays

\* Workers that hold what they held, or nothing, stay apart.
LEMMA ApartKept ==
  ASSUME WorkersApart,
         \A a \in Activity : worker'[a].pc \in Holding =>
           worker[a].pc \in Holding /\ worker'[a].attempt = worker[a].attempt
  PROVE  WorkersApart'
  BY DEF WorkersApart

-----------------------------------------------------------------------------
(* Steps of a worker. *)

\* One worker moves to one of these steps with what it had chosen.
Moves(a, steps) ==
  /\ worker' \in [Activity -> WorkerRecord]
  /\ \A b \in Activity \ {a} : worker'[b] = worker[b]
  /\ worker'[a].pc \in steps
  /\ worker'[a].target = worker[a].target
  /\ worker'[a].attempt = worker[a].attempt
  /\ worker'[a].decoder # "off" => worker[a].decoder # "off"

ProcessStates == {"none", "gated", "running"} \cup Ended

OwnsOrKeeps(a) ==
  \A t \in Attempt :
    \/ process'[t] = process[t]
    \/ worker[a].pc \in Holding /\ t = worker[a].attempt

\* What one worker's step has to show: what it does to its own Attempt.
LEMMA WorkerStepKeeps ==
  ASSUME Attended, [Next]_vars, NEW a \in Activity, NEW E \in SUBSET Attempt,
         Grows(E), AppliedKept, EndedStays,
         \A t \in E : worker[a].pc \in Holding /\ t = worker[a].attempt,
         worker' \in [Activity -> WorkerRecord],
         \A b \in Activity \ {a} : worker'[b] = worker[b],
         worker'[a].pc \in Holding =>
           worker[a].pc \in Holding /\ worker'[a].attempt = worker[a].attempt,
         WorkerSound(a)',
         OwnsOrKeeps(a),
         process' \in [Attempt -> ProcessStates],
         \A t \in Attempt : worker[a].pc \in Holding /\ t = worker[a].attempt => ProcessSound(t)',
         UNCHANGED <<adopter, stdout, launchKeys, serviceVars>>
  PROVE  Kept
<1>1. Foundation' /\ IdentitiesKept
  BY StepKeepsFoundation DEF Attended
<1>2. RunTypeOK'
  BY <1>1 DEF Attended, RunTypeOK, ProcessTypeOK, Foundation, serviceVars, ProcessStates
<1>3. ASSUME NEW b \in Activity \ {a} PROVE WorkerSound(b)'
  <2>1. worker[b].pc \in WorkerSteps
    BY DEF Attended, RunTypeOK, ProcessTypeOK, WorkerRecord
  <2>2. worker[b].pc \in Holding => worker[b].attempt \in Attempt
    BY DEF Attended, WorkerSound
  <2>3. worker[b].pc \in Holding /\ worker[a].pc \in Holding
          => worker[b].attempt # worker[a].attempt
    BY DEF Attended, WorkersApart
  <2>4. worker[b].pc \in Holding => Stopped(worker[b].attempt)
    BY <2>2, <2>3 DEF OwnsOrKeeps, Stopped
  <2>5. worker[b].pc = "releasing" => worker[b].attempt \notin E
    BY <2>3 DEF Holding, WorkerSteps
  <2> QED
    BY <1>1, <2>1, <2>4, <2>5, WorkerKept DEF Attended
<1>4. ASSUME NEW t \in Attempt PROVE ProcessSound(t)'
  <2>1. CASE worker[a].pc \in Holding /\ t = worker[a].attempt
    BY <2>1
  <2>2. CASE ~(worker[a].pc \in Holding /\ t = worker[a].attempt)
    <3>1. Stopped(t) /\ t \notin E
      BY <2>2 DEF OwnsOrKeeps, Stopped
    <3> QED
      BY <3>1, ProcessKept DEF Attended
  <2> QED
    BY <2>1, <2>2
<1>5. \A t \in Attempt : AdopterSound(t)'
  BY AdopterKept DEF Attended
<1>6. (\A c \in Control : ControlSound(c))'
  BY AppliedStaysStopped DEF Attended
<1>7. WorkersApart'
  BY ApartKept DEF Attended
<1> QED
  BY <1>1, <1>2, <1>3, <1>4, <1>5, <1>6, <1>7 DEF Kept, Attended

\* A worker that goes on with its Attempt, whose process at most ends.
LEMMA HolderMoves ==
  ASSUME Attended, [Next]_vars, NEW a \in Activity, worker[a].pc \in Holding,
         NEW E \in SUBSET {worker[a].attempt}, Grows(E), AppliedKept,
         NEW steps \in SUBSET (Holding \ {"releasing"}), Moves(a, steps),
         worker[a].pc \in Decoding => steps \subseteq Decoding,
         process' \in [Attempt -> ProcessStates], OwnsOrKeeps(a),
         Stopped(worker[a].attempt),
         process'[worker[a].attempt] \in ProcessesAt(worker'[a].pc),
         E # {} => process'[worker[a].attempt] # "running",
         UNCHANGED <<adopter, stdout, launchKeys, serviceVars>>
  PROVE  Kept
<1>1. IdentitiesKept
  BY StepKeepsFoundation DEF Attended
<1>2. worker[a].attempt \in Attempt /\ attempts[worker[a].attempt] # None
      /\ worker[a].target \in Activity /\ Known(worker[a].target)
  BY DEF Attended, WorkerSound
<1>3. WorkerSound(a)'
  <2>1. worker'[a].decoder # "off" => worker'[a].pc \in Decoding
    BY DEF Attended, WorkerSound, Moves
  <2> QED
    BY <1>1, <1>2, <2>1 DEF WorkerSound, Moves, Grows, IdentitiesKept, Known, Holding
<1>4. ASSUME NEW t \in Attempt, t = worker[a].attempt PROVE ProcessSound(t)'
  <2>1. Stopped(t) /\ (process[t] = "running" => t \notin E \/ process'[t] # "running")
    BY <1>4
  <2>2. E \in SUBSET Attempt
    BY <1>2
  <2> QED
    BY <2>1, <2>2, ProcessKept DEF Attended
<1>5. \A t \in Attempt : Stopped(t)
  BY DEF OwnsOrKeeps, Stopped
<1>6. EndedStays
  BY <1>5, StoppedStays
<1>7. \A t \in E : t = worker[a].attempt
  OBVIOUS
<1> QED
  BY <1>2, <1>3, <1>4, <1>6, <1>7, WorkerStepKeeps DEF Moves

\* A worker that is done.
LEMMA WorkerFinishes ==
  ASSUME Attended, [Next]_vars, NEW a \in Activity, NEW E \in SUBSET Attempt,
         Grows(E), AppliedKept, Finished(a),
         \A t \in E : worker[a].pc \in Holding /\ t = worker[a].attempt /\ process[t] # "running",
         UNCHANGED <<adopter, process, stdout, launchKeys, serviceVars>>
  PROVE  Kept
<1>1. Idle \in WorkerRecord /\ Idle.pc = "idle" /\ Idle.decoder = "off"
  BY MaxLinesAssumption DEF Idle, WorkerRecord, WorkerSteps
<1>2. /\ worker' \in [Activity -> WorkerRecord] /\ worker'[a] = Idle
      /\ \A b \in Activity \ {a} : worker'[b] = worker[b]
  BY <1>1 DEF Finished, Attended, RunTypeOK, ProcessTypeOK
<1>3. WorkerSound(a)'
  BY <1>1, <1>2 DEF WorkerSound, Holding
<1>4. \A t \in Attempt : Stopped(t)
  BY DEF Stopped
<1>5. EndedStays /\ OwnsOrKeeps(a)
  BY <1>4, StoppedStays DEF OwnsOrKeeps
<1>6. ASSUME NEW t \in Attempt PROVE ProcessSound(t)'
  <2>1. Stopped(t) /\ (process[t] = "running" => t \notin E)
    BY <1>4
  <2> QED
    BY <2>1, ProcessKept DEF Attended
<1>7. process' \in [Attempt -> ProcessStates]
  BY DEF Attended, RunTypeOK, ProcessTypeOK, ProcessStates
<1>8. worker'[a].pc \notin Holding
  BY <1>1, <1>2 DEF Holding
<1> QED
  BY <1>2, <1>3, <1>5, <1>6, <1>7, <1>8, WorkerStepKeeps

\* A step that does not ask the core is a stutter of it.
LEMMA CoreKept == UNCHANGED vars => [Next]_vars /\ Grows({}) /\ AppliedKept
  BY StillGrows, ControlsKept DEF vars

\* The processes are left alone.
LEMMA ProcessesLeft ==
  ASSUME Attended, process' = process
  PROVE  /\ process' \in [Attempt -> ProcessStates]
         /\ \A a \in Activity : OwnsOrKeeps(a)
         /\ \A t \in Attempt : Stopped(t)
         /\ EndedStays
  BY DEF Attended, RunTypeOK, ProcessTypeOK, ProcessStates, OwnsOrKeeps, Stopped, EndedStays

\* A kill ends a process that was spawned, and no other.
LEMMA KilledEffect ==
  ASSUME Attended, NEW t \in Attempt, process' = Killed(t)
  PROVE  /\ process' \in [Attempt -> ProcessStates]
         /\ \A u \in Attempt : Stopped(u) /\ (u # t => process'[u] = process[u])
         /\ process[t] # "none" => process'[t] \in Ended
         /\ EndedStays
<1>1. process \in [Attempt -> ProcessStates]
  BY DEF Attended, RunTypeOK, ProcessTypeOK, ProcessStates
<1>2. \A u \in Attempt :
        process'[u] = IF u = t /\ process[u] \in {"gated", "running"} THEN "killed" ELSE process[u]
  BY <1>1 DEF Killed
<1>3. process' = [process EXCEPT ![t] = process'[t]]
  BY <1>1 DEF Killed
<1>4. "killed" \in Ended
  BY DEF Ended
<1>5. \A u \in Attempt : Stopped(u)
  BY <1>2, <1>4 DEF Stopped
<1>6. EndedStays
  BY <1>5, StoppedStays
<1> QED
  BY <1>1, <1>2, <1>3, <1>4, <1>5, <1>6 DEF ProcessStates

\* Going to a step keeps what the worker had chosen.
LEMMA ToMoves ==
  ASSUME Attended, NEW a \in Activity, NEW step \in WorkerSteps, To(a, step)
  PROVE  Moves(a, {step})
<1>1. worker \in [Activity -> WorkerRecord]
  BY DEF Attended, RunTypeOK, ProcessTypeOK
<1>2. worker'[a] = [worker[a] EXCEPT !.pc = step] /\ worker[a] \in WorkerRecord
  BY <1>1 DEF To
<1>3. worker'[a] \in WorkerRecord
  BY <1>2 DEF WorkerRecord
<1> QED
  BY <1>1, <1>2, <1>3 DEF To, Moves, WorkerRecord

\* What a worker that holds an Attempt knows.
LEMMA HolderKnows ==
  ASSUME Attended, NEW a \in Activity, worker[a].pc \in Holding
  PROVE  /\ worker[a].attempt \in Attempt /\ worker[a].target \in Activity
         /\ activities[worker[a].target].workflow \in Workflow
         /\ process[worker[a].attempt] \in ProcessesAt(worker[a].pc)
  BY DEF Attended, WorkerSound, Foundation, TypeOK, Known, ActivityRecord

\* A worker goes on without a call of the core.
LEMMA QuietMove ==
  ASSUME Attended, NEW a \in Activity, worker[a].pc \in Holding,
         NEW steps \in SUBSET (Holding \ {"releasing"}), Moves(a, steps),
         worker[a].pc \in Decoding => steps \subseteq Decoding,
         process[worker[a].attempt] \in ProcessesAt(worker'[a].pc),
         UNCHANGED <<vars, adopter, process, stdout, launchKeys, serviceVars>>
  PROVE  Kept
<1>1. [Next]_vars /\ Grows({}) /\ AppliedKept
  BY CoreKept
<1> QED
  BY <1>1, HolderKnows, ProcessesLeft, HolderMoves

\* A worker goes on with a call that ends at most its own Attempt.
LEMMA CallingMove ==
  ASSUME Attended, NEW a \in Activity, worker[a].pc \in Holding,
         [Next]_vars, NEW E \in SUBSET {worker[a].attempt}, Grows(E), AppliedKept,
         NEW steps \in SUBSET (Holding \ {"releasing"}), Moves(a, steps),
         worker[a].pc \in Decoding => steps \subseteq Decoding,
         process[worker[a].attempt] \in ProcessesAt(worker'[a].pc),
         E # {} => process[worker[a].attempt] # "running",
         UNCHANGED <<adopter, process, stdout, launchKeys, serviceVars>>
  PROVE  Kept
<1>1. process'[worker[a].attempt] = process[worker[a].attempt]
  OBVIOUS
<1> QED
  BY <1>1, HolderKnows, ProcessesLeft, HolderMoves

\* A worker stops its process, perhaps with a call.
LEMMA KillingMove ==
  ASSUME Attended, NEW a \in Activity, worker[a].pc \in Holding,
         [Next]_vars, Grows({}), AppliedKept,
         NEW steps \in SUBSET (Holding \ {"releasing"}), Moves(a, steps),
         worker[a].pc \in Decoding => steps \subseteq Decoding,
         process[worker[a].attempt] # "none", process' = Killed(worker[a].attempt),
         Ended \subseteq ProcessesAt(worker'[a].pc),
         UNCHANGED <<adopter, stdout, launchKeys, serviceVars>>
  PROVE  Kept
<1>1. worker[a].attempt \in Attempt
  BY HolderKnows
<1>2. /\ process' \in [Attempt -> ProcessStates] /\ OwnsOrKeeps(a)
      /\ Stopped(worker[a].attempt) /\ process'[worker[a].attempt] \in Ended
  BY <1>1, KilledEffect DEF OwnsOrKeeps
<1> QED
  BY <1>2, HolderMoves

\* Where an ended process may be.
LEMMA EndedAllowed ==
  \A step \in Holding \ {"prepared"} : Ended \subseteq ProcessesAt(step)
  BY DEF ProcessesAt, Holding

-----------------------------------------------------------------------------
(* The calls. *)

Call(E) == [Next]_vars /\ Grows(E) /\ AppliedKept

\* No milestone is a control.
LEMMA SpawnedCall ==
  ASSUME Attended, NEW t \in Attempt, RecordSpawned(t)
  PROVE  Call({})
<1>1. TypeOK
  BY DEF Attended, Foundation
<1>2. Grows({})
  BY <1>1, MilestoneGrows DEF RecordSpawned, Kinds
<1> QED
  BY <1>2, ControlsKept DEF Call, RecordSpawned, Next, AttemptCommands

LEMMA LineCall ==
  ASSUME Attended, NEW t \in Attempt, NEW line, RecordLine(t, line)
  PROVE  Call({})
<1> USE DEF Call
<1>1. TypeOK
  BY DEF Attended, Foundation
<1>2. CASE RecordTurnStarted(t)
  <2>1. Grows({})
    BY <1>1, <1>2, MilestoneGrows DEF RecordTurnStarted, Kinds
  <2> QED
    BY <1>2, <2>1, ControlsKept DEF RecordTurnStarted, Next, AttemptCommands
<1>3. CASE \E x \in NativeId : RecordSessionBound(t, x)
  BY <1>3, StillGrows, ControlsKept DEF RecordSessionBound, Next, AttemptCommands
<1>4. CASE RecordStartFailure(t, "provider_unavailable")
  <2>1. Grows({})
    BY <1>1, <1>4, MilestoneGrows DEF RecordStartFailure, Kinds
  <2> QED
    BY <1>4, <2>1, ControlsKept DEF RecordStartFailure, StartFailures, Next, AttemptCommands
<1>5. CASE line \in WorkerStatus /\ RecordResult(t, line)
  <2>1. Grows({})
    BY <1>1, <1>5, MilestoneGrows DEF RecordResult, Kinds
  <2> QED
    BY <1>5, <2>1, ControlsKept DEF RecordResult, Next, AttemptCommands
<1> QED
  BY <1>2, <1>3, <1>4, <1>5 DEF RecordLine

LEMMA StartFailureCall ==
  ASSUME Attended, NEW t \in Attempt, RecordStartFailure(t, "adapter_start_failed")
  PROVE  Call({})
<1>1. TypeOK
  BY DEF Attended, Foundation
<1>2. Grows({})
  BY <1>1, MilestoneGrows DEF RecordStartFailure, Kinds
<1> QED
  BY <1>2, ControlsKept DEF Call, RecordStartFailure, StartFailures, Next, AttemptCommands

\* An exit ends its own Attempt.
LEMMA ExitCall ==
  ASSUME Attended, NEW t \in Attempt, NEW succeeded, RecordExit(t, succeeded)
  PROVE  Call({t})
<1>1. TypeOK
  BY DEF Attended, Foundation
<1>2. Grows({t})
  BY <1>1, MilestoneGrows DEF RecordExit, Kinds
<1>3. \E b \in BOOLEAN : RecordExit(t, b)
  <2>1. CASE succeeded
    BY <2>1 DEF RecordExit
  <2>2. CASE ~succeeded
    BY <2>2 DEF RecordExit
  <2> QED
    BY <2>1, <2>2
<1>4. Next
  BY <1>3 DEF Next, AttemptCommands
<1> QED
  BY <1>2, <1>4, ControlsKept DEF Call, RecordExit

LEMMA ApplyCall ==
  ASSUME Attended, NEW t \in Attempt, process[t] \in Ended, NEW c \in AcceptedControls(t),
         ApplyControl(c)
  PROVE  Call({})
<1>1. c \in Control /\ controls[c].attempt = t
  BY DEF AcceptedControls
<1>2. AppliedKept
  BY <1>1, ApplyKeepsApplied DEF Attended, Foundation
<1> QED
  BY <1>1, <1>2, StillGrows DEF Call, ApplyControl, Next, ControlCommands

LEMMA RequestCall ==
  ASSUME Attended, NEW k \in Request, NEW t \in Attempt, RequestControl(k, t)
  PROVE  Call({})
<1>1. AppliedKept
  BY RequestKeepsApplied DEF Attended, Foundation
<1> QED
  BY <1>1, StillGrows DEF Call, RequestControl, Next, ControlCommands

LEMMA SettleCall ==
  ASSUME NEW w \in Workflow, SettlePause(w)
  PROVE  Call({})
  BY StillGrows, ControlsKept DEF Call, SettlePause, Next, ControlCommands

LEMMA LaunchCall ==
  ASSUME Attended, NEW a \in Activity, NEW r \in Runtime, NEW t \in Attempt,
         PrepareAttempt(a, r, t)
  PROVE  Call({})
<1>1. Grows({})
  BY LaunchGrows DEF Attended, Foundation
<1> QED
  BY <1>1, ControlsKept DEF Call, PrepareAttempt, Next, AttemptCommands

LEMMA FallbackCall ==
  ASSUME NEW p \in Activity, NEW r \in Runtime, NEW s \in Session, NEW a \in Activity,
         StartFallback(p, r, s, a)
  PROVE  Call({})
  BY StillGrows, ControlsKept DEF Call, StartFallback, Next, WorkCommands

-----------------------------------------------------------------------------
(* Every step of a worker, from its launch to its end. *)

\* Files, process or identity of a launch cannot be made.
LEMMA SpawnFailsKeeps ==
  ASSUME Attended, NEW a \in Activity, SpawnFails(a), UNCHANGED serviceVars
  PROVE  Kept
<1>1. worker[a].pc = "prepared" /\ worker[a].pc \in Holding \ Decoding
  BY DEF SpawnFails, Holding, Decoding, WorkerSteps, WaitLoop
<1>2. Moves(a, {"failing"}) /\ {"failing"} \in SUBSET (Holding \ {"releasing"})
  BY ToMoves DEF SpawnFails, Holding, WorkerSteps
<1>3. process[worker[a].attempt] \in ProcessesAt(worker'[a].pc)
  BY <1>1, <1>2, HolderKnows DEF Moves, ProcessesAt
<1> QED
  BY <1>1, <1>2, <1>3, QuietMove DEF SpawnFails

\* A failed start is recorded, or fenced.
LEMMA RecordFailedStartKeeps ==
  ASSUME Attended, NEW a \in Activity, RecordFailedStart(a), UNCHANGED serviceVars
  PROVE  Kept
<1>1. worker[a].pc = "failing" /\ worker[a].pc \in Holding \ Decoding
  BY DEF RecordFailedStart, Holding, Decoding, WorkerSteps, WaitLoop
<1>2. Moves(a, {"failed"}) /\ {"failed"} \in SUBSET (Holding \ {"releasing"})
  BY ToMoves DEF RecordFailedStart, Holding, WorkerSteps
<1>3. process[worker[a].attempt] \in ProcessesAt(worker'[a].pc)
  BY <1>1, <1>2, HolderKnows DEF Moves, ProcessesAt
<1>4. Call({})
  BY <1>1, HolderKnows, CoreKept, StartFailureCall DEF RecordFailedStart, Call
<1> QED
  BY <1>1, <1>2, <1>3, <1>4, CallingMove DEF RecordFailedStart, Call

\* The exit of a failed start ends an Attempt that no harness runs for.
LEMMA RecordFailedExitKeeps ==
  ASSUME Attended, NEW a \in Activity, RecordFailedExit(a), UNCHANGED serviceVars
  PROVE  Kept
<1> DEFINE t == worker[a].attempt
<1>1. worker[a].pc = "failed" /\ worker[a].pc \in Holding
  BY DEF RecordFailedExit, Holding, WorkerSteps
<1>2. t \in Attempt /\ process[t] # "running"
  BY <1>1, HolderKnows, EndedApart DEF ProcessesAt
<1>3. Call({}) \/ Call({t})
  BY <1>2, CoreKept, ExitCall DEF RecordFailedExit, Call
<1> QED
  BY <1>1, <1>2, <1>3, WorkerFinishes DEF RecordFailedExit, Call

\* A process that cannot be recorded is killed behind its gate.
LEMMA RecordSpawnKeeps ==
  ASSUME Attended, NEW a \in Activity, RecordSpawn(a), UNCHANGED serviceVars
  PROVE  Kept
<1> DEFINE t == worker[a].attempt
<1>1. worker[a].pc = "spawned" /\ worker[a].pc \in Holding \ Decoding
  BY DEF RecordSpawn, Holding, Decoding, WorkerSteps, WaitLoop
<1>2. t \in Attempt /\ process[t] \in {"gated"} \cup Ended
  BY <1>1, HolderKnows DEF ProcessesAt
<1>3. CASE RecordSpawned(t) /\ To(a, "releasing") /\ UNCHANGED process
  <2>1. Moves(a, {"releasing"})
    BY <1>3, ToMoves DEF WorkerSteps
  <2>2. Call({}) /\ IdentitiesKept
    BY <1>2, <1>3, SpawnedCall, StepKeepsFoundation DEF Call, Attended
  <2>3. attempts'[t] # None /\ "process_spawned" \in attempts'[t].milestones
    BY <1>2, <1>3, AddMilestoneEffect DEF RecordSpawned, MayRecord, Attended, Foundation, Kinds
  <2>4. attempts[t] # None /\ Live(t)
    BY <1>3 DEF RecordSpawned, MayRecord, Live
  <2>5. Live(t)' /\ Spawned(t)'
    BY <1>2, <2>1, <2>2, <2>3, <2>4 DEF Moves, Call, Grows, Spawned, Live, HasExit
  <2>6. worker[a].decoder = "off" /\ worker[a].target \in Activity /\ Known(worker[a].target)
    BY <1>1 DEF Attended, WorkerSound
  <2>7. WorkerSound(a)'
    BY <1>2, <1>3, <2>1, <2>2, <2>3, <2>5, <2>6
       DEF WorkerSound, Moves, IdentitiesKept, Known, ProcessesAt, Holding
  <2>8. ASSUME NEW u \in Attempt, u = t PROVE ProcessSound(u)'
    BY <1>2, <1>3, <2>3, <2>8, EndedApart DEF ProcessSound
  <2> QED
    BY <1>1, <1>3, <2>1, <2>2, <2>7, <2>8, ProcessesLeft, WorkerStepKeeps
       DEF Moves, RecordSpawn, Call
<1>4. CASE UNCHANGED vars /\ To(a, "failed") /\ process' = Killed(t)
  <2>1. Moves(a, {"failed"}) /\ {"failed"} \in SUBSET (Holding \ {"releasing"})
    BY <1>4, ToMoves DEF Holding, WorkerSteps
  <2>2. Ended \subseteq ProcessesAt(worker'[a].pc)
    BY <2>1 DEF Moves, ProcessesAt
  <2>3. process[t] # "none"
    BY <1>2, EndedApart
  <2> QED
    BY <1>1, <1>4, <2>1, <2>2, <2>3, CoreKept, KillingMove DEF RecordSpawn
<1> QED
  BY <1>3, <1>4 DEF RecordSpawn

\* A spawned process waits behind its gate: nothing runs yet.
LEMMA SpawnKeeps ==
  ASSUME Attended, NEW a \in Activity, Spawn(a), UNCHANGED serviceVars
  PROVE  Kept
<1> DEFINE t == worker[a].attempt
<1>1. worker[a].pc = "prepared" /\ worker[a].pc \in Holding
  BY DEF Spawn, Holding, WorkerSteps
<1>2. t \in Attempt /\ process[t] = "none" /\ attempts[t] # None
  BY <1>1 DEF Attended, WorkerSound, ProcessesAt
<1>3. Moves(a, {"spawned"})
  BY ToMoves DEF Spawn, WorkerSteps
<1>4. Call({}) /\ IdentitiesKept
  BY CoreKept, StepKeepsFoundation DEF Spawn, Call, Attended
<1>5. /\ process' \in [Attempt -> ProcessStates] /\ process'[t] = "gated"
      /\ \A u \in Attempt : u # t => process'[u] = process[u]
  BY <1>2 DEF Spawn, Attended, RunTypeOK, ProcessTypeOK, ProcessStates
<1>6. EndedStays /\ OwnsOrKeeps(a)
  BY <1>1, <1>2, <1>5, EndedApart DEF EndedStays, OwnsOrKeeps
<1>7. worker[a].decoder = "off" /\ worker[a].target \in Activity /\ Known(worker[a].target)
  BY <1>1 DEF Attended, WorkerSound, Decoding, WaitLoop
<1>8. WorkerSound(a)'
  BY <1>2, <1>3, <1>4, <1>5, <1>7
     DEF WorkerSound, Moves, Call, Grows, IdentitiesKept, Known, ProcessesAt, Holding, WorkerSteps
<1>9. ASSUME NEW u \in Attempt, u = t PROVE ProcessSound(u)'
  BY <1>2, <1>4, <1>5, <1>9 DEF ProcessSound, Call, Grows
<1> QED
  BY <1>1, <1>3, <1>4, <1>5, <1>6, <1>8, <1>9, WorkerStepKeeps DEF Moves, Spawn, Call

\* The gate opens for a process that is recorded and whose Attempt is live: what
\* ended it meanwhile would have found the process gone.
LEMMA ReleaseKeeps ==
  ASSUME Attended, NEW a \in Activity, Release(a), UNCHANGED serviceVars
  PROVE  Kept
<1> DEFINE t == worker[a].attempt
<1>1. worker[a].pc = "releasing" /\ worker[a].pc \in Holding
  BY DEF Release, Holding, WorkerSteps
<1>2. /\ t \in Attempt /\ process[t] \in {"gated"} \cup Ended /\ attempts[t] # None
      /\ Spawned(t)
      /\ process[t] = "gated" => Live(t)
      /\ worker[a].target \in Activity /\ Known(worker[a].target)
  BY <1>1 DEF Attended, WorkerSound, ProcessesAt
<1>3. worker[a] \in WorkerRecord /\ worker \in [Activity -> WorkerRecord]
  BY DEF Attended, RunTypeOK, ProcessTypeOK
<1>4. worker'[a] = [worker[a] EXCEPT !.pc = "waiting", !.decoder = "reading"]
      /\ \A b \in Activity \ {a} : worker'[b] = worker[b]
  BY <1>3 DEF Release
<1>5. /\ worker'[a] \in WorkerRecord /\ worker'[a].pc = "waiting"
      /\ worker'[a].attempt = t /\ worker'[a].target = worker[a].target
  BY <1>3, <1>4 DEF WorkerRecord, WorkerSteps, WaitLoop
<1>6. worker' \in [Activity -> WorkerRecord]
  BY <1>3, <1>5 DEF Release
<1>7. Call({}) /\ IdentitiesKept /\ UNCHANGED vars
  BY CoreKept, StepKeepsFoundation DEF Release, Call, Attended
<1>8. /\ process' \in [Attempt -> ProcessStates] /\ process'[t] \in {"running"} \cup Ended
      /\ process[t] \in Ended => process'[t] = process[t]
      /\ \A u \in Attempt : u # t => process'[u] = process[u]
  BY <1>2, EndedApart DEF Release, Attended, RunTypeOK, ProcessTypeOK, ProcessStates
<1>9. EndedStays /\ OwnsOrKeeps(a)
  BY <1>1, <1>2, <1>8 DEF EndedStays, OwnsOrKeeps
<1>10. WorkerSound(a)'
  BY <1>2, <1>5, <1>7, <1>8
     DEF WorkerSound, Call, Grows, IdentitiesKept, Known, ProcessesAt, Holding, WorkerSteps,
         WaitLoop, Decoding
<1>11. ASSUME NEW u \in Attempt, u = t PROVE ProcessSound(u)'
  <2>1. process[t] = "gated" => Live(t) /\ Spawned(t)
    BY <1>2
  <2>2. process'[t] = "running" => process[t] = "gated"
    BY <1>2, <1>8, EndedApart
  <2> QED
    BY <1>2, <1>7, <1>11, <2>1, <2>2 DEF ProcessSound, Call, Grows
<1> QED
  BY <1>1, <1>4, <1>5, <1>6, <1>7, <1>8, <1>9, <1>10, <1>11, WorkerStepKeeps DEF Release, Call

\* The gate of a runner that died.
LEMMA ReleaseFailsKeeps ==
  ASSUME Attended, NEW a \in Activity, ReleaseFails(a), UNCHANGED serviceVars
  PROVE  Kept
<1>1. worker[a].pc = "releasing" /\ worker[a].pc \in Holding \ Decoding
  BY DEF ReleaseFails, Holding, Decoding, WorkerSteps, WaitLoop
<1>2. Moves(a, {"failed"}) /\ {"failed"} \in SUBSET (Holding \ {"releasing"})
  BY ToMoves DEF ReleaseFails, Holding, WorkerSteps
<1>3. process[worker[a].attempt] \in ProcessesAt(worker'[a].pc)
  BY <1>2 DEF ReleaseFails, Moves, ProcessesAt, Ended
<1> QED
  BY <1>1, <1>2, <1>3, QuietMove DEF ReleaseFails

\* The end of a process is noticed.
LEMMA ProcessWaitedKeeps ==
  ASSUME Attended, NEW a \in Activity, ProcessWaited(a), UNCHANGED serviceVars
  PROVE  Kept
<1>1. worker[a].pc \in Holding
  BY DEF ProcessWaited, Holding, WorkerSteps, WaitLoop
<1>2. Moves(a, {"draining"}) /\ {"draining"} \in SUBSET (Holding \ {"releasing"})
      /\ {"draining"} \subseteq Decoding
  BY ToMoves DEF ProcessWaited, Holding, WorkerSteps, Decoding
<1>3. process[worker[a].attempt] \in ProcessesAt(worker'[a].pc)
  BY <1>2 DEF ProcessWaited, Moves, ProcessesAt
<1> QED
  BY <1>1, <1>2, <1>3, QuietMove DEF ProcessWaited

\* The decoder has read to the end.
LEMMA DecoderDoneKeeps ==
  ASSUME Attended, NEW a \in Activity, DecoderDone(a), UNCHANGED serviceVars
  PROVE  Kept
<1>1. worker[a].pc = "draining" /\ worker[a].pc \in Holding
  BY DEF DecoderDone, Holding, WorkerSteps
<1>2. Moves(a, {"exiting"}) /\ {"exiting"} \in SUBSET (Holding \ {"releasing"})
      /\ {"exiting"} \subseteq Decoding
  BY ToMoves DEF DecoderDone, Holding, WorkerSteps, Decoding
<1>3. process[worker[a].attempt] \in ProcessesAt(worker'[a].pc)
  BY <1>1, <1>2, HolderKnows DEF Moves, ProcessesAt
<1> QED
  BY <1>1, <1>2, <1>3, QuietMove DEF DecoderDone

\* The startup deadline passes.
LEMMA DeadlinePassesKeeps ==
  ASSUME Attended, NEW a \in Activity, DeadlinePasses(a), UNCHANGED serviceVars
  PROVE  Kept
<1>1. worker[a].pc = "waiting" /\ worker[a].pc \in Holding
  BY DEF DeadlinePasses, Holding, WorkerSteps, WaitLoop
<1>2. Moves(a, {"deadline"}) /\ {"deadline"} \in SUBSET (Holding \ {"releasing"})
      /\ {"deadline"} \subseteq Decoding
  BY ToMoves DEF DeadlinePasses, Holding, WorkerSteps, Decoding, WaitLoop
<1>3. process[worker[a].attempt] \in ProcessesAt(worker'[a].pc)
  BY <1>1, <1>2, HolderKnows DEF Moves, ProcessesAt
<1> QED
  BY <1>1, <1>2, <1>3, QuietMove DEF DeadlinePasses

\* A decoder's error stops the process.
LEMMA DecoderFailsKeeps ==
  ASSUME Attended, NEW a \in Activity, DecoderFails(a), UNCHANGED serviceVars
  PROVE  Kept
<1>1. worker[a].pc = "waiting" /\ worker[a].pc \in Holding
  BY DEF DecoderFails, Holding, WorkerSteps, WaitLoop
<1>2. process[worker[a].attempt] # "none"
  BY <1>1, HolderKnows, EndedApart DEF ProcessesAt
<1>3. worker[a] \in WorkerRecord /\ worker \in [Activity -> WorkerRecord]
  BY DEF Attended, RunTypeOK, ProcessTypeOK
<1>4. worker'[a] = [worker[a] EXCEPT !.pc = "exiting", !.stopping = TRUE]
      /\ \A b \in Activity \ {a} : worker'[b] = worker[b]
  BY <1>3 DEF DecoderFails
<1>5. worker'[a] \in WorkerRecord
  BY <1>3, <1>4 DEF WorkerRecord, WorkerSteps
<1>6. Moves(a, {"exiting"})
  BY <1>3, <1>4, <1>5 DEF DecoderFails, Moves, WorkerRecord
<1>7. {"exiting"} \in SUBSET (Holding \ {"releasing"}) /\ {"exiting"} \subseteq Decoding
  BY DEF Holding, WorkerSteps, Decoding
<1>8. Ended \subseteq ProcessesAt(worker'[a].pc)
  BY <1>6 DEF Moves, ProcessesAt
<1> QED
  BY <1>1, <1>2, <1>6, <1>7, <1>8, CoreKept, KillingMove DEF DecoderFails

\* A control stops the process before it is applied.
LEMMA PollControlKeeps ==
  ASSUME Attended, NEW a \in Activity, PollControl(a), UNCHANGED serviceVars
  PROVE  Kept
<1>1. worker[a].pc = "waiting" /\ worker[a].pc \in Holding
  BY DEF PollControl, Holding, WorkerSteps, WaitLoop
<1>2. process[worker[a].attempt] # "none"
  BY <1>1, HolderKnows, EndedApart DEF ProcessesAt
<1>3. worker[a] \in WorkerRecord /\ worker \in [Activity -> WorkerRecord]
  BY DEF Attended, RunTypeOK, ProcessTypeOK
<1>4. PICK step \in {"applying", "waiting"} :
        worker' = [worker EXCEPT ![a].stopping = TRUE, ![a].pc = step]
  BY DEF PollControl
<1>5. worker'[a] = [worker[a] EXCEPT !.stopping = TRUE, !.pc = step]
      /\ \A b \in Activity \ {a} : worker'[b] = worker[b]
  BY <1>3, <1>4
<1>6. worker'[a] \in WorkerRecord
  BY <1>3, <1>5 DEF WorkerRecord, WorkerSteps, WaitLoop
<1>7. Moves(a, {"applying", "waiting"})
  BY <1>3, <1>4, <1>5, <1>6 DEF Moves, WorkerRecord
<1>8. /\ {"applying", "waiting"} \in SUBSET (Holding \ {"releasing"})
      /\ {"applying", "waiting"} \subseteq Decoding
  BY DEF Holding, WorkerSteps, Decoding, WaitLoop
<1>9. Ended \subseteq ProcessesAt(worker'[a].pc)
  BY <1>7, <1>8, EndedAllowed DEF Moves
<1> QED
  BY <1>1, <1>2, <1>7, <1>8, <1>9, CoreKept, KillingMove DEF PollControl

\* A control is applied only now.
LEMMA ApplyStopKeeps ==
  ASSUME Attended, NEW a \in Activity, ApplyStop(a), UNCHANGED serviceVars
  PROVE  Kept
<1>1. worker[a].pc \in {"applying", "lateApplying"} /\ worker[a].pc \in Holding
  BY DEF ApplyStop, Holding, WorkerSteps, WaitLoop
<1>2. worker[a].attempt \in Attempt /\ process[worker[a].attempt] \in Ended
  BY <1>1, HolderKnows DEF ProcessesAt
<1>3. worker[a] \in WorkerRecord /\ worker \in [Activity -> WorkerRecord]
  BY DEF Attended, RunTypeOK, ProcessTypeOK
<1>4. PICK late \in BOOLEAN : worker' = [worker EXCEPT ![a].pc = "waiting", ![a].late = late]
  <2>1. worker[a].late \in BOOLEAN
    BY <1>3 DEF WorkerRecord
  <2>2. CASE worker[a].late \/ worker[a].pc = "lateApplying"
    BY <2>2, <2>1 DEF ApplyStop
  <2>3. CASE ~(worker[a].late \/ worker[a].pc = "lateApplying")
    BY <2>3, <2>1 DEF ApplyStop
  <2> QED
    BY <2>2, <2>3
<1>5. worker'[a] = [worker[a] EXCEPT !.pc = "waiting", !.late = late]
      /\ \A b \in Activity \ {a} : worker'[b] = worker[b]
  BY <1>3, <1>4
<1>6. worker'[a] \in WorkerRecord
  BY <1>3, <1>5 DEF WorkerRecord, WorkerSteps, WaitLoop
<1>7. Moves(a, {"waiting"})
  BY <1>3, <1>4, <1>5, <1>6 DEF Moves, WorkerRecord
<1>8. {"waiting"} \in SUBSET (Holding \ {"releasing"}) /\ {"waiting"} \subseteq Decoding
  BY DEF Holding, WorkerSteps, Decoding, WaitLoop
<1>9. process[worker[a].attempt] \in ProcessesAt(worker'[a].pc)
  BY <1>2, <1>7 DEF Moves, ProcessesAt
<1>10. Call({})
  BY <1>2, ApplyCall DEF ApplyStop
<1> QED
  BY <1>1, <1>7, <1>8, <1>9, <1>10, CallingMove DEF ApplyStop, Call

\* The deadline's own stop is a control like another.
LEMMA RequestDeadlineStopKeeps ==
  ASSUME Attended, NEW a \in Activity, NEW k \in Request, RequestDeadlineStop(a, k),
         UNCHANGED serviceVars
  PROVE  Kept
<1> DEFINE steps == {"lateFailing", "waiting", "joined"}
<1>1. worker[a].pc = "deadline" /\ worker[a].pc \in Holding
  BY DEF RequestDeadlineStop, Holding, WorkerSteps, WaitLoop
<1>2. worker[a] \in WorkerRecord /\ worker \in [Activity -> WorkerRecord]
  BY DEF Attended, RunTypeOK, ProcessTypeOK
<1>3. Moves(a, steps)
  <2>1. CASE worker' = [worker EXCEPT ![a].pc = "lateFailing"]
    <3>1. To(a, "lateFailing")
      BY <2>1 DEF To
    <3> QED
      BY <3>1, ToMoves DEF Moves, WorkerSteps, WaitLoop
  <2>2. CASE worker' = [worker EXCEPT ![a].pc = "waiting", ![a].late = TRUE]
    <3>1. worker'[a] = [worker[a] EXCEPT !.pc = "waiting", !.late = TRUE]
      BY <1>2, <2>2
    <3>2. worker'[a] \in WorkerRecord
      BY <1>2, <3>1 DEF WorkerRecord, WorkerSteps, WaitLoop
    <3> QED
      BY <1>2, <2>2, <3>1, <3>2 DEF Moves, WorkerRecord
  <2>3. CASE To(a, "joined")
    BY <2>3, ToMoves DEF Moves, WorkerSteps
  <2> QED
    BY <2>1, <2>2, <2>3 DEF RequestDeadlineStop
<1>4. steps \in SUBSET (Holding \ {"releasing"}) /\ steps \subseteq Decoding
  BY DEF Holding, WorkerSteps, Decoding, WaitLoop
<1>5. process[worker[a].attempt] \in ProcessesAt(worker'[a].pc)
  BY <1>1, <1>3, HolderKnows DEF Moves, ProcessesAt
<1>6. Call({})
  BY <1>1, HolderKnows, RequestCall, CoreKept DEF RequestDeadlineStop, Call
<1> QED
  BY <1>1, <1>3, <1>4, <1>5, <1>6, CallingMove DEF RequestDeadlineStop, Call

\* A late start is recorded, or fenced, or refused.
LEMMA RecordLateKeeps ==
  ASSUME Attended, NEW a \in Activity, RecordLate(a), UNCHANGED serviceVars
  PROVE  Kept
<1> DEFINE steps == {"lateStopping", "lateRefused"}
<1>1. worker[a].pc = "lateFailing" /\ worker[a].pc \in Holding
  BY DEF RecordLate, Holding, WorkerSteps, WaitLoop
<1>2. Moves(a, steps)
  <2>1. PICK step \in steps : To(a, step)
    BY DEF RecordLate
  <2>2. step \in WorkerSteps
    BY DEF WorkerSteps, WaitLoop
  <2>3. Moves(a, {step})
    BY <2>1, <2>2, ToMoves
  <2> QED
    BY <2>3 DEF Moves
<1>3. steps \in SUBSET (Holding \ {"releasing"}) /\ steps \subseteq Decoding
  BY DEF Holding, WorkerSteps, Decoding, WaitLoop
<1>4. process[worker[a].attempt] \in ProcessesAt(worker'[a].pc)
  BY <1>1, <1>2, HolderKnows DEF Moves, ProcessesAt
<1>5. Call({})
  BY <1>1, HolderKnows, StartFailureCall, CoreKept DEF RecordLate, Call
<1> QED
  BY <1>1, <1>2, <1>3, <1>4, <1>5, CallingMove DEF RecordLate, Call

\* Its process is stopped.
LEMMA StopLateKeeps ==
  ASSUME Attended, NEW a \in Activity, StopLate(a), UNCHANGED serviceVars
  PROVE  Kept
<1> DEFINE steps == {"lateApplying", "draining"}
<1>1. worker[a].pc \in {"lateStopping", "lateRefused"} /\ worker[a].pc \in Holding
  BY DEF StopLate, Holding, WorkerSteps, WaitLoop
<1>2. process[worker[a].attempt] # "none"
  BY <1>1, HolderKnows, EndedApart DEF ProcessesAt
<1>3. worker[a] \in WorkerRecord /\ worker \in [Activity -> WorkerRecord]
  BY DEF Attended, RunTypeOK, ProcessTypeOK
<1>4. Moves(a, steps)
  <2>1. CASE worker' = [worker EXCEPT ![a].pc = "lateApplying", ![a].stopping = TRUE]
    <3>1. worker'[a] = [worker[a] EXCEPT !.pc = "lateApplying", !.stopping = TRUE]
      BY <1>3, <2>1
    <3>2. worker'[a] \in WorkerRecord
      BY <1>3, <3>1 DEF WorkerRecord, WorkerSteps, WaitLoop
    <3> QED
      BY <1>3, <2>1, <3>1, <3>2 DEF Moves, WorkerRecord
  <2>2. CASE To(a, "draining")
    BY <2>2, ToMoves DEF Moves, WorkerSteps
  <2> QED
    BY <2>1, <2>2 DEF StopLate
<1>5. steps \in SUBSET (Holding \ {"releasing"}) /\ steps \subseteq Decoding
  BY DEF Holding, WorkerSteps, Decoding, WaitLoop
<1>6. Ended \subseteq ProcessesAt(worker'[a].pc)
  BY <1>4, <1>5, EndedAllowed DEF Moves
<1> QED
  BY <1>1, <1>2, <1>4, <1>5, <1>6, CoreKept, KillingMove DEF StopLate

\* An exit is recorded of a process that has ended.
LEMMA RecordEndKeeps ==
  ASSUME Attended, NEW a \in Activity, RecordEnd(a), UNCHANGED serviceVars
  PROVE  Kept
<1> DEFINE t == worker[a].attempt
<1>1. worker[a].pc = "exiting" /\ worker[a].pc \in Holding
  BY DEF RecordEnd, Holding, WorkerSteps
<1>2. t \in Attempt /\ process[t] \in Ended /\ process[t] # "running"
  BY <1>1, HolderKnows, EndedApart DEF ProcessesAt
<1>3. Moves(a, {"settling"}) /\ {"settling"} \in SUBSET (Holding \ {"releasing"})
      /\ {"settling"} \subseteq Decoding
  BY ToMoves DEF RecordEnd, Holding, WorkerSteps, Decoding
<1>4. process[t] \in ProcessesAt(worker'[a].pc)
  BY <1>2, <1>3 DEF Moves, ProcessesAt
<1>5. Call({}) \/ Call({t})
  BY <1>2, ExitCall, CoreKept DEF RecordEnd, Call
<1> QED
  BY <1>1, <1>2, <1>3, <1>4, <1>5, CallingMove DEF RecordEnd, Call

\* The last call of a worker settles a pause.
LEMMA SettleKeeps ==
  ASSUME Attended, NEW a \in Activity, Settle(a), UNCHANGED serviceVars
  PROVE  Kept
<1>1. worker[a].pc = "settling" /\ worker[a].pc \in Holding
  BY DEF Settle, Holding, WorkerSteps
<1>2. Call({})
  BY <1>1, HolderKnows, SettleCall, CoreKept DEF Settle, Call
<1> QED
  BY <1>2, WorkerFinishes DEF Settle, Call

\* A decoded line is a milestone of the worker's Attempt.
LEMMA DecodeKeeps ==
  ASSUME Attended, NEW a \in Activity, Decode(a), UNCHANGED serviceVars
  PROVE  Kept
<1> DEFINE t == worker[a].attempt
           step == worker[a].pc
<1>1. worker[a] \in WorkerRecord /\ worker \in [Activity -> WorkerRecord]
  BY DEF Attended, RunTypeOK, ProcessTypeOK
<1>2. step \in Decoding
  BY DEF Decode, Attended, WorkerSound
<1>3. Decoding \subseteq Holding \ {"releasing"}
  BY DEF Decoding, Holding, WorkerSteps, WaitLoop
<1>4. t \in Attempt /\ process[t] \in ProcessesAt(step)
  BY <1>2, <1>3, HolderKnows
<1>5. PICK n \in 0 .. MaxLines : stdout[t] \in [1 .. n -> Line]
  <2>1. stdout[t] \in UNION {[1 .. n -> Line] : n \in 0 .. MaxLines}
    BY <1>4 DEF Attended, RunTypeOK, ProcessTypeOK
  <2> QED
    BY <2>1
<1>6. Len(stdout[t]) = n /\ worker[a].read + 1 \in 1 .. n
  BY <1>1, <1>5, MaxLinesAssumption DEF Decode, WorkerRecord
<1>8. worker[a].read + 1 \in 0 .. MaxLines
  BY <1>5, <1>6, MaxLinesAssumption
<1>9. Moves(a, {step})
  <2>1. CASE worker' = [worker EXCEPT ![a].read = @ + 1]
    <3>1. worker'[a] = [worker[a] EXCEPT !.read = worker[a].read + 1]
      BY <1>1, <2>1
    <3>2. worker'[a] \in WorkerRecord
      BY <1>1, <1>8, <3>1 DEF WorkerRecord
    <3> QED
      BY <1>1, <2>1, <3>1, <3>2 DEF Moves, WorkerRecord
  <2>2. CASE \E d \in {"fenced", "failed"} : worker' = [worker EXCEPT ![a].decoder = d]
    <3>1. PICK d \in {"fenced", "failed"} : worker' = [worker EXCEPT ![a].decoder = d]
      BY <2>2
    <3>2. worker'[a] = [worker[a] EXCEPT !.decoder = d]
      BY <1>1, <3>1
    <3>3. worker'[a] \in WorkerRecord
      BY <1>1, <3>2 DEF WorkerRecord
    <3>4. worker[a].decoder = "reading"
      BY DEF Decode
    <3> QED
      BY <1>1, <3>1, <3>2, <3>3, <3>4 DEF Moves, WorkerRecord
  <2> QED
    BY <2>1, <2>2 DEF Decode
<1>10. Call({})
  BY <1>4, LineCall, CoreKept DEF Decode, Call
<1>11. worker'[a].pc = step
  BY <1>9 DEF Moves
<1> QED
  BY <1>2, <1>3, <1>4, <1>9, <1>10, <1>11, CallingMove DEF Decode, Call

\* A worker without an Attempt moves on, perhaps with a call that ends nothing.
LEMMA ChoosingMove ==
  ASSUME Attended, NEW a \in Activity, Call({}), worker[a].pc \in WorkerSteps \ Holding,
         worker' \in [Activity -> WorkerRecord],
         \A b \in Activity \ {a} : worker'[b] = worker[b],
         worker'[a].pc \notin Holding, WorkerSound(a)',
         UNCHANGED <<adopter, process, stdout, launchKeys, serviceVars>>
  PROVE  Kept
  BY ProcessesLeft, WorkerStepKeeps DEF Call

\* The runtimes a worker may choose are of the Activity's work or Session.
LEMMA CandidatesType ==
  ASSUME Attended, NEW a \in Activity, Known(a)
  PROVE  Candidates(a) \subseteq Runtime
<1>1. WorkOf(a) \in WorkRecord
  BY WorkOfType DEF Attended, Foundation
<1>2. sessions[activities[a].session].runtime \in Runtime
  BY DEF Attended, Foundation, TypeOK, StateValid, Known, ActivityRecord, SessionRecord
<1> QED
  BY <1>1, <1>2 DEF Candidates, RuntimesOf, WorkRecord

\* A runtime is chosen, or none is left.
LEMMA SelectRuntimeKeeps ==
  ASSUME Attended, NEW a \in Activity, SelectRuntime(a), UNCHANGED serviceVars
  PROVE  Kept
<1>1. worker[a].pc = "selecting" /\ worker[a].pc \in WorkerSteps \ Holding /\ Known(a)
      /\ worker[a].decoder = "off"
  BY DEF SelectRuntime, Attended, WorkerSound, Holding, WorkerSteps, Decoding, WaitLoop
<1>2. worker[a] \in WorkerRecord /\ worker \in [Activity -> WorkerRecord]
  BY DEF Attended, RunTypeOK, ProcessTypeOK
<1>3. Call({})
  BY CoreKept DEF SelectRuntime, Call
<1>4. CASE Finished(a)
  BY <1>3, <1>4, WorkerFinishes DEF SelectRuntime, Call
<1>5. CASE \E r \in Candidates(a), o \in NextOrdinals(a) :
             worker' = [worker EXCEPT ![a].pc = "building", ![a].target = a,
                                      ![a].runtime = r, ![a].ordinal = o]
  <2>1. PICK r \in Candidates(a), o \in NextOrdinals(a) :
           worker' = [worker EXCEPT ![a].pc = "building", ![a].target = a,
                                    ![a].runtime = r, ![a].ordinal = o]
    BY <1>5
  <2>2. r \in Runtime /\ o \in Nat
    BY <1>1, CandidatesType, OrdinalsType DEF Attended, Foundation
  <2>3. worker'[a] = [worker[a] EXCEPT !.pc = "building", !.target = a, !.runtime = r,
                                       !.ordinal = o]
        /\ \A b \in Activity \ {a} : worker'[b] = worker[b]
    BY <1>2, <2>1
  <2>4. /\ worker'[a] \in WorkerRecord /\ worker'[a].pc = "building"
        /\ worker'[a].target = a /\ worker'[a].runtime = r /\ worker'[a].decoder = "off"
    BY <1>1, <1>2, <2>2, <2>3 DEF WorkerRecord, WorkerSteps
  <2>5. worker' \in [Activity -> WorkerRecord]
    BY <1>2, <2>1, <2>3, <2>4
  <2>6. WorkerSound(a)' /\ worker'[a].pc \notin Holding
    BY <2>2, <2>4 DEF WorkerSound, Holding
  <2> QED
    BY <1>1, <1>3, <2>3, <2>5, <2>6, ChoosingMove DEF SelectRuntime
<1>6. CASE \E r \in Candidates(a) : \E b \in FallbackOn(a, r) :
             worker' = [worker EXCEPT ![a].pc = "counting", ![a].target = b, ![a].runtime = r]
  <2>0. PICK r \in Candidates(a) : \E b \in FallbackOn(a, r) :
           worker' = [worker EXCEPT ![a].pc = "counting", ![a].target = b, ![a].runtime = r]
    BY <1>6
  <2>1. PICK b \in FallbackOn(a, r) :
           worker' = [worker EXCEPT ![a].pc = "counting", ![a].target = b, ![a].runtime = r]
    BY <2>0
  <2>2. r \in Runtime /\ b \in Activity
    BY <1>1, CandidatesType DEF FallbackOn, FallbackChildren
  <2>3. worker'[a] = [worker[a] EXCEPT !.pc = "counting", !.target = b, !.runtime = r]
        /\ \A c \in Activity \ {a} : worker'[c] = worker[c]
    BY <1>2, <2>1
  <2>4. /\ worker'[a] \in WorkerRecord /\ worker'[a].pc = "counting"
        /\ worker'[a].target = b /\ worker'[a].runtime = r /\ worker'[a].decoder = "off"
    BY <1>1, <1>2, <2>2, <2>3 DEF WorkerRecord, WorkerSteps
  <2>5. worker' \in [Activity -> WorkerRecord]
    BY <1>2, <2>1, <2>3, <2>4
  <2>6. WorkerSound(a)' /\ worker'[a].pc \notin Holding
    BY <2>2, <2>4 DEF WorkerSound, Holding
  <2> QED
    BY <1>1, <1>3, <2>3, <2>5, <2>6, ChoosingMove DEF SelectRuntime
<1>7. CASE \E r \in Candidates(a) :
             worker' = [worker EXCEPT ![a].pc = "falling", ![a].runtime = r]
  <2>1. PICK r \in Candidates(a) :
           worker' = [worker EXCEPT ![a].pc = "falling", ![a].runtime = r]
    BY <1>7
  <2>2. r \in Runtime
    BY <1>1, CandidatesType
  <2>3. worker'[a] = [worker[a] EXCEPT !.pc = "falling", !.runtime = r]
        /\ \A b \in Activity \ {a} : worker'[b] = worker[b]
    BY <1>2, <2>1
  <2>4. /\ worker'[a] \in WorkerRecord /\ worker'[a].pc = "falling"
        /\ worker'[a].runtime = r /\ worker'[a].decoder = "off"
    BY <1>1, <1>2, <2>2, <2>3 DEF WorkerRecord, WorkerSteps
  <2>5. worker' \in [Activity -> WorkerRecord]
    BY <1>2, <2>1, <2>3, <2>4
  <2>6. WorkerSound(a)' /\ worker'[a].pc \notin Holding
    BY <2>2, <2>4 DEF WorkerSound, Holding
  <2> QED
    BY <1>1, <1>3, <2>3, <2>5, <2>6, ChoosingMove DEF SelectRuntime
<1> QED
  BY <1>4, <1>5, <1>6, <1>7 DEF SelectRuntime

\* A fallback child is created and becomes the target.
LEMMA FallBackKeeps ==
  ASSUME Attended, NEW a \in Activity, NEW s \in Session, NEW b \in Activity,
         FallBack(a, s, b), UNCHANGED serviceVars
  PROVE  Kept
<1>1. worker[a].pc = "falling" /\ worker[a].pc \in WorkerSteps \ Holding
      /\ worker[a].runtime \in Runtime /\ worker[a].decoder = "off"
  BY DEF FallBack, Attended, WorkerSound, Holding, WorkerSteps, Decoding, WaitLoop
<1>2. worker[a] \in WorkerRecord /\ worker \in [Activity -> WorkerRecord]
  BY DEF Attended, RunTypeOK, ProcessTypeOK
<1>3. Call({})
  BY <1>1, FallbackCall DEF FallBack
<1>4. worker'[a] = [worker[a] EXCEPT !.pc = "counting", !.target = b]
      /\ \A c \in Activity \ {a} : worker'[c] = worker[c]
  BY <1>2 DEF FallBack
<1>5. /\ worker'[a] \in WorkerRecord /\ worker'[a].pc = "counting"
      /\ worker'[a].target = b /\ worker'[a].runtime \in Runtime /\ worker'[a].decoder = "off"
  BY <1>1, <1>2, <1>4 DEF WorkerRecord, WorkerSteps
<1>6. worker' \in [Activity -> WorkerRecord]
  BY <1>2, <1>4, <1>5 DEF FallBack
<1>7. WorkerSound(a)' /\ worker'[a].pc \notin Holding
  BY <1>5 DEF WorkerSound, Holding
<1> QED
  BY <1>1, <1>3, <1>4, <1>6, <1>7, ChoosingMove DEF FallBack

\* The target's launches are counted.
LEMMA CountLaunchesKeeps ==
  ASSUME Attended, NEW a \in Activity, CountLaunches(a), UNCHANGED serviceVars
  PROVE  Kept
<1>1. worker[a].pc = "counting" /\ worker[a].pc \in WorkerSteps \ Holding
      /\ worker[a].runtime \in Runtime /\ worker[a].target \in Activity
      /\ worker[a].decoder = "off"
  BY DEF CountLaunches, Attended, WorkerSound, Holding, WorkerSteps, Decoding, WaitLoop
<1>2. worker[a] \in WorkerRecord /\ worker \in [Activity -> WorkerRecord]
  BY DEF Attended, RunTypeOK, ProcessTypeOK
<1>3. PICK o \in NextOrdinals(worker[a].target) :
        worker' = [worker EXCEPT ![a].pc = "building", ![a].ordinal = o]
  BY DEF CountLaunches
<1>4. o \in Nat
  BY <1>1, OrdinalsType DEF Attended, Foundation
<1>5. worker'[a] = [worker[a] EXCEPT !.pc = "building", !.ordinal = o]
      /\ \A b \in Activity \ {a} : worker'[b] = worker[b]
  BY <1>2, <1>3
<1>6. /\ worker'[a] \in WorkerRecord /\ worker'[a].pc = "building"
      /\ worker'[a].target \in Activity /\ worker'[a].runtime \in Runtime
      /\ worker'[a].decoder = "off"
  BY <1>1, <1>2, <1>4, <1>5 DEF WorkerRecord, WorkerSteps
<1>7. worker' \in [Activity -> WorkerRecord]
  BY <1>2, <1>3, <1>5, <1>6
<1>8. WorkerSound(a)' /\ worker'[a].pc \notin Holding
  BY <1>6 DEF WorkerSound, Holding
<1>9. Call({})
  BY CoreKept DEF CountLaunches, Call
<1> QED
  BY <1>1, <1>5, <1>7, <1>8, <1>9, ChoosingMove DEF CountLaunches

\* A refused launch ends the worker.
LEMMA LaunchRefusedKeeps ==
  ASSUME Attended, NEW a \in Activity, NEW kind, LaunchRefused(a, kind), UNCHANGED serviceVars
  PROVE  Kept
  BY CoreKept, WorkerFinishes DEF LaunchRefused

\* A launch gives the worker an Attempt that nobody has and no process is of.
LEMMA PrepareLaunchKeeps ==
  ASSUME Attended, NEW a \in Activity, NEW kind \in {"prepare", "prelaunch"},
         NEW t \in Attempt, PrepareLaunch(a, kind, t), UNCHANGED serviceVars
  PROVE  Kept
<1> DEFINE target == worker[a].target
           step == IF kind = "prepare" THEN "prepared" ELSE "failing"
<1>1. /\ worker[a].pc = "building" /\ target \in Activity
      /\ worker[a].runtime \in Runtime /\ worker[a].decoder = "off"
  BY DEF PrepareLaunch, Attended, WorkerSound, Decoding, WaitLoop
<1>2. worker[a] \in WorkerRecord /\ worker \in [Activity -> WorkerRecord]
  BY DEF Attended, RunTypeOK, ProcessTypeOK
<1>3. PrepareAttempt(target, worker[a].runtime, t)
  BY DEF PrepareLaunch
<1>4. Call({})
  BY <1>1, <1>3, LaunchCall
<1>5. Foundation' /\ IdentitiesKept
  BY <1>4, StepKeepsFoundation DEF Call, Attended
<1>6. attempts[t] = None /\ attempts'[t] # None /\ Known(target)
  <2>1. TypeOK
    BY DEF Attended, Foundation
  <2>2. attempts[t] = None /\ attempts'[t] # None
    BY <1>1, <1>3, <2>1, PrepareAttemptEffect
  <2> QED
    BY <1>3, <2>2 DEF PrepareAttempt
<1>7. process[t] = "none" /\ process' = process /\ adopter' = adopter
  BY <1>6 DEF Attended, ProcessSound, PrepareLaunch
<1>8. worker'[a] = [worker[a] EXCEPT !.attempt = t, !.pc = step]
      /\ \A b \in Activity \ {a} : worker'[b] = worker[b]
  BY <1>2 DEF PrepareLaunch
<1>9. /\ worker'[a] \in WorkerRecord /\ worker'[a].pc = step /\ worker'[a].attempt = t
      /\ worker'[a].target = target /\ worker'[a].decoder = "off"
  <2>1. step \in WorkerSteps /\ t \in OrNone(Attempt)
    BY DEF WorkerSteps, OrNone
  <2>2. worker'[a] = [worker[a] EXCEPT !.attempt = t, !.pc = step]
    BY <1>8
  <2>3. worker'[a] \in WorkerRecord
    BY <1>2, <2>1, <2>2 DEF WorkerRecord
  <2> HIDE DEF step
  <2>4. /\ worker'[a].pc = step /\ worker'[a].attempt = t
        /\ worker'[a].target = target /\ worker'[a].decoder = worker[a].decoder
    BY <1>2, <2>2 DEF WorkerRecord
  <2> QED
    BY <1>1, <2>3, <2>4
<1>10. worker' \in [Activity -> WorkerRecord]
  BY <1>2, <1>8, <1>9 DEF PrepareLaunch
<1>11. launchKeys' \subseteq Activity \X Nat \X {"prepare", "prelaunch"}
  <2>1. worker[a].ordinal \in Nat
    BY <1>2 DEF WorkerRecord
  <2>2. LaunchKey(a, kind) \in Activity \X Nat \X {"prepare", "prelaunch"}
    BY <1>1, <2>1 DEF LaunchKey
  <2> QED
    BY <2>2 DEF PrepareLaunch, Attended, RunTypeOK, ProcessTypeOK
<1>12. RunTypeOK'
  BY <1>5, <1>7, <1>10, <1>11
     DEF Attended, RunTypeOK, ProcessTypeOK, Foundation, serviceVars, PrepareLaunch
<1>13. WorkerSound(a)'
  BY <1>5, <1>6, <1>7, <1>9, <1>1
     DEF WorkerSound, IdentitiesKept, Known, ProcessesAt, Holding, WorkerSteps
<1>14. ASSUME NEW b \in Activity PROVE WorkerSound(b)'
  <2>1. worker[b].pc \in WorkerSteps
    BY DEF Attended, RunTypeOK, ProcessTypeOK, WorkerRecord
  <2>2. worker[b].pc \in Holding => Stopped(worker[b].attempt)
    BY <1>7 DEF Stopped
  <2> QED
    BY <1>4, <1>5, <1>8, <1>13, <2>1, <2>2, WorkerKept DEF Attended, Call
<1>15. WorkersApart'
  <2>1. \A b \in Activity \ {a} : worker[b].pc \in Holding => worker[b].attempt # t
    BY <1>6 DEF Attended, WorkerSound
  <2>2. ASSUME NEW b \in Activity, NEW c \in Activity, worker'[b].pc \in Holding,
               worker'[c].pc \in Holding, worker'[b].attempt = worker'[c].attempt
        PROVE  b = c
    <3>1. \A d \in Activity : d # a /\ worker'[d].pc \in Holding => worker'[d].attempt # t
      BY <1>8, <2>1
    <3>2. CASE b = a
      BY <1>9, <2>2, <3>1, <3>2
    <3>3. CASE c = a
      BY <1>9, <2>2, <3>1, <3>3
    <3>4. CASE b # a /\ c # a
      BY <1>8, <2>2, <3>4 DEF Attended, WorkersApart
    <3> QED
      BY <3>2, <3>3, <3>4
  <2> QED
    BY <2>2 DEF WorkersApart
<1>16. ASSUME NEW u \in Attempt PROVE ProcessSound(u)' /\ AdopterSound(u)'
  <2>1. Stopped(u) /\ EndedStays
    BY <1>7, ProcessesLeft
  <2> QED
    BY <1>4, <1>7, <2>1, ProcessKept, AdopterKept DEF Attended, Call
<1>17. (\A c \in Control : ControlSound(c))'
  BY <1>4, <1>7, ProcessesLeft, AppliedStaysStopped DEF Attended, Call
<1> QED
  BY <1>4, <1>5, <1>12, <1>14, <1>15, <1>16, <1>17 DEF Kept, Attended, Call

\* Every step of a worker, or of its decoder, keeps the invariant.
LEMMA WorkersKeep ==
  ASSUME Attended, NEW a \in Activity, WorkerStep(a) \/ DecoderStep(a)
  PROVE  Kept
  BY SelectRuntimeKeeps, FallBackKeeps, CountLaunchesKeeps, LaunchRefusedKeeps,
     PrepareLaunchKeeps, SpawnFailsKeeps, SpawnKeeps, RecordSpawnKeeps, ReleaseKeeps,
     ReleaseFailsKeeps, RecordFailedStartKeeps, RecordFailedExitKeeps, ProcessWaitedKeeps,
     DecoderDoneKeeps, DecoderFailsKeeps, PollControlKeeps, ApplyStopKeeps, DeadlinePassesKeeps,
     RequestDeadlineStopKeeps, RecordLateKeeps, StopLateKeeps, RecordEndKeeps, SettleKeeps,
     DecodeKeeps
  DEF WorkerStep, DecoderStep

-----------------------------------------------------------------------------
(* Steps of everybody else: workers stay where they are. *)

\* Nobody's Attempt is ended but one that no harness runs for and no worker is
\* about to release.
LEMMA EnvironmentKeeps ==
  ASSUME Attended, NEW E \in SUBSET Attempt, Call(E), worker' = worker,
         TypeOK' => RunTypeOK',
         \A t \in Attempt : Stopped(t),
         \A t \in E : Spawned(t) => process[t] \notin {"gated", "running"},
         \A t \in Attempt : AdopterSound(t)'
  PROVE  Kept
<1>1. Foundation' /\ IdentitiesKept /\ Grows(E) /\ AppliedKept
  BY StepKeepsFoundation DEF Call, Attended
<1>2. ASSUME NEW a \in Activity PROVE WorkerSound(a)'
  <2>1. worker[a].pc \in WorkerSteps /\ (worker[a].pc \in Holding => worker[a].attempt \in Attempt)
    BY DEF Attended, RunTypeOK, ProcessTypeOK, WorkerRecord, WorkerSound
  <2>2. worker[a].pc = "releasing" /\ process[worker[a].attempt] = "gated"
          => worker[a].attempt \notin E
    BY DEF Attended, WorkerSound
  <2> QED
    BY <1>1, <2>1, <2>2, WorkerKept DEF Attended
<1>3. ASSUME NEW t \in Attempt PROVE ProcessSound(t)'
  <2>1. process[t] = "running" => t \notin E
    BY DEF Attended, ProcessSound
  <2> QED
    BY <1>1, <2>1, ProcessKept DEF Attended
<1>4. WorkersApart'
  BY DEF Attended, WorkersApart
<1>5. (\A c \in Control : ControlSound(c))'
  BY <1>1, StoppedStays, AppliedStaysStopped DEF Attended
<1> QED
  BY <1>1, <1>2, <1>3, <1>4, <1>5 DEF Kept, Attended, Call, Foundation

\* A command that touches no goroutine and no process.
LEMMA CommandKeeps ==
  ASSUME Attended, NEW E \in SUBSET Attempt, Call(E), UNCHANGED processVars,
         \A t \in E : Spawned(t) => process[t] \notin {"gated", "running"},
         TypeOK' => RunTypeOK'
  PROVE  Kept
<1>1. UNCHANGED <<worker, adopter, process>>
  BY DEF processVars
<1>2. \A t \in Attempt : Stopped(t) /\ AdopterSound(t)'
  BY <1>1, ProcessesLeft, AdopterKept DEF Attended
<1> QED
  BY <1>1, <1>2, EnvironmentKeeps

\* What the service keeps to itself does not move.
LEMMA FramesTyped ==
  ASSUME Attended, UNCHANGED <<processVars, serviceVars>>
  PROVE  TypeOK' => RunTypeOK'
  BY DEF Attended, RunTypeOK, ProcessTypeOK, processVars, serviceVars

\* Whatever people ask for, no Attempt ends by it and no control is applied.
LEMMA UserCommandsKeep ==
  ASSUME Attended, UserCommands
  PROVE  Kept
<1>1. TypeOK
  BY DEF Attended, Foundation
<1>2. ASSUME NEW w \in Workflow, NEW p \in Profiles, NEW n \in Node, NEW k \in Works,
             NEW s \in Session, NEW x \in OrNone(NativeId), NEW a \in Activity,
             StartExecution(w, p, n, k, s, x, a)
      PROVE  Call({})
  <2>1. WorkCommands
    BY <1>2 DEF WorkCommands
  <2>2. attempts' = attempts /\ controls' = controls
    BY <1>2 DEF StartExecution
  <2> QED
    BY <2>1, <2>2, StillGrows, ControlsKept DEF Call, Next
<1>3. ASSUME NEW p \in Activity, NEW a \in Activity, ContinueSession(p, a)
      PROVE  Call({})
  <2>1. WorkCommands
    BY <1>3 DEF WorkCommands
  <2>2. attempts' = attempts /\ controls' = controls
    BY <1>3 DEF ContinueSession
  <2> QED
    BY <2>1, <2>2, StillGrows, ControlsKept DEF Call, Next
<1>4. ASSUME NEW w \in Workflow, PauseWorkflow(w)
      PROVE  Call({})
  BY <1>1, <1>4, StillGrows, PauseKeepsApplied DEF Call, PauseWorkflow, Next, ControlCommands
<1>5. Call({})
  BY <1>2, <1>3, <1>4, RequestCall DEF UserCommands
<1> QED
  BY <1>5, CommandKeeps, FramesTyped DEF UserCommands

\* A harness prints a line, ends or is killed.
LEMMA HarnessStepsKeep ==
  ASSUME Attended, HarnessSteps
  PROVE  Kept
<1>1. /\ worker' = worker /\ adopter' = adopter /\ launchKeys' = launchKeys
      /\ UNCHANGED vars /\ UNCHANGED serviceVars
  BY DEF HarnessSteps, HarnessPrints, HarnessEnds, ProcessLost
<1>2. Call({})
  BY <1>1, CoreKept DEF Call
<1>3. process \in [Attempt -> ProcessStates]
  BY DEF Attended, RunTypeOK, ProcessTypeOK, ProcessStates
<1>4. ASSUME process' \in [Attempt -> ProcessStates], \A t \in Attempt : Stopped(t),
             stdout' \in [Attempt -> UNION {[1 .. n -> Line] : n \in 0 .. MaxLines}]
      PROVE  Kept
  <2>1. TypeOK' => RunTypeOK'
    BY <1>1, <1>4 DEF Attended, RunTypeOK, ProcessTypeOK, ProcessStates, serviceVars
  <2>2. \A t \in Attempt : AdopterSound(t)'
    BY <1>1, <1>4, StoppedStays, AdopterKept DEF Attended
  <2> QED
    BY <1>1, <1>2, <1>4, <2>1, <2>2, EnvironmentKeeps
<1>5. ASSUME NEW t \in Attempt, NEW line \in Line, HarnessPrints(t, line)
      PROVE  Kept
  <2>0. stdout[t] \in UNION {[1 .. n -> Line] : n \in 0 .. MaxLines}
    BY DEF Attended, RunTypeOK, ProcessTypeOK
  <2>1. PICK n \in 0 .. MaxLines : stdout[t] \in [1 .. n -> Line]
    BY <2>0
  <2>2. Len(stdout[t]) = n /\ n + 1 \in 0 .. MaxLines
    BY <1>5, <2>1, MaxLinesAssumption DEF HarnessPrints
  <2>3. Append(stdout[t], line) \in [1 .. n + 1 -> Line]
    <3>1. stdout[t] \in Seq(Line)
      BY <2>1
    <3>2. Append(stdout[t], line) \in Seq(Line) /\ Len(Append(stdout[t], line)) = n + 1
      BY <2>2, <3>1
    <3> QED
      BY <2>2, <3>2, LenProperties
  <2>4. stdout' \in [Attempt -> UNION {[1 .. m -> Line] : m \in 0 .. MaxLines}]
    BY <1>5, <2>2, <2>3 DEF HarnessPrints, Attended, RunTypeOK, ProcessTypeOK
  <2> QED
    BY <1>3, <1>4, <1>5, <2>4, ProcessesLeft DEF HarnessPrints
<1>6. stdout' = stdout =>
        stdout' \in [Attempt -> UNION {[1 .. m -> Line] : m \in 0 .. MaxLines}]
  BY DEF Attended, RunTypeOK, ProcessTypeOK
<1>7. ASSUME NEW t \in Attempt, NEW how \in Ending, HarnessEnds(t, how)
      PROVE  Kept
  <2>1. how \in Ended /\ process[t] = "running" /\ process' = [process EXCEPT ![t] = how]
    BY <1>7 DEF HarnessEnds, Ended
  <2>2. process' \in [Attempt -> ProcessStates] /\ \A u \in Attempt : Stopped(u)
    BY <1>3, <2>1 DEF ProcessStates, Stopped
  <2> QED
    BY <1>4, <1>6, <1>7, <2>2 DEF HarnessEnds
<1>8. ASSUME NEW t \in Attempt, ProcessLost(t)
      PROVE  Kept
  BY <1>4, <1>6, <1>8, KilledEffect DEF ProcessLost
<1> QED
  BY <1>5, <1>7, <1>8 DEF HarnessSteps

\* A service starts.
LEMMA StartServiceKeeps ==
  ASSUME Attended, StartService
  PROVE  Kept
<1>1. TypeOK' => RunTypeOK'
  BY DEF StartService, Attended, RunTypeOK, ProcessTypeOK, processVars
<1> QED
  BY <1>1, CoreKept, CommandKeeps DEF StartService, Call

\* An inspection remembers what it found.
LEMMA InspectKeeps ==
  ASSUME Attended, Inspect
  PROVE  Kept
<1>1. inspection' \in [dead : SUBSET Attempt, unspawned : SUBSET Attempt]
  BY DEF Inspect, DeadAttempts
<1>2. TypeOK' => RunTypeOK'
  BY <1>1 DEF Inspect, Attended, RunTypeOK, ProcessTypeOK, processVars
<1> QED
  BY <1>2, CoreKept, CommandKeeps DEF Inspect, Call

\* A reconciliation ends Attempts whose process it looked at again and found gone.
LEMMA ReconcileKeeps ==
  ASSUME Attended, Reconcile
  PROVE  Kept
<1>1. inspection.dead \in SUBSET Attempt
  BY DEF Reconcile, Attended, RunTypeOK
<1>2. TypeOK' => RunTypeOK'
  BY DEF Reconcile, AfterReconcile, Attended, RunTypeOK, ProcessTypeOK, processVars
<1>3. CASE StillDead /\ ReconcileStartup(inspection.dead)
  <2>1. Grows(inspection.dead)
    BY <1>1, <1>3, ReconcileGrows DEF Attended, Foundation
  <2>2. controls' = controls /\ Next
    BY <1>1, <1>3 DEF ReconcileStartup, Next, AttemptCommands
  <2>3. Call(inspection.dead)
    BY <2>1, <2>2, ControlsKept DEF Call
  <2>4. \A t \in inspection.dead : Spawned(t) => process[t] \notin {"gated", "running"}
    BY <1>3 DEF StillDead, ExactProcess
  <2> QED
    BY <1>1, <1>2, <2>3, <2>4, CommandKeeps DEF Reconcile
<1>4. CASE UNCHANGED vars
  BY <1>2, <1>4, CoreKept, CommandKeeps DEF Reconcile, Call
<1> QED
  BY <1>3, <1>4 DEF Reconcile

\* An inherited process is watched.
LEMMA AdoptKeeps ==
  ASSUME Attended, Adopt
  PROVE  Kept
<1>1. Call({}) /\ worker' = worker /\ process' = process
  BY CoreKept DEF Adopt, Call
<1>2. \A t \in Attempt : adopter'[t] \in {"watching", adopter[t]}
  BY DEF Adopt
<1>3. adopter' \in [Attempt -> AdopterSteps]
  BY DEF Adopt, AdopterSteps, Attended, RunTypeOK, ProcessTypeOK
<1>4. TypeOK' => RunTypeOK'
  BY <1>3 DEF Adopt, Attended, RunTypeOK, ProcessTypeOK
<1>5. \A t \in Attempt : AdopterSound(t)'
  BY <1>1, <1>2 DEF AdopterSound, Attended
<1> QED
  BY <1>1, <1>4, <1>5, ProcessesLeft, EnvironmentKeeps

\* A run of the loop looks, passes over a Task or returns, and time passes.
LEMMA LoopKeeps ==
  ASSUME Attended, UNCHANGED <<vars, processVars, serviceVars>>
  PROVE  Kept
  BY CoreKept, FramesTyped, CommandKeeps DEF Call

\* A listed turn is handed to the evaluator, a listed Activity gets a worker.
LEMMA TakeKeeps ==
  ASSUME Attended, LoopSound, Take
  PROVE  Kept
<1>1. PICK i \in walk : /\ ~Waits(i)
                        /\ IF i[1] = "decide"
                           THEN deciding' = deciding \cup {i[2]} /\ UNCHANGED worker
                           ELSE To(i[2], "selecting") /\ UNCHANGED deciding
  BY DEF Take, Heads
<1>2. i[2] \in Activity /\ Known(i[2])
  BY DEF LoopSound, LoopTypeOK, Task
<1>3. Call({}) /\ activities' = activities
  BY CoreKept DEF Take, Call, vars
<1>4. CASE i[1] = "decide"
  <2>1. UNCHANGED processVars
    BY <1>1, <1>4 DEF Take, processVars
  <2>2. RunTypeOK'
    BY <1>1, <1>2, <1>4 DEF Take, Attended, RunTypeOK, ProcessTypeOK, TypeOK, vars
  <2> QED
    BY <1>3, <2>1, <2>2, CommandKeeps
<1>5. CASE i[1] # "decide"
  <2> DEFINE a == i[2]
  <2>1. worker[a].pc = "idle" /\ worker[a].pc \in WorkerSteps \ Holding /\ worker[a].decoder = "off"
    BY <1>1, <1>2, <1>5 DEF Waits, InHand, Busy, Attended, WorkerSound, Holding, WorkerSteps,
                           Decoding, WaitLoop
  <2>2. Moves(a, {"selecting"})
    BY <1>1, <1>2, <1>5, ToMoves DEF WorkerSteps
  <2>3. WorkerSound(a)' /\ worker'[a].pc \notin Holding
    BY <1>2, <1>3, <2>1, <2>2 DEF WorkerSound, Moves, Known, Holding
  <2>4. UNCHANGED <<adopter, process, stdout, launchKeys, serviceVars>>
    BY <1>1, <1>5 DEF Take, serviceVars
  <2> QED
    BY <1>2, <1>3, <2>1, <2>2, <2>3, <2>4, ChoosingMove DEF Moves
<1> QED
  BY <1>4, <1>5

\* An Activity falls due.
LEMMA WakeKeeps ==
  ASSUME Attended, NEW a \in Activity, Wake(a)
  PROVE  Kept
<1>1. Call({})
  BY StillGrows, ControlsKept DEF Wake, WakeTimeReached, Call, Next, WorkCommands
<1> QED
  BY <1>1, CommandKeeps, FramesTyped DEF Wake

\* Its decision ends no Attempt and applies no control.
LEMMA EndDecisionKeeps ==
  ASSUME Attended, NEW a \in Activity, EndDecision(a)
  PROVE  Kept
<1>1. TypeOK' => RunTypeOK'
  BY DEF EndDecision, Attended, RunTypeOK, ProcessTypeOK, processVars
<1>2. ASSUME NEW t \in Attempt, NEW status \in {"completed", "needs_human"},
             DecideStop(a, t, status)
      PROVE  Call({})
  BY <1>2, StillGrows, ControlsKept DEF Call, DecideStop, Next, DecisionCommands
<1>3. ASSUME NEW t \in Attempt, NEW b \in Activity, DecideContinue(a, t, b)
      PROVE  Call({})
  BY <1>3, StillGrows, ControlsKept DEF Call, DecideContinue, Next, DecisionCommands
<1>4. Call({})
  BY <1>2, <1>3, CoreKept DEF EndDecision, Call
<1> QED
  BY <1>1, <1>4, CommandKeeps DEF EndDecision

-----------------------------------------------------------------------------
(* Steps of an adopter. *)

\* An adopter that is past watching has seen its process end: it may call as long
\* as it ends no other Attempt.
LEMMA AdopterCalls ==
  ASSUME Attended, NEW t \in Attempt, adopter[t] \notin {"none", "watching"},
         NEW E \in SUBSET {t}, Call(E), NEW step \in AdopterSteps, AdopterTo(t, step),
         UNCHANGED <<worker, process, stdout, launchKeys, serviceVars>>
  PROVE  Kept
<1>1. process[t] \in Ended
  BY DEF Attended, AdopterSound
<1>2. adopter' \in [Attempt -> AdopterSteps]
      /\ \A u \in Attempt : u # t => adopter'[u] = adopter[u]
  BY DEF AdopterTo, Attended, RunTypeOK, ProcessTypeOK
<1>3. TypeOK' => RunTypeOK'
  BY <1>2 DEF Attended, RunTypeOK, ProcessTypeOK, serviceVars
<1>4. \A u \in Attempt : AdopterSound(u)'
  BY <1>1, <1>2 DEF AdopterSound, Attended
<1>5. \A u \in E : process[u] \notin {"gated", "running"}
  BY <1>1, EndedApart
<1>6. E \in SUBSET Attempt
  OBVIOUS
<1> QED
  BY <1>3, <1>4, <1>5, <1>6, ProcessesLeft, EnvironmentKeeps

\* A recovered milestone is one call, or none.
LEMMA RecoveryKeeps ==
  ASSUME Attended, NEW t \in Attempt, adopter[t] \notin {"none", "watching"},
         NEW missing, NEW line, RecordLine(t, line) => Call({}),
         NEW next \in AdopterSteps, Recovers(t, missing, line, next),
         UNCHANGED <<worker, process, stdout, launchKeys, serviceVars>>
  PROVE  Kept
<1>1. "none" \in AdopterSteps /\ "failed" \in AdopterSteps
  BY DEF AdopterSteps
<1>2. PICK step \in AdopterSteps : AdopterTo(t, step)
  BY <1>1 DEF Recovers
<1>3. Call({})
  BY CoreKept DEF Recovers, Call
<1> QED
  BY <1>2, <1>3, AdopterCalls

\* Every step of an adopter.
LEMMA AdoptersKeep ==
  ASSUME Attended, NEW t \in Attempt, AdopterStep(t)
  PROVE  Kept
<1> USE DEF AdopterSteps
<1>0. UNCHANGED serviceVars
  BY DEF AdopterStep
<1>1. CASE AdopterStops(t)
  <2>1. PICK step \in {"applying", "watching"} : AdopterTo(t, step)
    BY <1>1 DEF AdopterStops
  <2>2. Call({}) /\ worker' = worker /\ process' = Killed(t)
    BY <1>1, CoreKept DEF AdopterStops, Call
  <2>3. process[t] = "running" /\ process'[t] \in Ended
    BY <1>1, <2>2, KilledEffect DEF AdopterStops
  <2>4. adopter' \in [Attempt -> AdopterSteps]
        /\ \A u \in Attempt : u # t => adopter'[u] = adopter[u]
    BY <2>1 DEF AdopterTo, Attended, RunTypeOK, ProcessTypeOK
  <2>5. process' \in [Attempt -> ProcessStates] /\ EndedStays /\ \A u \in Attempt : Stopped(u)
    BY <2>2, KilledEffect
  <2>6. TypeOK' => RunTypeOK'
    BY <1>0, <1>1, <2>4, <2>5
       DEF AdopterStops, Attended, RunTypeOK, ProcessTypeOK, ProcessStates, serviceVars
  <2>7. \A u \in Attempt : AdopterSound(u)'
    BY <2>3, <2>4, <2>5 DEF AdopterSound, Attended, EndedStays
  <2> QED
    BY <2>2, <2>5, <2>6, <2>7, EnvironmentKeeps
<1>2. CASE AdopterApplies(t)
  <2>1. adopter[t] \notin {"none", "watching"} /\ AdopterTo(t, "watching")
    BY <1>2 DEF AdopterApplies
  <2>2. process[t] \in Ended
    BY <2>1 DEF Attended, AdopterSound
  <2>3. Call({})
    BY <1>2, <2>2, ApplyCall DEF AdopterApplies
  <2> QED
    BY <1>0, <1>2, <2>1, <2>3, AdopterCalls DEF AdopterApplies
<1>3. CASE AdopterReads(t)
  <2>1. PICK step \in {"none", "exiting", "binding"} : AdopterTo(t, step)
    BY <1>3 DEF AdopterReads
  <2>2. Call({}) /\ UNCHANGED <<worker, process, stdout, launchKeys>> /\ process[t] \in Ended
    BY <1>3, CoreKept DEF AdopterReads, Call
  <2>3. adopter' \in [Attempt -> AdopterSteps]
        /\ \A u \in Attempt : u # t => adopter'[u] = adopter[u]
    BY <2>1 DEF AdopterTo, Attended, RunTypeOK, ProcessTypeOK
  <2>4. TypeOK' => RunTypeOK'
    BY <1>0, <2>2, <2>3 DEF Attended, RunTypeOK, ProcessTypeOK, serviceVars
  <2>5. \A u \in Attempt : AdopterSound(u)'
    BY <2>2, <2>3 DEF AdopterSound, Attended
  <2> QED
    BY <2>2, <2>4, <2>5, ProcessesLeft, EnvironmentKeeps
<1>4. CASE AdopterBinds(t)
  <2>1. RecordLine(t, "bound") => Call({})
    BY LineCall
  <2> QED
    BY <1>0, <1>4, <2>1, RecoveryKeeps DEF AdopterBinds
<1>5. CASE AdopterTurns(t)
  <2>1. RecordLine(t, "turn") => Call({})
    BY LineCall
  <2> QED
    BY <1>0, <1>5, <2>1, RecoveryKeeps DEF AdopterTurns
<1>6. CASE AdopterAnswers(t)
  <2> DEFINE missing == "result" \notin attempts[t].milestones /\ Printed(t, WorkerStatus)
             line == IF missing THEN LastStatus(t) ELSE "turn"
  <2>1. RecordLine(t, line) => Call({})
    BY LineCall
  <2>2. Recovers(t, missing, line, "exiting")
    BY <1>6 DEF AdopterAnswers
  <2> HIDE DEF missing, line
  <2> QED
    BY <1>0, <1>6, <2>1, <2>2, RecoveryKeeps DEF AdopterAnswers
<1>7. CASE AdopterExits(t)
  <2>1. adopter[t] \notin {"none", "watching"}
    BY <1>7 DEF AdopterExits
  <2>2. PICK step \in {"none", "failed"} : AdopterTo(t, step)
    BY <1>7 DEF AdopterExits
  <2>3. Call({}) \/ Call({t})
    BY <1>7, CoreKept, ExitCall DEF AdopterExits, Call
  <2> QED
    BY <1>0, <1>7, <2>1, <2>2, <2>3, AdopterCalls DEF AdopterExits
<1> QED
  BY <1>1, <1>2, <1>3, <1>4, <1>5, <1>6, <1>7 DEF AdopterStep

-----------------------------------------------------------------------------
(* The service as a whole. *)

\* A service that dies takes its goroutines and its gated processes with it, and
\* nothing else.
LEMMA CrashKeeps ==
  ASSUME Attended, Crash
  PROVE  Kept
<1>1. Idle \in WorkerRecord /\ Idle.pc = "idle" /\ Idle.decoder = "off"
  BY MaxLinesAssumption DEF Idle, WorkerRecord, WorkerSteps
<1>2. \A a \in Activity : worker'[a] = Idle
  BY DEF Crash
<1>3. Call({}) /\ [Next]_vars /\ Grows({}) /\ AppliedKept
  BY CoreKept DEF Crash, Call
<1>4. Foundation'
  BY <1>3, StepKeepsFoundation DEF Attended
<1>5. process \in [Attempt -> ProcessStates]
  BY DEF Attended, RunTypeOK, ProcessTypeOK, ProcessStates
<1>6. /\ process' \in [Attempt -> ProcessStates]
      /\ \A t \in Attempt : Stopped(t)
  BY <1>5 DEF Crash, ProcessStates, Stopped, Ended
<1>7. RunTypeOK'
  <2>1. worker' \in [Activity -> WorkerRecord] /\ adopter' \in [Attempt -> AdopterSteps]
    BY <1>1 DEF Crash, AdopterSteps
  <2>2. crashes' \in 0 .. MaxCrashes
    BY WorkersAssumption DEF Crash, Attended, RunTypeOK
  <2> QED
    BY <1>4, <1>6, <2>1, <2>2
       DEF Crash, Attended, RunTypeOK, ProcessTypeOK, ProcessStates, Foundation
<1>8. \A a \in Activity : WorkerSound(a)'
  BY <1>1, <1>2 DEF WorkerSound, Holding
<1>9. WorkersApart'
  BY <1>1, <1>2 DEF WorkersApart, Holding
<1>10. \A t \in Attempt : ProcessSound(t)'
  BY <1>3, <1>6, ProcessKept DEF Attended
<1>11. \A t \in Attempt : AdopterSound(t)'
  BY DEF Crash, AdopterSound
<1>12. (\A c \in Control : ControlSound(c))'
  BY <1>3, <1>6, StoppedStays, AppliedStaysStopped DEF Attended
<1> QED
  BY <1>3, <1>4, <1>7, <1>8, <1>9, <1>10, <1>11, <1>12 DEF Kept, Attended

\* Before the first service nothing was launched.
LEMMA InitAttended == ServiceInit => Attended
<1> SUFFICES ASSUME ServiceInit PROVE Attended
  OBVIOUS
<1>1. Idle \in WorkerRecord /\ Idle.pc = "idle" /\ Idle.decoder = "off"
  BY MaxLinesAssumption DEF Idle, WorkerRecord, WorkerSteps
<1>2. Foundation
  BY InitFoundation DEF ServiceInit
<1>3. /\ \A a \in Activity : worker[a] = Idle
      /\ \A t \in Attempt : adopter[t] = "none" /\ process[t] = "none" /\ attempts[t] = None
      /\ \A c \in Control : controls[c] = None
  BY DEF ServiceInit, ProcessInit, Init
<1>4. ProcessTypeOK
  <2>1. <<>> \in UNION {[1 .. n -> Line] : n \in 0 .. MaxLines}
    <3>1. 0 \in 0 .. MaxLines
      BY MaxLinesAssumption
    <3>2. <<>> \in [1 .. 0 -> Line]
      OBVIOUS
    <3> QED
      BY <3>1, <3>2
  <2> QED
    BY <1>1, <2>1 DEF ServiceInit, ProcessInit, ProcessTypeOK, AdopterSteps
<1>5. RunTypeOK
  BY <1>2, <1>4, WorkersAssumption DEF ServiceInit, RunTypeOK, Foundation
<1>6. \A a \in Activity : WorkerSound(a)
  BY <1>1, <1>3 DEF WorkerSound, Holding
<1>7. WorkersApart
  BY <1>1, <1>3 DEF WorkersApart, Holding
<1>8. \A t \in Attempt : ProcessSound(t) /\ AdopterSound(t)
  BY <1>3 DEF ProcessSound, AdopterSound
<1>9. \A c \in Control : ControlSound(c)
  BY <1>3 DEF ControlSound
<1> QED
  BY <1>2, <1>5, <1>6, <1>7, <1>8, <1>9 DEF Attended

\* Nothing happens in a stuttering step.
LEMMA StutterKeeps ==
  ASSUME Attended, UNCHANGED allVars
  PROVE  Kept
  BY LoopKeeps DEF allVars

\* Every step of the whole keeps the invariant and is a command of the core.
LEMMA StepKeeps ==
  ASSUME Attended, LoopSound, [ServiceNext]_allVars
  PROVE  Kept
<1>1. CASE Look \/ Skip \/ PoolFull \/ DelayPasses
  BY <1>1, LoopKeeps DEF Look, Skip, PoolFull, DelayPasses
<1>2. CASE ~(Look \/ Skip \/ PoolFull \/ DelayPasses)
  BY <1>2, UserCommandsKeep, HarnessStepsKeep, StartServiceKeeps, CrashKeeps, InspectKeeps,
     ReconcileKeeps, AdoptKeeps, TakeKeeps, WakeKeeps, EndDecisionKeeps, WorkersKeep,
     AdoptersKeep, StutterKeeps
  DEF ServiceNext
<1> QED
  BY <1>1, <1>2

\* What a run lists are Activities that exist.
LEMMA ListedKnown ==
  /\ Listed \subseteq Task
  /\ \A i \in Listed : Known(i[2])
<1>1. \A w \in Workflow : \A a \in PendingTurns(w) \cup Queue(w) : a \in Activity /\ Known(a)
  BY DEF PendingTurns, Queue, ActivitiesOf
<1> QED
  BY <1>1 DEF Listed, Task

\* The loop comes to nothing else.
LEMMA LoopStaysSound ==
  ASSUME LoopSound, IdentitiesKept, [ServiceNext]_allVars
  PROVE  LoopSound'
<1>1. ASSUME walk' \subseteq walk, delayed' \subseteq Task, fresh' \subseteq delayed'
      PROVE  LoopSound'
  BY <1>1 DEF LoopSound, LoopTypeOK, Task, IdentitiesKept, Known
<1>2. CASE UNCHANGED loopVars
  BY <1>1, <1>2 DEF LoopSound, LoopTypeOK, loopVars
<1>3. CASE Look
  BY <1>3, ListedKnown DEF Look, LoopSound, LoopTypeOK, Known, vars
<1>4. CASE Skip \/ Take \/ PoolFull
  BY <1>1, <1>4 DEF Skip, Take, PoolFull, LoopSound, LoopTypeOK
<1>5. CASE DelayPasses
  BY <1>1, <1>5 DEF DelayPasses, LoopSound, LoopTypeOK
<1>6. CASE Crash
  BY <1>1, <1>6 DEF Crash
<1>7. ASSUME NEW i \in Task, walk' = walk, Delay(i)
      PROVE  LoopSound'
  BY <1>1, <1>7 DEF Delay, LoopSound, LoopTypeOK
<1>8. ASSUME NEW a \in Activity, EndDecision(a) \/ WorkerStep(a)
      PROVE  LoopSound'
  <2>1. <<"decide", a>> \in Task /\ <<"launch", a>> \in Task
    BY DEF Task
  <2>2. walk' = walk
    BY <1>8 DEF EndDecision, WorkerStep
  <2>3. \/ UNCHANGED loopVars
        \/ Delay(<<"decide", a>>) \/ Delay(<<"launch", a>>)
    BY <1>8, <2>2 DEF EndDecision, WorkerStep, loopVars
  <2> QED
    BY <1>2, <1>7, <2>1, <2>2, <2>3
<1> QED
  BY <1>2, <1>3, <1>4, <1>5, <1>6, <1>8
  DEF ServiceNext, UserCommands, HarnessSteps, StartService, Inspect, Reconcile, Adopt, Wake,
      DecoderStep, AdopterStep, allVars

\* The invariant the theorems below are read off from.
LEMMA AttendedHolds == ServiceSafety => [](Attended /\ LoopSound)
<1>1. ServiceInit => LoopSound
  BY DEF ServiceInit, LoopSound, LoopTypeOK
<1>2. Attended /\ LoopSound /\ [ServiceNext]_allVars => Attended' /\ LoopSound'
  <2> SUFFICES ASSUME Attended, LoopSound, [ServiceNext]_allVars PROVE Attended' /\ LoopSound'
    OBVIOUS
  <2>1. [Next]_vars /\ Attended'
    BY StepKeeps DEF Kept
  <2>2. IdentitiesKept
    BY <2>1, StepKeepsFoundation DEF Attended
  <2> QED
    BY <2>1, <2>2, LoopStaysSound
<1> QED
  BY <1>1, <1>2, InitAttended, PTL DEF ServiceSafety

\* The whole implements the command core: whatever goroutines, adopters and dying
\* services do, in any order and for any number of them, the journal sees commands
\* the Supervisor accepts.  All that is proved of Spec holds of the service.
THEOREM ServiceRunsTheCore == ServiceSafety => Spec
<1>1. ServiceInit => Init
  BY DEF ServiceInit
<1>2. Attended /\ LoopSound /\ [ServiceNext]_allVars => [Next]_vars
  BY StepKeeps DEF Kept
<1> QED
  BY <1>1, <1>2, AttendedHolds, PTL DEF ServiceSafety, Spec

\* Every variable of the service keeps its type.
THEOREM ServiceTypeCorrect == ServiceSafety => []ServiceTypeOK
<1>1. Attended /\ LoopSound => ServiceTypeOK
  BY DEF Attended, LoopSound, ServiceTypeOK
<1> QED
  BY <1>1, AttendedHolds, PTL

\* A harness runs only for a recorded, unfinished Attempt that holds its
\* worktree's Lease, and alone there: spawn, record, release, adoption,
\* reconciliation and crashes in any order.
THEOREM HarnessesHoldTheirWorktree == ServiceSafety => []HarnessHoldsWorktree
<1>1. ASSUME Attended, WriterExclusion PROVE HarnessHoldsWorktree
  <2>1. ASSUME NEW t \in Attempt, process[t] = "running"
        PROVE  Live(t) /\ Spawned(t) /\ leases[t] # None /\ ~leases[t].released
    BY <1>1, <2>1 DEF Attended, ProcessSound, Foundation, LeaseTracksAttempt, Live
  <2> QED
    BY <1>1, <2>1 DEF HarnessHoldsWorktree, WriterExclusion
<1> QED
  BY <1>1, AttendedHolds, ServiceRunsTheCore, WritersExcluded, PTL

\* A control that is journaled as applied is of an Attempt whose process has ended,
\* for ever: its worker or adopter had stopped the process before.
THEOREM AppliedStopsStay == ServiceSafety => []AppliedMeansStopped
<1>1. Attended => AppliedMeansStopped
  BY DEF Attended, ControlSound, AppliedMeansStopped
<1> QED
  BY <1>1, AttendedHolds, PTL
=============================================================================
