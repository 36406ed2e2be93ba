------------------------------ MODULE Executor ------------------------------
(***************************************************************************)
(* internal/executor: the goroutine that runs one queued Activity          *)
(* (RunActivity with its decoder), the observer that adopts a process      *)
(* which outlived its service (AdoptAttempt), and between them the gated   *)
(* runner of internal/activity.  Each of their Store calls is one step,    *)
(* which the Supervisor's command accepts or refuses; what they read       *)
(* (Projection, a control, a launch number) is read in an earlier step     *)
(* than the one that uses it.                                              *)
(*                                                                         *)
(* This is the configuration `handoff serve` uses: POSIX, DetachActive, so *)
(* RunActivity's context is never cancelled and a harness survives its     *)
(* service.  Storage errors are left out: a refusal is a command's own.    *)
(***************************************************************************)
EXTENDS Projection, Sequences

CONSTANTS
  Line,       \* what a line of a harness's output decodes to
  Ending,     \* how a harness may end by itself
  MaxLines    \* bound: lines one harness prints

ASSUME LineAssumption == Line \subseteq WorkerStatus \cup {"turn", "bound", "unavailable", "garbage"}

\* success and failure are the target's exit status; the executable of an
\* unstarted one could not be run, for a broken one the runner itself failed, and
\* a torn one was killed while its runner wrote the exit record.
ASSUME EndingAssumption == Ending \subseteq {"success", "failure", "unstarted", "broken", "torn"}

ASSUME MaxLinesAssumption == MaxLines \in Nat

VARIABLES
  worker,      \* the RunActivity goroutine the service runs for an Activity
  adopter,     \* the AdoptAttempt goroutine of an Attempt: where it is
  process,     \* an Attempt's process tree
  stdout,      \* what its harness printed
  launchKeys   \* idempotency keys of the PrepareAttempt calls that committed

processVars == <<worker, adopter, process, stdout, launchKeys>>

Ended == Ending \cup {"killed"}

Idle == [pc |-> "idle", target |-> None, runtime |-> None, ordinal |-> 0, attempt |-> None,
         read |-> 0, decoder |-> "off", stopping |-> FALSE, late |-> FALSE]

\* While one of these a worker holds the wait loop of a released process.
WaitLoop == {"waiting", "applying", "deadline", "lateFailing", "lateStopping", "lateRefused",
             "lateApplying"}

WorkerSteps == WaitLoop \cup
  {"idle", "selecting", "falling", "counting", "building", "prepared", "failing", "failed",
   "spawned", "releasing", "joined", "draining", "exiting", "settling"}

\* An adopter that failed has returned an error and recorded no exit.
AdopterSteps ==
  {"none", "watching", "applying", "binding", "turning", "answering", "exiting", "failed"}

WorkerRecord ==
  [pc : WorkerSteps, target : OrNone(Activity), runtime : OrNone(Runtime), ordinal : Nat,
   attempt : OrNone(Attempt), read : 0 .. MaxLines,
   decoder : {"off", "reading", "fenced", "failed"}, stopping : BOOLEAN, late : BOOLEAN]

ProcessTypeOK ==
  /\ worker \in [Activity -> WorkerRecord]
  /\ adopter \in [Attempt -> AdopterSteps]
  /\ process \in [Attempt -> {"none", "gated", "running"} \cup Ended]
  /\ stdout \in [Attempt -> UNION {[1 .. n -> Line] : n \in 0 .. MaxLines}]
  /\ launchKeys \subseteq Activity \X Nat \X {"prepare", "prelaunch"}

ProcessInit ==
  /\ worker = [a \in Activity |-> Idle]
  /\ adopter = [t \in Attempt |-> "none"]
  /\ process = [t \in Attempt |-> "none"]
  /\ stdout = [t \in Attempt |-> <<>>]
  /\ launchKeys = {}

To(a, step) == worker' = [worker EXCEPT ![a].pc = step]

Finished(a) == worker' = [worker EXCEPT ![a] = Idle]

Killed(t) ==
  [process EXCEPT ![t] = IF @ \in {"gated", "running"} THEN "killed" ELSE @]

Printed(t, lines) == \E i \in DOMAIN stdout[t] : stdout[t][i] \in lines

SessionMode(t) == ProfileOf(t).sessionMode

-----------------------------------------------------------------------------
(* The process tree and its harness. *)

HarnessPrints(t, line) ==
  /\ process[t] = "running"
  /\ Len(stdout[t]) < MaxLines
  /\ line \in WorkerStatus => ~SessionMode(t)
  /\ stdout' = [stdout EXCEPT ![t] = Append(@, line)]
  /\ UNCHANGED <<vars, worker, adopter, process, launchKeys>>

\* runGatedTarget writes the exit record, then the watchdog kills the group.
HarnessEnds(t, how) ==
  /\ process[t] = "running"
  /\ how \in {"unstarted", "broken"} => stdout[t] = <<>>
  /\ process' = [process EXCEPT ![t] = how]
  /\ UNCHANGED <<vars, worker, adopter, stdout, launchKeys>>

\* Something else kills the whole process group.
ProcessLost(t) ==
  /\ process[t] \in {"gated", "running"}
  /\ process' = Killed(t)
  /\ UNCHANGED <<vars, worker, adopter, stdout, launchKeys>>

\* readPersistedExit: a harness that could not be started left code 0.
PersistedSuccess(t) == process[t] \in {"success", "unstarted"}

-----------------------------------------------------------------------------
(* RunActivity up to the prepared Attempt. *)

\* Providers that some launch of the Activity found unavailable.
Unavailable(a) ==
  {attempts[t].runtime : t \in {u \in AttemptsOf(a) :
                                  "provider_unavailable" \in attempts[u].milestones}}

\* The providers of a Session and of those it fell back from.
Tried(s) ==
  LET tried[u \in Session] ==
        {sessions[u].runtime} \cup
        (IF sessions[u].parent = None THEN {} ELSE tried[sessions[u].parent])
  IN  tried[s]

\* The candidates from the Session's own provider on, in the order primary,
\* fallbacks; which of the untried fallbacks comes next is left open.
Candidates(a) ==
  LET own == sessions[activities[a].session].runtime
  IN  IF own \in Unavailable(a)
      THEN (RuntimesOf(WorkOf(a)) \ Tried(activities[a].session)) \ Unavailable(a)
      ELSE {own}

\* The untried fallbacks may all come before a fallback's own place.
NoCandidate(a) ==
  LET own == sessions[activities[a].session].runtime
  IN  Candidates(a) = {} \/ (own \in Unavailable(a) /\ own # WorkOf(a).runtime)

FallbackOn(a, r) ==
  {b \in FallbackChildren(a) : sessions[activities[b].session].runtime = r}

SelectRuntime(a) ==
  /\ worker[a].pc = "selecting"
  /\ \/ NoCandidate(a) /\ Finished(a)
     \/ \E r \in Candidates(a) :
          IF r = sessions[activities[a].session].runtime
          THEN \E o \in NextOrdinals(a) :
                 worker' = [worker EXCEPT ![a].pc = "building", ![a].target = a,
                                          ![a].runtime = r, ![a].ordinal = o]
          ELSE \/ \E b \in FallbackOn(a, r) :
                    worker' = [worker EXCEPT ![a].pc = "counting", ![a].target = b,
                                             ![a].runtime = r]
               \/ /\ FallbackOn(a, r) = {}
                  /\ worker' = [worker EXCEPT ![a].pc = "falling", ![a].runtime = r]
  /\ UNCHANGED <<vars, adopter, process, stdout, launchKeys>>

FallBack(a, s, b) ==
  /\ worker[a].pc = "falling"
  /\ StartFallback(a, worker[a].runtime, s, b)
  /\ worker' = [worker EXCEPT ![a].pc = "counting", ![a].target = b]
  /\ UNCHANGED <<adopter, process, stdout, launchKeys>>

CountLaunches(a) ==
  /\ worker[a].pc = "counting"
  /\ \E o \in NextOrdinals(worker[a].target) :
       worker' = [worker EXCEPT ![a].pc = "building", ![a].ordinal = o]
  /\ UNCHANGED <<vars, adopter, process, stdout, launchKeys>>

LaunchKey(a, kind) == <<worker[a].target, worker[a].ordinal, kind>>

\* The launch is prepared as such, or, when its driver, prepare command or
\* arguments failed before, only to be recorded as failed.
PrepareLaunch(a, kind, t) ==
  /\ worker[a].pc = "building"
  /\ LaunchKey(a, kind) \notin launchKeys
  /\ PrepareAttempt(worker[a].target, worker[a].runtime, t)
  /\ launchKeys' = launchKeys \cup {LaunchKey(a, kind)}
  /\ worker' = [worker EXCEPT ![a].attempt = t,
                              ![a].pc = IF kind = "prepare" THEN "prepared" ELSE "failing"]
  /\ UNCHANGED <<adopter, process, stdout>>

\* A refusal, or the receipt of a launch that another worker made on this key.
LaunchRefused(a, kind) ==
  /\ worker[a].pc = "building"
  /\ \/ LaunchKey(a, kind) \in launchKeys
     \/ ~Launchable(worker[a].target)
     \/ LeaseHeld(WorkOf(worker[a].target).root)
  /\ Finished(a)
  /\ UNCHANGED <<vars, adopter, process, stdout, launchKeys>>

-----------------------------------------------------------------------------
(* Spawn behind the gate, record, release. *)

\* Its files, its process or the process's identity cannot be made.
SpawnFails(a) ==
  /\ worker[a].pc = "prepared"
  /\ To(a, "failing")
  /\ UNCHANGED <<vars, adopter, process, stdout, launchKeys>>

Spawn(a) ==
  /\ worker[a].pc = "prepared"
  /\ process' = [process EXCEPT ![worker[a].attempt] = "gated"]
  /\ To(a, "spawned")
  /\ UNCHANGED <<vars, adopter, stdout, launchKeys>>

\* Mutant: the gate opens although the process could not be recorded.
RecordSpawnAnyway(a) ==
  LET t == worker[a].attempt IN
  /\ worker[a].pc = "spawned"
  /\ \/ RecordSpawned(t)
     \/ ~MayRecord(t, "process_spawned") /\ UNCHANGED vars
  /\ To(a, "releasing")
  /\ UNCHANGED <<adopter, process, stdout, launchKeys>>

RecordSpawn(a) ==
  LET t == worker[a].attempt IN
  /\ worker[a].pc = "spawned"
  /\ \/ RecordSpawned(t) /\ To(a, "releasing") /\ UNCHANGED process
     \/ /\ ~MayRecord(t, "process_spawned")
        /\ process' = Killed(t)
        /\ To(a, "failed")
        /\ UNCHANGED vars
  /\ UNCHANGED <<adopter, stdout, launchKeys>>

\* The pipe of a dead runner may still take the request.
Release(a) ==
  LET t == worker[a].attempt IN
  /\ worker[a].pc = "releasing"
  /\ process' = [process EXCEPT ![t] = IF @ = "gated" THEN "running" ELSE @]
  /\ worker' = [worker EXCEPT ![a].pc = "waiting", ![a].decoder = "reading"]
  /\ UNCHANGED <<vars, adopter, stdout, launchKeys>>

ReleaseFails(a) ==
  /\ worker[a].pc = "releasing"
  /\ process[worker[a].attempt] = "killed"
  /\ To(a, "failed")
  /\ UNCHANGED <<vars, adopter, process, stdout, launchKeys>>

\* failStart and failPrelaunch; a refused milestone is only reported.
RecordFailedStart(a) ==
  LET t == worker[a].attempt IN
  /\ worker[a].pc = "failing"
  /\ \/ RecordStartFailure(t, "adapter_start_failed")
     \/ ~MayRecord(t, "adapter_start_failed") /\ UNCHANGED vars
  /\ To(a, "failed")
  /\ UNCHANGED <<adopter, process, stdout, launchKeys>>

RecordFailedExit(a) ==
  LET t == worker[a].attempt IN
  /\ worker[a].pc = "failed"
  /\ \/ RecordExit(t, FALSE)
     \/ ~MayRecord(t, "exit") /\ UNCHANGED vars
  /\ Finished(a)
  /\ UNCHANGED <<adopter, process, stdout, launchKeys>>

-----------------------------------------------------------------------------
(* What a line of output asks the Supervisor to record. *)

\* validateMilestone's rules for one line; its fences are in MayRecord.
Accepts(t, line) ==
  /\ MayRecord(t, line)
  /\ CASE line = "turn" -> "turn_started" \notin attempts[t].milestones
       [] line = "bound" -> \E x \in NativeId : AcceptsNative(ActivityOf(t).session, x)
       [] line = "unavailable" -> "turn_started" \notin attempts[t].milestones
       [] line \in WorkerStatus -> /\ "turn_started" \in attempts[t].milestones
                                   /\ line = "continue" => ProfileOf(t).goal
       [] OTHER -> FALSE

\* ErrFenced rather than an error of the milestone itself.
Fenced(t) == leases[t].released \/ pauses[WorkflowOf(t)] # None

RecordLine(t, line) ==
  \/ line = "turn" /\ RecordTurnStarted(t)
  \/ line = "bound" /\ \E x \in NativeId : RecordSessionBound(t, x)
  \/ line = "unavailable" /\ RecordStartFailure(t, "provider_unavailable")
  \/ line \in WorkerStatus /\ RecordResult(t, line)

\* decodeFile: the next line is recorded, or ends the decoder.
Decode(a) ==
  LET t == worker[a].attempt
      line == stdout[t][worker[a].read + 1]
  IN
  /\ worker[a].decoder = "reading"
  /\ worker[a].read < Len(stdout[t])
  /\ \/ /\ RecordLine(t, line)
        /\ worker' = [worker EXCEPT ![a].read = @ + 1]
     \/ /\ ~Accepts(t, line)
        /\ worker' = [worker EXCEPT ![a].decoder =
                        IF line # "garbage" /\ Fenced(t) THEN "fenced" ELSE "failed"]
        /\ UNCHANGED vars
  /\ UNCHANGED <<adopter, process, stdout, launchKeys>>

-----------------------------------------------------------------------------
(* The wait loop. *)

\* The process has ended: the decoder is told to read to the end.
ProcessWaited(a) ==
  /\ worker[a].pc \in {"waiting", "joined"}
  /\ process[worker[a].attempt] \in Ended
  /\ To(a, "draining")
  /\ UNCHANGED <<vars, adopter, process, stdout, launchKeys>>

DecoderDone(a) ==
  /\ worker[a].pc = "draining"
  /\ worker[a].decoder = "reading" => worker[a].read = Len(stdout[worker[a].attempt])
  /\ To(a, "exiting")
  /\ UNCHANGED <<vars, adopter, process, stdout, launchKeys>>

\* A decoder's error stops the process; no control is looked at.
DecoderFails(a) ==
  /\ worker[a].pc = "waiting"
  /\ worker[a].decoder \in {"fenced", "failed"}
  /\ process' = Killed(worker[a].attempt)
  /\ worker' = [worker EXCEPT ![a].pc = "exiting", ![a].stopping = TRUE]
  /\ UNCHANGED <<vars, adopter, stdout, launchKeys>>

\* Mutant: the control is applied before the process is stopped.
PollLeavesProcess(a) ==
  LET t == worker[a].attempt IN
  /\ worker[a].pc = "waiting"
  /\ ~worker[a].stopping
  /\ AcceptedControls(t) # {}
  /\ worker' = [worker EXCEPT ![a].pc = "applying", ![a].stopping = TRUE]
  /\ UNCHANGED <<vars, adopter, process, stdout, launchKeys>>

\* Mutant: the controls of a pause are left to somebody else.
PollStops(a) ==
  LET t == worker[a].attempt IN
  /\ worker[a].pc = "waiting"
  /\ ~worker[a].stopping
  /\ \E c \in AcceptedControls(t) : controls[c].kind = "stop"
  /\ process' = Killed(t)
  /\ worker' = [worker EXCEPT ![a].stopping = TRUE, ![a].pc = "applying"]
  /\ UNCHANGED <<vars, adopter, stdout, launchKeys>>

\* pendingControl: an accepted control stops the process, then is applied.
PollControl(a) ==
  LET t == worker[a].attempt IN
  /\ worker[a].pc = "waiting"
  /\ ~worker[a].stopping
  /\ AcceptedControls(t) # {}
  /\ process' = Killed(t)
  /\ worker' = [worker EXCEPT ![a].stopping = TRUE,
                  ![a].pc = IF \E c \in AcceptedControls(t) : ~controls[c].applied
                            THEN "applying" ELSE "waiting"]
  /\ UNCHANGED <<vars, adopter, stdout, launchKeys>>

ApplyStop(a) ==
  /\ worker[a].pc \in {"applying", "lateApplying"}
  /\ \E c \in AcceptedControls(worker[a].attempt) : ApplyControl(c)
  /\ worker' = [worker EXCEPT ![a].pc = "waiting",
                              ![a].late = @ \/ worker[a].pc = "lateApplying"]
  /\ UNCHANGED <<adopter, process, stdout, launchKeys>>

\* A poll saw no control and no started turn although the deadline passed.
DeadlinePasses(a) ==
  LET t == worker[a].attempt IN
  /\ worker[a].pc = "waiting"
  /\ ~SessionMode(t)
  /\ ~worker[a].stopping /\ ~worker[a].late
  /\ AcceptedControls(t) = {}
  /\ "turn_started" \notin attempts[t].milestones
  /\ To(a, "deadline")
  /\ UNCHANGED <<vars, adopter, process, stdout, launchKeys>>

\* ErrControlAlreadyAccepted is not ErrFenced: the worker waits for a process
\* that nobody stops.
RequestDeadlineStop(a, k) ==
  LET t == worker[a].attempt IN
  /\ worker[a].pc = "deadline"
  /\ \/ /\ RequestControl(k, t)
        /\ worker' = IF controls'[k].accepted
                     THEN [worker EXCEPT ![a].pc = "lateFailing"]
                     ELSE [worker EXCEPT ![a].pc = "waiting", ![a].late = TRUE]
     \/ /\ AcceptedControls(t) # {}
        /\ To(a, "joined")
        /\ UNCHANGED vars
  /\ UNCHANGED <<adopter, process, stdout, launchKeys>>

\* The failed start is recorded, or fenced, or refused because the turn has
\* started meanwhile.
RecordLate(a) ==
  LET t == worker[a].attempt IN
  /\ worker[a].pc = "lateFailing"
  /\ \/ /\ \/ RecordStartFailure(t, "adapter_start_failed")
           \/ Fenced(t) /\ UNCHANGED vars
        /\ To(a, "lateStopping")
     \/ /\ ~Fenced(t)
        /\ \/ "turn_started" \in attempts[t].milestones
           \/ ~MayRecord(t, "adapter_start_failed")
        /\ To(a, "lateRefused")
        /\ UNCHANGED vars
  /\ UNCHANGED <<adopter, process, stdout, launchKeys>>

\* Then the process is stopped; after a refusal nothing is applied.
StopLate(a) ==
  /\ \/ /\ worker[a].pc = "lateStopping"
        /\ worker' = [worker EXCEPT ![a].pc = "lateApplying", ![a].stopping = TRUE]
     \/ worker[a].pc = "lateRefused" /\ To(a, "draining")
  /\ process' = Killed(worker[a].attempt)
  /\ UNCHANGED <<vars, adopter, stdout, launchKeys>>

\* The runner is killed by its own watchdog, so its status says nothing about
\* the target: the journal decides whether the Attempt succeeded.
ExitSucceeded(a) ==
  LET t == worker[a].attempt
      b == worker[a].target
  IN  /\ process[t] # "broken"
      /\ \/ SessionMode(t) /\ ~worker[a].stopping
         \/ results[b] # None \/ HasWorkerResult(b)
         \/ Unavailable(b) # {}

RecordEnd(a) ==
  LET t == worker[a].attempt IN
  /\ worker[a].pc = "exiting"
  /\ \/ RecordExit(t, ExitSucceeded(a))
     \/ ~MayRecord(t, "exit") /\ UNCHANGED vars
  /\ To(a, "settling")
  /\ UNCHANGED <<adopter, process, stdout, launchKeys>>

Settle(a) ==
  /\ worker[a].pc = "settling"
  /\ LET w == activities[worker[a].target].workflow IN
     \/ SettlePause(w)
     \/ /\ ~(pauses[w] # None /\ pauses[w].phase = "draining" /\ Drained(w))
        /\ UNCHANGED vars
  /\ Finished(a)
  /\ UNCHANGED <<adopter, process, stdout, launchKeys>>

-----------------------------------------------------------------------------
(* AdoptAttempt. *)

AdopterTo(t, step) == adopter' = [adopter EXCEPT ![t] = step]

AdopterStops(t) ==
  /\ adopter[t] = "watching"
  /\ process[t] = "running"
  /\ AcceptedControls(t) # {}
  /\ process' = Killed(t)
  /\ AdopterTo(t, IF \E c \in AcceptedControls(t) : ~controls[c].applied
                  THEN "applying" ELSE "watching")
  /\ UNCHANGED <<vars, worker, stdout, launchKeys>>

AdopterApplies(t) ==
  /\ adopter[t] = "applying"
  /\ \E c \in AcceptedControls(t) : ApplyControl(c)
  /\ AdopterTo(t, "watching")
  /\ UNCHANGED <<worker, process, stdout, launchKeys>>

\* recoverAttemptOutput reads the whole output; one undecodable line voids it.
AdopterReads(t) ==
  /\ adopter[t] = "watching"
  /\ process[t] \in Ended
  /\ AdopterTo(t, IF HasExit(t) THEN "none"
                  ELSE IF Printed(t, {"garbage"}) THEN "exiting" ELSE "binding")
  /\ UNCHANGED <<vars, worker, process, stdout, launchKeys>>

\* One recovered milestone: recorded if it is missing, fenced without effect,
\* and any other refusal fails the adoption.
Recovers(t, missing, line, next) ==
  \/ HasExit(t) /\ AdopterTo(t, "none") /\ UNCHANGED vars
  \/ /\ ~HasExit(t)
     /\ \/ ~missing /\ AdopterTo(t, next) /\ UNCHANGED vars
        \/ /\ missing
           /\ \/ RecordLine(t, line) /\ AdopterTo(t, next)
              \/ /\ ~Accepts(t, line)
                 /\ AdopterTo(t, IF Fenced(t) THEN next ELSE "failed")
                 /\ UNCHANGED vars

AdopterBinds(t) ==
  /\ adopter[t] = "binding"
  /\ Recovers(t, sessions[ActivityOf(t).session].native = None /\ Printed(t, {"bound"}),
              "bound", "turning")
  /\ UNCHANGED <<worker, process, stdout, launchKeys>>

AdopterTurns(t) ==
  /\ adopter[t] = "turning"
  /\ Recovers(t, "turn_started" \notin attempts[t].milestones /\ Printed(t, {"turn"}),
              "turn", "answering")
  /\ UNCHANGED <<worker, process, stdout, launchKeys>>

\* The last result printed.
LastStatus(t) ==
  LET last == CHOOSE i \in DOMAIN stdout[t] :
                /\ stdout[t][i] \in WorkerStatus
                /\ \A j \in DOMAIN stdout[t] : stdout[t][j] \in WorkerStatus => j <= i
  IN  stdout[t][last]

AdopterAnswers(t) ==
  /\ adopter[t] = "answering"
  /\ LET missing == "result" \notin attempts[t].milestones /\ Printed(t, WorkerStatus)
     IN  Recovers(t, missing, IF missing THEN LastStatus(t) ELSE "turn", "exiting")
  /\ UNCHANGED <<worker, process, stdout, launchKeys>>

\* A torn exit record fails the adoption.
AdopterExits(t) ==
  /\ adopter[t] = "exiting"
  /\ \/ process[t] # "torn" /\ RecordExit(t, PersistedSuccess(t)) /\ AdopterTo(t, "none")
     \/ ~MayRecord(t, "exit") /\ AdopterTo(t, "none") /\ UNCHANGED vars
     \/ /\ process[t] = "torn" /\ MayRecord(t, "exit")
        /\ AdopterTo(t, "failed")
        /\ UNCHANGED vars
  /\ UNCHANGED <<worker, process, stdout, launchKeys>>
=============================================================================
