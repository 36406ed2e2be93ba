---------------------------- MODULE StateProofs ----------------------------
(***************************************************************************)
(* The State as its readers rely on it.  First reports and Results: who    *)
(* may answer an Activity.  ResultProvenance is not inductive: a launch    *)
(* prepared while another one of its Activity runs, or after a report,     *)
(* would break it one step later, so ReportsSound adds that an Activity    *)
(* has at most one live launch, and that a report or a Result closes it to *)
(* every other.  The Messages rest on it: the turn that settles a Message  *)
(* is the one launch that can answer its Activity, so MessagesSound ties   *)
(* each Message to the reports and the Result there can still be.          *)
(*                                                                         *)
(* Then what the commands keep true of turns: generations tell them apart, *)
(* a continued Session stays open, and neither the budgets nor the turn    *)
(* limit are ever passed.  Then what Projection offers the service, and    *)
(* why validateState accepts every State the commands can build.  Most of  *)
(* the latter is Foundation, WriterExclusion and the Results' provenance;  *)
(* what is added here is about Nodes and their dependencies: the graph     *)
(* stays acyclic because a Node names only Nodes that were there before    *)
(* it, and bindings stay sound because Results and Nodes never change and  *)
(* every successor of an Activity keeps its bindings.                      *)
(*                                                                         *)
(* Last, replay.  The inductive invariant Mirrored says that the replica   *)
(* is the commands' State up to the order of milestones, and Makes what    *)
(* the reducer makes of a sequence of events; per command there is a lemma *)
(* that its entry Makes what the command does.  A pause and a restart      *)
(* journal a block of events for each of their launches, in whatever order *)
(* a set is read: their lemmas go through the States in between, one per   *)
(* subset of the launches.                                                 *)
(***************************************************************************)
EXTENDS SupervisorProofs, Projection, Replay, Recursion, FiniteSetTheorems, SequenceTheorems

USE DEF OrNone

-----------------------------------------------------------------------------
(* Reports, Results and Messages. *)


Reported(t) == "result" \in attempts[t].milestones

\* t and u are launches of one Activity.
SameWork(t, u) ==
  /\ attempts[t] # None /\ attempts[u] # None
  /\ attempts[t].activity = attempts[u].activity

\* t is the only launch that reported, and the only one that may still run.
AnsweredBy(a, t) ==
  /\ \A u \in AttemptsOf(a) : Reported(u) => u = t
  /\ \A u \in AttemptsOf(a) : Live(u) => u = t /\ Reported(u)
  /\ workflows[activities[a].workflow].goal => HasExit(t) /\ Reported(t)

\* The inductive form of ResultProvenance: an Activity has at most one live
\* launch, its reporter or its answer if it has one.
ReportsSound ==
  /\ \A t, u \in Attempt : SameWork(t, u) /\ Live(u) /\ (Live(t) \/ Reported(t)) => t = u
  /\ \A t, u \in Attempt : SameWork(t, u) /\ Reported(t) /\ Reported(u) => t = u
  /\ \A a \in Activity, t \in Attempt :
       results[a] # None /\ results[a].attempt = t => AnsweredBy(a, t)

\* An Activity stays answered by a launch when no other launch reports or
\* revives.
LEMMA AnsweredByKept ==
  ASSUME Foundation, IdentitiesKept, NEW a \in Activity, Known(a), NEW t \in Attempt,
         AnsweredBy(a, t),
         AttemptsOf(a)' \subseteq AttemptsOf(a),
         \A u \in AttemptsOf(a) : (Reported(u)' <=> Reported(u)) /\ (Live(u)' => Live(u)),
         HasExit(t) => HasExit(t)', Reported(t) => Reported(t)'
  PROVE  AnsweredBy(a, t)'
<1>1. workflows'[activities'[a].workflow] = workflows[activities[a].workflow]
  BY DEF Foundation, TypeOK, StateValid, IdentitiesKept, Known, ActivityRecord
<1> QED
  BY <1>1 DEF AnsweredBy

\* A step that launches, reports and answers nothing can only end launches.
LEMMA ReportsFramed ==
  ASSUME Foundation, IdentitiesKept, ReportsSound, results' = results,
         \A u \in Attempt : attempts[u] = None => attempts'[u] = None,
         \A u \in Attempt : attempts[u] # None => /\ Reported(u)' <=> Reported(u)
                                                  /\ HasExit(u) => HasExit(u)'
  PROVE  ReportsSound'
<1>1. \A t, u \in Attempt : SameWork(t, u)' => SameWork(t, u)
  BY DEF SameWork, IdentitiesKept
<1>2. \A u \in Attempt : attempts'[u] # None =>
         /\ attempts[u] # None /\ (Reported(u)' <=> Reported(u)) /\ (Live(u)' => Live(u))
  BY DEF Live
<1>3. \A a \in Activity : \A u \in AttemptsOf(a)' : u \in AttemptsOf(a)
  BY DEF AttemptsOf, IdentitiesKept
<1>4. \A t, u \in Attempt : SameWork(t, u)' =>
         /\ attempts'[t] # None /\ attempts'[u] # None
  BY DEF SameWork
<1>5. ASSUME NEW a \in Activity, NEW t \in Attempt, results[a] # None, results[a].attempt = t
      PROVE AnsweredBy(a, t)'
  <2>1. Known(a) /\ t \in AttemptsOf(a) /\ AnsweredBy(a, t)
    BY <1>5 DEF Foundation, StateValid, ReportsSound
  <2>2. \A u \in AttemptsOf(a) : u \in Attempt /\ attempts[u] # None /\ attempts'[u] # None
    BY DEF AttemptsOf, IdentitiesKept
  <2> QED
    BY <1>2, <1>3, <2>1, <2>2, AnsweredByKept
<1> QED
  BY <1>1, <1>2, <1>4, <1>5 DEF ReportsSound

\* A launch finds no report, no Result and no live launch of its Activity.
LEMMA PrepareAttemptKeepsReports ==
  ASSUME Foundation, Foundation', IdentitiesKept, ReportsSound,
         NEW a \in Activity, NEW r \in Runtime, NEW t \in Attempt, PrepareAttempt(a, r, t)
  PROVE  ReportsSound'
<1>1. /\ attempts[t] = None /\ attempts'[t].activity = a /\ attempts'[t].milestones = {}
      /\ attempts'[t] # None
      /\ \A u \in Attempt : u # t => attempts'[u] = attempts[u]
  BY PrepareAttemptEffect DEF Foundation
<1>2. /\ results' = results /\ workflows' = workflows /\ activities' = activities
      /\ results[a] = None
      /\ \A u \in AttemptsOf(a) : HasExit(u) /\ ~Reported(u)
  BY DEF PrepareAttempt, HasWorkerResult, Reported
<1>3. ~Reported(t)' /\ Live(t)'
  BY <1>1 DEF Reported, Live, HasExit
<1>4. \A u \in Attempt : u # t => (Live(u)' <=> Live(u)) /\ (Reported(u)' <=> Reported(u))
                                   /\ (HasExit(u)' <=> HasExit(u))
  BY <1>1 DEF Reported, Live, HasExit
<1>5. \A u, v \in Attempt : u # t /\ v # t => (SameWork(u, v)' <=> SameWork(u, v))
  BY <1>1 DEF SameWork
<1>6. \A u \in Attempt : u # t /\ (SameWork(t, u)' \/ SameWork(u, t)') => ~Live(u) /\ ~Reported(u)
  BY <1>1, <1>2 DEF SameWork, AttemptsOf, Live
<1>8. ASSUME NEW b \in Activity, NEW v \in Attempt, results[b] # None, results[b].attempt = v
      PROVE AnsweredBy(b, v)'
  <2>1. Known(b) /\ v \in AttemptsOf(b) /\ AnsweredBy(b, v)
    BY <1>8 DEF Foundation, StateValid, ReportsSound
  <2>2. v # t /\ AttemptsOf(b)' = AttemptsOf(b) /\ \A u \in AttemptsOf(b) : u \in Attempt /\ u # t
    BY <1>1, <1>2, <1>8, <2>1 DEF AttemptsOf
  <2> QED
    BY <1>4, <2>1, <2>2, AnsweredByKept
<1>9. \A u, v \in Attempt : SameWork(u, v)' /\ Live(v)' /\ (Live(u)' \/ Reported(u)') => u = v
  BY <1>3, <1>4, <1>5, <1>6 DEF ReportsSound
<1>10. \A u, v \in Attempt : SameWork(u, v)' /\ Reported(u)' /\ Reported(v)' => u = v
  BY <1>3, <1>4, <1>5, <1>6 DEF ReportsSound
<1> QED
  BY <1>2, <1>8, <1>9, <1>10 DEF ReportsSound

\* A launch that may still report belongs to an Activity without a Result.
LEMMA LiveAnswer ==
  ASSUME Foundation, ReportsSound, NEW t \in Attempt, Live(t), ~Reported(t)
  PROVE  results[attempts[t].activity] = None
<1>1. attempts[t].activity \in Activity /\ t \in AttemptsOf(attempts[t].activity)
  BY DEF Foundation, TypeOK, AttemptsOf, Live, AttemptRecord
<1>2. ASSUME results[attempts[t].activity] # None
      PROVE  results[attempts[t].activity].attempt \in Attempt
  BY <1>1, <1>2 DEF Foundation, StateValid, AttemptsOf
<1> QED
  BY <1>1, <1>2 DEF ReportsSound, AnsweredBy

\* A report comes from the only live launch of an Activity without a Result.
LEMMA RecordResultKeepsReports ==
  ASSUME Foundation, Foundation', IdentitiesKept, ReportsSound,
         NEW t \in Attempt, NEW status \in WorkerStatus, RecordResult(t, status)
  PROVE  ReportsSound' /\ results[attempts[t].activity] = None
<1> DEFINE a == attempts[t].activity
<1>1. /\ Live(t) /\ ~Reported(t) /\ attempts[t] # None /\ a \in Activity
  BY DEF RecordResult, MayRecord, Live, Reported, Foundation, TypeOK, AttemptRecord
<1>2. /\ attempts'[t] # None /\ attempts'[t].activity = a /\ Reported(t)' /\ Live(t)'
      /\ \A u \in Attempt : u # t => attempts'[u] = attempts[u]
  BY <1>1, AddMilestoneEffect
  DEF RecordResult, Kinds, Reported, Live, HasExit, Foundation
<1>3. results[a] = None
  BY <1>1, LiveAnswer
<1>4. \A u \in Attempt : u # t => (Live(u)' <=> Live(u)) /\ (Reported(u)' <=> Reported(u))
                                   /\ (HasExit(u)' <=> HasExit(u))
  BY <1>2 DEF Reported, Live, HasExit
<1>5. \A u, v \in Attempt : SameWork(u, v)' <=> SameWork(u, v)
  BY <1>1, <1>2 DEF SameWork
<1>6. \A u \in Attempt : SameWork(t, u) \/ SameWork(u, t) => u = t \/ (~Live(u) /\ ~Reported(u))
  <2>1. \A u \in Attempt : SameWork(u, t) => SameWork(t, u)
    BY DEF SameWork
  <2>2. \A u \in Attempt : SameWork(t, u) => SameWork(u, t)
    BY DEF SameWork
  <2> QED
    BY <1>1, <2>1, <2>2 DEF ReportsSound
<1>7. \A u, v \in Attempt : SameWork(u, v)' /\ Live(v)' /\ (Live(u)' \/ Reported(u)') => u = v
  BY <1>2, <1>4, <1>5, <1>6 DEF ReportsSound
<1>8. \A u, v \in Attempt : SameWork(u, v)' /\ Reported(u)' /\ Reported(v)' => u = v
  BY <1>2, <1>4, <1>5, <1>6 DEF ReportsSound
<1>9. workflows' = workflows /\ activities' = activities
  BY DEF RecordResult
<1>10. \A b \in Activity : AttemptsOf(b)' = AttemptsOf(b)
  BY <1>1, <1>2 DEF AttemptsOf
<1>11. /\ \A b \in Activity : b # a => results'[b] = results[b]
       /\ results'[a] = results[a] \/ /\ results'[a].attempt = t
                                      /\ ~workflows[activities[a].workflow].goal
  BY <1>1 DEF RecordResult, Foundation, TypeOK, ProfileOf, WorkflowOf, ActivityOf
<1>12. ASSUME NEW b \in Activity, NEW v \in Attempt, results'[b] # None, results'[b].attempt = v
       PROVE AnsweredBy(b, v)'
  <2>1. CASE b = a
    <3>1. v = t /\ ~workflows[activities[a].workflow].goal
      BY <1>3, <1>11, <1>12, <2>1
    <3>2. \A u \in AttemptsOf(a) : u \in Attempt /\ SameWork(t, u)
      BY <1>1 DEF AttemptsOf, SameWork
    <3>3. \A u \in AttemptsOf(a) : u # t => ~Live(u)' /\ ~Reported(u)'
      BY <1>4, <1>6, <3>2
    <3> QED
      BY <1>2, <1>9, <1>10, <2>1, <3>1, <3>3 DEF AnsweredBy
  <2>2. CASE b # a
    <3>1. results'[b] = results[b]
      BY <1>11, <2>2
    <3>2. Known(b) /\ v \in AttemptsOf(b) /\ AnsweredBy(b, v)
      BY <1>12, <3>1 DEF Foundation, StateValid, ReportsSound
    <3>3. \A u \in AttemptsOf(b) : u \in Attempt /\ u # t
      BY <2>2 DEF AttemptsOf
    <3> QED
      BY <1>4, <1>10, <3>2, <3>3, AnsweredByKept
  <2> QED
    BY <2>1, <2>2
<1> QED
  BY <1>3, <1>7, <1>8, <1>12 DEF ReportsSound

\* In session mode the exit of an Activity's only live launch is its Result.
LEMMA RecordExitKeepsReports ==
  ASSUME Foundation, Foundation', IdentitiesKept, ReportsSound,
         NEW t \in Attempt, NEW succeeded \in BOOLEAN, RecordExit(t, succeeded)
  PROVE  ReportsSound'
<1> DEFINE a == attempts[t].activity
<1>1. /\ Live(t) /\ attempts[t] # None /\ a \in Activity
  BY DEF RecordExit, MayRecord, Live, Foundation, TypeOK, AttemptRecord
<1>2. /\ attempts'[t] # None /\ attempts'[t].activity = a
      /\ (Reported(t)' <=> Reported(t)) /\ HasExit(t)' /\ ~Live(t)'
      /\ \A u \in Attempt : u # t => attempts'[u] = attempts[u]
  BY <1>1, AddMilestoneEffect
  DEF RecordExit, Kinds, Reported, Live, HasExit, Foundation
<1>3. \A u \in Attempt : u # t => (Live(u)' <=> Live(u)) /\ (Reported(u)' <=> Reported(u))
                                   /\ (HasExit(u)' <=> HasExit(u))
  BY <1>2 DEF Reported, Live, HasExit
<1>4. \A u, v \in Attempt : SameWork(u, v)' <=> SameWork(u, v)
  BY <1>1, <1>2 DEF SameWork
<1>5. \A u, v \in Attempt : SameWork(u, v)' /\ Live(v)' /\ (Live(u)' \/ Reported(u)') => u = v
  BY <1>1, <1>2, <1>3, <1>4 DEF ReportsSound
<1>6. \A u, v \in Attempt : SameWork(u, v)' /\ Reported(u)' /\ Reported(v)' => u = v
  BY <1>2, <1>3, <1>4 DEF ReportsSound
<1>7. \A b \in Activity : AttemptsOf(b)' = AttemptsOf(b)
  BY <1>1, <1>2 DEF AttemptsOf
<1>8. /\ workflows' = workflows /\ activities' = activities
      /\ \A b \in Activity : b # a => results'[b] = results[b]
      /\ results[a] # None => results'[a] = results[a]
      /\ results[a] = None /\ results'[a] # None =>
           results'[a].attempt = t /\ ~workflows[activities[a].workflow].goal
  <2>1. workflows[activities[a].workflow] \in Profiles
    BY <1>1 DEF Foundation, TypeOK, StateValid, Known, ActivityRecord
  <2> QED
    BY <1>1, <2>1, ProfilesAssumption
    DEF RecordExit, Foundation, TypeOK, ProfileOf, WorkflowOf, ActivityOf
<1>9. ASSUME NEW b \in Activity, NEW v \in Attempt, results'[b] # None, results'[b].attempt = v
      PROVE AnsweredBy(b, v)'
  <2>1. CASE results[b] # None
    <3>1. results'[b] = results[b]
      BY <1>8, <2>1
    <3>2. Known(b) /\ v \in AttemptsOf(b) /\ AnsweredBy(b, v)
      BY <1>9, <3>1 DEF Foundation, StateValid, ReportsSound
    <3>3. \A u \in AttemptsOf(b) : u \in Attempt
      BY DEF AttemptsOf
    <3> QED
      BY <1>2, <1>3, <1>7, <3>2, <3>3, AnsweredByKept
  <2>2. CASE results[b] = None
    <3>1. b = a /\ v = t /\ ~workflows[activities[b].workflow].goal
      BY <1>8, <1>9, <2>2
    <3>2. \A u \in AttemptsOf(a) : u \in Attempt /\ SameWork(u, t)
      BY <1>1 DEF AttemptsOf, SameWork
    <3>3. \A u \in AttemptsOf(a) : u # t => ~Live(u)' /\ ~Reported(u)'
      <4>1. \A u \in AttemptsOf(a) : SameWork(t, u)
        BY <3>2 DEF SameWork
      <4> QED
        BY <1>1, <1>3, <3>2, <4>1 DEF ReportsSound
    <3> QED
      BY <1>2, <1>7, <1>8, <3>1, <3>3 DEF AnsweredBy
  <2> QED
    BY <2>1, <2>2
<1> QED
  BY <1>5, <1>6, <1>9 DEF ReportsSound

\* Deciding about a reported and exited launch, whatever the decision queues.
LEMMA DecisionKeepsReports ==
  ASSUME Foundation, Foundation', IdentitiesKept, ReportsSound,
         NEW a \in Activity, NEW t \in Attempt, NEW status \in WorkerStatus, Decidable(a, t),
         attempts' = attempts,
         results' = [results EXCEPT ![a] = [attempt |-> t, status |-> status]]
  PROVE  ReportsSound'
<1>1. \A u, v \in Attempt : SameWork(u, v)' <=> SameWork(u, v)
  BY DEF SameWork
<1>2. \A u \in Attempt : (Live(u)' <=> Live(u)) /\ (Reported(u)' <=> Reported(u))
                         /\ (HasExit(u)' <=> HasExit(u))
  BY DEF Live, Reported, HasExit
<1>3. \A b \in Activity : AttemptsOf(b)' = AttemptsOf(b) /\ \A u \in AttemptsOf(b) : u \in Attempt
  BY DEF AttemptsOf
<1>4. results'[a].attempt = t /\ \A b \in Activity : b # a => results'[b] = results[b]
  BY DEF Foundation, TypeOK
<1>5. /\ t \in AttemptsOf(a) /\ Reported(t) /\ HasExit(t) /\ ~Live(t)
      /\ \A u \in AttemptsOf(a) : SameWork(t, u)
  BY DEF Decidable, Reported, HasExit, Live, SameWork, AttemptsOf
<1>6. ASSUME NEW b \in Activity, NEW v \in Attempt, results'[b] # None, results'[b].attempt = v
      PROVE AnsweredBy(b, v)'
  <2>1. CASE b = a
    <3>1. v = t /\ \A u \in AttemptsOf(a) : (Reported(u) => u = t) /\ ~Live(u)
      BY <1>3, <1>4, <1>5, <1>6, <2>1 DEF ReportsSound
    <3> QED
      BY <1>2, <1>3, <1>5, <2>1, <3>1 DEF AnsweredBy
  <2>2. CASE b # a
    <3>1. Known(b) /\ v \in AttemptsOf(b) /\ AnsweredBy(b, v)
      BY <1>4, <1>6, <2>2 DEF Foundation, StateValid, ReportsSound
    <3> QED
      BY <1>2, <1>3, <3>1, AnsweredByKept
  <2> QED
    BY <2>1, <2>2
<1> QED
  BY <1>1, <1>2, <1>6 DEF ReportsSound

\* Every command but a report, an exit and a decision leaves the Results alone.
LEMMA MilestoneKeepsReports ==
  ASSUME Foundation, IdentitiesKept, ReportsSound, results' = results,
         NEW t \in Attempt, NEW kind \in Kinds \ {"exit", "result"}, attempts[t] # None,
         AddMilestone(t, kind)
  PROVE  ReportsSound'
<1>1. /\ \A u \in Attempt : attempts[u] = None => attempts'[u] = None
      /\ \A u \in Attempt : attempts[u] # None => /\ Reported(u)' <=> Reported(u)
                                                  /\ HasExit(u) => HasExit(u)'
  BY AddMilestoneEffect DEF Foundation, Reported, HasExit
<1> QED
  BY <1>1, ReportsFramed

\* Every command keeps reports sound and every Result as it is.
LEMMA StepKeepsReports ==
  ASSUME Foundation, ReportsSound, [Next]_vars
  PROVE  /\ ReportsSound'
         /\ \A a \in Activity : results[a] # None => results'[a] = results[a]
<1> DEFINE Goal == /\ ReportsSound'
                   /\ \A a \in Activity : results[a] # None => results'[a] = results[a]
<1>1. Foundation' /\ IdentitiesKept
  BY StepKeepsFoundation
<1>2. CASE attempts' = attempts /\ results' = results
  BY <1>1, <1>2, ReportsFramed DEF HasExit, Reported
<1>3. CASE UNCHANGED vars
  BY <1>2, <1>3 DEF vars
<1>4. CASE WorkCommands
  <2>1. attempts' = attempts /\ results' = results
    BY <1>4, WorkCommandsFrame
  <2> QED
    BY <1>2, <2>1
<1>5. CASE ControlCommands
  BY <1>2, <1>5 DEF ControlCommands, RequestControl, RequestStaleControl, ApplyControl,
     PauseWorkflow, SettlePause
<1>6. CASE DecisionCommands
  <2>1. ASSUME NEW a \in Activity, NEW t \in Attempt, NEW status \in WorkerStatus,
               Decidable(a, t), attempts' = attempts,
               results' = [results EXCEPT ![a] = [attempt |-> t, status |-> status]]
        PROVE  Goal
    <3>1. results[a] = None /\ \A b \in Activity : b # a => results'[b] = results[b]
      BY <2>1 DEF Decidable, Foundation, TypeOK
    <3> QED
      BY <1>1, <2>1, <3>1, DecisionKeepsReports
  <2>2. ASSUME NEW a \in Activity, NEW t \in Attempt, NEW status \in {"completed", "needs_human"},
               DecideStop(a, t, status)
        PROVE  Goal
    BY <2>1, <2>2 DEF DecideStop, WorkerStatus
  <2>3. ASSUME NEW a \in Activity, NEW b \in Activity, NEW t \in Attempt, DecideContinue(a, t, b)
        PROVE  Goal
    <3>1. /\ Decidable(a, t) /\ attempts' = attempts
          /\ results' = [results EXCEPT ![a] = [attempt |-> t, status |-> "continue"]]
      BY <2>3 DEF DecideContinue
    <3> QED
      BY <2>1, <3>1 DEF WorkerStatus
  <2> QED
    BY <1>6, <2>2, <2>3 DEF DecisionCommands
<1>7. CASE AttemptCommands
  <2>1. ASSUME NEW a \in Activity, NEW r \in Runtime, NEW t \in Attempt, PrepareAttempt(a, r, t)
        PROVE  Goal
    <3>1. results' = results
      BY <2>1 DEF PrepareAttempt
    <3> QED
      BY <1>1, <2>1, <3>1, PrepareAttemptKeepsReports
  <2>2. ASSUME NEW t \in Attempt, RecordSpawned(t) PROVE Goal
    <3>1. results' = results
      BY <2>2 DEF RecordSpawned
    <3> QED
      BY <1>1, <2>2, <3>1, MilestoneKeepsReports DEF RecordSpawned, MayRecord, Kinds
  <2>3. ASSUME NEW t \in Attempt, NEW x \in NativeId, RecordSessionBound(t, x) PROVE Goal
    BY <1>2, <2>3 DEF RecordSessionBound
  <2>4. ASSUME NEW t \in Attempt, RecordTurnStarted(t) PROVE Goal
    <3>1. results' = results
      BY <2>4 DEF RecordTurnStarted
    <3> QED
      BY <1>1, <2>4, <3>1, MilestoneKeepsReports DEF RecordTurnStarted, MayRecord, Kinds
  <2>5. ASSUME NEW t \in Attempt, NEW status \in WorkerStatus, RecordResult(t, status) PROVE Goal
    <3>1. ReportsSound' /\ results[attempts[t].activity] = None
      BY <1>1, <2>5, RecordResultKeepsReports
    <3>2. \A a \in Activity : a # attempts[t].activity => results'[a] = results[a]
      BY <2>5 DEF RecordResult, Foundation, TypeOK
    <3> QED
      BY <3>1, <3>2
  <2>6. ASSUME NEW t \in Attempt, NEW kind \in StartFailures, RecordStartFailure(t, kind)
        PROVE  Goal
    <3>1. results' = results /\ kind \in Kinds \ {"exit", "result"}
      BY <2>6 DEF RecordStartFailure, StartFailures, Kinds
    <3> QED
      BY <1>1, <2>6, <3>1, MilestoneKeepsReports DEF RecordStartFailure, MayRecord
  <2>7. ASSUME NEW t \in Attempt, NEW succeeded \in BOOLEAN, RecordExit(t, succeeded) PROVE Goal
    <3>1. ReportsSound'
      BY <1>1, <2>7, RecordExitKeepsReports
    <3>2. \A a \in Activity : results[a] # None => results'[a] = results[a]
      BY <2>7 DEF RecordExit, Foundation, TypeOK
    <3> QED
      BY <3>1, <3>2
  <2>8. ASSUME NEW T \in SUBSET Attempt, ReconcileStartup(T) PROVE Goal
    <3>1. results' = results
      BY <2>8 DEF ReconcileStartup
    <3>2. /\ \A u \in Attempt : attempts[u] = None => attempts'[u] = None
          /\ \A u \in Attempt : attempts[u] # None => /\ Reported(u)' <=> Reported(u)
                                                      /\ HasExit(u) => HasExit(u)'
      BY <2>8, ReconcileStartupEffect DEF Foundation, Reported, HasExit
    <3> QED
      BY <1>1, <3>1, <3>2, ReportsFramed
  <2> QED
    BY <1>7, <2>1, <2>2, <2>3, <2>4, <2>5, <2>6, <2>7, <2>8 DEF AttemptCommands
<1> QED
  BY <1>3, <1>4, <1>5, <1>6, <1>7 DEF Next

\* The invariant of reports holds of the specification.
LEMMA ReportsStaySound == Spec => []ReportsSound
<1>1. Init => ReportsSound
  BY DEF Init, ReportsSound, SameWork
<1> QED
  BY <1>1, FoundationHolds, StepKeepsReports, PTL DEF Spec

\* An Activity's Result names the only launch whose worker ever reported, and a
\* goal's Result waited for that launch's exit.
THEOREM ResultsComeFromTheReporter == Spec => []ResultProvenance
<1>1. ASSUME Foundation, ReportsSound PROVE ResultProvenance
  <2>1. ASSUME NEW a \in Activity, NEW t \in AttemptsOf(a), NEW u \in AttemptsOf(a),
               "result" \in attempts[t].milestones, "result" \in attempts[u].milestones
        PROVE  t = u
    BY <1>1, <2>1 DEF ReportsSound, AttemptsOf, SameWork, Reported
  <2>2. ASSUME NEW a \in Activity, results[a] # None
        PROVE  /\ \A u \in AttemptsOf(a) :
                    "result" \in attempts[u].milestones => u = results[a].attempt
               /\ ProfileOf(results[a].attempt).goal =>
                    {"result", "exit"} \subseteq attempts[results[a].attempt].milestones
    <3>1. results[a].attempt \in AttemptsOf(a)
      BY <1>1, <2>2 DEF Foundation, StateValid
    <3>2. /\ AnsweredBy(a, results[a].attempt)
          /\ ProfileOf(results[a].attempt) = workflows[activities[a].workflow]
      BY <1>1, <2>2, <3>1 DEF ReportsSound, AttemptsOf, ProfileOf, WorkflowOf, ActivityOf
    <3> QED
      BY <3>2 DEF AnsweredBy, Reported, HasExit
  <2> QED
    BY <2>1, <2>2 DEF ResultProvenance
<1> QED
  BY <1>1, FoundationHolds, ReportsStaySound, PTL

\* No command changes or withdraws a Result.
THEOREM ResultsNeverChange == Spec => ResultsImmutable
<1>1. Foundation /\ ReportsSound /\ [Next]_vars =>
        [\A a \in Activity : results[a] # None => results'[a] = results[a]]_vars
  BY StepKeepsReports
<1> QED
  BY <1>1, FoundationHolds, ReportsStaySound, PTL DEF Spec, ResultsImmutable

-----------------------------------------------------------------------------
(* Messages.  MessagesFollowTurns is not inductive: that an answered Activity's *)
(* Message was delivered to the launch that answered needs that launch to have  *)
(* held it, hence that every launch that can still answer holds its Message.    *)

\* t can still answer: it runs, has neither failed nor reported, and no pause
\* fences it.
Answering(t) ==
  /\ Live(t)
  /\ attempts[t].milestones \cap (StartFailures \cup {"result"}) = {}
  /\ pauses[WorkflowOf(t)] = None

\* The Message of a is with the launch that can answer it, or was delivered to
\* the one that reported, and is with no launch otherwise.
MessageSound(a) ==
  messages[a] # None =>
    LET m == messages[a] IN
    /\ Known(a)
    /\ m.state = "dispatched" => m.attempt \in AttemptsOf(a) /\ Answering(m.attempt)
    /\ m.state = "delivered" => m.attempt \in AttemptsOf(a) /\ Reported(m.attempt)
    /\ \A t \in AttemptsOf(a) :
         /\ Reported(t) => m.state = "delivered" /\ m.attempt = t
         /\ Answering(t) => DispatchedTo(a, t)

MessagesSound == \A a \in Activity : MessageSound(a)

\* Outside session mode only a report is a Result.
ReportsAnswer ==
  \A a \in Activity :
    results[a] # None /\ ~workflows[activities[a].workflow].sessionMode
      => Reported(results[a].attempt)

\* A Message stays sound while it and what its Activity's launches can do stay.
LEMMA MessageFramed ==
  ASSUME IdentitiesKept, NEW a \in Activity, MessageSound(a), messages'[a] = messages[a],
         AttemptsOf(a)' = AttemptsOf(a),
         \A t \in AttemptsOf(a) : (Reported(t)' <=> Reported(t)) /\ (Answering(t)' <=> Answering(t))
  PROVE  MessageSound(a)'
  BY DEF MessageSound, DispatchedTo, IdentitiesKept, Known

\* A step without launches, milestones, Messages and pauses changes nothing here.
LEMMA QuietMessages ==
  ASSUME Foundation, IdentitiesKept, MessagesSound,
         attempts' = attempts, pauses' = pauses,
         NEW A \in SUBSET Activity, \A a \in A : messages'[a] = messages[a]
  PROVE  \A a \in A : MessageSound(a)'
<1>1. \A t \in Attempt : attempts[t] # None =>
        (Reported(t)' <=> Reported(t)) /\ (Answering(t)' <=> Answering(t))
  BY WorkflowKept DEF Reported, Answering, Live, HasExit
<1>2. \A a \in Activity : /\ AttemptsOf(a)' = AttemptsOf(a)
                          /\ \A t \in AttemptsOf(a) : t \in Attempt /\ attempts[t] # None
  BY DEF AttemptsOf
<1> QED
  BY <1>1, <1>2, MessageFramed DEF MessagesSound

\* A new Activity has no launches, so its queued Message is with none.
LEMMA NewMessageSound ==
  ASSUME Foundation, IdentitiesKept, MessagesSound, attempts' = attempts, pauses' = pauses,
         NEW a \in Activity, activities[a] = None, activities'[a] # None, NewMessage(a)
  PROVE  MessagesSound'
<1>1. /\ messages'[a] = [state |-> "queued", attempt |-> None, delivery |-> 0]
      /\ \A b \in Activity : b # a => messages'[b] = messages[b]
  BY DEF NewMessage, Foundation, TypeOK
<1>2. AttemptsOf(a)' = {}
  BY DEF AttemptsOf, Foundation, StateValid, Known
<1>3. MessageSound(a)'
  BY <1>1, <1>2 DEF MessageSound, Known
<1>4. \A b \in Activity \ {a} : MessageSound(b)'
  BY <1>1, QuietMessages
<1> QED
  BY <1>3, <1>4 DEF MessagesSound

\* A launch takes the queued Message: nobody held it, and nobody reported.
LEMMA PrepareAttemptKeepsMessages ==
  ASSUME Foundation, IdentitiesKept, MessagesSound,
         NEW a \in Activity, NEW r \in Runtime, NEW t \in Attempt, PrepareAttempt(a, r, t)
  PROVE  MessagesSound'
<1>1. /\ attempts[t] = None /\ attempts'[t] # None
      /\ attempts'[t].activity = a /\ attempts'[t].milestones = {}
      /\ \A u \in Attempt : u # t => attempts'[u] = attempts[u]
  BY PrepareAttemptEffect DEF Foundation
<1>2. /\ \A u \in AttemptsOf(a) : HasExit(u) /\ ~Reported(u)
      /\ Known(a) /\ pauses[activities[a].workflow] = None
      /\ pauses' = pauses /\ activities' = activities
  BY DEF PrepareAttempt, HasWorkerResult, Reported
<1>3. \A u \in Attempt : u # t /\ attempts[u] # None =>
        (Reported(u)' <=> Reported(u)) /\ (Answering(u)' <=> Answering(u))
  BY <1>1, <1>2, WorkflowKept DEF Reported, Answering, Live, HasExit
<1>4. \A b \in Activity : \A u \in AttemptsOf(b) : u \in Attempt /\ u # t /\ attempts[u] # None
  BY <1>1 DEF AttemptsOf
<1>5. ASSUME NEW b \in Activity, b # a
      PROVE  MessageSound(b)'
  <2>1. AttemptsOf(b)' = AttemptsOf(b)
    BY <1>1, <1>5 DEF AttemptsOf
  <2>2. messages'[b] = messages[b]
    BY <1>5 DEF PrepareAttempt, Foundation, TypeOK
  <2> QED
    BY <1>3, <1>4, <2>1, <2>2, MessageFramed DEF MessagesSound
<1>6. MessageSound(a)'
  <2>1. AttemptsOf(a)' = AttemptsOf(a) \cup {t}
    BY <1>1 DEF AttemptsOf
  <2>2. Answering(t)' /\ ~Reported(t)'
    BY <1>1, <1>2 DEF Answering, Reported, Live, HasExit, WorkflowOf, ActivityOf
  <2>3. \A u \in AttemptsOf(a) : ~Answering(u)' /\ ~Reported(u)'
    BY <1>2, <1>3, <1>4 DEF Answering, Live
  <2>4. messages[a] # None => /\ messages[a].state = "queued"
                              /\ messages[a] \in MessageRecord
    <3>1. messages[a] # None => messages[a] \in MessageRecord
      BY DEF Foundation, TypeOK
    <3>2. \A u \in AttemptsOf(a) : ~Answering(u) /\ ~Reported(u)
      BY <1>2 DEF Answering, Live
    <3> QED
      BY <3>1, <3>2 DEF MessagesSound, MessageSound, MessageRecord
  <2>5. CASE messages[a] = None
    BY <2>5 DEF PrepareAttempt, MessageSound
  <2>6. CASE messages[a] # None
    <3>1. PICK d \in NextDeliveries(activities[a].session) :
            messages' = [messages EXCEPT
              ![a] = [state |-> "dispatched", attempt |-> t, delivery |-> d]]
      BY <2>4, <2>6 DEF PrepareAttempt
    <3>2. messages'[a] = [state |-> "dispatched", attempt |-> t, delivery |-> d]
      BY <3>1 DEF Foundation, TypeOK
    <3> QED
      BY <1>2, <2>1, <2>2, <2>3, <3>2 DEF MessageSound, DispatchedTo, Known
  <2> QED
    BY <2>5, <2>6
<1> QED
  BY <1>5, <1>6 DEF MessagesSound

\* A milestone other than exit keeps its Attempt's peers as they are.
LEMMA MilestonePeers ==
  ASSUME Foundation, IdentitiesKept, pauses' = pauses,
         NEW t \in Attempt, attempts[t] # None, attempts'[t] # None,
         attempts'[t].activity = attempts[t].activity,
         \A u \in Attempt : u # t => attempts'[u] = attempts[u]
  PROVE  /\ \A a \in Activity : AttemptsOf(a)' = AttemptsOf(a)
         /\ \A u \in Attempt : u # t /\ attempts[u] # None =>
              (Reported(u)' <=> Reported(u)) /\ (Answering(u)' <=> Answering(u))
         /\ \A a \in Activity : \A u \in AttemptsOf(a) : u \in Attempt /\ attempts[u] # None
<1>1. \A a \in Activity : \A u \in AttemptsOf(a) : u \in Attempt /\ attempts[u] # None
  BY DEF AttemptsOf
<1>2. \A a \in Activity : AttemptsOf(a)' = AttemptsOf(a)
  BY DEF AttemptsOf
<1>3. \A u \in Attempt : u # t /\ attempts[u] # None =>
              (Reported(u)' <=> Reported(u)) /\ (Answering(u)' <=> Answering(u))
  BY WorkflowKept DEF Reported, Answering, Live, HasExit
<1> QED
  BY <1>1, <1>2, <1>3

\* The launch that may record a milestone can answer, holds its Activity's
\* Message if there is one, and is the only one that runs.
LEMMA MayRecordAnswering ==
  ASSUME Foundation, ReportsSound, MessagesSound, NEW t \in Attempt,
         NEW kind \in Kinds \ {"exit"}, MayRecord(t, kind)
  PROVE  LET a == attempts[t].activity IN
         /\ attempts[t] # None /\ a \in Activity /\ Known(a)
         /\ t \in AttemptsOf(a) /\ Answering(t)
         /\ \A u \in AttemptsOf(a) \ {t} : ~Answering(u) /\ ~Reported(u)
         /\ messages[a] # None => DispatchedTo(a, t)
<1> DEFINE a == attempts[t].activity
<1>1. attempts[t] # None /\ a \in Activity /\ Known(a) /\ t \in AttemptsOf(a)
  BY DEF MayRecord, Foundation, TypeOK, StateValid, AttemptRecord, AttemptsOf
<1>2. Answering(t) /\ Live(t)
  BY DEF MayRecord, Answering, Live
<1>3. \A u \in AttemptsOf(a) \ {t} : ~Live(u) /\ ~Reported(u)
  <2>1. \A u \in AttemptsOf(a) : u \in Attempt /\ SameWork(u, t) /\ SameWork(t, u)
    BY <1>1 DEF AttemptsOf, SameWork
  <2> QED
    BY <1>2, <2>1 DEF ReportsSound
<1>4. messages[a] # None => DispatchedTo(a, t)
  BY <1>1, <1>2 DEF MessagesSound, MessageSound
<1> QED
  BY <1>1, <1>2, <1>3, <1>4 DEF Answering

\* A launch that only goes on keeps its Message.
LEMMA ProgressKeepsMessages ==
  ASSUME Foundation, IdentitiesKept, ReportsSound, MessagesSound,
         messages' = messages, pauses' = pauses,
         NEW t \in Attempt, NEW kind \in {"process_spawned", "turn_started"},
         MayRecord(t, kind), AddMilestone(t, kind)
  PROVE  MessagesSound'
<1> DEFINE a == attempts[t].activity
<1>1. /\ attempts[t] # None /\ Answering(t) /\ a \in Activity /\ t \in AttemptsOf(a)
  BY MayRecordAnswering DEF Kinds
<1>2. /\ attempts'[t] # None /\ attempts'[t].activity = a
      /\ attempts'[t].milestones = attempts[t].milestones \cup {kind}
      /\ \A u \in Attempt : u # t => attempts'[u] = attempts[u]
  BY <1>1, AddMilestoneEffect DEF Foundation, Kinds
<1>3. (Reported(t)' <=> Reported(t)) /\ Answering(t)'
  BY <1>1, <1>2, WorkflowKept DEF Reported, Answering, Live, HasExit, StartFailures
<1>4. \A u \in Attempt : attempts[u] # None =>
        (Reported(u)' <=> Reported(u)) /\ (Answering(u)' <=> Answering(u))
  BY <1>1, <1>2, <1>3, MilestonePeers
<1>5. \A b \in Activity : /\ AttemptsOf(b)' = AttemptsOf(b)
                          /\ \A u \in AttemptsOf(b) : u \in Attempt /\ attempts[u] # None
  BY <1>1, <1>2, MilestonePeers
<1> QED
  BY <1>4, <1>5, MessageFramed DEF MessagesSound

\* What Settled does to the Message a launch holds, and to no other.
LEMMA SettledEffect ==
  ASSUME TypeOK, NEW a \in Activity, NEW t \in Attempt, NEW delivered \in BOOLEAN,
         messages' = Settled(a, t, delivered)
  PROVE  /\ \A b \in Activity : b # a => messages'[b] = messages[b]
         /\ DispatchedTo(a, t) =>
              /\ messages'[a] # None
              /\ delivered => messages'[a].state = "delivered" /\ messages'[a].attempt = t
              /\ ~delivered => messages'[a].state = "queued"
         /\ ~DispatchedTo(a, t) => messages'[a] = messages[a]
<1>1. CASE ~DispatchedTo(a, t)
  BY <1>1 DEF Settled
<1>2. CASE DispatchedTo(a, t)
  <2> DEFINE new == [state |-> IF delivered THEN "delivered" ELSE "queued",
                     attempt |-> IF delivered THEN t ELSE None,
                     delivery |-> messages[a].delivery]
  <2>1. messages' = [messages EXCEPT ![a] = new]
    BY <1>2 DEF Settled
  <2>2. new \in MessageRecord
    BY <1>2 DEF DispatchedTo, TypeOK, MessageRecord
  <2>3. messages'[a] = new /\ \A b \in Activity : b # a => messages'[b] = messages[b]
    BY <2>1 DEF TypeOK
  <2>4. messages'[a] # None
    BY <2>2, <2>3, NoneAssumption
  <2> QED
    BY <1>2, <2>3, <2>4
<1> QED
  BY <1>1, <1>2

\* A report delivers the Message its launch held; a launch that failed to start
\* gives it back.
LEMMA SettlingKeepsMessages ==
  ASSUME Foundation, IdentitiesKept, ReportsSound, MessagesSound, pauses' = pauses,
         NEW t \in Attempt, NEW kind \in StartFailures \cup {"result"},
         MayRecord(t, kind), AddMilestone(t, kind),
         messages' = Settled(attempts[t].activity, t, kind = "result")
  PROVE  MessagesSound'
<1>0. PICK a \in Activity : a = attempts[t].activity
  BY MayRecordAnswering DEF Kinds, StartFailures
<1>1. /\ attempts[t] # None /\ Known(a) /\ t \in AttemptsOf(a)
      /\ \A u \in AttemptsOf(a) \ {t} : ~Answering(u) /\ ~Reported(u)
      /\ messages[a] # None => DispatchedTo(a, t)
      /\ Answering(t)
  BY <1>0, MayRecordAnswering DEF Kinds, StartFailures
<1>2. /\ attempts'[t] # None /\ attempts'[t].activity = a
      /\ attempts'[t].milestones = attempts[t].milestones \cup {kind}
      /\ \A u \in Attempt : u # t => attempts'[u] = attempts[u]
  BY <1>0, <1>1, AddMilestoneEffect DEF Foundation, Kinds, StartFailures
<1>3. /\ \A b \in Activity : AttemptsOf(b)' = AttemptsOf(b)
      /\ \A b \in Activity : \A u \in AttemptsOf(b) : u \in Attempt /\ attempts[u] # None
      /\ \A u \in Attempt : u # t /\ attempts[u] # None =>
            (Reported(u)' <=> Reported(u)) /\ (Answering(u)' <=> Answering(u))
  BY <1>0, <1>1, <1>2, MilestonePeers
<1>4. /\ \A b \in Activity : b # a => messages'[b] = messages[b]
      /\ messages[a] = None => messages'[a] = None
      /\ messages[a] # None /\ kind = "result" =>
            messages'[a].state = "delivered" /\ messages'[a].attempt = t
      /\ messages[a] # None /\ kind # "result" => messages'[a].state = "queued"
  BY <1>0, <1>1, SettledEffect DEF Foundation, DispatchedTo
<1>5. ~Answering(t)' /\ (Reported(t)' <=> kind = "result")
  BY <1>1, <1>2 DEF Answering, Reported, StartFailures
<1>6. ASSUME NEW b \in Activity, b # a
      PROVE  MessageSound(b)'
  <2>1. \A u \in AttemptsOf(b) : u # t
    BY <1>0, <1>6 DEF AttemptsOf
  <2> QED
    BY <1>3, <1>4, <1>6, <2>1, MessageFramed DEF MessagesSound
<1>7. MessageSound(a)'
  <2>1. \A u \in AttemptsOf(a)' : u # t => ~Answering(u)' /\ ~Reported(u)'
    BY <1>1, <1>3
  <2>2. t \in AttemptsOf(a)' /\ Known(a)'
    BY <1>1, <1>3 DEF IdentitiesKept, Known
  <2> QED
    BY <1>4, <1>5, <2>1, <2>2 DEF MessageSound
<1> QED
  BY <1>6, <1>7 DEF MessagesSound

\* Requeued returns to the queue what the given launches hold, and nothing else.
LEMMA RequeuedEffect ==
  ASSUME TypeOK, NEW T \in SUBSET Attempt, messages' = Requeued(T), NEW a \in Activity
  PROVE  IF \E t \in T : DispatchedTo(a, t)
         THEN messages'[a] # None /\ messages'[a].state = "queued"
         ELSE messages'[a] = messages[a]
<1>1. CASE \E t \in T : DispatchedTo(a, t)
  <2> DEFINE new == [messages[a] EXCEPT !.state = "queued", !.attempt = None]
  <2>1. messages[a] \in MessageRecord
    BY <1>1 DEF DispatchedTo, TypeOK
  <2>2. new \in MessageRecord /\ new.state = "queued"
    BY <2>1 DEF MessageRecord
  <2>3. messages'[a] = new
    BY <1>1 DEF Requeued
  <2> QED
    BY <1>1, <2>2, <2>3, NoneAssumption
<1>2. CASE ~\E t \in T : DispatchedTo(a, t)
  BY <1>2 DEF Requeued
<1> QED
  BY <1>1, <1>2

\* Launches that stop answering give back the Messages they hold.
LEMMA HaltedKeepsMessages ==
  ASSUME IdentitiesKept, MessagesSound, NEW T \in SUBSET Attempt,
         \A a \in Activity : AttemptsOf(a)' = AttemptsOf(a),
         \A u \in Attempt : attempts[u] # None =>
           (Reported(u)' <=> Reported(u)) /\ (Answering(u)' <=> Answering(u) /\ u \notin T),
         \A a \in Activity :
           IF \E t \in T : DispatchedTo(a, t)
           THEN messages'[a] # None /\ messages'[a].state = "queued"
           ELSE messages'[a] = messages[a]
  PROVE  MessagesSound'
<1>1. SUFFICES ASSUME NEW a \in Activity PROVE MessageSound(a)'
  BY DEF MessagesSound
<1>2. MessageSound(a) /\ \A u \in AttemptsOf(a) : u \in Attempt /\ attempts[u] # None
  BY DEF MessagesSound, AttemptsOf
<1>3. CASE \E t \in T : DispatchedTo(a, t)
  <2>1. PICK t \in T : DispatchedTo(a, t)
    BY <1>3
  <2>2. \A u \in AttemptsOf(a) : ~Reported(u) /\ (Answering(u) => u = t)
    BY <1>2, <2>1 DEF MessageSound, DispatchedTo
  <2>3. \A u \in AttemptsOf(a)' : ~Reported(u)' /\ ~Answering(u)'
    BY <1>2, <2>2
  <2>4. Known(a)'
    BY <1>2, <2>1 DEF MessageSound, DispatchedTo, Known, IdentitiesKept
  <2> QED
    BY <1>3, <2>3, <2>4 DEF MessageSound
<1>4. CASE ~\E t \in T : DispatchedTo(a, t)
  <2>1. messages'[a] = messages[a]
    BY <1>4
  <2>2. \A u \in AttemptsOf(a) : Answering(u)' => DispatchedTo(a, u)' \/ messages[a] = None
    BY <1>2, <2>1 DEF MessageSound, DispatchedTo
  <2>3. messages[a] # None /\ messages[a].state = "dispatched" => messages[a].attempt \notin T
    BY <1>4 DEF DispatchedTo
  <2> QED
    BY <1>2, <2>1, <2>2, <2>3 DEF MessageSound, Known, IdentitiesKept
<1> QED
  BY <1>3, <1>4

\* Launches that end answer no more; the others go on as before.
LEMMA EndedAnswering ==
  ASSUME Foundation, IdentitiesKept, NEW T \in SUBSET Attempt,
         \A t \in T : attempts[t] # None /\ HasExit(t)' /\ (Reported(t)' <=> Reported(t)),
         \A t \in T : attempts'[t] # None /\ attempts'[t].activity = attempts[t].activity,
         \A u \in Attempt \ T : attempts'[u] = attempts[u],
         pauses' = PausesAfterRelease(T)
  PROVE  /\ \A a \in Activity : AttemptsOf(a)' = AttemptsOf(a)
         /\ \A u \in Attempt : attempts[u] # None =>
              (Reported(u)' <=> Reported(u)) /\ (Answering(u)' <=> Answering(u) /\ u \notin T)
<1>1. \A a \in Activity : AttemptsOf(a)' = AttemptsOf(a)
  BY DEF AttemptsOf
<1>2. ASSUME NEW u \in Attempt \ T, attempts[u] # None
      PROVE  (Reported(u)' <=> Reported(u)) /\ (Answering(u)' <=> Answering(u))
  <2>1. WorkflowOf(u)' = WorkflowOf(u) /\ WorkflowOf(u) \in Workflow
    BY <1>2, WorkflowKept
  <2>2. pauses'[WorkflowOf(u)] = None <=> pauses[WorkflowOf(u)] = None
    BY <2>1, PausesAfterReleaseEffect DEF Foundation
  <2> QED
    BY <1>2, <2>1, <2>2 DEF Reported, Answering, Live, HasExit
<1>3. \A u \in T : ~Answering(u)'
  BY DEF Answering, Live
<1> QED
  BY <1>1, <1>2, <1>3

\* An exit gives back the Message of a launch without an answer; a launch of an
\* answered Activity holds none.
LEMMA RecordExitKeepsMessages ==
  ASSUME Foundation, IdentitiesKept, ReportsSound, MessagesSound,
         NEW t \in Attempt, NEW succeeded \in BOOLEAN, RecordExit(t, succeeded)
  PROVE  MessagesSound'
<1>1. PICK a \in Activity : a = attempts[t].activity
  BY DEF RecordExit, MayRecord, Foundation, TypeOK, AttemptRecord
<1>2. attempts[t] # None /\ Live(t) /\ t \in AttemptsOf(a)
  BY <1>1 DEF RecordExit, MayRecord, Live, AttemptsOf
<1>3. /\ Reported(t)' <=> Reported(t)
      /\ HasExit(t)' /\ attempts'[t] # None /\ attempts'[t].activity = attempts[t].activity
      /\ \A u \in Attempt : u # t => attempts'[u] = attempts[u]
  BY <1>2, AddMilestoneEffect DEF RecordExit, Kinds, Reported, HasExit, Foundation
<1>4. /\ \A b \in Activity : AttemptsOf(b)' = AttemptsOf(b)
      /\ \A u \in Attempt : attempts[u] # None =>
           (Reported(u)' <=> Reported(u)) /\ (Answering(u)' <=> Answering(u) /\ u \notin {t})
  <2>1. {t} \in SUBSET Attempt /\ pauses' = PausesAfterRelease({t})
    BY DEF RecordExit
  <2> QED
    BY <1>2, <1>3, <2>1, EndedAnswering
<1>5. \A b \in Activity : DispatchedTo(b, t) => b = a /\ ~Reported(t)
  BY <1>1, <1>2 DEF MessagesSound, MessageSound, DispatchedTo, AttemptsOf, Answering, Reported
<1>6. ASSUME NEW b \in Activity
      PROVE  IF \E u \in {t} : DispatchedTo(b, u)
             THEN messages'[b] # None /\ messages'[b].state = "queued"
             ELSE messages'[b] = messages[b]
  <2>1. CASE results[a] = None
    <3>1. messages' = Settled(a, t, FALSE)
      BY <1>1, <2>1 DEF RecordExit
    <3> QED
      BY <1>5, <3>1, SettledEffect DEF Foundation
  <2>2. CASE results[a] # None
    <3>1. messages' = messages /\ Reported(t)
      BY <1>1, <1>2, <2>2, LiveAnswer DEF RecordExit
    <3> QED
      BY <1>5, <3>1
  <2> QED
    BY <2>1, <2>2
<1> QED
  BY <1>4, <1>6, HaltedKeepsMessages

\* A reconciliation gives back the Messages of the launches it ends.
LEMMA ReconcileStartupKeepsMessages ==
  ASSUME Foundation, IdentitiesKept, MessagesSound,
         NEW T \in SUBSET Attempt, ReconcileStartup(T)
  PROVE  MessagesSound'
<1>1. /\ \A t \in T : attempts[t] # None /\ HasExit(t)' /\ (Reported(t)' <=> Reported(t))
      /\ \A t \in T : attempts'[t] # None /\ attempts'[t].activity = attempts[t].activity
      /\ \A u \in Attempt \ T : attempts'[u] = attempts[u]
  BY ReconcileStartupEffect DEF Foundation, Reported, HasExit
<1>2. messages' = Requeued(T) /\ pauses' = PausesAfterRelease(T)
  BY DEF ReconcileStartup
<1>3. /\ \A b \in Activity : AttemptsOf(b)' = AttemptsOf(b)
      /\ \A u \in Attempt : attempts[u] # None =>
           (Reported(u)' <=> Reported(u)) /\ (Answering(u)' <=> Answering(u) /\ u \notin T)
  BY <1>1, <1>2, EndedAnswering
<1> QED
  BY <1>2, <1>3, RequeuedEffect, HaltedKeepsMessages DEF Foundation

\* A pause takes back the Message of every launch it fences, and fences every
\* launch of its Workflow that can answer.
LEMMA PauseWorkflowKeepsMessages ==
  ASSUME Foundation, IdentitiesKept, MessagesSound, NEW w \in Workflow, PauseWorkflow(w)
  PROVE  MessagesSound'
<1>1. /\ Running(w) \in SUBSET Attempt /\ messages' = Requeued(Running(w))
      /\ attempts' = attempts
  BY DEF PauseWorkflow, Running
<1>2. pauses'[w] # None /\ \A v \in Workflow : v # w => pauses'[v] = pauses[v]
  <2> DEFINE new == [phase |-> IF Running(w) = {} THEN "completed" ELSE "draining",
                     fenced |-> Running(w), released |-> {}]
  <2>1. new \in PauseRecord
    BY <1>1 DEF PauseRecord
  <2>2. pauses' = [pauses EXCEPT ![w] = new]
    BY DEF PauseWorkflow
  <2> QED
    BY <2>1, <2>2, NoneAssumption DEF Foundation, TypeOK
<1>3. \A b \in Activity : AttemptsOf(b)' = AttemptsOf(b)
  BY <1>1 DEF AttemptsOf
<1>4. ASSUME NEW u \in Attempt, attempts[u] # None
      PROVE  /\ Reported(u)' <=> Reported(u)
             /\ Answering(u)' <=> Answering(u) /\ u \notin Running(w)
  <2>1. WorkflowOf(u)' = WorkflowOf(u) /\ WorkflowOf(u) \in Workflow
    BY <1>4, WorkflowKept
  <2>2. Answering(u) => (u \in Running(w) <=> WorkflowOf(u) = w)
    BY <1>4 DEF Answering, Running, Live, Foundation, LeaseTracksAttempt
  <2>3. pauses[w] = None /\ (Live(u)' <=> Live(u)) /\ (Reported(u)' <=> Reported(u))
    BY <1>1 DEF PauseWorkflow, Live, HasExit, Reported
  <2> QED
    BY <1>1, <1>2, <2>1, <2>2, <2>3 DEF Answering
<1> QED
  BY <1>1, <1>3, <1>4, RequeuedEffect, HaltedKeepsMessages DEF Foundation

\* Every command keeps Messages sound.
LEMMA StepKeepsMessages ==
  ASSUME Foundation, ReportsSound, MessagesSound, [Next]_vars
  PROVE  MessagesSound'
<1>1. Foundation' /\ IdentitiesKept
  BY StepKeepsFoundation
<1>2. CASE attempts' = attempts /\ pauses' = pauses /\ messages' = messages
  BY <1>1, <1>2, QuietMessages DEF MessagesSound
<1>3. CASE UNCHANGED vars
  BY <1>2, <1>3 DEF vars
<1>4. ASSUME NEW a \in Activity, NEW b \in Activity, NEW s \in Session, NEW g,
             Known(a), NewActivity(b, Successor(a, s, g)), NewMessage(b),
             attempts' = attempts, pauses' = pauses, g \in Nat \ {0}
      PROVE  MessagesSound'
  <2>1. Successor(a, s, g) \in ActivityRecord
    BY <1>4, SuccessorType DEF Foundation
  <2>2. activities[b] = None /\ activities'[b] # None
    BY <1>4, <2>1, NoneAssumption DEF NewActivity, Foundation, TypeOK
  <2> QED
    BY <1>1, <1>4, <2>2, NewMessageSound
<1>5. CASE WorkCommands
  <2>1. attempts' = attempts /\ pauses' = pauses
    BY <1>5, WorkCommandsFrame
  <2>2. ASSUME NEW w \in Workflow, NEW p \in Profiles, NEW n \in Node, NEW k \in Works,
               NEW s \in Session, NEW x \in OrNone(NativeId), NEW a \in Activity,
               StartExecution(w, p, n, k, s, x, a)
        PROVE  MessagesSound'
    BY <1>2, <2>1, <2>2 DEF StartExecution
  <2>3. ASSUME NEW w \in Workflow, NEW n \in Node, NEW k \in Works, NEW deps \in SUBSET Node,
               AddNode(w, n, k, deps)
        PROVE  MessagesSound'
    BY <1>2, <2>1, <2>3 DEF AddNode
  <2>4. ASSUME NEW w \in Workflow, NEW n \in Node, NEW s \in Session, NEW a \in Activity,
               QueueActivity(w, n, s, a)
        PROVE  MessagesSound'
    BY <1>2, <2>1, <2>4 DEF QueueActivity
  <2>5. ASSUME NEW p \in Activity, NEW a \in Activity, ContinueSession(p, a)
        PROVE  MessagesSound'
    <3>1. Known(p) /\ NewMessage(a) /\ activities[p] \in ActivityRecord
      BY <2>5 DEF ContinueSession, Known, Foundation, TypeOK
    <3>2. PICK g \in NextGenerations(activities[p].node, activities[p].generation + 1) :
            NewActivity(a, Successor(p, activities[p].session, g))
      BY <2>5 DEF ContinueSession
    <3>3. g \in Nat \ {0} /\ activities[p].session \in Session
      BY <3>1, GenerationsType DEF ActivityRecord, Foundation
    <3> QED
      BY <1>4, <2>1, <3>1, <3>2, <3>3
  <2>6. ASSUME NEW p \in Activity, NEW r \in Runtime, NEW s \in Session, NEW a \in Activity,
               StartFallback(p, r, s, a)
        PROVE  MessagesSound'
    BY <1>2, <2>1, <2>6 DEF StartFallback
  <2>7. ASSUME NEW a \in Activity, WakeTimeReached(a) PROVE MessagesSound'
    BY <1>2, <2>1, <2>7 DEF WakeTimeReached
  <2> QED
    BY <1>5, <2>2, <2>3, <2>4, <2>5, <2>6, <2>7 DEF WorkCommands
<1>6. CASE ControlCommands
  <2>1. ASSUME NEW w \in Workflow, SettlePause(w) PROVE MessagesSound'
    <3>1. attempts' = attempts /\ messages' = messages
      BY <2>1 DEF SettlePause
    <3>2. ASSUME NEW v \in Workflow PROVE pauses'[v] = None <=> pauses[v] = None
      <4>1. [pauses[w] EXCEPT !.phase = "completed"] \in PauseRecord /\ pauses[w] # None
        BY <2>1 DEF SettlePause, Foundation, TypeOK, PauseRecord
      <4> QED
        BY <2>1, <4>1, NoneAssumption DEF SettlePause, Foundation, TypeOK
    <3>3. \A u \in Attempt : attempts[u] # None =>
            (Reported(u)' <=> Reported(u)) /\ (Answering(u)' <=> Answering(u))
      BY <1>1, <3>1, <3>2, WorkflowKept DEF Reported, Answering, Live, HasExit
    <3>4. \A a \in Activity : /\ AttemptsOf(a)' = AttemptsOf(a)
                              /\ \A u \in AttemptsOf(a) : u \in Attempt /\ attempts[u] # None
      BY <3>1 DEF AttemptsOf
    <3> QED
      BY <1>1, <3>1, <3>3, <3>4, MessageFramed DEF MessagesSound
  <2> QED
    BY <1>1, <1>2, <1>6, <2>1, PauseWorkflowKeepsMessages
    DEF ControlCommands, RequestControl, RequestStaleControl, ApplyControl
<1>7. CASE DecisionCommands
  <2>1. ASSUME NEW a \in Activity, NEW b \in Activity, NEW t \in Attempt, DecideContinue(a, t, b)
        PROVE  MessagesSound'
    <3>1. CASE ExistingContinuations(a) # {}
      BY <1>2, <2>1, <3>1 DEF DecideContinue
    <3>2. CASE ExistingContinuations(a) = {}
      <4>1. Known(a) /\ NewMessage(b) /\ activities[a] \in ActivityRecord
            /\ attempts' = attempts /\ pauses' = pauses
        BY <2>1, <3>2 DEF DecideContinue, Decidable, Known, Foundation, TypeOK
      <4>2. PICK g \in NextGenerations(activities[a].node, activities[a].generation + 1) :
              NewActivity(b, Successor(a, activities[a].session, g))
        BY <2>1, <3>2 DEF DecideContinue
      <4>3. g \in Nat \ {0} /\ activities[a].session \in Session
        BY <4>1, GenerationsType DEF ActivityRecord, Foundation
      <4> QED
        BY <1>4, <4>1, <4>2, <4>3
    <3> QED
      BY <3>1, <3>2
  <2> QED
    BY <1>2, <1>7, <2>1 DEF DecisionCommands, DecideStop
<1>8. CASE AttemptCommands
  <2>1. ASSUME NEW t \in Attempt, RecordSpawned(t) PROVE MessagesSound'
    <3>1. messages' = messages /\ pauses' = pauses /\ MayRecord(t, "process_spawned")
          /\ AddMilestone(t, "process_spawned")
      BY <2>1 DEF RecordSpawned
    <3> QED
      BY <1>1, <3>1, ProgressKeepsMessages
  <2>2. ASSUME NEW t \in Attempt, NEW x \in NativeId, RecordSessionBound(t, x)
        PROVE  MessagesSound'
    BY <1>2, <2>2 DEF RecordSessionBound
  <2>3. ASSUME NEW t \in Attempt, RecordTurnStarted(t) PROVE MessagesSound'
    <3>1. messages' = messages /\ pauses' = pauses /\ MayRecord(t, "turn_started")
          /\ AddMilestone(t, "turn_started")
      BY <2>3 DEF RecordTurnStarted
    <3> QED
      BY <1>1, <3>1, ProgressKeepsMessages
  <2>4. ASSUME NEW t \in Attempt, NEW status \in WorkerStatus, RecordResult(t, status)
        PROVE  MessagesSound'
    <3>1. /\ pauses' = pauses /\ MayRecord(t, "result") /\ AddMilestone(t, "result")
          /\ messages' = Settled(attempts[t].activity, t, "result" = "result")
      BY <2>4 DEF RecordResult
    <3> QED
      BY <1>1, <3>1, SettlingKeepsMessages
  <2>5. ASSUME NEW t \in Attempt, NEW kind \in StartFailures, RecordStartFailure(t, kind)
        PROVE  MessagesSound'
    <3>1. /\ pauses' = pauses /\ MayRecord(t, kind) /\ AddMilestone(t, kind)
          /\ messages' = Settled(attempts[t].activity, t, kind = "result")
      BY <2>5 DEF RecordStartFailure, StartFailures
    <3> QED
      BY <1>1, <3>1, SettlingKeepsMessages
  <2> QED
    BY <1>1, <1>8, <2>1, <2>2, <2>3, <2>4, <2>5, PrepareAttemptKeepsMessages,
       RecordExitKeepsMessages, ReconcileStartupKeepsMessages DEF AttemptCommands
<1> QED
  BY <1>3, <1>5, <1>6, <1>7, <1>8 DEF Next

\* What one step may do to an Activity's Result: nothing, or give it its first, by
\* the report of a launch that no evaluator judges, by an exit in session mode or
\* by the decision about a goal's reported and exited launch.
ResultStep(a) ==
  \/ results'[a] = results[a]
  \/ \E t \in Attempt, status \in WorkerStatus :
       /\ results[a] = None /\ t \in AttemptsOf(a)
       /\ results'[a] = [attempt |-> t, status |-> status]
       /\ \/ /\ RecordResult(t, status)
             /\ ~workflows[activities[a].workflow].goal
             /\ status # "continue"
          \/ /\ \E succeeded \in BOOLEAN : RecordExit(t, succeeded)
             /\ workflows[activities[a].workflow].sessionMode
             /\ status \in {"completed", "blocked"}
          \/ DecideStop(a, t, status) /\ status # "continue"
          \/ (\E b \in Activity : DecideContinue(a, t, b)) /\ status = "continue"

\* Every command is a ResultStep of every Activity.
LEMMA StepOnResults ==
  ASSUME Foundation, ReportsSound, [Next]_vars
  PROVE  \A a \in Activity : ResultStep(a)
<1>1. SUFFICES ASSUME NEW a \in Activity, results'[a] # results[a] PROVE ResultStep(a)
  BY DEF ResultStep
<1>2. results[a] = None
  BY <1>1, StepKeepsReports
<1>3. ASSUME NEW t \in Attempt, NEW status \in WorkerStatus, RecordResult(t, status)
      PROVE  ResultStep(a)
  <2>1. /\ attempts[t] # None /\ ~ProfileOf(t).goal
        /\ results' = [results EXCEPT ![attempts[t].activity] = [attempt |-> t, status |-> status]]
    BY <1>1, <1>3 DEF RecordResult, MayRecord
  <2>2. a = attempts[t].activity /\ results'[a] = [attempt |-> t, status |-> status]
    BY <1>1, <2>1 DEF Foundation, TypeOK
  <2>3. t \in AttemptsOf(a) /\ ProfileOf(t) = workflows[activities[a].workflow]
    BY <2>1, <2>2 DEF AttemptsOf, ProfileOf, WorkflowOf, ActivityOf
  <2>4. status # "continue"
    BY <1>3, <2>1 DEF RecordResult
  <2> QED
    BY <1>2, <1>3, <2>1, <2>2, <2>3, <2>4 DEF ResultStep
<1>4. ASSUME NEW t \in Attempt, NEW succeeded \in BOOLEAN, RecordExit(t, succeeded)
      PROVE  ResultStep(a)
  <2> DEFINE status == IF succeeded THEN "completed" ELSE "blocked"
  <2>1. /\ attempts[t] # None /\ ProfileOf(t).sessionMode
        /\ results' = [results EXCEPT ![attempts[t].activity] = [attempt |-> t, status |-> status]]
    BY <1>1, <1>4 DEF RecordExit, MayRecord
  <2>2. a = attempts[t].activity /\ results'[a] = [attempt |-> t, status |-> status]
    BY <1>1, <2>1 DEF Foundation, TypeOK
  <2>3. t \in AttemptsOf(a) /\ ProfileOf(t) = workflows[activities[a].workflow]
    BY <2>1, <2>2 DEF AttemptsOf, ProfileOf, WorkflowOf, ActivityOf
  <2>4. status \in {"completed", "blocked"} /\ status \in WorkerStatus
    BY DEF WorkerStatus
  <2> HIDE DEF status
  <2> QED
    BY <1>2, <1>4, <2>1, <2>2, <2>3, <2>4 DEF ResultStep
<1>5. ASSUME NEW c \in Activity, NEW t \in Attempt, NEW status \in {"completed", "needs_human"},
             DecideStop(c, t, status)
      PROVE  ResultStep(a)
  <2>1. c = a /\ results'[a] = [attempt |-> t, status |-> status]
    BY <1>1, <1>5 DEF DecideStop, Foundation, TypeOK
  <2>2. t \in AttemptsOf(a) /\ status \in WorkerStatus /\ status # "continue"
    BY <1>5, <2>1 DEF DecideStop, Decidable, WorkerStatus
  <2> QED
    BY <1>2, <1>5, <2>1, <2>2 DEF ResultStep
<1>6. ASSUME NEW c \in Activity, NEW b \in Activity, NEW t \in Attempt, DecideContinue(c, t, b)
      PROVE  ResultStep(a)
  <2>1. c = a /\ results'[a] = [attempt |-> t, status |-> "continue"]
    BY <1>1, <1>6 DEF DecideContinue, Foundation, TypeOK
  <2>2. t \in AttemptsOf(a) /\ "continue" \in WorkerStatus
    BY <1>6, <2>1 DEF DecideContinue, Decidable, WorkerStatus
  <2> QED
    BY <1>2, <1>6, <2>1, <2>2 DEF ResultStep
<1>7. CASE WorkCommands
  BY <1>1, <1>7, WorkCommandsFrame
<1>8. CASE AttemptCommands
  BY <1>1, <1>3, <1>4, <1>8
  DEF AttemptCommands, PrepareAttempt, RecordSpawned, RecordSessionBound, RecordTurnStarted,
      RecordStartFailure, ReconcileStartup
<1>9. CASE DecisionCommands
  BY <1>5, <1>6, <1>9 DEF DecisionCommands
<1>10. CASE ControlCommands
  BY <1>1, <1>10 DEF ControlCommands, RequestControl, RequestStaleControl, ApplyControl,
     PauseWorkflow, SettlePause
<1>11. CASE UNCHANGED vars
  BY <1>1, <1>11 DEF vars
<1> QED
  BY <1>7, <1>8, <1>9, <1>10, <1>11 DEF Next

\* What one step may record of an existing launch: nothing, one milestone that
\* its command names, or its end by a reconciliation.
HistoryStep(t) ==
  \/ attempts'[t].milestones = attempts[t].milestones
  \/ \E kind \in Kinds : /\ MayRecord(t, kind)
                         /\ attempts'[t].milestones = attempts[t].milestones \cup {kind}
                         /\ kind = "turn_started" => RecordTurnStarted(t)
                         /\ kind = "result" => \E s \in WorkerStatus : RecordResult(t, s)
                         /\ kind \in StartFailures => RecordStartFailure(t, kind)
  \/ /\ Live(t)
     /\ attempts[t].milestones \cup {"exit"} \subseteq attempts'[t].milestones
     /\ attempts'[t].milestones \subseteq
          attempts[t].milestones \cup {"exit", "adapter_start_failed"}

\* Every command is a HistoryStep of every existing Attempt.
LEMMA StepOnHistories ==
  ASSUME Foundation, [Next]_vars
  PROVE  \A t \in Attempt : attempts[t] # None => HistoryStep(t)
<1> DEFINE Goal == \A t \in Attempt : attempts[t] # None => HistoryStep(t)
<1>1. CASE attempts' = attempts
  BY <1>1 DEF HistoryStep
<1>2. ASSUME NEW t \in Attempt, NEW kind \in Kinds, MayRecord(t, kind), AddMilestone(t, kind),
             kind = "turn_started" => RecordTurnStarted(t),
             kind = "result" => \E s \in WorkerStatus : RecordResult(t, s),
             kind \in StartFailures => RecordStartFailure(t, kind)
      PROVE  Goal
  <2>1. /\ attempts'[t].milestones = attempts[t].milestones \cup {kind}
        /\ \A u \in Attempt : u # t => attempts'[u] = attempts[u]
    BY <1>2, AddMilestoneEffect DEF MayRecord, Foundation
  <2> QED
    BY <1>2, <2>1 DEF HistoryStep
<1>3. CASE AttemptCommands
  <2>1. ASSUME NEW a \in Activity, NEW r \in Runtime, NEW t \in Attempt, PrepareAttempt(a, r, t)
        PROVE  Goal
    BY <2>1, PrepareAttemptEffect DEF HistoryStep, Foundation
  <2>2. ASSUME NEW t \in Attempt, RecordSpawned(t) PROVE Goal
    BY <1>2, <2>2 DEF RecordSpawned, Kinds, StartFailures
  <2>3. ASSUME NEW t \in Attempt, NEW x \in NativeId, RecordSessionBound(t, x) PROVE Goal
    BY <1>1, <2>3 DEF RecordSessionBound
  <2>4. ASSUME NEW t \in Attempt, RecordTurnStarted(t) PROVE Goal
    <3>1. MayRecord(t, "turn_started") /\ AddMilestone(t, "turn_started")
      BY <2>4 DEF RecordTurnStarted
    <3> QED
      BY <1>2, <2>4, <3>1 DEF Kinds, StartFailures
  <2>5. ASSUME NEW t \in Attempt, NEW status \in WorkerStatus, RecordResult(t, status) PROVE Goal
    <3>1. MayRecord(t, "result") /\ AddMilestone(t, "result")
      BY <2>5 DEF RecordResult
    <3> QED
      BY <1>2, <2>5, <3>1 DEF Kinds, StartFailures
  <2>6. ASSUME NEW t \in Attempt, NEW kind \in StartFailures, RecordStartFailure(t, kind)
        PROVE  Goal
    <3>1. MayRecord(t, kind) /\ AddMilestone(t, kind)
      BY <2>6 DEF RecordStartFailure
    <3>2. kind \in Kinds /\ kind # "turn_started" /\ kind # "result"
      BY DEF Kinds, StartFailures
    <3> QED
      BY <1>2, <2>6, <3>1, <3>2
  <2>7. ASSUME NEW t \in Attempt, NEW succeeded \in BOOLEAN, RecordExit(t, succeeded) PROVE Goal
    <3>1. MayRecord(t, "exit") /\ AddMilestone(t, "exit")
      BY <2>7 DEF RecordExit
    <3> QED
      BY <1>2, <3>1 DEF Kinds, StartFailures
  <2>8. ASSUME NEW T \in SUBSET Attempt, ReconcileStartup(T) PROVE Goal
    <3>1. \A t \in T : Live(t)
      BY <2>8 DEF ReconcileStartup
    <3> QED
      BY <2>8, <3>1, ReconcileStartupEffect DEF HistoryStep, Foundation
  <2> QED
    BY <1>3, <2>1, <2>2, <2>3, <2>4, <2>5, <2>6, <2>7, <2>8 DEF AttemptCommands
<1>4. CASE WorkCommands
  BY <1>1, <1>4, WorkCommandsFrame
<1>5. CASE DecisionCommands
  BY <1>1, <1>5 DEF DecisionCommands, DecideStop, DecideContinue
<1>6. CASE ControlCommands
  BY <1>1, <1>6 DEF ControlCommands, RequestControl, RequestStaleControl, ApplyControl,
     PauseWorkflow, SettlePause
<1>7. CASE UNCHANGED vars
  BY <1>1, <1>7 DEF vars
<1> QED
  BY <1>3, <1>4, <1>5, <1>6, <1>7 DEF Next

\* Outside session mode a Result comes with the report of the launch it names.
LEMMA StepKeepsReportsAnswer ==
  ASSUME Foundation, ReportsSound, ReportsAnswer, [Next]_vars
  PROVE  ReportsAnswer'
<1>1. Foundation' /\ IdentitiesKept
  BY StepKeepsFoundation
<1>2. \A t \in Attempt : attempts[t] # None /\ Reported(t) => Reported(t)'
  <2>1. \A t \in Attempt : attempts[t] # None => HistoryStep(t)
    BY StepOnHistories
  <2> QED
    BY <2>1 DEF HistoryStep, Reported
<1>3. SUFFICES ASSUME NEW a \in Activity, results'[a] # None,
                      ~workflows'[activities'[a].workflow].sessionMode
               PROVE  "result" \in attempts'[results'[a].attempt].milestones
  BY DEF ReportsAnswer, Reported
<1>4. Known(a) => workflows'[activities'[a].workflow] = workflows[activities[a].workflow]
  <2>1. Known(a) => /\ activities[a].workflow \in Workflow
                    /\ workflows[activities[a].workflow] # None
    BY DEF Foundation, TypeOK, StateValid, Known, ActivityRecord
  <2> QED
    BY <1>1, <2>1 DEF IdentitiesKept, Known
<1>5. CASE results'[a] = results[a]
  <2>1. Known(a) /\ results[a].attempt \in AttemptsOf(a)
    BY <1>3, <1>5 DEF Foundation, StateValid
  <2>2. Reported(results[a].attempt)
    BY <1>3, <1>4, <1>5, <2>1 DEF ReportsAnswer
  <2> QED
    BY <1>2, <1>5, <2>1, <2>2 DEF AttemptsOf, Reported
<1>6. ASSUME NEW t \in AttemptsOf(a), NEW status \in WorkerStatus,
             results'[a] = [attempt |-> t, status |-> status], RecordResult(t, status)
      PROVE  "result" \in attempts'[results'[a].attempt].milestones
  <2>1. t \in Attempt /\ attempts[t] # None /\ AddMilestone(t, "result")
    BY <1>6 DEF RecordResult, MayRecord, AttemptsOf
  <2>2. "result" \in attempts'[t].milestones
    BY <2>1, AddMilestoneEffect DEF Foundation, Kinds
  <2> QED
    BY <1>6, <2>2
<1>7. ASSUME NEW t \in AttemptsOf(a), results'[a].attempt = t, Decidable(a, t)
      PROVE  "result" \in attempts'[results'[a].attempt].milestones
  <2>1. t \in Attempt /\ attempts[t] # None /\ Reported(t)
    BY <1>7 DEF Decidable, Reported, AttemptsOf
  <2>2. Reported(t)'
    BY <1>2, <2>1
  <2> QED
    BY <1>7, <2>2 DEF Reported
<1>8. \A t \in AttemptsOf(a) : Known(a)
  BY DEF AttemptsOf, Foundation, StateValid
<1>9. \A t \in AttemptsOf(a), status \in WorkerStatus, b \in Activity :
        DecideStop(a, t, status) \/ DecideContinue(a, t, b) => Decidable(a, t)
  BY DEF DecideStop, DecideContinue
<1>10. CASE results'[a] # results[a]
  <2>1. ResultStep(a)
    BY StepOnResults
  <2>2. PICK t \in Attempt, status \in WorkerStatus :
          /\ t \in AttemptsOf(a)
          /\ results'[a] = [attempt |-> t, status |-> status]
          /\ \/ RecordResult(t, status)
             \/ workflows[activities[a].workflow].sessionMode
             \/ DecideStop(a, t, status) \/ (\E b \in Activity : DecideContinue(a, t, b))
    BY <1>10, <2>1 DEF ResultStep
  <2>3. ~workflows[activities[a].workflow].sessionMode
    BY <1>3, <1>4, <1>8, <2>2
  <2> QED
    BY <1>6, <1>7, <1>9, <2>2, <2>3
<1> QED
  BY <1>5, <1>10

\* The invariant of Messages holds of the specification.
LEMMA MessagesStaySound == Spec => [](MessagesSound /\ ReportsAnswer)
<1>1. Init => MessagesSound /\ ReportsAnswer
  BY DEF Init, MessagesSound, MessageSound, ReportsAnswer
<1> QED
  BY <1>1, FoundationHolds, ReportsStaySound, StepKeepsMessages, StepKeepsReportsAnswer, PTL
  DEF Spec

\* However launches fail, exit, are paused or reconciled, a dispatched Message is
\* with a live launch that can answer it, and an answered Activity's Message was
\* delivered to the launch that answered.
THEOREM MessagesAreFollowed == Spec => []MessagesFollowTurns
<1>1. ASSUME Foundation, MessagesSound, ReportsAnswer PROVE MessagesFollowTurns
  <2>1. SUFFICES ASSUME NEW a \in Activity, messages[a] # None
                 PROVE  /\ messages[a].state = "dispatched" =>
                            LET t == messages[a].attempt IN
                            /\ t \in AttemptsOf(a)
                            /\ Live(t)
                            /\ attempts[t].milestones \cap (StartFailures \cup {"result"}) = {}
                            /\ pauses[activities[a].workflow] = None
                        /\ results[a] # None /\ ~workflows[activities[a].workflow].sessionMode =>
                            /\ messages[a].state = "delivered"
                            /\ messages[a].attempt = results[a].attempt
    BY DEF MessagesFollowTurns
  <2>2. MessageSound(a)
    BY <1>1 DEF MessagesSound
  <2>3. ASSUME NEW t \in AttemptsOf(a), Answering(t)
        PROVE  /\ Live(t)
               /\ attempts[t].milestones \cap (StartFailures \cup {"result"}) = {}
               /\ pauses[activities[a].workflow] = None
    BY <2>3 DEF Answering, AttemptsOf, WorkflowOf, ActivityOf
  <2>4. messages[a].state = "dispatched" =>
          messages[a].attempt \in AttemptsOf(a) /\ Answering(messages[a].attempt)
    BY <2>1, <2>2 DEF MessageSound
  <2>5. results[a] # None /\ ~workflows[activities[a].workflow].sessionMode =>
          messages[a].state = "delivered" /\ messages[a].attempt = results[a].attempt
    BY <1>1, <2>1, <2>2 DEF MessageSound, ReportsAnswer, Foundation, StateValid
  <2> QED
    BY <2>3, <2>4, <2>5
<1> QED
  BY <1>1, FoundationHolds, MessagesStaySound, PTL


-----------------------------------------------------------------------------
(* New Activities.  Whichever command queues one, it gets a Session nobody    *)
(* used, a Node nobody worked on, or a generation above every one of its Node. *)

\* What one step may do to the Activities: nothing, or create one that no known
\* Activity is confused with.
ActivityStep ==
  \/ activities' = activities
  \/ \E a \in Activity, record \in ActivityRecord :
       /\ activities[a] = None
       /\ activities' = [activities EXCEPT ![a] = record]
       /\ attempts' = attempts
       /\ \A b \in Activity :
            /\ Known(b)
            /\ activities[b].node = record.node
            /\ activities[b].generation = record.generation
            => activities[b].session # record.session

\* The next generation of a Node is above every existing one.
LEMMA NextGenerationIsNew ==
  ASSUME TypeOK, NEW n \in Node, NEW minimum \in Nat, NEW g \in NextGenerations(n, minimum),
         NEW b \in Activity, Known(b), activities[b].node = n
  PROVE  activities[b].generation # g
<1>1. activities[b].generation \in Nat
  BY DEF TypeOK, Known, ActivityRecord
<1>2. activities[b].generation + 1 \in GenerationsFrom(n, minimum)
  BY DEF GenerationsFrom
<1>3. activities[b].generation + 1 <= g
  BY <1>2 DEF NextGenerations
<1> QED
  BY <1>1, <1>3

\* A reply or a next turn gets a generation of its own.
LEMMA SuccessorIsNew ==
  ASSUME Foundation, attempts' = attempts, NEW p \in Activity, NEW a \in Activity, Known(p),
         \E g \in NextGenerations(activities[p].node, activities[p].generation + 1) :
           NewActivity(a, Successor(p, activities[p].session, g))
  PROVE  ActivityStep
<1>1. activities[p] \in ActivityRecord
  BY DEF Foundation, TypeOK, Known
<1>2. PICK g \in NextGenerations(activities[p].node, activities[p].generation + 1) :
        NewActivity(a, Successor(p, activities[p].session, g))
  OBVIOUS
<1>3. g \in Nat \ {0} /\ activities[p].session \in Session /\ activities[p].node \in Node
  BY <1>1, GenerationsType DEF ActivityRecord, Foundation
<1> DEFINE record == Successor(p, activities[p].session, g)
<1>4. record \in ActivityRecord
  BY <1>3, SuccessorType DEF Foundation
<1>5. record.node = activities[p].node /\ record.generation = g
  BY <1>1 DEF Successor, ActivityRecord
<1>6. \A b \in Activity : Known(b) /\ activities[b].node = record.node
        => activities[b].generation # record.generation
  BY <1>1, <1>3, <1>5, NextGenerationIsNew DEF Foundation, ActivityRecord
<1> HIDE DEF record
<1>7. activities[a] = None /\ activities' = [activities EXCEPT ![a] = record]
  BY <1>2 DEF NewActivity, record
<1> QED
  BY <1>4, <1>6, <1>7 DEF ActivityStep

\* A fresh Session is no known Activity's.
LEMMA FreshSession ==
  ASSUME Foundation, NEW s \in Session, sessions[s] = None, NEW b \in Activity, Known(b)
  PROVE  activities[b].session # s
  BY DEF Foundation, StateValid

\* A command that queues an Activity on a fresh Session.
LEMMA OnFreshSession ==
  ASSUME Foundation, attempts' = attempts, NEW a \in Activity, NEW record \in ActivityRecord,
         NEW s \in Session, record.session = s, sessions[s] = None, activities[a] = None,
         activities' = [activities EXCEPT ![a] = record]
  PROVE  ActivityStep
<1>1. \A b \in Activity : Known(b) => activities[b].session # record.session
  BY FreshSession
<1> QED
  BY <1>1 DEF ActivityStep

\* Every command is an ActivityStep.
LEMMA StepOnActivities ==
  ASSUME Foundation, [Next]_vars
  PROVE  ActivityStep
<1>1. CASE WorkCommands
  <2>0. attempts' = attempts
    BY <1>1, WorkCommandsFrame
  <2>1. ASSUME NEW w \in Workflow, NEW p \in Profiles, NEW n \in Node, NEW k \in Works,
               NEW s \in Session, NEW x \in OrNone(NativeId), NEW a \in Activity,
               StartExecution(w, p, n, k, s, x, a)
        PROVE  ActivityStep
    <3> DEFINE record == [workflow |-> w, node |-> n, session |-> s, generation |-> 1,
                          parent |-> None, bindings |-> NoBindings]
    <3>1. record \in ActivityRecord /\ record.session = s
      BY DEF ActivityRecord, NoBindings
    <3>2. activities[a] = None /\ activities' = [activities EXCEPT ![a] = record]
          /\ sessions[s] = None
      BY <2>1 DEF StartExecution, NewActivity, NewSession
    <3> HIDE DEF record
    <3> QED
      BY <2>0, <3>1, <3>2, OnFreshSession
  <2>2. ASSUME NEW w \in Workflow, NEW n \in Node, NEW s \in Session, NEW a \in Activity,
               QueueActivity(w, n, s, a)
        PROVE  ActivityStep
    <3>1. PICK f \in Bindings(w, n) :
            NewActivity(a, [workflow |-> w, node |-> n, session |-> s, generation |-> 1,
                            parent |-> None, bindings |-> f])
      BY <2>2 DEF QueueActivity
    <3> DEFINE record == [workflow |-> w, node |-> n, session |-> s, generation |-> 1,
                          parent |-> None, bindings |-> f]
    <3>2. record \in ActivityRecord /\ record.node = n
      BY <3>1 DEF ActivityRecord, Bindings
    <3>3. activities[a] = None /\ activities' = [activities EXCEPT ![a] = record]
      BY <3>1 DEF NewActivity
    <3>4. \A b \in Activity : Known(b) => activities[b].node # n
      BY <2>2 DEF QueueActivity
    <3> HIDE DEF record
    <3> QED
      BY <2>0, <3>2, <3>3, <3>4 DEF ActivityStep
  <2>3. ASSUME NEW p \in Activity, NEW a \in Activity, ContinueSession(p, a)
        PROVE  ActivityStep
    BY <2>0, <2>3, SuccessorIsNew DEF ContinueSession
  <2>4. ASSUME NEW p \in Activity, NEW r \in Runtime, NEW s \in Session, NEW a \in Activity,
               StartFallback(p, r, s, a)
        PROVE  ActivityStep
    <3> DEFINE record == Successor(p, s, activities[p].generation)
    <3>1. Known(p) /\ activities[p] \in ActivityRecord /\ sessions[s] = None
      BY <2>4 DEF StartFallback, Foundation, TypeOK, Known, NewSession
    <3>2. record \in ActivityRecord /\ record.session = s
      <4>1. activities[p].generation \in Nat \ {0}
        BY <3>1 DEF ActivityRecord
      <4>2. record \in ActivityRecord
        BY <3>1, <4>1, SuccessorType DEF Foundation
      <4>3. record.session = s
        BY <3>1 DEF Successor, ActivityRecord
      <4> QED
        BY <4>2, <4>3
    <3>3. activities[a] = None /\ activities' = [activities EXCEPT ![a] = record]
      BY <2>4 DEF StartFallback, NewActivity
    <3> HIDE DEF record
    <3> QED
      BY <2>0, <3>1, <3>2, <3>3, OnFreshSession
  <2> QED
    BY <1>1, <2>1, <2>2, <2>3, <2>4 DEF WorkCommands, AddNode, WakeTimeReached, ActivityStep
<1>2. CASE DecisionCommands
  <2>1. ASSUME NEW a \in Activity, NEW b \in Activity, NEW t \in Attempt, DecideContinue(a, t, b)
        PROVE  ActivityStep
    BY <2>1, SuccessorIsNew DEF DecideContinue, Decidable, ActivityStep
  <2> QED
    BY <1>2, <2>1 DEF DecisionCommands, DecideStop, ActivityStep
<1>3. CASE AttemptCommands
  BY <1>3 DEF AttemptCommands, PrepareAttempt, RecordSpawned, RecordSessionBound,
     RecordTurnStarted, RecordResult, RecordStartFailure, RecordExit, ReconcileStartup,
     ActivityStep
<1>4. CASE ControlCommands
  BY <1>4 DEF ControlCommands, RequestControl, RequestStaleControl, ApplyControl,
     PauseWorkflow, SettlePause, ActivityStep
<1>5. CASE UNCHANGED vars
  BY <1>5 DEF vars, ActivityStep
<1> QED
  BY <1>1, <1>2, <1>3, <1>4, <1>5 DEF Next

\* An ActivityStep creates no generation twice on one Session.
LEMMA StepKeepsGenerations ==
  ASSUME Foundation, GenerationsIdentifyTurns, [Next]_vars
  PROVE  GenerationsIdentifyTurns'
<1>1. CASE activities' = activities
  BY <1>1 DEF GenerationsIdentifyTurns, Known
<1>2. ASSUME NEW a \in Activity, NEW record \in ActivityRecord,
             activities[a] = None,
             activities' = [activities EXCEPT ![a] = record],
             \A b \in Activity :
               /\ Known(b)
               /\ activities[b].node = record.node
               /\ activities[b].generation = record.generation
               => activities[b].session # record.session
      PROVE  GenerationsIdentifyTurns'
  <2>1. activities'[a] = record /\ \A b \in Activity : b # a => activities'[b] = activities[b]
    BY <1>2 DEF Foundation, TypeOK
  <2> QED
    BY <1>2, <2>1 DEF GenerationsIdentifyTurns, Known
<1> QED
  BY <1>1, <1>2, StepOnActivities DEF ActivityStep

\* However replies, continuations and fallbacks race for a Node's next turn, the
\* Activities of one generation are told apart by their Sessions.
THEOREM GenerationsAreDistinct == Spec => []GenerationsIdentifyTurns
<1>1. Init => GenerationsIdentifyTurns
  BY DEF Init, GenerationsIdentifyTurns, Known
<1> QED
  BY <1>1, FoundationHolds, StepKeepsGenerations, PTL DEF Spec

-----------------------------------------------------------------------------
(* The Session a continue decision leaves behind. *)

\* A continue Result comes from DecideContinue only, which finds or queues an
\* unresolved Activity of the Session.
LEMMA ContinuedSessionStaysOpen ==
  ASSUME Foundation, ReportsSound, [Next]_vars,
         NEW a \in Activity, results[a] = None, results'[a] # None,
         results'[a].status = "continue"
  PROVE  \E b \in Activity : /\ b # a /\ activities'[b] # None /\ results'[b] = None
                             /\ activities'[b].session = activities[a].session
                             /\ activities'[b].node = activities[a].node
<1>1. ResultStep(a)
  BY StepOnResults
<1>2. PICK t \in Attempt, b \in Activity : DecideContinue(a, t, b)
  <2>1. results'[a] # results[a]
    OBVIOUS
  <2>2. PICK t \in Attempt, status \in WorkerStatus :
          /\ results'[a] = [attempt |-> t, status |-> status]
          /\ \/ status # "continue"
             \/ status \in {"completed", "blocked"}
             \/ \E b \in Activity : DecideContinue(a, t, b)
    BY <1>1, <2>1 DEF ResultStep
  <2>3. status = "continue"
    BY <2>2
  <2> QED
    BY <2>2, <2>3
<1>3. /\ Known(a) /\ activities[a] \in ActivityRecord
      /\ \A c \in Activity : c # a => results'[c] = results[c]
  BY <1>2 DEF DecideContinue, Decidable, Foundation, TypeOK, Known
<1>4. CASE ExistingContinuations(a) # {}
  <2>1. PICK c \in ExistingContinuations(a) : TRUE
    BY <1>4
  <2>2. activities' = activities
    BY <1>2, <1>4 DEF DecideContinue
  <2> QED
    BY <1>3, <2>1, <2>2 DEF ExistingContinuations, Known
<1>5. CASE ExistingContinuations(a) = {}
  <2>1. PICK g \in NextGenerations(activities[a].node, activities[a].generation + 1) :
          NewActivity(b, Successor(a, activities[a].session, g))
    BY <1>2, <1>5 DEF DecideContinue
  <2>2. activities[b] = None /\ activities'[b] = Successor(a, activities[a].session, g)
    BY <2>1 DEF NewActivity, Foundation, TypeOK
  <2>3. /\ activities'[b].session = activities[a].session
        /\ activities'[b].node = activities[a].node
    BY <1>3, <2>2 DEF Successor, ActivityRecord
  <2>4. g \in Nat \ {0}
    BY <1>3, GenerationsType DEF ActivityRecord, Foundation
  <2>5. activities'[b] # None
    <3>1. activities[a].session \in Session
      BY <1>3 DEF ActivityRecord
    <3>2. activities'[b] \in ActivityRecord
      BY <1>3, <2>2, <2>4, <3>1, SuccessorType DEF Foundation
    <3> QED
      BY <3>2, NoneAssumption DEF ActivityRecord
  <2>6. b # a /\ results'[b] = None
    <3>1. b # a
      BY <1>3, <2>2 DEF Known
    <3>2. results[b] = None
      BY <2>2 DEF Known, Foundation, StateValid
    <3> QED
      BY <1>3, <3>1, <3>2
  <2> QED
    BY <2>3, <2>5, <2>6
<1> QED
  BY <1>4, <1>5

\* Whatever happened while the evaluator deliberated, a continue decision leaves
\* unresolved work on the Session it continues.
THEOREM ContinuedSessionsStayOpen == Spec => ContinueKeepsSessionOpen
<1>1. ASSUME Foundation, ReportsSound, [Next]_vars
      PROVE  [\A a \in Activity :
                (results[a] = None /\ results'[a] # None /\ results'[a].status = "continue") =>
                  \E b \in Activity : /\ b # a /\ activities'[b] # None /\ results'[b] = None
                                      /\ activities'[b].session = activities[a].session
                                      /\ activities'[b].node = activities[a].node]_vars
  BY <1>1, ContinuedSessionStaysOpen
<1> QED
  BY <1>1, FoundationHolds, ReportsStaySound, PTL DEF Spec, ContinueKeepsSessionOpen

-----------------------------------------------------------------------------
(* Budgets.  BudgetRespected is not inductive: PrepareAttempt counts the turns *)
(* that started, and the launch it makes starts its own turn only later.  So   *)
(* the budget is charged with every launch that still may start one.           *)

\* The launches of a whose turn started or may still start.
Spent(a) == {t \in AttemptsOf(a) : Live(t) \/ "turn_started" \in attempts[t].milestones}

\* No turn that started was refunded by a provider failure.
StartedTurnsCount ==
  \A t \in Attempt : attempts[t] # None =>
    ~({"turn_started", "provider_unavailable"} \subseteq attempts[t].milestones)

\* The inductive form of BudgetRespected.
BudgetsKept ==
  /\ StartedTurnsCount
  /\ \A a \in Activity : IsFiniteSet(AttemptsOf(a))
  /\ \A a \in Activity : Known(a) =>
       LET budget == workflows[activities[a].workflow]
       IN  /\ LaunchesOf(a) <= budget.maxLaunches
           /\ Cardinality(Spent(a)) <= budget.maxTaskAttempts

\* A set with room for one more element.
LEMMA OneMoreFits ==
  ASSUME NEW S, IsFiniteSet(S), NEW n \in Nat, Cardinality(S) < n, NEW x
  PROVE  IsFiniteSet(S \cup {x}) /\ Cardinality(S \cup {x}) <= n
<1>1. Cardinality(S) \in Nat
  BY FS_CardinalityType
<1>2. /\ IsFiniteSet(S \cup {x})
      /\ Cardinality(S \cup {x}) = IF x \in S THEN Cardinality(S) ELSE Cardinality(S) + 1
  BY FS_AddElement
<1> QED
  BY <1>1, <1>2

\* A step launches one Attempt or none.
LEMMA StepOnLaunches ==
  ASSUME Foundation, [Next]_vars
  PROVE  \/ \A t \in Attempt : attempts[t] = None => attempts'[t] = None
         \/ \E a \in Activity, r \in Runtime, t \in Attempt : PrepareAttempt(a, r, t)
BY StepOnAttempts DEF AttemptStep, Live

\* A started turn stays one, and no step revives a launch.
LEMMA StepKeepsTurnsCounted ==
  ASSUME Foundation, StartedTurnsCount, [Next]_vars
  PROVE  /\ StartedTurnsCount'
         /\ \A t \in Attempt :
              attempts[t] # None /\ (Live(t)' \/ "turn_started" \in attempts'[t].milestones)
                => Live(t) \/ "turn_started" \in attempts[t].milestones
<1>1. \A t \in Attempt : attempts[t] # None => HistoryStep(t)
  BY StepOnHistories
<1>2. ASSUME NEW t \in Attempt, attempts[t] # None
      PROVE  /\ ~({"turn_started", "provider_unavailable"} \subseteq attempts'[t].milestones)
             /\ (Live(t)' \/ "turn_started" \in attempts'[t].milestones) =>
                   Live(t) \/ "turn_started" \in attempts[t].milestones
  <2>0. ~({"turn_started", "provider_unavailable"} \subseteq attempts[t].milestones)
    BY <1>2 DEF StartedTurnsCount
  <2>1. CASE attempts'[t].milestones = attempts[t].milestones
    BY <1>2, <2>0, <2>1 DEF Live, HasExit
  <2>2. ASSUME NEW kind \in Kinds, MayRecord(t, kind),
               attempts'[t].milestones = attempts[t].milestones \cup {kind},
               kind \in StartFailures => RecordStartFailure(t, kind)
        PROVE  /\ ~({"turn_started", "provider_unavailable"} \subseteq attempts'[t].milestones)
               /\ Live(t)
    <3>1. Live(t)
      BY <2>2 DEF MayRecord, Live
    <3>2. kind = "turn_started" => "provider_unavailable" \notin attempts[t].milestones
      BY <2>2 DEF MayRecord, StartFailures
    <3>3. kind = "provider_unavailable" => "turn_started" \notin attempts[t].milestones
      BY <2>2 DEF RecordStartFailure, StartFailures
    <3> QED
      BY <2>0, <2>2, <3>1, <3>2, <3>3
  <2>3. CASE Live(t) /\ attempts'[t].milestones \subseteq
                attempts[t].milestones \cup {"exit", "adapter_start_failed"}
    BY <2>0, <2>3
  <2> QED
    BY <1>1, <1>2, <2>1, <2>2, <2>3 DEF HistoryStep
<1>3. ASSUME NEW t \in Attempt, attempts[t] = None, attempts'[t] # None
      PROVE  attempts'[t].milestones = {}
  <2>1. AttemptStep(t)
    BY StepOnAttempts
  <2>2. PICK a \in Activity, r \in Runtime : PrepareAttempt(a, r, t)
    BY <1>3, <2>1 DEF AttemptStep, Live
  <2> QED
    BY <2>2, PrepareAttemptEffect DEF Foundation
<1> QED
  BY <1>2, <1>3 DEF StartedTurnsCount

\* A launch stays within both budgets: every other launch of its Activity has
\* ended, so those that count are the turns PrepareAttempt counted.
LEMMA PrepareAttemptKeepsBudgets ==
  ASSUME Foundation, IdentitiesKept, BudgetsKept, StartedTurnsCount',
         NEW a \in Activity, NEW r \in Runtime, NEW t \in Attempt, PrepareAttempt(a, r, t)
  PROVE  BudgetsKept'
<1>1. /\ attempts[t] = None /\ attempts'[t] # None
      /\ attempts'[t].activity = a /\ attempts'[t].milestones = {}
      /\ \A u \in Attempt : u # t => attempts'[u] = attempts[u]
  BY PrepareAttemptEffect DEF Foundation
<1>2. workflows' = workflows /\ activities' = activities /\ Known(a)
  BY DEF PrepareAttempt
<1>3. \A b \in Activity : b # a => AttemptsOf(b)' = AttemptsOf(b) /\ Spent(b)' = Spent(b)
  BY <1>1 DEF AttemptsOf, Spent, Live, HasExit
<1>4. AttemptsOf(a)' = AttemptsOf(a) \cup {t} /\ t \notin AttemptsOf(a)
  BY <1>1 DEF AttemptsOf
<1> DEFINE started == {u \in AttemptsOf(a) : /\ "turn_started" \in attempts[u].milestones
                                             /\ "provider_unavailable" \notin attempts[u].milestones}
<1>5. Spent(a)' = started \cup {t} /\ t \notin started
  <2>1. \A u \in AttemptsOf(a) : /\ u \in Attempt /\ u # t /\ HasExit(u) /\ attempts[u] # None
                                 /\ "turn_started" \in attempts[u].milestones =>
                                      "provider_unavailable" \notin attempts[u].milestones
    BY <1>4 DEF AttemptsOf, PrepareAttempt, BudgetsKept, StartedTurnsCount
  <2>2. \A u \in AttemptsOf(a) : /\ ~Live(u)' /\ attempts'[u] = attempts[u]
    BY <1>1, <2>1 DEF Live, HasExit
  <2>3. Live(t)'
    BY <1>1 DEF Live, HasExit
  <2> QED
    BY <1>4, <2>1, <2>2, <2>3 DEF Spent
<1>6. IsFiniteSet(AttemptsOf(a)) /\ IsFiniteSet(started)
  BY FS_Subset DEF BudgetsKept
<1> DEFINE budget == workflows[activities[a].workflow]
<1>7. budget.maxLaunches \in Nat /\ budget.maxTaskAttempts \in Nat
  <2>1. budget \in Profiles
    BY <1>2 DEF Foundation, TypeOK, StateValid, Known, ActivityRecord
  <2> QED
    BY <2>1, ProfilesAssumption DEF ProfileRecord
<1>8. Cardinality(AttemptsOf(a)) < budget.maxLaunches /\ Cardinality(started) < budget.maxTaskAttempts
  BY DEF PrepareAttempt, LaunchesOf, TurnsOf
<1>9. /\ IsFiniteSet(AttemptsOf(a)')
      /\ LaunchesOf(a)' <= budget.maxLaunches
  BY <1>4, <1>6, <1>7, <1>8, OneMoreFits DEF LaunchesOf
<1>10. Cardinality(Spent(a)') <= budget.maxTaskAttempts
  <2> HIDE DEF started, budget
  <2> QED
    BY <1>5, <1>6, <1>7, <1>8, OneMoreFits
<1> QED
  BY <1>2, <1>3, <1>9, <1>10 DEF BudgetsKept, LaunchesOf, Known

\* Every other command only takes launches from what the budget is charged with.
LEMMA StepKeepsBudgets ==
  ASSUME Foundation, BudgetsKept, [Next]_vars
  PROVE  BudgetsKept'
<1>1. Foundation' /\ IdentitiesKept /\ StartedTurnsCount'
  BY StepKeepsFoundation, StepKeepsTurnsCounted DEF BudgetsKept
<1>2. CASE \A t \in Attempt : attempts[t] = None => attempts'[t] = None
  <2>1. \A a \in Activity : AttemptsOf(a)' = AttemptsOf(a)
    BY <1>1, <1>2 DEF AttemptsOf, IdentitiesKept
  <2>2. \A a \in Activity : Spent(a)' \subseteq Spent(a)
    <3>1. \A t \in Attempt :
            attempts[t] # None /\ (Live(t)' \/ "turn_started" \in attempts'[t].milestones)
              => Live(t) \/ "turn_started" \in attempts[t].milestones
      BY StepKeepsTurnsCounted DEF BudgetsKept
    <3>2. \A a \in Activity : \A t \in AttemptsOf(a) : t \in Attempt /\ attempts[t] # None
      BY DEF AttemptsOf
    <3> QED
      BY <2>1, <3>1, <3>2 DEF Spent
  <2>3. ASSUME NEW a \in Activity, activities'[a] # None
        PROVE  /\ Cardinality(AttemptsOf(a)) <= workflows'[activities'[a].workflow].maxLaunches
               /\ Cardinality(Spent(a)') <= workflows'[activities'[a].workflow].maxTaskAttempts
    <3>1. workflows'[activities'[a].workflow] \in Profiles
      BY <1>1, <2>3 DEF Foundation, TypeOK, StateValid, Known, ActivityRecord
    <3>2. /\ workflows'[activities'[a].workflow].maxLaunches \in Nat
          /\ workflows'[activities'[a].workflow].maxTaskAttempts \in Nat
      BY <3>1, ProfilesAssumption DEF ProfileRecord
    <3>3. IsFiniteSet(Spent(a)) /\ Cardinality(Spent(a)') <= Cardinality(Spent(a))
          /\ Cardinality(Spent(a)) \in Nat /\ Cardinality(Spent(a)') \in Nat
      BY <2>2, FS_Subset, FS_CardinalityType DEF BudgetsKept, Spent
    <3>4. CASE activities[a] = None
      <4>1. AttemptsOf(a) = {} /\ Spent(a)' = {}
        BY <2>2, <3>4 DEF Foundation, StateValid, AttemptsOf, Known, Spent
      <4> QED
        BY <3>2, <4>1, FS_EmptySet
    <3>5. CASE activities[a] # None
      <4>1. workflows'[activities'[a].workflow] = workflows[activities[a].workflow]
        BY <1>1, <3>5 DEF Foundation, TypeOK, StateValid, IdentitiesKept, Known, ActivityRecord
      <4> QED
        BY <3>2, <3>3, <3>5, <4>1 DEF BudgetsKept, Known, LaunchesOf
    <3> QED
      BY <3>4, <3>5
  <2> QED
    BY <1>1, <2>1, <2>3 DEF BudgetsKept, Known, LaunchesOf
<1> QED
  BY <1>1, <1>2, StepOnLaunches, PrepareAttemptKeepsBudgets

\* The budgets hold of the specification.
LEMMA BudgetsStayKept == Spec => []BudgetsKept
<1>1. Init => BudgetsKept
  BY FS_EmptySet DEF Init, BudgetsKept, StartedTurnsCount, AttemptsOf, Known
<1> QED
  BY <1>1, FoundationHolds, StepKeepsBudgets, PTL DEF Spec

\* However launches, exits, failures and restarts interleave, no Activity is
\* launched or started more often than its Workflow allows.
THEOREM BudgetsAreRespected == Spec => []BudgetRespected
<1>1. ASSUME Foundation, BudgetsKept PROVE BudgetRespected
  <2>1. SUFFICES ASSUME NEW a \in Activity, Known(a)
                 PROVE  Cardinality({t \in AttemptsOf(a) :
                                      "turn_started" \in attempts[t].milestones})
                          <= workflows[activities[a].workflow].maxTaskAttempts
    BY <1>1 DEF BudgetRespected, BudgetsKept
  <2> DEFINE started == {t \in AttemptsOf(a) : "turn_started" \in attempts[t].milestones}
  <2>2. started \subseteq Spent(a) /\ IsFiniteSet(Spent(a))
    BY <1>1, FS_Subset DEF Spent, BudgetsKept
  <2>3. /\ Cardinality(started) <= Cardinality(Spent(a))
        /\ Cardinality(started) \in Nat /\ Cardinality(Spent(a)) \in Nat
    BY <2>2, FS_Subset, FS_CardinalityType
  <2>4. workflows[activities[a].workflow].maxTaskAttempts \in Nat
    <3>1. workflows[activities[a].workflow] \in Profiles
      BY <1>1, <2>1 DEF Foundation, TypeOK, StateValid, Known, ActivityRecord
    <3> QED
      BY <3>1, ProfilesAssumption DEF ProfileRecord
  <2>5. Cardinality(Spent(a)) <= workflows[activities[a].workflow].maxTaskAttempts
    BY <1>1, <2>1 DEF BudgetsKept
  <2> HIDE DEF started
  <2>6. Cardinality(started) <= workflows[activities[a].workflow].maxTaskAttempts
    BY <2>3, <2>4, <2>5
  <2> QED
    BY <2>6 DEF started
<1> QED
  BY <1>1, FoundationHolds, BudgetsStayKept, PTL

-----------------------------------------------------------------------------
(* The turn limit.  AutomaticTurnsCapped counts continue Results and the code *)
(* counts Activities with a report: the cap holds because every turn the       *)
(* evaluator continued had reported, so a continue decision below the limit    *)
(* adds one to a set still contained in what the code counted.                 *)

\* The turns of a Node that the evaluator continued.
Continued(w, n) ==
  {a \in Activity : /\ results[a] # None /\ results[a].status = "continue"
                    /\ activities[a].workflow = w /\ activities[a].node = n}

\* The turns TurnsForNode counts.
ReportedTurns(w, n) ==
  {a \in Activity : /\ Known(a)
                    /\ activities[a].workflow = w /\ activities[a].node = n
                    /\ HasWorkerResult(a)}

FinitelyManyKnown == IsFiniteSet({a \in Activity : Known(a)})

\* A goal's Result was reported by a worker.
LEMMA ContinuedWasReported ==
  ASSUME Foundation, ReportsSound, NEW w \in Workflow, NEW n \in Node, workflows[w].goal
  PROVE  Continued(w, n) \subseteq ReportedTurns(w, n)
<1>1. SUFFICES ASSUME NEW a \in Continued(w, n) PROVE a \in ReportedTurns(w, n)
  OBVIOUS
<1>2. /\ a \in Activity /\ Known(a) /\ results[a].attempt \in AttemptsOf(a)
      /\ activities[a].workflow = w /\ activities[a].node = n
  BY DEF Continued, Foundation, StateValid
<1>3. Reported(results[a].attempt)
  BY <1>2 DEF Continued, ReportsSound, AnsweredBy, AttemptsOf
<1> QED
  BY <1>2, <1>3 DEF ReportedTurns, HasWorkerResult, Reported

\* A step creates at most one Activity.
LEMMA StepKeepsFinitelyMany ==
  ASSUME Foundation, FinitelyManyKnown, [Next]_vars
  PROVE  FinitelyManyKnown'
<1>1. CASE activities' = activities
  BY <1>1 DEF FinitelyManyKnown, Known
<1>2. ASSUME NEW a \in Activity, NEW record, activities' = [activities EXCEPT ![a] = record]
      PROVE  FinitelyManyKnown'
  <2>1. {b \in Activity : activities'[b] # None} \subseteq {b \in Activity : Known(b)} \cup {a}
    BY <1>2 DEF Known, Foundation, TypeOK
  <2>2. IsFiniteSet({b \in Activity : Known(b)} \cup {a})
    BY FS_AddElement DEF FinitelyManyKnown
  <2> QED
    BY <2>1, <2>2, FS_Subset DEF FinitelyManyKnown, Known
<1> QED
  BY <1>1, <1>2, StepOnActivities DEF ActivityStep

\* Only a continue decision makes a turn a continued one.
LEMMA StepOnContinued ==
  ASSUME Foundation, ReportsSound, [Next]_vars, NEW w \in Workflow, NEW n \in Node
  PROVE  \/ Continued(w, n)' \subseteq Continued(w, n)
         \/ \E a, b \in Activity, t \in Attempt :
              /\ DecideContinue(a, t, b)
              /\ activities[a].workflow = w /\ activities[a].node = n
              /\ Continued(w, n)' \subseteq Continued(w, n) \cup {a}
<1>1. Foundation' /\ IdentitiesKept
  BY StepKeepsFoundation
<1>2. ASSUME NEW a \in Continued(w, n)', results'[a] = results[a]
      PROVE  a \in Continued(w, n)
  <2>1. a \in Activity /\ results[a] # None /\ Known(a)
    BY <1>2 DEF Continued, Foundation, StateValid
  <2> QED
    BY <1>1, <1>2, <2>1 DEF Continued, IdentitiesKept, Known
<1>3. SUFFICES ASSUME NEW a \in Continued(w, n)', results'[a] # results[a]
               PROVE  \E b \in Activity, t \in Attempt :
                        /\ DecideContinue(a, t, b)
                        /\ activities[a].workflow = w /\ activities[a].node = n
                        /\ Continued(w, n)' \subseteq Continued(w, n) \cup {a}
  BY <1>2 DEF Continued
<1>4. a \in Activity /\ results'[a].status = "continue"
  BY <1>3 DEF Continued
<1>5. PICK t \in Attempt, b \in Activity : DecideContinue(a, t, b)
  <2>1. ResultStep(a)
    BY <1>4, StepOnResults
  <2>2. PICK t \in Attempt, status \in WorkerStatus :
          /\ results'[a] = [attempt |-> t, status |-> status]
          /\ \/ status # "continue"
             \/ status \in {"completed", "blocked"}
             \/ \E b \in Activity : DecideContinue(a, t, b)
    BY <1>3, <2>1 DEF ResultStep
  <2>3. status = "continue"
    BY <1>4, <2>2
  <2> QED
    BY <2>2, <2>3
<1>6. \A c \in Activity : c # a => results'[c] = results[c]
  BY <1>5 DEF DecideContinue, Foundation, TypeOK
<1>7. Continued(w, n)' \subseteq Continued(w, n) \cup {a}
  BY <1>2, <1>6 DEF Continued
<1>8. activities[a].workflow = w /\ activities[a].node = n
  BY <1>1, <1>3, <1>4, <1>5 DEF Continued, DecideContinue, Decidable, IdentitiesKept, Known
<1> QED
  BY <1>5, <1>7, <1>8

\* No step takes the evaluator past a Workflow's turn limit.
LEMMA StepKeepsTurnsCapped ==
  ASSUME Foundation, ReportsSound, FinitelyManyKnown, AutomaticTurnsCapped, [Next]_vars
  PROVE  AutomaticTurnsCapped'
<1>1. Foundation' /\ IdentitiesKept
  BY StepKeepsFoundation
<1>2. SUFFICES ASSUME NEW w \in Workflow, NEW n \in Node,
                      workflows'[w] # None, workflows'[w].goal, workflows'[w].maxTurns > 0
               PROVE  Cardinality(Continued(w, n)') < workflows'[w].maxTurns
  BY DEF AutomaticTurnsCapped, Continued
<1>3. workflows'[w].maxTurns \in Nat
  BY <1>1, <1>2, ProfilesAssumption DEF Foundation, TypeOK, ProfileRecord
<1>4. IsFiniteSet(ReportedTurns(w, n))
  BY FS_Subset DEF FinitelyManyKnown, ReportedTurns
<1>5. CASE workflows[w] = None
  <2>1. Continued(w, n) = {}
    BY <1>5 DEF Continued, Foundation, StateValid
  <2>2. \A a \in Activity : activities[a].workflow = w => ~Known(a)
    BY <1>5 DEF Foundation, StateValid
  <2>3. Continued(w, n)' = {}
    BY <2>1, <2>2, StepOnContinued DEF DecideContinue, Decidable
  <2> QED
    BY <1>2, <1>3, <2>3, FS_EmptySet
<1>6. CASE workflows[w] # None
  <2>1. workflows'[w] = workflows[w]
    BY <1>1, <1>6 DEF IdentitiesKept
  <2>2. Continued(w, n) \subseteq ReportedTurns(w, n)
    BY <1>2, <2>1, ContinuedWasReported
  <2>3. IsFiniteSet(Continued(w, n))
    BY <1>4, <2>2, FS_Subset
  <2>4. Cardinality(Continued(w, n)) < workflows[w].maxTurns
    BY <1>2, <1>6, <2>1 DEF AutomaticTurnsCapped, Continued
  <2>5. CASE Continued(w, n)' \subseteq Continued(w, n)
    <3>1. /\ Cardinality(Continued(w, n)') <= Cardinality(Continued(w, n))
          /\ Cardinality(Continued(w, n)') \in Nat /\ Cardinality(Continued(w, n)) \in Nat
      BY <2>3, <2>5, FS_Subset, FS_CardinalityType
    <3> QED
      BY <1>3, <2>1, <2>4, <3>1
  <2>6. ASSUME NEW a \in Activity, NEW b \in Activity, NEW t \in Attempt,
               DecideContinue(a, t, b),
               activities[a].workflow = w, activities[a].node = n,
               Continued(w, n)' \subseteq Continued(w, n) \cup {a}
        PROVE  Cardinality(Continued(w, n)') < workflows'[w].maxTurns
    <3>1. a \in ReportedTurns(w, n)
      BY <2>6 DEF DecideContinue, Decidable, ReportedTurns, HasWorkerResult
    <3>2. /\ Cardinality(Continued(w, n)') <= Cardinality(ReportedTurns(w, n))
          /\ Cardinality(Continued(w, n)') \in Nat /\ Cardinality(ReportedTurns(w, n)) \in Nat
      <4>1. Continued(w, n)' \subseteq ReportedTurns(w, n)
        BY <2>2, <2>6, <3>1
      <4> QED
        BY <1>4, <4>1, FS_Subset, FS_CardinalityType
    <3>3. TurnsForNode(w, n) = Cardinality(ReportedTurns(w, n))
      BY DEF TurnsForNode, ReportedTurns
    <3>4. ~(TurnsForNode(w, n) >= workflows[w].maxTurns)
      BY <1>2, <2>1, <2>6 DEF DecideContinue, TurnLimitReached
    <3> QED
      BY <1>3, <2>1, <3>2, <3>3, <3>4
  <2> QED
    BY <2>5, <2>6, StepOnContinued
<1> QED
  BY <1>5, <1>6

\* Human replies may exceed a Workflow's turn limit; continue decisions never do,
\* whatever reports, replies and decisions come between.
THEOREM AutomaticTurnsAreCapped == Spec => []AutomaticTurnsCapped
<1>1. Init => FinitelyManyKnown /\ AutomaticTurnsCapped
  BY FS_EmptySet DEF Init, FinitelyManyKnown, AutomaticTurnsCapped, Known
<1>2. Foundation /\ ReportsSound /\ FinitelyManyKnown /\ AutomaticTurnsCapped /\ [Next]_vars
        => (FinitelyManyKnown /\ AutomaticTurnsCapped)'
  BY StepKeepsFinitelyMany, StepKeepsTurnsCapped
<1> QED
  BY <1>1, <1>2, FoundationHolds, ReportsStaySound, PTL DEF Spec

-----------------------------------------------------------------------------
(* Projection.  That the service is offered exactly what the commands accept   *)
(* needs two facts no command checks: outside a goal a report is already the   *)
(* Result, and an Activity that was never launched has a budget left.          *)

\* Only a goal's report waits for a decision.
ReportsConclude ==
  \A t \in Attempt : attempts[t] # None /\ Reported(t) =>
    ProfileOf(t).goal \/ results[attempts[t].activity] # None

\* A report outside a goal makes the Result, which stays.
LEMMA StepKeepsReportsConclude ==
  ASSUME Foundation, ReportsSound, ReportsConclude, [Next]_vars
  PROVE  ReportsConclude'
<1>1. Foundation' /\ IdentitiesKept
  BY StepKeepsFoundation
<1>2. SUFFICES ASSUME NEW t \in Attempt, attempts'[t] # None, Reported(t)'
               PROVE  ProfileOf(t)'.goal \/ results'[attempts'[t].activity] # None
  BY DEF ReportsConclude
<1>3. attempts[t] # None
  <2>1. AttemptStep(t)
    BY StepOnAttempts
  <2> QED
    BY <1>2, <2>1, PrepareAttemptEffect DEF AttemptStep, Reported, Foundation, Live
<1>4. PICK a \in Activity : a = attempts[t].activity /\ a = attempts'[t].activity
  BY <1>1, <1>3 DEF Foundation, TypeOK, AttemptRecord, IdentitiesKept
<1>5. ProfileOf(t)' = ProfileOf(t)
  <2>1. WorkflowOf(t)' = WorkflowOf(t) /\ WorkflowOf(t) \in Workflow
    BY <1>1, <1>3, WorkflowKept
  <2>2. workflows[WorkflowOf(t)] # None
    BY <1>3, <1>4 DEF Foundation, StateValid, WorkflowOf, ActivityOf
  <2> QED
    BY <1>1, <2>1, <2>2 DEF IdentitiesKept, ProfileOf
<1>6. CASE Reported(t)
  <2>1. results[a] # None => results'[a] # None
    BY StepKeepsReports
  <2> QED
    BY <1>3, <1>4, <1>5, <1>6, <2>1 DEF ReportsConclude
<1>7. CASE ~Reported(t)
  <2>1. HistoryStep(t)
    BY <1>3, StepOnHistories
  <2>2. PICK status \in WorkerStatus : RecordResult(t, status)
    BY <1>2, <1>7, <2>1 DEF HistoryStep, Reported
  <2>3. CASE ProfileOf(t).goal
    BY <1>5, <2>3
  <2>4. CASE ~ProfileOf(t).goal
    <3>1. results' = [results EXCEPT ![a] = [attempt |-> t, status |-> status]]
      BY <1>4, <2>2, <2>4 DEF RecordResult
    <3>2. [attempt |-> t, status |-> status] \in ResultRecord
      BY DEF ResultRecord
    <3>3. results'[a] # None
      BY <3>1, <3>2, NoneAssumption DEF Foundation, TypeOK
    <3> QED
      BY <1>4, <3>3
  <2> QED
    BY <2>3, <2>4
<1> QED
  BY <1>6, <1>7

LEMMA ReportsStayConclusive == Spec => []ReportsConclude
<1>1. Init => ReportsConclude
  BY DEF Init, ReportsConclude
<1> QED
  BY <1>1, FoundationHolds, ReportsStaySound, StepKeepsReportsConclude, PTL DEF Spec

\* Without a fallback child an Activity stands for itself.
LEMMA StatusOfChildless ==
  ASSUME NEW a \in Activity, FallbackChildren(a) = {}
  PROVE  Status(a) = OwnStatus(a)
BY DEF Status, Representative

\* An Activity that was never launched may be.
LEMMA UnlaunchedHasBudget ==
  ASSUME Foundation, BudgetsKept, NEW a \in Activity, Known(a)
  PROVE  BudgetLeft(a) <=>
           /\ LaunchesOf(a) < workflows[activities[a].workflow].maxLaunches
           /\ TurnsOf(a) < workflows[activities[a].workflow].maxTaskAttempts
<1> DEFINE budget == workflows[activities[a].workflow]
<1>1. budget \in Profiles
  BY DEF Foundation, TypeOK, StateValid, Known, ActivityRecord
<1>2. budget.maxLaunches \in Nat \ {0} /\ budget.maxTaskAttempts \in Nat \ {0}
  BY <1>1, ProfilesAssumption DEF ProfileRecord
<1>3. ASSUME LaunchesOf(a) = 0
      PROVE  TurnsOf(a) = 0
  <2>1. AttemptsOf(a) = {}
    BY <1>3, FS_EmptySet DEF LaunchesOf, BudgetsKept
  <2>2. {t \in AttemptsOf(a) : /\ "turn_started" \in attempts[t].milestones
                               /\ "provider_unavailable" \notin attempts[t].milestones} = {}
    BY <2>1
  <2> QED
    BY <2>2, FS_EmptySet DEF TurnsOf
<1> QED
  BY <1>2, <1>3 DEF BudgetLeft

\* The service is told to launch exactly the Activities PrepareAttempt accepts.
THEOREM QueuesAreExact == Spec => []QueueIsExact
<1>1. ASSUME Foundation, ReportsConclude, BudgetsKept PROVE QueueIsExact
  <2>1. SUFFICES ASSUME NEW w \in Workflow, NEW a \in ActivitiesOf(w), FallbackChildren(a) = {}
                 PROVE  OwnStatus(a) \in {"queued", "retryable"} <=> Launchable(a)
    <3>1. ASSUME NEW w \in Workflow
          PROVE  Queue(w) = {a \in ActivitiesOf(w) : /\ OwnStatus(a) \in {"queued", "retryable"}
                                                     /\ FallbackChildren(a) = {}}
      BY StatusOfChildless DEF Queue, ActivitiesOf
    <3> QED
      BY <3>1 DEF QueueIsExact, Launchable
  <2>2. a \in Activity /\ Known(a) /\ activities[a].workflow = w
    BY DEF ActivitiesOf
  <2>3. results[a] # None => OwnStatus(a) \notin {"queued", "retryable"}
    BY DEF OwnStatus, ResultStatus
  <2>4. HasWorkerResult(a) => workflows[w].goal \/ results[a] # None
    BY <1>1, <2>2 DEF HasWorkerResult, AttemptsOf, ReportsConclude, Reported, ProfileOf,
       WorkflowOf, ActivityOf
  <2>5. LiveAttempts(a) = {} <=> \A t \in AttemptsOf(a) : HasExit(t)
    BY DEF LiveAttempts
  <2>6. OwnStatus(a) \in {"queued", "retryable"} <=>
          /\ results[a] = None
          /\ ~(workflows[w].goal /\ HasWorkerResult(a))
          /\ pauses[w] = None /\ a \notin waiting /\ LiveAttempts(a) = {}
          /\ BudgetLeft(a)
    BY <2>2, <2>3 DEF OwnStatus
  <2>7. BudgetLeft(a) <=> /\ LaunchesOf(a) < workflows[w].maxLaunches
                          /\ TurnsOf(a) < workflows[w].maxTaskAttempts
    BY <1>1, <2>2, UnlaunchedHasBudget
  <2> QED
    BY <2>1, <2>2, <2>4, <2>5, <2>6, <2>7 DEF Launchable
<1> QED
  BY <1>1, FoundationHolds, ReportsStayConclusive, BudgetsStayKept, PTL

\* The evaluator is asked about exactly the turns DecideTurn accepts a decision
\* for.
THEOREM DecidableTurnsArePending == Spec => []DecidableIsPending
<1>1. DecidableIsPending
  <2>1. SUFFICES ASSUME NEW w \in Workflow, NEW a \in ActivitiesOf(w), FallbackChildren(a) = {}
                 PROVE  OwnStatus(a) = "deciding" <=> \E t \in Attempt : Decidable(a, t)
    BY StatusOfChildless DEF DecidableIsPending, PendingTurns, ActivitiesOf
  <2>2. a \in Activity /\ Known(a) /\ activities[a].workflow = w
    BY DEF ActivitiesOf
  <2>3. (\E t \in Attempt : Decidable(a, t)) <=>
          results[a] = None /\ workflows[w].goal /\ ReportedAndExited(a)
    BY <2>2 DEF Decidable, ReportedAndExited, AttemptsOf
  <2>4. ReportedAndExited(a) => HasWorkerResult(a)
    BY DEF ReportedAndExited, HasWorkerResult
  <2>5. results[a] # None => OwnStatus(a) # "deciding"
    BY DEF OwnStatus, ResultStatus
  <2> QED
    BY <2>2, <2>3, <2>4, <2>5 DEF OwnStatus
<1> QED
  BY <1>1, PTL

-----------------------------------------------------------------------------
(* Bindings and the graph of Nodes. *)

\* What BindingsSound says of one Activity, by its record.
Sound(record) ==
  \A d \in Node :
    LET bound == record.bindings[d]
    IN  IF d \in nodes[record.workflow][record.node].deps
        THEN /\ bound # None
             /\ activities[bound].workflow = record.workflow /\ activities[bound].node = d
             /\ results[bound] # None /\ results[bound].status = "completed"
        ELSE bound = None

SoundActivity(a) == Sound(activities[a])

ResultsKept == \A a \in Activity : results[a] # None => results'[a] = results[a]

\* A bound Activity is a known one: its Result says so.
LEMMA BoundIsKnown ==
  ASSUME Foundation, NEW a \in Activity, results[a] # None
  PROVE  Known(a)
  BY DEF Foundation, StateValid

\* A record that is sound stays so.
LEMMA SoundStays ==
  ASSUME Foundation, IdentitiesKept, ResultsKept, NEW record \in ActivityRecord,
         nodes[record.workflow][record.node] # None, Sound(record)
  PROVE  Sound(record)'
<1>1. nodes'[record.workflow][record.node] = nodes[record.workflow][record.node]
  BY DEF IdentitiesKept, ActivityRecord
<1>2. SUFFICES ASSUME NEW d \in Node, d \in nodes[record.workflow][record.node].deps
               PROVE  /\ results'[record.bindings[d]] = results[record.bindings[d]]
                      /\ activities'[record.bindings[d]] = activities[record.bindings[d]]
  BY <1>1 DEF Sound
<1>3. record.bindings[d] \in Activity /\ results[record.bindings[d]] # None
  BY <1>2 DEF Sound, ActivityRecord
<1> QED
  BY <1>3, BoundIsKnown DEF IdentitiesKept, ResultsKept, Known

\* So one step keeps BindingsSound when the Activity it creates, if any, is sound.
LEMMA BindingsFramed ==
  ASSUME Foundation, Foundation', IdentitiesKept, ResultsKept, BindingsSound,
         \A a \in Activity : activities[a] = None /\ activities'[a] # None
                               => SoundActivity(a)'
  PROVE  BindingsSound'
<1>1. ASSUME NEW a \in Activity, activities'[a] # None
      PROVE  SoundActivity(a)'
  <2>1. CASE activities[a] = None
    BY <1>1, <2>1
  <2>2. CASE activities[a] # None
    <3>1. activities'[a] = activities[a] /\ activities[a] \in ActivityRecord
      BY <2>2 DEF IdentitiesKept, Foundation, TypeOK
    <3>2. nodes[activities[a].workflow][activities[a].node] # None /\ Sound(activities[a])
      BY <2>2 DEF Foundation, StateValid, BindingsSound, Sound, Known
    <3>3. \A record \in ActivityRecord : record = activities[a] => Sound(record)'
      BY <3>2, SoundStays
    <3> QED
      BY <3>1, <3>3 DEF SoundActivity
  <2> QED
    BY <2>1, <2>2
<1> QED
  BY <1>1 DEF BindingsSound, SoundActivity, Sound, Known

\* A successor is as sound as what it succeeds.
LEMMA SuccessorIsSound ==
  ASSUME Foundation, IdentitiesKept, ResultsKept, BindingsSound,
         NEW p \in Activity, Known(p), NEW s \in Session, NEW g \in Nat \ {0},
         NEW a \in Activity, NewActivity(a, Successor(p, s, g))
  PROVE  SoundActivity(a)'
<1>1. Successor(p, s, g) \in ActivityRecord
  BY SuccessorType DEF Foundation
<1>2. activities[p] \in ActivityRecord
  BY DEF Foundation, TypeOK, Known
<1>3. /\ Successor(p, s, g).workflow = activities[p].workflow
      /\ Successor(p, s, g).node = activities[p].node
      /\ Successor(p, s, g).bindings = activities[p].bindings
  BY <1>2 DEF Successor, ActivityRecord
<1>4. nodes[activities[p].workflow][activities[p].node] # None /\ Sound(activities[p])
  BY DEF Foundation, StateValid, BindingsSound, Sound, Known
<1>5. nodes[activities[p].workflow][activities[p].node] # None /\ Sound(Successor(p, s, g))
  BY <1>3, <1>4 DEF Sound
<1>6. \A record \in ActivityRecord : record = Successor(p, s, g) => Sound(record)'
  BY <1>3, <1>5, SoundStays
<1>7. activities'[a] = Successor(p, s, g)
  BY DEF NewActivity, Foundation, TypeOK
<1> QED
  BY <1>1, <1>6, <1>7 DEF SoundActivity

-----------------------------------------------------------------------------
(* The steps that create Activities. *)

LEMMA QueueActivityIsSound ==
  ASSUME Foundation, Foundation', IdentitiesKept, ResultsKept,
         NEW w \in Workflow, NEW n \in Node, NEW s \in Session, NEW a \in Activity,
         QueueActivity(w, n, s, a)
  PROVE  SoundActivity(a)'
<1>1. PICK f \in Bindings(w, n) :
        NewActivity(a, [workflow |-> w, node |-> n, session |-> s, generation |-> 1,
                        parent |-> None, bindings |-> f])
  BY DEF QueueActivity
<1> DEFINE record == [workflow |-> w, node |-> n, session |-> s, generation |-> 1,
                      parent |-> None, bindings |-> f]
<1>2. record \in ActivityRecord /\ nodes[w][n] # None
  BY <1>1 DEF ActivityRecord, Bindings, QueueActivity
<1>3. Sound(record)
  <2>1. ASSUME NEW d \in Node, d \in nodes[w][n].deps
        PROVE  /\ f[d] # None
               /\ activities[f[d]].workflow = w /\ activities[f[d]].node = d
               /\ results[f[d]] # None /\ results[f[d]].status = "completed"
    <3>1. f[d] \in LatestResults(w, d)
      BY <2>1 DEF Bindings
    <3> QED
      BY <3>1, NoneAssumption DEF LatestResults, CompletedResults
  <2>2. ASSUME NEW d \in Node, d \notin nodes[w][n].deps PROVE f[d] = None
    BY <2>2 DEF Bindings
  <2> QED
    BY <2>1, <2>2 DEF Sound
<1>4. \A r \in ActivityRecord : r = record => Sound(r)'
  BY <1>2, <1>3, SoundStays
<1>5. activities'[a] = record
  BY <1>1 DEF NewActivity, Foundation, TypeOK
<1> QED
  BY <1>2, <1>4, <1>5 DEF SoundActivity

LEMMA StartExecutionIsSound ==
  ASSUME Foundation, NEW w \in Workflow, NEW p \in Profiles, NEW n \in Node, NEW k \in Works,
         NEW s \in Session, NEW x \in OrNone(NativeId), NEW a \in Activity,
         StartExecution(w, p, n, k, s, x, a)
  PROVE  SoundActivity(a)'
<1>1. /\ activities'[a].workflow = w /\ activities'[a].node = n
      /\ activities'[a].bindings = NoBindings
  BY DEF StartExecution, NewActivity, Foundation, TypeOK
<1>2. nodes'[w][n].deps = {}
  BY DEF StartExecution, Foundation, TypeOK
<1> QED
  BY <1>1, <1>2 DEF SoundActivity, Sound, NoBindings

LEMMA StepKeepsBindings ==
  ASSUME Foundation, ReportsSound, BindingsSound, [Next]_vars
  PROVE  BindingsSound'
<1> DEFINE Goal == \A a \in Activity : activities[a] = None /\ activities'[a] # None
                                         => SoundActivity(a)'
<1>1. Foundation' /\ IdentitiesKept /\ ResultsKept
  BY StepKeepsFoundation, StepKeepsReports DEF ResultsKept
<1>2. SUFFICES Goal
  BY <1>1, BindingsFramed
<1>3. ASSUME NEW a \in Activity, NEW record, NewActivity(a, record), SoundActivity(a)'
      PROVE  Goal
  BY <1>3 DEF NewActivity, Foundation, TypeOK
<1>4. CASE activities' = activities
  BY <1>4
<1>5. ASSUME NEW p \in Activity, Known(p), NEW a \in Activity, NEW s \in Session,
             NEW g \in Nat \ {0}, NewActivity(a, Successor(p, s, g))
      PROVE  Goal
  BY <1>1, <1>3, <1>5, SuccessorIsSound
<1>6. ASSUME NEW p \in Activity, Known(p) PROVE activities[p].session \in Session
                                              /\ activities[p].generation \in Nat \ {0}
                                              /\ activities[p].node \in Node
  BY <1>6 DEF Known, Foundation, TypeOK, ActivityRecord
<1>7. CASE WorkCommands
  <2>1. ASSUME NEW w \in Workflow, NEW p \in Profiles, NEW n \in Node, NEW k \in Works,
               NEW s \in Session, NEW x \in OrNone(NativeId), NEW a \in Activity,
               StartExecution(w, p, n, k, s, x, a)
        PROVE  Goal
    BY <1>3, <2>1, StartExecutionIsSound DEF StartExecution
  <2>2. ASSUME NEW w \in Workflow, NEW n \in Node, NEW s \in Session, NEW a \in Activity,
               QueueActivity(w, n, s, a)
        PROVE  Goal
    <3>1. SoundActivity(a)'
      BY <1>1, <2>2, QueueActivityIsSound
    <3> QED
      BY <1>3, <2>2, <3>1 DEF QueueActivity
  <2>3. ASSUME NEW p \in Activity, NEW a \in Activity, ContinueSession(p, a) PROVE Goal
    <3>1. PICK g \in NextGenerations(activities[p].node, activities[p].generation + 1) :
            NewActivity(a, Successor(p, activities[p].session, g))
      BY <2>3 DEF ContinueSession
    <3>2. Known(p)
      BY <2>3 DEF ContinueSession
    <3>3. g \in Nat \ {0}
      BY <1>6, <3>2, GenerationsType DEF Foundation
    <3> QED
      BY <1>5, <1>6, <3>1, <3>2, <3>3
  <2>4. ASSUME NEW p \in Activity, NEW a \in Activity, NEW r \in Runtime, NEW s \in Session,
               StartFallback(p, r, s, a)
        PROVE  Goal
    BY <1>5, <1>6, <2>4 DEF StartFallback
  <2> QED
    BY <1>4, <1>7, <2>1, <2>2, <2>3, <2>4 DEF WorkCommands, AddNode, WakeTimeReached
<1>8. CASE DecisionCommands
  <2>1. ASSUME NEW a \in Activity, NEW b \in Activity, NEW t \in Attempt, DecideContinue(a, t, b)
        PROVE  Goal
    <3>1. CASE UNCHANGED activities
      BY <1>4, <3>1
    <3>2. CASE \E g \in NextGenerations(activities[a].node, activities[a].generation + 1) :
                 NewActivity(b, Successor(a, activities[a].session, g))
      <4>1. Known(a)
        BY <2>1 DEF DecideContinue, Decidable
      <4>2. PICK g \in NextGenerations(activities[a].node, activities[a].generation + 1) :
              NewActivity(b, Successor(a, activities[a].session, g))
        BY <3>2
      <4>3. g \in Nat \ {0}
        BY <1>6, <4>1, GenerationsType DEF Foundation
      <4> QED
        BY <1>5, <1>6, <4>1, <4>2, <4>3
    <3> QED
      BY <2>1, <3>1, <3>2 DEF DecideContinue
  <2> QED
    BY <1>4, <1>8, <2>1 DEF DecisionCommands, DecideStop
<1>9. CASE AttemptCommands \/ ControlCommands \/ UNCHANGED vars
  <2>1. activities' = activities
    BY <1>9 DEF AttemptCommands, ControlCommands, vars, PrepareAttempt, RecordSpawned,
       RecordSessionBound, RecordTurnStarted, RecordResult, RecordStartFailure, RecordExit,
       ReconcileStartup, RequestControl, RequestStaleControl, ApplyControl, PauseWorkflow,
       SettlePause
  <2> QED
    BY <1>4, <2>1
<1> QED
  BY <1>7, <1>8, <1>9 DEF Next

\* An Activity stands on one completed Result of each dependency of its Node and of
\* nothing else (dependencyBindings, copied by every successor).
THEOREM BindingsAreSound == Spec => []BindingsSound
<1>1. Init => BindingsSound
  BY DEF Init, BindingsSound, Known
<1> QED
  BY <1>1, FoundationHolds, ReportsStaySound, StepKeepsBindings, PTL DEF Spec

-----------------------------------------------------------------------------
(* The graph of dependencies. *)

GraphsAcyclic == \A w \in Workflow : Acyclic(nodes[w])

\* A Node that depends only on Nodes already there closes no cycle.
LEMMA NewNodeClosesNoCycle ==
  ASSUME NEW before \in [Node -> OrNone(NodeRecord)], Acyclic(before),
         NEW n \in Node, before[n] = None, NEW k \in WorkRecord, NEW deps \in SUBSET Node,
         \A d \in deps : before[d] # None
  PROVE  Acyclic([before EXCEPT ![n] = [work |-> k, deps |-> deps]])
<1> DEFINE after == [before EXCEPT ![n] = [work |-> k, deps |-> deps]]
           known == {m \in Node : before[m] # None}
<1>1. /\ \A m \in Node \ {n} : after[m] = before[m]
      /\ after[n].deps = deps /\ after[n] # None
  BY NoneAssumption DEF NodeRecord
<1>2. {m \in Node : after[m] # None} = known \cup {n}
  BY <1>1
<1>3. /\ \A m \in known : before[m].deps \subseteq known
      /\ \A N \in SUBSET known : N # {} => \E m \in N : before[m].deps \cap N = {}
  BY DEF Acyclic
<1>4. n \notin known /\ deps \subseteq known
  OBVIOUS
<1>5. \A m \in known \cup {n} : after[m].deps \subseteq known \cup {n}
  BY <1>1, <1>3, <1>4
<1>6. ASSUME NEW N \in SUBSET (known \cup {n}), N # {}
      PROVE  \E m \in N : after[m].deps \cap N = {}
  <2>1. CASE N \subseteq {n}
    BY <1>1, <1>4, <1>6, <2>1
  <2>2. CASE ~(N \subseteq {n})
    <3>1. PICK m \in N \ {n} : before[m].deps \cap (N \ {n}) = {}
      BY <1>3, <2>2
    <3>2. m \in known /\ n \notin before[m].deps /\ after[m] = before[m]
      BY <1>1, <1>3, <1>4, <3>1
    <3> QED
      BY <3>1, <3>2
  <2> QED
    BY <2>1, <2>2
<1> HIDE DEF after, known
<1>7. Acyclic(after)
  BY <1>2, <1>5, <1>6 DEF Acyclic
<1> QED
  BY <1>7 DEF after

\* A Node joins the graph of its Workflow; the other graphs stay as they are.
LEMMA GraphGrows ==
  ASSUME Foundation, GraphsAcyclic, NEW w \in Workflow, NEW n \in Node, nodes[w][n] = None,
         NEW k \in Works, NEW deps \in SUBSET Node, \A d \in deps : nodes[w][d] # None,
         nodes' = [nodes EXCEPT ![w][n] = [work |-> k, deps |-> deps]]
  PROVE  GraphsAcyclic'
<1>1. \A v \in Workflow \ {w} : nodes'[v] = nodes[v]
  BY DEF Foundation, TypeOK
<1>2. Acyclic(nodes'[w])
  <2>1. nodes[w] \in [Node -> OrNone(NodeRecord)] /\ Acyclic(nodes[w])
    BY DEF Foundation, TypeOK, GraphsAcyclic
  <2>2. k \in WorkRecord
    BY WorksAssumption
  <2>3. nodes'[w] = [nodes[w] EXCEPT ![n] = [work |-> k, deps |-> deps]]
    BY DEF Foundation, TypeOK
  <2>4. \A before \in [Node -> OrNone(NodeRecord)] : before = nodes[w] =>
          Acyclic([before EXCEPT ![n] = [work |-> k, deps |-> deps]])
    BY <2>1, <2>2, NewNodeClosesNoCycle
  <2> QED
    BY <2>1, <2>3, <2>4
<1>3. \A v \in Workflow : Acyclic(nodes'[v])
  BY <1>1, <1>2 DEF GraphsAcyclic
<1> QED
  BY <1>3 DEF GraphsAcyclic, Acyclic

LEMMA StepKeepsGraphs ==
  ASSUME Foundation, GraphsAcyclic, [Next]_vars
  PROVE  GraphsAcyclic'
<1>1. CASE nodes' = nodes
  BY <1>1 DEF GraphsAcyclic, Acyclic
<1>2. ASSUME NEW w \in Workflow, NEW p \in Profiles, NEW n \in Node, NEW k \in Works,
             NEW s \in Session, NEW x \in OrNone(NativeId), NEW a \in Activity,
             StartExecution(w, p, n, k, s, x, a)
      PROVE  GraphsAcyclic'
  <2>1. nodes[w][n] = None
    BY <1>2 DEF StartExecution, Foundation, NodesHaveWorkflow
  <2>2. nodes' = [nodes EXCEPT ![w][n] = [work |-> k, deps |-> {}]]
    BY <1>2 DEF StartExecution
  <2>3. ASSUME NEW deps \in SUBSET Node, deps = {},
               nodes' = [nodes EXCEPT ![w][n] = [work |-> k, deps |-> deps]]
        PROVE  GraphsAcyclic'
    BY <2>1, <2>3, GraphGrows
  <2>4. {} \in SUBSET Node
    OBVIOUS
  <2> QED
    BY <2>2, <2>3, <2>4
<1>3. ASSUME NEW w \in Workflow, NEW n \in Node, NEW k \in Works, NEW deps \in SUBSET Node,
             AddNode(w, n, k, deps)
      PROVE  GraphsAcyclic'
  BY <1>3, GraphGrows DEF AddNode
<1>4. CASE WorkCommands
  BY <1>1, <1>2, <1>3, <1>4 DEF WorkCommands, QueueActivity, ContinueSession, StartFallback,
     WakeTimeReached
<1>5. CASE AttemptCommands \/ DecisionCommands \/ ControlCommands \/ UNCHANGED vars
  <2>1. nodes' = nodes
    BY <1>5 DEF AttemptCommands, DecisionCommands, ControlCommands, vars, PrepareAttempt,
       RecordSpawned, RecordSessionBound, RecordTurnStarted, RecordResult, RecordStartFailure,
       RecordExit, ReconcileStartup, DecideStop, DecideContinue, RequestControl,
       RequestStaleControl, ApplyControl, PauseWorkflow, SettlePause
  <2> QED
    BY <1>1, <2>1
<1> QED
  BY <1>4, <1>5 DEF Next

LEMMA GraphsStayAcyclic == Spec => []GraphsAcyclic
<1>1. Init => GraphsAcyclic
  BY DEF Init, GraphsAcyclic, Acyclic
<1> QED
  BY <1>1, FoundationHolds, StepKeepsGraphs, PTL DEF Spec

-----------------------------------------------------------------------------

\* validateState accepts every State that commands build (validateState,
\* validateDAG): Execute never fails on the State it has just decided.
THEOREM StatesAreAccepted == Spec => []StateAccepted
<1> DEFINE Parts == Foundation /\ WriterExclusion /\ BindingsSound /\ GraphsAcyclic
<1>1. Parts => StateAccepted
  <2> SUFFICES ASSUME Foundation, WriterExclusion, BindingsSound, GraphsAcyclic
               PROVE  StateAccepted
    OBVIOUS
  <2> USE DEF Foundation
  <2>1. LeasesFenced(Current)
    BY DEF LeasesFenced, Current, WriterExclusion, LeaseTracksAttempt, StateValid, Known
  <2>2. ActivitiesBound(Current)
    <3>1. ASSUME NEW a \in Activity, Known(a), NEW d \in Node, activities[a].bindings[d] # None
          PROVE  /\ results[activities[a].bindings[d]] # None
                 /\ activities[activities[a].bindings[d]].node = d
      BY <3>1 DEF BindingsSound
    <3> QED
      BY <3>1 DEF ActivitiesBound, Current, StateValid, Known
  <2>3. AttemptsKnown(Current)
    BY DEF AttemptsKnown, Current, StateValid, Known
  <2>4. PausesTraced(Current)
    BY DEF PausesTraced, Current, StateValid, WorkflowOf, ActivityOf, Known, TypeOK, PauseRecord
  <2>5. ResultsTraced(Current)
    BY DEF ResultsTraced, Current, StateValid, AttemptsOf, Known
  <2>6. \A w \in Workflow : Acyclic(nodes[w])
    BY DEF GraphsAcyclic
  <2>7. Current.workflows = workflows /\ Current.nodes = nodes
    BY DEF Current
  <2> QED
    BY <2>1, <2>2, <2>3, <2>4, <2>5, <2>6, <2>7 DEF StateAccepted, IdentitiesSound
<1> HIDE DEF Parts
<1>2. Spec => []Parts
  <2>1. Foundation /\ WriterExclusion /\ BindingsSound /\ GraphsAcyclic => Parts
    BY DEF Parts
  <2> QED
    BY <2>1, FoundationHolds, WritersExcluded, BindingsAreSound, GraphsStayAcyclic, PTL
<1> QED
  BY <1>1, <1>2, PTL

-----------------------------------------------------------------------------
(* Replay.  The journal is the State: what the reducer makes of a command's    *)
(* events is what the command did.                                             *)

HIDE DEF OrNone

(* A journal entry is applied event by event. *)

\* The entry makes R of S, and every State on the way is one.
Makes(S, entry, R) ==
  /\ \E E : entry \in Seq(E)
  /\ \E states :
       /\ states = [i \in 0 .. Len(entry) |-> states[i]]
       /\ states[0] = S /\ states[Len(entry)] = R
       /\ \A i \in 1 .. Len(entry) :
            /\ states[i - 1] # None
            /\ states[i] = ApplyEvent(states[i - 1], entry[i])

\* An entry without events changes nothing.
LEMMA MakesNothing ==
  ASSUME NEW S
  PROVE  Makes(S, <<>>, S)
<1>1. <<>> \in Seq({}) /\ Len(<<>>) = 0
  OBVIOUS
<1>2. PICK states : states = [i \in 0 .. 0 |-> S]
  OBVIOUS
<1>3. states = [i \in 0 .. 0 |-> states[i]] /\ states[0] = S
  BY <1>2
<1> QED
  BY <1>1, <1>3 DEF Makes

\* One event is what the reducer makes of it.
LEMMA MakesOne ==
  ASSUME NEW S, S # None, NEW e
  PROVE  Makes(S, <<e>>, ApplyEvent(S, e))
<1>1. PICK R : R = ApplyEvent(S, e)
  OBVIOUS
<1>2. <<e>> \in Seq({e}) /\ Len(<<e>>) = 1 /\ <<e>>[1] = e
  OBVIOUS
<1>3. PICK states : states = [i \in 0 .. 1 |-> IF i = 0 THEN S ELSE R]
  OBVIOUS
<1>4. states = [i \in 0 .. 1 |-> states[i]] /\ states[0] = S /\ states[1] = R
  BY <1>3
<1>5. Makes(S, <<e>>, R)
  <2>1. PICK entry : entry = <<e>>
    OBVIOUS
  <2>2. /\ \E E : entry \in Seq(E)
        /\ Len(entry) = 1 /\ entry[1] = e
    BY <1>2, <2>1
  <2>3. \A i \in 1 .. 1 : i = 1 /\ i - 1 = 0
    OBVIOUS
  <2>4. Makes(S, entry, R)
    BY <1>1, <1>4, <2>2, <2>3 DEF Makes
  <2> QED
    BY <2>1, <2>4
<1> QED
  BY <1>1, <1>5

\* An entry in two parts: the second starts from the State the first one makes.
LEMMA MakesBoth ==
  ASSUME NEW S, NEW first, NEW R, NEW second, NEW Q, Makes(S, first, R), Makes(R, second, Q)
  PROVE  Makes(S, first \o second, Q)
<1>1. PICK E, F : first \in Seq(E) /\ second \in Seq(F)
  BY DEF Makes
<1>2. PICK all, G : all = first \o second /\ G = E \cup F
  OBVIOUS
<1>3. first \in Seq(G) /\ second \in Seq(G)
  BY <1>1, <1>2
<1>4. PICK N, M : N = Len(first) /\ M = Len(second)
  OBVIOUS
<1>5. /\ N \in Nat /\ M \in Nat /\ all \in Seq(G) /\ Len(all) = N + M
      /\ \A i \in 1 .. N : all[i] = first[i]
      /\ \A i \in 1 .. M : all[i + N] = second[i]
  BY <1>2, <1>3, <1>4
<1>6. PICK s : /\ s[0] = S /\ s[N] = R
               /\ \A i \in 1 .. N : s[i - 1] # None /\ s[i] = ApplyEvent(s[i - 1], first[i])
  BY <1>4 DEF Makes
<1>7. PICK t : /\ t[0] = R /\ t[M] = Q
               /\ \A i \in 1 .. M : t[i - 1] # None /\ t[i] = ApplyEvent(t[i - 1], second[i])
  BY <1>4 DEF Makes
<1>8. PICK states : states = [i \in 0 .. N + M |-> IF i <= N THEN s[i] ELSE t[i - N]]
  OBVIOUS
<1>9. /\ states = [i \in 0 .. N + M |-> states[i]]
      /\ \A i \in 0 .. N : states[i] = s[i]
      /\ \A i \in 0 .. M : states[i + N] = t[i]
  <2>1. /\ states = [i \in 0 .. N + M |-> states[i]]
        /\ \A i \in 0 .. N : states[i] = s[i]
    BY <1>5, <1>8
  <2>2. ASSUME NEW i \in 0 .. M PROVE states[i + N] = t[i]
    <3>1. i + N \in 0 .. N + M /\ (i + N) - N = i
      BY <1>5
    <3>2. CASE i = 0
      <4>1. i + N = N /\ N \in 0 .. N
        BY <1>5, <3>2
      <4> QED
        BY <1>6, <1>7, <2>1, <3>2, <4>1
    <3>3. CASE i # 0
      <4>1. ~(i + N <= N)
        BY <1>5, <3>3
      <4> QED
        BY <1>8, <3>1, <4>1
    <3> QED
      BY <3>2, <3>3
  <2> QED
    BY <2>1, <2>2
<1>10. states[0] = S /\ states[Len(all)] = Q
  <2>1. 0 \in 0 .. N /\ M \in 0 .. M /\ M + N = Len(all)
    BY <1>5
  <2>2. states[0] = s[0] /\ states[M + N] = t[M]
    BY <1>9, <2>1
  <2> QED
    BY <1>6, <1>7, <2>1, <2>2
<1>11. ASSUME NEW i \in 1 .. N + M
       PROVE  states[i - 1] # None /\ states[i] = ApplyEvent(states[i - 1], all[i])
  <2>1. CASE i <= N
    <3>1. i \in 1 .. N /\ i - 1 \in 0 .. N /\ i \in 0 .. N
      BY <1>5, <2>1
    <3> QED
      BY <1>5, <1>6, <1>9, <3>1
  <2>2. CASE i > N
    <3>1. PICK j \in 1 .. M : i = j + N
      <4>1. i - N \in 1 .. M /\ i = (i - N) + N
        BY <1>5, <2>2
      <4> QED
        BY <4>1
    <3>2. j - 1 \in 0 .. M /\ j \in 0 .. M /\ i - 1 = (j - 1) + N
      BY <1>5, <3>1
    <3>3. states[i - 1] = t[j - 1] /\ states[i] = t[j] /\ all[i] = second[j]
      BY <1>5, <1>9, <3>1, <3>2
    <3> QED
      BY <1>7, <3>3
  <2> QED
    BY <1>5, <2>1, <2>2
<1>12. Makes(S, all, Q)
  <2>1. \E K : all \in Seq(K)
    BY <1>5
  <2>2. states = [i \in 0 .. Len(all) |-> states[i]]
    BY <1>5, <1>9
  <2>3. \A i \in 1 .. Len(all) :
          states[i - 1] # None /\ states[i] = ApplyEvent(states[i - 1], all[i])
    BY <1>5, <1>11
  <2> QED
    BY <1>10, <2>1, <2>2, <2>3 DEF Makes
<1> QED
  BY <1>2, <1>12

\* A part that is only there on a condition.
LEMMA MakesIf ==
  ASSUME NEW S, NEW R, NEW condition, NEW entry,
         condition => Makes(S, entry, R), ~condition => R = S
  PROVE  Makes(S, OnlyIf(condition, entry), R)
BY MakesNothing DEF OnlyIf

\* What applyEntry returns for it.
LEMMA ApplyEntryMakes ==
  ASSUME NEW S, NEW entry, NEW R, Makes(S, entry, R)
  PROVE  ApplyEntry(S, entry) = R
<1> DEFINE N == Len(entry)
           Is(after) ==
             after = [i \in 0 .. N |->
                IF i = 0 THEN S
                ELSE IF after[i - 1] = None THEN None ELSE ApplyEvent(after[i - 1], entry[i])]
<1>1. N \in Nat
  BY DEF Makes
<1>2. PICK states :
        /\ states = [i \in 0 .. N |-> states[i]]
        /\ states[0] = S /\ states[N] = R
        /\ \A i \in 1 .. N : states[i - 1] # None /\ states[i] = ApplyEvent(states[i - 1],
                                                                            entry[i])
  BY DEF Makes
<1>3. Is(states)
  <2>1. PICK other :
          other = [i \in 0 .. N |->
             IF i = 0 THEN S
             ELSE IF states[i - 1] = None THEN None ELSE ApplyEvent(states[i - 1], entry[i])]
    OBVIOUS
  <2>2. ASSUME NEW i \in 0 .. N PROVE other[i] = states[i]
    <3>1. CASE i = 0
      BY <1>2, <2>1, <3>1
    <3>2. CASE i # 0
      <4>1. i \in 1 .. N
        BY <1>1, <3>2
      <4> QED
        BY <1>2, <2>1, <3>2, <4>1
    <3> QED
      BY <3>1, <3>2
  <2>3. other = [i \in 0 .. N |-> other[i]]
    BY <2>1
  <2>4. other = states
    <3> HIDE DEF N
    <3> QED
      BY <1>2, <2>2, <2>3
  <2> QED
    BY <2>1, <2>4
<1>4. ApplyEntry(S, entry) = (CHOOSE after : Is(after))[N]
  BY DEF ApplyEntry
<1>5. PICK after : Is(after) /\ ApplyEntry(S, entry) = after[N]
  <2> HIDE DEF Is
  <2> QED
    BY <1>3, <1>4
<1>6. \A i \in 0 .. N :
        after[i] = IF i = 0 THEN S
                   ELSE IF after[i - 1] = None THEN None ELSE ApplyEvent(after[i - 1], entry[i])
  BY <1>5, Zenon
<1> DEFINE T == {i \in 0 .. N : after[i] = states[i]}
<1>7. 0 \in T
  BY <1>1, <1>2, <1>6
<1>8. ASSUME NEW i \in 1 .. N, i - 1 \in T PROVE i \in T
  <2>1. i \in 0 .. N /\ i # 0 /\ after[i - 1] = states[i - 1]
    BY <1>1, <1>8
  <2> QED
    BY <1>2, <1>6, <2>1
<1>9. 0 .. N \subseteq T
  <2> HIDE DEF T, N
  <2> QED
    BY <1>1, <1>7, <1>8, EveryStep
<1>10. N \in 0 .. N
  BY <1>1
<1>11. after[N] = states[N]
  BY <1>9, <1>10
<1> QED
  BY <1>2, <1>5, <1>11

\* A function on 1 .. n is a sequence of length n.
LEMMA SequenceLength ==
  ASSUME NEW E, NEW n \in Nat, NEW s \in [1 .. n -> E]
  PROVE  s \in Seq(E) /\ Len(s) = n
<1>1. s \in Seq(E)
  BY SeqDef
<1>2. Len(s) \in Nat /\ 1 .. Len(s) = 1 .. n
  BY <1>1, LenProperties
<1>3. PICK m : m = Len(s)
  OBVIOUS
<1>4. m = n
  BY <1>2, <1>3
<1> QED
  BY <1>1, <1>3, <1>4

\* A finite set read in some order: each element once.
LEMMA SetToSeqEnumerates ==
  ASSUME NEW T, IsFiniteSet(T)
  PROVE  \E n \in Nat :
           /\ SetToSeq(T) \in [1 .. n -> T]
           /\ \A i, j \in 1 .. n : SetToSeq(T)[i] = SetToSeq(T)[j] => i = j
           /\ \A x \in T : \E i \in 1 .. n : SetToSeq(T)[i] = x
<1>1. PICK n : n = Cardinality(T)
  OBVIOUS
<1>2. n \in Nat /\ ExistsBijection(1 .. n, T)
  BY <1>1, FS_CardinalityType
<1>3. PICK f \in Bijection(1 .. n, T) : TRUE
  BY <1>2 DEF ExistsBijection
<1>4. f \in [1 .. n -> T] /\ IsInjective(f)
  BY <1>3 DEF Bijection, Injection, IsInjective
<1>5. PICK s : s = SetToSeq(T)
  OBVIOUS
<1>6. s \in [1 .. n -> T] /\ IsInjective(s)
  <2>1. s = CHOOSE g \in [1 .. n -> T] : IsInjective(g)
    BY <1>1, <1>5 DEF SetToSeq
  <2> QED
    BY <1>4, <2>1
<1>7. s \in Injection(1 .. n, T)
  BY <1>6 DEF Injection, IsInjective
<1>8. IsFiniteSet(1 .. n) /\ Cardinality(1 .. n) = Cardinality(T)
  BY <1>1, <1>2, FS_Interval
<1>9. s \in Surjection(1 .. n, T)
  BY <1>7, <1>8, FS_Injection
<1>10. \A x \in T : \E i \in 1 .. n : s[i] = x
  BY <1>9 DEF Surjection
<1>11. \A i, j \in 1 .. n : s[i] = s[j] => i = j
  BY <1>6 DEF IsInjective
<1> QED
  BY <1>2, <1>5, <1>6, <1>10, <1>11

\* What FlattenSeq concatenates, block after block, exists.
LEMMA ConcatenationIsDefined ==
  ASSUME NEW n \in Nat, NEW E
  PROVE  \A blocks \in [1 .. n -> Seq(E)] :
           \E f : f = [i \in 1 .. n |-> IF i = 1 THEN blocks[i] ELSE f[i - 1] \o blocks[i]]
<1>1. PICK S, base : S = Seq(E) /\ base = <<>>
  OBVIOUS
<1>2. base \in S
  BY <1>1
<1>3. \A step \in [1 .. n -> [S -> S]] : \E g \in [0 .. n -> S] :
        g[0] = base /\ \A i \in 1 .. n : g[i] = step[i][g[i - 1]]
  BY <1>2, RecursionIsDefined
<1> SUFFICES ASSUME NEW blocks \in [1 .. n -> Seq(E)]
             PROVE  \E f : f = [i \in 1 .. n |->
                              IF i = 1 THEN blocks[i] ELSE f[i - 1] \o blocks[i]]
  OBVIOUS
<1>4. PICK step : step = [i \in 1 .. n |-> [x \in S |-> x \o blocks[i]]]
  OBVIOUS
<1>41. step \in [1 .. n -> [S -> S]]
  BY <1>1, <1>4
<1>5. PICK g \in [0 .. n -> S] : g[0] = base /\ \A i \in 1 .. n : g[i] = step[i][g[i - 1]]
  BY <1>3, <1>41
<1>6. ASSUME NEW i \in 1 .. n PROVE g[i] = g[i - 1] \o blocks[i]
  <2>1. i - 1 \in 0 .. n
    OBVIOUS
  <2>2. g[i - 1] \in S /\ g[i] = step[i][g[i - 1]]
    BY <1>5, <2>1
  <2> QED
    BY <1>1, <1>4, <2>2
<1>7. ASSUME n # 0 PROVE g[1] = blocks[1]
  <2>1. 1 \in 1 .. n /\ 1 - 1 = 0
    BY <1>7
  <2>2. g[1] = <<>> \o blocks[1]
    BY <1>1, <1>5, <1>6, <2>1
  <2> QED
    BY <2>1, <2>2
<1>8. PICK f : f = [i \in 1 .. n |-> g[i]]
  OBVIOUS
<1>9. ASSUME NEW i \in 1 .. n
      PROVE  f[i] = IF i = 1 THEN blocks[i] ELSE f[i - 1] \o blocks[i]
  <2>1. CASE i = 1
    <3>1. f[1] = g[1]
      BY <1>8, <2>1
    <3>2. n # 0
      BY <2>1
    <3> QED
      BY <1>7, <2>1, <3>1, <3>2
  <2>2. CASE i # 1
    <3>1. i - 1 \in 1 .. n
      BY <2>2
    <3>2. f[i - 1] = g[i - 1] /\ f[i] = g[i]
      BY <1>8, <3>1
    <3>3. g[i] = g[i - 1] \o blocks[i]
      BY <1>6
    <3>4. f[i] = f[i - 1] \o blocks[i]
      BY <3>2, <3>3
    <3> QED
      BY <2>2, <3>4
  <2> QED
    BY <2>1, <2>2
<1>10. f = [i \in 1 .. n |-> IF i = 1 THEN blocks[i] ELSE f[i - 1] \o blocks[i]]
  <2>1. PICK h : h = [i \in 1 .. n |-> IF i = 1 THEN blocks[i] ELSE f[i - 1] \o blocks[i]]
    OBVIOUS
  <2>2. h = f
    BY <1>8, <1>9, <2>1
  <2> QED
    BY <2>1, <2>2
<1> QED
  BY <1>10

\* An entry made of one block of events after the other.
LEMMA MakesBlocks ==
  ASSUME NEW n \in Nat, NEW blocks, blocks = [i \in 1 .. n |-> blocks[i]], NEW states,
         \A i \in 1 .. n : Makes(states[i - 1], blocks[i], states[i])
  PROVE  Makes(states[0], FlattenSeq(blocks), states[n])
<1> DEFINE Elements(b) == {b[j] : j \in 1 .. Len(b)}
           E == UNION {Elements(blocks[i]) : i \in 1 .. n}
           Is(f) == f = [i \in 1 .. n |-> IF i = 1 THEN blocks[i] ELSE f[i - 1] \o blocks[i]]
<1>1. ASSUME NEW i \in 1 .. n PROVE blocks[i] \in Seq(E)
  <2>1. PICK b : b = blocks[i]
    OBVIOUS
  <2>2. PICK F : b \in Seq(F)
    BY <2>1 DEF Makes
  <2>3. b \in Seq(Elements(b))
    <3>1. PICK m : m = Len(b)
      OBVIOUS
    <3>2. m \in Nat /\ b \in [1 .. m -> F]
      BY <2>2, <3>1
    <3>3. PICK R : R = Elements(b)
      OBVIOUS
    <3>4. b \in [1 .. m -> R]
      BY <3>1, <3>2, <3>3
    <3>5. b \in Seq(R)
      BY <3>2, <3>4, SequenceLength
    <3> QED
      BY <3>3, <3>5
  <2>4. Elements(b) \subseteq E
    BY <2>1
  <2> HIDE DEF E, Elements
  <2> QED
    BY <2>1, <2>3, <2>4, SeqMonotonic
<1>2. blocks \in Seq(Seq(E)) /\ Len(blocks) = n
  <2> HIDE DEF E
  <2>1. blocks \in [1 .. n -> Seq(E)]
    BY <1>1
  <2> QED
    BY <2>1, SequenceLength
<1> HIDE DEF E, Elements
<1>3. CASE n = 0
  <2>1. FlattenSeq(blocks) = blocks
    BY <1>2, <1>3 DEF FlattenSeq
  <2>2. blocks = <<>>
    BY <1>2, <1>3, EmptySeq
  <2> QED
    BY <1>3, <2>1, <2>2, MakesNothing
<1>4. CASE n # 0
  <2>1. \E f : Is(f)
    <3>1. blocks \in [1 .. n -> Seq(E)]
      BY <1>1
    <3> HIDE DEF E
    <3> QED
      BY <3>1, ConcatenationIsDefined
  <2>2. FlattenSeq(blocks) = (CHOOSE f : Is(f))[n]
    BY <1>2, <1>4 DEF FlattenSeq
  <2>3. PICK f : Is(f) /\ FlattenSeq(blocks) = f[n]
    <3> HIDE DEF Is
    <3> QED
      BY <2>1, <2>2
  <2>4. \A i \in 1 .. n : f[i] = IF i = 1 THEN blocks[i] ELSE f[i - 1] \o blocks[i]
    BY <2>3, Zenon
  <2> DEFINE T == {i \in 0 .. n : i = 0 \/ Makes(states[0], f[i], states[i])}
  <2>5. 0 \in T
    OBVIOUS
  <2>6. ASSUME NEW i \in 1 .. n, i - 1 \in T PROVE i \in T
    <3>1. Makes(states[0], f[i], states[i])
      <4>1. CASE i = 1
        <5>1. f[1] = blocks[1] /\ Makes(states[0], blocks[1], states[1])
          BY <2>4, <4>1
        <5> QED
          BY <4>1, <5>1
      <4>2. CASE i # 1
        <5>1. i - 1 # 0
          BY <4>2
        <5>2. Makes(states[0], f[i - 1], states[i - 1])
          BY <2>6, <5>1
        <5>3. f[i] = f[i - 1] \o blocks[i] /\ Makes(states[i - 1], blocks[i], states[i])
          BY <2>4, <4>2
        <5>4. PICK first, second, whole :
                first = f[i - 1] /\ second = blocks[i] /\ whole = first \o second
          OBVIOUS
        <5>5. Makes(states[0], whole, states[i])
          BY <5>2, <5>3, <5>4, MakesBoth
        <5> QED
          BY <5>3, <5>4, <5>5
      <4> QED
        BY <4>1, <4>2
    <3> QED
      BY <3>1
  <2>7. 0 .. n \subseteq T
    <3> HIDE DEF T
    <3> QED
      BY <2>5, <2>6, EveryStep
  <2>8. n \in 0 .. n
    OBVIOUS
  <2>9. Makes(states[0], f[n], states[n])
    BY <1>4, <2>7, <2>8
  <2> QED
    BY <2>3, <2>9
<1> QED
  BY <1>3, <1>4

\* Two events in one entry are one entry after the other.
LEMMA PairIsConcatenation ==
  ASSUME NEW e1, NEW e2
  PROVE  <<e1, e2>> = <<e1>> \o <<e2>>
<1>1. PICK S : S = {e1, e2}
  OBVIOUS
<1>2. PICK b1, b2, q, r : b1 = <<e1>> /\ b2 = <<e2>> /\ q = <<e1, e2>> /\ r = b1 \o b2
  OBVIOUS
<1>3. b1 \in Seq(S) /\ b2 \in Seq(S) /\ Len(b1) = 1 /\ Len(b2) = 1 /\ b1[1] = e1 /\ b2[1] = e2
  BY <1>1, <1>2
<1>4. q = [i \in 1 .. 2 |-> IF i = 1 THEN e1 ELSE e2]
  BY <1>2
<1>5. r \in Seq(S) /\ Len(r) = 2 /\ r[1] = e1 /\ r[2] = e2
  BY <1>2, <1>3
<1>6. r = [i \in 1 .. 2 |-> IF i = 1 THEN e1 ELSE e2]
  <2>1. r = [i \in 1 .. 2 |-> r[i]]
    BY <1>5
  <2>2. \A i \in 1 .. 2 : r[i] = IF i = 1 THEN e1 ELSE e2
    BY <1>5
  <2> QED
    BY <2>1, <2>2
<1> QED
  BY <1>2, <1>4, <1>6

\* One block of events per element of a set, in whatever order the set is read:
\* enough that any element's block leads from the State of any of the others to
\* the State of one element more.
LEMMA BlocksMake ==
  ASSUME NEW T, IsFiniteSet(T), NEW block, NEW state,
         \A U \in SUBSET T, t \in T :
           t \notin U => Makes(state[U], block[t], state[U \cup {t}])
  PROVE  Makes(state[{}], FlattenSeq([i \in DOMAIN SetToSeq(T) |-> block[SetToSeq(T)[i]]]),
               state[T])
<1>1. PICK order : order = SetToSeq(T)
  OBVIOUS
<1>2. PICK n \in Nat :
        /\ order \in [1 .. n -> T]
        /\ \A i, j \in 1 .. n : order[i] = order[j] => i = j
        /\ \A x \in T : \E i \in 1 .. n : order[i] = x
  BY <1>1, SetToSeqEnumerates
<1>3. PICK before : before = [i \in 0 .. n |-> {order[j] : j \in 1 .. i}]
  OBVIOUS
<1>4. before[0] = {} /\ before[n] = T
  <2>1. before[0] = {order[j] : j \in 1 .. 0} /\ before[n] = {order[j] : j \in 1 .. n}
    BY <1>3
  <2>2. 1 .. 0 = {}
    OBVIOUS
  <2>3. before[0] = {}
    BY <2>1, <2>2
  <2>4. before[n] = T
    BY <1>2, <2>1
  <2> QED
    BY <2>3, <2>4
<1>5. PICK states : states = [i \in 0 .. n |-> state[before[i]]]
  OBVIOUS
<1>6. states[0] = state[{}] /\ states[n] = state[T]
  <2>1. 0 \in 0 .. n /\ n \in 0 .. n
    OBVIOUS
  <2>2. states[0] = state[before[0]] /\ states[n] = state[before[n]]
    BY <1>5, <2>1
  <2> QED
    BY <1>4, <2>2
<1>7. PICK blocks : blocks = [i \in 1 .. n |-> block[order[i]]]
  OBVIOUS
<1>8. blocks = [i \in DOMAIN order |-> block[order[i]]]
  BY <1>2, <1>7
<1>9. ASSUME NEW i \in 1 .. n PROVE Makes(states[i - 1], blocks[i], states[i])
  <2>1. i - 1 \in 0 .. n /\ i \in 0 .. n
    OBVIOUS
  <2>2. PICK U : U = before[i - 1]
    OBVIOUS
  <2>3. U = {order[j] : j \in 1 .. i - 1}
    BY <1>3, <2>1, <2>2
  <2>4. U \in SUBSET T /\ order[i] \in T /\ order[i] \notin U
    BY <1>2, <2>1, <2>3
  <2>5. before[i] = U \cup {order[i]}
    <3>1. before[i] = {order[j] : j \in 1 .. i}
      BY <1>3, <2>1
    <3>2. \A j : j \in 1 .. i <=> j \in 1 .. i - 1 \/ j = i
      OBVIOUS
    <3> QED
      BY <2>3, <3>1, <3>2
  <2>6. Makes(state[U], block[order[i]], state[U \cup {order[i]}])
    BY <2>4
  <2>7. states[i - 1] = state[U] /\ states[i] = state[U \cup {order[i]}] /\ blocks[i]
        = block[order[i]]
    BY <1>5, <1>7, <2>1, <2>2, <2>5
  <2> QED
    BY <2>6, <2>7
<1>10. blocks = [i \in 1 .. n |-> blocks[i]]
  BY <1>7
<1>11. Makes(states[0], FlattenSeq(blocks), states[n])
  BY <1>9, <1>10, MakesBlocks
<1> QED
  BY <1>1, <1>6, <1>8, <1>11

(* One event at a time. *)

\* The record of a State from its parts.
StateOf(W, N, S, A, H, L, R, M, C, P) ==
  [workflows |-> W, nodes |-> N, sessions |-> S, activities |-> A, attempts |-> H,
   leases |-> L, results |-> R, messages |-> M, controls |-> C, pauses |-> P]

\* Well-typed parts make a State, which the reducer did not refuse.
LEMMA StateIsTyped ==
  ASSUME NEW W \in [Workflow -> OrNone(Profiles)],
         NEW N \in [Workflow -> [Node -> OrNone(NodeRecord)]],
         NEW S \in [Session -> OrNone(SessionRecord)],
         NEW A \in [Activity -> OrNone(ActivityRecord)],
         NEW H \in [Attempt -> OrNone(HistoryRecord)],
         NEW L \in [Attempt -> OrNone(LeaseRecord)],
         NEW R \in [Activity -> OrNone(ResultRecord)],
         NEW M \in [Activity -> OrNone(MessageRecord)],
         NEW C \in [Control -> OrNone(ControlRecord)],
         NEW P \in [Workflow -> OrNone(PauseRecord)]
  PROVE  StateOf(W, N, S, A, H, L, R, M, C, P) # None
BY StateAssumption DEF StateRecord, StateOf

\* The reducer goes by the type of the event.
LEMMA EventsByType ==
  ASSUME NEW Z, NEW e
  PROVE  /\ e.type = "execution.started" => ApplyEvent(Z, e) = ExecutionStarted(Z, e)
         /\ e.type = "node.added" => ApplyEvent(Z, e) = NodeAdded(Z, e)
         /\ e.type = "activity.queued" => ApplyEvent(Z, e) = ActivityQueued(Z, e)
         /\ e.type = "activity.fallback_queued" => ApplyEvent(Z, e) = FallbackQueued(Z, e)
         /\ e.type = "attempt.prepared" => ApplyEvent(Z, e) = AttemptPrepared(Z, e)
         /\ e.type = "attempt.milestone" => ApplyEvent(Z, e) = MilestoneRecorded(Z, e)
         /\ e.type = "result.created" => ApplyEvent(Z, e) = ResultCreated(Z, e)
         /\ e.type = "message.queued" => ApplyEvent(Z, e) = MessageQueued(Z, e)
         /\ e.type = "message.dispatched" => ApplyEvent(Z, e) = MessageDispatched(Z, e)
         /\ e.type = "message.settled" => ApplyEvent(Z, e) = MessageSettled(Z, e)
         /\ e.type = "lease.released" => ApplyEvent(Z, e) = LeaseReleased(Z, e)
         /\ e.type = "control.recorded" => ApplyEvent(Z, e) = ControlRecorded(Z, e)
         /\ e.type = "control.applied" => ApplyEvent(Z, e) = ControlApplied(Z, e)
         /\ e.type = "workflow.paused" => ApplyEvent(Z, e) = WorkflowPaused(Z, e)
         /\ e.type = "workflow.pause_settled" => ApplyEvent(Z, e) = PauseSettled(Z, e)
BY DEF ApplyEvent

\* The parts of a State are what it was made of.
LEMMA FieldsOfState ==
  ASSUME NEW W, NEW N, NEW S, NEW A, NEW H, NEW L, NEW R, NEW M, NEW C, NEW P
  PROVE  /\ StateOf(W, N, S, A, H, L, R, M, C, P).workflows = W
         /\ StateOf(W, N, S, A, H, L, R, M, C, P).nodes = N
         /\ StateOf(W, N, S, A, H, L, R, M, C, P).sessions = S
         /\ StateOf(W, N, S, A, H, L, R, M, C, P).activities = A
         /\ StateOf(W, N, S, A, H, L, R, M, C, P).attempts = H
         /\ StateOf(W, N, S, A, H, L, R, M, C, P).leases = L
         /\ StateOf(W, N, S, A, H, L, R, M, C, P).results = R
         /\ StateOf(W, N, S, A, H, L, R, M, C, P).messages = M
         /\ StateOf(W, N, S, A, H, L, R, M, C, P).controls = C
         /\ StateOf(W, N, S, A, H, L, R, M, C, P).pauses = P
BY DEF StateOf

(* What the events do to the State's parts. *)

\* A Workflow with its first Node.
Founding(N, w, n, record) ==
  [N EXCEPT ![w] = [m \in Node |-> IF m = n THEN record ELSE None]]
\* One Node more.
Placing(N, w, n, record) == [N EXCEPT ![w][n] = record]
\* A Session with the provider's identity.
Binding(S, s, native) == [S EXCEPT ![s].native = native]
\* A launch without milestones.
Unreported(record) == [record EXCEPT !.milestones = <<>>]
\* A launch with one milestone more, the latest.
Adding(H, t, kind) == [H EXCEPT ![t].milestones = Append(@, kind)]
\* A Message given to a launch.
Dispatching(M, a, t, number) ==
  [M EXCEPT ![a] = [state |-> "dispatched", attempt |-> t, delivery |-> number]]
\* A Message its launch received.
Delivering(M, a) == [M EXCEPT ![a].state = "delivered"]
\* A Message back in its queue.
Returning(M, a) == [[M EXCEPT ![a].state = "queued"] EXCEPT ![a].attempt = None]
\* A Lease released.
Freeing(L, t) == [L EXCEPT ![t].released = TRUE]
\* The release noted in every pause that fences the launch.
Noting(P, t) ==
  [w \in Workflow |->
     IF P[w] # None /\ t \in P[w].fenced
     THEN [P[w] EXCEPT !.released = @ \cup {t}] ELSE P[w]]
\* A control applied.
Applying(C, c) == [C EXCEPT ![c].applied = TRUE]
\* A pause settled.
Completing(P, w) == [P EXCEPT ![w].phase = "completed"]

\* execution.started is accepted when what it creates is new.
LEMMA StartedMakes ==
  ASSUME NEW W, NEW N, NEW S, NEW A, NEW H, NEW L, NEW R, NEW M, NEW C, NEW P, NEW e,
         e.type = "execution.started",
         W[e.workflow] = None,
         S[e.session] = None,
         A[e.activity] = None
  PROVE  ApplyEvent(StateOf(W, N, S, A, H, L, R, M, C, P), e)
           = StateOf([W EXCEPT ![e.workflow] = e.profile], Founding(N, e.workflow, e.node,
                                                                    e.nodeRecord),
                                                                    [S EXCEPT ![e.session]
                                                                     = e.sessionRecord],
                                                                     [A EXCEPT ![e.activity]
                                                                      = e.activityRecord], H,
                                                                      L, R, M, C, P)
<1>1. PICK Z : Z = StateOf(W, N, S, A, H, L, R, M, C, P)
  OBVIOUS
<1>2. /\ Z.workflows = W
      /\ Z.nodes = N
      /\ Z.sessions = S
      /\ Z.activities = A
      /\ Z.attempts = H
      /\ Z.leases = L
      /\ Z.results = R
      /\ Z.messages = M
      /\ Z.controls = C
      /\ Z.pauses = P
  BY <1>1, FieldsOfState
<1>3. ApplyEvent(Z, e) = ExecutionStarted(Z, e)
  BY EventsByType
<1>4. PICK W1, N2, S3, A4 :
        /\ W1 = [W EXCEPT ![e.workflow] = e.profile]
        /\ N2 = Founding(N, e.workflow, e.node, e.nodeRecord)
        /\ S3 = [S EXCEPT ![e.session] = e.sessionRecord]
        /\ A4 = [A EXCEPT ![e.activity] = e.activityRecord]
  OBVIOUS
<1>5. ExecutionStarted(Z, e) = [[[[Z EXCEPT !.workflows = W1] EXCEPT !.nodes
                                  = N2] EXCEPT !.sessions = S3] EXCEPT !.activities = A4]
  BY <1>2, <1>4 DEF ExecutionStarted, When, Founding
<1>6. [[[[Z EXCEPT !.workflows = W1] EXCEPT !.nodes = N2] EXCEPT !.sessions
        = S3] EXCEPT !.activities = A4]
        = StateOf(W1, N2, S3, A4, H, L, R, M, C, P)
  <2>1. PICK Y1 : Y1 = [Z EXCEPT !.workflows = W1]
    OBVIOUS
  <2>2. Y1 = StateOf(W1, N, S, A, H, L, R, M, C, P)
    BY <1>1, <2>1 DEF StateOf
  <2>3. PICK Y2 : Y2 = [Y1 EXCEPT !.nodes = N2]
    OBVIOUS
  <2>4. Y2 = StateOf(W1, N2, S, A, H, L, R, M, C, P)
    BY <2>2, <2>3 DEF StateOf
  <2>5. PICK Y3 : Y3 = [Y2 EXCEPT !.sessions = S3]
    OBVIOUS
  <2>6. Y3 = StateOf(W1, N2, S3, A, H, L, R, M, C, P)
    BY <2>4, <2>5 DEF StateOf
  <2>7. PICK Y4 : Y4 = [Y3 EXCEPT !.activities = A4]
    OBVIOUS
  <2>8. Y4 = StateOf(W1, N2, S3, A4, H, L, R, M, C, P)
    BY <2>6, <2>7 DEF StateOf
  <2> QED
    BY <2>1, <2>3, <2>5, <2>7, <2>8
<1> QED
  BY <1>1, <1>3, <1>4, <1>5, <1>6

\* node.added is accepted in a Workflow that lacks the Node.
LEMMA NodeMakes ==
  ASSUME NEW W, NEW N, NEW S, NEW A, NEW H, NEW L, NEW R, NEW M, NEW C, NEW P, NEW e,
         e.type = "node.added",
         W[e.workflow] # None,
         N[e.workflow][e.node] = None
  PROVE  ApplyEvent(StateOf(W, N, S, A, H, L, R, M, C, P), e)
           = StateOf(W, Placing(N, e.workflow, e.node, e.nodeRecord), S, A, H, L, R, M, C, P)
<1>1. PICK Z : Z = StateOf(W, N, S, A, H, L, R, M, C, P)
  OBVIOUS
<1>2. /\ Z.workflows = W
      /\ Z.nodes = N
      /\ Z.sessions = S
      /\ Z.activities = A
      /\ Z.attempts = H
      /\ Z.leases = L
      /\ Z.results = R
      /\ Z.messages = M
      /\ Z.controls = C
      /\ Z.pauses = P
  BY <1>1, FieldsOfState
<1>3. ApplyEvent(Z, e) = NodeAdded(Z, e)
  BY EventsByType
<1>4. PICK N1 :
        /\ N1 = Placing(N, e.workflow, e.node, e.nodeRecord)
  OBVIOUS
<1>5. NodeAdded(Z, e) = [Z EXCEPT !.nodes = N1]
  BY <1>2, <1>4 DEF NodeAdded, When, Placing
<1>6. [Z EXCEPT !.nodes = N1] = StateOf(W, N1, S, A, H, L, R, M, C, P)
  BY <1>1 DEF StateOf
<1> QED
  BY <1>1, <1>3, <1>4, <1>5, <1>6

\* activity.queued is accepted for a new Activity.
LEMMA ActivityMakes ==
  ASSUME NEW W, NEW N, NEW S, NEW A, NEW H, NEW L, NEW R, NEW M, NEW C, NEW P, NEW e,
         e.type = "activity.queued",
         A[e.activity] = None
  PROVE  ApplyEvent(StateOf(W, N, S, A, H, L, R, M, C, P), e)
           = StateOf(W, N, S, [A EXCEPT ![e.activity] = e.activityRecord], H, L, R, M, C, P)
<1>1. PICK Z : Z = StateOf(W, N, S, A, H, L, R, M, C, P)
  OBVIOUS
<1>2. /\ Z.workflows = W
      /\ Z.nodes = N
      /\ Z.sessions = S
      /\ Z.activities = A
      /\ Z.attempts = H
      /\ Z.leases = L
      /\ Z.results = R
      /\ Z.messages = M
      /\ Z.controls = C
      /\ Z.pauses = P
  BY <1>1, FieldsOfState
<1>3. ApplyEvent(Z, e) = ActivityQueued(Z, e)
  BY EventsByType
<1>4. PICK A1 :
        /\ A1 = [A EXCEPT ![e.activity] = e.activityRecord]
  OBVIOUS
<1>5. ActivityQueued(Z, e) = [Z EXCEPT !.activities = A1]
  BY <1>2, <1>4 DEF ActivityQueued, When
<1>6. [Z EXCEPT !.activities = A1] = StateOf(W, N, S, A1, H, L, R, M, C, P)
  BY <1>1 DEF StateOf
<1> QED
  BY <1>1, <1>3, <1>4, <1>5, <1>6

\* activity.fallback_queued is accepted for a new Activity and a new Session in
\* the Workflow of a known predecessor.
LEMMA FallbackMakes ==
  ASSUME NEW W, NEW N, NEW S, NEW A, NEW H, NEW L, NEW R, NEW M, NEW C, NEW P, NEW e,
         e.type = "activity.fallback_queued",
         S[e.session] = None,
         A[e.activity] = None,
         W[e.activityRecord.workflow] # None,
         e.activityRecord.parent \notin {None, e.activity},
         A[e.activityRecord.parent] # None,
         A[e.activityRecord.parent].workflow = e.activityRecord.workflow,
         e.sessionRecord.workflow = e.activityRecord.workflow,
         e.activityRecord.session = e.session
  PROVE  ApplyEvent(StateOf(W, N, S, A, H, L, R, M, C, P), e)
           = StateOf(W, N, [S EXCEPT ![e.session] = e.sessionRecord],
                     [A EXCEPT ![e.activity] = e.activityRecord], H, L, R, M, C, P)
<1>1. PICK Z : Z = StateOf(W, N, S, A, H, L, R, M, C, P)
  OBVIOUS
<1>2. /\ Z.workflows = W
      /\ Z.nodes = N
      /\ Z.sessions = S
      /\ Z.activities = A
      /\ Z.attempts = H
      /\ Z.leases = L
      /\ Z.results = R
      /\ Z.messages = M
      /\ Z.controls = C
      /\ Z.pauses = P
  BY <1>1, FieldsOfState
<1>3. ApplyEvent(Z, e) = FallbackQueued(Z, e)
  BY EventsByType
<1>4. PICK S1, A2 :
        /\ S1 = [S EXCEPT ![e.session] = e.sessionRecord]
        /\ A2 = [A EXCEPT ![e.activity] = e.activityRecord]
  OBVIOUS
<1>5. FallbackQueued(Z, e) = [[Z EXCEPT !.sessions = S1] EXCEPT !.activities = A2]
  BY <1>2, <1>4 DEF FallbackQueued, When
<1>6. [[Z EXCEPT !.sessions = S1] EXCEPT !.activities = A2]
        = StateOf(W, N, S1, A2, H, L, R, M, C, P)
  <2>1. PICK Y1 : Y1 = [Z EXCEPT !.sessions = S1]
    OBVIOUS
  <2>2. Y1 = StateOf(W, N, S1, A, H, L, R, M, C, P)
    BY <1>1, <2>1 DEF StateOf
  <2>3. PICK Y2 : Y2 = [Y1 EXCEPT !.activities = A2]
    OBVIOUS
  <2>4. Y2 = StateOf(W, N, S1, A2, H, L, R, M, C, P)
    BY <2>2, <2>3 DEF StateOf
  <2> QED
    BY <2>1, <2>3, <2>4
<1> QED
  BY <1>1, <1>3, <1>4, <1>5, <1>6

\* A new launch.
Launching(H, t, launch) == [H EXCEPT ![t] = Unreported(launch)]
\* Its Lease.
Leasing(L, t, record) == [L EXCEPT ![t] = record]

\* attempt.prepared is accepted for a new launch without a Lease.
LEMMA PreparedMakes ==
  ASSUME NEW W, NEW N, NEW S, NEW A, NEW H, NEW L, NEW R, NEW M, NEW C, NEW P, NEW e,
         e.type = "attempt.prepared",
         H[e.attempt] = None,
         L[e.attempt] = None
  PROVE  ApplyEvent(StateOf(W, N, S, A, H, L, R, M, C, P), e)
           = StateOf(W, N, S, A, Launching(H, e.attempt, e.attemptRecord),
                     Leasing(L, e.attempt, e.leaseRecord), R, M, C, P)
<1>1. PICK Z : Z = StateOf(W, N, S, A, H, L, R, M, C, P)
  OBVIOUS
<1>2. /\ Z.workflows = W
      /\ Z.nodes = N
      /\ Z.sessions = S
      /\ Z.activities = A
      /\ Z.attempts = H
      /\ Z.leases = L
      /\ Z.results = R
      /\ Z.messages = M
      /\ Z.controls = C
      /\ Z.pauses = P
  BY <1>1, FieldsOfState
<1>3. ApplyEvent(Z, e) = AttemptPrepared(Z, e)
  BY EventsByType
<1>4. PICK H1, L2 :
        /\ H1 = Launching(H, e.attempt, e.attemptRecord)
        /\ L2 = Leasing(L, e.attempt, e.leaseRecord)
  OBVIOUS
<1>5. AttemptPrepared(Z, e) = [[Z EXCEPT !.attempts = H1] EXCEPT !.leases = L2]
  BY <1>2, <1>4 DEF Launching, Leasing, AttemptPrepared, When, Unreported
<1>6. [[Z EXCEPT !.attempts = H1] EXCEPT !.leases = L2]
        = StateOf(W, N, S, A, H1, L2, R, M, C, P)
  <2>1. PICK Y1 : Y1 = [Z EXCEPT !.attempts = H1]
    OBVIOUS
  <2>2. Y1 = StateOf(W, N, S, A, H1, L, R, M, C, P)
    BY <1>1, <2>1 DEF StateOf
  <2>3. PICK Y2 : Y2 = [Y1 EXCEPT !.leases = L2]
    OBVIOUS
  <2>4. Y2 = StateOf(W, N, S, A, H1, L2, R, M, C, P)
    BY <2>2, <2>3 DEF StateOf
  <2> QED
    BY <2>1, <2>3, <2>4
<1> QED
  BY <1>1, <1>3, <1>4, <1>5, <1>6

\* attempt.milestone appends to the history of a known launch.
LEMMA MilestoneMakes ==
  ASSUME NEW W, NEW N, NEW S, NEW A, NEW H, NEW L, NEW R, NEW M, NEW C, NEW P, NEW e,
         e.type = "attempt.milestone",
         H[e.attempt] # None,
         e.kind # "session_bound"
  PROVE  ApplyEvent(StateOf(W, N, S, A, H, L, R, M, C, P), e)
           = StateOf(W, N, S, A, Adding(H, e.attempt, e.kind), L, R, M, C, P)
<1>1. PICK Z : Z = StateOf(W, N, S, A, H, L, R, M, C, P)
  OBVIOUS
<1>2. /\ Z.workflows = W
      /\ Z.nodes = N
      /\ Z.sessions = S
      /\ Z.activities = A
      /\ Z.attempts = H
      /\ Z.leases = L
      /\ Z.results = R
      /\ Z.messages = M
      /\ Z.controls = C
      /\ Z.pauses = P
  BY <1>1, FieldsOfState
<1>3. ApplyEvent(Z, e) = MilestoneRecorded(Z, e)
  BY EventsByType
<1>4. PICK H1 :
        /\ H1 = Adding(H, e.attempt, e.kind)
  OBVIOUS
<1>5. MilestoneRecorded(Z, e) = [Z EXCEPT !.attempts = H1]
  BY <1>2, <1>4 DEF MilestoneRecorded, When, Adding
<1>6. [Z EXCEPT !.attempts = H1] = StateOf(W, N, S, A, H1, L, R, M, C, P)
  BY <1>1 DEF StateOf
<1> QED
  BY <1>1, <1>3, <1>4, <1>5, <1>6

\* A session_bound milestone gives the launch's Session its identity instead.
LEMMA BindingMakes ==
  ASSUME NEW W, NEW N, NEW S, NEW A, NEW H, NEW L, NEW R, NEW M, NEW C, NEW P, NEW e,
         e.type = "attempt.milestone",
         H[e.attempt] # None,
         e.kind = "session_bound",
         NEW s,
         s = A[H[e.attempt].activity].session,
         S[s] # None,
         S[s].native \in {None, e.native}
  PROVE  ApplyEvent(StateOf(W, N, S, A, H, L, R, M, C, P), e)
           = StateOf(W, N, Binding(S, s, e.native), A, H, L, R, M, C, P)
<1>1. PICK Z : Z = StateOf(W, N, S, A, H, L, R, M, C, P)
  OBVIOUS
<1>2. /\ Z.workflows = W
      /\ Z.nodes = N
      /\ Z.sessions = S
      /\ Z.activities = A
      /\ Z.attempts = H
      /\ Z.leases = L
      /\ Z.results = R
      /\ Z.messages = M
      /\ Z.controls = C
      /\ Z.pauses = P
  BY <1>1, FieldsOfState
<1>3. ApplyEvent(Z, e) = MilestoneRecorded(Z, e)
  BY EventsByType
<1>4. PICK S1 :
        /\ S1 = Binding(S, s, e.native)
  OBVIOUS
<1>5. MilestoneRecorded(Z, e) = [Z EXCEPT !.sessions = S1]
  BY <1>2, <1>4 DEF MilestoneRecorded, When, BoundTo, Binding
<1>6. [Z EXCEPT !.sessions = S1] = StateOf(W, N, S1, A, H, L, R, M, C, P)
  BY <1>1 DEF StateOf
<1> QED
  BY <1>1, <1>3, <1>4, <1>5, <1>6

\* result.created is accepted as its Activity's first.
LEMMA ResultMakes ==
  ASSUME NEW W, NEW N, NEW S, NEW A, NEW H, NEW L, NEW R, NEW M, NEW C, NEW P, NEW e,
         e.type = "result.created",
         R[e.activity] = None
  PROVE  ApplyEvent(StateOf(W, N, S, A, H, L, R, M, C, P), e)
           = StateOf(W, N, S, A, H, L, [R EXCEPT ![e.activity] = e.resultRecord], M, C, P)
<1>1. PICK Z : Z = StateOf(W, N, S, A, H, L, R, M, C, P)
  OBVIOUS
<1>2. /\ Z.workflows = W
      /\ Z.nodes = N
      /\ Z.sessions = S
      /\ Z.activities = A
      /\ Z.attempts = H
      /\ Z.leases = L
      /\ Z.results = R
      /\ Z.messages = M
      /\ Z.controls = C
      /\ Z.pauses = P
  BY <1>1, FieldsOfState
<1>3. ApplyEvent(Z, e) = ResultCreated(Z, e)
  BY EventsByType
<1>4. PICK R1 :
        /\ R1 = [R EXCEPT ![e.activity] = e.resultRecord]
  OBVIOUS
<1>5. ResultCreated(Z, e) = [Z EXCEPT !.results = R1]
  BY <1>2, <1>4 DEF ResultCreated, When
<1>6. [Z EXCEPT !.results = R1] = StateOf(W, N, S, A, H, L, R1, M, C, P)
  BY <1>1 DEF StateOf
<1> QED
  BY <1>1, <1>3, <1>4, <1>5, <1>6

\* message.queued is accepted as its Activity's first.
LEMMA MessageMakes ==
  ASSUME NEW W, NEW N, NEW S, NEW A, NEW H, NEW L, NEW R, NEW M, NEW C, NEW P, NEW e,
         e.type = "message.queued",
         M[e.activity] = None
  PROVE  ApplyEvent(StateOf(W, N, S, A, H, L, R, M, C, P), e)
           = StateOf(W, N, S, A, H, L, R, [M EXCEPT ![e.activity] = e.messageRecord], C, P)
<1>1. PICK Z : Z = StateOf(W, N, S, A, H, L, R, M, C, P)
  OBVIOUS
<1>2. /\ Z.workflows = W
      /\ Z.nodes = N
      /\ Z.sessions = S
      /\ Z.activities = A
      /\ Z.attempts = H
      /\ Z.leases = L
      /\ Z.results = R
      /\ Z.messages = M
      /\ Z.controls = C
      /\ Z.pauses = P
  BY <1>1, FieldsOfState
<1>3. ApplyEvent(Z, e) = MessageQueued(Z, e)
  BY EventsByType
<1>4. PICK M1 :
        /\ M1 = [M EXCEPT ![e.activity] = e.messageRecord]
  OBVIOUS
<1>5. MessageQueued(Z, e) = [Z EXCEPT !.messages = M1]
  BY <1>2, <1>4 DEF MessageQueued, When
<1>6. [Z EXCEPT !.messages = M1] = StateOf(W, N, S, A, H, L, R, M1, C, P)
  BY <1>1 DEF StateOf
<1> QED
  BY <1>1, <1>3, <1>4, <1>5, <1>6

\* message.dispatched is accepted for a queued Message.
LEMMA DispatchMakes ==
  ASSUME NEW W, NEW N, NEW S, NEW A, NEW H, NEW L, NEW R, NEW M, NEW C, NEW P, NEW e,
         e.type = "message.dispatched",
         M[e.activity] # None,
         M[e.activity].state = "queued"
  PROVE  ApplyEvent(StateOf(W, N, S, A, H, L, R, M, C, P), e)
           = StateOf(W, N, S, A, H, L, R, Dispatching(M, e.activity, e.attempt, e.delivery), C,
                     P)
<1>1. PICK Z : Z = StateOf(W, N, S, A, H, L, R, M, C, P)
  OBVIOUS
<1>2. /\ Z.workflows = W
      /\ Z.nodes = N
      /\ Z.sessions = S
      /\ Z.activities = A
      /\ Z.attempts = H
      /\ Z.leases = L
      /\ Z.results = R
      /\ Z.messages = M
      /\ Z.controls = C
      /\ Z.pauses = P
  BY <1>1, FieldsOfState
<1>3. ApplyEvent(Z, e) = MessageDispatched(Z, e)
  BY EventsByType
<1>4. PICK M1 :
        /\ M1 = Dispatching(M, e.activity, e.attempt, e.delivery)
  OBVIOUS
<1>5. MessageDispatched(Z, e) = [Z EXCEPT !.messages = M1]
  BY <1>2, <1>4 DEF MessageDispatched, When, Dispatching
<1>6. [Z EXCEPT !.messages = M1] = StateOf(W, N, S, A, H, L, R, M1, C, P)
  BY <1>1 DEF StateOf
<1> QED
  BY <1>1, <1>3, <1>4, <1>5, <1>6

\* message.settled delivers a dispatched Message,
LEMMA DeliveryMakes ==
  ASSUME NEW W, NEW N, NEW S, NEW A, NEW H, NEW L, NEW R, NEW M, NEW C, NEW P, NEW e,
         e.type = "message.settled",
         M[e.activity] # None,
         M[e.activity].state = "dispatched",
         e.delivered
  PROVE  ApplyEvent(StateOf(W, N, S, A, H, L, R, M, C, P), e)
           = StateOf(W, N, S, A, H, L, R, Delivering(M, e.activity), C, P)
<1>1. PICK Z : Z = StateOf(W, N, S, A, H, L, R, M, C, P)
  OBVIOUS
<1>2. /\ Z.workflows = W
      /\ Z.nodes = N
      /\ Z.sessions = S
      /\ Z.activities = A
      /\ Z.attempts = H
      /\ Z.leases = L
      /\ Z.results = R
      /\ Z.messages = M
      /\ Z.controls = C
      /\ Z.pauses = P
  BY <1>1, FieldsOfState
<1>3. ApplyEvent(Z, e) = MessageSettled(Z, e)
  BY EventsByType
<1>4. PICK M1 :
        /\ M1 = Delivering(M, e.activity)
  OBVIOUS
<1>5. MessageSettled(Z, e) = [Z EXCEPT !.messages = M1]
  BY <1>2, <1>4 DEF MessageSettled, When, Delivering
<1>6. [Z EXCEPT !.messages = M1] = StateOf(W, N, S, A, H, L, R, M1, C, P)
  BY <1>1 DEF StateOf
<1> QED
  BY <1>1, <1>3, <1>4, <1>5, <1>6

\* or returns it to its queue.
LEMMA RequeueMakes ==
  ASSUME NEW W, NEW N, NEW S, NEW A, NEW H, NEW L, NEW R, NEW M, NEW C, NEW P, NEW e,
         e.type = "message.settled",
         M[e.activity] # None,
         M[e.activity].state = "dispatched",
         ~e.delivered
  PROVE  ApplyEvent(StateOf(W, N, S, A, H, L, R, M, C, P), e)
           = StateOf(W, N, S, A, H, L, R, Returning(M, e.activity), C, P)
<1>1. PICK Z : Z = StateOf(W, N, S, A, H, L, R, M, C, P)
  OBVIOUS
<1>2. /\ Z.workflows = W
      /\ Z.nodes = N
      /\ Z.sessions = S
      /\ Z.activities = A
      /\ Z.attempts = H
      /\ Z.leases = L
      /\ Z.results = R
      /\ Z.messages = M
      /\ Z.controls = C
      /\ Z.pauses = P
  BY <1>1, FieldsOfState
<1>3. ApplyEvent(Z, e) = MessageSettled(Z, e)
  BY EventsByType
<1>4. PICK M1 :
        /\ M1 = Returning(M, e.activity)
  OBVIOUS
<1>5. MessageSettled(Z, e) = [Z EXCEPT !.messages = M1]
  BY <1>2, <1>4 DEF MessageSettled, When, Returning
<1>6. [Z EXCEPT !.messages = M1] = StateOf(W, N, S, A, H, L, R, M1, C, P)
  BY <1>1 DEF StateOf
<1> QED
  BY <1>1, <1>3, <1>4, <1>5, <1>6

\* lease.released is accepted once, and every pause that fences the launch notes it.
LEMMA ReleaseMakes ==
  ASSUME NEW W, NEW N, NEW S, NEW A, NEW H, NEW L, NEW R, NEW M, NEW C, NEW P, NEW e,
         e.type = "lease.released",
         L[e.attempt] # None,
         ~L[e.attempt].released
  PROVE  ApplyEvent(StateOf(W, N, S, A, H, L, R, M, C, P), e)
           = StateOf(W, N, S, A, H, Freeing(L, e.attempt), R, M, C, Noting(P, e.attempt))
<1>1. PICK Z : Z = StateOf(W, N, S, A, H, L, R, M, C, P)
  OBVIOUS
<1>2. /\ Z.workflows = W
      /\ Z.nodes = N
      /\ Z.sessions = S
      /\ Z.activities = A
      /\ Z.attempts = H
      /\ Z.leases = L
      /\ Z.results = R
      /\ Z.messages = M
      /\ Z.controls = C
      /\ Z.pauses = P
  BY <1>1, FieldsOfState
<1>3. ApplyEvent(Z, e) = LeaseReleased(Z, e)
  BY EventsByType
<1>4. PICK L1, P2 :
        /\ L1 = Freeing(L, e.attempt)
        /\ P2 = Noting(P, e.attempt)
  OBVIOUS
<1>5. LeaseReleased(Z, e) = [[Z EXCEPT !.leases = L1] EXCEPT !.pauses = P2]
  BY <1>2, <1>4 DEF LeaseReleased, When, Freeing, Noting
<1>6. [[Z EXCEPT !.leases = L1] EXCEPT !.pauses = P2]
        = StateOf(W, N, S, A, H, L1, R, M, C, P2)
  <2>1. PICK Y1 : Y1 = [Z EXCEPT !.leases = L1]
    OBVIOUS
  <2>2. Y1 = StateOf(W, N, S, A, H, L1, R, M, C, P)
    BY <1>1, <2>1 DEF StateOf
  <2>3. PICK Y2 : Y2 = [Y1 EXCEPT !.pauses = P2]
    OBVIOUS
  <2>4. Y2 = StateOf(W, N, S, A, H, L1, R, M, C, P2)
    BY <2>2, <2>3 DEF StateOf
  <2> QED
    BY <2>1, <2>3, <2>4
<1> QED
  BY <1>1, <1>3, <1>4, <1>5, <1>6

\* control.recorded is accepted for a new control.
LEMMA ControlMakes ==
  ASSUME NEW W, NEW N, NEW S, NEW A, NEW H, NEW L, NEW R, NEW M, NEW C, NEW P, NEW e,
         e.type = "control.recorded",
         C[e.control] = None
  PROVE  ApplyEvent(StateOf(W, N, S, A, H, L, R, M, C, P), e)
           = StateOf(W, N, S, A, H, L, R, M, [C EXCEPT ![e.control] = e.controlRecord], P)
<1>1. PICK Z : Z = StateOf(W, N, S, A, H, L, R, M, C, P)
  OBVIOUS
<1>2. /\ Z.workflows = W
      /\ Z.nodes = N
      /\ Z.sessions = S
      /\ Z.activities = A
      /\ Z.attempts = H
      /\ Z.leases = L
      /\ Z.results = R
      /\ Z.messages = M
      /\ Z.controls = C
      /\ Z.pauses = P
  BY <1>1, FieldsOfState
<1>3. ApplyEvent(Z, e) = ControlRecorded(Z, e)
  BY EventsByType
<1>4. PICK C1 :
        /\ C1 = [C EXCEPT ![e.control] = e.controlRecord]
  OBVIOUS
<1>5. ControlRecorded(Z, e) = [Z EXCEPT !.controls = C1]
  BY <1>2, <1>4 DEF ControlRecorded, When
<1>6. [Z EXCEPT !.controls = C1] = StateOf(W, N, S, A, H, L, R, M, C1, P)
  BY <1>1 DEF StateOf
<1> QED
  BY <1>1, <1>3, <1>4, <1>5, <1>6

\* control.applied is accepted once, for an accepted control.
LEMMA AppliedMakes ==
  ASSUME NEW W, NEW N, NEW S, NEW A, NEW H, NEW L, NEW R, NEW M, NEW C, NEW P, NEW e,
         e.type = "control.applied",
         C[e.control] # None,
         C[e.control].accepted,
         ~C[e.control].applied
  PROVE  ApplyEvent(StateOf(W, N, S, A, H, L, R, M, C, P), e)
           = StateOf(W, N, S, A, H, L, R, M, Applying(C, e.control), P)
<1>1. PICK Z : Z = StateOf(W, N, S, A, H, L, R, M, C, P)
  OBVIOUS
<1>2. /\ Z.workflows = W
      /\ Z.nodes = N
      /\ Z.sessions = S
      /\ Z.activities = A
      /\ Z.attempts = H
      /\ Z.leases = L
      /\ Z.results = R
      /\ Z.messages = M
      /\ Z.controls = C
      /\ Z.pauses = P
  BY <1>1, FieldsOfState
<1>3. ApplyEvent(Z, e) = ControlApplied(Z, e)
  BY EventsByType
<1>4. PICK C1 :
        /\ C1 = Applying(C, e.control)
  OBVIOUS
<1>5. ControlApplied(Z, e) = [Z EXCEPT !.controls = C1]
  BY <1>2, <1>4 DEF ControlApplied, When, Applying
<1>6. [Z EXCEPT !.controls = C1] = StateOf(W, N, S, A, H, L, R, M, C1, P)
  BY <1>1 DEF StateOf
<1> QED
  BY <1>1, <1>3, <1>4, <1>5, <1>6

\* workflow.paused is accepted once per Workflow.
LEMMA PausedMakes ==
  ASSUME NEW W, NEW N, NEW S, NEW A, NEW H, NEW L, NEW R, NEW M, NEW C, NEW P, NEW e,
         e.type = "workflow.paused",
         W[e.workflow] # None,
         P[e.workflow] = None
  PROVE  ApplyEvent(StateOf(W, N, S, A, H, L, R, M, C, P), e)
           = StateOf(W, N, S, A, H, L, R, M, C, [P EXCEPT ![e.workflow] = e.pauseRecord])
<1>1. PICK Z : Z = StateOf(W, N, S, A, H, L, R, M, C, P)
  OBVIOUS
<1>2. /\ Z.workflows = W
      /\ Z.nodes = N
      /\ Z.sessions = S
      /\ Z.activities = A
      /\ Z.attempts = H
      /\ Z.leases = L
      /\ Z.results = R
      /\ Z.messages = M
      /\ Z.controls = C
      /\ Z.pauses = P
  BY <1>1, FieldsOfState
<1>3. ApplyEvent(Z, e) = WorkflowPaused(Z, e)
  BY EventsByType
<1>4. PICK P1 :
        /\ P1 = [P EXCEPT ![e.workflow] = e.pauseRecord]
  OBVIOUS
<1>5. WorkflowPaused(Z, e) = [Z EXCEPT !.pauses = P1]
  BY <1>2, <1>4 DEF WorkflowPaused, When
<1>6. [Z EXCEPT !.pauses = P1] = StateOf(W, N, S, A, H, L, R, M, C, P1)
  BY <1>1 DEF StateOf
<1> QED
  BY <1>1, <1>3, <1>4, <1>5, <1>6

\* workflow.pause_settled is accepted for a pause that is not over.
LEMMA PauseSettledMakes ==
  ASSUME NEW W, NEW N, NEW S, NEW A, NEW H, NEW L, NEW R, NEW M, NEW C, NEW P, NEW e,
         e.type = "workflow.pause_settled",
         P[e.workflow] # None,
         P[e.workflow].phase # "completed"
  PROVE  ApplyEvent(StateOf(W, N, S, A, H, L, R, M, C, P), e)
           = StateOf(W, N, S, A, H, L, R, M, C, Completing(P, e.workflow))
<1>1. PICK Z : Z = StateOf(W, N, S, A, H, L, R, M, C, P)
  OBVIOUS
<1>2. /\ Z.workflows = W
      /\ Z.nodes = N
      /\ Z.sessions = S
      /\ Z.activities = A
      /\ Z.attempts = H
      /\ Z.leases = L
      /\ Z.results = R
      /\ Z.messages = M
      /\ Z.controls = C
      /\ Z.pauses = P
  BY <1>1, FieldsOfState
<1>3. ApplyEvent(Z, e) = PauseSettled(Z, e)
  BY EventsByType
<1>4. PICK P1 :
        /\ P1 = Completing(P, e.workflow)
  OBVIOUS
<1>5. PauseSettled(Z, e) = [Z EXCEPT !.pauses = P1]
  BY <1>2, <1>4 DEF PauseSettled, When, Completing
<1>6. [Z EXCEPT !.pauses = P1] = StateOf(W, N, S, A, H, L, R, M, C, P1)
  BY <1>1 DEF StateOf
<1> QED
  BY <1>1, <1>3, <1>4, <1>5, <1>6

-----------------------------------------------------------------------------
(* The replica and the commands' State differ in one thing: the replica has    *)
(* each launch's milestones in the order they were recorded.                   *)

USE DEF OrNone

\* The replica's Attempts tell what A says, each milestone once.
Tells(H, A) ==
  /\ H \in [Attempt -> OrNone(HistoryRecord)]
  /\ \A t \in Attempt : H[t] = None <=> A[t] = None
  /\ \A t \in Attempt : A[t] # None =>
       /\ H[t].activity = A[t].activity /\ H[t].ordinal = A[t].ordinal
       /\ H[t].runtime = A[t].runtime
       /\ ToSet(H[t].milestones) = A[t].milestones
       /\ \A i, j \in 1 .. Len(H[t].milestones) :
            H[t].milestones[i] = H[t].milestones[j] => i = j

\* The State of the commands' variables, with H for the launches' histories.
StateNow(H) ==
  StateOf(workflows, nodes, sessions, activities, H, leases, results, messages, controls,
          pauses)

\* The replica is the commands' State, its histories tell the launches.
Mirrored == \E H : Tells(H, attempts) /\ replica = StateNow(H)

\* That State is one, whatever the histories that tell the launches.
LEMMA StateNowIsTyped ==
  ASSUME TypeOK, NEW H, Tells(H, attempts)
  PROVE  StateNow(H) # None
<1>1. /\ workflows \in [Workflow -> OrNone(Profiles)]
      /\ nodes \in [Workflow -> [Node -> OrNone(NodeRecord)]]
      /\ sessions \in [Session -> OrNone(SessionRecord)]
      /\ activities \in [Activity -> OrNone(ActivityRecord)]
      /\ H \in [Attempt -> OrNone(HistoryRecord)]
      /\ leases \in [Attempt -> OrNone(LeaseRecord)]
      /\ results \in [Activity -> OrNone(ResultRecord)]
      /\ messages \in [Activity -> OrNone(MessageRecord)]
      /\ controls \in [Control -> OrNone(ControlRecord)]
      /\ pauses \in [Workflow -> OrNone(PauseRecord)]
  BY DEF TypeOK, Tells
<1>2. StateOf(workflows, nodes, sessions, activities, H, leases, results, messages, controls,
              pauses)
        # None
  <2> USE <1>1
  <2> HIDE DEF OrNone
  <2> QED
    BY StateIsTyped
<1> QED
  BY <1>2 DEF StateNow

\* A kind that is new at the end of a history: it is there, once.
LEMMA Appended ==
  ASSUME NEW history \in Seq(Kinds), NEW kind \in Kinds, kind \notin ToSet(history),
         \A i, j \in 1 .. Len(history) : history[i] = history[j] => i = j
  PROVE  /\ Append(history, kind) \in Seq(Kinds)
         /\ ToSet(Append(history, kind)) = ToSet(history) \cup {kind}
         /\ \A i, j \in 1 .. Len(Append(history, kind)) :
              Append(history, kind)[i] = Append(history, kind)[j] => i = j
<1>1. PICK N, longer : N = Len(history) /\ longer = Append(history, kind)
  OBVIOUS
<1>2. /\ N \in Nat /\ longer \in Seq(Kinds) /\ Len(longer) = N + 1
      /\ \A i \in 1 .. N : longer[i] = history[i]
      /\ longer[N + 1] = kind
  BY <1>1
<1>3. ToSet(history) = {history[i] : i \in 1 .. N}
  BY <1>1 DEF ToSet
<1>4. ToSet(longer) = {longer[i] : i \in 1 .. N + 1}
  BY <1>2 DEF ToSet
<1>5. ToSet(longer) = ToSet(history) \cup {kind}
  <2>1. ASSUME NEW i \in 1 .. N + 1 PROVE longer[i] \in ToSet(history) \cup {kind}
    BY <1>2, <1>3
  <2>2. \A i \in 1 .. N : i \in 1 .. N + 1
    BY <1>2
  <2>3. N + 1 \in 1 .. N + 1
    BY <1>2
  <2> QED
    BY <1>2, <1>3, <1>4, <2>1, <2>2, <2>3
<1>6. ASSUME NEW i \in 1 .. N + 1, NEW j \in 1 .. N + 1, longer[i] = longer[j]
      PROVE  i = j
  <2>1. \A k \in 1 .. N : longer[k] # kind
    BY <1>2, <1>3
  <2>2. CASE i \in 1 .. N /\ j \in 1 .. N
    BY <1>1, <1>2, <1>6, <2>2
  <2>3. CASE i = N + 1 \/ j = N + 1
    BY <1>2, <1>6, <2>1, <2>3
  <2> QED
    BY <1>2, <2>2, <2>3
<1> QED
  BY <1>1, <1>2, <1>5, <1>6

\* The launches when one of them reaches a milestone.
Reaching(A, t, kind) == [A EXCEPT ![t].milestones = @ \cup {kind}]

\* A milestone appended tells the milestone reached.
LEMMA TellsMilestone ==
  ASSUME NEW A \in [Attempt -> OrNone(AttemptRecord)], NEW H, Tells(H, A),
         NEW t \in Attempt, A[t] # None, NEW kind \in Kinds, kind \notin A[t].milestones
  PROVE  Tells(Adding(H, t, kind), Reaching(A, t, kind))
<1>1. H[t] \in HistoryRecord
  BY DEF Tells
<1>2. PICK history, longer : history = H[t].milestones /\ longer = Append(history, kind)
  OBVIOUS
<1>3. /\ longer \in Seq(Kinds)
      /\ ToSet(longer) = A[t].milestones \cup {kind}
      /\ \A i, j \in 1 .. Len(longer) : longer[i] = longer[j] => i = j
  <2>1. history \in Seq(Kinds) /\ ToSet(history) = A[t].milestones
    BY <1>1, <1>2 DEF Tells, HistoryRecord
  <2>2. \A i, j \in 1 .. Len(history) : history[i] = history[j] => i = j
    BY <1>2 DEF Tells
  <2>3. kind \notin ToSet(history)
    BY <2>1
  <2>4. /\ Append(history, kind) \in Seq(Kinds)
        /\ ToSet(Append(history, kind)) = ToSet(history) \cup {kind}
        /\ \A i, j \in 1 .. Len(Append(history, kind)) :
             Append(history, kind)[i] = Append(history, kind)[j] => i = j
    BY <2>1, <2>2, <2>3, Appended
  <2>5. longer \in Seq(Kinds) /\ ToSet(longer) = ToSet(history) \cup {kind}
    BY <1>2, <2>4
  <2>6. \A i, j \in 1 .. Len(longer) : longer[i] = longer[j] => i = j
    BY <1>2, <2>4
  <2> QED
    BY <2>1, <2>5, <2>6
<1>4. PICK record : record = [H[t] EXCEPT !.milestones = longer]
  OBVIOUS
<1>5. /\ record \in HistoryRecord
      /\ record.activity = H[t].activity /\ record.ordinal = H[t].ordinal
      /\ record.runtime = H[t].runtime /\ record.milestones = longer
  BY <1>1, <1>3, <1>4 DEF HistoryRecord
<1>6. PICK G : G = Adding(H, t, kind)
  OBVIOUS
<1>7. G = [H EXCEPT ![t] = record]
  BY <1>2, <1>4, <1>6 DEF Adding
<1>8. PICK B : B = Reaching(A, t, kind)
  OBVIOUS
<1>9. A[t] \in AttemptRecord
  OBVIOUS
<1>10. /\ B[t].activity = A[t].activity /\ B[t].ordinal = A[t].ordinal
       /\ B[t].runtime = A[t].runtime /\ B[t].milestones = A[t].milestones \cup {kind}
       /\ B[t] \in AttemptRecord
       /\ \A u \in Attempt : u # t => B[u] = A[u]
  BY <1>8, <1>9 DEF AttemptRecord, Reaching
<1>11. record # None /\ B[t] # None
  BY <1>5, <1>10, StateAssumption, NoneAssumption
<1>12. /\ G \in [Attempt -> OrNone(HistoryRecord)] /\ G[t] = record
       /\ \A u \in Attempt : u # t => G[u] = H[u]
  BY <1>5, <1>7 DEF Tells
<1>13. Tells(G, B)
  <2>1. \A u \in Attempt : G[u] = None <=> B[u] = None
    BY <1>10, <1>11, <1>12 DEF Tells
  <2>2. ASSUME NEW u \in Attempt, B[u] # None
        PROVE  /\ G[u].activity = B[u].activity /\ G[u].ordinal = B[u].ordinal
               /\ G[u].runtime = B[u].runtime
               /\ ToSet(G[u].milestones) = B[u].milestones
               /\ \A i, j \in 1 .. Len(G[u].milestones) :
                    G[u].milestones[i] = G[u].milestones[j] => i = j
    <3>1. CASE u = t
      <4>1. /\ G[u].activity = B[u].activity /\ G[u].ordinal = B[u].ordinal
            /\ G[u].runtime = B[u].runtime
        BY <1>5, <1>10, <1>12, <3>1 DEF Tells
      <4>2. G[u].milestones = longer /\ B[u].milestones = A[t].milestones \cup {kind}
        BY <1>5, <1>10, <1>12, <3>1
      <4> QED
        BY <1>3, <4>1, <4>2
    <3>2. CASE u # t
      BY <1>10, <1>12, <2>2, <3>2 DEF Tells
    <3> QED
      BY <3>1, <3>2
  <2> QED
    BY <1>12, <2>1, <2>2 DEF Tells
<1> QED
  BY <1>6, <1>8, <1>13

\* An empty history tells a launch without milestones.
LEMMA TellsLaunch ==
  ASSUME NEW A \in [Attempt -> OrNone(AttemptRecord)], NEW H, Tells(H, A),
         NEW t \in Attempt, NEW launch \in AttemptRecord, launch.milestones = {}
  PROVE  Tells([H EXCEPT ![t] = Unreported(launch)], [A EXCEPT ![t] = launch])
<1>0. PICK nothing : nothing = <<>>
  OBVIOUS
<1>1. nothing \in Seq(Kinds) /\ Len(nothing) = 0 /\ ToSet(nothing) = {}
  BY <1>0 DEF ToSet
<1>11. PICK record : record = Unreported(launch)
  OBVIOUS
<1>12. record = [launch EXCEPT !.milestones = nothing]
  BY <1>0, <1>11 DEF Unreported
<1>2. /\ record \in HistoryRecord
      /\ record.activity = launch.activity /\ record.ordinal = launch.ordinal
      /\ record.runtime = launch.runtime /\ record.milestones = nothing
  BY <1>1, <1>12 DEF HistoryRecord, AttemptRecord
<1>3. record # None /\ launch # None
  BY <1>2, StateAssumption, NoneAssumption
<1>4. \A i, j \in 1 .. Len(nothing) : nothing[i] = nothing[j] => i = j
  BY <1>1
<1>5. PICK G, B : G = [H EXCEPT ![t] = record] /\ B = [A EXCEPT ![t] = launch]
  OBVIOUS
<1>6. /\ G \in [Attempt -> OrNone(HistoryRecord)] /\ G[t] = record /\ B[t] = launch
      /\ \A u \in Attempt : u # t => G[u] = H[u] /\ B[u] = A[u]
  BY <1>2, <1>5 DEF Tells
<1>7. \A u \in Attempt : G[u] = None <=> B[u] = None
  BY <1>3, <1>6 DEF Tells
<1>8. ASSUME NEW u \in Attempt, B[u] # None
      PROVE  /\ G[u].activity = B[u].activity /\ G[u].ordinal = B[u].ordinal
             /\ G[u].runtime = B[u].runtime
             /\ ToSet(G[u].milestones) = B[u].milestones
             /\ \A i, j \in 1 .. Len(G[u].milestones) :
                  G[u].milestones[i] = G[u].milestones[j] => i = j
  <2>1. CASE u = t
    <3>1. G[u] = record /\ B[u] = launch
      BY <1>6, <2>1
    <3>2. G[u].milestones = nothing
      BY <1>2, <3>1
    <3>3. ToSet(G[u].milestones) = B[u].milestones
      BY <1>1, <3>1, <3>2
    <3>4. \A i, j \in 1 .. Len(G[u].milestones) :
            G[u].milestones[i] = G[u].milestones[j] => i = j
      BY <1>4, <3>2
    <3> QED
      BY <1>2, <3>1, <3>3, <3>4
  <2>2. CASE u # t
    BY <1>6, <1>8, <2>2 DEF Tells
  <2> QED
    BY <2>1, <2>2
<1>9. Tells(G, B)
  BY <1>6, <1>7, <1>8 DEF Tells
<1> QED
  BY <1>11, <1>5, <1>9

\* Between two States of the commands, whichever parts have changed already, the
\* replica is a State.
LEMMA StateBetween ==
  ASSUME TypeOK, TypeOK',
         NEW W \in {workflows, workflows'},
         NEW N \in {nodes, nodes'},
         NEW S \in {sessions, sessions'},
         NEW A \in {activities, activities'},
         NEW H \in [Attempt -> OrNone(HistoryRecord)],
         NEW L \in {leases, leases'},
         NEW R \in {results, results'},
         NEW M \in {messages, messages'},
         NEW C \in {controls, controls'},
         NEW P \in {pauses, pauses'}
  PROVE  StateOf(W, N, S, A, H, L, R, M, C, P) # None
<1>1. /\ W \in [Workflow -> OrNone(Profiles)]
      /\ N \in [Workflow -> [Node -> OrNone(NodeRecord)]]
      /\ S \in [Session -> OrNone(SessionRecord)]
      /\ A \in [Activity -> OrNone(ActivityRecord)]
      /\ H \in [Attempt -> OrNone(HistoryRecord)]
      /\ L \in [Attempt -> OrNone(LeaseRecord)]
      /\ R \in [Activity -> OrNone(ResultRecord)]
      /\ M \in [Activity -> OrNone(MessageRecord)]
      /\ C \in [Control -> OrNone(ControlRecord)]
      /\ P \in [Workflow -> OrNone(PauseRecord)]
  <2>1. W \in [Workflow -> OrNone(Profiles)]
    BY DEF TypeOK
  <2>2. N \in [Workflow -> [Node -> OrNone(NodeRecord)]]
    BY DEF TypeOK
  <2>3. S \in [Session -> OrNone(SessionRecord)]
    BY DEF TypeOK
  <2>4. A \in [Activity -> OrNone(ActivityRecord)]
    BY DEF TypeOK
  <2>5. H \in [Attempt -> OrNone(HistoryRecord)]
    OBVIOUS
  <2>6. L \in [Attempt -> OrNone(LeaseRecord)]
    BY DEF TypeOK
  <2>7. R \in [Activity -> OrNone(ResultRecord)]
    BY DEF TypeOK
  <2>8. M \in [Activity -> OrNone(MessageRecord)]
    BY DEF TypeOK
  <2>9. C \in [Control -> OrNone(ControlRecord)]
    BY DEF TypeOK
  <2>10. P \in [Workflow -> OrNone(PauseRecord)]
    BY DEF TypeOK
  <2> QED
    BY <2>1, <2>2, <2>3, <2>4, <2>5, <2>6, <2>7, <2>8, <2>9, <2>10
<1>2. StateOf(W, N, S, A, H, L, R, M, C, P) # None
  <2> USE <1>1
  <2> HIDE DEF OrNone
  <2> QED
    BY StateIsTyped
<1> QED
  BY <1>2

\* A launch's Message is settled, when it holds one.
LEMMA SettlingMakes ==
  ASSUME TypeOK, NEW W, NEW N, NEW S, NEW A, NEW H, NEW L, NEW R, NEW C, NEW P,
         NEW t \in Attempt, attempts[t] # None, NEW delivered \in BOOLEAN,
         StateOf(W, N, S, A, H, L, R, messages, C, P) # None
  PROVE  Makes(StateOf(W, N, S, A, H, L, R, messages, C, P), SettleEvents(t, delivered),
               StateOf(W, N, S, A, H, L, R, Settled(attempts[t].activity, t, delivered), C, P))
<1>1. PICK a, e :
        /\ a = attempts[t].activity
        /\ e = [type |-> "message.settled", activity |-> a, delivered |-> delivered]
  OBVIOUS
<1>2. a \in Activity
  BY <1>1 DEF TypeOK, AttemptRecord
<1>3. SettleEvents(t, delivered) = OnlyIf(DispatchedTo(a, t), <<e>>)
  BY <1>1 DEF SettleEvents
<1>4. CASE ~DispatchedTo(a, t)
  <2>1. Settled(a, t, delivered) = messages
    BY <1>4 DEF Settled
  <2> QED
    BY <1>1, <1>3, <1>4, <2>1, MakesIf
<1>5. CASE DispatchedTo(a, t)
  <2>1. /\ messages[a] # None /\ messages[a].state = "dispatched" /\ messages[a].attempt = t
        /\ messages[a] \in MessageRecord
    BY <1>2, <1>5 DEF DispatchedTo, TypeOK
  <2>2. PICK M : M = Settled(a, t, delivered)
    OBVIOUS
  <2>3. e.type = "message.settled" /\ e.activity = a /\ e.delivered = delivered
    BY <1>1
  <2>4. ApplyEvent(StateOf(W, N, S, A, H, L, R, messages, C, P), e) = StateOf(W, N, S, A, H, L,
                                                                              R, M, C, P)
    <3>1. CASE delivered
      <4>1. M = Delivering(messages, a)
        <5>1. PICK r : r = messages[a]
          OBVIOUS
        <5>6. messages \in [Activity -> OrNone(MessageRecord)]
          BY DEF TypeOK
        <5>2. [state |-> "delivered", attempt |-> t, delivery |-> r.delivery]
                = [r EXCEPT !.state = "delivered"]
          BY <2>1, <5>1 DEF MessageRecord
        <5>7. Delivering(messages, a) = [messages EXCEPT ![a] = [r EXCEPT !.state = "delivered"]]
          BY <5>1 DEF Delivering
        <5>3. PICK settled :
                settled = [state |-> IF delivered THEN "delivered" ELSE "queued",
                           attempt |-> IF delivered THEN t ELSE None,
                           delivery |-> messages[a].delivery]
          OBVIOUS
        <5>4. settled = [state |-> "delivered", attempt |-> t, delivery |-> r.delivery]
          BY <3>1, <5>1, <5>3
        <5>5. M = [messages EXCEPT ![a] = settled]
          BY <1>5, <2>2, <5>3 DEF Settled
        <5> QED
          BY <5>2, <5>4, <5>5, <5>7
      <4>2. e.delivered
        BY <1>1, <3>1
      <4>3. e.type = "message.settled" /\ e.activity = a
        BY <2>3
      <4> QED
        BY <2>1, <4>1, <4>2, <4>3, DeliveryMakes
    <3>2. CASE ~delivered
      <4>1. M = Returning(messages, a)
        <5>1. PICK r : r = messages[a]
          OBVIOUS
        <5>6. messages \in [Activity -> OrNone(MessageRecord)]
          BY DEF TypeOK
        <5>2. [state |-> "queued", attempt |-> None, delivery |-> r.delivery]
                = [r EXCEPT !.state = "queued", !.attempt = None]
          <6>1. PICK X, Y : X = Attempt \cup {None} /\ Y = {"queued", "dispatched", "delivered"}
            OBVIOUS
          <6>2. r \in [state: Y, attempt: X, delivery: Nat]
            BY <2>1, <5>1, <6>1 DEF MessageRecord
          <6>3. PICK q : q = [r EXCEPT !.state = "queued"]
            OBVIOUS
          <6>4. q = [state |-> "queued", attempt |-> r.attempt, delivery |-> r.delivery]
            BY <6>2, <6>3
          <6>5. [q EXCEPT !.attempt = None]
                  = [state |-> "queued", attempt |-> None, delivery |-> r.delivery]
            BY <6>4
          <6> QED
            BY <6>3, <6>5
        <5>7. Returning(messages, a) = [messages EXCEPT ![a] = [r EXCEPT !.state = "queued",
                                                                !.attempt = None]]
          <6>1. PICK r1, M1 :
                  r1 = [r EXCEPT !.state = "queued"] /\ M1 = [messages EXCEPT ![a] = r1]
            OBVIOUS
          <6>2. Returning(messages, a) = [M1 EXCEPT ![a] = [M1[a] EXCEPT !.attempt = None]]
            <7>1. M1 = [messages EXCEPT ![a].state = "queued"]
              BY <5>1, <6>1
            <7>2. PICK M2 : M2 = [messages EXCEPT ![a].state = "queued"]
              OBVIOUS
            <7>3. Returning(messages, a) = [M2 EXCEPT ![a].attempt = None]
              BY <7>2 DEF Returning
            <7> QED
              BY <7>1, <7>2, <7>3
          <6>3. M1[a] = r1
            BY <1>2, <5>6, <6>1
          <6>4. PICK r2 : r2 = [r1 EXCEPT !.attempt = None]
            OBVIOUS
          <6>5. [M1 EXCEPT ![a] = r2] = [messages EXCEPT ![a] = r2]
            BY <1>2, <5>6, <6>1
          <6> QED
            BY <6>1, <6>2, <6>3, <6>4, <6>5
        <5>3. PICK settled :
                settled = [state |-> IF delivered THEN "delivered" ELSE "queued",
                           attempt |-> IF delivered THEN t ELSE None,
                           delivery |-> messages[a].delivery]
          OBVIOUS
        <5>4. settled = [state |-> "queued", attempt |-> None, delivery |-> r.delivery]
          BY <3>2, <5>1, <5>3
        <5>5. M = [messages EXCEPT ![a] = settled]
          BY <1>5, <2>2, <5>3 DEF Settled
        <5> QED
          BY <5>2, <5>4, <5>5, <5>7
      <4> QED
        BY <2>1, <2>3, <3>2, <4>1, RequeueMakes
    <3> QED
      BY <3>1, <3>2
  <2>5. Makes(StateOf(W, N, S, A, H, L, R, messages, C, P), <<e>>, StateOf(W, N, S, A, H, L, R,
                                                                           M, C, P))
    BY <2>4, MakesOne
  <2>6. Makes(StateOf(W, N, S, A, H, L, R, messages, C, P), OnlyIf(DispatchedTo(a, t), <<e>>),
              StateOf(W, N, S, A, H, L, R, M, C, P))
    BY <1>5, <2>5, MakesIf
  <2> QED
    BY <1>1, <1>3, <2>2, <2>6
<1> QED
  BY <1>4, <1>5

\* A command's milestone event in whatever State the launch is known in.
LEMMA MilestoneMakesNow ==
  ASSUME NEW W, NEW N, NEW S, NEW A, NEW H, NEW L, NEW R, NEW M, NEW C, NEW P,
         NEW t, NEW kind \in Kinds, H[t] # None, StateOf(W, N, S, A, H, L, R, M, C, P) # None
  PROVE  Makes(StateOf(W, N, S, A, H, L, R, M, C, P), <<MilestoneEvent(t, kind)>>,
               StateOf(W, N, S, A, Adding(H, t, kind), L, R, M, C, P))
<1>1. PICK e : e = MilestoneEvent(t, kind)
  OBVIOUS
<1>2. e.type = "attempt.milestone" /\ e.attempt = t /\ e.kind = kind /\ kind # "session_bound"
  BY <1>1 DEF MilestoneEvent, Kinds
<1>3. ApplyEvent(StateOf(W, N, S, A, H, L, R, M, C, P), e)
        = StateOf(W, N, S, A, Adding(H, t, kind), L, R, M, C, P)
  BY <1>2, MilestoneMakes
<1> QED
  BY <1>1, <1>3, MakesOne

\* A command's release event releases the Lease as the command does.
LEMMA ReleaseMakesNow ==
  ASSUME TypeOK, NEW W, NEW N, NEW S, NEW A, NEW H, NEW R, NEW M, NEW C,
         NEW t \in Attempt, leases[t] # None, ~leases[t].released,
         StateOf(W, N, S, A, H, leases, R, M, C, pauses) # None
  PROVE  Makes(StateOf(W, N, S, A, H, leases, R, M, C, pauses), <<ReleaseEvent(t)>>,
               StateOf(W, N, S, A, H, Released({t}), R, M, C, PausesAfterRelease({t})))
<1>1. PICK e : e = ReleaseEvent(t)
  OBVIOUS
<1>2. e.type = "lease.released" /\ e.attempt = t
  BY <1>1 DEF ReleaseEvent
<1>3. PICK L, P : L = Freeing(leases, t) /\ P = Noting(pauses, t)
  OBVIOUS
<1>4. ApplyEvent(StateOf(W, N, S, A, H, leases, R, M, C, pauses), e) = StateOf(W, N, S, A, H,
                                                                               L, R, M, C, P)
  BY <1>2, <1>3, ReleaseMakes
<1>5. L = Released({t})
  <2>1. leases \in [Attempt -> OrNone(LeaseRecord)]
    BY DEF TypeOK
  <2>2. \A u \in Attempt : L[u] = IF u \in {t} THEN [leases[u] EXCEPT !.released
                                                     = TRUE] ELSE leases[u]
    BY <1>3, <2>1 DEF Freeing
  <2> QED
    BY <1>3, <2>1, <2>2 DEF Released, Freeing
<1>6. P = PausesAfterRelease({t})
  <2>0. P = [w \in Workflow |->
               IF pauses[w] # None /\ t \in pauses[w].fenced
               THEN [pauses[w] EXCEPT !.released = @ \cup {t}] ELSE pauses[w]]
    BY <1>3 DEF Noting
  <2>1. ASSUME NEW w \in Workflow
        PROVE  P[w] = IF pauses[w] = None THEN None
                      ELSE [pauses[w] EXCEPT !.released = @ \cup ({t} \cap pauses[w].fenced)]
    <3>1. CASE pauses[w] = None
      BY <2>0, <3>1
    <3>2. CASE pauses[w] # None
      <4>1. PICK record : record = pauses[w] /\ record \in PauseRecord
        BY <3>2 DEF TypeOK
      <4>2. CASE t \in record.fenced
        <5>1. {t} \cap record.fenced = {t}
          BY <4>2
        <5> QED
          BY <2>0, <3>2, <4>1, <4>2, <5>1
      <4>3. CASE t \notin record.fenced
        <5>1. record.released \cup ({t} \cap record.fenced) = record.released
          BY <4>3
        <5>2. [record EXCEPT !.released = record.released] = record
          BY <4>1 DEF PauseRecord
        <5> QED
          BY <2>0, <3>2, <4>1, <4>3, <5>1, <5>2
      <4> QED
        BY <4>2, <4>3
    <3> QED
      BY <3>1, <3>2
  <2> QED
    BY <2>0, <2>1 DEF PausesAfterRelease
<1> QED
  BY <1>1, <1>4, <1>5, <1>6, MakesOne

(* One command at a time. *)

\* The entry makes the next State of the replica's.
Journals(H, entry) ==
  \E G : Tells(G, attempts') /\ Makes(StateNow(H), entry, StateNow(G)')

\* A command that journals one event.
LEMMA JournalsOne ==
  ASSUME TypeOK, NEW H, Tells(H, attempts), NEW e, NEW G, Tells(G, attempts'),
         ApplyEvent(StateNow(H), e) = StateNow(G)'
  PROVE  Journals(H, <<e>>)
BY StateNowIsTyped, MakesOne DEF Journals

\* Histories go on telling launches that stay as they are.
LEMMA SameHistories ==
  ASSUME NEW H, Tells(H, attempts), attempts' = attempts
  PROVE  Tells(H, attempts')
OBVIOUS

\* The events of StartExecution make what the command does.
LEMMA StartExecutionJournals ==
  ASSUME TypeOK, NodesHaveWorkflow, NEW H, Tells(H, attempts),
         NEW w \in Workflow, NEW p \in Profiles, NEW n \in Node, NEW k \in Works,
         NEW s \in Session, NEW x \in OrNone(NativeId), NEW a \in Activity,
         StartExecution(w, p, n, k, s, x, a)
  PROVE  Journals(H, <<StartedEvent(w, n, s, a)>>)
<1>1. PICK e : e = StartedEvent(w, n, s, a)
  OBVIOUS
<1>2. /\ e.type = "execution.started"
      /\ e.workflow = w /\ e.node = n /\ e.session = s /\ e.activity = a
      /\ e.profile = workflows'[w] /\ e.nodeRecord = nodes'[w][n]
      /\ e.sessionRecord = sessions'[s] /\ e.activityRecord = activities'[a]
  BY <1>1 DEF StartedEvent
<1>3. /\ workflows[e.workflow] = None
      /\ sessions[e.session] = None
      /\ activities[e.activity] = None
  BY <1>2 DEF StartExecution, NewSession, NewActivity, TypeOK, NodesHaveWorkflow, Founding
<1>4. /\ workflows' = [workflows EXCEPT ![e.workflow] = e.profile]
      /\ nodes' = Founding(nodes, e.workflow, e.node, e.nodeRecord)
      /\ sessions' = [sessions EXCEPT ![e.session] = e.sessionRecord]
      /\ activities' = [activities EXCEPT ![e.activity] = e.activityRecord]
  BY <1>2 DEF StartExecution, NewSession, NewActivity, TypeOK, NodesHaveWorkflow, Founding
<1>5. UNCHANGED <<attempts, leases, results, messages, controls, pauses>>
  BY DEF StartExecution
<1>6. ApplyEvent(StateOf(workflows, nodes, sessions, activities, H, leases, results, messages,
                         controls, pauses), e)
        = StateOf(workflows', nodes', sessions', activities', H, leases, results, messages,
                  controls, pauses)
  BY <1>2, <1>3, <1>4, StartedMakes
<1>7. ApplyEvent(StateNow(H), e) = StateNow(H)'
  BY <1>5, <1>6 DEF StateNow
<1>8. Tells(H, attempts')
  BY <1>5, SameHistories
<1> QED
  BY <1>1, <1>7, <1>8, JournalsOne

\* The event of AddNode makes what the command does.
LEMMA AddNodeJournals ==
  ASSUME TypeOK, NEW H, Tells(H, attempts),
         NEW w \in Workflow, NEW n \in Node, NEW k \in Works, NEW deps \in SUBSET Node,
         AddNode(w, n, k, deps)
  PROVE  Journals(H, <<NodeEvent(w, n)>>)
<1>1. PICK e : e = NodeEvent(w, n)
  OBVIOUS
<1>2. /\ e.type = "node.added"
      /\ e.workflow = w /\ e.node = n
      /\ e.nodeRecord = nodes'[w][n]
  BY <1>1 DEF NodeEvent
<1>3. /\ workflows[e.workflow] # None
      /\ nodes[e.workflow][e.node] = None
  BY <1>2 DEF AddNode, TypeOK
<1>4. /\ nodes' = Placing(nodes, e.workflow, e.node, e.nodeRecord)
  <2>1. PICK record : record = [work |-> k, deps |-> deps]
    OBVIOUS
  <2>2. nodes' = [nodes EXCEPT ![w][n] = record]
    BY <2>1 DEF AddNode
  <2>3. nodes'[w][n] = record
    BY <2>2 DEF TypeOK
  <2> QED
    BY <1>2, <2>2, <2>3 DEF Placing
<1>5. UNCHANGED <<workflows, sessions, activities, attempts, leases, results, messages,
      controls, pauses>>
  BY DEF AddNode
<1>6. ApplyEvent(StateOf(workflows, nodes, sessions, activities, H, leases, results, messages,
                         controls, pauses), e)
        = StateOf(workflows, nodes', sessions, activities, H, leases, results, messages,
                  controls, pauses)
  BY <1>2, <1>3, <1>4, NodeMakes
<1>7. ApplyEvent(StateNow(H), e) = StateNow(H)'
  BY <1>5, <1>6 DEF StateNow
<1>8. Tells(H, attempts')
  BY <1>5, SameHistories
<1> QED
  BY <1>1, <1>7, <1>8, JournalsOne

\* The event of QueueActivity makes what the command does.
LEMMA QueueActivityJournals ==
  ASSUME TypeOK, NEW H, Tells(H, attempts),
         NEW w \in Workflow, NEW n \in Node, NEW s \in Session, NEW a \in Activity,
         QueueActivity(w, n, s, a)
  PROVE  Journals(H, <<ActivityEvent(a)>>)
<1>1. PICK e : e = ActivityEvent(a)
  OBVIOUS
<1>2. /\ e.type = "activity.queued"
      /\ e.activity = a
      /\ e.activityRecord = activities'[a]
  BY <1>1 DEF ActivityEvent
<1>3. /\ activities[e.activity] = None
  BY <1>2 DEF QueueActivity, NewActivity, TypeOK
<1>4. /\ activities' = [activities EXCEPT ![e.activity] = e.activityRecord]
  BY <1>2 DEF QueueActivity, NewActivity, TypeOK
<1>5. UNCHANGED <<workflows, nodes, sessions, attempts, leases, results, messages, controls,
      pauses>>
  BY DEF QueueActivity
<1>6. ApplyEvent(StateOf(workflows, nodes, sessions, activities, H, leases, results, messages,
                         controls, pauses), e)
        = StateOf(workflows, nodes, sessions, activities', H, leases, results, messages,
                  controls, pauses)
  BY <1>2, <1>3, <1>4, ActivityMakes
<1>7. ApplyEvent(StateNow(H), e) = StateNow(H)'
  BY <1>5, <1>6 DEF StateNow
<1>8. Tells(H, attempts')
  BY <1>5, SameHistories
<1> QED
  BY <1>1, <1>7, <1>8, JournalsOne

\* The event of DecideStop makes what the command does.
LEMMA DecideStopJournals ==
  ASSUME TypeOK, NEW H, Tells(H, attempts),
         NEW a \in Activity, NEW t \in Attempt, NEW status \in WorkerStatus,
         DecideStop(a, t, status)
  PROVE  Journals(H, <<ResultEvent(a)>>)
<1>1. PICK e : e = ResultEvent(a)
  OBVIOUS
<1>2. /\ e.type = "result.created"
      /\ e.activity = a
      /\ e.resultRecord = results'[a]
  BY <1>1 DEF ResultEvent
<1>3. /\ results[e.activity] = None
  BY <1>2 DEF DecideStop, Decidable, TypeOK
<1>4. /\ results' = [results EXCEPT ![e.activity] = e.resultRecord]
  BY <1>2 DEF DecideStop, Decidable, TypeOK
<1>5. UNCHANGED <<workflows, nodes, sessions, activities, attempts, leases, messages, controls,
      pauses>>
  BY DEF DecideStop
<1>6. ApplyEvent(StateOf(workflows, nodes, sessions, activities, H, leases, results, messages,
                         controls, pauses), e)
        = StateOf(workflows, nodes, sessions, activities, H, leases, results', messages,
                  controls, pauses)
  BY <1>2, <1>3, <1>4, ResultMakes
<1>7. ApplyEvent(StateNow(H), e) = StateNow(H)'
  BY <1>5, <1>6 DEF StateNow
<1>8. Tells(H, attempts')
  BY <1>5, SameHistories
<1> QED
  BY <1>1, <1>7, <1>8, JournalsOne

\* The event of RequestControl makes what the command does.
LEMMA RequestControlJournals ==
  ASSUME TypeOK, NEW H, Tells(H, attempts),
         NEW k \in Request, NEW t \in Attempt,
         RequestControl(k, t)
  PROVE  Journals(H, <<ControlEvent(k)>>)
<1>1. PICK e : e = ControlEvent(k)
  OBVIOUS
<1>2. /\ e.type = "control.recorded"
      /\ e.control = k
      /\ e.controlRecord = controls'[k]
  BY <1>1 DEF ControlEvent
<1>3. /\ controls[e.control] = None
  BY <1>2 DEF RequestControl, TypeOK, Control
<1>4. /\ controls' = [controls EXCEPT ![e.control] = e.controlRecord]
  BY <1>2 DEF RequestControl, TypeOK, Control
<1>5. UNCHANGED <<workflows, nodes, sessions, activities, attempts, leases, results, messages,
      pauses>>
  BY DEF RequestControl
<1>6. ApplyEvent(StateOf(workflows, nodes, sessions, activities, H, leases, results, messages,
                         controls, pauses), e)
        = StateOf(workflows, nodes, sessions, activities, H, leases, results, messages,
                  controls', pauses)
  BY <1>2, <1>3, <1>4, ControlMakes
<1>7. ApplyEvent(StateNow(H), e) = StateNow(H)'
  BY <1>5, <1>6 DEF StateNow
<1>8. Tells(H, attempts')
  BY <1>5, SameHistories
<1> QED
  BY <1>1, <1>7, <1>8, JournalsOne

\* The event of RequestStaleControl makes what the command does.
LEMMA RequestStaleControlJournals ==
  ASSUME TypeOK, NEW H, Tells(H, attempts),
         NEW k \in Request,
         RequestStaleControl(k)
  PROVE  Journals(H, <<ControlEvent(k)>>)
<1>1. PICK e : e = ControlEvent(k)
  OBVIOUS
<1>2. /\ e.type = "control.recorded"
      /\ e.control = k
      /\ e.controlRecord = controls'[k]
  BY <1>1 DEF ControlEvent
<1>3. /\ controls[e.control] = None
  BY <1>2 DEF RequestStaleControl, TypeOK, Control
<1>4. /\ controls' = [controls EXCEPT ![e.control] = e.controlRecord]
  BY <1>2 DEF RequestStaleControl, TypeOK, Control
<1>5. UNCHANGED <<workflows, nodes, sessions, activities, attempts, leases, results, messages,
      pauses>>
  BY DEF RequestStaleControl
<1>6. ApplyEvent(StateOf(workflows, nodes, sessions, activities, H, leases, results, messages,
                         controls, pauses), e)
        = StateOf(workflows, nodes, sessions, activities, H, leases, results, messages,
                  controls', pauses)
  BY <1>2, <1>3, <1>4, ControlMakes
<1>7. ApplyEvent(StateNow(H), e) = StateNow(H)'
  BY <1>5, <1>6 DEF StateNow
<1>8. Tells(H, attempts')
  BY <1>5, SameHistories
<1> QED
  BY <1>1, <1>7, <1>8, JournalsOne

\* The event of ApplyControl makes what the command does.
LEMMA ApplyControlJournals ==
  ASSUME TypeOK, NEW H, Tells(H, attempts),
         NEW c \in Control,
         ApplyControl(c)
  PROVE  Journals(H, <<[type |-> "control.applied", control |-> c]>>)
<1>1. PICK e : e = [type |-> "control.applied", control |-> c]
  OBVIOUS
<1>2. /\ e.type = "control.applied"
      /\ e.control = c
  BY <1>1 DEF TypeOK
<1>3. /\ controls[e.control] # None
      /\ controls[e.control].accepted
      /\ ~controls[e.control].applied
  BY <1>2 DEF ApplyControl, Applying, Completing
<1>4. /\ controls' = Applying(controls, e.control)
  BY <1>2 DEF ApplyControl, Applying, Completing
<1>5. UNCHANGED <<workflows, nodes, sessions, activities, attempts, leases, results, messages,
      pauses>>
  BY DEF ApplyControl
<1>6. ApplyEvent(StateOf(workflows, nodes, sessions, activities, H, leases, results, messages,
                         controls, pauses), e)
        = StateOf(workflows, nodes, sessions, activities, H, leases, results, messages,
                  controls', pauses)
  BY <1>2, <1>3, <1>4, AppliedMakes
<1>7. ApplyEvent(StateNow(H), e) = StateNow(H)'
  BY <1>5, <1>6 DEF StateNow
<1>8. Tells(H, attempts')
  BY <1>5, SameHistories
<1> QED
  BY <1>1, <1>7, <1>8, JournalsOne

\* The event of SettlePause makes what the command does.
LEMMA SettlePauseJournals ==
  ASSUME TypeOK, NEW H, Tells(H, attempts),
         NEW w \in Workflow,
         SettlePause(w)
  PROVE  Journals(H, <<[type |-> "workflow.pause_settled", workflow |-> w]>>)
<1>1. PICK e : e = [type |-> "workflow.pause_settled", workflow |-> w]
  OBVIOUS
<1>2. /\ e.type = "workflow.pause_settled"
      /\ e.workflow = w
  BY <1>1 DEF TypeOK
<1>3. /\ pauses[e.workflow] # None
      /\ pauses[e.workflow].phase # "completed"
  BY <1>2 DEF SettlePause, Applying, Completing
<1>4. /\ pauses' = Completing(pauses, e.workflow)
  BY <1>2 DEF SettlePause, Applying, Completing
<1>5. UNCHANGED <<workflows, nodes, sessions, activities, attempts, leases, results, messages,
      controls>>
  BY DEF SettlePause
<1>6. ApplyEvent(StateOf(workflows, nodes, sessions, activities, H, leases, results, messages,
                         controls, pauses), e)
        = StateOf(workflows, nodes, sessions, activities, H, leases, results, messages,
                  controls, pauses')
  BY <1>2, <1>3, <1>4, PauseSettledMakes
<1>7. ApplyEvent(StateNow(H), e) = StateNow(H)'
  BY <1>5, <1>6 DEF StateNow
<1>8. Tells(H, attempts')
  BY <1>5, SameHistories
<1> QED
  BY <1>1, <1>7, <1>8, JournalsOne

(* An Attempt records. *)

\* A milestone's event makes what AddMilestone does.
LEMMA MilestoneJournals ==
  ASSUME TypeOK, NEW H, Tells(H, attempts), NEW t \in Attempt, attempts[t] # None,
         NEW kind \in Kinds, kind \notin attempts[t].milestones, AddMilestone(t, kind)
  PROVE  /\ Tells(Adding(H, t, kind), attempts')
         /\ Makes(StateNow(H), <<MilestoneEvent(t, kind)>>, StateNow(Adding(H, t, kind)))
<1>1. attempts \in [Attempt -> OrNone(AttemptRecord)]
  BY DEF TypeOK
<1>2. attempts' = Reaching(attempts, t, kind)
  BY DEF AddMilestone, Reaching
<1>3. Tells(Adding(H, t, kind), Reaching(attempts, t, kind))
  BY <1>1, TellsMilestone
<1>4. H[t] # None
  BY DEF Tells
<1>5. StateNow(H) # None
  BY StateNowIsTyped
<1>6. Makes(StateNow(H), <<MilestoneEvent(t, kind)>>, StateNow(Adding(H, t, kind)))
  BY <1>4, <1>5, MilestoneMakesNow DEF StateNow
<1> QED
  BY <1>2, <1>3, <1>6

\* The event of RecordSpawned makes what the command does.
LEMMA RecordSpawnedJournals ==
  ASSUME TypeOK, NEW H, Tells(H, attempts), NEW t \in Attempt, RecordSpawned(t)
  PROVE  Journals(H, <<MilestoneEvent(t, "process_spawned")>>)
<1>1. PICK kind, G : kind = "process_spawned" /\ G = Adding(H, t, kind)
  OBVIOUS
<1>2. kind \in Kinds /\ attempts[t] # None /\ kind \notin attempts[t].milestones
      /\ AddMilestone(t, kind)
  BY <1>1 DEF RecordSpawned, MayRecord, Kinds
<1>3. Tells(G, attempts') /\ Makes(StateNow(H), <<MilestoneEvent(t, kind)>>, StateNow(G))
  BY <1>1, <1>2, MilestoneJournals
<1>4. StateNow(G)' = StateNow(G)
  BY DEF RecordSpawned, StateNow
<1> QED
  BY <1>1, <1>3, <1>4 DEF Journals

\* The event of RecordTurnStarted makes what the command does.
LEMMA RecordTurnStartedJournals ==
  ASSUME TypeOK, NEW H, Tells(H, attempts), NEW t \in Attempt, RecordTurnStarted(t)
  PROVE  Journals(H, <<MilestoneEvent(t, "turn_started")>>)
<1>1. PICK kind, G : kind = "turn_started" /\ G = Adding(H, t, kind)
  OBVIOUS
<1>2. kind \in Kinds /\ attempts[t] # None /\ kind \notin attempts[t].milestones
      /\ AddMilestone(t, kind)
  BY <1>1 DEF RecordTurnStarted, MayRecord, Kinds
<1>3. Tells(G, attempts') /\ Makes(StateNow(H), <<MilestoneEvent(t, kind)>>, StateNow(G))
  BY <1>1, <1>2, MilestoneJournals
<1>4. StateNow(G)' = StateNow(G)
  BY DEF RecordTurnStarted, StateNow
<1> QED
  BY <1>1, <1>3, <1>4 DEF Journals

\* The event of RecordSessionBound makes what the command does: the reducer finds
\* the Session by way of the launch's Activity.
LEMMA RecordSessionBoundJournals ==
  ASSUME TypeOK, StateValid, NEW H, Tells(H, attempts), NEW t \in Attempt, NEW x \in NativeId,
         RecordSessionBound(t, x)
  PROVE  Journals(H, <<BindingEvent(t, x)>>)
<1>1. PICK e, s : e = BindingEvent(t, x) /\ s = ActivityOf(t).session
  OBVIOUS
<1>2. /\ e.type = "attempt.milestone" /\ e.attempt = t
      /\ e.kind = "session_bound" /\ e.native = x
  BY <1>1 DEF BindingEvent
<1>3. attempts[t] # None /\ Known(attempts[t].activity)
  BY DEF RecordSessionBound, MayRecord, StateValid
<1>4. H[e.attempt] # None /\ s = activities[H[e.attempt].activity].session
  BY <1>1, <1>2, <1>3 DEF Tells, ActivityOf
<1>5. sessions[s] # None /\ sessions[s].native \in {None, e.native}
  <2>1. attempts[t].activity \in Activity
    BY <1>3 DEF TypeOK, AttemptRecord
  <2> QED
    BY <1>1, <1>2, <1>3, <2>1 DEF RecordSessionBound, AcceptsNative, StateValid, ActivityOf
<1>6. sessions' = Binding(sessions, s, e.native)
  BY <1>1, <1>2 DEF RecordSessionBound, Binding
<1>7. UNCHANGED <<workflows, nodes, activities, attempts, leases, results, messages, controls,
      pauses>>
  BY DEF RecordSessionBound
<1>8. ApplyEvent(StateOf(workflows, nodes, sessions, activities, H, leases, results, messages,
                         controls, pauses), e)
        = StateOf(workflows, nodes, sessions', activities, H, leases, results, messages,
                  controls, pauses)
  BY <1>2, <1>4, <1>5, <1>6, BindingMakes
<1>9. ApplyEvent(StateNow(H), e) = StateNow(H)'
  BY <1>7, <1>8 DEF StateNow
<1> QED
  BY <1>1, <1>7, <1>9, SameHistories, JournalsOne

\* The events of RecordResult make what the command does: the milestone, outside a
\* goal the Result, and the delivery of the Message.
LEMMA RecordResultJournals ==
  ASSUME TypeOK, TypeOK', Foundation, ReportsSound, NEW H, Tells(H, attempts),
         NEW t \in Attempt, NEW status \in WorkerStatus, RecordResult(t, status)
  PROVE  Journals(H, ResultEntry(t))
<1>1. PICK kind, a, G : kind = "result" /\ a = attempts[t].activity /\ G = Adding(H, t, kind)
  OBVIOUS
<1>2. /\ kind \in Kinds /\ attempts[t] # None /\ kind \notin attempts[t].milestones
      /\ AddMilestone(t, kind) /\ Live(t) /\ ~Reported(t)
  BY <1>1 DEF RecordResult, MayRecord, Kinds, Live, Reported
<1>3. Tells(G, attempts') /\ Makes(StateNow(H), <<MilestoneEvent(t, kind)>>, StateNow(G))
  BY <1>1, <1>2, MilestoneJournals
<1>4. a \in Activity /\ results[a] = None
  BY <1>1, <1>2, LiveAnswer DEF TypeOK, AttemptRecord
<1>5. G \in [Attempt -> OrNone(HistoryRecord)]
  BY <1>3 DEF Tells
<1>6. StateNow(G) = StateOf(workflows, nodes, sessions, activities, G, leases, results,
                            messages, controls, pauses)
  BY DEF StateNow
<1>7. PICK Z : Z = StateOf(workflows, nodes, sessions, activities, G, leases, results',
                           messages, controls, pauses)
  OBVIOUS
<1>8. StateNow(G) # None /\ Z # None
  BY <1>5, <1>6, <1>7, StateBetween
<1>9. Makes(StateNow(G), OnlyIf(~ProfileOf(t).goal, <<ResultEvent(a)>>), Z)
  <2>1. CASE ProfileOf(t).goal
    <3>1. Z = StateNow(G)
      BY <1>6, <1>7, <2>1 DEF RecordResult
    <3> QED
      BY <2>1, <3>1, MakesIf
  <2>2. CASE ~ProfileOf(t).goal
    <3>1. PICK e : e = ResultEvent(a)
      OBVIOUS
    <3>2. /\ e.type = "result.created" /\ e.activity = a /\ e.resultRecord = results'[a]
      BY <3>1 DEF ResultEvent
    <3>3. results' = [results EXCEPT ![e.activity] = e.resultRecord]
      BY <1>1, <1>4, <2>2, <3>2 DEF RecordResult, TypeOK
    <3>4. results[e.activity] = None
      BY <1>4, <3>2
    <3>5. ApplyEvent(StateNow(G), e) = Z
      BY <1>6, <1>7, <3>2, <3>3, <3>4, ResultMakes
    <3>6. Makes(StateNow(G), <<e>>, Z)
      BY <1>8, <3>5, MakesOne
    <3> QED
      BY <2>2, <3>1, <3>6, MakesIf
  <2> QED
    BY <2>1, <2>2
<1>10. Makes(Z, SettleEvents(t, TRUE), StateNow(G)')
  <2>1. messages' = Settled(attempts[t].activity, t, TRUE)
    BY DEF RecordResult
  <2>2. Makes(Z, SettleEvents(t, TRUE), StateOf(workflows, nodes, sessions, activities, G,
                                                leases, results', Settled(attempts[t].activity,
                                                                          t, TRUE), controls,
                                                                          pauses))
    BY <1>2, <1>7, <1>8, SettlingMakes
  <2>3. StateNow(G)' = StateOf(workflows, nodes, sessions, activities, G, leases, results',
                               messages', controls, pauses)
    BY DEF StateNow, RecordResult
  <2> QED
    BY <2>1, <2>2, <2>3
<1>11. PICK e1, e2, e3 :
         /\ e1 = <<MilestoneEvent(t, kind)>> /\ e3 = SettleEvents(t, TRUE)
         /\ e2 = OnlyIf(~ProfileOf(t).goal, <<ResultEvent(a)>>)
  OBVIOUS
<1>12. ResultEntry(t) = (e1 \o e2) \o e3
  BY <1>1, <1>11 DEF ResultEntry
<1>13. Makes(StateNow(H), e1 \o e2, Z)
  BY <1>3, <1>9, <1>11, MakesBoth
<1>14. Makes(StateNow(H), (e1 \o e2) \o e3, StateNow(G)')
  BY <1>10, <1>11, <1>13, MakesBoth
<1> QED
  BY <1>3, <1>12, <1>14 DEF Journals

\* The events of RecordStartFailure make what the command does: the milestone, and
\* the Message back in its queue.
LEMMA RecordStartFailureJournals ==
  ASSUME TypeOK, NEW H, Tells(H, attempts),
         NEW t \in Attempt, NEW kind \in StartFailures, RecordStartFailure(t, kind)
  PROVE  Journals(H, FailureEntry(t, kind))
<1>1. PICK G : G = Adding(H, t, kind)
  OBVIOUS
<1>2. /\ kind \in Kinds /\ attempts[t] # None /\ kind \notin attempts[t].milestones
      /\ AddMilestone(t, kind)
  BY <1>1 DEF RecordStartFailure, MayRecord, Kinds, StartFailures
<1>3. Tells(G, attempts') /\ Makes(StateNow(H), <<MilestoneEvent(t, kind)>>, StateNow(G))
  BY <1>1, <1>2, MilestoneJournals
<1>5. G \in [Attempt -> OrNone(HistoryRecord)]
  BY <1>3 DEF Tells
<1>6. StateNow(G) = StateOf(workflows, nodes, sessions, activities, G, leases, results,
                            messages, controls, pauses)
  BY DEF StateNow
<1>8. StateNow(G) # None
  <2>1. StateOf(workflows, nodes, sessions, activities, G, leases, results, messages, controls,
                pauses) # None
    BY <1>5, StateIsTyped DEF TypeOK
  <2> QED
    BY <1>6, <2>1
<1>10. Makes(StateNow(G), SettleEvents(t, FALSE), StateNow(G)')
  <2>1. messages' = Settled(attempts[t].activity, t, FALSE)
    BY DEF RecordStartFailure
  <2>2. Makes(StateNow(G), SettleEvents(t, FALSE), StateOf(workflows, nodes, sessions,
                                                           activities, G, leases, results,
                                                           Settled(attempts[t].activity, t,
                                                                   FALSE), controls, pauses))
    BY <1>2, <1>6, <1>8, SettlingMakes
  <2>3. StateNow(G)' = StateOf(workflows, nodes, sessions, activities, G, leases, results,
                               messages', controls, pauses)
    BY DEF StateNow, RecordStartFailure
  <2> QED
    BY <2>1, <2>2, <2>3
<1>11. PICK e1, e2 : e1 = <<MilestoneEvent(t, kind)>> /\ e2 = SettleEvents(t, FALSE)
  OBVIOUS
<1>12. FailureEntry(t, kind) = e1 \o e2
  BY <1>11 DEF FailureEntry
<1>13. Makes(StateNow(H), e1 \o e2, StateNow(G)')
  BY <1>3, <1>10, <1>11, MakesBoth
<1> QED
  BY <1>3, <1>12, <1>13 DEF Journals

\* The events of RecordExit make what the command does, whether the Activity has
\* its Result already or the exit is the Result.
LEMMA RecordExitJournals ==
  ASSUME TypeOK, TypeOK', Foundation, NEW H, Tells(H, attempts),
         NEW t \in Attempt, NEW succeeded \in BOOLEAN, RecordExit(t, succeeded)
  PROVE  Journals(H, ExitEntry(t))
<1>1. PICK kind, a, G : kind = "exit" /\ a = attempts[t].activity /\ G = Adding(H, t, kind)
  OBVIOUS
<1>2. /\ kind \in Kinds /\ attempts[t] # None /\ kind \notin attempts[t].milestones
      /\ AddMilestone(t, kind)
  BY <1>1 DEF RecordExit, MayRecord, Kinds, HasExit
<1>3. Tells(G, attempts') /\ Makes(StateNow(H), <<MilestoneEvent(t, kind)>>, StateNow(G))
  BY <1>1, <1>2, MilestoneJournals
<1>4. a \in Activity
  BY <1>1, <1>2 DEF TypeOK, AttemptRecord
<1>5. G \in [Attempt -> OrNone(HistoryRecord)]
  BY <1>3 DEF Tells
<1>6. StateNow(G) = StateOf(workflows, nodes, sessions, activities, G, leases, results,
                            messages, controls, pauses)
  BY DEF StateNow
<1>7. PICK Z, X :
        /\ Z = StateOf(workflows, nodes, sessions, activities, G, leases, results', messages,
                       controls, pauses)
        /\ X = StateOf(workflows, nodes, sessions, activities, G, leases, results', messages',
                       controls, pauses)
  OBVIOUS
<1>8. StateNow(G) # None /\ Z # None /\ X # None
  BY <1>5, <1>6, <1>7, StateBetween
<1>9. PICK e2, e3 :
        /\ e2 = OnlyIf(results[a] = None /\ ProfileOf(t).sessionMode, <<ResultEvent(a)>>)
        /\ e3 = OnlyIf(results[a] = None, SettleEvents(t, FALSE))
  OBVIOUS
<1>10. Makes(StateNow(G), e2, Z)
  <2>1. CASE ~(results[a] = None /\ ProfileOf(t).sessionMode)
    <3>1. Z = StateNow(G)
      BY <1>1, <1>6, <1>7, <2>1 DEF RecordExit
    <3> QED
      BY <1>9, <2>1, <3>1, MakesIf
  <2>2. CASE results[a] = None /\ ProfileOf(t).sessionMode
    <3>1. PICK e : e = ResultEvent(a)
      OBVIOUS
    <3>2. /\ e.type = "result.created" /\ e.activity = a /\ e.resultRecord = results'[a]
      BY <3>1 DEF ResultEvent
    <3>3. results' = [results EXCEPT ![e.activity] = e.resultRecord]
      BY <1>1, <1>4, <2>2, <3>2 DEF RecordExit, TypeOK
    <3>4. results[e.activity] = None
      BY <2>2, <3>2
    <3>5. ApplyEvent(StateNow(G), e) = Z
      BY <1>6, <1>7, <3>2, <3>3, <3>4, ResultMakes
    <3>6. Makes(StateNow(G), <<e>>, Z)
      BY <1>8, <3>5, MakesOne
    <3> QED
      BY <1>9, <2>2, <3>1, <3>6, MakesIf
  <2> QED
    BY <2>1, <2>2
<1>11. Makes(Z, e3, X)
  <2>1. CASE results[a] # None
    <3>1. X = Z
      BY <1>1, <1>7, <2>1 DEF RecordExit
    <3> QED
      BY <1>9, <2>1, <3>1, MakesIf
  <2>2. CASE results[a] = None
    <3>1. messages' = Settled(attempts[t].activity, t, FALSE)
      BY <1>1, <2>2 DEF RecordExit
    <3>2. Makes(Z, SettleEvents(t, FALSE),
                StateOf(workflows, nodes, sessions, activities, G, leases, results',
                        Settled(attempts[t].activity, t, FALSE), controls, pauses))
      BY <1>2, <1>7, <1>8, SettlingMakes
    <3>3. Makes(Z, SettleEvents(t, FALSE), X)
      BY <1>7, <3>1, <3>2
    <3> QED
      BY <1>9, <2>2, <3>3, MakesIf
  <2> QED
    BY <2>1, <2>2
<1>12. Makes(X, <<ReleaseEvent(t)>>, StateNow(G)')
  <2>1. leases[t] # None /\ ~leases[t].released
    BY <1>2 DEF RecordExit, MayRecord, Foundation, LeaseTracksAttempt
  <2>2. Makes(X, <<ReleaseEvent(t)>>,
          StateOf(workflows, nodes, sessions, activities, G, Released({t}), results',
                  messages', controls, PausesAfterRelease({t})))
    BY <1>7, <1>8, <2>1, ReleaseMakesNow
  <2>3. StateNow(G)' = StateOf(workflows, nodes, sessions, activities, G, leases', results',
                               messages', controls, pauses')
    BY DEF StateNow, RecordExit
  <2>4. leases' = Released({t}) /\ pauses' = PausesAfterRelease({t})
    BY DEF RecordExit
  <2> QED
    BY <2>2, <2>3, <2>4
<1>13. PICK e1, e4 : e1 = <<MilestoneEvent(t, kind)>> /\ e4 = <<ReleaseEvent(t)>>
  OBVIOUS
<1>14. ExitEntry(t) = ((e1 \o e2) \o e3) \o e4
  BY <1>1, <1>9, <1>13 DEF ExitEntry
<1>15. Makes(StateNow(H), e1 \o e2, Z)
  BY <1>3, <1>10, <1>13, MakesBoth
<1>16. Makes(StateNow(H), (e1 \o e2) \o e3, X)
  BY <1>11, <1>15, MakesBoth
<1>17. Makes(StateNow(H), ((e1 \o e2) \o e3) \o e4, StateNow(G)')
  BY <1>12, <1>13, <1>16, MakesBoth
<1> QED
  BY <1>3, <1>14, <1>17 DEF Journals

\* The next turn of a Session: an Activity and its Message.
LEMMA NextTurnMakes ==
  ASSUME TypeOK, TypeOK', MessagesSound, NEW H, Tells(H, attempts),
         NEW R, R \in {results, results'}, NEW a \in Activity, NEW record, NewActivity(a, record), NewMessage(a)
  PROVE  Makes(StateOf(workflows, nodes, sessions, activities, H, leases, R, messages,
                       controls, pauses), <<ActivityEvent(a), MessageEvent(a)>>,
               StateOf(workflows, nodes, sessions, activities', H, leases, R, messages',
                       controls, pauses))
<1>1. PICK e1, e2 : e1 = ActivityEvent(a) /\ e2 = MessageEvent(a)
  OBVIOUS
<1>2. /\ e1.type = "activity.queued" /\ e1.activity = a /\ e1.activityRecord = activities'[a]
      /\ e2.type = "message.queued" /\ e2.activity = a /\ e2.messageRecord = messages'[a]
  BY <1>1 DEF ActivityEvent, MessageEvent
<1>3. activities[e1.activity] = None /\ messages[e2.activity] = None
  BY <1>2 DEF NewActivity, MessagesSound, MessageSound, Known
<1>4. /\ activities' = [activities EXCEPT ![e1.activity] = e1.activityRecord]
      /\ messages' = [messages EXCEPT ![e2.activity] = e2.messageRecord]
  BY <1>2 DEF NewActivity, NewMessage, TypeOK
<1>5. H \in [Attempt -> OrNone(HistoryRecord)]
  BY DEF Tells
<1>6. PICK Z, X, Y :
        /\ Z = StateOf(workflows, nodes, sessions, activities, H, leases, R, messages,
                       controls, pauses)
        /\ X = StateOf(workflows, nodes, sessions, activities', H, leases, R, messages,
                       controls, pauses)
        /\ Y = StateOf(workflows, nodes, sessions, activities', H, leases, R, messages',
                       controls, pauses)
  OBVIOUS
<1>7. Z # None /\ X # None
  BY <1>5, <1>6, StateBetween
<1>8. ApplyEvent(Z, e1) = X
  BY <1>2, <1>3, <1>4, <1>6, ActivityMakes
<1>9. ApplyEvent(X, e2) = Y
  BY <1>2, <1>3, <1>4, <1>6, MessageMakes
<1>10. Makes(Z, <<e1>>, X) /\ Makes(X, <<e2>>, Y)
  BY <1>7, <1>8, <1>9, MakesOne
<1>11. PICK b1, b2 : b1 = <<e1>> /\ b2 = <<e2>>
  OBVIOUS
<1>12. b1 \o b2 = <<e1, e2>>
  <2>1. <<e1, e2>> = <<e1>> \o <<e2>>
    BY PairIsConcatenation
  <2> QED
    BY <1>11, <2>1
<1>13. Makes(Z, b1 \o b2, Y)
  BY <1>10, <1>11, MakesBoth
<1> QED
  BY <1>1, <1>6, <1>12, <1>13

\* The events of ContinueSession make what the command does.
LEMMA ContinueSessionJournals ==
  ASSUME TypeOK, TypeOK', MessagesSound, NEW H, Tells(H, attempts),
         NEW p \in Activity, NEW a \in Activity, ContinueSession(p, a)
  PROVE  Journals(H, <<ActivityEvent(a), MessageEvent(a)>>)
<1>1. PICK record : NewActivity(a, record)
  BY DEF ContinueSession
<1>2. NewMessage(a)
  BY DEF ContinueSession
<1>3. UNCHANGED <<workflows, nodes, sessions, attempts, leases, results, controls, pauses>>
  BY DEF ContinueSession
<1>4. Makes(StateOf(workflows, nodes, sessions, activities, H, leases, results, messages,
                    controls, pauses), <<ActivityEvent(a), MessageEvent(a)>>,
            StateOf(workflows, nodes, sessions, activities', H, leases, results, messages',
                    controls, pauses))
  BY <1>1, <1>2, NextTurnMakes
<1>5. Makes(StateNow(H), <<ActivityEvent(a), MessageEvent(a)>>, StateNow(H)')
  BY <1>3, <1>4 DEF StateNow
<1>6. Tells(H, attempts')
  BY <1>3, SameHistories
<1> QED
  BY <1>5, <1>6 DEF Journals

\* The events of DecideContinue make what the command does, whether the next turn is
\* new or was there before.
LEMMA DecideContinueJournals ==
  ASSUME TypeOK, TypeOK', MessagesSound, NEW H, Tells(H, attempts),
         NEW a \in Activity, NEW t \in Attempt, NEW b \in Activity, DecideContinue(a, t, b)
  PROVE  Journals(H, ContinueEntry(a, b))
<1>1. PICK e : e = ResultEvent(a)
  OBVIOUS
<1>2. /\ e.type = "result.created" /\ e.activity = a /\ e.resultRecord = results'[a]
  BY <1>1 DEF ResultEvent
<1>3. results[e.activity] = None
  BY <1>2 DEF DecideContinue, Decidable
<1>4. results' = [results EXCEPT ![e.activity] = e.resultRecord]
  BY <1>2 DEF DecideContinue, TypeOK
<1>5. UNCHANGED <<workflows, nodes, sessions, attempts, leases, controls, pauses>>
  BY DEF DecideContinue
<1>6. PICK Z, X, Y :
        /\ Z = StateOf(workflows, nodes, sessions, activities, H, leases, results, messages,
                       controls, pauses)
        /\ X = StateOf(workflows, nodes, sessions, activities, H, leases, results', messages,
                       controls, pauses)
        /\ Y = StateOf(workflows, nodes, sessions, activities', H, leases, results', messages',
                       controls, pauses)
  OBVIOUS
<1>7. StateNow(H) = Z /\ StateNow(H)' = Y
  BY <1>5, <1>6 DEF StateNow
<1>8. Z # None
  BY <1>7, StateNowIsTyped
<1>9. ApplyEvent(Z, e) = X
  BY <1>2, <1>3, <1>4, <1>6, ResultMakes
<1>10. Makes(Z, <<e>>, X)
  BY <1>8, <1>9, MakesOne
<1>11. PICK turn, more : turn = <<ActivityEvent(b),
            MessageEvent(b)>> /\ more = OnlyIf(ExistingContinuations(a) = {}, turn)
  OBVIOUS
<1>12. Makes(X, more, Y)
  <2>1. CASE ExistingContinuations(a) # {}
    <3>1. activities' = activities /\ messages' = messages
      BY <2>1 DEF DecideContinue
    <3>2. X = Y
      BY <1>6, <3>1
    <3> QED
      BY <1>11, <2>1, <3>2, MakesIf
  <2>2. CASE ExistingContinuations(a) = {}
    <3>1. PICK record : NewActivity(b, record)
      BY <2>2 DEF DecideContinue
    <3>2. NewMessage(b)
      BY <2>2 DEF DecideContinue
    <3>3. PICK R : R = results'
      OBVIOUS
    <3>4. R \in {results, results'}
      BY <3>3
    <3>5. Makes(StateOf(workflows, nodes, sessions, activities, H, leases, R, messages,
                        controls, pauses), turn,
                StateOf(workflows, nodes, sessions, activities', H, leases, R, messages',
                        controls, pauses))
      BY <1>11, <3>1, <3>2, <3>4, NextTurnMakes
    <3>6. Makes(X, turn, Y)
      BY <1>6, <3>3, <3>5
    <3> QED
      BY <1>11, <2>2, <3>6, MakesIf
  <2> QED
    BY <2>1, <2>2
<1>13. PICK first : first = <<e>>
  OBVIOUS
<1>14. ContinueEntry(a, b) = first \o more
  BY <1>1, <1>11, <1>13 DEF ContinueEntry
<1>15. Makes(Z, first \o more, Y)
  BY <1>10, <1>12, <1>13, MakesBoth
<1>16. Tells(H, attempts')
  BY <1>5, SameHistories
<1> QED
  BY <1>7, <1>14, <1>15, <1>16 DEF Journals

\* The event of StartFallback makes what the command does.
LEMMA StartFallbackJournals ==
  ASSUME TypeOK, TypeOK', StateValid, NEW H, Tells(H, attempts),
         NEW p \in Activity, NEW a \in Activity, NEW r \in Runtime, NEW s \in Session,
         StartFallback(p, r, s, a)
  PROVE  Journals(H, <<FallbackEvent(s, a)>>)
<1>1. PICK e, w : e = FallbackEvent(s, a) /\ w = activities[p].workflow
  OBVIOUS
<1>2. /\ e.type = "activity.fallback_queued" /\ e.session = s /\ e.activity = a
      /\ e.sessionRecord = sessions'[s] /\ e.activityRecord = activities'[a]
  BY <1>1 DEF FallbackEvent
<1>3. PICK record : record = Successor(p, s, activities[p].generation)
  OBVIOUS
<1>4. /\ activities[p] # None /\ activities[p] \in ActivityRecord
      /\ activities[a] = None /\ sessions[s] = None /\ p # a /\ p # None
      /\ workflows[w] # None
  BY <1>1, NoneAssumption DEF StartFallback, NewActivity, NewSession, Known, TypeOK, StateValid
<1>5. record.workflow = w /\ record.parent = p /\ record.session = s
  BY <1>1, <1>3, <1>4 DEF Successor, ActivityRecord
<1>6. activities' = [activities EXCEPT ![a] = record]
  BY <1>3 DEF StartFallback, NewActivity
<1>7. activities'[a] = record
  BY <1>6 DEF TypeOK
<1>8. PICK child : /\ child = [workflow |-> w, runtime |-> r, native |-> None,
                              parent |-> activities[p].session]
  OBVIOUS
<1>9. sessions' = [sessions EXCEPT ![s] = child]
  BY <1>1, <1>8 DEF StartFallback, NewSession
<1>10. sessions'[s] = child /\ child.workflow = w
  BY <1>8, <1>9 DEF TypeOK
<1>11. /\ sessions[e.session] = None /\ activities[e.activity] = None
       /\ workflows[e.activityRecord.workflow] # None
       /\ e.activityRecord.parent \notin {None, e.activity}
       /\ activities[e.activityRecord.parent] # None
       /\ activities[e.activityRecord.parent].workflow = e.activityRecord.workflow
       /\ e.sessionRecord.workflow = e.activityRecord.workflow
       /\ e.activityRecord.session = e.session
  BY <1>1, <1>2, <1>4, <1>5, <1>7, <1>10
<1>12. /\ sessions' = [sessions EXCEPT ![e.session] = e.sessionRecord]
       /\ activities' = [activities EXCEPT ![e.activity] = e.activityRecord]
  BY <1>2, <1>6, <1>7, <1>9, <1>10
<1>13. UNCHANGED <<workflows, nodes, attempts, leases, results, messages, controls, pauses>>
  BY DEF StartFallback
<1>14. ApplyEvent(StateOf(workflows, nodes, sessions, activities, H, leases, results, messages,
                          controls, pauses), e)
         = StateOf(workflows, nodes, sessions', activities', H, leases, results, messages,
                   controls, pauses)
  BY <1>2, <1>11, <1>12, FallbackMakes
<1>15. ApplyEvent(StateNow(H), e) = StateNow(H)'
  BY <1>13, <1>14 DEF StateNow
<1> QED
  BY <1>1, <1>13, <1>15, SameHistories, JournalsOne

\* The events of PrepareAttempt make what the command does: the launch with its
\* Lease, and the queued Message dispatched to it.
LEMMA PrepareAttemptJournals ==
  ASSUME TypeOK, TypeOK', LeaseTracksAttempt, NEW H, Tells(H, attempts),
         NEW a \in Activity, NEW r \in Runtime, NEW t \in Attempt, PrepareAttempt(a, r, t)
  PROVE  Journals(H, PrepareEntry(a, t))
<1>1. PICK launch, G : launch = attempts'[t] /\ G = [H EXCEPT ![t] = Unreported(launch)]
  OBVIOUS
<1>2. PICK o \in NextOrdinals(a) :
        attempts' = [attempts EXCEPT ![t] =
                       [activity |-> a, ordinal |-> o, runtime |-> r, milestones |-> {}]]
  BY DEF PrepareAttempt
<1>3. PICK record : record = [activity |-> a, ordinal |-> o, runtime |-> r, milestones |-> {}]
  OBVIOUS
<1>4. attempts' = [attempts EXCEPT ![t] = record]
      /\ attempts \in [Attempt -> OrNone(AttemptRecord)]
  BY <1>2, <1>3 DEF TypeOK
<1>5. launch = record /\ record.milestones = {}
  BY <1>1, <1>3, <1>4
<1>6. launch \in AttemptRecord
  <2>1. launch \in OrNone(AttemptRecord)
    BY <1>1 DEF TypeOK
  <2>2. launch # None
    <3>1. o \in Nat \ {0}
      BY <1>2, OrdinalsType
    <3>2. record \in AttemptRecord
      BY <1>3, <3>1 DEF AttemptRecord
    <3> QED
      BY <1>5, <3>2, NoneAssumption
  <2> QED
    BY <2>1, <2>2
<1>7. Tells(G, attempts')
  BY <1>1, <1>4, <1>5, <1>6, TellsLaunch
<1>8. G \in [Attempt -> OrNone(HistoryRecord)]
  BY <1>7 DEF Tells
<1>9. PICK e : e = [type |-> "attempt.prepared", attempt |-> t, attemptRecord |-> attempts'[t],
                    leaseRecord |-> leases'[t]]
  OBVIOUS
<1>10. /\ e.type = "attempt.prepared" /\ e.attempt = t
       /\ e.attemptRecord = launch /\ e.leaseRecord = leases'[t]
  BY <1>1, <1>9
<1>11. H[e.attempt] = None /\ leases[e.attempt] = None
  BY <1>10 DEF PrepareAttempt, Tells, LeaseTracksAttempt
<1>12. G = [H EXCEPT ![e.attempt] = Unreported(e.attemptRecord)]
  BY <1>1, <1>10
<1>13. leases' = [leases EXCEPT ![e.attempt] = e.leaseRecord]
  BY <1>10 DEF PrepareAttempt, TypeOK
<1>14. PICK Z, X :
        /\ Z = StateOf(workflows, nodes, sessions, activities, G, leases', results, messages,
                       controls, pauses)
        /\ X = StateOf(workflows, nodes, sessions, activities, G, leases', results, messages',
                       controls, pauses)
  OBVIOUS
<1>15. StateNow(H) # None /\ Z # None
  BY <1>8, <1>14, StateBetween, StateNowIsTyped
<1>16. ApplyEvent(StateNow(H), e) = Z
  <2>1. G = Launching(H, e.attempt, e.attemptRecord)
    BY <1>12 DEF Launching
  <2>2. PICK L2 : L2 = leases'
    OBVIOUS
  <2>3. L2 = Leasing(leases, e.attempt, e.leaseRecord)
    BY <1>13, <2>2 DEF Leasing
  <2>4. e.type = "attempt.prepared"
    BY <1>10
  <2>5. ApplyEvent(StateOf(workflows, nodes, sessions, activities, H, leases, results,
                           messages, controls, pauses), e)
          = StateOf(workflows, nodes, sessions, activities, G, L2, results, messages, controls,
                    pauses)
    BY <1>11, <2>1, <2>3, <2>4, PreparedMakes
  <2> QED
    BY <1>14, <2>2, <2>5 DEF StateNow
<1>17. Makes(StateNow(H), <<e>>, Z)
  BY <1>15, <1>16, MakesOne
<1>18. PICK more :
         more = OnlyIf(messages[a] # None /\ messages[a].state = "queued",
                       <<[type |-> "message.dispatched", activity |-> a, attempt |-> t,
                          delivery |-> messages'[a].delivery]>>)
  OBVIOUS
<1>19. Makes(Z, more, X)
  <2>1. CASE ~(messages[a] # None /\ messages[a].state = "queued")
    <3>1. messages' = messages
      BY <2>1 DEF PrepareAttempt
    <3>2. X = Z
      BY <1>14, <3>1
    <3> QED
      BY <1>18, <2>1, <3>2, MakesIf
  <2>2. CASE messages[a] # None /\ messages[a].state = "queued"
    <3>1. PICK d : messages' = [messages EXCEPT ![a] = [state |-> "dispatched", attempt |-> t,
                                                        delivery |-> d]]
      BY <2>2 DEF PrepareAttempt
    <3>2. messages'[a].delivery = d
      <4>1. PICK held : held = [state |-> "dispatched", attempt |-> t, delivery |-> d]
        OBVIOUS
      <4>2. messages'[a] = held
        BY <3>1, <4>1 DEF TypeOK
      <4> QED
        BY <4>1, <4>2
    <3>3. PICK f : f = [type |-> "message.dispatched", activity |-> a, attempt |-> t,
                        delivery |-> messages'[a].delivery]
      OBVIOUS
    <3>4. /\ f.type = "message.dispatched" /\ f.activity = a /\ f.attempt = t /\ f.delivery = d
      BY <3>2, <3>3
    <3>5. messages' = Dispatching(messages, f.activity, f.attempt, f.delivery)
      BY <3>1, <3>4 DEF Dispatching
    <3>6. messages[f.activity] # None /\ messages[f.activity].state = "queued"
      BY <2>2, <3>4
    <3>7. ApplyEvent(Z, f) = X
      BY <1>14, <3>4, <3>5, <3>6, DispatchMakes
    <3>8. Makes(Z, <<f>>, X)
      BY <1>15, <3>7, MakesOne
    <3> QED
      BY <1>18, <2>2, <3>3, <3>8, MakesIf
  <2> QED
    BY <2>1, <2>2
<1>20. PICK first : first = <<e>>
  OBVIOUS
<1>21. PrepareEntry(a, t) = first \o more
  BY <1>9, <1>18, <1>20 DEF PrepareEntry
<1>22. Makes(StateNow(H), first \o more, X)
  BY <1>17, <1>19, <1>20, MakesBoth
<1>23. StateNow(G)' = X
  BY <1>14 DEF PrepareAttempt, StateNow
<1> QED
  BY <1>7, <1>21, <1>22, <1>23 DEF Journals

-----------------------------------------------------------------------------
(* The two commands that journal a block of events per launch.                 *)

\* A State in the middle of an entry that changes launches, Messages, controls or pauses.
LEMMA StateAround ==
  ASSUME TypeOK,
         NEW H \in [Attempt -> OrNone(HistoryRecord)],
         NEW L \in [Attempt -> OrNone(LeaseRecord)],
         NEW M \in [Activity -> OrNone(MessageRecord)],
         NEW C \in [Control -> OrNone(ControlRecord)],
         NEW P \in [Workflow -> OrNone(PauseRecord)]
  PROVE  StateOf(workflows, nodes, sessions, activities, H, L, results, M, C, P) # None
<1>1. /\ workflows \in [Workflow -> OrNone(Profiles)]
      /\ nodes \in [Workflow -> [Node -> OrNone(NodeRecord)]]
      /\ sessions \in [Session -> OrNone(SessionRecord)]
      /\ activities \in [Activity -> OrNone(ActivityRecord)]
      /\ results \in [Activity -> OrNone(ResultRecord)]
  BY DEF TypeOK
<1> USE <1>1
<1> HIDE DEF OrNone
<1> QED
  BY StateIsTyped

\* What Returning makes of a Message.
LEMMA ReturningEffect ==
  ASSUME NEW M \in [Activity -> OrNone(MessageRecord)], NEW a \in Activity, M[a] # None
  PROVE  Returning(M, a) = [b \in Activity |-> IF b = a THEN [M[a] EXCEPT !.state = "queued",
                                                              !.attempt = None] ELSE M[b]]
<1>1. PICK M1 : M1 = [M EXCEPT ![a].state = "queued"]
  OBVIOUS
<1>2. PICK r, r1 : r = M[a] /\ r1 = [r EXCEPT !.state = "queued"]
  OBVIOUS
<1>3. M1 = [b \in Activity |-> IF b = a THEN r1 ELSE M[b]]
  BY <1>1, <1>2
<1>4. PICK r2 : r2 = [r1 EXCEPT !.attempt = None]
  OBVIOUS
<1>5. Returning(M, a) = [M1 EXCEPT ![a].attempt = None]
  BY <1>1 DEF Returning
<1>6. M1[a] = r1
  BY <1>3
<1>7. [M1 EXCEPT ![a].attempt = None] = [b \in Activity |-> IF b = a THEN r2 ELSE M[b]]
  BY <1>3, <1>4, <1>6
<1>8. [M[a] EXCEPT !.state = "queued", !.attempt = None] = r2
  BY <1>2, <1>4
<1> QED
  BY <1>5, <1>7, <1>8

\* One more launch gives its Message back.
LEMMA ReturningNow ==
  ASSUME TypeOK, MessagesSound, NEW U \in SUBSET Attempt, NEW t \in Attempt, t \notin U,
         attempts[t] # None, NEW H, NEW L, NEW C, NEW P,
         StateOf(workflows, nodes, sessions, activities, H, L, results, Requeued(U), C,
                 P) # None
  PROVE  Makes(StateOf(workflows, nodes, sessions, activities, H, L, results, Requeued(U), C,
                       P),
               SettleEvents(t, FALSE),
               StateOf(workflows, nodes, sessions, activities, H, L, results,
                       Requeued(U \cup {t}), C, P))
<1>1. PICK a, e :
        /\ a = attempts[t].activity
        /\ e = [type |-> "message.settled", activity |-> a, delivered |-> FALSE]
  OBVIOUS
<1>2. a \in Activity
  BY <1>1 DEF TypeOK, AttemptRecord
<1>3. SettleEvents(t, FALSE) = OnlyIf(DispatchedTo(a, t), <<e>>)
  BY <1>1 DEF SettleEvents
<1>4. \A b \in Activity : DispatchedTo(b, t) => b = a
  BY <1>1 DEF MessagesSound, MessageSound, DispatchedTo, AttemptsOf
<1>5. PICK M, K : M = Requeued(U) /\ K = Requeued(U \cup {t})
  OBVIOUS
<1>6. M \in [Activity -> OrNone(MessageRecord)]
  BY <1>5, RequeuedType
<1>7. CASE ~DispatchedTo(a, t)
  <2>1. \A b \in Activity : ~DispatchedTo(b, t)
    BY <1>4, <1>7
  <2>2. \A b \in Activity : (\E u \in U \cup {t} : DispatchedTo(b, u)) <=> (\E u \in U : DispatchedTo(b, u))
    BY <2>1
  <2>3. K = M
    BY <1>5, <2>2 DEF Requeued
  <2> QED
    BY <1>3, <1>5, <1>7, <2>3, MakesIf
<1>8. CASE DispatchedTo(a, t)
  <2>1. \A u \in U : ~DispatchedTo(a, u)
    BY <1>8 DEF DispatchedTo
  <2>2. M[a] = messages[a]
    BY <1>2, <1>5, <2>1 DEF Requeued
  <2>3. M[a] # None /\ M[a].state = "dispatched"
    BY <1>8, <2>2 DEF DispatchedTo
  <2>4. K = Returning(M, a)
    <3>1. Returning(M, a) = [b \in Activity |-> IF b = a THEN [M[a] EXCEPT !.state = "queued",
                                                               !.attempt = None] ELSE M[b]]
      BY <1>2, <1>6, <2>3, ReturningEffect
    <3>2. PICK r : r = [messages[a] EXCEPT !.state = "queued", !.attempt = None]
      OBVIOUS
    <3>3. K = [b \in Activity |-> IF b = a THEN r ELSE M[b]]
      <4>1. ASSUME NEW b \in Activity PROVE K[b] = IF b = a THEN r ELSE M[b]
        <5>1. CASE b = a
          BY <1>5, <1>8, <3>2, <5>1 DEF Requeued
        <5>2. CASE b # a
          <6>1. (\E u \in U \cup {t} : DispatchedTo(b, u)) <=> (\E u \in U : DispatchedTo(b, u))
            BY <1>4, <5>2
          <6> QED
            BY <1>5, <5>2, <6>1 DEF Requeued
        <5> QED
          BY <5>1, <5>2
      <4>2. K = [b \in Activity |-> K[b]]
        BY <1>5 DEF Requeued
      <4> QED
        BY <4>1, <4>2
    <3> QED
      BY <2>2, <3>1, <3>2, <3>3
  <2>5. e.type = "message.settled" /\ e.activity = a
    BY <1>1
  <2>6. ~e.delivered
    BY <1>1
  <2>7. ApplyEvent(StateOf(workflows, nodes, sessions, activities, H, L, results, M, C, P), e)
          = StateOf(workflows, nodes, sessions, activities, H, L, results, K, C, P)
    BY <2>3, <2>4, <2>5, <2>6, RequeueMakes
  <2>8. Makes(StateOf(workflows, nodes, sessions, activities, H, L, results, M, C, P), <<e>>,
              StateOf(workflows, nodes, sessions, activities, H, L, results, K, C, P))
    BY <1>5, <2>7, MakesOne
  <2> QED
    BY <1>3, <1>5, <1>8, <2>8, MakesIf
<1> QED
  BY <1>7, <1>8

\* What a restart adds to a launch's history.
Terminalized(H, t) ==
  IF attempts[t].milestones = {}
  THEN Adding(Adding(H, t, "adapter_start_failed"), t, "exit") ELSE Adding(H, t, "exit")

\* The histories when the events of U's launches are applied.
Recovering(H, U) == [t \in Attempt |-> IF t \in U THEN Terminalized(H, t)[t] ELSE H[t]]

\* The State when the events of U's launches are applied.
RecoveryState(H, U) ==
  StateOf(workflows, nodes, sessions, activities, Recovering(H, U), Released(U), results,
          Requeued(U), controls, PausesAfterRelease(U))

\* A milestone more keeps histories well typed and is about its launch alone.
LEMMA AddingType ==
  ASSUME NEW H \in [Attempt -> OrNone(HistoryRecord)], NEW t \in Attempt, H[t] # None,
         NEW kind \in Kinds
  PROVE  /\ Adding(H, t, kind) \in [Attempt -> OrNone(HistoryRecord)]
         /\ Adding(H, t, kind)[t] # None
         /\ \A u \in Attempt : u # t => Adding(H, t, kind)[u] = H[u]
         /\ \A G \in [Attempt -> OrNone(HistoryRecord)] :
              G[t] = H[t] => Adding(G, t, kind)[t] = Adding(H, t, kind)[t]
<1>1. H[t] \in HistoryRecord
  OBVIOUS
<1>2. PICK longer : longer = Append(H[t].milestones, kind)
  OBVIOUS
<1>3. longer \in Seq(Kinds)
  BY <1>1, <1>2 DEF HistoryRecord
<1>4. PICK record : record = [H[t] EXCEPT !.milestones = longer]
  OBVIOUS
<1>5. record \in HistoryRecord
  BY <1>1, <1>3, <1>4 DEF HistoryRecord
<1>6. record # None
  BY <1>5, StateAssumption
<1>7. PICK G1 : G1 = Adding(H, t, kind)
  OBVIOUS
<1>8. G1 = [H EXCEPT ![t] = record]
  BY <1>2, <1>4, <1>7 DEF Adding
<1>9. ASSUME NEW G \in [Attempt -> OrNone(HistoryRecord)], G[t] = H[t]
      PROVE  Adding(G, t, kind)[t] = record
  BY <1>2, <1>4, <1>9 DEF Adding
<1>10. G1 \in [Attempt -> OrNone(HistoryRecord)] /\ G1[t] = record /\ \A u \in Attempt : u # t
       => G1[u] = H[u]
  BY <1>5, <1>8
<1> QED
  BY <1>6, <1>7, <1>9, <1>10

\* Terminalizing one launch more.
LEMMA TerminalizedEffect ==
  ASSUME NEW H \in [Attempt -> OrNone(HistoryRecord)], NEW t \in Attempt, H[t] # None
  PROVE  /\ Terminalized(H, t) \in [Attempt -> OrNone(HistoryRecord)]
         /\ \A u \in Attempt : u # t => Terminalized(H, t)[u] = H[u]
         /\ \A G \in [Attempt -> OrNone(HistoryRecord)] :
              G[t] = H[t] => Terminalized(G, t)[t] = Terminalized(H, t)[t]
<1>1. "exit" \in Kinds /\ "adapter_start_failed" \in Kinds
  BY DEF Kinds
<1>2. CASE attempts[t].milestones # {}
  <2>1. \A G : Terminalized(G, t) = Adding(G, t, "exit")
    BY <1>2 DEF Terminalized
  <2> QED
    BY <1>1, <2>1, AddingType
<1>3. CASE attempts[t].milestones = {}
  <2>1. \A G : Terminalized(G, t) = Adding(Adding(G, t, "adapter_start_failed"), t, "exit")
    BY <1>3 DEF Terminalized
  <2>2. PICK H1 : H1 = Adding(H, t, "adapter_start_failed")
    OBVIOUS
  <2>3. /\ H1 \in [Attempt -> OrNone(HistoryRecord)] /\ H1[t] # None
        /\ \A u \in Attempt : u # t => H1[u] = H[u]
    BY <1>1, <2>2, AddingType
  <2>4. Terminalized(H, t) = Adding(H1, t, "exit")
    BY <2>1, <2>2
  <2>5. ASSUME NEW G \in [Attempt -> OrNone(HistoryRecord)], G[t] = H[t]
        PROVE  Terminalized(G, t)[t] = Terminalized(H, t)[t]
    <3>1. PICK G1 : G1 = Adding(G, t, "adapter_start_failed")
      OBVIOUS
    <3>2. G1 \in [Attempt -> OrNone(HistoryRecord)] /\ G1[t] = H1[t]
      BY <1>1, <2>2, <2>5, <3>1, AddingType
    <3>3. Terminalized(G, t) = Adding(G1, t, "exit")
      BY <2>1, <3>1
    <3> QED
      BY <1>1, <2>3, <2>4, <3>2, <3>3, AddingType
  <2>6. /\ Terminalized(H, t) \in [Attempt -> OrNone(HistoryRecord)]
        /\ \A u \in Attempt : u # t => Terminalized(H, t)[u] = H1[u]
    BY <1>1, <2>3, <2>4, AddingType
  <2> QED
    BY <2>3, <2>5, <2>6
<1> QED
  BY <1>2, <1>3

\* The order in which launches are terminalized does not matter.
LEMMA RecoveringEffect ==
  ASSUME NEW H \in [Attempt -> OrNone(HistoryRecord)], NEW U \in SUBSET Attempt,
         \A u \in U : H[u] # None
  PROVE  /\ Recovering(H, U) \in [Attempt -> OrNone(HistoryRecord)]
         /\ \A t \in Attempt : t \notin U => Recovering(H, U)[t] = H[t]
         /\ \A t \in Attempt : t \notin U /\ H[t] # None =>
              Terminalized(Recovering(H, U), t) = Recovering(H, U \cup {t})
<1>1. \A u \in U : Terminalized(H, u) \in [Attempt -> OrNone(HistoryRecord)]
  BY TerminalizedEffect
<1>2. PICK G : G = Recovering(H, U)
  OBVIOUS
<1>3. G = [t \in Attempt |-> IF t \in U THEN Terminalized(H, t)[t] ELSE H[t]]
  BY <1>2 DEF Recovering
<1>4. G \in [Attempt -> OrNone(HistoryRecord)] /\ \A t \in Attempt : t \notin U => G[t] = H[t]
  BY <1>1, <1>3
<1>5. ASSUME NEW t \in Attempt, t \notin U, H[t] # None
      PROVE  Terminalized(G, t) = Recovering(H, U \cup {t})
  <2>1. PICK K, F : K = Terminalized(G, t) /\ F = Recovering(H, U \cup {t})
    OBVIOUS
  <2>2. F = [u \in Attempt |-> IF u \in U \cup {t} THEN Terminalized(H, u)[u] ELSE H[u]]
    BY <2>1 DEF Recovering
  <2>3. G[t] = H[t] /\ G[t] # None
    BY <1>4, <1>5
  <2>4. K \in [Attempt -> OrNone(HistoryRecord)] /\ \A u \in Attempt : u # t => K[u] = G[u]
    BY <1>4, <2>1, <2>3, TerminalizedEffect
  <2>5. K[t] = Terminalized(H, t)[t]
    BY <1>4, <1>5, <2>1, <2>3, TerminalizedEffect
  <2>6. ASSUME NEW u \in Attempt PROVE K[u] = F[u]
    <3>1. CASE u = t
      BY <2>2, <2>5, <3>1
    <3>2. CASE u # t
      BY <1>3, <2>2, <2>4, <3>2
    <3> QED
      BY <3>1, <3>2
  <2>7. K = [u \in Attempt |-> K[u]] /\ F = [u \in Attempt |-> F[u]]
    BY <2>2, <2>4
  <2> QED
    BY <2>1, <2>6, <2>7
<1> QED
  BY <1>2, <1>4, <1>5

\* A launch's Lease is freed in the State where U's are.
LEMMA ReleasingNow ==
  ASSUME TypeOK, NEW U \in SUBSET Attempt, NEW t \in Attempt, t \notin U,
         \A u \in U : leases[u] # None, leases[t] # None, ~leases[t].released,
         NEW H, NEW M, NEW C,
         StateOf(workflows, nodes, sessions, activities, H, Released(U), results, M, C,
                 PausesAfterRelease(U)) # None
  PROVE  Makes(StateOf(workflows, nodes, sessions, activities, H, Released(U), results, M, C,
                       PausesAfterRelease(U)),
               <<ReleaseEvent(t)>>,
               StateOf(workflows, nodes, sessions, activities, H, Released(U \cup {t}),
                       results, M, C,
                       PausesAfterRelease(U \cup {t})))
<1>1. PICK e : e = ReleaseEvent(t)
  OBVIOUS
<1>2. e.type = "lease.released" /\ e.attempt = t
  BY <1>1 DEF ReleaseEvent
<1>3. PICK L, P : L = Released(U) /\ P = PausesAfterRelease(U)
  OBVIOUS
<1>4. L \in [Attempt -> OrNone(LeaseRecord)] /\ P \in [Workflow -> OrNone(PauseRecord)]
  BY <1>3, ReleasedType, PausesAfterReleaseType
<1>5. L[t] # None /\ ~L[t].released
  BY <1>3 DEF Released
<1>6. PICK L2, P2 : L2 = Freeing(L, t) /\ P2 = Noting(P, t)
  OBVIOUS
<1>7. ApplyEvent(StateOf(workflows, nodes, sessions, activities, H, L, results, M, C, P), e)
        = StateOf(workflows, nodes, sessions, activities, H, L2, results, M, C, P2)
  BY <1>2, <1>5, <1>6, ReleaseMakes
<1>8. L2 = Released(U \cup {t})
  <2>1. L2 = [L EXCEPT ![t].released = TRUE]
    BY <1>6 DEF Freeing
  <2>2. PICK r : r = [leases[t] EXCEPT !.released = TRUE]
    OBVIOUS
  <2>3. L2 = [u \in Attempt |-> IF u = t THEN r ELSE L[u]]
    <3>1. L[t] = leases[t]
      BY <1>3 DEF Released
    <3> QED
      BY <1>4, <2>1, <2>2, <3>1
  <2>4. ASSUME NEW u \in Attempt PROVE L2[u] = Released(U \cup {t})[u]
    <3>1. CASE u = t
      BY <2>2, <2>3, <3>1 DEF Released
    <3>2. CASE u # t
      BY <1>3, <2>3, <3>2 DEF Released
    <3> QED
      BY <3>1, <3>2
  <2>5. Released(U \cup {t}) = [u \in Attempt |-> Released(U \cup {t})[u]]
    BY DEF Released
  <2> QED
    BY <2>3, <2>4, <2>5
<1>9. P2 = PausesAfterRelease(U \cup {t})
  <2>1. P2 = [w \in Workflow |->
               IF P[w] # None /\ t \in P[w].fenced
               THEN [P[w] EXCEPT !.released = @ \cup {t}] ELSE P[w]]
    BY <1>6 DEF Noting
  <2>2. ASSUME NEW w \in Workflow
        PROVE  P2[w] = IF pauses[w] = None THEN None
                       ELSE [pauses[w] EXCEPT !.released
                             = @ \cup ((U \cup {t}) \cap pauses[w].fenced)]
    <3>1. CASE pauses[w] = None
      <4>1. P[w] = None
        BY <1>3, <3>1 DEF PausesAfterRelease
      <4> QED
        BY <2>1, <3>1, <4>1
    <3>2. CASE pauses[w] # None
      <4>1. PICK record : record = pauses[w] /\ record \in PauseRecord
        BY <3>2 DEF TypeOK
      <4>2. PICK done, noted :
              /\ done = record.released \cup (U \cap record.fenced)
              /\ noted = [record EXCEPT !.released = done]
        OBVIOUS
      <4>3. P[w] = noted
        BY <1>3, <3>2, <4>1, <4>2 DEF PausesAfterRelease
      <4>4. noted.fenced = record.fenced /\ noted.released = done /\ noted \in PauseRecord
        BY <4>1, <4>2 DEF PauseRecord
      <4>5. noted # None
        BY <4>4, NoneAssumption
      <4>6. CASE t \in record.fenced
        <5>1. record.released \cup ((U \cup {t}) \cap record.fenced) = done \cup {t}
          BY <4>2, <4>6
        <5>2. P2[w] = [noted EXCEPT !.released = done \cup {t}]
          BY <2>1, <4>3, <4>4, <4>5, <4>6
        <5>3. [noted EXCEPT !.released = done \cup {t}] = [record EXCEPT !.released
                                                           = done \cup {t}]
          BY <4>2
        <5> QED
          BY <3>2, <4>1, <5>1, <5>2, <5>3
      <4>7. CASE t \notin record.fenced
        <5>1. record.released \cup ((U \cup {t}) \cap record.fenced) = done
          BY <4>2, <4>7
        <5>2. P2[w] = noted
          BY <2>1, <4>3, <4>4, <4>7
        <5> QED
          BY <3>2, <4>1, <4>2, <5>1, <5>2
      <4> QED
        BY <4>6, <4>7
    <3> QED
      BY <3>1, <3>2
  <2> QED
    BY <2>1, <2>2 DEF PausesAfterRelease
<1> QED
  BY <1>1, <1>3, <1>7, <1>8, <1>9, MakesOne

\* The launches are finitely many.
LEMMA LaunchesAreFinite ==
  ASSUME Foundation, FinitelyManyKnown, BudgetsKept
  PROVE  IsFiniteSet({t \in Attempt : attempts[t] # None})
<1>1. PICK K : K = {a \in Activity : Known(a)}
  OBVIOUS
<1>2. IsFiniteSet(K)
  BY <1>1 DEF FinitelyManyKnown
<1>3. PICK S : S = {AttemptsOf(a) : a \in K}
  OBVIOUS
<1>4. IsFiniteSet(S)
  <2>1. PICK f : f = [a \in K |-> AttemptsOf(a)]
    OBVIOUS
  <2>2. f \in Surjection(K, S)
    BY <1>3, <2>1 DEF Surjection
  <2> QED
    BY <1>2, <2>2, FS_Surjection
<1>5. \A A \in S : IsFiniteSet(A)
  BY <1>1, <1>3 DEF BudgetsKept
<1>6. IsFiniteSet(UNION S)
  BY <1>4, <1>5, FS_UNION
<1>7. \A t \in Attempt : attempts[t] # None => t \in AttemptsOf(attempts[t].activity)
      /\ attempts[t].activity \in K
  BY <1>1 DEF Foundation, StateValid, TypeOK, AttemptRecord, AttemptsOf, Known
<1>8. {t \in Attempt : attempts[t] # None} \subseteq UNION S
  BY <1>3, <1>7
<1> QED
  BY <1>6, <1>8, FS_Subset

\* One launch's events at a restart.
LEMMA RecoveryMakes ==
  ASSUME Foundation, MessagesSound, NEW H, Tells(H, attempts),
         NEW U \in SUBSET Attempt, NEW t \in Attempt, t \notin U,
         \A u \in U \cup {t} : attempts[u] # None, ~leases[t].released
  PROVE  Makes(RecoveryState(H, U), RecoveryEvents(t), RecoveryState(H, U \cup {t}))
<1>0. TypeOK
  BY DEF Foundation
<1>1. /\ H \in [Attempt -> OrNone(HistoryRecord)]
      /\ \A u \in U : H[u] # None
      /\ H[t] # None
  BY DEF Tells
<1>2. \A u \in U \cup {t} : leases[u] # None
  BY DEF Foundation, LeaseTracksAttempt
<1>3. PICK G, F, L, M, P, V :
        /\ G = Recovering(H, U) /\ F = Recovering(H, V)
        /\ L = Released(U) /\ M = Requeued(U) /\ P = PausesAfterRelease(U) /\ V = U \cup {t}
  OBVIOUS
<1>4. /\ G \in [Attempt -> OrNone(HistoryRecord)] /\ G[t] # None
      /\ F = Terminalized(G, t)
  BY <1>1, <1>3, RecoveringEffect
<1>5. /\ L \in [Attempt -> OrNone(LeaseRecord)]
      /\ M \in [Activity -> OrNone(MessageRecord)]
      /\ P \in [Workflow -> OrNone(PauseRecord)]
  BY <1>0, <1>2, <1>3, ReleasedType, RequeuedType, PausesAfterReleaseType
<1>6. controls \in [Control -> OrNone(ControlRecord)]
  BY <1>0 DEF TypeOK
<1>7. F \in [Attempt -> OrNone(HistoryRecord)]
  BY <1>4, TerminalizedEffect
<1>8. "exit" \in Kinds /\ "adapter_start_failed" \in Kinds
  BY DEF Kinds
<1>9. PICK G1 : G1 = IF attempts[t].milestones = {} THEN Adding(G, t, "adapter_start_failed") ELSE G
  OBVIOUS
<1>10. /\ G1 \in [Attempt -> OrNone(HistoryRecord)] /\ G1[t] # None
       /\ F = Adding(G1, t, "exit")
  BY <1>4, <1>8, <1>9, AddingType DEF Terminalized
<1>11. PICK Z, Z1, Z2, Q, Z4 :
         /\ Z = StateOf(workflows, nodes, sessions, activities, G, L, results, M, controls, P)
         /\ Z1 = StateOf(workflows, nodes, sessions, activities, G1, L, results, M, controls, P)
         /\ Z2 = StateOf(workflows, nodes, sessions, activities, F, L, results, M, controls, P)
         /\ Q = StateOf(workflows, nodes, sessions, activities, F, L, results, Requeued(V),
                        controls, P)
         /\ Z4 = StateOf(workflows, nodes, sessions, activities, F, Released(V), results,
                         Requeued(V),
                         controls, PausesAfterRelease(V))
  OBVIOUS
<1>12. Z # None /\ Z1 # None /\ Z2 # None
  BY <1>0, <1>4, <1>5, <1>6, <1>7, <1>10, <1>11, StateAround
<1>13. Q # None
  <2>1. Requeued(V) \in [Activity -> OrNone(MessageRecord)]
    BY <1>0, <1>3, RequeuedType
  <2> QED
    BY <1>0, <1>5, <1>6, <1>7, <1>11, <2>1, StateAround
<1>14. PICK e1, e2, e3, e4 :
         /\ e1 = OnlyIf(attempts[t].milestones = {}, <<MilestoneEvent(t, "adapter_start_failed")>>)
         /\ e2 = <<MilestoneEvent(t, "exit")>>
         /\ e3 = SettleEvents(t, FALSE) /\ e4 = <<ReleaseEvent(t)>>
  OBVIOUS
<1>15. Makes(Z, e1, Z1)
  <2>1. CASE attempts[t].milestones = {}
    <3>1. G1 = Adding(G, t, "adapter_start_failed")
      BY <1>9, <2>1
    <3>2. Makes(Z, <<MilestoneEvent(t, "adapter_start_failed")>>, Z1)
      BY <1>4, <1>8, <1>11, <1>12, <3>1, MilestoneMakesNow
    <3> QED
      BY <1>14, <2>1, <3>2, MakesIf
  <2>2. CASE attempts[t].milestones # {}
    <3>1. Z1 = Z
      BY <1>9, <1>11, <2>2
    <3> QED
      BY <1>14, <2>2, <3>1, MakesIf
  <2> QED
    BY <2>1, <2>2
<1>16. Makes(Z1, e2, Z2)
  BY <1>8, <1>10, <1>11, <1>12, <1>14, MilestoneMakesNow
<1>17. Makes(Z2, e3, Q)
  BY <1>0, <1>3, <1>11, <1>12, <1>14, ReturningNow
<1>18. Makes(Q, e4, Z4)
  BY <1>0, <1>2, <1>3, <1>11, <1>13, <1>14, ReleasingNow
<1>19. RecoveryEvents(t) = ((e1 \o e2) \o e3) \o e4
  BY <1>14 DEF RecoveryEvents
<1>20. Makes(Z, e1 \o e2, Z2)
  BY <1>15, <1>16, MakesBoth
<1>21. Makes(Z, (e1 \o e2) \o e3, Q)
  BY <1>17, <1>20, MakesBoth
<1>22. Makes(Z, ((e1 \o e2) \o e3) \o e4, Z4)
  BY <1>18, <1>21, MakesBoth
<1> QED
  BY <1>3, <1>11, <1>19, <1>22 DEF RecoveryState

\* What a restart tells of the launches it ends.
LEMMA RecoveredTells ==
  ASSUME TypeOK, NEW H, Tells(H, attempts), NEW T \in SUBSET Attempt, ReconcileStartup(T)
  PROVE  Tells(Recovering(H, T), attempts')
<1>1. PICK G : G = Recovering(H, T)
  OBVIOUS
<1>2. /\ H \in [Attempt -> OrNone(HistoryRecord)]
      /\ \A t \in T : attempts[t] # None /\ H[t] # None /\ ~HasExit(t)
  BY DEF Tells, ReconcileStartup, Live
<1>3. G \in [Attempt -> OrNone(HistoryRecord)] /\ \A t \in Attempt : t \notin T => G[t] = H[t]
  BY <1>1, <1>2, RecoveringEffect
<1>4. \A t \in Attempt : t \notin T => attempts'[t] = attempts[t]
  BY DEF ReconcileStartup
<1>5. ASSUME NEW t \in T
      PROVE  \E B, K : /\ Tells(K, B) /\ K[t] = G[t] /\ B[t] = attempts'[t]
                       /\ B[t] # None
  <2>1. PICK A : A = attempts /\ A \in [Attempt -> OrNone(AttemptRecord)]
    BY DEF TypeOK
  <2>2. A[t] \in AttemptRecord /\ "exit" \notin A[t].milestones
    BY <1>2, <2>1 DEF HasExit
  <2>3. PICK record, more :
          /\ record = A[t]
          /\ more = record.milestones \cup {"exit"}
                      \cup (IF record.milestones = {} THEN {"adapter_start_failed"} ELSE {})
    OBVIOUS
  <2>4. attempts'[t] = [record EXCEPT !.milestones = more]
    BY <2>1, <2>3 DEF ReconcileStartup
  <2>5. "exit" \in Kinds /\ "adapter_start_failed" \in Kinds
    BY DEF Kinds
  <2>6. G[t] = Terminalized(H, t)[t]
    BY <1>1 DEF Recovering
  <2>7. CASE record.milestones # {}
    <3>1. PICK B, K : B = Reaching(A, t, "exit") /\ K = Adding(H, t, "exit")
      OBVIOUS
    <3>2. Tells(K, B)
      BY <2>1, <2>2, <2>5, <1>2, <3>1, TellsMilestone
    <3>3. K[t] = G[t]
      BY <2>1, <2>3, <2>6, <2>7, <3>1 DEF Terminalized
    <3>4. B[t] = [record EXCEPT !.milestones = record.milestones \cup {"exit"}]
      BY <2>1, <2>3, <3>1 DEF Reaching
    <3>5. more = record.milestones \cup {"exit"}
      BY <2>3, <2>7
    <3>6. B[t] # None
      <4>1. K[t] # None
        BY <1>2, <2>5, <3>1, AddingType
      <4> QED
        BY <3>2, <4>1 DEF Tells
    <3> QED
      BY <2>4, <3>2, <3>3, <3>4, <3>5, <3>6
  <2>8. CASE record.milestones = {}
    <3>1. PICK B, K : B = Reaching(A, t, "adapter_start_failed") /\ K = Adding(H, t, "adapter_start_failed")
      OBVIOUS
    <3>2. Tells(K, B)
      BY <2>1, <2>2, <2>3, <2>5, <2>8, <1>2, <3>1, TellsMilestone
    <3>3. PICK reached : reached = [record EXCEPT !.milestones
                                    = record.milestones \cup {"adapter_start_failed"}]
      OBVIOUS
    <3>4. B = [A EXCEPT ![t] = reached]
      BY <2>3, <3>1, <3>3 DEF Reaching
    <3>5. reached \in AttemptRecord /\ reached.milestones = {"adapter_start_failed"}
      BY <2>2, <2>3, <2>5, <2>8, <3>3 DEF AttemptRecord
    <3>6. B \in [Attempt -> OrNone(AttemptRecord)] /\ B[t] = reached /\ B[t] # None
      BY <2>1, <3>4, <3>5, NoneAssumption
    <3>7. PICK B2, K2 : B2 = Reaching(B, t, "exit") /\ K2 = Adding(K, t, "exit")
      OBVIOUS
    <3>8. Tells(K2, B2)
      BY <2>5, <3>2, <3>5, <3>6, <3>7, TellsMilestone
    <3>9. K2[t] = G[t]
      BY <2>1, <2>3, <2>6, <2>8, <3>1, <3>7 DEF Terminalized
    <3>10. B2[t] = [reached EXCEPT !.milestones = reached.milestones \cup {"exit"}]
      BY <3>6, <3>7 DEF Reaching
    <3>11. more = reached.milestones \cup {"exit"}
      BY <2>3, <2>8, <3>5
    <3>12. B2[t] = attempts'[t]
      BY <2>4, <3>3, <3>10, <3>11
    <3>13. B2[t] # None
      <4>1. K \in [Attempt -> OrNone(HistoryRecord)] /\ K[t] # None
        BY <1>2, <2>5, <3>1, AddingType
      <4>2. K2[t] # None
        BY <2>5, <3>7, <4>1, AddingType
      <4> QED
        BY <3>8, <4>2 DEF Tells
    <3> QED
      BY <3>8, <3>9, <3>12, <3>13
  <2> QED
    BY <2>7, <2>8
<1>6. \A t \in Attempt : G[t] = None <=> attempts'[t] = None
  BY <1>3, <1>4, <1>5 DEF Tells
<1>7. ASSUME NEW t \in Attempt, attempts'[t] # None
      PROVE  /\ G[t].activity = attempts'[t].activity /\ G[t].ordinal = attempts'[t].ordinal
             /\ G[t].runtime = attempts'[t].runtime
             /\ ToSet(G[t].milestones) = attempts'[t].milestones
             /\ \A i, j \in 1 .. Len(G[t].milestones) :
                  G[t].milestones[i] = G[t].milestones[j] => i = j
  <2>1. PICK B, K : Tells(K, B) /\ K[t] = G[t] /\ B[t] = attempts'[t]
    BY <1>3, <1>4, <1>5
  <2> QED
    BY <1>7, <2>1 DEF Tells
<1> QED
  BY <1>1, <1>3, <1>6, <1>7 DEF Tells

\* Nothing is released or requeued before the first event.
LEMMA NothingTaken ==
  ASSUME TypeOK
  PROVE  Released({}) = leases /\ Requeued({}) = messages /\ PausesAfterRelease({}) = pauses
<1>1. Released({}) = leases
  BY DEF Released, TypeOK
<1>2. Requeued({}) = messages
  BY DEF Requeued, TypeOK
<1>3. PausesAfterRelease({}) = pauses
  <2>1. ASSUME NEW w \in Workflow
        PROVE  pauses[w] = IF pauses[w] = None THEN None
                           ELSE [pauses[w] EXCEPT !.released
                                 = @ \cup ({} \cap pauses[w].fenced)]
    <3>1. CASE pauses[w] # None
      <4>1. PICK record : record = pauses[w] /\ record \in PauseRecord
        BY <3>1 DEF TypeOK
      <4>2. record.released \cup ({} \cap record.fenced) = record.released
        OBVIOUS
      <4>3. [record EXCEPT !.released = record.released] = record
        BY <4>1 DEF PauseRecord
      <4> QED
        BY <3>1, <4>1, <4>2, <4>3
    <3> QED
      BY <3>1
  <2>2. pauses = [w \in Workflow |-> pauses[w]]
    BY DEF TypeOK
  <2> QED
    BY <2>1, <2>2 DEF PausesAfterRelease
<1> QED
  BY <1>1, <1>2, <1>3

\* The events of ReconcileStartup, launch by launch in any order, make what the
\* command does to all of them at once.
LEMMA ReconcileStartupJournals ==
  ASSUME Foundation, MessagesSound, FinitelyManyKnown, BudgetsKept, NEW H, Tells(H, attempts),
         NEW T \in SUBSET Attempt, ReconcileStartup(T)
  PROVE  Journals(H, ForEach(T, RecoveryEvents))
<1>0. TypeOK
  BY DEF Foundation
<1>1. \A t \in T : attempts[t] # None /\ ~leases[t].released
  BY DEF ReconcileStartup, Live
<1>2. IsFiniteSet(T)
  <2>1. T \subseteq {t \in Attempt : attempts[t] # None}
    BY <1>1
  <2> QED
    BY <2>1, LaunchesAreFinite, FS_Subset
<1>3. PICK state, block :
        /\ state = [U \in SUBSET T |-> RecoveryState(H, U)]
        /\ block = [t \in T |-> RecoveryEvents(t)]
  OBVIOUS
<1>4. ASSUME NEW U \in SUBSET T, NEW t \in T, t \notin U
      PROVE  Makes(state[U], block[t], state[U \cup {t}])
  <2>1. Makes(RecoveryState(H, U), RecoveryEvents(t), RecoveryState(H, U \cup {t}))
    BY <1>1, <1>4, RecoveryMakes
  <2> QED
    BY <1>3, <2>1
<1>5. PICK entry : entry = FlattenSeq([i \in DOMAIN SetToSeq(T) |-> block[SetToSeq(T)[i]]])
  OBVIOUS
<1>6. Makes(state[{}], entry, state[T])
  BY <1>2, <1>4, <1>5, BlocksMake
<1>7. \A i \in DOMAIN SetToSeq(T) : block[SetToSeq(T)[i]] = RecoveryEvents(SetToSeq(T)[i])
  <2>1. \A i \in DOMAIN SetToSeq(T) : SetToSeq(T)[i] \in T
    BY <1>2, SetToSeqEnumerates
  <2> QED
    BY <1>3, <2>1
<1>8. ForEach(T, RecoveryEvents) = entry
  <2>1. [i \in DOMAIN SetToSeq(T) |-> block[SetToSeq(T)[i]]]
          = [i \in DOMAIN SetToSeq(T) |-> RecoveryEvents(SetToSeq(T)[i])]
    BY <1>7
  <2> QED
    BY <1>5, <2>1 DEF ForEach
<1>9. state[{}] = StateNow(H)
  <2>1. Recovering(H, {}) = H
    BY DEF Recovering, Tells
  <2>2. RecoveryState(H, {}) = StateNow(H)
    BY <1>0, <2>1, NothingTaken DEF RecoveryState, StateNow
  <2> QED
    BY <1>3, <2>2
<1>10. PICK G : G = Recovering(H, T)
  OBVIOUS
<1>11. Tells(G, attempts')
  BY <1>0, <1>10, RecoveredTells
<1>12. state[T] = StateNow(G)'
  <2>1. StateNow(G)' = StateOf(workflows, nodes, sessions, activities, G, leases', results,
                               messages', controls, pauses')
    BY DEF StateNow, ReconcileStartup
  <2>2. leases' = Released(T) /\ messages' = Requeued(T) /\ pauses' = PausesAfterRelease(T)
    BY DEF ReconcileStartup
  <2>3. RecoveryState(H, T) = StateNow(G)'
    BY <1>10, <2>1, <2>2 DEF RecoveryState
  <2> QED
    BY <1>3, <2>3
<1> QED
  BY <1>6, <1>8, <1>9, <1>11, <1>12 DEF Journals

\* The pause's own controls, for the launches of U no stop was accepted for.
Fencing(U) ==
  [c \in Control |-> IF c \in U /\ AcceptedControls(c)
   = {} THEN PauseControl(c) ELSE controls[c]]

\* The State when the events of U's launches are applied.
FenceState(H, U) ==
  StateOf(workflows, nodes, sessions, activities, H, leases, results, Requeued(U), Fencing(U),
          pauses)

\* One launch's events at a pause.
LEMMA FenceMakes ==
  ASSUME TypeOK, MessagesSound, PauseControlsNamed,
         NEW H \in [Attempt -> OrNone(HistoryRecord)],
         NEW w \in Workflow, PauseWorkflow(w),
         NEW U \in SUBSET Running(w), NEW t \in Running(w), t \notin U
  PROVE  Makes(FenceState(H, U), FenceEvents(t), FenceState(H, U \cup {t}))
<1>1. Running(w) \subseteq Attempt /\ t \in Attempt /\ attempts[t] # None
  BY DEF Running, Live
<1>2. t \in Control /\ Running(w) \subseteq Control
  BY <1>1 DEF Control
<1>3. PICK V, M, C, D : V = U \cup {t} /\ M = Requeued(U) /\ C = Fencing(U) /\ D = Fencing(V)
  OBVIOUS
<1>4. M \in [Activity -> OrNone(MessageRecord)]
  BY <1>1, <1>3, RequeuedType
<1>5. \A c \in Running(w) : PauseControl(c) \in ControlRecord
  BY <1>1 DEF PauseControl, ControlRecord
<1>6. C \in [Control -> OrNone(ControlRecord)] /\ D \in [Control -> OrNone(ControlRecord)]
  <2>1. controls \in [Control -> OrNone(ControlRecord)]
    BY DEF TypeOK
  <2>2. U \subseteq Running(w) /\ V \subseteq Running(w)
    BY <1>3
  <2> QED
    BY <1>3, <1>5, <2>1, <2>2 DEF Fencing
<1>7. leases \in [Attempt -> OrNone(LeaseRecord)]
      /\ pauses \in [Workflow -> OrNone(PauseRecord)]
  BY DEF TypeOK
<1>8. PICK Z, X, Y :
        /\ Z = StateOf(workflows, nodes, sessions, activities, H, leases, results, M, C, pauses)
        /\ X = StateOf(workflows, nodes, sessions, activities, H, leases, results, M, D, pauses)
        /\ Y = StateOf(workflows, nodes, sessions, activities, H, leases, results, Requeued(V),
                       D, pauses)
  OBVIOUS
<1>9. Z # None /\ X # None
  BY <1>4, <1>6, <1>7, <1>8, StateAround
<1>10. PICK e : e = OnlyIf(AcceptedControls(t) = {}, <<ControlEvent(t)>>)
  OBVIOUS
<1>11. Makes(Z, e, X)
  <2>1. CASE AcceptedControls(t) # {}
    <3>1. \A c : c \in V /\ AcceptedControls(c) = {} <=> c \in U /\ AcceptedControls(c) = {}
      BY <1>3, <2>1
    <3>2. D = C
      BY <1>3, <3>1 DEF Fencing
    <3> QED
      BY <1>8, <1>10, <2>1, <3>2, MakesIf
  <2>2. CASE AcceptedControls(t) = {}
    <3>1. controls[t] = None
      BY <1>1, <1>2, <2>2 DEF PauseControlsNamed, AcceptedControls
    <3>2. C[t] = None
      BY <1>2, <1>3, <3>1 DEF Fencing
    <3>3. PICK f : f = ControlEvent(t)
      OBVIOUS
    <3>4. f.type = "control.recorded" /\ f.control = t /\ f.controlRecord = controls'[t]
      BY <3>3 DEF ControlEvent
    <3>5. controls'[t] = PauseControl(t)
      BY <1>2, <2>2 DEF PauseWorkflow
    <3>6. PICK record : record = PauseControl(t)
      OBVIOUS
    <3>7. D = [C EXCEPT ![t] = record]
      <4>1. ASSUME NEW c \in Control PROVE D[c] = IF c = t THEN record ELSE C[c]
        BY <1>3, <2>2, <3>6 DEF Fencing
      <4> QED
        BY <1>6, <4>1
    <3>8. D = [C EXCEPT ![f.control] = f.controlRecord]
      BY <3>4, <3>5, <3>6, <3>7
    <3>9. C[f.control] = None
      BY <3>2, <3>4
    <3>10. ApplyEvent(Z, f) = X
      <4>1. f.type = "control.recorded"
        BY <3>4
      <4>2. ApplyEvent(StateOf(workflows, nodes, sessions, activities, H, leases, results, M,
                               C, pauses), f)
              = StateOf(workflows, nodes, sessions, activities, H, leases, results, M,
                        [C EXCEPT ![f.control] = f.controlRecord], pauses)
        BY <3>9, <4>1, ControlMakes
      <4> QED
        BY <1>8, <3>8, <4>2
    <3>11. Makes(Z, <<f>>, X)
      BY <1>9, <3>10, MakesOne
    <3> QED
      BY <1>10, <2>2, <3>3, <3>11, MakesIf
  <2> QED
    BY <2>1, <2>2
<1>12. Makes(X, SettleEvents(t, FALSE), Y)
  BY <1>1, <1>3, <1>8, <1>9, ReturningNow
<1>13. FenceEvents(t) = e \o SettleEvents(t, FALSE)
  BY <1>10 DEF FenceEvents
<1>14. Makes(Z, e \o SettleEvents(t, FALSE), Y)
  BY <1>11, <1>12, MakesBoth
<1> QED
  BY <1>3, <1>8, <1>13, <1>14 DEF FenceState

\* The events of PauseWorkflow make what the command does: its controls and Messages
\* launch by launch, then the pause with what it fences.
LEMMA PauseWorkflowJournals ==
  ASSUME Foundation, MessagesSound, PauseControlsNamed, FinitelyManyKnown, BudgetsKept, TypeOK',
         NEW H, Tells(H, attempts), NEW w \in Workflow, PauseWorkflow(w)
  PROVE  Journals(H, PauseEntry(w))
<1>0. TypeOK /\ H \in [Attempt -> OrNone(HistoryRecord)]
  BY DEF Foundation, Tells
<1>1. PICK T : T = Running(w)
  OBVIOUS
<1>2. IsFiniteSet(T)
  <2>1. T \subseteq {t \in Attempt : attempts[t] # None}
    BY <1>1 DEF Running, Live
  <2> QED
    BY <2>1, LaunchesAreFinite, FS_Subset
<1>3. PICK state, block :
        /\ state = [U \in SUBSET T |-> FenceState(H, U)]
        /\ block = [t \in T |-> FenceEvents(t)]
  OBVIOUS
<1>4. ASSUME NEW U \in SUBSET T, NEW t \in T, t \notin U
      PROVE  Makes(state[U], block[t], state[U \cup {t}])
  <2>1. Makes(FenceState(H, U), FenceEvents(t), FenceState(H, U \cup {t}))
    BY <1>0, <1>1, <1>4, FenceMakes
  <2> QED
    BY <1>3, <2>1
<1>5. PICK entry : entry = FlattenSeq([i \in DOMAIN SetToSeq(T) |-> block[SetToSeq(T)[i]]])
  OBVIOUS
<1>6. Makes(state[{}], entry, state[T])
  BY <1>2, <1>4, <1>5, BlocksMake
<1>7. \A i \in DOMAIN SetToSeq(T) : block[SetToSeq(T)[i]] = FenceEvents(SetToSeq(T)[i])
  <2>1. \A i \in DOMAIN SetToSeq(T) : SetToSeq(T)[i] \in T
    BY <1>2, SetToSeqEnumerates
  <2> QED
    BY <1>3, <2>1
<1>8. ForEach(T, FenceEvents) = entry
  <2>1. [i \in DOMAIN SetToSeq(T) |-> block[SetToSeq(T)[i]]]
          = [i \in DOMAIN SetToSeq(T) |-> FenceEvents(SetToSeq(T)[i])]
    BY <1>7
  <2> QED
    BY <1>5, <2>1 DEF ForEach
<1>9. state[{}] = StateNow(H)
  <2>1. Fencing({}) = controls
    BY <1>0 DEF Fencing, TypeOK
  <2>2. FenceState(H, {}) = StateNow(H)
    BY <1>0, <2>1, NothingTaken DEF FenceState, StateNow
  <2> QED
    BY <1>3, <2>2
<1>10. /\ workflows[w] # None /\ pauses[w] = None
       /\ controls' = Fencing(T) /\ messages' = Requeued(T)
       /\ UNCHANGED <<workflows, nodes, sessions, activities, attempts, leases, results>>
  BY <1>1 DEF PauseWorkflow, Fencing
<1>11. pauses' = [pauses EXCEPT ![w] = pauses'[w]]
  <2>1. PICK record : pauses' = [pauses EXCEPT ![w] = record]
    BY DEF PauseWorkflow
  <2> QED
    BY <1>0, <2>1 DEF TypeOK
<1>12. PICK e : e = [type |-> "workflow.paused", workflow |-> w, pauseRecord |-> pauses'[w]]
  OBVIOUS
<1>13. e.type = "workflow.paused" /\ e.workflow = w /\ e.pauseRecord = pauses'[w]
  BY <1>12
<1>14. PICK Z, X :
         /\ Z = StateOf(workflows, nodes, sessions, activities, H, leases, results, messages',
                        controls', pauses)
         /\ X = StateOf(workflows, nodes, sessions, activities, H, leases, results, messages',
                        controls', pauses')
  OBVIOUS
<1>15. state[T] = Z
  BY <1>3, <1>10, <1>14 DEF FenceState
<1>16. Z # None
  BY <1>0, <1>14, StateBetween
<1>17. ApplyEvent(Z, e) = X
  <2>1. pauses' = [pauses EXCEPT ![e.workflow] = e.pauseRecord]
    BY <1>11, <1>13
  <2>2. workflows[e.workflow] # None /\ pauses[e.workflow] = None
    BY <1>10, <1>13
  <2> QED
    BY <1>13, <1>14, <2>1, <2>2, PausedMakes
<1>18. PICK last : last = <<e>>
  OBVIOUS
<1>19. Makes(Z, last, X)
  BY <1>16, <1>17, <1>18, MakesOne
<1>20. Makes(StateNow(H), entry \o last, X)
  BY <1>6, <1>9, <1>15, <1>19, MakesBoth
<1>21. PauseEntry(w) = entry \o last
  BY <1>1, <1>8, <1>12, <1>18 DEF PauseEntry
<1>22. StateNow(H)' = X
  BY <1>10, <1>14 DEF StateNow
<1>23. Tells(H, attempts')
  BY <1>10
<1> QED
  BY <1>20, <1>21, <1>22, <1>23 DEF Journals

-----------------------------------------------------------------------------

\* What is true of the commands' State, and the replica's proof needs.
ReplayFacts ==
  /\ Foundation /\ ReportsSound /\ MessagesSound /\ PauseControlsNamed
  /\ FinitelyManyKnown /\ BudgetsKept

\* Every command leaves the replica what it leaves its own State.
LEMMA StepMirrors ==
  ASSUME ReplayFacts, Foundation', Mirrored, [ReplayNext]_replayVars
  PROVE  Mirrored'
<1>0. Foundation /\ TypeOK /\ TypeOK' /\ StateValid /\ NodesHaveWorkflow /\ LeaseTracksAttempt
  BY DEF ReplayFacts, Foundation
<1>1. PICK H : Tells(H, attempts) /\ replica = StateNow(H)
  BY DEF Mirrored
<1>2. ASSUME NEW entry, Journals(H, entry), Journal(entry) PROVE Mirrored'
  <2>1. PICK G : Tells(G, attempts') /\ Makes(StateNow(H), entry, StateNow(G)')
    BY <1>2 DEF Journals
  <2>2. replica' = StateNow(G)'
    BY <1>1, <1>2, <2>1, ApplyEntryMakes DEF Journal
  <2> QED
    BY <2>1, <2>2 DEF Mirrored
<1>3. ASSUME UNCHANGED <<workflows, nodes, sessions, activities, attempts, leases, results,
                         messages, controls, pauses, replica>>
      PROVE  Mirrored'
  <2>1. StateNow(H)' = StateNow(H)
    BY <1>3 DEF StateNow
  <2>2. Tells(H, attempts') /\ replica' = StateNow(H)'
    BY <1>1, <1>3, <2>1
  <2> QED
    BY <2>2 DEF Mirrored
<1>4. CASE UNCHANGED replayVars
  BY <1>3, <1>4 DEF replayVars, vars
<1>5. CASE ReplayWork
  <2>1. ASSUME NEW w \in Workflow, NEW p \in Profiles, NEW n \in Node, NEW k \in Works,
               NEW s \in Session, NEW x \in OrNone(NativeId), NEW a \in Activity,
               StartExecution(w, p, n, k, s, x, a), Journal(<<StartedEvent(w, n, s, a)>>)
        PROVE  Mirrored'
    BY <1>0, <1>1, <1>2, <2>1, StartExecutionJournals
  <2>2. ASSUME NEW w \in Workflow, NEW n \in Node, NEW k \in Works, NEW deps \in SUBSET Node,
               AddNode(w, n, k, deps), Journal(<<NodeEvent(w, n)>>)
        PROVE  Mirrored'
    BY <1>0, <1>1, <1>2, <2>2, AddNodeJournals
  <2>3. ASSUME NEW w \in Workflow, NEW n \in Node, NEW s \in Session, NEW a \in Activity,
               QueueActivity(w, n, s, a), Journal(<<ActivityEvent(a)>>)
        PROVE  Mirrored'
    BY <1>0, <1>1, <1>2, <2>3, QueueActivityJournals
  <2>4. ASSUME NEW p \in Activity, NEW a \in Activity,
               ContinueSession(p, a), Journal(<<ActivityEvent(a), MessageEvent(a)>>)
        PROVE  Mirrored'
    <3>1. Journals(H, <<ActivityEvent(a), MessageEvent(a)>>)
      BY <1>0, <1>1, <2>4, ContinueSessionJournals DEF ReplayFacts
    <3> QED
      BY <1>2, <2>4, <3>1
  <2>5. ASSUME NEW p \in Activity, NEW a \in Activity, NEW r \in Runtime, NEW s \in Session,
               StartFallback(p, r, s, a), Journal(<<FallbackEvent(s, a)>>)
        PROVE  Mirrored'
    BY <1>0, <1>1, <1>2, <2>5, StartFallbackJournals
  <2>6. ASSUME NEW a \in Activity, WakeTimeReached(a), UNCHANGED replica
        PROVE  Mirrored'
    BY <1>3, <2>6 DEF WakeTimeReached
  <2> QED
    BY <1>5, <2>1, <2>2, <2>3, <2>4, <2>5, <2>6 DEF ReplayWork
<1>6. CASE ReplayAttempts
  <2>1. ASSUME NEW a \in Activity, NEW r \in Runtime, NEW t \in Attempt,
               PrepareAttempt(a, r, t), Journal(PrepareEntry(a, t))
        PROVE  Mirrored'
    BY <1>0, <1>1, <1>2, <2>1, PrepareAttemptJournals
  <2>2. ASSUME NEW t \in Attempt, RecordSpawned(t), Journal(<<MilestoneEvent(t, "process_spawned")>>)
        PROVE  Mirrored'
    BY <1>0, <1>1, <1>2, <2>2, RecordSpawnedJournals
  <2>3. ASSUME NEW t \in Attempt, NEW x \in NativeId,
               RecordSessionBound(t, x), Journal(<<BindingEvent(t, x)>>)
        PROVE  Mirrored'
    BY <1>0, <1>1, <1>2, <2>3, RecordSessionBoundJournals
  <2>4. ASSUME NEW t \in Attempt, RecordTurnStarted(t), Journal(<<MilestoneEvent(t, "turn_started")>>)
        PROVE  Mirrored'
    BY <1>0, <1>1, <1>2, <2>4, RecordTurnStartedJournals
  <2>5. ASSUME NEW t \in Attempt, NEW status \in WorkerStatus,
               RecordResult(t, status), Journal(ResultEntry(t))
        PROVE  Mirrored'
    <3>1. Journals(H, ResultEntry(t))
      BY <1>0, <1>1, <2>5, RecordResultJournals DEF ReplayFacts
    <3> QED
      BY <1>2, <2>5, <3>1
  <2>6. ASSUME NEW t \in Attempt, NEW kind \in StartFailures,
               RecordStartFailure(t, kind), Journal(FailureEntry(t, kind))
        PROVE  Mirrored'
    BY <1>0, <1>1, <1>2, <2>6, RecordStartFailureJournals
  <2>7. ASSUME NEW t \in Attempt, NEW succeeded \in BOOLEAN,
               RecordExit(t, succeeded), Journal(ExitEntry(t))
        PROVE  Mirrored'
    BY <1>0, <1>1, <1>2, <2>7, RecordExitJournals
  <2>8. ASSUME NEW T \in SUBSET Attempt,
               ReconcileStartup(T), Journal(ForEach(T, RecoveryEvents))
        PROVE  Mirrored'
    <3>1. Journals(H, ForEach(T, RecoveryEvents))
      BY <1>0, <1>1, <2>8, ReconcileStartupJournals DEF ReplayFacts
    <3> QED
      BY <1>2, <2>8, <3>1
  <2> QED
    BY <1>6, <2>1, <2>2, <2>3, <2>4, <2>5, <2>6, <2>7, <2>8 DEF ReplayAttempts
<1>7. CASE ReplayDecisions
  <2>1. ASSUME NEW a \in Activity, NEW t \in Attempt, NEW status \in {"completed",
                                                                      "needs_human"},
               DecideStop(a, t, status), Journal(<<ResultEvent(a)>>)
        PROVE  Mirrored'
    <3>1. status \in WorkerStatus
      BY DEF WorkerStatus
    <3> QED
      BY <1>0, <1>1, <1>2, <2>1, <3>1, DecideStopJournals
  <2>2. ASSUME NEW a \in Activity, NEW b \in Activity, NEW t \in Attempt,
               DecideContinue(a, t, b), Journal(ContinueEntry(a, b))
        PROVE  Mirrored'
    <3>1. Journals(H, ContinueEntry(a, b))
      BY <1>0, <1>1, <2>2, DecideContinueJournals DEF ReplayFacts
    <3> QED
      BY <1>2, <2>2, <3>1
  <2> QED
    BY <1>7, <2>1, <2>2 DEF ReplayDecisions
<1>8. CASE ReplayControls
  <2>1. ASSUME NEW k \in Request, NEW t \in Attempt, RequestControl(k, t),
        Journal(<<ControlEvent(k)>>)
        PROVE  Mirrored'
    BY <1>0, <1>1, <1>2, <2>1, RequestControlJournals
  <2>2. ASSUME NEW k \in Request, RequestStaleControl(k), Journal(<<ControlEvent(k)>>)
        PROVE  Mirrored'
    BY <1>0, <1>1, <1>2, <2>2, RequestStaleControlJournals
  <2>3. ASSUME NEW c \in Control, ApplyControl(c), Journal(<<[type |-> "control.applied",
                                                              control |-> c]>>)
        PROVE  Mirrored'
    <3>1. Journals(H, <<[type |-> "control.applied", control |-> c]>>)
      BY <1>0, <1>1, <2>3, ApplyControlJournals
    <3> QED
      BY <1>2, <2>3, <3>1
  <2>4. ASSUME NEW w \in Workflow, PauseWorkflow(w), Journal(PauseEntry(w))
        PROVE  Mirrored'
    <3>1. Journals(H, PauseEntry(w))
      BY <1>0, <1>1, <2>4, PauseWorkflowJournals DEF ReplayFacts
    <3> QED
      BY <1>2, <2>4, <3>1
  <2>5. ASSUME NEW w \in Workflow,
               SettlePause(w), Journal(<<[type |-> "workflow.pause_settled", workflow |-> w]>>)
        PROVE  Mirrored'
    <3>1. Journals(H, <<[type |-> "workflow.pause_settled", workflow |-> w]>>)
      BY <1>0, <1>1, <2>5, SettlePauseJournals
    <3> QED
      BY <1>2, <2>5, <3>1
  <2> QED
    BY <1>8, <2>1, <2>2, <2>3, <2>4, <2>5 DEF ReplayControls
<1> QED
  BY <1>4, <1>5, <1>6, <1>7, <1>8 DEF ReplayNext

\* Journaling a command is executing it.
LEMMA ReplayExecutes ==
  ASSUME [ReplayNext]_replayVars
  PROVE  [Next]_vars
<1>1. ReplayWork => WorkCommands
  BY DEF ReplayWork, WorkCommands
<1>2. ReplayAttempts => AttemptCommands
  BY DEF ReplayAttempts, AttemptCommands
<1>3. ReplayDecisions => DecisionCommands
  BY DEF ReplayDecisions, DecisionCommands
<1>4. ReplayControls => ControlCommands
  BY DEF ReplayControls, ControlCommands
<1> QED
  BY <1>1, <1>2, <1>3, <1>4 DEF ReplayNext, Next, replayVars

\* At any time there are finitely many Activities.
LEMMA KnownStayFinite == Spec => []FinitelyManyKnown
<1>1. Init => FinitelyManyKnown
  BY FS_EmptySet DEF Init, FinitelyManyKnown, Known
<1> QED
  BY <1>1, FoundationHolds, StepKeepsFinitelyMany, PTL DEF Spec

\* A replica that mirrors the commands' State is one that validateState accepts and
\* that equals it: no milestone is told twice.
LEMMA MirroredAgrees ==
  ASSUME TypeOK, StateAccepted, Mirrored
  PROVE  ReplayAgrees
<1>1. PICK H : Tells(H, attempts) /\ replica = StateNow(H)
  BY DEF Mirrored
<1>2. replica # None
  BY <1>1, StateNowIsTyped
<1>3. /\ replica.workflows = workflows /\ replica.nodes = nodes
      /\ replica.sessions = sessions /\ replica.activities = activities
      /\ replica.attempts = H /\ replica.leases = leases
      /\ replica.results = results /\ replica.messages = messages
      /\ replica.controls = controls /\ replica.pauses = pauses
  BY <1>1, FieldsOfState DEF StateNow
<1>4. /\ \A t \in Attempt : H[t] = None <=> attempts[t] = None
      /\ \A t \in Attempt : attempts[t] # None => H[t].activity = attempts[t].activity
  BY <1>1 DEF Tells
<1>5. /\ \A a \in Activity : results[a] # None => results[a].attempt \in Attempt
      /\ \A w \in Workflow : pauses[w] # None => pauses[w].fenced \subseteq Attempt
  BY DEF TypeOK, ResultRecord, PauseRecord
<1>6. IdentitiesSound(replica)
  <2>1. LeasesFenced(replica)
    BY <1>3, <1>4 DEF StateAccepted, IdentitiesSound, LeasesFenced, Current
  <2>2. ActivitiesBound(replica)
    BY <1>3 DEF StateAccepted, IdentitiesSound, ActivitiesBound, Current
  <2>3. AttemptsKnown(replica)
    BY <1>3, <1>4 DEF StateAccepted, IdentitiesSound, AttemptsKnown, Current
  <2>4. PausesTraced(replica)
    BY <1>3, <1>4, <1>5 DEF StateAccepted, IdentitiesSound, PausesTraced, Current
  <2>5. ResultsTraced(replica)
    BY <1>3, <1>4, <1>5 DEF StateAccepted, IdentitiesSound, ResultsTraced, Current
  <2>6. \A w \in Workflow : replica.workflows[w] # None => Acyclic(replica.nodes[w])
    BY <1>3 DEF StateAccepted, IdentitiesSound, Current
  <2> QED
    BY <2>1, <2>2, <2>3, <2>4, <2>5, <2>6 DEF IdentitiesSound
<1>7. MilestonesOnce(replica)
  <2>1. ASSUME NEW t \in Attempt, H[t] # None, NEW kind
        PROVE  Occurrences(kind, H[t].milestones) <= 1
    <3>1. PICK history : history = H[t].milestones
      OBVIOUS
    <3>2. history \in Seq(Kinds)
      BY <1>1, <2>1, <3>1 DEF Tells, HistoryRecord
    <3>3. PICK n : n = Len(history) /\ n \in Nat /\ DOMAIN history = 1 .. n
      BY <3>2
    <3>4. \A i, j \in 1 .. n : history[i] = history[j] => i = j
      BY <1>1, <1>4, <2>1, <3>1, <3>3 DEF Tells
    <3>5. PICK S : S = {i \in DOMAIN history : history[i] = kind}
      OBVIOUS
    <3>6. CASE S = {}
      <4>1. Cardinality(S) = 0
        BY <3>6, FS_EmptySet
      <4> QED
        BY <3>1, <3>5, <4>1 DEF Occurrences
    <3>7. CASE S # {}
      <4>1. PICK i : i \in S
        BY <3>7
      <4>2. S = {i}
        BY <3>3, <3>4, <3>5, <4>1
      <4>3. Cardinality(S) = 1
        BY <4>2, FS_Singleton
      <4> QED
        BY <3>1, <3>5, <4>3 DEF Occurrences
    <3> QED
      BY <3>6, <3>7
  <2> QED
    BY <1>3, <2>1 DEF MilestonesOnce
<1>8. Unordered(replica) = Current
  <2>1. PICK A : A = [t \in Attempt |->
                        IF replica.attempts[t] = None THEN None
                        ELSE [replica.attempts[t] EXCEPT !.milestones = ToSet(@)]]
    OBVIOUS
  <2>2. A = attempts
    <3>1. ASSUME NEW t \in Attempt PROVE A[t] = attempts[t]
      <4>1. CASE attempts[t] = None
        BY <1>3, <1>4, <2>1, <4>1
      <4>2. CASE attempts[t] # None
        <5>1. PICK r, q : r = H[t] /\ q = attempts[t] /\ r \in HistoryRecord
              /\ q \in AttemptRecord
          BY <1>1, <1>4, <4>2 DEF Tells, TypeOK
        <5>2. /\ r.activity = q.activity /\ r.ordinal = q.ordinal /\ r.runtime = q.runtime
              /\ ToSet(r.milestones) = q.milestones
          BY <1>1, <4>2, <5>1 DEF Tells
        <5>3. PICK kinds : kinds = ToSet(r.milestones)
          OBVIOUS
        <5>4. [r EXCEPT !.milestones = kinds] = q
          BY <5>1, <5>2, <5>3 DEF HistoryRecord, AttemptRecord
        <5>5. A[t] = [r EXCEPT !.milestones = kinds]
          BY <1>3, <1>4, <2>1, <4>2, <5>1, <5>3
        <5> QED
          BY <5>1, <5>4, <5>5
      <4> QED
        BY <4>1, <4>2
    <3> QED
      BY <2>1, <3>1 DEF TypeOK
  <2>3. Unordered(replica) = [replica EXCEPT !.attempts = attempts]
    BY <2>1, <2>2 DEF Unordered
  <2>4. [replica EXCEPT !.attempts = attempts] = Current
    <3>1. replica = [workflows |-> workflows, nodes |-> nodes, sessions |-> sessions,
                     activities |-> activities, attempts |-> H, leases |-> leases,
                     results |-> results, messages |-> messages, controls |-> controls,
                     pauses |-> pauses]
      BY <1>1 DEF StateNow, StateOf
    <3> QED
      BY <3>1 DEF Current
  <2> QED
    BY <2>3, <2>4
<1> QED
  BY <1>2, <1>6, <1>7, <1>8 DEF ReplayAgrees, ValidState

\* A process that replays the journal from nothing knows exactly what the commands
\* did, and neither applyDomainEvent nor validateState ever turns an entry of theirs
\* away (applyEntry, reducer.go).
THEOREM ReplaysAgree == ReplaySpec => []ReplayAgrees
<1>1. ReplaySpec => Spec
  <2>1. ReplayInit => Init
    BY DEF ReplayInit
  <2> QED
    BY <2>1, ReplayExecutes, PTL DEF ReplaySpec, Spec
<1>2. Spec => []ReplayFacts
  BY FoundationHolds, ReportsStaySound, MessagesStaySound, ControlsSound, KnownStayFinite,
     BudgetsStayKept, PTL DEF ReplayFacts
<1>3. ReplayInit => Mirrored
  <2> SUFFICES ASSUME ReplayInit PROVE Mirrored
    OBVIOUS
  <2>1. PICK H : H = [t \in Attempt |-> None]
    OBVIOUS
  <2>2. Tells(H, attempts)
    BY <2>1 DEF Tells, ReplayInit, Init
  <2>3. replica = StateNow(H)
    BY <2>1 DEF ReplayInit, Init, EmptyState, StateNow, StateOf
  <2> QED
    BY <2>2, <2>3 DEF Mirrored
<1>4. ReplayFacts /\ ReplayFacts' /\ Mirrored /\ [ReplayNext]_replayVars => Mirrored'
  BY StepMirrors DEF ReplayFacts
<1>5. ReplayFacts /\ StateAccepted /\ Mirrored => ReplayAgrees
  BY MirroredAgrees DEF ReplayFacts, Foundation
<1> QED
  BY <1>1, <1>2, <1>3, <1>4, <1>5, StatesAreAccepted, PTL DEF ReplaySpec
=============================================================================
