----------------------------- MODULE MCService ------------------------------
(* Instances of Service for TLC: the executions the runs draw from, and the   *)
(* bounds of the runs.                                                        *)
EXTENDS Service, TLC

CONSTANTS w1, w2, s1, s2, a1, a2, a3, k1, k2, p1, r1, r2, t1, t2, t3

OneShot(taskAttempts, launches) ==
  [goal |-> FALSE, sessionMode |-> FALSE, maxTurns |-> 0, wakes |-> FALSE, supervised |-> FALSE,
   maxTaskAttempts |-> taskAttempts, maxLaunches |-> launches]

Goal(taskAttempts, launches) == [OneShot(taskAttempts, launches) EXCEPT !.goal = TRUE]

SessionRun(taskAttempts, launches) ==
  [OneShot(taskAttempts, launches) EXCEPT !.sessionMode = TRUE, !.supervised = TRUE]

Unsupervised(taskAttempts, launches) ==
  [SessionRun(taskAttempts, launches) EXCEPT !.supervised = FALSE]

WakingGoal == [Goal(1, 1) EXCEPT !.maxTurns = 2, !.wakes = TRUE]

EveryMode == {SessionRun(1, 2), OneShot(1, 2), Goal(1, 1)}
Sessions == {SessionRun(1, 2)}
BothCadences == {SessionRun(1, 2), Unsupervised(1, 2)}
SharedLoop == BothCadences \cup {OneShot(1, 1), WakingGoal}

\* w1 comes first.
AsNumbered == [w \in Workflow |-> IF w = w1 THEN 1 ELSE 2]

Plain == [root |-> p1, runtime |-> r1, fallbacks |-> {}]
WithFallback == [Plain EXCEPT !.fallbacks = {r2}]

PlainWorks == {Plain}
EveryWork == {Plain, WithFallback}

-----------------------------------------------------------------------------
(* The bounds of the run Supervision: what a harness prints in each mode, and *)
(* second Activities, fallbacks and goals only in histories without a crash.  *)

Prefixes(lines) == {SubSeq(lines, 1, n) : n \in 0 .. Len(lines)}

OutputsOf(p) ==
  CASE p.sessionMode -> Prefixes(<<"bound">>) \cup Prefixes(<<"garbage">>)
    [] p.goal -> Prefixes(<<"turn", "continue">>)
    [] OTHER -> Prefixes(<<"turn", "completed">>) \cup Prefixes(<<"unavailable">>)

Several == Cardinality({a \in Activity : Known(a)}) > 1

Uncontrolled == pauses = [w \in Workflow |-> None] /\ controls = [c \in Control |-> None]

Bounded ==
  /\ \A t \in Attempt : attempts[t] # None => stdout[t] \in OutputsOf(ProfileOf(t))
  /\ delayed = {} /\ \A i \in walk : ~Waits(i)
  /\ Several => crashes = 0 /\ Uncontrolled
  /\ \A w \in Workflow : workflows[w] # None =>
       /\ workflows[w].goal => crashes = 0 /\ Uncontrolled
       /\ \A n \in Node : nodes[w][n] # None /\ nodes[w][n].work = WithFallback =>
            workflows[w] = OneShot(1, 2) /\ crashes = 0 /\ Uncontrolled
       /\ \A s \in Session : sessions[s] # None =>
            IF workflows[w].goal THEN sessions[s].native # None
            ELSE sessions[s].native # None => \E t \in Attempt : stdout[t] = <<"bound">>

-----------------------------------------------------------------------------
(* The run Progress.  Its constraint cuts steps of people, harnesses and       *)
(* crashes, names (no step compares identities of these kinds except for       *)
(* equality, so a run without symmetry, which liveness rules out, may take     *)
(* them in one order) and some outcomes of fair steps.  It hides behaviours    *)
(* and invents none: where a fair step is enabled and cut, staying there for   *)
(* ever is unfair.                                                             *)

InOrder ==
  /\ sessions[s2] # None => sessions[s1] # None
  /\ activities[a2] # None => activities[a1] # None
  /\ activities[a3] # None => activities[a2] # None
  /\ attempts[t2] # None => attempts[t1] # None
  /\ attempts[t3] # None => attempts[t2] # None
  /\ controls[k2] # None => controls[k1] # None

Undisturbed == crashes = 0 /\ \A t \in Attempt : process[t] # "torn"

Alone == workflows[w2] = None /\ activities[a2] = None

\* A session with or without quiet checks, which a stop or a pause of its first
\* Attempt and a crash disturb.
OneSession ==
  /\ Alone /\ workflows[w1] \in OrNone(BothCadences)
  /\ sessions[s1] # None => sessions[s1].native = None
  /\ controls[k2] = None /\ (controls[k1] # None => controls[k1].attempt = t1)
  /\ pauses[w1] # None => controls[k1] = None /\ attempts[t2] = None
  /\ workflows[w1] = Unsupervised(1, 2) => pauses[w1] = None /\ controls[k1] = None
  /\ \A t \in Attempt :
       /\ process[t] = "torn" => crashes = 1
       /\ process[t] = "success" => crashes = 0 \/ HasExit(t)
       /\ stdout[t] # <<>> => t = t1 /\ pauses[w1] = None

\* One turn, which a stop or a pause may end before its startup deadline does.
OneTurn == Alone /\ workflows[w1] \in OrNone({OneShot(1, 1)}) /\ Undisturbed

\* Only the startup deadline of its worker stops an Attempt.
StoppedByDeadline(t) ==
  \/ HasExit(t)
  \/ \E a \in Activity :
       /\ worker[a].attempt = t
       /\ worker[a].late \/ worker[a].pc \in {"lateFailing", "lateStopping", "lateRefused",
                                            "lateApplying", "draining", "exiting", "settling"}

\* Two Executions, one perhaps a goal with decisions and a wake, one slot; both
\* exist before the first launch, no spawn fails, and only the first launch may
\* come to its startup deadline, before it prints.
TwoExecutions ==
  /\ Undisturbed
  /\ \A w \in Workflow : workflows[w] \in OrNone({OneShot(1, 1), WakingGoal}) /\ pauses[w] = None
  /\ workflows[w1] = None \/ workflows[w1] # workflows[w2]
  /\ attempts[t1] # None => \A w \in Workflow : workflows[w] # None
  /\ \A s \in Session : sessions[s] # None =>
       (sessions[s].native = None <=> workflows[sessions[s].workflow] # WakingGoal)
  /\ \A a \in Activity : Known(a) /\ activities[a].parent # None =>
       results[activities[a].parent].status = "continue"
  /\ controls[k2] = None /\ \A a \in Activity : worker[a].late => worker[a].attempt = t1
  /\ controls[k1] # None =>
       controls[k1].attempt = t1 /\ controls[k1].accepted /\ StoppedByDeadline(t1)
  /\ \A t \in Attempt : process[t] = "killed" => AcceptedControls(t) # {}
  /\ \A t \in Attempt :
       /\ attempts[t] # None /\ HasExit(t) => Spawned(t)
       /\ AcceptedControls(t) # {} => stdout[t] = <<>>
       /\ process[t] = "success" => Len(stdout[t]) \in {0, MaxLines}

\* A delay that nothing waits for is one state more and no behaviour.
UsefulDelays == \A a \in Activity : <<"launch", a>> \in delayed => InQueue(a)

Scheduled ==
  /\ InOrder /\ UsefulDelays
  /\ \A t \in Attempt : attempts[t] # None => stdout[t] \in OutputsOf(ProfileOf(t))
  /\ OneSession \/ OneTurn \/ TwoExecutions

Symmetry == Permutations(Activity) \cup Permutations(Attempt) \cup Permutations(Session)
=============================================================================
