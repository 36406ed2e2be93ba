---------------------------- MODULE MCSupervisor ----------------------------
(* Instances of Supervisor for TLC: the Workflow settings and WorkSpecs the   *)
(* runs draw from, and the bounds of the runs.                                *)
EXTENDS Projection, Reducer, TLC

CONSTANTS n1, n2, p1, p2, r1, r2, s1, s2, a1, a2, a3, t1, t2, t3

OneShot(taskAttempts, launches) ==
  [goal |-> FALSE, sessionMode |-> FALSE, maxTurns |-> 0, wakes |-> FALSE, supervised |-> FALSE,
   maxTaskAttempts |-> taskAttempts, maxLaunches |-> launches]

Goal(turns, wakes, taskAttempts, launches) ==
  [goal |-> TRUE, sessionMode |-> FALSE, maxTurns |-> turns, wakes |-> wakes, supervised |-> FALSE,
   maxTaskAttempts |-> taskAttempts, maxLaunches |-> launches]

SessionMode(taskAttempts, launches) ==
  [goal |-> FALSE, sessionMode |-> TRUE, maxTurns |-> 0, wakes |-> FALSE, supervised |-> TRUE,
   maxTaskAttempts |-> taskAttempts, maxLaunches |-> launches]

Plain(root) == [root |-> root, runtime |-> r1, fallbacks |-> {}]
WithFallback(root) == [root |-> root, runtime |-> r1, fallbacks |-> {r2}]

UnboundedGoal == {Goal(0, FALSE, 1, 1)}
OneShotProfiles == {OneShot(1, 2)}
OneShotOrGoal == OneShotProfiles \cup {Goal(2, TRUE, 1, 1)}
EveryProfile == {Goal(2, TRUE, 1, 2), Goal(0, FALSE, 2, 2), OneShot(1, 2), SessionMode(1, 1)}
PlainWorks == {Plain(p1)}
TwoWorktrees == {WithFallback(p1), WithFallback(p2)}
PlainOrFallback == {Plain(p1), WithFallback(p1)}

-----------------------------------------------------------------------------

\* No command compares identities except for equality, so a run may take each
\* kind of identity in one order: symmetry without comparing permutations.
InOrder(Used(_), kind, identities) ==
  \A i \in 1 .. Len(identities) - 1 :
    identities[i + 1] \in kind /\ Used(identities[i + 1]) => Used(identities[i])

OldestFirst ==
  /\ InOrder(LAMBDA n : \E w \in Workflow : nodes[w][n] # None, Node, <<n1, n2>>)
  /\ InOrder(LAMBDA s : sessions[s] # None, Session, <<s1, s2>>)
  /\ InOrder(LAMBDA a : activities[a] # None, Activity, <<a1, a2, a3>>)
  /\ InOrder(LAMBDA t : attempts[t] # None, Attempt, <<t1, t2, t3>>)

\* Two kinds of history, told apart by the work of their Nodes: turns on the one
\* Session of one Node, or two Nodes with fallbacks, one-shot, with at most two
\* launches and one native identity.
AllForked ==
  \A w \in Workflow, n \in Node : nodes[w][n] # None => nodes[w][n].work.fallbacks # {}

NoneForked ==
  \A w \in Workflow, n \in Node : nodes[w][n] # None => nodes[w][n].work.fallbacks = {}

TurnsOrLineage ==
  /\ OldestFirst
  /\ \/ /\ NoneForked
        /\ \A w \in Workflow : workflows[w] \notin OneShotProfiles /\ nodes[w][n2] = None
     \/ /\ AllForked
        /\ \A w \in Workflow : workflows[w] \in OrNone(OneShotProfiles)
        /\ attempts[t3] = None
        /\ \A w \in Workflow :
             /\ pauses[w] = None
             /\ nodes[w][n2] # None => nodes[w][n2].deps = {n1}
        /\ \A s, u \in Session : sessions[s] # None /\ sessions[u] # None =>
             sessions[s].native = sessions[u].native
               \/ None \in {sessions[s].native, sessions[u].native}

\* Two Nodes without a dependency, of one Workflow or of two, and at most two
\* requests, which then name one Attempt.
TwoNodes ==
  /\ Cardinality({<<w, n>> \in Workflow \X Node : nodes[w][n] # None}) <= 2
  /\ \A w \in Workflow, n \in Node : nodes[w][n] # None => nodes[w][n].deps = {}
  /\ \A k, l \in Request : controls[k] # None /\ controls[l] # None =>
       controls[k].attempt = controls[l].attempt

\* Two histories again: contention between two one-shot Nodes that stay on their
\* first runtime and learn no native identity, or one Node, neither stopped nor
\* paused, whose turns a goal continues or whose harness falls back.
ContentionOrTurns ==
  \/ /\ TwoNodes
     /\ \A w \in Workflow : workflows[w] \in OrNone(OneShotProfiles)
     /\ \A s \in Session : sessions[s] # None => sessions[s].native = None /\ sessions[s].parent = None
     /\ \A t \in Attempt : attempts[t] # None => attempts[t].runtime = r1
  \/ /\ Cardinality({w \in Workflow : workflows[w] # None}) <= 1
     /\ Cardinality({<<w, n>> \in Workflow \X Node : nodes[w][n] # None}) <= 1
     /\ \A w \in Workflow : pauses[w] = None
     /\ \A k \in Request : controls[k] = None

Symmetry == Permutations(Activity) \cup Permutations(Attempt) \cup Permutations(Session)
TurnSymmetry == Permutations(NativeId)
ContentionSymmetry ==
  Symmetry \cup Permutations(Request) \cup Permutations(Workflow) \cup Permutations(Worktree) \cup Permutations(Node)
=============================================================================
