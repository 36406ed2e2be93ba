---------------------------- MODULE LegacyImport ----------------------------
(***************************************************************************)
(* Store.ImportV1 (internal/supervisor/import_v1.go) and the replay of v1  *)
(* Workflow ledgers it rests on (internal/legacyimport): calls that read   *)
(* the ledgers one after the other and append one legacy.imported entry,   *)
(* while v1 may still be writing its ledgers, and calls die and are        *)
(* repeated under the same or another key.                                 *)
(*                                                                         *)
(* A v1 ledger only grows, so its length stands for its bytes, and history *)
(* is what parseLegacyWorkflow makes of them.  Of a v1 Node only what      *)
(* decides about Activities is kept; evidence, attestations, runtimes,     *)
(* pauses and refunds are mutations "unimported", malformed ones are       *)
(* "malformed".                                                            *)
(*                                                                         *)
(* A definition introduced as a "Mutant" belongs to no action: it is the   *)
(* definition after it with one plausible bug, to show which property      *)
(* catches that bug.                                                       *)
(***************************************************************************)
EXTENDS Naturals, Sequences, FiniteSets

CONSTANTS Ledger,       \* workflows/*/events.jsonl under the source root
          LegacyNode,   \* identities of v1 Nodes
          Caller,       \* calls of ImportV1 that may run at once
          Key,          \* idempotency keys
          Creations,    \* what a workflow.created entry may hold: LegacyNodes or None
          Proposals,    \* what a proposal.applied entry may hold
          None,
          MaxNodes,     \* the v1 budget's node limit
          MaxEntries    \* bound: entries of one ledger

VARIABLES source,       \* the v1 ledgers, and what v1 knows of their Nodes
          calls,        \* where each call of ImportV1 is
          imports,      \* the legacy.imported entries of the v2 journal
          receipts      \* the receipts ImportV1 returned so far

vars == <<source, calls, imports, receipts>>

NodeState ==
  {"pending", "ready", "running", "waiting", "completed", "failed", "superseded"}
Node == [state : NodeState, deps : SUBSET LegacyNode, agent : BOOLEAN, session : BOOLEAN]
LegacyNodes == [LegacyNode -> Node \cup {None}]

ASSUME NoneAssumption == None \notin Node
ASSUME EntriesAssumption == MaxEntries \in Nat

Known(nodes) == {n \in LegacyNode : nodes[n] # None}

-----------------------------------------------------------------------------
(* A v1 proposal: validated as a whole, then applied. *)

Mutation ==
  [op : {"add_node"}, node : LegacyNode, record : Node]
  \cup [op : {"add_dependency"}, node : LegacyNode, deps : SUBSET LegacyNode]
  \cup [op : {"set_state"}, node : LegacyNode, state : NodeState]
  \cup [op : {"set_session", "reopen_agent", "supersede"}, node : LegacyNode]
  \cup [op : {"unimported", "malformed"}]

ASSUME ProposalsAssumption == \A proposal \in Proposals : proposal.mutations \in Seq(Mutation)

ValidTransition(from, to) ==
  \/ from = to
  \/ from = "pending" /\ to \in {"ready", "running", "waiting", "failed"}
  \/ from = "ready"   /\ to \in {"running", "waiting", "failed"}
  \/ from = "running" /\ to \in {"completed", "waiting", "failed", "ready"}
  \/ from = "waiting" /\ to \in {"ready", "running", "failed"}
  \/ from = "failed"  /\ to = "ready"

Operator == {"human", "supervisor"}

ValidMutation(nodes, actor, m) ==
  CASE m.op = "unimported" -> TRUE
    [] m.op = "malformed" -> FALSE
    [] m.op = "add_node" -> nodes[m.node] = None /\ m.record.deps \subseteq Known(nodes)
    [] OTHER ->
         /\ nodes[m.node] # None
         /\ CASE m.op = "add_dependency" -> m.deps \subseteq Known(nodes)
              [] m.op = "set_state" -> ValidTransition(nodes[m.node].state, m.state)
              [] m.op = "set_session" -> actor \in {"supervisor", m.node}
              [] m.op = "reopen_agent" ->
                   /\ actor \in Operator
                   /\ nodes[m.node].agent /\ nodes[m.node].session
                   /\ nodes[m.node].state \in {"completed", "waiting", "failed"}
              [] m.op = "supersede" -> TRUE

ApplyMutation(nodes, m) ==
  CASE m.op = "add_node" -> [nodes EXCEPT ![m.node] = m.record]
    [] m.op = "add_dependency" -> [nodes EXCEPT ![m.node].deps = @ \cup m.deps]
    [] m.op = "set_state" -> [nodes EXCEPT ![m.node].state = m.state]
    [] m.op = "set_session" -> [nodes EXCEPT ![m.node].session = TRUE]
    [] m.op = "reopen_agent" -> [nodes EXCEPT ![m.node].state = "ready"]
    [] m.op = "supersede" -> [nodes EXCEPT ![m.node].state = "superseded"]
    [] m.op = "unimported" -> nodes

\* findCycle and validateDAG: every set of Nodes has one that depends on none of
\* them, so following dependencies comes to an end.
Acyclic(nodes) ==
  \A N \in SUBSET Known(nodes) : N # {} => \E n \in N : nodes[n].deps \cap N = {}

\* Mutant: cycles are not looked for.
WithinBudget(nodes) == Cardinality(Known(nodes)) <= MaxNodes

\* Mutant: the Nodes are not counted.
Ordered(nodes) == Acyclic(nodes)

WithinPolicy(nodes) == Cardinality(Known(nodes)) <= MaxNodes /\ Acyclic(nodes)

\* Version 1, which is not in the repository any more, is taken to have created
\* Workflows of the kind its proposals can leave.
ASSUME CreationsAssumption ==
  \A nodes \in Creations :
    /\ nodes \in LegacyNodes /\ WithinPolicy(nodes)
    /\ \A n \in Known(nodes) : nodes[n].deps \subseteq Known(nodes)

\* recompute: a pending Node whose dependencies are over becomes ready.
Recomputed(nodes) ==
  [n \in LegacyNode |->
     IF /\ n \in Known(nodes) /\ nodes[n].state = "pending"
        /\ \A d \in nodes[n].deps :
             d \in Known(nodes) /\ nodes[d].state \in {"completed", "superseded"}
     THEN [nodes[n] EXCEPT !.state = "ready"]
     ELSE nodes[n]]

\* The Nodes after each mutation of a proposal; None from an invalid one on.
After(nodes, proposal) ==
  LET after[i \in 0 .. Len(proposal.mutations)] ==
        IF i = 0 THEN nodes
        ELSE LET old == after[i - 1]
                 m == proposal.mutations[i]
             IN  IF old = None \/ ~ValidMutation(old, proposal.actor, m) THEN None
                 ELSE ApplyMutation(old, m)
  IN  after

\* ApplyProposal: the Nodes after the proposal, or None when it is refused.
ApplyProposal(nodes, proposal) ==
  LET mutated == After(nodes, proposal)[Len(proposal.mutations)]
  IN  IF proposal.mutations = <<>> \/ mutated = None \/ ~WithinPolicy(mutated) THEN None
      ELSE Recomputed(mutated)

-----------------------------------------------------------------------------
(* parseLegacyWorkflow, entry by entry: the Nodes as they end, and how often  *)
(* the ledger completed and reopened each.  None: the ledger is refused.      *)

Created(nodes) ==
  [nodes |-> nodes,
   completions |-> [n \in LegacyNode |->
                      IF n \in Known(nodes) /\ nodes[n].state = "completed" THEN 1 ELSE 0],
   reopened |-> [n \in LegacyNode |-> 0]]

Completes(m) == m.op = "set_state" /\ m.state = "completed"
Reopens(m) == m.op = "reopen_agent"

CompletionsIn(proposal, n) ==
  Cardinality({i \in DOMAIN proposal.mutations :
     Completes(proposal.mutations[i]) /\ proposal.mutations[i].node = n})

ReopeningsIn(proposal, n) ==
  Cardinality({i \in DOMAIN proposal.mutations :
     Reopens(proposal.mutations[i]) /\ proposal.mutations[i].node = n})

Proposed(history, proposal) ==
  LET nodes == IF history = None THEN None ELSE ApplyProposal(history.nodes, proposal)
  IN  IF nodes = None THEN None
      ELSE [nodes |-> nodes,
            completions |->
              [n \in LegacyNode |-> history.completions[n] + CompletionsIn(proposal, n)],
            reopened |->
              [n \in LegacyNode |-> history.reopened[n] + ReopeningsIn(proposal, n)]]

-----------------------------------------------------------------------------
(* decide: what an import makes of one ledger. *)

Unresolved(history, n) == history.nodes[n].state # "completed"

\* How many completed generations a Node is given.
Generations(history, n) ==
  IF history.completions[n] = 0 /\ ~Unresolved(history, n) THEN 1 ELSE history.completions[n]

\* Mutant: a continuation takes one reopening more than there are completions.
ReopenedAgain(history, n) ==
  history.reopened[n] > Generations(history, n) /\ Unresolved(history, n)

\* The Node was reopened and is not completed: it is given a continuation.
Reopened(history, n) ==
  /\ history.reopened[n] >= Generations(history, n) /\ history.reopened[n] > 0
  /\ Unresolved(history, n)

\* The Activities of a Node: one with a completed Attempt and Result for each
\* generation, each the parent of the next, and the continuation without any.
ImportedActivities(history, n) ==
  LET done == Generations(history, n)
      last == done + (IF Reopened(history, n) THEN 1 ELSE 0)
  IN  {[generation |-> g, parent |-> g - 1, result |-> g <= done] : g \in 1 .. last}

\* A Workflow of v2: every Node with an unresolved Session, nobody's authority,
\* and the imported Activities.
ImportedWorkflow(history) ==
  [n \in Known(history.nodes) |->
     [deps |-> history.nodes[n].deps, activities |-> ImportedActivities(history, n)]]

-----------------------------------------------------------------------------
(* v1 writes its ledgers.  truth is what happened to each Node, transition by *)
(* transition: how often it became completed, whether it was ever reopened,   *)
(* whether it was since it last completed, and whether its history is         *)
(* regular: never set to completed while it was, never added as completed by  *)
(* a proposal, never superseded once reopened.                                *)

Untouched == [results |-> 0, reopened |-> FALSE, open |-> FALSE, regular |-> TRUE]

\* What m, applied to nodes, does to Node n.
Witnessed(truth, nodes, m, n) ==
  CASE m.op = "add_node" /\ m.node = n ->
         [truth EXCEPT !.regular = @ /\ m.record.state # "completed"]
    [] m.op = "reopen_agent" /\ m.node = n -> [truth EXCEPT !.reopened = TRUE, !.open = TRUE]
    [] m.op = "supersede" /\ m.node = n -> [truth EXCEPT !.regular = @ /\ ~truth.reopened]
    [] Completes(m) /\ m.node = n /\ nodes[n].state = "completed" ->
         [truth EXCEPT !.regular = FALSE]
    [] Completes(m) /\ m.node = n /\ nodes[n].state # "completed" ->
         [truth EXCEPT !.results = @ + 1, !.open = FALSE]
    [] OTHER -> truth

\* The truth about Node n after each mutation of a proposal.
Seen(truth, nodes, proposal, n) ==
  LET seen[i \in 0 .. Len(proposal.mutations)] ==
        IF i = 0 THEN truth
        ELSE Witnessed(seen[i - 1], After(nodes, proposal)[i - 1], proposal.mutations[i], n)
  IN  seen

WitnessedAll(ledger, proposal) ==
  [n \in LegacyNode |->
     Seen(ledger.truth[n], ledger.history.nodes, proposal, n)[Len(proposal.mutations)]]

Absent == [length |-> 0, history |-> None, truth |-> [n \in LegacyNode |-> Untouched]]

Init ==
  /\ source = [l \in Ledger |-> Absent]
  /\ calls = [c \in Caller |-> None]
  /\ imports = {}
  /\ receipts = {}

Create(l, nodes) ==
  /\ source[l].length = 0 /\ MaxEntries > 0
  /\ source' = [source EXCEPT ![l] =
       [length |-> 1, history |-> Created(nodes),
        truth |-> [n \in LegacyNode |-> [Untouched EXCEPT !.results = Created(nodes).completions[n]]]]]
  /\ UNCHANGED <<calls, imports, receipts>>

\* The entry may be one the replay refuses.
Propose(l, proposal) ==
  /\ source[l].length > 0 /\ source[l].length < MaxEntries
  /\ LET history == Proposed(source[l].history, proposal)
     IN  source' = [source EXCEPT ![l] =
           [length |-> @.length + 1, history |-> history,
            truth |-> IF history = None THEN Absent.truth ELSE WitnessedAll(@, proposal)]]
  /\ UNCHANGED <<calls, imports, receipts>>

-----------------------------------------------------------------------------
(* ImportV1, step by step. *)

\* Glob finds the ledgers there are.
Call(c, key) ==
  /\ calls[c] = None
  /\ \E l \in Ledger : source[l].length > 0
  /\ calls' = [calls EXCEPT ![c] =
       [at |-> "reading", key |-> key, paths |-> {l \in Ledger : source[l].length > 0},
        read |-> [l \in Ledger |-> Absent]]]
  /\ UNCHANGED <<source, imports, receipts>>

\* os.ReadFile of one ledger.
Read(c, l) ==
  /\ calls[c] # None /\ calls[c].at = "reading"
  /\ l \in calls[c].paths
  /\ calls' = [calls EXCEPT ![c].paths = @ \ {l}, ![c].read[l] = source[l]]
  /\ UNCHANGED <<source, imports, receipts>>

\* The digest of what was read: which ledgers, and how much of each.
Digest(c) == [l \in Ledger |-> calls[c].read[l].length]

ReadLedgers(c) == {l \in Ledger : calls[c].read[l].length > 0}

\* Mutant: the digest is looked for under the call's own key.
ImportedUnderKey(c) ==
  \E i \in imports : i.digest = Digest(c) /\ i.key = calls[c].key

AlreadyImported(c) == \E i \in imports : i.digest = Digest(c)

Prior(c) == {i \in imports : i.key = calls[c].key}

\* validateState on the Workflows the import would add.
Accepted(workflow) ==
  \A N \in SUBSET DOMAIN workflow : N # {} =>
    \E n \in N : workflow[n].deps \subseteq DOMAIN workflow /\ workflow[n].deps \cap N = {}

\* Every ledger read parses and has Nodes: one entry, appended by Execute.
Import(c) ==
  /\ calls[c] # None /\ calls[c].at = "reading" /\ calls[c].paths = {}
  /\ Prior(c) = {} /\ ~AlreadyImported(c)
  /\ \A l \in ReadLedgers(c) :
       /\ calls[c].read[l].history # None
       /\ Known(calls[c].read[l].history.nodes) # {}
       /\ Accepted(ImportedWorkflow(calls[c].read[l].history))
  /\ imports' = imports \cup
       {[digest |-> Digest(c), key |-> calls[c].key,
         workflows |-> [l \in ReadLedgers(c) |-> ImportedWorkflow(calls[c].read[l].history)]]}
  /\ calls' = [calls EXCEPT ![c].at = "imported"]
  /\ UNCHANGED <<source, receipts>>

Return(c, existing) ==
  /\ receipts' = receipts \cup
       {[key |-> calls[c].key, digest |-> Digest(c), existing |-> existing]}
  /\ calls' = [calls EXCEPT ![c] = None]
  /\ UNCHANGED <<source, imports>>

AnswerNew(c) ==
  /\ calls[c] # None /\ calls[c].at = "imported"
  /\ Return(c, FALSE)

\* The key already names an import of the same digest.
AnswerExisting(c) ==
  /\ calls[c] # None /\ calls[c].at = "reading" /\ calls[c].paths = {}
  /\ \A l \in ReadLedgers(c) : calls[c].read[l].history # None
  /\ \E i \in Prior(c) : i.digest = Digest(c)
  /\ Return(c, TRUE)

\* The call fails (a ledger does not parse, the key names another source, the
\* source is imported, a directory is gone, ...), or its process dies.
GiveUp(c) ==
  /\ calls[c] # None
  /\ calls' = [calls EXCEPT ![c] = None]
  /\ UNCHANGED <<source, imports, receipts>>

Next ==
  \/ \E l \in Ledger :
       \/ \E nodes \in Creations : Create(l, nodes)
       \/ \E proposal \in Proposals : Propose(l, proposal)
  \/ \E c \in Caller :
       \/ \E key \in Key : Call(c, key)
       \/ \E l \in Ledger : Read(c, l)
       \/ Import(c)
       \/ AnswerNew(c)
       \/ AnswerExisting(c)
       \/ GiveUp(c)

Spec == Init /\ [][Next]_vars

-----------------------------------------------------------------------------
(* Properties. *)

History == [nodes : LegacyNodes, completions : [LegacyNode -> Nat], reopened : [LegacyNode -> Nat]]

TypeOK ==
  /\ \A l \in Ledger :
       /\ source[l].length \in 0 .. MaxEntries
       /\ source[l].history # None =>
            source[l].history \in History /\ Cardinality(Known(source[l].history.nodes)) <= MaxNodes
  /\ \A c \in Caller : calls[c] # None =>
       /\ calls[c].at \in {"reading", "imported"} /\ calls[c].key \in Key
       /\ calls[c].paths \subseteq Ledger
  /\ \A i \in imports : i.key \in Key /\ DOMAIN i.workflows \subseteq Ledger
  /\ \A r \in receipts : r.key \in Key /\ r.existing \in BOOLEAN

(* However calls race, die after their append or are repeated, one source is
   imported once and one key imports one source, and every receipt names the
   import made of what its call had read (import_v1.go, decide's digest test and
   the receipt of Execute; ADR 0003 "Attempting to import the same source under a
   different key is rejected"). *)
SourceImportedOnce ==
  /\ \A i, j \in imports : i.digest = j.digest \/ i.key = j.key => i = j
  /\ \A r \in receipts : \E i \in imports : i.key = r.key /\ i.digest = r.digest

(* As long as a ledger has not grown past what an import's digest covers, the
   import says of each Node with a regular history what happened to it: as many
   completed generations as it had completions, and one more Activity, without a
   Result, exactly when it was reopened since (import_v1.go, decide; v1 may write
   while the ledgers are read one after the other). *)
ImportTellsHistory ==
  \A i \in imports : \A l \in DOMAIN i.workflows :
    (i.digest[l] = source[l].length /\ source[l].history # None) =>
      /\ DOMAIN i.workflows[l] = Known(source[l].history.nodes)
      /\ \A n \in DOMAIN i.workflows[l] :
           LET truth == source[l].truth[n]
               imported == i.workflows[l][n].activities
           IN  truth.regular =>
                 /\ {a.generation : a \in {b \in imported : b.result}} = 1 .. truth.results
                 /\ {a.generation : a \in {b \in imported : ~b.result}} =
                      IF truth.open THEN {truth.results + 1} ELSE {}

(* A ledger that replays is not refused by the checks of v2: its dependencies
   exist and have no cycle, whatever proposals followed one another (legacyimport/
   reducer.go, findCycle; supervisor/reducer.go, validateDAG). *)
ReplayedIsAccepted ==
  \A l \in Ledger : source[l].history # None => Accepted(ImportedWorkflow(source[l].history))
=============================================================================
