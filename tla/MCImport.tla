------------------------------ MODULE MCImport ------------------------------
(* Two v1 ledgers, two calls and two keys for TLC: what v1 may write into a  *)
(* ledger of two Nodes, and a third that is one too many, one mutation or    *)
(* two in a proposal.                                                        *)
EXTENDS LegacyImport, Functions, TLC

CONSTANTS a, b, c

NodeRecord(state, deps) == [state |-> state, deps |-> deps, agent |-> TRUE, session |-> TRUE]

Nothing == [n \in LegacyNode |-> None]
Only(n, state) == [Nothing EXCEPT ![n] = NodeRecord(state, {})]

EmptyOrCompleted == {Nothing, Only(a, "completed")}

One(actor, m) == [actor |-> actor, mutations |-> <<m>>]
Two(actor, m, k) == [actor |-> actor, mutations |-> <<m, k>>]

Set(n, state) == [op |-> "set_state", node |-> n, state |-> state]
Add(n, record) == [op |-> "add_node", node |-> n, record |-> record]
On(op, n) == [op |-> op, node |-> n]

TypicalProposals ==
  {One("supervisor", Set(a, s)) : s \in {"running", "completed", "waiting", "failed"}}
  \cup {Two("supervisor", Set(n, "running"), Set(n, "completed")) : n \in {a, b}}
  \cup {One(actor, On("reopen_agent", a)) : actor \in {"human", b}}
  \cup {Two("human", On("reopen_agent", a), On("supersede", a)), One("human", On("supersede", a))}
  \cup {One("human", Add(a, NodeRecord("pending", {}))), One("human", Add(a, NodeRecord("completed", {}))),
        One("human", Add(a, [NodeRecord("pending", {}) EXCEPT !.session = FALSE])),
        One(a, On("set_session", a)), One(b, On("set_session", a)),
        One("human", Add(b, NodeRecord("pending", {a}))),
        One("human", Add(c, NodeRecord("pending", {a, b})))}
  \cup {One("human", [op |-> "add_dependency", node |-> a, deps |-> {n}]) : n \in {a, b}}
  \cup {One("human", [op |-> "unimported"]), One("human", [op |-> "malformed"]),
        [actor |-> "human", mutations |-> <<>>]}

Entries == SumFunction([l \in Ledger |-> source[l].length])

\* Either short ledgers, of a Node that was completed and perhaps reopened, and
\* two calls that race, or one long ledger and one call that reads it as it stands.
Short(ledger) ==
  ledger.length = 0 \/ ledger.history \in {Created(Only(a, "completed")),
     Proposed(Created(Only(a, "completed")), One("human", On("reopen_agent", a)))}

RacesOrHistories ==
  \/ Entries <= 3 /\ \A l \in Ledger : Short(source[l])
  \/ /\ Cardinality({l \in Ledger : source[l].length > 0}) = 1
     /\ Cardinality({k \in Caller : calls[k] # None}) + Cardinality(imports) <= 1
     /\ \A l \in Ledger :
          /\ \A k \in Caller : calls[k] # None => calls[k].read[l] \in {Absent, source[l]}
          /\ \A i \in imports : i.digest[l] = source[l].length

Symmetries == Permutations(Ledger) \cup Permutations(Caller) \cup Permutations(Key)
=============================================================================
