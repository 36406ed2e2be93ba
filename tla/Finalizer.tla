----------------------------- MODULE Finalizer ------------------------------
(***************************************************************************)
(* Publication: Store.Finalize merges a pull request through the GitHub    *)
(* command line.  It records the decision and the head it was made for     *)
(* (PrepareFinalization), looks at the pull request again, merges, and     *)
(* records the outcome (SettleFinalization).  Every caller is a process of *)
(* its own (`handoff github merge`) that may fail or die between any two   *)
(* of these steps and be started again, so several calls of one            *)
(* idempotency key interleave, and a merge request outlives its caller.    *)
(*                                                                         *)
(* One Execution with an enabled finalizer.  The merge method is compared  *)
(* and passed on exactly like the pull request and is left out.  GitHub    *)
(* (pulls, passing) is modelled from the commands src/ sends it: a merge   *)
(* names the head it expects.                                              *)
(*                                                                         *)
(* A definition introduced as a "Mutant" belongs to no action: it is the   *)
(* definition after it with one plausible bug, to show which property      *)
(* notices.                                                                *)
(***************************************************************************)
EXTENDS FiniteSets

CONSTANTS
  Caller, Key, PullRequest, Commit,
  Check,            \* names of GitHub checks
  RequiredChecks,   \* Workflow.Finalizer.RequiredChecks
  RequireHuman,     \* Workflow.Finalizer.RequireHuman
  Somebody,         \* whoever else merges a pull request
  None

\* StartExecution refuses an enabled finalizer without named checks.
ASSUME FinalizerAssumption ==
  /\ RequiredChecks \subseteq Check /\ RequiredChecks # {}
  /\ RequireHuman \in BOOLEAN

Outcome == {"merged", "blocked"}

\* What a settlement's digest tells apart; the check or head its summary names
\* is left out.
Settlement ==
  [state: Outcome,
   summary: {"found merged", "merged at head", "head changed", "not verified"}]

\* gates: the checks the caller names, RequiredChecks if it names none.
Request == [pull: PullRequest, approved: BOOLEAN, gates: SUBSET Check]

Finalization ==
  [pull: PullRequest, approved: BOOLEAN, gates: SUBSET Check, head: Commit,
   state: Outcome \cup {"prepared"}]

\* One call of Finalize, by the step it takes next.
Call ==
  [at: {"idle"}]
    \cup [at: {"inspect"}, key: Key, request: Request]
    \cup [at: {"prepare"}, key: Key, request: Request, head: Commit]
    \cup [at: {"read", "check", "merge"}, key: Key]
    \cup [at: {"settle"}, key: Key, settlement: Settlement]

\* A merge request on its way to GitHub; caller is None when the process that
\* sent it is gone.
MergeRequest ==
  [key: Key, pull: PullRequest, head: Commit, caller: Caller \cup {None}]

ASSUME NoneAssumption ==
  /\ None \notin Key \cup Caller \cup {Somebody} /\ Somebody \notin Key
  /\ None \notin Finalization /\ None \notin Settlement

VARIABLES
  ready,          \* every current Node has a Result (ProjectPublication)
  finalizations,  \* the journal's Finalizations; each is its own receipt
  settlements,    \* the receipts of SettleFinalization, one key per Finalization
  calls,
  requests,       \* MergeRequests not answered yet
  pulls,          \* GitHub: head of each pull request, and who merged it
  passing,        \* GitHub: the checks that have succeeded on a commit
  verified,       \* history: commits on which all required checks once passed
  answers         \* history: the outcomes Finalize has reported for a key

journal == <<finalizations, settlements>>
github == <<pulls, passing, verified>>
vars == <<ready, journal, calls, requests, github, answers>>

Idle == [at |-> "idle"]

Init ==
  /\ ready \in BOOLEAN
  /\ finalizations = [k \in Key |-> None]
  /\ settlements = [k \in Key |-> None]
  /\ calls = [c \in Caller |-> Idle]
  /\ requests = {}
  /\ pulls \in [PullRequest -> [head: Commit, by: {None}]]
  /\ passing = [h \in Commit |-> {}]
  /\ verified = {}
  /\ answers = [k \in Key |-> {}]

Merged(p) == pulls[p].by # None

-----------------------------------------------------------------------------
(* Store.Finalize. *)

Goes(c, call) == calls' = [calls EXCEPT ![c] = call]

SameRequest(k, r) ==
  [pull |-> finalizations[k].pull, approved |-> finalizations[k].approved,
   gates |-> finalizations[k].gates] = r

\* Mutant: a record that is only prepared is reported as an outcome.
Recorded(k) == TRUE

Terminal(k) == finalizations[k].state # "prepared"

\* Continue from the record of k as just read: a terminal one is the answer.
Resume(c, k) ==
  IF Terminal(k)
  THEN Goes(c, Idle) /\ answers' = [answers EXCEPT ![k] = @ \cup {finalizations[k].state}]
  ELSE Goes(c, [at |-> "check", key |-> k]) /\ UNCHANGED answers

\* Mutant: a caller may choose fewer checks than the Workflow requires.
WeakerChecks(gates) == gates \subseteq RequiredChecks

ExactChecks(gates) == gates = RequiredChecks

\* Finalize reads the projection.  A request that diverges from the record of
\* its key is refused and changes nothing.
Finalize(c, k, r) ==
  /\ calls[c] = Idle
  /\ RequireHuman => r.approved
  /\ ExactChecks(r.gates)
  /\ \/ /\ finalizations[k] = None
        /\ Goes(c, [at |-> "inspect", key |-> k, request |-> r])
        /\ UNCHANGED answers
     \/ finalizations[k] # None /\ SameRequest(k, r) /\ Resume(c, k)
  /\ UNCHANGED <<ready, journal, requests, github>>

\* The first look at the pull request: its head is the one to publish.
InspectHead(c) ==
  /\ calls[c].at = "inspect"
  /\ Goes(c, [at |-> "prepare", key |-> calls[c].key, request |-> calls[c].request,
              head |-> pulls[calls[c].request.pull].head])
  /\ UNCHANGED <<ready, journal, requests, github, answers>>

\* A key that has a record returns it if the input is the same, the head too,
\* and is refused (Abandon) if it differs.
PrepareFinalization(c) ==
  LET k == calls[c].key
      r == calls[c].request
      f == [pull |-> r.pull, approved |-> r.approved, gates |-> r.gates,
            head |-> calls[c].head, state |-> "prepared"]
  IN  /\ calls[c].at = "prepare"
      /\ \/ /\ finalizations[k] = None /\ ready
            /\ finalizations' = [finalizations EXCEPT ![k] = f]
         \/ /\ finalizations[k] # None /\ [finalizations[k] EXCEPT !.state = "prepared"] = f
            /\ UNCHANGED finalizations
      /\ Goes(c, [at |-> "read", key |-> k])
      /\ UNCHANGED <<ready, settlements, requests, github, answers>>

\* PrepareFinalization returns what the projection holds by then.
ReadPrepared(c) ==
  /\ calls[c].at = "read"
  /\ Resume(c, calls[c].key)
  /\ UNCHANGED <<ready, journal, requests, github>>

Verify(f, mergeable) == f.gates \subseteq passing[pulls[f.pull].head] /\ mergeable

\* The second look.  What it shows is settled, or, on the prepared head with
\* its checks passed, the merge is requested.  The observation is one answer of
\* GitHub; whether it calls the pull request mergeable is its own matter.
Inspect(c, mergeable) ==
  LET k == calls[c].key
      f == finalizations[k]
      settle(state, why) ==
        /\ Goes(c, [at |-> "settle", key |-> k,
                    settlement |-> [state |-> state, summary |-> why]])
        /\ UNCHANGED requests
  IN  /\ calls[c].at = "check"
      /\ \/ Merged(f.pull) /\ settle("merged", "found merged")
         \/ /\ ~Merged(f.pull) /\ pulls[f.pull].head # f.head
            /\ settle("blocked", "head changed")
         \/ /\ ~Merged(f.pull) /\ pulls[f.pull].head = f.head
            /\ ~Verify(f, mergeable)
            /\ settle("blocked", "not verified")
         \/ /\ ~Merged(f.pull) /\ pulls[f.pull].head = f.head
            /\ Verify(f, mergeable)
            /\ Goes(c, [at |-> "merge", key |-> k])
            /\ requests' = requests \cup
                 {[key |-> k, pull |-> f.pull, head |-> f.head, caller |-> c]}
      /\ UNCHANGED <<ready, journal, github, answers>>

\* A key is settled once: the receipt and the prepared state both say so.
FirstSettlement(k, s) == settlements[k] = None /\ ~Terminal(k)

\* Mutant: a conflict is not noticed, and the caller reports what it wanted.
AnyReceipt(k, s) == settlements[k] # None

SameSettlement(k, s) == settlements[k] = s

\* SettleFinalization and the answer.  A settlement that differs from the
\* recorded one is an idempotency conflict (Abandon).
Settle(c) ==
  LET k == calls[c].key
      s == calls[c].settlement
  IN  /\ calls[c].at = "settle"
      /\ \/ /\ FirstSettlement(k, s)
            /\ settlements' = [settlements EXCEPT ![k] = s]
            /\ finalizations' = [finalizations EXCEPT ![k].state = s.state]
         \/ SameSettlement(k, s) /\ UNCHANGED journal
      /\ Goes(c, Idle)
      /\ answers' = [answers EXCEPT ![k] = @ \cup {s.state}]
      /\ UNCHANGED <<ready, requests, github>>

\* The call returns an error, or its process dies, before its next step: a
\* refused request, a failed command, a lost answer, a conflict, a crash.  What
\* it has sent to GitHub stays on its way.
Abandon(c) ==
  /\ calls[c] # Idle
  /\ Goes(c, Idle)
  /\ requests' = {[q EXCEPT !.caller = IF @ = c THEN None ELSE @] : q \in requests}
  /\ UNCHANGED <<ready, journal, github, answers>>

-----------------------------------------------------------------------------
(* GitHub, and the work that goes on meanwhile. *)

\* Mutant: the head is not sent along (--match-head-commit).
AnyHead(q) == TRUE

AtHead(q) == pulls[q.pull].head = q.head

\* Mutant: the error of the merge command is dropped.
Ran(applied) == TRUE

Succeeded(applied) == applied

\* The waiting caller learns whether its merge succeeded; an error leaves the
\* record prepared.
Answer(q, applied) ==
  IF q.caller = None THEN UNCHANGED calls
  ELSE Goes(q.caller, IF Succeeded(applied)
                      THEN [at |-> "settle", key |-> q.key,
                            settlement |-> [state |-> "merged", summary |-> "merged at head"]]
                      ELSE Idle)

\* GitHub carries out a merge request, or refuses it: always when the pull
\* request is merged or its head is another, and whenever it likes.
MergeAtHead(q) ==
  /\ \/ /\ ~Merged(q.pull) /\ AtHead(q)
        /\ pulls' = [pulls EXCEPT ![q.pull].by = q.key]
        /\ Answer(q, TRUE)
     \/ UNCHANGED pulls /\ Answer(q, FALSE)
  /\ requests' = requests \ {q}
  /\ UNCHANGED <<ready, journal, passing, verified, answers>>

Push(p, h) ==
  /\ ~Merged(p) /\ pulls[p].head # h
  /\ pulls' = [pulls EXCEPT ![p].head = h]
  /\ UNCHANGED <<ready, journal, calls, requests, passing, verified, answers>>

MergeElsewhere(p) ==
  /\ ~Merged(p)
  /\ pulls' = [pulls EXCEPT ![p].by = Somebody]
  /\ UNCHANGED <<ready, journal, calls, requests, passing, verified, answers>>

\* A check succeeds, or is run again on the same commit.
Report(h, g) ==
  LET now == IF g \in passing[h] THEN passing[h] \ {g} ELSE passing[h] \cup {g}
  IN  /\ passing' = [passing EXCEPT ![h] = now]
      /\ verified' = IF RequiredChecks \subseteq now THEN verified \cup {h} ELSE verified
      /\ UNCHANGED <<ready, journal, calls, requests, pulls, answers>>

\* The Execution's Nodes report, and new Nodes are added.
Work ==
  /\ ready' = ~ready
  /\ UNCHANGED <<journal, calls, requests, github, answers>>

Next ==
  \/ \E c \in Caller :
       \/ \E k \in Key, r \in Request : Finalize(c, k, r)
       \/ InspectHead(c) \/ PrepareFinalization(c) \/ ReadPrepared(c)
       \/ \E mergeable \in BOOLEAN : Inspect(c, mergeable)
       \/ Settle(c) \/ Abandon(c)
  \/ \E q \in requests : MergeAtHead(q)
  \/ \E p \in PullRequest : MergeElsewhere(p) \/ \E h \in Commit : Push(p, h)
  \/ \E h \in Commit, g \in Check : Report(h, g)
  \/ Work

Spec == Init /\ [][Next]_vars

-----------------------------------------------------------------------------
(* Properties. *)

TypeOK ==
  /\ ready \in BOOLEAN
  /\ finalizations \in [Key -> Finalization \cup {None}]
  /\ settlements \in [Key -> Settlement \cup {None}]
  /\ calls \in [Caller -> Call]
  /\ requests \subseteq MergeRequest
  /\ pulls \in [PullRequest -> [head: Commit, by: Key \cup {Somebody, None}]]
  /\ passing \in [Commit -> SUBSET Check]
  /\ verified \subseteq Commit
  /\ answers \in [Key -> SUBSET Outcome]

\* A pull request merged by this program was merged for a recorded decision, on
\* exactly the head that decision named, approved if the Workflow asks for it:
\* whatever callers, retries and orphaned merge commands do between them
\* (PrepareFinalization and MergeAtHead's --match-head-commit).
MergeIsDecided ==
  \A p \in PullRequest : pulls[p].by \in Key =>
    LET f == finalizations[pulls[p].by]
    IN  /\ f # None /\ f.pull = p /\ f.head = pulls[p].head
        /\ RequireHuman => f.approved

\* A head this program merged had, at one time, passed all required checks
\* (exactFinalizerChecks and githubgate.Verify).
MergeIsVerified ==
  \A p \in PullRequest : pulls[p].by \in Key => pulls[p].head \in verified

\* A merge is recorded, or reported to a caller, only when it happened
\* (Finalize settles "merged" on evidence only).
RecordedMergeHappened ==
  \A k \in Key : (finalizations[k] # None /\ ("merged" \in answers[k] \cup {finalizations[k].state}))
                   => Merged(finalizations[k].pull)

\* All callers of one key are told the one outcome the journal holds
\* (settleFinalizationResult and the retry of a terminal record).
AnswersAgree ==
  \A k \in Key : answers[k] # {} =>
    finalizations[k] # None /\ answers[k] = {finalizations[k].state}

\* A decision, once recorded, keeps its pull request, approval and head, and
\* its outcome never changes (the receipts of PrepareFinalization and
\* SettleFinalization).
DecisionsKept ==
  [][\A k \in Key : finalizations[k] # None =>
       /\ finalizations'[k] # None
       /\ finalizations'[k].state # finalizations[k].state => finalizations[k].state = "prepared"
       /\ [finalizations'[k] EXCEPT !.state = "prepared"]
            = [finalizations[k] EXCEPT !.state = "prepared"]]_vars

\* What the protocol says of a changed head: a finalization recorded as merged
\* published the head it had prepared (docs/protocol.md:80-82).
MergedMeansPreparedHead ==
  \A k \in Key : (finalizations[k] # None /\ finalizations[k].state = "merged")
                   => pulls[finalizations[k].pull].head = finalizations[k].head
=============================================================================
