# Formal models of durable-agent-handoff

This directory specifies the v2 supervisor of this repository in TLA+, from the
journal's files up to the service and its executors, checks small instances of it
with TLC and proves its main safety properties for every instance with TLAPS.
`PROJECT.json` lists components, runs, mutants, hazards and theorems, and maps
every definition to the source lines it stands for.

    tlc -workers 2 -config Commands.cfg MCReplay      # one run
    tlapm SupervisorProofs.tla                        # one proof module

## The system

`handoff` hands work to coding-agent harnesses (Codex, Claude, Pi, generic
commands) and survives the crash of any of its own processes. The durable truth
is one append-only journal file. Every process (CLI, service, executor) opens a
`Store` on it and issues commands.

| Part | State it keeps | Operations | Talks to |
|---|---|---|---|
| Secure ledger (`internal/secureledger`) | per record an append-only file of numbered entries, a lock file, a snapshot | `View`, `Update`, `Append`, `Replay`, `ReplaceSnapshot`, tail repair | the file system; every Store |
| Journal (`supervisor/journal.go`) | none: `State` and receipts are replayed from the record each time | `Execute`: replay, receipt lookup, decide, apply to a clone, append, snapshot | ledger below, commands above |
| Supervisor command core (`supervisor/commands.go`, `reducer.go`, `recovery.go`) | Workflows, Nodes, Sessions, Activities, Attempts, Leases, Results, Messages, Controls, Pauses | 14 commands, each one journal entry | called by executor, service, CLI |
| Executor (`internal/executor`) | one running Attempt: process, decoder, deadlines | `RunActivity`, `AdoptAttempt` | runner, Store |
| Activity runner, watchdog, process identity (`internal/activity`, `internal/processidentity`) | process tree, gate pipe, process token | spawn behind a gate, stop, wait, kill the tree when the parent dies | operating system |
| Service (`internal/service/v2.go`) | which Activities have a worker here, per-Workflow supervision times | scheduling loop, goal decisions, quiet-session check, restart reconciliation | Store, executor, evaluator |
| Evaluator (`internal/evaluator`) | none | one remote model call per finished goal turn | service |
| Finalizer (`supervisor/finalizer.go`, `internal/githubgate`) | Finalization records | prepare, merge at head, settle | Store, GitHub |
| Projection (`supervisor/projection.go`) | none (pure) | execution status, publication status | readers |
| Drivers (`internal/driver`) | decoder state of one harness stream | decode JSON lines to milestones | executor |
| Legacy import (`supervisor/import_v1.go`, `internal/legacyimport`) | none (version 1's ledgers are read) | `ImportV1`: read and replay the old ledgers, one entry with their Workflows | version 1's files, Store |
| CLI, TUI, private paths, digests | none of their own | flags, printing, permissions, hashing | Store |

A Workflow is a set of Nodes (work with dependencies). An *Activity* is one turn
of a Node on a *Session* (a native conversation of one harness); an *Attempt* is
one launch of an Activity; an unreleased *Lease* is the right to write in a
worktree; a *Result* resolves the Activity. A human reply, or the evaluator's
`continue`, creates the next Activity of the Session with a *Message*; a
fallback continues the Activity on a child Session of another provider. A
*Control* stops an exact Attempt; a *Pause* fences all of a Workflow's.

What makes it hard: several processes issue commands at any time, all of them
can die between any two commands, milestones of one process race with controls,
pauses and the reconciliation after a restart, and what is decided late (a
Result, a binding, a generation) must agree with what was decided before. The
hazards, with the line where each bites, are in `PROJECT.json`.

### What makes each part correct

- **Command core**: one writer per worktree; Lease and exit evidence are one
  fact; an Activity is answered once, by the launch that reported; budgets and
  turn limits hold; a dispatched Message is with a launch that can answer it;
  a pause freezes and drains exactly what ran; no sequence of commands reaches a
  state the reducer rejects.
- **Ledger and journal**: an acknowledged entry survives every crash, an
  unacknowledged one appears whole or not at all, a retried key never executes
  twice, and no failure makes the journal unreadable.
- **Reducer**: a process that replays the journal knows exactly what the commands
  did; no entry a command decides is refused.
- **Drivers**: nothing a harness printed is missed; a restart finds in the output
  what the executor that died would have found; an unfinished turn has no Result.
- **Legacy import**: a source is imported once, however calls race and are
  repeated, and the import tells what happened to each Node.
- **Executor**: an accepted control reaches its process; every Attempt it
  prepares gets an exit, or a restart finds it.
- **Service**: eligible work is eventually launched, a finished goal turn is
  eventually decided, nobody's live Attempt is declared dead.
- **Finalizer**: merged means merged at the prepared head, after the required
  checks; a retry agrees with what GitHub did.
- **Projection**: the status a reader sees agrees with what can still happen.
- **Runner**: no process of a tree outlives the supervisor unobserved.

## Modules

| Module | Models | Status |
|---|---|---|
| `Supervisor` | the command core, one action per command | done |
| `Projection` | the execution status, queue and pending turns computed from its state | done |
| `Reducer` | `applyDomainEvent` and `validateState`: State rebuilt from journal events | done |
| `Replay` | `Supervisor` next to a replica that knows only the journaled events | done |
| `MCSupervisor`, `MCReplay` | instances of these for TLC | done |
| `Executor` | `RunActivity`, `AdoptAttempt` and the gated processes they run; composes `Projection` and `Supervisor` | done |
| `Service` | `ServeV2` around executors: start, reconciliation, scheduling, crashes | done |
| `MCService` | instances of it for TLC | done |
| `ServiceProofs` | `Service` runs the command core; which harness runs where, what an applied control means | done |
| `SupervisorProofs` | identities and types, Leases, controls and pauses | done |
| `StateProofs` | reports, Results and Messages; generations, budgets, turn caps; the projection's queue and pending turns; bindings; `validateState` accepts every State; a replay of the journal agrees with the commands | done |
| `Drivers` | the four decoders of `internal/driver`, line by line | done |
| `Outputs` | one launch's output file with its writer and its two readers (`decodeFile`, `recoverAttemptOutput`); extends `Drivers` | done |
| `MCOutputs` | an instance of it for TLC | done |
| `OutputsProofs` | all its properties, for any lines and any number of them | done |
| `LegacyImport` | calls of `ImportV1` next to version 1's writer, and the replay of version 1's ledgers | done |
| `MCImport` | an instance of it for TLC | done |
| `LegacyImportProofs` | all its passing properties | done |
| `Recursion` | functions defined step by step along a sequence: they exist, and what every step keeps holds everywhere | done |
| `Finalizer` | concurrent calls of `Finalize`, with GitHub | done |
| `MCFinalizer` | instances of it for TLC | done |
| `FinalizerProofs` | all its passing properties | done |
| `CommandLog` | what the journal promises | done |
| `Journal` | `Execute` on the ledger's files, with failures and crashes | done |
| `MCJournal` | an instance of it for TLC | done |
| `JournalProofs` | all its passing properties, and the refinement | done |

### Supervisor

`Store.Execute` runs a command's `decide` against the replayed state under the
ledger's exclusive lock, applies the events to a clone and appends them as one
entry. So a command is one atomic step and the interleaving of processes is the
interleaving of actions: any command may come at any moment, from an executor
that is late, a second service or a CLI. A crash is a process that issues no
further command; `ReconcileStartup(T)` is the restart's command, enabled for
*any* set of live Attempts, because whether a process still runs is for the
operating system to say (and because the quiet-session check issues it while
executors run).

| Variable | Go state | Indexed by |
|---|---|---|
| `workflows`, `nodes` | `State.Workflows`, `State.Nodes` | Workflow, Node in it |
| `sessions`, `activities`, `attempts` | maps of the same names | their identity |
| `leases` | `State.Leases` | the Attempt (one Lease each) |
| `results` | `State.Results` | the Activity (`ResultID` is a hash of it) |
| `messages` | `State.Messages` | the Activity that answers it |
| `controls` | `State.Controls` | the request's key, or the Attempt for a pause's |
| `pauses` | `State.Pauses` | the Workflow |
| `waiting` | Activities with `NotBefore` ahead of the clock | |

Abstractions, all on data: identities are hashes of caller-chosen keys, so a
command takes any unused one; an Attempt's history is the *set* of milestone
kinds (no check reads order or repetition beyond "did it occur"; the two kinds
no command reads are left out); prompts, digests, process records, times and
the journal's receipts are left out; time appears only as `WakeTimeReached`.
`ProfileRecord` holds exactly the Workflow settings a command reads. The
generation of a continuation, the delivery number of a Message and the Result a
dependency binds are computed as in the code, with the code's tie (a parent and
its fallback child share a generation, and a hash chooses) left open.

The reducer's rejections and `validateState` are not guards. That no command
needs them is a property, `StateAccepted`.

### Reducer and Replay

`Store.Execute` applies a command's events to a clone, throws the clone away with
the process, and keeps the events. So every field a command computes has to be in
an event, and the reducer has to rebuild it: a second text of the same effect,
which nothing in the code compares with the first. `Reducer` is that second text,
event by event, with its refusals (a refused event makes the State `None`), and
`ValidState` is `validateState`. `Replay` gives every command of `Supervisor` the
entry its `decide` returns (`Journal(...)`) and keeps in `replica` what the entries
alone say. `ReplayAgrees` compares the two after every command, and `ReplaysAgree`
proves it.

An event carries the records its command creates and otherwise identities only,
as in the code; an Attempt's milestones are a sequence in the replica and a set in
`Supervisor`. Left out are events no command of this release emits, and those of
role ladders, finalizations and imports, which touch none of these maps.

### Finalizer

`Finalizer` models `Store.Finalize` step by step, because every call is a process
of its own (`handoff github merge`) that runs next to others and may die
anywhere. A call goes `inspect`, `prepare`, `read`, `check`, `merge` or straight
to `settle`; the steps between two of these are one read of the journal, one
journal command, or one GitHub command, so nothing else can interleave inside
one.

| Variable | Code | Remark |
|---|---|---|
| `ready` | `ProjectPublication` is eligible or awaiting human approval | toggled by the work that goes on |
| `finalizations` | `State.Finalizations` | also the receipt of `PrepareFinalization`: its digest is the record |
| `settlements` | receipts of the keys `<key>/settle` | state and kind of summary |
| `calls` | the local state of each `Finalize` | a record per step with what the code still has in hand |
| `requests` | `gh pr merge` commands not answered yet | survive the call that sent them |
| `pulls`, `passing` | GitHub | heads, merges, and successful checks per commit |
| `verified`, `answers` | nothing | history the properties speak of |

`Abandon` is every way a call ends without an answer: a failed inspection, a
refused or conflicting command, a lost response, a crash. GitHub moves heads,
finishes and reruns checks and merges on its own at any time; a merge request
succeeds only on an unmerged pull request at the head it names, and may be
refused for reasons of GitHub's own. A successful `gh pr merge` is taken to have
merged (a merge queue, which answers before it merges, is not modelled). The
merge method is compared and passed on like the pull request and left out.

### CommandLog and Journal

`CommandLog` is the promise: a log in which a key names one command, receipts
that name entries of it, and a machine crash that forgets no entry whose own
execution was answered. `Journal` is the code: `Store.Execute` on
`secureledger.Update`, `Replay`, `Append` and `ReplaceSnapshot`, one action per
step that another process, a kill or a crash can fall behind.

| Variable | Code | Remark |
|---|---|---|
| `events` | `events.jsonl` | `now`: its whole entries and its tail (clean, torn, an entry without newline, or a corrupt line); `after`: the images a machine crash may leave |
| `snapshot` | `state.json` | the entries its State was built from; `after` as above, for the rename before the directory's fsync |
| `lock` | the mutex of a `Ledger` and the file lock of `.write.lock` | one lock: no caller sees a difference |
| `call` | the local state of each `Execute` | step, key and input digest, replayed entries, sequence number |
| `answers` | the receipts returned | history the properties speak of |
| `reboots` | nothing | bound on machine crashes (`MaxReboots`) |

`GiveUp` stands for every early return and for a killed process: both release
the lock and change no file, and the caller may retry. `ShortWrite` leaves part
of a line; a later `RepairTail`, of any caller, cuts it off or completes it. A
file's `after` grows with every change and collapses with a successful fsync, so
`Reboot` may return to any image in between. A write on a tail that was not
repaired would produce a line that no reader gets past ("corrupt"); that this
never happens is `AlwaysReadable`, not an assumption.

Abstractions: what a command decides is its key and input here (its effect is the
`Supervisor` module); a refused command is a `GiveUp`. Checks of file identity
and permissions only turn into errors. A disk that invents bytes (zero pages
after a crash), and a kernel whose fsync reports an error once and then forgets
the pages, are not modelled: a later successful fsync makes everything durable.
`View` reads without the lock and is not modelled: no document promises what it
sees while a writer works (see "Not modelled").

### Projection

Pure operators over `Supervisor`'s state, translated from `projectActivity` and
`ProjectExecution`: the status of an Activity (`OwnStatus`, in the order of the
code's switch), the chain of fallbacks a reader looks through
(`Representative`), and the two lists the service acts on, `Queue` and
`PendingTurns`. They are checked against what the commands accept: `Launchable`
is written from `PrepareAttempt`, `Decidable` from `DecideTurn`, so that reader
and command are two texts that must agree. With several fallback children of one
parent the code takes the oldest; the model has one fallback provider, hence one
child. The status of Nodes and of the Execution, and every text, are left out.

### Drivers and Outputs

A decoder is a record (`FreshDecoder`), and `DecodeLine` maps it and a line to the
next one and the milestones it emits, or fails. A line is its event and the
contents that matter: a worker status for text that is one result object,
`"prose"` for other text, a native identity, a tool call, an error's code and
message. What is no JSON is a `"fragment"` or a bare newline.

`Outputs` is one launch: the harness writes the file, perhaps a line in pieces;
the executor's decoder reads at its end whatever is there, also half a line
(`ReadString` returns it with `io.EOF`), records one milestone at a time and may
die between any two; an adopter reads the file again when the process is gone and
records what it finds missing, in three looks at the State. Executor and adopter
may live at once, since `handoff run` executes in a process of its own.

| Variable | Go |
|---|---|
| `launch` | the driver, the Workflow's mode, the native identity the Session had |
| `output`, `cut`, `running` | the output file, how far its last line has come, the process group |
| `attempt`, `paused` | what `validateMilestone` reads of the State |
| `live` | the executor and the goroutine of `decodeFile`: position, decoder, milestones to record |
| `adopter` | `AdoptAttempt` and `recoverAttemptOutput`, by stage |

### LegacyImport

A version 1 ledger is its length (it only grows, so length stands for bytes and
digest) and what replaying it gives: Nodes with state and dependencies, and how
often each completed and was reopened. `ApplyProposal` is version 1's reducer:
every mutation validated against the Nodes the ones before it left, the whole
proposal refused with one of them, then budget, cycles and `recompute`. A call of
`ImportV1` reads the ledgers one after the other, appends one entry unless its key
or its digest is known, and may die anywhere; version 1 writes meanwhile.

`truth`, kept with each ledger, is what happened transition by transition. The
import counts mutations instead; `ImportTellsHistory` says that the two agree on
every regular history, and its definition of regular names the histories where
they do not (see "Findings").

### Executor

`Executor` composes the command core with what runs it. Each goroutine is a
program counter over steps that are one `Store` call, one look at the journal or
one effect on the process; what is read in one step is used in a later one.

| Variable | Go |
|---|---|
| `worker[a]` | the `RunActivity` goroutine the service started for Activity `a`: where it is, the Activity it launches (a fallback child or `a`), the launch's number, its Attempt, how far its decoder is, whether it stopped the process |
| `adopter[t]` | the `AdoptAttempt` goroutine of an inherited Attempt |
| `process[t]` | runner, watchdog and harness as one unit: not spawned, behind its gate, running, or how it ended |
| `stdout[t]` | the output file of the harness, as decoded lines |
| `launchKeys` | the idempotency keys of launches that committed, so that a retried key is answered, not executed |

A worker goes `selecting` (provider, fallbacks), `building` and `prepared`,
`spawned` behind the gate, `releasing`, `waiting`, then `draining` and `exiting`,
with side roads for a launch that fails (`failing`, `failed`), a control
(`applying`) and the startup deadline. That is `deadline`, then the record of the
failed start (`lateFailing`), and only then the stop of the process
(`lateStopping`, or `lateRefused` when the record was refused because the turn had
started): an exit, a control or a milestone may fall between any two of these. A
deadline stop that is refused leaves the worker `joined` to a process that nobody
stops (see "Findings"). The decoder is a second actor (`Decode`): its milestones
race with the wait loop, with stops and with pauses. `DeadlinePasses` may come at
any moment before the turn has started, which stands for the timer.

`Candidates` are the Session's own provider or, once a launch of the Activity found
it unavailable, the providers this Session and those it fell back from have not
tried; the code walks primary and fallbacks in the order of the WorkSpec from the
Session's own place, and the model leaves open which fallback comes next
(`NoCandidate`: and whether any is left behind a fallback's own place). An adopter
that returns an error, for a torn exit record or a refused milestone, ends as
`failed`: it has recorded no exit, and nothing in this service looks at that Attempt
again but the quiet check.

Left out: cancellation of `RunActivity`'s context (`handoff serve` uses
`DetachActive` and never cancels it), storage errors, identity inspections that
fail or are unknown, the
`meaningful_progress` and `effect_started` milestones (no command reads them),
`handoff run`, which calls `RunActivity` beside the service, and Windows.

### Service

`Service` is the loop of `ServeV2` around `Executor`, with the commands people
give (`UserCommands`) and the harnesses (`HarnessSteps`) as its environment.

| Variable | Go |
|---|---|
| `service` | how far `ServeV2` is: down, first reconciliation, adoption, second reconciliation, serving |
| `inspection` | the verdicts a `ReconcileStartup` took before its command, which compares them again |
| `deciding` | Activities of the decision goroutines |
| `walk` | the views of the run in progress: the turns to decide and the queued Activities it has not come to yet |
| `delayed` | `decisionRetryAt` and `activityRetryAt`: what failed and whose delay lasts |
| `fresh` | those of them that failed since the last run began |
| `crashes` | nothing: bound on services that die (`MaxCrashes`) |

`Crash` takes every goroutine with it; a process behind its gate reads the end
of the pipe and exits, one that was released runs on and is adopted by the next
service. `Inspect` and `Reconcile` are two steps because the processes and the
journal move in between; the quiet-session check uses the same two while workers
run. It is due only if some Workflow is `Supervised`: in session mode and with a
cadence, which a caller may set to zero.

A run of the loop is `Look` and then one `Skip`, `Take` or `PoolFull` per Task
(an Activity to decide or to launch), each a critical section of the code's mutex
with goroutines that end, and fail, in between:

- the order is the code's: Executions by identity (`Rank`; one Workflow each), and
  of each the pending turns before the queue; the order of creation within these is
  left open;
- a Task in hand or delayed is skipped, one for which no slot is free ends the run,
  whoever comes after it;
- what `Look` listed may be stale when `Take` reaches it, and again when the
  goroutine reads its own state;
- a Task that fails is delayed. A delay is longer than the interval of the ticker
  (30s and 2s by default; only the interval is a flag, so a user may turn this
  around, which is not modelled): it outlasts the run that saw it begin (`fresh`).
  `WorkerStep` leaves open whether `RunActivity` returned an error.

Fairness (`Fairness`), used by the liveness runs only:

- weak fairness of every step of a worker, decoder, decision goroutine, adopter and
  of the start and reconciliation: each is a goroutine that is ready to run, or a
  poll on a ticker, or a call with a timeout, and a service that died is restarted
  (the unit files in `v2.go:453-464` ask for it);
- weak fairness of the loop as a whole (`Look`, `Visit`), never of one Task: which
  Task a run comes to follows from its order, its delays and the slots, and a run
  that returns again and again at one place starves what is behind it;
- weak fairness of a wake time's passing;
- strong fairness of two steps which runs of the loop disable again and again:
  `Inspect`, since a run begins with the quiet check when a cadence has passed, and
  `DelayPasses`, since a delay passes whatever the loop does;
- none for users, harnesses and crashes: a harness may run for ever, an evaluator
  fail for ever, and a crash may never happen. Crashes are finitely many.

Under this fairness the liveness properties hold with the exceptions the code has,
each a named predicate:

- `Lost(t)`: an adopted Attempt whose adopter failed, in a service without a
  Supervised Workflow. It keeps its Lease until the next service starts;
- `Unheard(t)`: a harness whose worker is `joined`;
- `Recurring`: Tasks that fail and come back (a turn no evaluator decides, an
  Activity with no provider left, which stays in the queue and is refused again
  after each delay). Each takes a slot for a while, again and again, so `QueueIsServed`
  allows as many of them as there are slots.

`QueueIsServed` is about an instance, whose Activities are finitely many. In the
code a goal without a turn limit whose evaluator always continues makes a new
Activity each turn; with one slot and an earlier identity it can keep the slot from
every Execution after it for ever. No model with finitely many Activities has that
behaviour, and the property claims nothing about it.

### Runs

`CHECK_DEADLOCK` is off wherever `Supervisor` is part of the instance, since
identities run out and a Workflow with everything resolved, or paused, really has
nothing left to do. `Finalizer` has nothing bounded but its sets, and `Journal`
only `MaxReboots`: a key has one entry, so the log cannot outgrow `Keys`.

| Run | Instance | States | Question |
|---|---|---|---|
| `Commands` | 1 Workflow, 3 Activities, 3 Attempts, 2 native identities, a goal limited to 2 turns with wake times, an unlimited goal, one-shot and session mode; constraint `JournaledHistories` | 82k | budgets, turn limit, Results, Messages, bindings, what the projection lists, and the replay of every entry |
| `Controls` | 2 Nodes, of one Workflow or of two, 2 worktrees, 2 Attempts, 2 stop requests, pauses; or one Node with a goal or a fallback; constraint `ContentionOrTurns` | 196k | stops, pauses, exits and restarts racing; Leases; `validateState` accepts every state |
| `Supervision` | 1 Workflow of any mode, 2 Activities, 2 Attempts, 2 workers, output of up to 2 lines, one stop, pauses, 1 crash; constraint `Bounded` | 1.1M | which harness runs where, and what an applied control means |
| `Progress` | a session-mode Activity with or without quiet checks, undecodable output, failing spawns, torn exit records, a stop or a pause, 1 crash; or one turn with a startup deadline, a stop or a pause; or two Executions, one perhaps a goal with 2 turns and a wake, for 1 slot; constraint `Scheduled`; fairness | 48k | stops take effect, launches end, the queue is served |
| `Outputs` | any harness and mode, up to 4 lines, 2 native identities, pieces of lines, a pause, an executor that dies, an adopter; constraint `TypicalOutputs` | 1.2M | what is printed is recorded, by whoever reads it |
| `Publication` | 2 calls, 2 keys for 1 pull request, 2 commits, 2 checks, human approval | 1.2M | retries, crashes and competing decisions: what is merged was decided and verified, what is answered is recorded |
| `Restarts` | 2 callers, 2 keys with 2 inputs, 1 machine crash | 1.0M | what is executed, readable and durable; `Journal` implements `CommandLog` |
| `Import` | 2 ledgers of 3 entries together or one of 5, 2 Nodes, 2 calls, 2 keys; constraint `RacesOrHistories` | 56k | one import of one source, and what it says of the history |
| `StrandedGoal` | an unlimited goal, 1 launch per turn | violation | first finding below |
| `ChangedHead` | 1 call, 2 commits | violation | second finding |
| `FailedSession` | a session whose harness fails | violation | third finding |
| `EndlessPause` | a session-mode Activity, a pause, no crash; fairness | violation | fourth finding |

Why these bounds are enough. Two Attempts make a race about one Activity or one
worktree; a third is a retry after it, or the next turn. Three Activities are a
turn, its successor and a competing reply or fallback. Two Nodes are needed for a
pause that waits for two exits, two Workflows only where one's Lease stops the
other (`Controls`). Two calls are a slow one and one that overtakes it, two
commits a changed head. In `Restarts` two callers race for the lock and retry each
other's keys, two keys let one entry follow another's repair, two inputs give a
key's divergent reuse, and one crash separates what was synced from what was not.
Four lines are one more than a Result of Codex takes (turn, message, completion),
so that a line before, between or after them is there; two of each identity and
status tell a first from a last. Two ledgers and two calls make an import that
overlaps another and one that reads the ledgers at different times; five entries
complete, reopen and complete a Node again. In `Progress` two Executions and one slot
are what contention takes: one comes before the other in the walk, holds the slot
with launches, decisions and retries, and the other must still be served.
One crash of a service is enough to separate what it left from what the next one
finds; a second would repeat the first with another Attempt. The theorems below
lift the bounds of the core, the service, the finalizer and the journal.

The constraints name the part of the state space a run leaves to others:
`JournaledHistories` takes either turns on the one Session of one Node or two Nodes
with fallbacks (`TurnsOrLineage`), with stops in session mode only, where a
session has one reply at most; `OldestFirst`
uses interchangeable identities in one order, which is symmetry without its cost
(and, unlike symmetry, allowed with liveness); `ContentionOrTurns` takes two
independent one-shot Nodes and all controls, or one Node without a stop or a pause
whose turns continue or fall back; `Bounded` gives each mode the outputs that
matter to it, and second Activities, fallbacks and goals only to histories without
a crash or a control; `TypicalOutputs` takes two readers, pieces of lines and
pauses only in short outputs, and long ones without a line that is refused before
the last; `RacesOrHistories` takes two racing calls on short ledgers, or one call
on a long one. `Scheduled`, of the run with liveness, joins three histories
(`OneSession`, `OneTurn`, `TwoExecutions`) and takes identities in one order. It cuts
steps of people, harnesses and crashes and some outcomes of fair steps (a spawn
that fails, a deadline). A constraint can hide a behaviour from a liveness property
and cannot invent one: where a fair step is enabled and cut, TLC counts staying there
as unfair. What it cuts is named in `MCService`: a decision that races with a crash,
and a fallback, are not in a run with liveness, and a crash during a fallback is in
no run of `Service`; the command core's part of it is in `Commands`.

Each property has a mutant: an operator of its module with one plausible bug
(its comment begins with "Mutant"), which makes TLC violate the property in the
same configuration.

Only `Service` states fairness. Nothing obliges a caller to issue a command or to
retry a finalization or an import, so `Supervisor`, `Finalizer`, `Journal` and
`LegacyImport` have none; and `Outputs` asks what is there when a reader ends, not
that it ends.

### Proofs

The theorems hold for every value of the constants that satisfies the module's
assumptions: `ProfilesAssumption` (what `validateStartInput` accepts; a quiet check
only in session mode),
`WorksAssumption` (a WorkSpec does not list its own runtime as a fallback) and
`NoneAssumption` (`None`, Go's nil, is no record and no identity; request keys
are not Attempts); for `Reducer` and `Replay` also `StateAssumption` (nil is no
State and no Attempt). For `Finalizer`: `FinalizerAssumption` (an enabled finalizer
has required checks, as `StartExecution` demands) and its own `NoneAssumption`.
For `Journal`: `NoneAssumption` (`None` is no caller) and `MaxRebootsAssumption`.
For `Outputs`: nil is no worker status, no native identity, no record and no way to
cut a line (`NoneAssumption`, `NilAssumption`, `CutAssumption`); what a harness prints
are lines as `Drivers` describes them, none of them the bare newline that reading
leaves of a blank one (`LinesAssumption`); and the bound on lines is a number. For `LegacyImport`: nil is no Node (`NoneAssumption`); a proposal
is a sequence of mutations (`ProposalsAssumption`), as its type says; the bound on a
ledger's entries is a number (`EntriesAssumption`); and what version 1 creates a
Workflow with is one of the graphs its proposals can leave (`CreationsAssumption`:
version 1's writer is no longer in the repository).

1. `Foundation` (`SupervisorProofs`) is inductive: `TypeOK`, `StateValid`,
   `LeaseTracksAttempt` and `NodesHaveWorkflow`. `TypeOK` alone is not, since a
   command follows references and updates the record it finds. One lemma per
   command shows that it preserves `Foundation` and is an `IdentitiesKept` step.
2. `AttemptStep` (`SupervisorProofs`) says what any step may do to one
   Attempt and its Lease. With it `ExitIsFinal` is immediate, and
   `WriterExclusion` is inductive: only a launch takes a Lease, and its guard
   looks at all of them.
3. `PausesSound` (`SupervisorProofs`) adds to the two pause invariants that
   releases are noted only for fenced Attempts, and `PauseControlsNamed` that a
   control named by an Attempt is that Attempt's, so that a later pause cannot
   overwrite the accepted control of another.
4. `ReportsSound` (`StateProofs`) strengthens `ResultProvenance`:
   an Activity has at most one live launch, and a report or a Result closes it
   to every other. `MessagesSound` rests on it: the turn that settles a Message is
   the one launch that can answer its Activity.
5. `StepOnActivities` (`StateProofs`) says that an Activity a step creates is
   confused with no other: it has a fresh Session, a Node without work, or a
   generation above all of its Node. `GenerationsIdentifyTurns` follows.
   `BudgetsKept` charges a budget with every launch that started a turn or still
   may (`Spent`), since `PrepareAttempt` counts started turns and the launch it
   makes starts its own later; `StartedTurnsCount`, that a provider's failure never
   refunds a started turn, makes the code's count an upper bound of what
   `BudgetRespected` counts. `AutomaticTurnsCapped` counts continue Results where
   the code counts Activities with a report; each of the first is one of the
   second, and both are finite.
6. `QueuesAreExact` and `DecidableTurnsArePending` (`StateProofs`) hold the
   projection against the commands. They need two facts that no command checks:
   outside a goal a report is already the Result (`ReportsConclude`), and an
   Activity never launched has budget left (`UnlaunchedHasBudget`).
7. `BindingsAreSound` and `StatesAreAccepted` (`StateProofs`): a Result an
   Activity was bound to when it was queued is its dependency's, completed, and
   stays so, since Results and Nodes never change and every successor inherits its
   bindings; the dependencies stay acyclic, since a Node names only Nodes that were
   there before it. With `Foundation` and `WriterExclusion` that is what
   `validateState` asks of identities. The order of an Attempt's milestones, which
   only the replica has, is the next item's.
8. `ReplaysAgree` (`StateProofs`): `Mirrored` says that the replica is the commands'
   State with the milestones in some order (`Tells`), and is inductive. `Makes` says
   what the reducer makes of a sequence of events; its lemmas put sequences together
   (`MakesBlocks`), and one lemma per command (`...Journals`) shows that the events
   the command records make of the State before it the State after it. A pause and a
   restart record as many events as there are live Attempts, one Attempt after the
   other, so between two of them the State is one that no command leaves:
   `FenceState` and `RecoveryState` name it, for the set of Attempts already done,
   and `BlocksMake` goes through them. That enumeration is finite because the
   commands create finitely many Activities (`FinitelyManyKnown`) and each has a
   launch budget (`BudgetsKept`). `ReplaySpec` implements `Spec`, so what is proved
   of the commands holds here, and `StateAccepted` gives `ValidState` of the replica.
9. `Inv` (`FinalizerProofs`) follows a decision along its way. The
   properties of the run are not inductive: `CallsSound` says that what a call
   has in hand is what the journal holds, however long ago it was read,
   `RequestsSound` that a merge command on its way, its caller alive or not, asks
   for its decision's head and that this head was verified, and `RecordsSound`
   that a record, its receipt and the answers given agree.
10. `IInv` (`JournalProofs`): every image a crash can leave is a beginning of the
   present file (`FilesSound`), the call inside the lock knows the file as it is
   (`CallsSound`), receipts and snapshot rest on entries in every image
   (`AnswersSound`, `SnapshotSound`). `EventsStep` says once how any step may
   change the file (not, a repair, a write of a fresh entry, an fsync, a crash);
   the other lemmas rest on it. The refinement follows: `StepRefines` maps each
   step to a commit, an answer, a loss or a stutter of `CommandLog`.
11. `Attended` (`ServiceProofs`) ties every goroutine to what it holds. A worker
   uses in one step what it chose in an earlier one, so `WorkerSound` says for each
   step which Attempt, target and provider it has and which ends of its process
   are still possible there; `ProcessSound`, that a running process is that of a
   recorded, live Attempt; `AdopterSound` and `ControlSound`, that whoever applied
   or recovers something has seen the process end; `WorkersApart`, that no two
   workers hold one Attempt. The delicate step is the opening of the gate: between
   the record of a process and its release anything may happen to its Attempt, and
   that it is live when the harness starts holds because whoever ends it from
   outside (a reconciliation, an adopter) has found the process gone. There is a
   lemma per step, and a step shows two things at once (`Kept`): `Attended`
   stays, and the core sees one of its commands or nothing. The second half is the
   refinement `ServiceSafety => Spec`, by which all theorems above about `Spec`
   hold of the service; `HarnessHoldsWorktree` follows from `ProcessSound`,
   `LeaseTracksAttempt` and `WritersExcluded`. What the loop adds is small:
   `LoopSound`, that it walks Activities which exist. The assumptions on the constants of `Executor` and `Service` only name what a
   line and an ending may be, and that no two identities have one rank.
12. `ImportedOnce` (`LegacyImportProofs`) adds to `SourceImportedOnce` that a call
   past its append has an import, under its own key and for what it had read.
   `Standing` says that a length stands for a ledger: what a call read, and what an
   import's digest covers, is no longer than the ledger, and is the ledger itself
   if it is as long.
   `LedgersSound` is about version 1's reducer: a replay leaves a graph of Nodes
   without a cycle whose dependencies exist (`Closed`), which is what v2's commands
   ask for, and counting the mutations of a regular history tells what became of
   each Node (`Tells`), mutation by mutation.
13. `OutputsProofs` is a chain of invariants. `ExecutorSound` says of the Codex
   decoder what it holds at every line: the latest candidate of the lines decoded so
   far, with no `turn.completed` since (`Latest`); a piece of a line is no JSON and
   ends the reading, so what was decoded are whole lines (`PieceIsLine`).
   `ReadersSound` says it of an adopter, whose whole reading is one step: it is an
   induction over the file's lines. For every harness `Following` says that what was
   decoded is what the lines read so far say, and `Kept` that the Attempt is what some
   first milestones of some first lines make of it (`Stands`), whether the executor
   still reads, failed or died; both survive a file that grows, since decoding and
   recording a beginning does not depend on the rest. So an executor that ends an
   Attempt has recorded the whole (`Finished`).
   The generic harness is another case: a piece of a line of text reads as a line of
   text, so the Attempt is no beginning's. `PlainAttempt` and `PlainReader` keep
   what holds all the same: which kinds are recorded, that a Result is the status of a
   whole line, and that every line before it was recorded as progress.
   In both cases the Attempt an adopter finds is a part of what the file tells
   (`Consistent`). Its three looks at the State make it all of it: after each stage
   what the stages so far recover is recovered (`Recovered`, `Past`), what is still
   to record is what that stage wants (`Wanted`), and every milestone it wants is
   accepted (`WantedIsAccepted`). That is `AdoptersSound`, and `AdoptionRecovers`
   follows.

Decoding a file, recording its milestones, replaying a ledger and applying an entry are inductions over
data of any length. The library's induction theorems take an operator as a parameter
and cannot be used here, so `Recursion` proves the same from the least element of a
set of numbers: `EveryStep`, that a set of indices which holds the first and with
each the next holds all, and `RecursionIsDefined`, that a recursive function over
`0 .. n` satisfies its equation. A statement about every prefix is then a set of
indices, and the model keeps its recursive definitions as functions.

| Theorem | States |
|---|---|
| `TypeCorrect` | `Spec => []TypeOK` |
| `StateAlwaysValid` | `Spec => []StateValid`, the part of `validateState` that `Foundation` needs; the whole is `StatesAreAccepted` |
| `LeasesTrackAttempts` | `Spec => []LeaseTracksAttempt` |
| `IdentitiesAreKept` | `Spec => [][IdentitiesKept]_vars` |
| `WritersExcluded` | `Spec => []WriterExclusion` |
| `ExitsAreFinal` | `Spec => ExitIsFinal` |
| `ControlsExclude` | `Spec => []OneAcceptedControl` |
| `PausesAreControlled` | `Spec => []DrainingPauseIsControlled` |
| `CompletedPausesAreQuiet` | `Spec => []CompletedPauseIsQuiet` |
| `PausesFreezeAttempts` | `Spec => PauseFreezesAttempts` |
| `ResultsComeFromTheReporter` | `Spec => []ResultProvenance` |
| `ResultsNeverChange` | `Spec => ResultsImmutable` |
| `MessagesAreFollowed` | `Spec => []MessagesFollowTurns` |
| `GenerationsAreDistinct` | `Spec => []GenerationsIdentifyTurns` |
| `ContinuedSessionsStayOpen` | `Spec => ContinueKeepsSessionOpen` |
| `BudgetsAreRespected` | `Spec => []BudgetRespected` |
| `AutomaticTurnsAreCapped` | `Spec => []AutomaticTurnsCapped` |
| `QueuesAreExact` | `Spec => []QueueIsExact` |
| `DecidableTurnsArePending` | `Spec => []DecidableIsPending` |
| `BindingsAreSound` | `Spec => []BindingsSound` |
| `StatesAreAccepted` | `Spec => []StateAccepted` |
| `ReplaysAgree` | `ReplaySpec => []ReplayAgrees` |
| `FinalizerProofs!TypeCorrect` | `Spec => []TypeOK` |
| `MergesAreDecided` | `Spec => []MergeIsDecided` |
| `MergesAreVerified` | `Spec => []MergeIsVerified` |
| `RecordedMergesHappened` | `Spec => []RecordedMergeHappened` |
| `AnswersAreOne` | `Spec => []AnswersAgree` |
| `DecisionsAreKept` | `Spec => DecisionsKept` |
| `JournalProofs!TypeCorrect` | `Spec => []TypeOK` |
| `JournalStaysReadable` | `Spec => []AlwaysReadable` |
| `KeysExecuteOnce` | `Spec => []OneEntryPerKey` |
| `ExecutionsAreDurable` | `Spec => []ExecutedIsDurable` |
| `SnapshotsNeverLead` | `Spec => []SnapshotNeverLeads` |
| `ReceiptsAlwaysAgree` | `Spec => []ReceiptsAgree` |
| `JournalImplementsCommandLog` | `Spec => ImplementsCommandLog` |
| `ServiceRunsTheCore` | `ServiceSafety => Spec` (of `Supervisor`) |
| `HarnessesHoldTheirWorktree` | `ServiceSafety => []HarnessHoldsWorktree` |
| `AppliedStopsStay` | `ServiceSafety => []AppliedMeansStopped` |
| `ServiceTypeCorrect` | `ServiceSafety => []ServiceTypeOK` |
| `OutputsProofs!TypeCorrect` | `OutputsSpec => []TypeOK` |
| `CodexResultIsLatest` | `OutputsSpec => []CodexResultIsLatestCandidate` |
| `ExecutorMissesNoLine` | `OutputsSpec => []ExecutorMissesNothing`: of an executor that ends an Attempt alone, read whole lines and was neither paused nor refused one |
| `RestartsRecover` | `OutputsSpec => []AdoptionRecovers` |
| `AdoptersReadTheEnd` | `OutputsSpec => [][HasRead => UNCHANGED <<output, cut, running>>]_vars` |
| `SourcesAreImportedOnce` | `Spec => []SourceImportedOnce` |
| `ImportsAreWhole` | `Spec => []ImportsShowLedgers` |
| `ReplayedIsAlwaysAccepted` | `Spec => []ReplayedIsAccepted` |
| `ImportsTellHistories` | `Spec => []ImportTellsHistory` |
| `LegacyImportProofs!TypeCorrect` | `Spec => []TypeOK` |

`StateValid`, `WriterExclusion`, `ExitIsFinal`, `OneAcceptedControl`,
`ResultsImmutable`, `DecisionsKept`, `OneEntryPerKey`, `ServiceTypeOK`,
`ImportsShowLedgers` and the step property of `AdoptersReadTheEnd` are proved and not run as well. What stays with TLC is
liveness, `StopsTakeEffect`, `LaunchesEnd` and `QueueIsServed`, which is out of the
provers' reach under fairness.

## Findings

`StrandedGoal` (`ContinueHasNextTurn`): a `continue` decision that finds an
unresolved Activity on the Session takes it for the next turn
(`existingContinuation`), whether or not that Activity can still run. TLC's
trace, with one launch allowed per Activity: a turn is answered, a human replies twice, the
first reply's only launch fails before its turn, the second reply's turn runs
and the evaluator says `continue`. The decision adopts the first reply's
Activity, whose launch budget is spent, queues no Message and creates nothing:
the Result says `continue` and the goal has no turn left.
`docs/architecture.md:106-108` and `docs/protocol.md:59` promise the next turn
in the same transaction.

`ChangedHead` (`MergedMeansPreparedHead`): `Finalize` takes a pull request that
GitHub shows as merged for its own before it compares heads. TLC's trace: a
decision is prepared on one head, the head changes, somebody merges, and the
finalization is settled as merged; its record and the reported `head_sha` name a
commit that was not published. `docs/protocol.md:81-83` and
`docs/architecture.md:261-262` say that a changed head is fenced and fails
closed. (What this program merges itself is always the prepared head:
`MergesAreDecided`.)

`FailedSession` (`CompletedSessionSucceeded`): the watchdog kills its own process
group after the target ended, so `RunActivity` never sees the target's status; in
session mode it records code 0 for every end it did not cause itself, and the
Result is `completed` although the harness failed. The comment at
`internal/executor/executor.go:588` speaks of the "successful target exit", and
`docs/protocol.md:262-264` of a child exit code that the runner writes; only
`AdoptAttempt` reads it.

`EndlessPause` (`PauseSettles`): only the normal end of `RunActivity` calls
`SettlePause`. TLC's trace: a start fails, a pause fences the Attempt, the worker
records its exit and returns. The last Lease is released and the pause drains for
ever; adoption and reconciliation leave it draining in the same way.
`docs/protocol.md:239-240` promises the settle command.

Disagreements without a run of their own, since no property that is checked
speaks of them:

- The quiet-session check reconciles while this service's own workers run
  (`internal/service/v2.go:301`): it declares an Attempt dead that a worker has
  just prepared and not yet spawned, which `docs/architecture.md:193-195` excludes;
  the launch is lost, nothing else (`Supervision` and `Progress` contain these
  steps).
- `PendingTurns` lists the parent of a fallback child whose turn is undecided
  (`internal/supervisor/projection.go:175`), so the service asks again and again
  for a decision that is refused; the comment at `projection.go:345-346` says the
  parent is never returned to the scheduler.
- The status of an Execution lets each Node speak by its Activity of the highest
  generation (`projection.go:250`). Two replies to one Session queue generations 2
  and 3; when 3 runs first and completes, the Execution reads completed while 2 is
  queued and will run, and `handoff list` hides it, although `README.md:103-104`
  says that it shows every active workstream.
- `AdoptAttempt` returns the error of a torn exit record, or of a recovered
  milestone that is refused, and records no exit (`internal/executor/executor.go:92-103`).
  Within that service only the quiet check looks at the Attempt again, and it skips
  every Workflow that is not in session mode or has no cadence
  (`internal/service/v2.go:289`): the Attempt keeps its Lease, and its Activity stays
  out of the queue, until a service starts anew. `docs/protocol.md:262-264` says that
  missing or unknown exit evidence becomes blocked. (`Lost` excepts it from
  `StopsTakeEffect` and `LaunchesEnd`.)
- A startup deadline whose stop is refused, because another control was accepted since
  the last poll, leaves the harness running and the worker waiting for it
  (`internal/executor/executor.go:541-549`); the accepted control is never applied and a
  pause drains as long. `README.md:115-116` says that a pause waits for the executor
  to apply its controls. (`Unheard` excepts it from `StopsTakeEffect`.)
- `decodeFile` hands whatever it finds at the end of the file to the decoder, so a line
  that the harness has written in part is decoded as two lines
  (`internal/executor/executor.go:684-690`). For a Driver that parses JSON the first
  piece is an error, which stops a healthy harness and loses its turn; for the generic
  one a structured Result becomes two lines of text and no Result.
  `docs/architecture.md:186-187` says that the generic Driver preserves line output.
  `Outputs` contains these steps, and `ExecutorMissesNothing` is stated for executors
  that read whole lines because of them; an adopter reads finished files, so
  `AdoptionRecovers` needs no such exception.
- A retry of a journal command is answered from whatever entry replay finds
  (`journal.go:126`). If the first call's write reached the file and its fsync did
  not, the retry is told that the command committed, and a machine crash can still
  take the entry away. `docs/prior-art-codex-pi-omp.md:82` says that logs are
  "fsynced before confirming writes". What an execution itself answers is durable
  (`ExecutionsAreDurable`); `ReceiptsAgree` holds until the machine stops.
- A call of `Finalize` dies while its merge command runs; the retry finds a check
  running again, settles `blocked` for ever, and the command merges. The comment at
  `internal/supervisor/finalizer.go:228-230` promises that a retry settles the
  actual outcome. Two concurrent calls of one key can do the same.
- The legacy import counts completions and reopenings instead of following them
  (`import_v1.go:137`). A proposal that sets a completed Node to completed again
  counts a generation that never was, and a reopening after it yields no
  continuation; a Node reopened while it waited, then completed and superseded, is
  given one; a Node added as completed and then reopened loses its completed
  generation. `docs/adr/0003-one-way-v1-import.md:32-34` promises a completed
  generation followed by a continuation.

Observations without a document to hold against them: the second reconciliation
of a starting service may terminalize an adopted Attempt whose process just ended
before its adopter has read the output, and what it reported is lost; an Activity
all of whose providers are unavailable is queued and refused again for ever; a goal
without a turn limit may starve the Executions after it in the order of identities;
in session mode an exit
is the Result although no `result` milestone delivered the Message, which goes
back to the queue of a resolved Activity; a session whose start failed is
resolved as `blocked` by its exit and so is never retried; a fallback child does
not take over its parent's queued Message; `QueueActivity` compares Node
identities without their Workflow; a clock that steps back makes an Attempt's
exit unrecordable until it has caught up; a lock-free `View` reads a file in
several reads, and one that falls between a torn tail and its repair can join the
old beginning of a line with the new end.

## Plan

Done, in the order of importance: `Supervisor` with its proofs, `Finalizer` and
`Journal` with theirs, `Projection`, `Executor` and `Service` with theirs, then
`Reducer` and `Replay` with `StateProofs`, `Drivers` and `Outputs` with
`OutputsProofs`, and `LegacyImport` with its proofs. Every safety property of these
modules that a run checks is proved. What would come next, in this order:

1. Theorems of the service: that a worker's Attempt is the one its Activity's queue
   entry named, and that an accepted control is polled by the executor that holds
   the Attempt, as long as both live.
2. Liveness beyond `Progress`: a fallback and a crash in goal mode, and three
   Executions for two slots.
3. Two Workflows that compete for one worktree under the service, and a crash
   during a fallback.

## Not modelled

- `View` without the lock: one that falls between a torn tail and its repair can
  join the old beginning of a line with the new end. Nothing promises more, and a
  caller that acts on what it saw does so by a command, which replays under the
  lock.
- The clock, except for `NotBefore`: a clock that steps back makes an Attempt's
  exit unrecordable until it has caught up.
- The status of Nodes and Executions, summaries, `render.go`, CLI and TUI: displays.
- Of the legacy import: budgets and runtimes carried over, evidence and
  attestations (validated, never imported), the Execution record.
- Of the drivers: `Build`, which makes arguments and refuses settings before a
  launch, and the texts of milestones.
- Role ladders, which share no state with the modelled commands; the evaluator's
  prompt and the validation of its answer; private paths; command digests; Windows.
