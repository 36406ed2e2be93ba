------------------------------ MODULE Outputs ------------------------------
(***************************************************************************)
(* The output of one launch and those who read it: the harness writes the  *)
(* file, the executor's decoder (decodeFile) follows it and records what   *)
(* it decodes, and after a restart an adopter (recoverAttemptOutput) reads *)
(* it again from its beginning and records what is missing.  The executor  *)
(* may be `handoff run` in a process of its own, so a service that starts  *)
(* adopts an Attempt whose executor died or one whose executor still runs. *)
(*                                                                         *)
(* What a recorded milestone does to Sessions, Messages and Leases is      *)
(* Supervisor's subject; here an Attempt is what validateMilestone knows   *)
(* of it.                                                                  *)
(***************************************************************************)
EXTENDS Drivers, SequencesExt

CONSTANTS
  Lines,      \* the lines a harness may print, by harness
  MaxLines    \* bound: lines of one output

ASSUME CutAssumption == None \notin {"half", "bare"}
ASSUME LinesAssumption == \A h \in Harness : \A line \in Lines[h] : IsLine(line) /\ line # Newline
ASSUME MaxLinesAssumption == MaxLines \in Nat

Kinds == {"process_spawned", "session_bound", "turn_started", "effect_started",
          "meaningful_progress", "result", "provider_unavailable", "adapter_start_failed", "exit"}

MilestoneRecord ==
  [kind : Kinds, value : NativeId \cup Status \cup {"reason", None}]

AttemptRecord ==
  [milestones : SUBSET Kinds, native : NativeId \cup {None}, result : Status \cup {None}]

ASSUME NilAssumption == None \notin MilestoneRecord \cup AttemptRecord

VARIABLES
  launch,     \* the harness, the Execution's mode, the native identity it resumes
  output,     \* the lines of the file, the last one perhaps unfinished
  cut,        \* how far the last line has come: "half", "bare" (all but its newline)
              \* or None, when it is finished
  running,    \* the harness's process group is alive
  attempt,    \* the recorded milestones, by kind; the Session's identity; the Result
  paused,     \* the Workflow is paused
  live,       \* the executor and its decoder
  adopter     \* AdoptAttempt of a service started later

vars == <<launch, output, cut, running, attempt, paused, live, adopter>>

Mode == {"one_shot", "goal", "session"}

NothingFound == [session |-> None, turn |-> None, progress |-> None, result |-> None]

NewLive(pc, mode) ==
  [pc |-> pc, read |-> 0, taken |-> None, todo |-> <<>>, stopping |-> FALSE,
   pieces |-> FALSE, decoder |-> FreshDecoder(mode = "session")]

Spawned == [milestones |-> {"process_spawned"}, native |-> launch.native, result |-> None]

OutputsInit ==
  /\ launch \in [harness : Harness, mode : Mode, native : NativeId \cup {None}]
  /\ launch.harness = "generic" => launch.native = None
  /\ output = <<>> /\ cut = None /\ running = TRUE /\ paused = FALSE
  /\ attempt = Spawned
  /\ live = NewLive("reading", launch.mode)
  /\ adopter = [pc |-> "none", alone |-> FALSE, stage |-> 1, todo |-> <<>>, found |-> NothingFound]

-----------------------------------------------------------------------------
(* RecordMilestone, for the milestones a decoder emits. *)

Fenced(known) == "exit" \in known.milestones \/ paused

Accepts(known, m) ==
  LET seen == known.milestones IN
  /\ seen \cap {"provider_unavailable", "adapter_start_failed", "result"} = {}
  /\ m.kind = "session_bound" => known.native \in {None, m.value}
  /\ m.kind \in {"turn_started", "provider_unavailable", "adapter_start_failed"}
       => "turn_started" \notin seen
  /\ m.kind \in {"provider_unavailable", "adapter_start_failed"} => m.value # None
  /\ m.kind \in {"effect_started", "meaningful_progress", "result"} => "turn_started" \in seen
  /\ m.kind = "result" => m.value # "continue" \/ launch.mode = "goal"

Recorded(known, m) ==
  [milestones |-> known.milestones \cup {m.kind},
   native |-> IF m.kind = "session_bound" THEN m.value ELSE known.native,
   result |-> IF m.kind = "result" THEN m.value ELSE known.result]

RecordExit ==
  attempt' = [attempt EXCEPT !.milestones = @ \cup {"exit"}]

-----------------------------------------------------------------------------
(* The harness. *)

HarnessPrints ==
  /\ running /\ cut = None /\ Len(output) < MaxLines
  /\ \E line \in Lines[launch.harness] : output' = Append(output, line)
  /\ cut' \in {None, "half", "bare"}
  /\ UNCHANGED <<launch, running, attempt, paused, live, adopter>>

HarnessContinues ==
  /\ running /\ cut # None
  /\ cut' \in {None, "bare"} \ {cut}
  /\ UNCHANGED <<launch, output, running, attempt, paused, live, adopter>>

\* It ends, or is stopped or killed by another.
HarnessEnds ==
  /\ running /\ running' = FALSE
  /\ UNCHANGED <<launch, output, cut, attempt, paused, live, adopter>>

Pause ==
  /\ ~paused /\ "exit" \notin attempt.milestones
  /\ paused' = TRUE
  /\ UNCHANGED <<launch, output, cut, running, attempt, live, adopter>>

-----------------------------------------------------------------------------
(* decodeFile: it takes what the file has, at its end also a line without  *)
(* its newline.                                                            *)

NextLine == live.read + 1

AtTail == NextLine = Len(output) /\ cut # None

Available ==
  /\ NextLine <= Len(output)
  /\ AtTail => cut # live.taken

Piece ==
  CASE live.taken = None -> IF AtTail /\ cut = "half" THEN Part(output[NextLine]) ELSE output[NextLine]
    [] live.taken = "half" -> Part(output[NextLine])
    [] live.taken = "bare" -> Newline

Follows == live.pc = "reading" /\ live.todo = <<>>

LiveReads ==
  /\ Follows /\ Available
  /\ LET out == DecodeLine(launch.harness, live.decoder, Piece) IN
       live' = [live EXCEPT !.pc = IF out.ok THEN "reading" ELSE "failed",
                            !.decoder = out.decoder, !.todo = out.milestones,
                            !.read = IF AtTail THEN @ ELSE NextLine,
                            !.taken = IF AtTail THEN cut ELSE None,
                            !.pieces = @ \/ AtTail]
  /\ UNCHANGED <<launch, output, cut, running, attempt, paused, adopter>>

LiveRecords ==
  /\ live.pc = "reading" /\ live.todo # <<>>
  /\ IF ~Fenced(attempt) /\ Accepts(attempt, Head(live.todo))
     THEN /\ attempt' = Recorded(attempt, Head(live.todo))
          /\ live' = [live EXCEPT !.todo = Tail(@)]
     ELSE live' = [live EXCEPT !.pc = "failed", !.todo = <<>>] /\ UNCHANGED attempt
  /\ UNCHANGED <<launch, output, cut, running, paused, adopter>>

LiveWaits ==
  /\ Follows /\ ~Available
  /\ live' = [live EXCEPT !.pc = IF live.stopping THEN "drained" ELSE "waiting"]
  /\ UNCHANGED <<launch, output, cut, running, attempt, paused, adopter>>

LiveWakes ==
  /\ live.pc = "waiting" /\ Available
  /\ live' = [live EXCEPT !.pc = "reading"]
  /\ UNCHANGED <<launch, output, cut, running, attempt, paused, adopter>>

\* Mutant: the decoder that hears the stop does not look again.
HearsAndLeaves ==
  /\ live.pc = "waiting" /\ ~running
  /\ live' = [live EXCEPT !.pc = "drained", !.stopping = TRUE]
  /\ UNCHANGED <<launch, output, cut, running, attempt, paused, adopter>>

\* The executor closes the stop channel once it has waited for the process.
LiveHearsStop ==
  /\ live.pc = "waiting" /\ ~running
  /\ live' = [live EXCEPT !.pc = "reading", !.stopping = TRUE]
  /\ UNCHANGED <<launch, output, cut, running, attempt, paused, adopter>>

\* A decoder that fails has the process stopped.
LiveFails ==
  /\ live.pc = "failed"
  /\ running' = FALSE
  /\ live' = [live EXCEPT !.pc = "drained"]
  /\ UNCHANGED <<launch, output, cut, attempt, paused, adopter>>

LiveExits ==
  /\ live.pc = "drained" /\ ~running
  /\ RecordExit
  /\ live' = [live EXCEPT !.pc = "done"]
  /\ UNCHANGED <<launch, output, cut, running, paused, adopter>>

LiveDies ==
  /\ live.pc \notin {"done", "dead"}
  /\ live' = NewLive("dead", launch.mode)
  /\ UNCHANGED <<launch, output, cut, running, attempt, paused, adopter>>

-----------------------------------------------------------------------------
(* AdoptAttempt and recoverAttemptOutput. *)

Adopt ==
  /\ adopter.pc = "none" /\ running /\ "exit" \notin attempt.milestones
  /\ adopter' = [adopter EXCEPT !.pc = "watching"]
  /\ UNCHANGED <<launch, output, cut, running, attempt, paused, live>>

\* The file as lines, its last one with or without a newline.
FileLines ==
  IF cut = "half" THEN [output EXCEPT ![Len(output)] = Part(@)] ELSE output

LastOf(milestones, kind) ==
  LET those == {i \in DOMAIN milestones : milestones[i].kind = kind}
  IN  IF those = {} THEN None ELSE milestones[Max(those)]

FoundIn(milestones) ==
  [session |-> LastOf(milestones, "session_bound"),
   turn |-> LastOf(milestones, "turn_started"),
   progress |-> LastOf(milestones, "meaningful_progress"),
   result |-> LastOf(milestones, "result")]

\* Mutant: the Execution's mode is forgotten.
PlainDecoder == FreshDecoder(FALSE)

AdopterDecoder == FreshDecoder(launch.mode = "session")

AdopterReads ==
  /\ adopter.pc = "watching" /\ ~running
  /\ LET out == DecodeAll(launch.harness, AdopterDecoder, FileLines) IN
       adopter' = IF out.ok
                  THEN [adopter EXCEPT !.pc = "looking", !.found = FoundIn(out.milestones),
                                       !.alone = live.pc = "dead"]
                  ELSE [adopter EXCEPT !.pc = "ending"]
  /\ UNCHANGED <<launch, output, cut, running, attempt, paused, live>>

Missing(condition, milestone) ==
  IF condition /\ milestone # None THEN <<milestone>> ELSE <<>>

\* What each of its three looks at the State finds missing.
Wanted ==
  LET found == adopter.found
      seen == attempt.milestones
  IN  CASE adopter.stage = 1 -> Missing(attempt.native = None, found.session)
        [] adopter.stage = 2 -> Missing("turn_started" \notin seen, found.turn)
        [] adopter.stage = 3 ->
             Missing("meaningful_progress" \notin seen, found.progress)
             \o Missing("result" \notin seen, found.result)

AdopterLooks ==
  /\ adopter.pc = "looking"
  /\ adopter' = IF "exit" \in attempt.milestones THEN [adopter EXCEPT !.pc = "ending"]
                ELSE [adopter EXCEPT !.pc = "recording", !.todo = Wanted]
  /\ UNCHANGED <<launch, output, cut, running, attempt, paused, live>>

\* A fenced milestone is passed over, a refused one ends the adoption.
AdopterRecords ==
  /\ adopter.pc = "recording" /\ adopter.todo # <<>>
  /\ LET m == Head(adopter.todo)
         accepted == ~Fenced(attempt) /\ Accepts(attempt, m)
     IN  /\ attempt' = IF accepted THEN Recorded(attempt, m) ELSE attempt
         /\ adopter' = IF accepted \/ Fenced(attempt)
                       THEN [adopter EXCEPT !.todo = Tail(@)]
                       ELSE [adopter EXCEPT !.pc = "failed", !.todo = <<>>]
  /\ UNCHANGED <<launch, output, cut, running, paused, live>>

\* Mutant: one stage more.
AdopterNeverEnds ==
  /\ adopter.pc = "recording" /\ adopter.todo = <<>>
  /\ adopter' = IF adopter.stage > 3 THEN [adopter EXCEPT !.pc = "ending"]
                ELSE [adopter EXCEPT !.pc = "looking", !.stage = @ + 1]
  /\ UNCHANGED <<launch, output, cut, running, attempt, paused, live>>

AdopterNext ==
  /\ adopter.pc = "recording" /\ adopter.todo = <<>>
  /\ adopter' = IF adopter.stage = 3 THEN [adopter EXCEPT !.pc = "ending"]
                ELSE [adopter EXCEPT !.pc = "looking", !.stage = @ + 1]
  /\ UNCHANGED <<launch, output, cut, running, attempt, paused, live>>

AdopterExits ==
  /\ adopter.pc = "ending"
  /\ RecordExit
  /\ adopter' = [adopter EXCEPT !.pc = "done"]
  /\ UNCHANGED <<launch, output, cut, running, paused, live>>

-----------------------------------------------------------------------------

HarnessStep == HarnessPrints \/ HarnessContinues \/ HarnessEnds

LiveStep ==
  \/ LiveReads \/ LiveRecords \/ LiveWaits \/ LiveWakes \/ LiveHearsStop
  \/ LiveFails \/ LiveExits \/ LiveDies

AdopterStep ==
  \/ Adopt \/ AdopterReads \/ AdopterLooks \/ AdopterRecords \/ AdopterNext \/ AdopterExits

OutputsNext == HarnessStep \/ Pause \/ LiveStep \/ AdopterStep

OutputsSpec == OutputsInit /\ [][OutputsNext]_vars

-----------------------------------------------------------------------------
(* Types. *)

\* Every variable has its type: readers are never ahead of the file, and what
\* they decoded and have not recorded yet are milestones.
TypeOK ==
  /\ launch \in [harness : Harness, mode : Mode, native : NativeId \cup {None}]
  /\ Len(output) <= MaxLines /\ ToSet(output) \subseteq Lines[launch.harness]
  /\ cut \in {None, "half", "bare"} /\ running \in BOOLEAN /\ paused \in BOOLEAN
  /\ attempt \in AttemptRecord
  /\ live.pc \in {"reading", "waiting", "failed", "drained", "done", "dead"}
  /\ live.read \in 0 .. Len(output) /\ live.taken \in {None, "half", "bare"}
  /\ live.taken # None => live.read < Len(output)
  /\ adopter.pc \in {"none", "watching", "looking", "recording", "ending", "failed", "done"}
  /\ adopter.stage \in 1 .. 3
  /\ ToSet(live.todo) \cup ToSet(adopter.todo) \subseteq MilestoneRecord

-----------------------------------------------------------------------------
(* Properties. *)

\* An Attempt after each of the milestones, None from the first that is refused.
Recording(milestones) ==
  LET after[i \in 0 .. Len(milestones)] ==
        IF i = 0 THEN Spawned
        ELSE LET before == after[i - 1]
             IN  IF before = None \/ ~Accepts(before, milestones[i]) THEN None
                 ELSE Recorded(before, milestones[i])
  IN  after

\* The Attempt after an executor that is never interrupted has read the whole
\* file line by line, or None if a line does not decode or is refused.
ToldBy(lines) ==
  LET out == DecodeAll(launch.harness, FreshDecoder(launch.mode = "session"), lines)
  IN  IF out.ok THEN Recording(out.milestones)[Len(out.milestones)] ELSE None

Told == ToldBy(FileLines)

\* An executor that ends an Attempt has recorded everything its harness printed,
\* up to the last line before the process ended, unless a line was refused, the
\* Workflow paused, or an unfinished line read in two pieces.
ExecutorMissesNothing ==
  live.pc = "done" /\ adopter.pc = "none" /\ ~live.pieces /\ ~paused /\ Told # None
    => attempt = [Told EXCEPT !.milestones = @ \cup {"exit"}]

\* What a restart finds is what the executor that died, at whichever line and
\* between whichever two records, would have recorded: the adoption of readable
\* output is never refused, and the turn, the native identity and the Result are
\* in the end those of the whole file.
AdoptionRecovers ==
  adopter.pc \in {"failed", "done"} /\ adopter.alone /\ ~paused /\ Told # None
    => /\ adopter.pc = "done"
       /\ attempt.native = Told.native /\ attempt.result = Told.result
       /\ "turn_started" \in attempt.milestones <=> "turn_started" \in Told.milestones

Candidate(i) == output[i].event = "item.completed" /\ Content(output[i]) \in Status

\* status is that of the latest structured message before a turn.completed that
\* follows it.
EndsTurn(status) ==
  \E i, end \in DOMAIN output :
    /\ i < end /\ output[end].event = "turn.completed"
    /\ Candidate(i) /\ Content(output[i]) = status
    /\ \A j \in 1 .. end - 1 : Candidate(j) => j <= i
    /\ \A j \in i + 1 .. end - 1 : output[j].event # "turn.completed"

\* Codex: whoever records it, the executor, from pieces of lines or not, or an
\* adopter, the Result is the latest structured message before the turn.completed
\* that ends the turn, and there is none without it.
CodexResultIsLatestCandidate ==
  launch.harness = "codex" /\ attempt.result # None => EndsTurn(attempt.result)
=============================================================================
