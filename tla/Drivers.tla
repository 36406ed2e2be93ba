------------------------------ MODULE Drivers ------------------------------
(***************************************************************************)
(* The decoders of internal/driver: how a line of a harness's output       *)
(* becomes milestones.  A line is its event and the sequence of its        *)
(* contents, of which one that is missing or blank is left out:            *)
(*   - a worker status: text that is one result object of this status;     *)
(*   - "prose": any other text;                                            *)
(*   - "tool": a tool call; a native identity; in Pi "error": a message    *)
(*     without text that says why it failed;                               *)
(*   - for an error "unavailable" (a code of providerUnavailable) or       *)
(*     "other", and then its message, if it has one.                       *)
(* Two lines are no JSON: a "fragment", text cut off or of another kind,   *)
(* and the bare "newline" that is left of a line read without it.          *)
(***************************************************************************)
EXTENDS Naturals, Sequences

CONSTANTS None, NativeId, Status

ASSUME NoneAssumption == None \notin Status \cup NativeId

Word == {"prose", "tool", "error", "unavailable", "other", "reason"}

NotJSON == {"fragment", "newline"}
BindingEvents == {"thread.started", "system.init", "session"}
ErrorEvents == {"error", "system.error", "result"}

\* "unknown" is any event the decoders have no case for.
Event ==
  NotJSON \cup BindingEvents \cup ErrorEvents
  \cup {"turn.started", "item.started", "item.completed", "turn.completed", "turn.failed",
         "assistant", "turn_start", "tool_execution_start", "message_update", "message_end",
         "agent_end", "text", "unknown"}

\* A Session is bound by its native identity, and a message says why it failed.
IsLine(line) ==
  /\ line \in [event : Event, body : Seq(NativeId \cup Status \cup Word)]
  /\ line.event \in BindingEvents => line.body \in Seq(NativeId)
  /\ line.event \in ErrorEvents /\ Len(line.body) > 1 => line.body[2] = "reason"

Harness == {"codex", "claude", "pi", "generic"}

Fragment == [event |-> "fragment", body |-> <<>>]
Newline == [event |-> "newline", body |-> <<>>]
BlankText == [event |-> "text", body |-> <<>>]

\* The beginning of a line, or its end, taken for a line.
Part(line) == IF line = BlankText THEN Newline ELSE Fragment

FreshDecoder(sessionMode) ==
  [turn |-> FALSE, result |-> FALSE, pending |-> None, session |-> None,
   sessionMode |-> sessionMode]

\* What DecodeLine returns.
Emits(d, milestones) == [decoder |-> d, milestones |-> milestones, ok |-> TRUE]
Silent(d) == Emits(d, <<>>)
Fails(d) == [decoder |-> d, milestones |-> <<>>, ok |-> FALSE]

Milestone(kind) == [kind |-> kind, value |-> None]
Failure(kind, line) ==
  [kind |-> kind, value |-> IF Len(line.body) < 2 THEN None ELSE line.body[2]]
Binding(native) == [kind |-> "session_bound", value |-> native]
WorkerResult(status) == [kind |-> "result", value |-> status]

Content(line) == IF line.body = <<>> THEN None ELSE Head(line.body)

-----------------------------------------------------------------------------
(* codexDecoder: a structured message is a candidate until turn.completed. *)

CodexCompletes(d) ==
  IF d.pending # None
  THEN Emits([d EXCEPT !.result = TRUE], <<WorkerResult(d.pending)>>)
  ELSE IF d.sessionMode THEN Silent(d) ELSE Fails(d)

\* Mutant: a structured message is the Result at once.
CodexConcludes(d, content) ==
  IF content \in Status
  THEN Emits([d EXCEPT !.result = TRUE], <<WorkerResult(content)>>)
  ELSE IF content = None THEN Silent(d) ELSE Emits(d, <<Milestone("meaningful_progress")>>)

CodexMessage(d, content) ==
  IF content \in Status THEN Silent([d EXCEPT !.pending = content])
  ELSE IF content = None THEN Silent(d) ELSE Emits(d, <<Milestone("meaningful_progress")>>)

CodexEvent(d, line) ==
  LET event == line.event
      content == Content(line)
  IN
  CASE event = "thread.started" ->
         IF content = None THEN Fails(d) ELSE Emits(d, <<Binding(content)>>)
    [] event = "turn.started" ->
         IF d.turn THEN Fails(d)
         ELSE Emits([d EXCEPT !.turn = TRUE], <<Milestone("turn_started")>>)
    [] event = "item.started" ->
         IF content = None THEN Silent(d) ELSE Emits(d, <<Milestone("effect_started")>>)
    [] event = "item.completed" -> CodexMessage(d, content)
    [] event = "turn.completed" -> CodexCompletes(d)
    [] event = "error" ->
         IF content = "unavailable" THEN Emits(d, <<Failure("provider_unavailable", line)>>)
         ELSE IF Len(line.body) < 2 THEN Silent(d) ELSE Fails(d)
    [] event = "turn.failed" -> Fails(d)
    [] OTHER -> Silent(d)

\* Nothing after the Result is looked at, but it must still be JSON.
CodexLine(d, line) ==
  IF line.event \in NotJSON THEN Fails(d)
  ELSE IF d.result THEN Silent(d) ELSE CodexEvent(d, line)

-----------------------------------------------------------------------------
(* claudeDecoder: the first assistant message is the turn; the first       *)
(* structured text, of a message or of the closing event, is the Result.   *)

ClaudeConcludes(d, status) ==
  IF d.result THEN Silent(d)
  ELSE Emits([d EXCEPT !.result = TRUE], <<WorkerResult(status)>>)

ClaudeContent(d, content) ==
  IF content = "tool" THEN Emits(d, <<Milestone("effect_started")>>)
  ELSE IF content \in Status THEN ClaudeConcludes(d, content)
  ELSE Emits(d, <<Milestone("meaningful_progress")>>)

\* Each content in its order, with what the ones before it left in the decoder.
InTurn(Decode(_, _), start, contents) ==
  LET after[i \in 0 .. Len(contents)] ==
        IF i = 0 THEN start
        ELSE LET before == after[i - 1]
                 next == Decode(before.decoder, contents[i])
             IN  Emits(next.decoder, before.milestones \o next.milestones)
  IN  after[Len(contents)]

StartsTurn(d) ==
  IF d.turn THEN Silent(d) ELSE Emits([d EXCEPT !.turn = TRUE], <<Milestone("turn_started")>>)

ClaudeLine(d, line) ==
  LET content == Content(line) IN
  CASE line.event \in NotJSON -> Fails(d)
    [] line.event = "system.init" ->
         IF content = None THEN Fails(d) ELSE Emits(d, <<Binding(content)>>)
    [] line.event = "system.error" ->
         IF d.turn THEN Silent(d)
         ELSE IF content = "unavailable" THEN Emits(d, <<Failure("provider_unavailable", line)>>)
         ELSE Emits(d, <<Failure("adapter_start_failed", line)>>)
    [] line.event = "assistant" -> InTurn(ClaudeContent, StartsTurn(d), line.body)
    [] line.event = "result" ->
         IF content = "unavailable" THEN Emits(d, <<Failure("provider_unavailable", line)>>)
         ELSE IF content \in Status THEN ClaudeConcludes(d, content)
         ELSE Silent(d)
    [] OTHER -> Silent(d)

-----------------------------------------------------------------------------
(* piDecoder: one Session, one turn, and nothing said before the turn or   *)
(* after the Result.                                                       *)

PiStartFailed == [kind |-> "adapter_start_failed", value |-> "reason"]

PiMessage(d, content) ==
  IF d.result THEN Silent(d)
  ELSE IF content = "error"
  THEN IF d.turn THEN Silent(d) ELSE Emits(d, <<PiStartFailed>>)
  ELSE IF ~d.turn \/ content = None THEN Silent(d)
  ELSE IF content \in Status
  THEN Emits([d EXCEPT !.result = TRUE], <<WorkerResult(content)>>)
  ELSE Emits(d, <<Milestone("meaningful_progress")>>)

PiLine(d, line) ==
  LET content == Content(line) IN
  CASE line.event \in NotJSON -> Fails(d)
    [] line.event = "session" ->
         IF content = None \/ d.session \notin {None, content} THEN Fails(d)
         ELSE IF d.session = content THEN Silent(d)
         ELSE Emits([d EXCEPT !.session = content], <<Binding(content)>>)
    [] line.event = "turn_start" -> StartsTurn(d)
    [] line.event = "tool_execution_start" ->
         IF content = None THEN Silent(d) ELSE Emits(d, <<Milestone("effect_started")>>)
    [] line.event = "message_update" ->
         IF ~d.turn \/ content = None THEN Silent(d)
         ELSE Emits(d, <<Milestone("meaningful_progress")>>)
    [] line.event = "message_end" -> PiMessage(d, content)
    [] line.event = "agent_end" -> InTurn(PiMessage, Silent(d), line.body)
    [] OTHER -> Silent(d)

-----------------------------------------------------------------------------
(* genericDecoder: any text is output; a structured line is a Result unless *)
(* the Execution has session mode, and is not remembered.                   *)

GenericLine(d, line) ==
  IF line \in {Newline, BlankText} THEN Silent(d)
  ELSE LET started == StartsTurn(d)
           said == IF Content(line) \in Status /\ ~d.sessionMode
                   THEN WorkerResult(Content(line)) ELSE Milestone("meaningful_progress")
       IN  Emits(started.decoder, Append(started.milestones, said))

-----------------------------------------------------------------------------

DecodeLine(harness, d, line) ==
  CASE harness = "codex" -> CodexLine(d, line)
    [] harness = "claude" -> ClaudeLine(d, line)
    [] harness = "pi" -> PiLine(d, line)
    [] harness = "generic" -> GenericLine(d, line)

\* A file after each of its lines, given up at the first that does not decode.
Decodings(harness, d, lines) ==
  LET after[i \in 0 .. Len(lines)] ==
        IF i = 0 THEN Silent(d)
        ELSE LET before == after[i - 1]
                 next == DecodeLine(harness, before.decoder, lines[i])
             IN  IF ~before.ok THEN before
                 ELSE [next EXCEPT !.milestones = before.milestones \o @]
  IN  after

DecodeAll(harness, d, lines) == Decodings(harness, d, lines)[Len(lines)]
=============================================================================
