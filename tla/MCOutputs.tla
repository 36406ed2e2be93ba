----------------------------- MODULE MCOutputs -----------------------------
(* The lines of each harness for TLC: one of every class its decoder tells   *)
(* apart, with two native identities and two worker statuses.                *)
EXTENDS Outputs, FiniteSets, TLC

Line(event, body) == [event |-> event, body |-> body]
OneOf(event, contents) == {Line(event, <<c>>) : c \in contents}

Texts == Status \cup {"prose"}
Errors == {<<"unavailable", "reason">>, <<"unavailable">>, <<"other", "reason">>}
ErrorLines(event) == {Line(event, body) : body \in Errors}

CodexLines ==
  OneOf("thread.started", NativeId) \cup OneOf("item.completed", Texts)
  \cup ErrorLines("error")
  \cup {Line("turn.started", <<>>), Line("item.started", <<"tool">>),
        Line("turn.completed", <<>>)}

ClaudeLines ==
  OneOf("system.init", NativeId) \cup ErrorLines("system.error")
  \cup OneOf("assistant", Texts)
  \cup {Line("assistant", <<"tool", "prose">>), Line("assistant", <<"completed", "prose">>),
        Line("result", <<"completed">>), Line("result", <<"unavailable", "reason">>)}

PiLines ==
  OneOf("session", NativeId) \cup OneOf("message_end", Texts \cup {"error"})
  \cup {Line("turn_start", <<>>), Line("tool_execution_start", <<"tool">>),
        Line("message_update", <<"prose">>), Line("agent_end", <<"prose", "completed">>)}

GenericLines == OneOf("text", Texts) \cup {Line("text", <<>>)}

HarnessLines ==
  [h \in Harness |->
     CASE h = "codex" -> CodexLines [] h = "claude" -> ClaudeLines
       [] h = "pi" -> PiLines [] h = "generic" -> GenericLines]

\* Claude and Pi do not know the mode; a goal differs by the results it accepts.
LaunchesThatMatter ==
  /\ launch.harness \in {"claude", "pi"} => launch.mode # "session"
  /\ launch.mode # "one_shot" => launch.native = None

\* What a reader does with a line does not depend on the lines after it, so a
\* decoder that lives is at most one line behind.
CloseBehind == live.pc \in {"reading", "waiting"} => Len(output) <= live.read + 1

\* Two readers at once, unfinished lines and pauses in short outputs; long ones
\* without a line that is refused before the last, and four lines of Codex alone,
\* whose Result takes three.
LongOutputsAreQuiet ==
  /\ Len(output) > 1 => ~paused
  /\ Len(output) > 2 =>
       /\ cut = None /\ ~live.pieces
       /\ adopter.pc = "none" \/ live.pc = "dead"
       /\ ToldBy(Front(output)) # None
  /\ Len(output) > 3 => launch.harness = "codex"

TypicalOutputs == LaunchesThatMatter /\ CloseBehind /\ LongOutputsAreQuiet

Identities == Permutations(NativeId)
=============================================================================
