--------------------------- MODULE OutputsProofs ---------------------------
(***************************************************************************)
(* The readers of one output: the executor, which reads while the harness  *)
(* writes, pieces of lines included, and an adopter, which reads a file    *)
(* nobody writes any more.  Decoding a file and recording what it says are *)
(* functions of the first n lines and of the first n milestones; module    *)
(* Recursion gives both their equations.  The invariants, each on the one  *)
(* before:                                                                 *)
(*   Typed           the types, those of every decoded milestone included; *)
(*   ExecutorSound,  the decoder of Codex holds the latest candidate, and  *)
(*   ReadersSound    only a latest candidate is on its way to the State;   *)
(*   FollowerSound   what was decoded is what the lines read so far say,   *)
(*                   and the Attempt is what some first milestones of it   *)
(*                   make of it, also after a failure or a death;          *)
(*   PlainSound      the same for plain text, where a piece of a line is   *)
(*                   read as a line and only less is known: which kinds    *)
(*                   were recorded, and a Result only of a whole line;     *)
(*   AdoptersSound   the Attempt an adopter finds is a part of what the    *)
(*                   file tells, and its stages make it all of it.         *)
(***************************************************************************)
EXTENDS Outputs, Recursion

-----------------------------------------------------------------------------
(* Decoders: their parts have their types after every line. *)

\* What a decoder may say.
Said ==
  {m \in MilestoneRecord :
     /\ m.kind \notin {"process_spawned", "exit"}
     /\ m.kind = "session_bound" => m.value \in NativeId
     /\ m.kind = "result" => m.value \in Status
     /\ m.kind \in {"turn_started", "effect_started", "meaningful_progress"} => m.value = None}

DecoderRecord ==
  [turn : BOOLEAN, result : BOOLEAN, pending : Status \cup {None},
   session : NativeId \cup {None}, sessionMode : BOOLEAN]

DecodedRecord == [decoder : DecoderRecord, milestones : Seq(Said), ok : BOOLEAN]

LEMMA MilestonesAreSaid ==
  /\ \A kind \in {"turn_started", "effect_started", "meaningful_progress"} : Milestone(kind) \in Said
  /\ \A native \in NativeId : Binding(native) \in Said
  /\ \A status \in Status : WorkerResult(status) \in Said
  /\ PiStartFailed \in Said
<1>1. \A kind \in {"turn_started", "effect_started", "meaningful_progress"} : Milestone(kind) \in Said
  BY DEF Milestone, Said, MilestoneRecord, Kinds
<1>2. \A native \in NativeId : Binding(native) \in Said
  BY DEF Binding, Said, MilestoneRecord, Kinds
<1>3. \A status \in Status : WorkerResult(status) \in Said
  BY DEF WorkerResult, Said, MilestoneRecord, Kinds
<1>4. PiStartFailed \in Said
  BY DEF PiStartFailed, Said, MilestoneRecord, Kinds
<1> QED
  BY <1>1, <1>2, <1>3, <1>4

LEMMA FailuresAreSaid ==
  ASSUME NEW line, IsLine(line), line.event \in ErrorEvents,
         NEW kind \in {"provider_unavailable", "adapter_start_failed"}
  PROVE  Failure(kind, line) \in Said
<1>1. Len(line.body) \in Nat
  BY DEF IsLine
<1>2. PICK value : value = IF Len(line.body) < 2 THEN None ELSE line.body[2]
  OBVIOUS
<1>3. value \in {"reason", None}
  BY <1>1, <1>2 DEF IsLine
<1>4. [kind |-> kind, value |-> value] \in Said
  BY <1>3 DEF Said, MilestoneRecord, Kinds
<1> QED
  BY <1>2, <1>4 DEF Failure

LEMMA EmitsTyped ==
  ASSUME NEW d \in DecoderRecord, NEW milestones \in Seq(Said)
  PROVE  Emits(d, milestones) \in DecodedRecord
BY DEF Emits, DecodedRecord

LEMMA SilentTyped ==
  ASSUME NEW d \in DecoderRecord
  PROVE  Silent(d) \in DecodedRecord /\ Fails(d) \in DecodedRecord
<1>1. <<>> \in Seq(Said)
  OBVIOUS
<1> QED
  BY <1>1 DEF Emits, Silent, Fails, DecodedRecord

LEMMA OneMilestone ==
  ASSUME NEW d \in DecoderRecord, NEW m \in Said
  PROVE  Emits(d, <<m>>) \in DecodedRecord
<1>1. <<m>> \in Seq(Said)
  OBVIOUS
<1> QED
  BY <1>1, EmitsTyped

LEMMA DecoderChanges ==
  ASSUME NEW d \in DecoderRecord
  PROVE  /\ [d EXCEPT !.turn = TRUE] \in DecoderRecord
         /\ [d EXCEPT !.result = TRUE] \in DecoderRecord
         /\ \A status \in Status : [d EXCEPT !.pending = status] \in DecoderRecord
         /\ \A native \in NativeId : [d EXCEPT !.session = native] \in DecoderRecord
BY DEF DecoderRecord

LEMMA FreshIsTyped == \A mode \in BOOLEAN : FreshDecoder(mode) \in DecoderRecord
BY DEF FreshDecoder, DecoderRecord

LEMMA ContentIsTyped ==
  ASSUME NEW line, IsLine(line), Content(line) # None
  PROVE  /\ Content(line) \in NativeId \cup Status \cup Word
         /\ line.event \in BindingEvents => Content(line) \in NativeId
         /\ line.body # <<>> /\ Content(line) = line.body[1]
<1>1. line.body # <<>> /\ Content(line) = Head(line.body)
  BY DEF Content
<1>2. line.body \in Seq(NativeId \cup Status \cup Word)
  BY DEF IsLine
<1>3. line.body[1] \in NativeId \cup Status \cup Word /\ Head(line.body) = line.body[1]
  BY <1>1, <1>2
<1>4. line.event \in BindingEvents => line.body[1] \in NativeId
  <2> SUFFICES ASSUME line.event \in BindingEvents PROVE line.body[1] \in NativeId
    OBVIOUS
  <2>1. line.body \in Seq(NativeId)
    BY DEF IsLine
  <2> QED
    BY <1>1, <2>1
<1> QED
  BY <1>1, <1>3, <1>4

-----------------------------------------------------------------------------

LEMMA CodexIsTyped ==
  ASSUME NEW d \in DecoderRecord, NEW line, IsLine(line)
  PROVE  CodexLine(d, line) \in DecodedRecord
<1> DEFINE content == Content(line)
<1>0. /\ Silent(d) \in DecodedRecord /\ Fails(d) \in DecodedRecord
  BY SilentTyped
<1>1. CASE line.event = "thread.started"
  <2>1. content # None => Emits(d, <<Binding(content)>>) \in DecodedRecord
    <3> SUFFICES ASSUME content # None PROVE Binding(content) \in Said
      BY OneMilestone
    <3> QED
      BY <1>1, ContentIsTyped, MilestonesAreSaid DEF BindingEvents
  <2> QED
    BY <1>0, <1>1, <2>1 DEF CodexLine, CodexEvent
<1>2. CASE line.event = "turn.started"
  <2>1. Emits([d EXCEPT !.turn = TRUE], <<Milestone("turn_started")>>) \in DecodedRecord
    BY DecoderChanges, MilestonesAreSaid, OneMilestone
  <2> QED
    BY <1>0, <1>2, <2>1 DEF CodexLine, CodexEvent
<1>3. CASE line.event = "item.started"
  <2>1. Emits(d, <<Milestone("effect_started")>>) \in DecodedRecord
    BY MilestonesAreSaid, OneMilestone
  <2> QED
    BY <1>0, <1>3, <2>1 DEF CodexLine, CodexEvent
<1>4. CASE line.event = "item.completed"
  <2>1. Emits(d, <<Milestone("meaningful_progress")>>) \in DecodedRecord
    BY MilestonesAreSaid, OneMilestone
  <2>2. content \in Status => Silent([d EXCEPT !.pending = content]) \in DecodedRecord
    <3> HIDE DEF content
    <3>1. content \in Status => [d EXCEPT !.pending = content] \in DecoderRecord
      BY DecoderChanges
    <3> QED
      BY <3>1, SilentTyped
  <2>3. CodexMessage(d, content) \in DecodedRecord
    BY <1>0, <2>1, <2>2 DEF CodexMessage
  <2> QED
    BY <1>0, <1>4, <2>3 DEF CodexLine, CodexEvent
<1>5. CASE line.event = "turn.completed"
  <2>1. d.pending # None => WorkerResult(d.pending) \in Said
    BY MilestonesAreSaid DEF DecoderRecord
  <2>2. d.pending # None
          => Emits([d EXCEPT !.result = TRUE], <<WorkerResult(d.pending)>>) \in DecodedRecord
    BY <2>1, DecoderChanges, OneMilestone
  <2>3. CodexCompletes(d) \in DecodedRecord
    BY <1>0, <2>2 DEF CodexCompletes
  <2> QED
    BY <1>0, <1>5, <2>3 DEF CodexLine, CodexEvent
<1>6. CASE line.event = "error"
  <2>1. Emits(d, <<Failure("provider_unavailable", line)>>) \in DecodedRecord
    BY <1>6, FailuresAreSaid, OneMilestone DEF ErrorEvents
  <2> QED
    BY <1>0, <1>6, <2>1 DEF CodexLine, CodexEvent
<1>7. CASE line.event \notin {"thread.started", "turn.started", "item.started", "item.completed",
                              "turn.completed", "error"}
  BY <1>0, <1>7 DEF CodexLine, CodexEvent
<1> QED
  BY <1>1, <1>2, <1>3, <1>4, <1>5, <1>6, <1>7

-----------------------------------------------------------------------------

LEMMA StartsTurnIsTyped ==
  ASSUME NEW d \in DecoderRecord
  PROVE  StartsTurn(d) \in DecodedRecord
<1>1. Emits([d EXCEPT !.turn = TRUE], <<Milestone("turn_started")>>) \in DecodedRecord
  BY DecoderChanges, MilestonesAreSaid, OneMilestone
<1> QED
  BY <1>1, SilentTyped DEF StartsTurn

LEMMA ClaudeConcludesIsTyped ==
  ASSUME NEW d \in DecoderRecord, NEW status \in Status
  PROVE  ClaudeConcludes(d, status) \in DecodedRecord
<1>1. Emits([d EXCEPT !.result = TRUE], <<WorkerResult(status)>>) \in DecodedRecord
  BY DecoderChanges, MilestonesAreSaid, OneMilestone
<1> QED
  BY <1>1, SilentTyped DEF ClaudeConcludes

LEMMA ClaudeContentIsTyped ==
  ASSUME NEW d \in DecoderRecord, NEW content
  PROVE  ClaudeContent(d, content) \in DecodedRecord
<1>1. \A kind \in {"effect_started", "meaningful_progress"} :
        Emits(d, <<Milestone(kind)>>) \in DecodedRecord
  BY MilestonesAreSaid, OneMilestone
<1> QED
  BY <1>1, ClaudeConcludesIsTyped DEF ClaudeContent

LEMMA PiMessageIsTyped ==
  ASSUME NEW d \in DecoderRecord, NEW content
  PROVE  PiMessage(d, content) \in DecodedRecord
<1>1. Emits(d, <<PiStartFailed>>) \in DecodedRecord
  BY MilestonesAreSaid, OneMilestone
<1>2. Emits(d, <<Milestone("meaningful_progress")>>) \in DecodedRecord
  BY MilestonesAreSaid, OneMilestone
<1>3. \A status \in Status :
        Emits([d EXCEPT !.result = TRUE], <<WorkerResult(status)>>) \in DecodedRecord
  BY DecoderChanges, MilestonesAreSaid, OneMilestone
<1> QED
  BY <1>1, <1>2, <1>3, SilentTyped DEF PiMessage

\* What comes out of some contents and then of one more.
LEMMA JoinIsTyped ==
  ASSUME NEW before \in DecodedRecord, NEW next \in DecodedRecord
  PROVE  /\ Emits(next.decoder, before.milestones \o next.milestones) \in DecodedRecord
         /\ [next EXCEPT !.milestones = before.milestones \o @] \in DecodedRecord
<1>1. before.milestones \in Seq(Said) /\ next.milestones \in Seq(Said) /\ next.decoder \in DecoderRecord
  BY DEF DecodedRecord
<1>2. before.milestones \o next.milestones \in Seq(Said)
  BY <1>1
<1>3. PICK all : all = before.milestones \o next.milestones
  OBVIOUS
<1>4. [next EXCEPT !.milestones = all] \in DecodedRecord
  BY <1>2, <1>3 DEF DecodedRecord
<1> QED
  BY <1>1, <1>2, <1>3, <1>4, EmitsTyped

HasLength(contents) == Len(contents) \in Nat

LEMMA ClaudeMessageIsTyped ==
  ASSUME NEW start \in DecodedRecord, NEW contents, HasLength(contents)
  PROVE  InTurn(ClaudeContent, start, contents) \in DecodedRecord
<1> DEFINE N == Len(contents)
           Joined(before, content) ==
             LET next == ClaudeContent(before.decoder, content)
             IN  Emits(next.decoder, before.milestones \o next.milestones)
           Is(after) ==
             after = [i \in 0 .. N |->
                IF i = 0 THEN start
                ELSE LET before == after[i - 1]
                         next == ClaudeContent(before.decoder, contents[i])
                     IN  Emits(next.decoder, before.milestones \o next.milestones)]
<1>1. N \in Nat
  BY DEF HasLength
<1>2. \A before \in DecodedRecord : \A content : Joined(before, content) \in DecodedRecord
  <2> TAKE before \in DecodedRecord
  <2> TAKE content
  <2>1. before.decoder \in DecoderRecord
    BY DEF DecodedRecord
  <2> QED
    BY <2>1, ClaudeContentIsTyped, JoinIsTyped
<1>3. PICK step : step = [i \in 1 .. N |-> [before \in DecodedRecord |-> Joined(before, contents[i])]]
  OBVIOUS
<1>4. step \in [1 .. N -> [DecodedRecord -> DecodedRecord]]
  <2> HIDE DEF Joined
  <2> QED
    BY <1>2, <1>3
<1>5. PICK f \in [0 .. N -> DecodedRecord] :
        f[0] = start /\ \A i \in 1 .. N : f[i] = step[i][f[i - 1]]
  <2> HIDE DEF N
  <2> QED
    BY <1>1, <1>4, RecursionIsDefined
<1>6. ASSUME NEW i \in 1 .. N PROVE f[i] = Joined(f[i - 1], contents[i])
  <2>1. i - 1 \in 0 .. N
    BY <1>1
  <2>2. f[i - 1] \in DecodedRecord
    BY <2>1
  <2> HIDE DEF Joined
  <2> QED
    BY <1>3, <1>5, <2>2
<1>7. Is(f)
  BY <1>1, <1>5, <1>6
<1>8. InTurn(ClaudeContent, start, contents) = (CHOOSE after : Is(after))[N]
  BY DEF InTurn
<1>9. PICK after : Is(after) /\ InTurn(ClaudeContent, start, contents) = after[N]
  <2> HIDE DEF Is
  <2> QED
    BY <1>7, <1>8
<1>10. after[0] = start /\ \A i \in 1 .. N : after[i] = Joined(after[i - 1], contents[i])
  <2>1. /\ 0 \in 0 .. N
        /\ \A i \in 1 .. N : i \in 0 .. N /\ i # 0
    BY <1>1
  <2>2. \A i \in 0 .. N : after[i] = IF i = 0 THEN start ELSE Joined(after[i - 1], contents[i])
    BY <1>9, Zenon
  <2> HIDE DEF Joined
  <2> QED
    BY <2>1, <2>2
<1> DEFINE T == {i \in 0 .. N : after[i] \in DecodedRecord}
<1>11. 0 \in T
  BY <1>1, <1>10
<1>12. ASSUME NEW i \in 1 .. N, i - 1 \in T PROVE i \in T
  <2> HIDE DEF Joined
  <2> QED
    BY <1>2, <1>10, <1>12
<1>13. 0 .. N \subseteq T
  <2> HIDE DEF T
  <2> QED
    BY <1>1, <1>11, <1>12, EveryStep
<1> HIDE DEF N
<1> QED
  BY <1>1, <1>9, <1>13

LEMMA PiEndIsTyped ==
  ASSUME NEW start \in DecodedRecord, NEW contents, HasLength(contents)
  PROVE  InTurn(PiMessage, start, contents) \in DecodedRecord
<1> DEFINE N == Len(contents)
           Joined(before, content) ==
             LET next == PiMessage(before.decoder, content)
             IN  Emits(next.decoder, before.milestones \o next.milestones)
           Is(after) ==
             after = [i \in 0 .. N |->
                IF i = 0 THEN start
                ELSE LET before == after[i - 1]
                         next == PiMessage(before.decoder, contents[i])
                     IN  Emits(next.decoder, before.milestones \o next.milestones)]
<1>1. N \in Nat
  BY DEF HasLength
<1>2. \A before \in DecodedRecord : \A content : Joined(before, content) \in DecodedRecord
  <2> TAKE before \in DecodedRecord
  <2> TAKE content
  <2>1. before.decoder \in DecoderRecord
    BY DEF DecodedRecord
  <2> QED
    BY <2>1, PiMessageIsTyped, JoinIsTyped
<1>3. PICK step : step = [i \in 1 .. N |-> [before \in DecodedRecord |-> Joined(before, contents[i])]]
  OBVIOUS
<1>4. step \in [1 .. N -> [DecodedRecord -> DecodedRecord]]
  <2> HIDE DEF Joined
  <2> QED
    BY <1>2, <1>3
<1>5. PICK f \in [0 .. N -> DecodedRecord] :
        f[0] = start /\ \A i \in 1 .. N : f[i] = step[i][f[i - 1]]
  <2> HIDE DEF N
  <2> QED
    BY <1>1, <1>4, RecursionIsDefined
<1>6. ASSUME NEW i \in 1 .. N PROVE f[i] = Joined(f[i - 1], contents[i])
  <2>1. i - 1 \in 0 .. N
    BY <1>1
  <2>2. f[i - 1] \in DecodedRecord
    BY <2>1
  <2> HIDE DEF Joined
  <2> QED
    BY <1>3, <1>5, <2>2
<1>7. Is(f)
  BY <1>1, <1>5, <1>6
<1>8. InTurn(PiMessage, start, contents) = (CHOOSE after : Is(after))[N]
  BY DEF InTurn
<1>9. PICK after : Is(after) /\ InTurn(PiMessage, start, contents) = after[N]
  <2> HIDE DEF Is
  <2> QED
    BY <1>7, <1>8
<1>10. after[0] = start /\ \A i \in 1 .. N : after[i] = Joined(after[i - 1], contents[i])
  <2>1. /\ 0 \in 0 .. N
        /\ \A i \in 1 .. N : i \in 0 .. N /\ i # 0
    BY <1>1
  <2>2. \A i \in 0 .. N : after[i] = IF i = 0 THEN start ELSE Joined(after[i - 1], contents[i])
    BY <1>9, Zenon
  <2> HIDE DEF Joined
  <2> QED
    BY <2>1, <2>2
<1> DEFINE T == {i \in 0 .. N : after[i] \in DecodedRecord}
<1>11. 0 \in T
  BY <1>1, <1>10
<1>12. ASSUME NEW i \in 1 .. N, i - 1 \in T PROVE i \in T
  <2> HIDE DEF Joined
  <2> QED
    BY <1>2, <1>10, <1>12
<1>13. 0 .. N \subseteq T
  <2> HIDE DEF T
  <2> QED
    BY <1>1, <1>11, <1>12, EveryStep
<1> HIDE DEF N
<1> QED
  BY <1>1, <1>9, <1>13

LEMMA ClaudeIsTyped ==
  ASSUME NEW d \in DecoderRecord, NEW line, IsLine(line)
  PROVE  ClaudeLine(d, line) \in DecodedRecord
<1> DEFINE content == Content(line)
<1>0. /\ Silent(d) \in DecodedRecord /\ Fails(d) \in DecodedRecord
  BY SilentTyped
<1>1. CASE line.event \in NotJSON
  BY <1>0, <1>1 DEF ClaudeLine, NotJSON
<1>2. CASE line.event = "system.init"
  <2>1. content # None => Emits(d, <<Binding(content)>>) \in DecodedRecord
    <3> SUFFICES ASSUME content # None PROVE Binding(content) \in Said
      BY OneMilestone
    <3> QED
      BY <1>2, ContentIsTyped, MilestonesAreSaid DEF BindingEvents
  <2> QED
    BY <1>0, <1>2, <2>1 DEF ClaudeLine, NotJSON
<1>3. CASE line.event \in {"system.error", "result"}
  <2>1. \A kind \in {"provider_unavailable", "adapter_start_failed"} :
          Emits(d, <<Failure(kind, line)>>) \in DecodedRecord
    BY <1>3, FailuresAreSaid, OneMilestone DEF ErrorEvents
  <2> QED
    BY <1>0, <1>3, <2>1, ClaudeConcludesIsTyped DEF ClaudeLine, NotJSON
<1>4. CASE line.event = "assistant"
  <2>1. InTurn(ClaudeContent, StartsTurn(d), line.body) \in DecodedRecord
    <3>1. StartsTurn(d) \in DecodedRecord /\ HasLength(line.body)
      BY StartsTurnIsTyped DEF IsLine, HasLength
    <3> QED
      BY <3>1, ClaudeMessageIsTyped
  <2> QED
    BY <1>4, <2>1 DEF ClaudeLine, NotJSON
<1>5. CASE line.event \notin NotJSON \cup {"system.init", "system.error", "result", "assistant"}
  BY <1>0, <1>5 DEF ClaudeLine
<1> QED
  BY <1>1, <1>2, <1>3, <1>4, <1>5

LEMMA PiIsTyped ==
  ASSUME NEW d \in DecoderRecord, NEW line, IsLine(line)
  PROVE  PiLine(d, line) \in DecodedRecord
<1> DEFINE content == Content(line)
<1>0. /\ Silent(d) \in DecodedRecord /\ Fails(d) \in DecodedRecord
  BY SilentTyped
<1>1. CASE line.event \in NotJSON
  BY <1>0, <1>1 DEF PiLine, NotJSON
<1>2. CASE line.event = "session"
  <2>1. content # None => Emits([d EXCEPT !.session = content], <<Binding(content)>>) \in DecodedRecord
    <3> SUFFICES ASSUME content # None
                 PROVE  Binding(content) \in Said /\ [d EXCEPT !.session = content] \in DecoderRecord
      BY OneMilestone
    <3>1. content \in NativeId
      BY <1>2, ContentIsTyped DEF BindingEvents
    <3> HIDE DEF content
    <3> QED
      BY <3>1, DecoderChanges, MilestonesAreSaid
  <2> QED
    BY <1>0, <1>2, <2>1 DEF PiLine, NotJSON
<1>3. CASE line.event = "turn_start"
  BY <1>3, StartsTurnIsTyped DEF PiLine, NotJSON
<1>4. CASE line.event \in {"tool_execution_start", "message_update"}
  <2>1. \A kind \in {"effect_started", "meaningful_progress"} :
          Emits(d, <<Milestone(kind)>>) \in DecodedRecord
    BY MilestonesAreSaid, OneMilestone
  <2> QED
    BY <1>0, <1>4, <2>1 DEF PiLine, NotJSON
<1>5. CASE line.event = "message_end"
  BY <1>5, PiMessageIsTyped DEF PiLine, NotJSON
<1>6. CASE line.event = "agent_end"
  <2>1. InTurn(PiMessage, Silent(d), line.body) \in DecodedRecord
    <3>1. HasLength(line.body)
      BY DEF IsLine, HasLength
    <3> QED
      BY <1>0, <3>1, PiEndIsTyped
  <2> QED
    BY <1>6, <2>1 DEF PiLine, NotJSON
<1>7. CASE line.event \notin NotJSON \cup {"session", "turn_start", "tool_execution_start",
                                           "message_update", "message_end", "agent_end"}
  BY <1>0, <1>7 DEF PiLine
<1> QED
  BY <1>1, <1>2, <1>3, <1>4, <1>5, <1>6, <1>7

LEMMA GenericIsTyped ==
  ASSUME NEW d \in DecoderRecord, NEW line
  PROVE  GenericLine(d, line) \in DecodedRecord
<1>1. CASE line \in {Newline, BlankText}
  BY <1>1, SilentTyped DEF GenericLine
<1>2. CASE line \notin {Newline, BlankText}
  <2>1. PICK started : started = StartsTurn(d) /\ started \in DecodedRecord
    BY StartsTurnIsTyped
  <2>2. PICK said : said = IF Content(line) \in Status /\ ~d.sessionMode
                           THEN WorkerResult(Content(line)) ELSE Milestone("meaningful_progress")
    OBVIOUS
  <2>3. said \in Said
    BY <2>2, MilestonesAreSaid
  <2>4. started.decoder \in DecoderRecord /\ started.milestones \in Seq(Said)
    BY <2>1 DEF DecodedRecord
  <2>5. Append(started.milestones, said) \in Seq(Said)
    BY <2>3, <2>4
  <2>6. GenericLine(d, line) = Emits(started.decoder, Append(started.milestones, said))
    BY <1>2, <2>1, <2>2 DEF GenericLine
  <2> QED
    BY <2>4, <2>5, <2>6, EmitsTyped
<1> QED
  BY <1>1, <1>2

LEMMA LineIsTyped ==
  ASSUME NEW harness \in Harness, NEW d \in DecoderRecord, NEW line, IsLine(line)
  PROVE  DecodeLine(harness, d, line) \in DecodedRecord
BY CodexIsTyped, ClaudeIsTyped, PiIsTyped, GenericIsTyped DEF DecodeLine, Harness

-----------------------------------------------------------------------------
(* Files and Attempts: decoding line by line, and recording one by one, are defined. *)

AreLines(lines) == Len(lines) \in Nat /\ \A i \in 1 .. Len(lines) : IsLine(lines[i])

\* One line more, after the ones before it.
Then(harness, before, line) ==
  LET next == DecodeLine(harness, before.decoder, line)
  IN  IF ~before.ok THEN before ELSE [next EXCEPT !.milestones = before.milestones \o @]

LEMMA ThenIsTyped ==
  ASSUME NEW harness \in Harness, NEW before \in DecodedRecord, NEW line, IsLine(line)
  PROVE  Then(harness, before, line) \in DecodedRecord
<1>1. before.decoder \in DecoderRecord
  BY DEF DecodedRecord
<1>2. DecodeLine(harness, before.decoder, line) \in DecodedRecord
  BY <1>1, LineIsTyped
<1>3. PICK next : next = DecodeLine(harness, before.decoder, line)
  OBVIOUS
<1>4. [next EXCEPT !.milestones = before.milestones \o @] \in DecodedRecord
  BY <1>2, <1>3, JoinIsTyped
<1> QED
  BY <1>3, <1>4 DEF Then

LEMMA DecodingsSteps ==
  ASSUME NEW harness \in Harness, NEW d \in DecoderRecord, NEW lines, AreLines(lines)
  PROVE  LET after == Decodings(harness, d, lines)
             N == Len(lines)
         IN  /\ after \in [0 .. N -> DecodedRecord]
             /\ after[0] = Silent(d)
             /\ \A i \in 1 .. N : after[i] = Then(harness, after[i - 1], lines[i])
<1> DEFINE N == Len(lines)
           Is(after) ==
             after = [i \in 0 .. N |->
                IF i = 0 THEN Silent(d)
                ELSE LET before == after[i - 1]
                         next == DecodeLine(harness, before.decoder, lines[i])
                     IN  IF ~before.ok THEN before
                         ELSE [next EXCEPT !.milestones = before.milestones \o @]]
<1>1. N \in Nat /\ \A i \in 1 .. N : IsLine(lines[i])
  BY DEF AreLines
<1>2. Silent(d) \in DecodedRecord
  BY SilentTyped
<1>3. \A i \in 1 .. N : \A before \in DecodedRecord :
        Then(harness, before, lines[i]) \in DecodedRecord
  BY <1>1, ThenIsTyped
<1>4. PICK step : step = [i \in 1 .. N |->
                            [before \in DecodedRecord |-> Then(harness, before, lines[i])]]
  OBVIOUS
<1>5. step \in [1 .. N -> [DecodedRecord -> DecodedRecord]]
  BY <1>3, <1>4
<1>6. PICK f \in [0 .. N -> DecodedRecord] :
        f[0] = Silent(d) /\ \A i \in 1 .. N : f[i] = step[i][f[i - 1]]
  <2> HIDE DEF N
  <2> QED
    BY <1>1, <1>2, <1>5, RecursionIsDefined
<1>7. ASSUME NEW i \in 1 .. N PROVE f[i] = Then(harness, f[i - 1], lines[i])
  <2>1. i - 1 \in 0 .. N
    BY <1>1
  <2>2. f[i - 1] \in DecodedRecord
    BY <2>1
  <2> QED
    BY <1>4, <1>6, <2>2
<1>8. Is(f)
  BY <1>1, <1>6, <1>7 DEF Then
<1>9. Decodings(harness, d, lines) = CHOOSE after : Is(after)
  BY DEF Decodings
<1>10. PICK after : Is(after) /\ Decodings(harness, d, lines) = after
  <2> HIDE DEF Is
  <2> QED
    BY <1>8, <1>9
<1>11. after[0] = Silent(d) /\ \A i \in 1 .. N : after[i] = Then(harness, after[i - 1], lines[i])
  <2>1. \A i \in 0 .. N :
          after[i] = IF i = 0 THEN Silent(d) ELSE Then(harness, after[i - 1], lines[i])
    BY <1>10, Zenon DEF Then
  <2> QED
    BY <1>1, <2>1
<1> DEFINE T == {i \in 0 .. N : after[i] \in DecodedRecord}
<1>12. 0 \in T
  BY <1>1, <1>2, <1>11
<1>13. ASSUME NEW i \in 1 .. N, i - 1 \in T PROVE i \in T
  BY <1>3, <1>11, <1>13
<1>14. 0 .. N \subseteq T
  <2> HIDE DEF T, N
  <2> QED
    BY <1>1, <1>12, <1>13, EveryStep
<1>15. after \in [0 .. N -> DecodedRecord]
  BY <1>10, <1>14
<1> QED
  BY <1>10, <1>11, <1>15

-----------------------------------------------------------------------------

AreSaid(milestones) ==
  Len(milestones) \in Nat /\ \A i \in 1 .. Len(milestones) : milestones[i] \in Said

\* One milestone more, after the ones before it.
With(known, m) == IF known = None \/ ~Accepts(known, m) THEN None ELSE Recorded(known, m)

LEMMA RecordedIsTyped ==
  ASSUME NEW known \in AttemptRecord, NEW m \in Said
  PROVE  Recorded(known, m) \in AttemptRecord
BY DEF Recorded, AttemptRecord, Said, MilestoneRecord

LaunchTyped == launch \in [harness : Harness, mode : Mode, native : NativeId \cup {None}]

LEMMA RecordingSteps ==
  ASSUME NEW milestones, AreSaid(milestones), LaunchTyped
  PROVE  LET after == Recording(milestones)
             N == Len(milestones)
         IN  /\ after \in [0 .. N -> AttemptRecord \cup {None}]
             /\ after[0] = Spawned
             /\ \A i \in 1 .. N : after[i] = With(after[i - 1], milestones[i])
<1> DEFINE N == Len(milestones)
           S == AttemptRecord \cup {None}
           Is(after) ==
             after = [i \in 0 .. N |->
                IF i = 0 THEN Spawned
                ELSE LET before == after[i - 1]
                     IN  IF before = None \/ ~Accepts(before, milestones[i]) THEN None
                         ELSE Recorded(before, milestones[i])]
<1>1. N \in Nat /\ \A i \in 1 .. N : milestones[i] \in Said
  BY DEF AreSaid
<1>2. Spawned \in S
  BY DEF Spawned, AttemptRecord, Kinds, LaunchTyped
<1>3. \A i \in 1 .. N : \A before \in S : With(before, milestones[i]) \in S
  BY <1>1, RecordedIsTyped DEF With
<1>4. PICK step : step = [i \in 1 .. N |-> [before \in S |-> With(before, milestones[i])]]
  OBVIOUS
<1>5. step \in [1 .. N -> [S -> S]]
  <2> HIDE DEF S
  <2> QED
    BY <1>3, <1>4
<1>6. PICK f \in [0 .. N -> S] : f[0] = Spawned /\ \A i \in 1 .. N : f[i] = step[i][f[i - 1]]
  <2>1. PICK base : base = Spawned
    OBVIOUS
  <2>2. \E f \in [0 .. N -> S] : f[0] = base /\ \A i \in 1 .. N : f[i] = step[i][f[i - 1]]
    <3>1. base \in S /\ N \in Nat
      BY <1>1, <1>2, <2>1
    <3> HIDE DEF N, S, Is
    <3> QED
      BY <1>5, <3>1, RecursionIsDefined
  <2> QED
    BY <2>1, <2>2
<1>7. ASSUME NEW i \in 1 .. N PROVE f[i] = With(f[i - 1], milestones[i])
  <2>1. i - 1 \in 0 .. N
    BY <1>1
  <2>2. f[i - 1] \in S
    BY <2>1
  <2> HIDE DEF S
  <2> QED
    BY <1>4, <1>6, <2>2
<1>8. Is(f)
  BY <1>1, <1>6, <1>7 DEF With
<1>9. Recording(milestones) = CHOOSE after : Is(after)
  BY DEF Recording
<1>10. PICK after : Is(after) /\ Recording(milestones) = after
  <2> HIDE DEF Is
  <2> QED
    BY <1>8, <1>9
<1>11. after[0] = Spawned /\ \A i \in 1 .. N : after[i] = With(after[i - 1], milestones[i])
  <2>1. \A i \in 0 .. N : after[i] = IF i = 0 THEN Spawned ELSE With(after[i - 1], milestones[i])
    BY <1>10, Zenon DEF With
  <2> QED
    BY <1>1, <2>1
<1> DEFINE T == {i \in 0 .. N : after[i] \in S}
<1>12. 0 \in T
  BY <1>1, <1>2, <1>11
<1>13. ASSUME NEW i \in 1 .. N, i - 1 \in T PROVE i \in T
  <2> HIDE DEF S
  <2> QED
    BY <1>3, <1>11, <1>13
<1>14. 0 .. N \subseteq T
  <2> HIDE DEF T, N
  <2> QED
    BY <1>1, <1>12, <1>13, EveryStep
<1>15. after \in [0 .. N -> S]
  <2> HIDE DEF S
  <2> QED
    BY <1>10, <1>14
<1> QED
  BY <1>10, <1>11, <1>15

-----------------------------------------------------------------------------
(* First parts: what is decoded of the first lines, and recorded of the first milestones. *)

\* t is s, or goes on after it.
Begins(s, t) == Len(s) <= Len(t) /\ \A i \in 1 .. Len(s) : t[i] = s[i]

LEMMA BeginsJoined ==
  ASSUME NEW s \in Seq(Said), NEW t \in Seq(Said)
  PROVE  Begins(s, s \o t)
BY DEF Begins

\* What is decoded of a file's first lines does not depend on the others.
LEMMA DecodingsAgree ==
  ASSUME NEW harness \in Harness, NEW d \in DecoderRecord, NEW lines, AreLines(lines),
         NEW other, AreLines(other), NEW n \in Nat, n <= Len(lines), n <= Len(other),
         \A i \in 1 .. n : other[i] = lines[i]
  PROVE  Decodings(harness, d, other)[n] = Decodings(harness, d, lines)[n]
<1>1. PICK a, b : a = Decodings(harness, d, lines) /\ b = Decodings(harness, d, other)
  OBVIOUS
<1>2. a[0] = Silent(d) /\ \A i \in 1 .. Len(lines) : a[i] = Then(harness, a[i - 1], lines[i])
  BY <1>1, DecodingsSteps
<1>3. b[0] = Silent(d) /\ \A i \in 1 .. Len(other) : b[i] = Then(harness, b[i - 1], other[i])
  BY <1>1, DecodingsSteps
<1> DEFINE T == {i \in 0 .. n : b[i] = a[i]}
<1>4. 0 \in T
  BY <1>2, <1>3
<1>5. ASSUME NEW i \in 1 .. n, i - 1 \in T PROVE i \in T
  <2>1. i \in 1 .. Len(lines) /\ i \in 1 .. Len(other)
    BY DEF AreLines
  <2>2. b[i - 1] = a[i - 1] /\ other[i] = lines[i]
    BY <1>5
  <2> QED
    BY <1>2, <1>3, <2>1, <2>2
<1>6. 0 .. n \subseteq T
  <2> HIDE DEF T
  <2> QED
    BY <1>4, <1>5, EveryStep
<1> QED
  BY <1>1, <1>6

\* Another line only adds, and mends nothing.
LEMMA ThenGrows ==
  ASSUME NEW harness \in Harness, NEW before \in DecodedRecord, NEW line, IsLine(line)
  PROVE  /\ Begins(before.milestones, Then(harness, before, line).milestones)
         /\ Then(harness, before, line).ok => before.ok
<1>1. PICK next : next = DecodeLine(harness, before.decoder, line)
  OBVIOUS
<1>2. before.decoder \in DecoderRecord /\ before.milestones \in Seq(Said)
  BY DEF DecodedRecord
<1>3. next \in DecodedRecord
  BY <1>1, <1>2, LineIsTyped
<1>4. next.milestones \in Seq(Said)
  BY <1>3 DEF DecodedRecord
<1>5. CASE before.ok
  <2>1. Then(harness, before, line) = [next EXCEPT !.milestones = before.milestones \o @]
    BY <1>1, <1>5 DEF Then
  <2>2. Then(harness, before, line).milestones = before.milestones \o next.milestones
    BY <1>3, <2>1 DEF DecodedRecord
  <2>3. Begins(before.milestones, before.milestones \o next.milestones)
    BY <1>2, <1>4, BeginsJoined
  <2> QED
    BY <1>5, <2>2, <2>3
<1>6. CASE ~before.ok
  <2>1. Then(harness, before, line) = before
    BY <1>6 DEF Then
  <2>2. Begins(before.milestones, before.milestones)
    BY <1>2 DEF Begins
  <2> QED
    BY <1>6, <2>1, <2>2
<1> QED
  BY <1>5, <1>6

LEMMA BeginsGoesOn ==
  ASSUME NEW r \in Seq(Said), NEW s \in Seq(Said), NEW t \in Seq(Said), Begins(r, s), Begins(s, t)
  PROVE  Begins(r, t)
BY DEF Begins

LEMMA DecodingsGrow ==
  ASSUME NEW harness \in Harness, NEW d \in DecoderRecord, NEW lines, AreLines(lines),
         NEW n \in Nat, NEW m \in Nat, n <= m, m <= Len(lines)
  PROVE  /\ Begins(Decodings(harness, d, lines)[n].milestones,
                   Decodings(harness, d, lines)[m].milestones)
         /\ Decodings(harness, d, lines)[m].ok => Decodings(harness, d, lines)[n].ok
<1>1. PICK a, N : a = Decodings(harness, d, lines) /\ N = Len(lines)
  OBVIOUS
<1>2. N \in Nat /\ \A i \in 1 .. N : IsLine(lines[i])
  BY <1>1 DEF AreLines
<1>3. /\ a \in [0 .. N -> DecodedRecord]
      /\ \A i \in 1 .. N : a[i] = Then(harness, a[i - 1], lines[i])
  BY <1>1, DecodingsSteps
<1>4. \A i \in 0 .. N : a[i] \in DecodedRecord /\ a[i].milestones \in Seq(Said)
  BY <1>3 DEF DecodedRecord
<1> DEFINE P(i) == Begins(a[n].milestones, a[i].milestones) /\ (a[i].ok => a[n].ok)
           T == {i \in 0 .. m : i >= n => P(i)}
<1>5. P(n)
  <2>1. a[n].milestones \in Seq(Said)
    BY <1>1, <1>2, <1>4
  <2> QED
    BY <2>1 DEF Begins
<1>6. 0 \in T
  <2> HIDE DEF P
  <2> QED
    BY <1>5
<1>7. ASSUME NEW i \in 1 .. m, i - 1 \in T PROVE i \in T
  <2>1. CASE i <= n
    <3> HIDE DEF P
    <3> QED
      BY <1>5, <2>1
  <2>2. CASE i > n
    <3>1. i - 1 >= n /\ i - 1 \in 0 .. N /\ i \in 1 .. N /\ i \in 0 .. N /\ n \in 0 .. N
      BY <1>1, <1>2, <2>2
    <3>2. P(i - 1)
      BY <1>7, <3>1
    <3>3. /\ Begins(a[i - 1].milestones, a[i].milestones)
          /\ a[i].ok => a[i - 1].ok
      <4>1. a[i - 1] \in DecodedRecord /\ IsLine(lines[i]) /\ a[i] = Then(harness, a[i - 1], lines[i])
        BY <1>2, <1>3, <1>4, <3>1
      <4> QED
        BY <4>1, ThenGrows
    <3>4. P(i)
      <4>1. /\ a[n].milestones \in Seq(Said) /\ a[i - 1].milestones \in Seq(Said)
            /\ a[i].milestones \in Seq(Said)
        BY <1>4, <3>1
      <4> QED
        BY <3>2, <3>3, <4>1, BeginsGoesOn
    <3> HIDE DEF P
    <3> QED
      BY <3>4
  <2> QED
    BY <2>1, <2>2
<1>8. 0 .. m \subseteq T
  <2> HIDE DEF T
  <2> QED
    BY <1>6, <1>7, EveryStep
<1>9. P(m)
  <2> HIDE DEF P
  <2> QED
    BY <1>8
<1> QED
  BY <1>1, <1>9

-----------------------------------------------------------------------------

\* What is recorded of the first milestones does not depend on the others.
LEMMA RecordingAgrees ==
  ASSUME LaunchTyped, NEW s, AreSaid(s), NEW t, AreSaid(t), Begins(s, t), NEW k \in 0 .. Len(s)
  PROVE  Recording(t)[k] = Recording(s)[k]
<1>1. PICK a, b, N : a = Recording(s) /\ b = Recording(t) /\ N = Len(s)
  OBVIOUS
<1>2. N \in Nat /\ N <= Len(t) /\ Len(t) \in Nat
  BY <1>1 DEF AreSaid, Begins
<1>3. a[0] = Spawned /\ \A i \in 1 .. N : a[i] = With(a[i - 1], s[i])
  BY <1>1, RecordingSteps
<1>4. b[0] = Spawned /\ \A i \in 1 .. Len(t) : b[i] = With(b[i - 1], t[i])
  BY <1>1, RecordingSteps
<1> DEFINE T == {i \in 0 .. N : b[i] = a[i]}
<1>5. 0 \in T
  BY <1>2, <1>3, <1>4
<1>6. ASSUME NEW i \in 1 .. N, i - 1 \in T PROVE i \in T
  <2>1. i \in 1 .. Len(t)
    BY <1>2
  <2>2. t[i] = s[i] /\ b[i - 1] = a[i - 1]
    BY <1>1, <1>6 DEF Begins
  <2> QED
    BY <1>3, <1>4, <2>1, <2>2
<1>7. 0 .. N \subseteq T
  <2> HIDE DEF T
  <2> QED
    BY <1>2, <1>5, <1>6, EveryStep
<1> QED
  BY <1>1, <1>7

Final == {"provider_unavailable", "adapter_start_failed", "result"}

\* What an Attempt knows when the first j milestones were recorded.
Tells(known, milestones, j) ==
  /\ known.milestones = {"process_spawned"} \cup {milestones[i].kind : i \in 1 .. j}
  /\ \A i \in 1 .. j : milestones[i].kind = "session_bound" => milestones[i].value = known.native
  /\ \/ known.native = launch.native
     \/ launch.native = None /\ \E i \in 1 .. j : milestones[i].kind = "session_bound"
  /\ \A i \in 1 .. j : milestones[i].kind = "result" => milestones[i].value = known.result
  /\ known.result # None <=> "result" \in known.milestones
  /\ known.result # None => known.result # "continue" \/ launch.mode = "goal"
  /\ known.milestones \cap {"effect_started", "meaningful_progress", "result"} # {}
       => "turn_started" \in known.milestones
  /\ "turn_started" \in known.milestones
       => known.milestones \cap {"provider_unavailable", "adapter_start_failed"} = {}
  /\ known.milestones \cap Final # {} => j > 0 /\ milestones[j].kind \in Final

LEMMA WithTells ==
  ASSUME NEW known \in AttemptRecord, NEW milestones, AreSaid(milestones),
         NEW j \in 1 .. Len(milestones), Tells(known, milestones, j - 1),
         Accepts(known, milestones[j])
  PROVE  Tells(Recorded(known, milestones[j]), milestones, j)
<1>1. PICK m, new : m = milestones[j] /\ new = Recorded(known, m)
  OBVIOUS
<1>2. /\ m.kind = "session_bound" => m.value \in NativeId
      /\ m.kind = "result" => m.value \in Status
      /\ m.kind # "process_spawned"
  BY <1>1 DEF AreSaid, Said
<1>3. /\ new.milestones = known.milestones \cup {m.kind}
      /\ new.native = IF m.kind = "session_bound" THEN m.value ELSE known.native
      /\ new.result = IF m.kind = "result" THEN m.value ELSE known.result
  BY <1>1 DEF Recorded
<1>4. j \in Nat /\ 1 .. j = (1 .. j - 1) \cup {j}
  BY DEF AreSaid
<1>5. Final \cap known.milestones = {}
  BY DEF Accepts, Final
<1>6. new.milestones = {"process_spawned"} \cup {milestones[i].kind : i \in 1 .. j}
  BY <1>1, <1>3, <1>4 DEF Tells
<1>7. /\ \A i \in 1 .. j : milestones[i].kind = "session_bound" => milestones[i].value = new.native
      /\ \/ new.native = launch.native
         \/ launch.native = None /\ \E i \in 1 .. j : milestones[i].kind = "session_bound"
  <2>1. CASE m.kind = "session_bound"
    <3>1. new.native = m.value /\ known.native \in {None, m.value}
      BY <1>1, <1>3, <2>1 DEF Accepts
    <3>2. \A i \in 1 .. j - 1 : milestones[i].kind = "session_bound" => known.native # None
      <4> SUFFICES ASSUME NEW i \in 1 .. j - 1, milestones[i].kind = "session_bound"
                   PROVE  milestones[i].value \in NativeId /\ milestones[i].value = known.native
        BY NoneAssumption
      <4>1. i \in 1 .. Len(milestones)
        BY DEF AreSaid
      <4> QED
        BY <4>1 DEF AreSaid, Said, Tells
    <3>3. known.native = None => launch.native = None
      BY <3>2 DEF Tells
    <3> QED
      BY <1>1, <1>4, <2>1, <3>1, <3>2, <3>3 DEF Tells
  <2>2. CASE m.kind # "session_bound"
    BY <1>1, <1>3, <1>4, <2>2 DEF Tells
  <2> QED
    BY <2>1, <2>2
<1>8. /\ \A i \in 1 .. j : milestones[i].kind = "result" => milestones[i].value = new.result
      /\ new.result # None <=> "result" \in new.milestones
      /\ new.result # None => new.result # "continue" \/ launch.mode = "goal"
  <2>1. known.result = None
    BY <1>5 DEF Tells, Final
  <2>2. \A i \in 1 .. j - 1 : milestones[i].kind # "result"
    BY <1>5 DEF Tells, Final
  <2>3. CASE m.kind = "result"
    BY <1>1, <1>2, <1>3, <1>4, <2>1, <2>2, <2>3, NoneAssumption DEF Accepts
  <2>4. CASE m.kind # "result"
    BY <1>1, <1>3, <1>4, <1>5, <2>1, <2>2, <2>4 DEF Final
  <2> QED
    BY <2>3, <2>4
<1>9. /\ new.milestones \cap {"effect_started", "meaningful_progress", "result"} # {}
           => "turn_started" \in new.milestones
      /\ "turn_started" \in new.milestones
           => new.milestones \cap {"provider_unavailable", "adapter_start_failed"} = {}
  <2>1. m.kind \in {"effect_started", "meaningful_progress", "result"}
          => "turn_started" \in known.milestones
    BY <1>1 DEF Accepts
  <2>2. m.kind \in {"turn_started", "provider_unavailable", "adapter_start_failed"}
          => "turn_started" \notin known.milestones
    BY <1>1 DEF Accepts
  <2>3. known.milestones \cap {"provider_unavailable", "adapter_start_failed"} = {}
    BY <1>5 DEF Final
  <2>4. "effect_started" \in known.milestones \/ "meaningful_progress" \in known.milestones
          => "turn_started" \in known.milestones
    BY DEF Tells
  <2>5. "result" \notin known.milestones
    BY <1>5 DEF Final
  <2> QED
    BY <1>3, <2>1, <2>2, <2>3, <2>4, <2>5
<1>10. new.milestones \cap Final # {} => j > 0 /\ milestones[j].kind \in Final
  BY <1>1, <1>3, <1>4, <1>5
<1> QED
  BY <1>1, <1>6, <1>7, <1>8, <1>9, <1>10 DEF Tells

LEMMA SpawnedTells ==
  ASSUME NEW milestones
  PROVE  Tells(Spawned, milestones, 0)
BY DEF Tells, Spawned, Final

LEMMA RecordingTells ==
  ASSUME LaunchTyped, NEW milestones, AreSaid(milestones), NEW j \in 0 .. Len(milestones),
         Recording(milestones)[j] # None
  PROVE  /\ Recording(milestones)[j] \in AttemptRecord
         /\ Tells(Recording(milestones)[j], milestones, j)
<1>1. PICK a, N : a = Recording(milestones) /\ N = Len(milestones)
  OBVIOUS
<1>2. N \in Nat
  BY <1>1 DEF AreSaid
<1>3. /\ a \in [0 .. N -> AttemptRecord \cup {None}] /\ a[0] = Spawned
      /\ \A i \in 1 .. N : a[i] = With(a[i - 1], milestones[i])
  BY <1>1, RecordingSteps
<1> DEFINE T == {i \in 0 .. N : a[i] # None => Tells(a[i], milestones, i)}
<1>4. 0 \in T
  BY <1>2, <1>3, SpawnedTells
<1>5. ASSUME NEW i \in 1 .. N, i - 1 \in T PROVE i \in T
  <2> SUFFICES ASSUME a[i] # None PROVE Tells(a[i], milestones, i)
    OBVIOUS
  <2>1. PICK known : known = a[i - 1]
    OBVIOUS
  <2>2. known # None /\ Accepts(known, milestones[i]) /\ a[i] = Recorded(known, milestones[i])
    BY <1>3, <2>1 DEF With
  <2>3. known \in AttemptRecord /\ Tells(known, milestones, i - 1)
    BY <1>2, <1>3, <1>5, <2>1, <2>2
  <2> QED
    BY <1>1, <2>2, <2>3, WithTells
<1>6. 0 .. N \subseteq T
  <2> HIDE DEF T
  <2> QED
    BY <1>2, <1>4, <1>5, EveryStep
<1> QED
  BY <1>1, <1>3, <1>6

\* Who recorded some of the milestones was refused none before.
LEMMA RecordingGoesBack ==
  ASSUME LaunchTyped, NEW milestones, AreSaid(milestones), NEW k \in 0 .. Len(milestones),
         NEW j \in k .. Len(milestones), Recording(milestones)[j] # None
  PROVE  Recording(milestones)[k] # None
<1>1. PICK a, N : a = Recording(milestones) /\ N = Len(milestones)
  OBVIOUS
<1>2. N \in Nat
  BY <1>1 DEF AreSaid
<1>3. \A i \in 1 .. N : a[i] = With(a[i - 1], milestones[i])
  BY <1>1, RecordingSteps
<1> SUFFICES ASSUME a[k] = None PROVE FALSE
  BY <1>1
<1> DEFINE T == {i \in 0 .. N : i >= k => a[i] = None}
<1>4. 0 \in T
  BY <1>1, <1>2
<1>5. ASSUME NEW i \in 1 .. N, i - 1 \in T PROVE i \in T
  BY <1>1, <1>3, <1>5 DEF With
<1>6. 0 .. N \subseteq T
  <2> HIDE DEF T
  <2> QED
    BY <1>2, <1>4, <1>5, EveryStep
<1> QED
  BY <1>1, <1>2, <1>6

\* Nothing is recorded after what ends a launch.
LEMMA RecordingEnds ==
  ASSUME LaunchTyped, NEW milestones, AreSaid(milestones), NEW k \in 0 .. Len(milestones),
         NEW j \in k .. Len(milestones), Recording(milestones)[j] # None,
         Recording(milestones)[k].milestones \cap Final # {}
  PROVE  k = j
<1> SUFFICES ASSUME k < j PROVE FALSE
  OBVIOUS
<1>1. PICK a, N : a = Recording(milestones) /\ N = Len(milestones)
  OBVIOUS
<1>2. N \in Nat /\ k + 1 \in 1 .. N /\ j \in k + 1 .. N
  BY <1>1 DEF AreSaid
<1>3. a[k + 1] = With(a[(k + 1) - 1], milestones[k + 1])
  BY <1>1, <1>2, RecordingSteps
<1>4. a[k + 1] = With(a[k], milestones[k + 1])
  BY <1>2, <1>3
<1>5. a[k].milestones \cap Final # {}
  BY <1>1
<1>6. a[k + 1] = None
  BY <1>4, <1>5 DEF With, Accepts, Final
<1>7. k + 1 \in 0 .. Len(milestones) /\ j \in k + 1 .. Len(milestones)
  BY <1>1, <1>2
<1>8. Recording(milestones)[k + 1] # None
  BY <1>7, RecordingGoesBack
<1> QED
  BY <1>1, <1>6, <1>8

-----------------------------------------------------------------------------
(* The types of the variables. *)

Found ==
  [session : Said \cup {None}, turn : Said \cup {None}, progress : Said \cup {None},
   result : Said \cup {None}]

LiveRecord ==
  [pc : {"reading", "waiting", "failed", "drained", "done", "dead"}, read : Nat,
   taken : {None, "half", "bare"}, todo : Seq(Said), stopping : BOOLEAN, pieces : BOOLEAN,
   decoder : DecoderRecord]

AdopterRecord ==
  [pc : {"none", "watching", "looking", "recording", "ending", "failed", "done"},
   alone : BOOLEAN, stage : 1 .. 3, todo : Seq(Said), found : Found]

\* The file is lines, and its last one is unfinished only while nobody took it.
FileTyped ==
  /\ LaunchTyped /\ (launch.harness = "generic" => launch.native = None)
  /\ output \in Seq(Lines[launch.harness]) /\ Len(output) <= MaxLines
  /\ cut \in {None, "half", "bare"} /\ running \in BOOLEAN /\ paused \in BOOLEAN

ReaderTyped ==
  /\ live \in LiveRecord
  /\ live.read <= Len(output)
  /\ live.taken # None => live.read < Len(output)
  /\ live.read = Len(output) => cut = None

Typed ==
  /\ FileTyped /\ ReaderTyped
  /\ attempt \in AttemptRecord /\ adopter \in AdopterRecord

LEMMA OutputLines ==
  ASSUME FileTyped
  PROVE  /\ AreLines(output) /\ Len(output) \in Nat
         /\ \A i \in 1 .. Len(output) : output[i] # Newline
<1>1. \A i \in 1 .. Len(output) : output[i] \in Lines[launch.harness]
  BY DEF FileTyped
<1>2. launch.harness \in Harness
  BY DEF FileTyped, LaunchTyped
<1> QED
  BY <1>1, <1>2, LinesAssumption DEF AreLines, FileTyped

LEMMA PartsAreLines ==
  /\ IsLine(Newline) /\ IsLine(Fragment) /\ \A line : IsLine(Part(line))
<1>1. <<>> \in Seq(NativeId \cup Status \cup Word)
  OBVIOUS
<1>2. IsLine(Newline)
  <2>1. Newline \in [event : Event, body : Seq(NativeId \cup Status \cup Word)]
    BY <1>1 DEF Newline, Event, NotJSON
  <2>2. Newline.event \notin BindingEvents /\ Newline.event \notin ErrorEvents
    BY DEF Newline, BindingEvents, ErrorEvents
  <2> QED
    BY <2>1, <2>2 DEF IsLine
<1>3. IsLine(Fragment)
  <2>1. Fragment \in [event : Event, body : Seq(NativeId \cup Status \cup Word)]
    BY <1>1 DEF Fragment, Event, NotJSON
  <2>2. Fragment.event \notin BindingEvents /\ Fragment.event \notin ErrorEvents
    BY DEF Fragment, BindingEvents, ErrorEvents
  <2> QED
    BY <2>1, <2>2 DEF IsLine
<1> QED
  BY <1>2, <1>3 DEF Part

\* The file's lines are those written, the last one perhaps cut.
LEMMA FileLinesAre ==
  ASSUME FileTyped, cut = "half" => output # <<>>
  PROVE  /\ AreLines(FileLines) /\ Len(FileLines) = Len(output)
         /\ \A i \in 1 .. Len(output) :
              FileLines[i] = IF i = Len(output) /\ cut = "half" THEN Part(output[i]) ELSE output[i]
<1>1. output \in Seq(Lines[launch.harness]) /\ Len(output) \in Nat
  BY DEF FileTyped
<1>2. AreLines(output)
  BY OutputLines
<1>3. CASE cut = "half"
  <2>1. FileLines = [output EXCEPT ![Len(output)] = Part(@)]
    BY <1>3 DEF FileLines
  <2>2. DOMAIN output = 1 .. Len(output)
    BY <1>1
  <2>3. FileLines = [i \in 1 .. Len(output) |->
                       IF i = Len(output) THEN Part(output[Len(output)]) ELSE output[i]]
    BY <2>1, <2>2
  <2>4. Len(FileLines) = Len(output)
    BY <1>1, <2>3
  <2>5. \A i \in 1 .. Len(output) :
          FileLines[i] = IF i = Len(output) THEN Part(output[i]) ELSE output[i]
    BY <2>3
  <2> QED
    BY <1>1, <1>2, <1>3, <2>4, <2>5, PartsAreLines DEF AreLines
<1>4. CASE cut # "half"
  BY <1>2, <1>4 DEF FileLines
<1> QED
  BY <1>3, <1>4

LEMMA PieceIsTyped ==
  ASSUME FileTyped, ReaderTyped, Available
  PROVE  IsLine(Piece) /\ NextLine \in 1 .. Len(output)
<1>1. NextLine \in 1 .. Len(output)
  BY OutputLines DEF Available, NextLine, ReaderTyped, LiveRecord
<1>2. IsLine(output[NextLine])
  BY <1>1, OutputLines DEF AreLines
<1>3. live.taken \in {None, "half", "bare"}
  BY DEF ReaderTyped, LiveRecord
<1>4. Piece \in {output[NextLine], Part(output[NextLine]), Newline}
  BY <1>3, CutAssumption DEF Piece
<1> QED
  BY <1>1, <1>2, <1>4, PartsAreLines

LEMMA DecodeIsTyped ==
  ASSUME FileTyped, NEW d \in DecoderRecord, NEW line, IsLine(line)
  PROVE  LET out == DecodeLine(launch.harness, d, line)
         IN  /\ out.decoder \in DecoderRecord /\ out.milestones \in Seq(Said) /\ out.ok \in BOOLEAN
<1>1. launch.harness \in Harness
  BY DEF FileTyped, LaunchTyped
<1>2. DecodeLine(launch.harness, d, line) \in DecodedRecord
  BY <1>1, LineIsTyped
<1> QED
  BY <1>2 DEF DecodedRecord

LEMMA ModeIsTyped == FreshDecoder(launch.mode = "session") \in DecoderRecord
<1>1. PICK sessionMode : sessionMode = (launch.mode = "session")
  OBVIOUS
<1>2. sessionMode \in BOOLEAN
  BY <1>1
<1> QED
  BY <1>1, <1>2, FreshIsTyped

LEMMA AdopterDecoderIsTyped == AdopterDecoder \in DecoderRecord
BY ModeIsTyped DEF AdopterDecoder

\* Of some milestones one of a kind, if there is one.
LEMMA LastIsOne ==
  ASSUME NEW milestones \in Seq(Said), NEW kind
  PROVE  /\ LastOf(milestones, kind) \in Said \cup {None}
         /\ LastOf(milestones, kind) = None
              => \A i \in 1 .. Len(milestones) : milestones[i].kind # kind
         /\ LastOf(milestones, kind) # None
              => \E i \in 1 .. Len(milestones) :
                   milestones[i] = LastOf(milestones, kind) /\ milestones[i].kind = kind
<1> DEFINE those == {i \in DOMAIN milestones : milestones[i].kind = kind}
           N == Len(milestones)
<1>1. DOMAIN milestones = 1 .. N /\ N \in Nat
  OBVIOUS
<1>2. CASE those = {}
  <2>1. LastOf(milestones, kind) = None
    BY <1>2 DEF LastOf
  <2> QED
    BY <1>1, <1>2, <2>1
<1>3. CASE those # {}
  <2> DEFINE B == {N - i : i \in those}
  <2>1. B \in SUBSET Nat /\ B # {}
    BY <1>1, <1>3
  <2>2. PICK b \in B : \A k \in B : b <= k
    <3> HIDE DEF B
    <3> QED
      BY <2>1, LeastNumber
  <2>3. PICK x \in those : b = N - x
    BY <2>2
  <2>4. \A y \in those : x >= y
    <3> TAKE y \in those
    <3>1. N - x <= N - y
      BY <2>2, <2>3
    <3> QED
      BY <1>1, <3>1
  <2>5. Max(those) \in those
    <3> HIDE DEF those
    <3> QED
      BY <2>3, <2>4 DEF Max
  <2>6. LastOf(milestones, kind) = milestones[Max(those)]
    BY <1>3 DEF LastOf
  <2>7. PICK i \in those : i = Max(those)
    BY <2>5
  <2>8. milestones[i] \in Said /\ milestones[i] \in MilestoneRecord
    BY <1>1, <2>7 DEF Said
  <2> QED
    BY <1>1, <2>6, <2>7, <2>8, NilAssumption
<1> QED
  BY <1>2, <1>3

LEMMA FoundIsTyped == \A milestones \in Seq(Said) : FoundIn(milestones) \in Found
BY LastIsOne DEF FoundIn, Found

-----------------------------------------------------------------------------

LEMMA TypedInit == OutputsInit => Typed
<1> SUFFICES ASSUME OutputsInit PROVE Typed
  OBVIOUS
<1>1. output = <<>> /\ Len(output) = 0 /\ cut = None
  BY DEF OutputsInit
<1>2. FileTyped
  <2>1. <<>> \in Seq(Lines[launch.harness]) /\ 0 <= MaxLines
    BY MaxLinesAssumption
  <2>2. output \in Seq(Lines[launch.harness]) /\ Len(output) <= MaxLines
    BY <1>1, <2>1
  <2> QED
    BY <1>1, <2>2 DEF OutputsInit, FileTyped, LaunchTyped
<1>3. ReaderTyped
  <2>1. FreshDecoder(launch.mode = "session") \in DecoderRecord /\ <<>> \in Seq(Said)
    BY ModeIsTyped
  <2>2. live = NewLive("reading", launch.mode)
    BY DEF OutputsInit
  <2>3. live \in LiveRecord /\ live.read = 0 /\ live.taken = None
    BY <2>1, <2>2 DEF NewLive, LiveRecord
  <2> QED
    BY <1>1, <2>3 DEF ReaderTyped
<1>4. attempt \in AttemptRecord
  BY <1>2 DEF OutputsInit, Spawned, AttemptRecord, Kinds, FileTyped, LaunchTyped
<1>5. adopter \in AdopterRecord
  <2>1. NothingFound \in Found /\ <<>> \in Seq(Said)
    BY DEF NothingFound, Found
  <2> QED
    BY <2>1 DEF OutputsInit, AdopterRecord
<1> QED
  BY <1>2, <1>3, <1>4, <1>5 DEF Typed

LEMMA HarnessKeepsTypes ==
  ASSUME Typed, HarnessStep \/ Pause
  PROVE  Typed'
<1>1. UNCHANGED <<launch, attempt, live, adopter>>
  BY DEF HarnessStep, HarnessPrints, HarnessContinues, HarnessEnds, Pause
<1>2. FileTyped' /\ ReaderTyped'
  <2>1. CASE HarnessPrints
    <3>1. PICK line \in Lines[launch.harness] : output' = Append(output, line)
      BY <2>1 DEF HarnessPrints
    <3>2. /\ output \in Seq(Lines[launch.harness]) /\ Len(output) \in Nat
          /\ Len(output) < MaxLines
      BY <2>1 DEF HarnessPrints, Typed, FileTyped
    <3>3. output' \in Seq(Lines[launch.harness]) /\ Len(output') = Len(output) + 1
      BY <3>1, <3>2
    <3>4. FileTyped'
      BY <1>1, <2>1, <3>2, <3>3, MaxLinesAssumption
         DEF HarnessPrints, Typed, FileTyped, LaunchTyped
    <3>5. live.read \in Nat
      BY DEF Typed, ReaderTyped, LiveRecord
    <3> QED
      BY <1>1, <3>2, <3>3, <3>4, <3>5 DEF Typed, ReaderTyped
  <2>2. CASE HarnessContinues
    BY <1>1, <2>2 DEF HarnessContinues, Typed, FileTyped, LaunchTyped, ReaderTyped
  <2>3. CASE HarnessEnds \/ Pause
    BY <1>1, <2>3 DEF HarnessEnds, Pause, Typed, FileTyped, LaunchTyped, ReaderTyped
  <2> QED
    BY <2>1, <2>2, <2>3 DEF HarnessStep
<1> QED
  BY <1>1, <1>2 DEF Typed

LEMMA FileStaysTyped ==
  ASSUME FileTyped, UNCHANGED <<launch, output, cut, paused>>, running' \in {running, FALSE}
  PROVE  FileTyped'
BY DEF FileTyped, LaunchTyped

LEMMA ReadsKeepTypes ==
  ASSUME Typed, LiveReads
  PROVE  Typed'
<1>1. PICK out, next : out = DecodeLine(launch.harness, live.decoder, Piece) /\ next = NextLine
  OBVIOUS
<1>2. /\ UNCHANGED <<launch, output, cut, running, attempt, paused, adopter>> /\ Available
      /\ live' = [live EXCEPT !.pc = IF out.ok THEN "reading" ELSE "failed",
                              !.decoder = out.decoder, !.todo = out.milestones,
                              !.read = IF AtTail THEN live.read ELSE next,
                              !.taken = IF AtTail THEN cut ELSE None,
                              !.pieces = live.pieces \/ AtTail]
  BY <1>1 DEF LiveReads
<1>3. out.decoder \in DecoderRecord /\ out.milestones \in Seq(Said) /\ out.ok \in BOOLEAN
  <2>1. IsLine(Piece) /\ live.decoder \in DecoderRecord
    BY <1>2, PieceIsTyped DEF Typed, ReaderTyped, LiveRecord
  <2> QED
    BY <1>1, <2>1, DecodeIsTyped DEF Typed
<1>4. next \in 1 .. Len(output) /\ next = live.read + 1 /\ live.read \in Nat /\ Len(output) \in Nat
  BY <1>1, <1>2, PieceIsTyped, OutputLines DEF Typed, NextLine, ReaderTyped, LiveRecord
<1>5. live' \in LiveRecord
  <2>1. PICK pc, read, taken, pieces :
          /\ pc = (IF out.ok THEN "reading" ELSE "failed")
          /\ read = (IF AtTail THEN live.read ELSE next)
          /\ taken = (IF AtTail THEN cut ELSE None)
          /\ pieces = (live.pieces \/ AtTail)
    OBVIOUS
  <2>2. read \in Nat /\ taken \in {None, "half", "bare"} /\ pieces \in BOOLEAN
    <3>1. AtTail \in BOOLEAN /\ live.pieces \in BOOLEAN
      BY DEF AtTail, Typed, ReaderTyped, LiveRecord
    <3> QED
      BY <1>4, <2>1, <3>1 DEF Typed, FileTyped
  <2>3. pc \in {"reading", "failed"}
    BY <2>1
  <2>4. live' = [live EXCEPT !.pc = pc, !.decoder = out.decoder, !.todo = out.milestones,
                             !.read = read, !.taken = taken, !.pieces = pieces]
    BY <1>2, <2>1
  <2> QED
    BY <1>3, <2>2, <2>3, <2>4 DEF Typed, ReaderTyped, LiveRecord
<1>6. /\ live'.read = (IF AtTail THEN live.read ELSE next)
      /\ live'.taken = (IF AtTail THEN cut ELSE None)
  BY <1>2 DEF Typed, ReaderTyped, LiveRecord
<1>7. ReaderTyped'
  <2>1. CASE AtTail
    BY <1>2, <1>4, <1>5, <1>6, <2>1 DEF ReaderTyped, AtTail
  <2>2. CASE ~AtTail
    BY <1>1, <1>2, <1>4, <1>5, <1>6, <2>2 DEF ReaderTyped, AtTail
  <2> QED
    BY <2>1, <2>2
<1> QED
  BY <1>2, <1>7, FileStaysTyped DEF Typed

LEMMA HeadIsTyped ==
  ASSUME NEW todo \in Seq(Said), todo # <<>>
  PROVE  Head(todo) \in Said /\ Tail(todo) \in Seq(Said)
OBVIOUS

LEMMA RecordsKeepTypes ==
  ASSUME Typed, LiveRecords
  PROVE  Typed'
<1>1. UNCHANGED <<launch, output, cut, running, paused, adopter>> /\ live.todo # <<>>
  BY DEF LiveRecords
<1>2. live \in LiveRecord /\ live.todo \in Seq(Said)
  BY DEF Typed, ReaderTyped, LiveRecord
<1>3. Head(live.todo) \in Said /\ Tail(live.todo) \in Seq(Said) /\ <<>> \in Seq(Said)
  BY <1>1, <1>2, HeadIsTyped
<1>4. attempt' \in AttemptRecord
  BY <1>3, RecordedIsTyped DEF LiveRecords, Typed
<1>5. PICK pc, todo : /\ pc \in {"reading", "failed"} /\ todo \in Seq(Said)
                      /\ live' = [live EXCEPT !.pc = pc, !.todo = todo]
  <2>1. CASE live' = [live EXCEPT !.todo = Tail(@)]
    <3>1. live.pc = "reading"
      BY DEF LiveRecords
    <3>2. PICK pc, todo : pc = "reading" /\ todo = Tail(live.todo)
      OBVIOUS
    <3>3. live' = [live EXCEPT !.pc = pc, !.todo = todo]
      BY <1>2, <2>1, <3>1, <3>2 DEF LiveRecord
    <3> QED
      BY <1>3, <3>2, <3>3
  <2>2. CASE live' = [live EXCEPT !.pc = "failed", !.todo = <<>>]
    BY <1>3, <2>2
  <2> QED
    BY <2>1, <2>2 DEF LiveRecords
<1>6. live' \in LiveRecord /\ live'.read = live.read /\ live'.taken = live.taken
  BY <1>2, <1>5 DEF LiveRecord
<1>7. ReaderTyped'
  BY <1>1, <1>6 DEF Typed, ReaderTyped
<1> QED
  BY <1>1, <1>4, <1>7, FileStaysTyped DEF Typed

LEMMA LiveRestKeepsTypes ==
  ASSUME Typed, LiveWaits \/ LiveWakes \/ LiveHearsStop \/ LiveFails \/ LiveExits \/ LiveDies
  PROVE  Typed'
<1>1. /\ UNCHANGED <<launch, output, cut, paused, adopter>> /\ running' \in {running, FALSE}
  BY DEF LiveWaits, LiveWakes, LiveHearsStop, LiveFails, LiveExits, LiveDies
<1>2. live \in LiveRecord
  BY DEF Typed, ReaderTyped
<1>3. attempt' \in AttemptRecord
  <2>1. [attempt EXCEPT !.milestones = @ \cup {"exit"}] \in AttemptRecord
    BY DEF Typed, AttemptRecord, Kinds
  <2> QED
    BY <2>1 DEF LiveWaits, LiveWakes, LiveHearsStop, LiveFails, LiveExits, LiveDies, RecordExit, Typed
<1>4. ReaderTyped'
  <2>1. CASE LiveDies
    <3>1. FreshDecoder(launch.mode = "session") \in DecoderRecord /\ <<>> \in Seq(Said)
      BY ModeIsTyped
    <3>2. live' = NewLive("dead", launch.mode)
      BY <2>1 DEF LiveDies
    <3>3. live' \in LiveRecord /\ live'.read = 0 /\ live'.taken = None
      BY <3>1, <3>2 DEF NewLive, LiveRecord
    <3>4. Len(output) \in Nat /\ live.read \in Nat /\ live.read <= Len(output)
      BY <1>2, OutputLines DEF Typed, ReaderTyped, LiveRecord
    <3>5. Len(output) = 0 => cut = None
      BY <3>4 DEF Typed, ReaderTyped
    <3> QED
      BY <1>1, <3>3, <3>4, <3>5 DEF ReaderTyped
  <2>2. CASE LiveWaits \/ LiveWakes \/ LiveHearsStop \/ LiveFails \/ LiveExits
    <3>1. PICK pc, stopping :
            /\ pc \in {"reading", "waiting", "drained", "done"} /\ stopping \in BOOLEAN
            /\ live' = [live EXCEPT !.pc = pc, !.stopping = stopping]
      <4>1. live = [live EXCEPT !.stopping = live.stopping] /\ live.stopping \in BOOLEAN
        BY <1>2 DEF LiveRecord
      <4>2. CASE LiveHearsStop
        BY <4>2 DEF LiveHearsStop
      <4>3. ASSUME NEW pc \in {"reading", "waiting", "drained", "done"}, live' = [live EXCEPT !.pc = pc]
            PROVE  live' = [live EXCEPT !.pc = pc, !.stopping = live.stopping]
        BY <1>2, <4>3 DEF LiveRecord
      <4>4. CASE LiveWaits \/ LiveWakes \/ LiveFails \/ LiveExits
        <5>1. PICK pc \in {"reading", "waiting", "drained", "done"} : live' = [live EXCEPT !.pc = pc]
          BY <4>4 DEF LiveWaits, LiveWakes, LiveFails, LiveExits
        <5>2. live' = [live EXCEPT !.pc = pc, !.stopping = live.stopping]
          BY <4>3, <5>1
        <5>3. PICK stopping \in BOOLEAN : stopping = live.stopping
          BY <4>1
        <5>4. live' = [live EXCEPT !.pc = pc, !.stopping = stopping]
          BY <5>2, <5>3
        <5> QED
          BY <5>4
      <4> QED
        BY <2>2, <4>2, <4>4
    <3>2. live' \in LiveRecord /\ live'.read = live.read /\ live'.taken = live.taken
      BY <1>2, <3>1 DEF LiveRecord
    <3> QED
      BY <1>1, <3>2 DEF Typed, ReaderTyped
  <2> QED
    BY <2>1, <2>2
<1> QED
  BY <1>1, <1>3, <1>4, FileStaysTyped DEF Typed

-----------------------------------------------------------------------------

LEMMA DecodedFileIsTyped ==
  ASSUME Typed
  PROVE  LET out == DecodeAll(launch.harness, AdopterDecoder, FileLines)
         IN  out.milestones \in Seq(Said) /\ out.ok \in BOOLEAN
<1>1. launch.harness \in Harness /\ AdopterDecoder \in DecoderRecord
  BY AdopterDecoderIsTyped DEF Typed, FileTyped, LaunchTyped
<1>2. cut = "half" => output # <<>>
  BY CutAssumption DEF Typed, ReaderTyped, LiveRecord
<1>3. AreLines(FileLines)
  BY <1>2, FileLinesAre DEF Typed
<1>4. PICK a, N : a = Decodings(launch.harness, AdopterDecoder, FileLines) /\ N = Len(FileLines)
  OBVIOUS
<1>5. a \in [0 .. N -> DecodedRecord] /\ N \in Nat
  BY <1>1, <1>3, <1>4, DecodingsSteps DEF AreLines
<1>6. a[N] \in DecodedRecord
  BY <1>5
<1> QED
  BY <1>4, <1>6 DEF DecodeAll, DecodedRecord

LEMMA WantedIsTyped ==
  ASSUME Typed
  PROVE  Wanted \in Seq(Said)
<1>1. adopter.found \in Found /\ adopter.stage \in 1 .. 3
  BY DEF Typed, AdopterRecord
<1>2. ASSUME NEW condition, NEW m \in Said \cup {None}
      PROVE  Missing(condition, m) \in Seq(Said)
  BY <1>2 DEF Missing
<1>3. \A s \in Seq(Said), t \in Seq(Said) : s \o t \in Seq(Said)
  OBVIOUS
<1>4. /\ Missing(attempt.native = None, adopter.found.session) \in Seq(Said)
      /\ Missing("turn_started" \notin attempt.milestones, adopter.found.turn) \in Seq(Said)
      /\ Missing("meaningful_progress" \notin attempt.milestones, adopter.found.progress) \in Seq(Said)
      /\ Missing("result" \notin attempt.milestones, adopter.found.result) \in Seq(Said)
  BY <1>1, <1>2 DEF Found
<1> QED
  BY <1>1, <1>3, <1>4 DEF Wanted

LEMMA AdopterKeepsTypes ==
  ASSUME Typed, AdopterStep
  PROVE  Typed'
<1>1. UNCHANGED <<launch, output, cut, running, paused, live>>
  BY DEF AdopterStep, Adopt, AdopterReads, AdopterLooks, AdopterRecords, AdopterNext, AdopterExits
<1>2. adopter \in AdopterRecord /\ adopter.todo \in Seq(Said) /\ <<>> \in Seq(Said)
  BY DEF Typed, AdopterRecord
<1>3. attempt' \in AttemptRecord /\ adopter' \in AdopterRecord
  <2>1. CASE Adopt
    BY <1>2, <2>1 DEF Adopt, Typed, AdopterRecord
  <2>2. CASE AdopterReads
    <3>1. PICK out : out = DecodeAll(launch.harness, AdopterDecoder, FileLines)
      OBVIOUS
    <3>2. FoundIn(out.milestones) \in Found
      BY <3>1, DecodedFileIsTyped, FoundIsTyped
    <3>3. PICK alone : alone = (live.pc = "dead")
      OBVIOUS
    <3>4. \/ adopter' = [adopter EXCEPT !.pc = "looking", !.found = FoundIn(out.milestones),
                                        !.alone = alone]
          \/ adopter' = [adopter EXCEPT !.pc = "ending"]
      BY <2>2, <3>1, <3>3 DEF AdopterReads
    <3>5. alone \in BOOLEAN
      BY <3>3
    <3> QED
      BY <1>2, <2>2, <3>2, <3>4, <3>5 DEF AdopterReads, Typed, AdopterRecord
  <2>3. CASE AdopterLooks
    <3>1. adopter' \in {[adopter EXCEPT !.pc = "ending"],
                        [adopter EXCEPT !.pc = "recording", !.todo = Wanted]}
      BY <2>3 DEF AdopterLooks
    <3> QED
      BY <1>2, <2>3, <3>1, WantedIsTyped DEF AdopterLooks, Typed, AdopterRecord
  <2>4. CASE AdopterRecords
    <3>1. PICK m, rest : m = Head(adopter.todo) /\ rest = Tail(adopter.todo)
      OBVIOUS
    <3>2. m \in Said /\ rest \in Seq(Said)
      BY <1>2, <2>4, <3>1, HeadIsTyped DEF AdopterRecords
    <3>3. attempt' \in {attempt, Recorded(attempt, m)}
      BY <2>4, <3>1 DEF AdopterRecords
    <3>4. adopter' \in {[adopter EXCEPT !.todo = rest], [adopter EXCEPT !.pc = "failed", !.todo = <<>>]}
      BY <2>4, <3>1 DEF AdopterRecords
    <3>5. attempt' \in AttemptRecord
      BY <1>2, <3>2, <3>3, RecordedIsTyped DEF Typed
    <3>6. adopter' \in AdopterRecord
      <4>1. adopter \in AdopterRecord /\ <<>> \in Seq(Said)
        BY <1>2 DEF Typed
      <4> QED
        BY <3>2, <3>4, <4>1 DEF AdopterRecord
    <3> QED
      BY <1>2, <3>5, <3>6 DEF Typed
  <2>5. CASE AdopterNext
    <3>1. /\ adopter.stage \in 1 .. 3
          /\ adopter' = IF adopter.stage = 3 THEN [adopter EXCEPT !.pc = "ending"]
                        ELSE [adopter EXCEPT !.pc = "looking", !.stage = adopter.stage + 1]
      BY <1>2, <2>5 DEF AdopterNext, AdopterRecord
    <3>2. CASE adopter.stage = 3
      BY <1>2, <2>5, <3>1, <3>2 DEF AdopterNext, Typed, AdopterRecord
    <3>3. CASE adopter.stage # 3
      <4>1. PICK stage \in 1 .. 3 : stage = adopter.stage + 1
        BY <3>1, <3>3
      <4>2. adopter' = [adopter EXCEPT !.pc = "looking", !.stage = stage]
        BY <3>1, <3>3, <4>1
      <4> QED
        BY <1>2, <2>5, <4>2 DEF AdopterNext, Typed, AdopterRecord
    <3> QED
      BY <3>2, <3>3
  <2>6. CASE AdopterExits
    <3>1. [attempt EXCEPT !.milestones = @ \cup {"exit"}] \in AttemptRecord
      BY DEF Typed, AttemptRecord, Kinds
    <3> QED
      BY <1>2, <2>6, <3>1 DEF AdopterExits, RecordExit, AdopterRecord
  <2> QED
    BY <2>1, <2>2, <2>3, <2>4, <2>5, <2>6 DEF AdopterStep
<1> QED
  BY <1>1, <1>3, FileStaysTyped DEF Typed, ReaderTyped

LEMMA TypedStays ==
  ASSUME Typed, [OutputsNext]_vars
  PROVE  Typed'
<1>1. CASE UNCHANGED vars
  BY <1>1 DEF vars, Typed, FileTyped, LaunchTyped, ReaderTyped
<1> QED
  BY <1>1, HarnessKeepsTypes, ReadsKeepTypes, RecordsKeepTypes, LiveRestKeepsTypes, AdopterKeepsTypes
     DEF OutputsNext, LiveStep

LEMMA TypedMeansTypeOK == Typed => TypeOK
<1> SUFFICES ASSUME Typed PROVE TypeOK
  OBVIOUS
<1>1. ToSet(output) \subseteq Lines[launch.harness]
  BY DEF Typed, FileTyped, ToSet
<1>2. ToSet(live.todo) \subseteq MilestoneRecord /\ ToSet(adopter.todo) \subseteq MilestoneRecord
  BY DEF Typed, ReaderTyped, LiveRecord, AdopterRecord, ToSet, Said
<1>3. live.read \in 0 .. Len(output)
  BY OutputLines DEF Typed, ReaderTyped, LiveRecord
<1> QED
  BY <1>1, <1>2, <1>3 DEF Typed, FileTyped, LaunchTyped, ReaderTyped, LiveRecord, AdopterRecord, TypeOK

(* Every variable has its type for any lines the harness may print: readers are never
   ahead of the file, and what they have decoded and not yet recorded are milestones. *)
THEOREM TypeCorrect == OutputsSpec => []TypeOK
BY TypedInit, TypedStays, TypedMeansTypeOK, PTL DEF OutputsSpec

-----------------------------------------------------------------------------
(* Reading the end, and the Result of Codex. *)

(* The adopter waits for the process's end. *)

HasRead == adopter.pc \notin {"none", "watching"}

AdopterSound ==
  /\ adopter = [pc |-> adopter.pc, alone |-> adopter.alone, stage |-> adopter.stage,
                todo |-> adopter.todo, found |-> adopter.found]
  /\ running \in BOOLEAN
  /\ HasRead => ~running

LEMMA AdopterStays ==
  ASSUME AdopterSound, [OutputsNext]_vars
  PROVE  AdopterSound' /\ (HasRead => UNCHANGED <<output, cut, running>>)
<1> USE DEF AdopterSound, HasRead
<1>1. CASE HarnessStep
  BY <1>1 DEF HarnessStep, HarnessPrints, HarnessContinues, HarnessEnds
<1>2. CASE Pause
  BY <1>2 DEF Pause
<1>3. CASE LiveStep
  <2>1. CASE LiveReads \/ LiveRecords
    BY <2>1 DEF LiveReads, LiveRecords
  <2>2. CASE LiveWaits \/ LiveWakes \/ LiveHearsStop
    BY <2>2 DEF LiveWaits, LiveWakes, LiveHearsStop
  <2>3. CASE LiveFails
    <3>1. running' = FALSE /\ UNCHANGED <<output, cut, adopter>>
      BY <2>3 DEF LiveFails
    <3>2. HasRead => running = FALSE
      OBVIOUS
    <3> QED
      BY <3>1, <3>2
  <2>4. CASE LiveExits \/ LiveDies
    BY <2>4 DEF LiveExits, LiveDies
  <2> QED
    BY <1>3, <2>1, <2>2, <2>3, <2>4 DEF LiveStep
<1>4. CASE AdopterStep
  <2>1. CASE Adopt
    BY <2>1 DEF Adopt
  <2>2. CASE AdopterReads
    BY <2>2 DEF AdopterReads
  <2>3. CASE AdopterLooks
    BY <2>3 DEF AdopterLooks
  <2>4. CASE AdopterRecords
    BY <2>4 DEF AdopterRecords
  <2>5. CASE AdopterNext
    BY <2>5 DEF AdopterNext
  <2>6. CASE AdopterExits
    BY <2>6 DEF AdopterExits
  <2> QED
    BY <1>4, <2>1, <2>2, <2>3, <2>4, <2>5, <2>6 DEF AdopterStep
<1>5. CASE UNCHANGED vars
  BY <1>5 DEF vars
<1> QED
  BY <1>1, <1>2, <1>3, <1>4, <1>5 DEF OutputsNext

(* What an adopter found stays what the file says: it reads only after the
   process ended, and nobody writes, finishes a line or runs again after that
   (executor.go, AdoptAttempt). *)
THEOREM AdoptersReadTheEnd ==
  OutputsSpec => [][HasRead => UNCHANGED <<output, cut, running>>]_vars
<1>1. OutputsInit => AdopterSound
  BY DEF OutputsInit, AdopterSound, HasRead
<1>2. AdopterSound /\ [OutputsNext]_vars
        => AdopterSound' /\ (HasRead => UNCHANGED <<output, cut, running>>)
  BY AdopterStays
<1> QED
  BY <1>1, <1>2, PTL DEF OutputsSpec

-----------------------------------------------------------------------------
(* The executor's decoder, for Codex. *)

\* The lines decoded so far: one taken whole but for its newline is one of them.
Decoded == IF live.taken = "bare" THEN live.read + 1 ELSE live.read

\* p is the latest candidate of the first n lines, and no turn ended since; None
\* if there is no candidate.
Latest(p, n) ==
  \/ p = None /\ \A j \in 1 .. n : ~Candidate(j)
  \/ \E i \in 1 .. n :
       /\ Candidate(i) /\ Content(output[i]) = p
       /\ \A j \in 1 .. n : Candidate(j) => j <= i
       /\ \A j \in i + 1 .. n : output[j].event # "turn.completed"

Decoding == live.pc \in {"reading", "waiting"}

\* live as a record of its parts, and where it stands in the file.
LiveSound ==
  /\ output \in Seq(Lines[launch.harness]) /\ cut \in {None, "half", "bare"}
  /\ live = [pc |-> live.pc, read |-> live.read, taken |-> live.taken, todo |-> live.todo,
             stopping |-> live.stopping, pieces |-> live.pieces, decoder |-> live.decoder]
  /\ live.read \in 0 .. Len(output)
  /\ live.taken # None => live.read < Len(output)

DecoderShaped(d) ==
  d = [turn |-> d.turn, result |-> d.result, pending |-> d.pending,
       session |-> d.session, sessionMode |-> d.sessionMode]

\* What the decoder holds is what its lines say, and a Result on its way to the
\* State is the latest candidate.
DecoderSound ==
  /\ DecoderShaped(live.decoder)
  /\ Decoding =>
       /\ live.taken \in {None, "bare"}
       /\ ~live.decoder.result => Latest(live.decoder.pending, Decoded)
  /\ \/ live.todo = <<>>
     \/ \E m : live.todo = <<m>> /\ (m.kind = "result" => EndsTurn(m.value))

ExecutorSound ==
  /\ AdopterSound /\ LiveSound
  /\ launch.harness = "codex" => DecoderSound

-----------------------------------------------------------------------------
(* Lines that are written later change nothing. *)

LEMMA OutputGrows ==
  ASSUME LiveSound, HarnessPrints
  PROVE  /\ output' \in Seq(Lines[launch.harness])
         /\ Len(output') = Len(output) + 1
         /\ \A j \in 1 .. Len(output) : output'[j] = output[j]
BY DEF LiveSound, HarnessPrints

LEMMA LatestStays ==
  ASSUME NEW n \in 0 .. Len(output), NEW p, Latest(p, n),
         \A j \in 1 .. n : output'[j] = output[j]
  PROVE  Latest(p, n)'
BY DEF Latest, Candidate

LEMMA EndStays ==
  ASSUME NEW status, EndsTurn(status), output \in Seq(Lines[launch.harness]),
         output' \in Seq(Lines[launch.harness]), Len(output') >= Len(output),
         \A j \in 1 .. Len(output) : output'[j] = output[j]
  PROVE  EndsTurn(status)'
<1>1. DOMAIN output = 1 .. Len(output) /\ DOMAIN output' = 1 .. Len(output')
  OBVIOUS
<1>2. PICK i \in DOMAIN output, end \in DOMAIN output :
        /\ i < end /\ output[end].event = "turn.completed"
        /\ Candidate(i) /\ Content(output[i]) = status
        /\ \A j \in 1 .. end - 1 : Candidate(j) => j <= i
        /\ \A j \in i + 1 .. end - 1 : output[j].event # "turn.completed"
  BY DEF EndsTurn
<1>3. \A j \in 1 .. Len(output) : Candidate(j)' <=> Candidate(j)
  BY DEF Candidate
<1>4. /\ i \in DOMAIN output' /\ end \in DOMAIN output'
      /\ output'[end].event = "turn.completed" /\ Content(output'[i]) = status
      /\ Candidate(i)'
      /\ \A j \in 1 .. end - 1 : Candidate(j)' => j <= i
      /\ \A j \in i + 1 .. end - 1 : output'[j].event # "turn.completed"
  BY <1>1, <1>2, <1>3
<1> QED
  BY <1>2, <1>4 DEF EndsTurn

-----------------------------------------------------------------------------
(* One line of Codex. *)

IsCandidate(line) == line.event = "item.completed" /\ Content(line) \in Status

\* What a line that decodes does to a decoder without a Result: it says the Result
\* it held, or it holds the line's candidate, or what it held before; a turn that
\* ends with nothing held says nothing.
CodexStep(d, line, out) ==
  /\ DecoderShaped(out.decoder)
  /\ \/ /\ line.event = "turn.completed" /\ d.pending # None
        /\ out.decoder.result /\ out.milestones = <<WorkerResult(d.pending)>>
     \/ /\ IsCandidate(line)
        /\ out.decoder.pending = Content(line) /\ out.milestones = <<>>
     \/ /\ ~IsCandidate(line) /\ out.decoder.pending = d.pending
        /\ line.event = "turn.completed" => d.pending = None
        /\ out.milestones = <<>> \/ \E m : out.milestones = <<m>> /\ m.kind # "result"

LEMMA CodexDecodes ==
  ASSUME NEW d, NEW line, CodexLine(d, line).ok, DecoderShaped(d)
  PROVE  /\ line.event \notin NotJSON
         /\ d.result => CodexLine(d, line) = Silent(d)
         /\ ~d.result => CodexStep(d, line, CodexLine(d, line))
<1> DEFINE out == CodexLine(d, line)
<1>1. line.event \notin NotJSON
  BY DEF CodexLine, Fails
<1>2. CASE d.result
  BY <1>1, <1>2 DEF CodexLine
<1>3. ASSUME ~d.result PROVE CodexStep(d, line, out)
  <2>1. out = CodexEvent(d, line) /\ out.ok
    BY <1>1, <1>3 DEF CodexLine
  <2> HIDE DEF out
  <2>2. CASE line.event = "turn.completed"
    <3>1. out = CodexCompletes(d) /\ ~IsCandidate(line)
      BY <2>1, <2>2 DEF CodexEvent, IsCandidate
    <3>2. CASE d.pending # None
      <4>1. /\ out.decoder = [d EXCEPT !.result = TRUE]
            /\ out.milestones = <<WorkerResult(d.pending)>>
        BY <3>1, <3>2 DEF CodexCompletes, Emits
      <4>2. DecoderShaped(out.decoder) /\ out.decoder.result
        BY <4>1 DEF DecoderShaped
      <4> QED
        BY <2>2, <3>2, <4>1, <4>2 DEF CodexStep
    <3>3. CASE d.pending = None
      <4>1. out.decoder = d /\ out.milestones = <<>>
        BY <2>1, <3>1, <3>3 DEF CodexCompletes, Emits, Silent, Fails
      <4> QED
        BY <3>1, <3>3, <4>1 DEF CodexStep
    <3> QED
      BY <3>2, <3>3
  <2>3. CASE line.event = "item.completed"
    <3>1. out = CodexMessage(d, Content(line))
      BY <2>1, <2>3 DEF CodexEvent
    <3>2. CASE Content(line) \in Status
      <4>1. out.decoder = [d EXCEPT !.pending = Content(line)] /\ out.milestones = <<>>
        BY <3>1, <3>2 DEF CodexMessage, Emits, Silent
      <4>2. DecoderShaped(out.decoder) /\ out.decoder.pending = Content(line)
        BY <4>1 DEF DecoderShaped
      <4> QED
        BY <2>3, <3>2, <4>1, <4>2 DEF CodexStep, IsCandidate
    <3>3. CASE Content(line) \notin Status
      <4>1. /\ out.decoder = d
            /\ out.milestones = <<>> \/ out.milestones = <<Milestone("meaningful_progress")>>
        BY <3>1, <3>3 DEF CodexMessage, Emits, Silent
      <4>2. Milestone("meaningful_progress").kind # "result"
        BY DEF Milestone
      <4> QED
        BY <2>3, <3>3, <4>1, <4>2 DEF CodexStep, IsCandidate
    <3> QED
      BY <3>2, <3>3
  <2>4. CASE line.event \notin {"turn.completed", "item.completed"}
    <3>1. /\ out.decoder \in {d, [d EXCEPT !.turn = TRUE]}
          /\ \/ out.milestones = <<>>
             \/ \E m : out.milestones = <<m>> /\ m.kind # "result"
      BY <2>1, <2>4 DEF CodexEvent, Emits, Silent, Fails, Milestone, Binding, Failure
    <3>2. DecoderShaped(out.decoder) /\ out.decoder.pending = d.pending
      BY <3>1 DEF DecoderShaped
    <3> QED
      BY <2>4, <3>1, <3>2 DEF CodexStep, IsCandidate
  <2> QED
    BY <2>2, <2>3, <2>4
<1> QED
  BY <1>1, <1>2, <1>3

-----------------------------------------------------------------------------
(* The steps. *)

LEMMA ExecutorInit == OutputsInit => ExecutorSound
<1> SUFFICES ASSUME OutputsInit PROVE ExecutorSound
  OBVIOUS
<1>1. AdopterSound
  BY DEF OutputsInit, AdopterSound, HasRead
<1>2. LiveSound
  BY DEF OutputsInit, LiveSound, NewLive
<1>3. DecoderSound
  <2>1. live = NewLive("reading", launch.mode) /\ live.decoder = FreshDecoder(launch.mode = "session")
    BY DEF OutputsInit, NewLive
  <2>2. /\ live.read = 0 /\ live.taken = None /\ live.todo = <<>>
    BY <2>1 DEF NewLive
  <2>3. DecoderShaped(live.decoder) /\ live.decoder.pending = None
    BY <2>1 DEF FreshDecoder, DecoderShaped
  <2>4. Decoded = 0
    BY <2>2, CutAssumption DEF Decoded
  <2> QED
    BY <2>2, <2>3, <2>4 DEF DecoderSound, Latest
<1> QED
  BY <1>1, <1>2, <1>3 DEF ExecutorSound

\* What has been decoded, and what is on its way, outlives a file that grows.
LEMMA DecoderOutlives ==
  ASSUME LiveSound, DecoderSound, live' = live,
         output' \in Seq(Lines[launch.harness]), Len(output') >= Len(output),
         \A j \in 1 .. Len(output) : output'[j] = output[j]
  PROVE  DecoderSound'
<1>1. Decoded' = Decoded /\ Decoded \in 0 .. Len(output)
  BY CutAssumption DEF Decoded, LiveSound
<1>2. Decoding /\ ~live.decoder.result => Latest(live.decoder.pending, Decoded)'
  <2> SUFFICES ASSUME Decoding, ~live.decoder.result
               PROVE  Latest(live.decoder.pending, Decoded)'
    OBVIOUS
  <2>1. Latest(live.decoder.pending, Decoded)
    BY DEF DecoderSound
  <2> QED
    BY <1>1, <2>1, LatestStays
<1>3. ASSUME NEW m, m.kind = "result" => EndsTurn(m.value)
      PROVE  m.kind = "result" => EndsTurn(m.value)'
  BY <1>3, EndStays DEF LiveSound
<1> QED
  BY <1>2, <1>3 DEF DecoderSound, Decoding

LEMMA HarnessKeepsExecutor ==
  ASSUME ExecutorSound, HarnessStep \/ Pause
  PROVE  ExecutorSound'
<1>0. AdopterSound /\ AdopterSound' /\ LiveSound
  BY AdopterStays DEF ExecutorSound, OutputsNext
<1>1. /\ UNCHANGED <<launch, attempt, live, adopter>>
      /\ output' \in Seq(Lines[launch.harness])
      /\ Len(output') >= Len(output)
      /\ \A j \in 1 .. Len(output) : output'[j] = output[j]
  <2>1. CASE HarnessPrints
    BY <1>0, <2>1, OutputGrows DEF HarnessPrints
  <2>2. CASE HarnessContinues \/ HarnessEnds \/ Pause
    BY <1>0, <2>2 DEF HarnessContinues, HarnessEnds, Pause, LiveSound
  <2> QED
    BY <2>1, <2>2 DEF HarnessStep
<1>2. LiveSound'
  <2>1. cut' \in {None, "half", "bare"}
    BY <1>0 DEF HarnessStep, HarnessPrints, HarnessContinues, HarnessEnds, Pause, LiveSound
  <2> QED
    BY <1>0, <1>1, <2>1 DEF LiveSound
<1>3. launch.harness = "codex" => DecoderSound'
  BY <1>0, <1>1, DecoderOutlives DEF ExecutorSound
<1> QED
  BY <1>0, <1>1, <1>2, <1>3 DEF ExecutorSound

\* A line that does not decode changes nothing.
LEMMA CodexFails ==
  ASSUME NEW d, NEW line, ~CodexLine(d, line).ok
  PROVE  CodexLine(d, line).decoder = d /\ CodexLine(d, line).milestones = <<>>
<1>1. CASE line.event \in NotJSON \/ d.result
  BY <1>1 DEF CodexLine, Fails, Silent, Emits
<1>2. CASE ~(line.event \in NotJSON \/ d.result)
  <2>1. CodexLine(d, line) = CodexEvent(d, line)
    BY <1>2 DEF CodexLine
  <2>2. \A e, milestones : Emits(e, milestones).ok
    BY DEF Emits
  <2>3. CodexEvent(d, line) = Fails(d)
    BY <2>1, <2>2 DEF CodexEvent, CodexMessage, CodexCompletes, Silent
  <2> QED
    BY <2>1, <2>3 DEF Fails
<1> QED
  BY <1>1, <1>2

\* A line that decodes leaves the decoder with what the lines up to it say.
LEMMA LineDecodes ==
  ASSUME LiveSound, NEW d, DecoderShaped(d), NEW n \in 1 .. Len(output),
         ~d.result => Latest(d.pending, n - 1),
         NEW out, out = CodexLine(d, output[n]), out.ok
  PROVE  /\ DecoderShaped(out.decoder)
         /\ ~out.decoder.result => Latest(out.decoder.pending, n)
         /\ \/ out.milestones = <<>>
            \/ \E m : out.milestones = <<m>> /\ (m.kind = "result" => EndsTurn(m.value))
<1>0. DOMAIN output = 1 .. Len(output)
  BY DEF LiveSound
<1>1. CASE d.result
  <2>1. out.decoder = d /\ out.milestones = <<>>
    BY <1>1, CodexDecodes DEF Silent, Emits
  <2> QED
    BY <1>1, <2>1
<1>2. CASE ~d.result
  <2>1. CodexStep(d, output[n], out) /\ Latest(d.pending, n - 1)
    BY <1>2, CodexDecodes
  <2>2. IsCandidate(output[n]) <=> Candidate(n)
    BY DEF IsCandidate, Candidate
  <2>3. CASE /\ output[n].event = "turn.completed" /\ d.pending # None
             /\ out.decoder.result /\ out.milestones = <<WorkerResult(d.pending)>>
    <3>1. EndsTurn(d.pending)
      BY <1>0, <2>1, <2>3 DEF Latest, EndsTurn
    <3>2. WorkerResult(d.pending).value = d.pending
      BY DEF WorkerResult
    <3> QED
      BY <2>1, <2>3, <3>1, <3>2 DEF CodexStep
  <2>4. CASE /\ IsCandidate(output[n])
             /\ out.decoder.pending = Content(output[n]) /\ out.milestones = <<>>
    <3>1. Latest(Content(output[n]), n)
      BY <2>2, <2>4 DEF Latest
    <3> QED
      BY <2>1, <2>4, <3>1 DEF CodexStep
  <2>5. CASE /\ ~IsCandidate(output[n]) /\ out.decoder.pending = d.pending
             /\ output[n].event = "turn.completed" => d.pending = None
             /\ out.milestones = <<>> \/ \E m : out.milestones = <<m>> /\ m.kind # "result"
    <3>1. Latest(d.pending, n)
      <4>1. CASE d.pending = None /\ \A j \in 1 .. n - 1 : ~Candidate(j)
        BY <2>2, <2>5, <4>1 DEF Latest
      <4>2. ASSUME NEW i \in 1 .. n - 1,
                   Candidate(i), Content(output[i]) = d.pending,
                   \A j \in 1 .. n - 1 : Candidate(j) => j <= i,
                   \A j \in i + 1 .. n - 1 : output[j].event # "turn.completed"
            PROVE  Latest(d.pending, n)
        <5>1. d.pending # None
          BY <4>2, NoneAssumption DEF Candidate
        <5> QED
          BY <2>2, <2>5, <4>2, <5>1 DEF Latest
      <4> QED
        BY <2>1, <4>1, <4>2 DEF Latest
    <3> QED
      BY <2>1, <2>5, <3>1 DEF CodexStep
  <2> QED
    BY <2>1, <2>3, <2>4, <2>5 DEF CodexStep
<1> QED
  BY <1>1, <1>2

\* What the decoder takes is a whole line of the file, or no JSON.
LEMMA PieceIsLine ==
  ASSUME LiveSound, Available, live.taken \in {None, "bare"}, Piece.event \notin NotJSON
  PROVE  /\ live.taken = None /\ NextLine \in 1 .. Len(output) /\ Piece = output[NextLine]
         /\ AtTail => cut = "bare"
<1>1. NextLine \in 1 .. Len(output)
  BY DEF Available, NextLine, LiveSound
<1>2. \A line : Part(line).event \in NotJSON
  BY DEF Part, NotJSON, Newline, Fragment
<1>3. Newline.event \in NotJSON
  BY DEF Newline, NotJSON
<1>4. live.taken = None
  BY <1>3, CutAssumption DEF Piece
<1>5. Piece = IF AtTail /\ cut = "half" THEN Part(output[NextLine]) ELSE output[NextLine]
  BY <1>4, CutAssumption DEF Piece
<1>6. ~(AtTail /\ cut = "half") /\ Piece = output[NextLine]
  BY <1>2, <1>5
<1> QED
  BY <1>1, <1>4, <1>6 DEF AtTail, LiveSound

\* The executor reads: a line that decodes was whole.
LEMMA ReadsKeepExecutor ==
  ASSUME ExecutorSound, LiveReads
  PROVE  ExecutorSound'
<1>a. PICK out : out = DecodeLine(launch.harness, live.decoder, Piece)
  OBVIOUS
<1>b. PICK next : next = NextLine
  OBVIOUS
<1>0. AdopterSound /\ AdopterSound' /\ LiveSound
  BY AdopterStays DEF ExecutorSound, OutputsNext, LiveStep
<1>1. /\ UNCHANGED <<launch, output, cut, attempt, adopter>> /\ Follows /\ Available
      /\ live' = [live EXCEPT !.pc = IF out.ok THEN "reading" ELSE "failed",
                              !.decoder = out.decoder, !.todo = out.milestones,
                              !.read = IF AtTail THEN live.read ELSE NextLine,
                              !.taken = IF AtTail THEN cut ELSE None,
                              !.pieces = live.pieces \/ AtTail]
  BY <1>a DEF LiveReads
<1>2. live' = [pc |-> IF out.ok THEN "reading" ELSE "failed",
               read |-> IF AtTail THEN live.read ELSE NextLine,
               taken |-> IF AtTail THEN cut ELSE None,
               todo |-> out.milestones, stopping |-> live.stopping,
               pieces |-> live.pieces \/ AtTail, decoder |-> out.decoder]
  BY <1>0, <1>1 DEF LiveSound
<1>3. /\ live'.pc = (IF out.ok THEN "reading" ELSE "failed")
      /\ live'.read = (IF AtTail THEN live.read ELSE NextLine)
      /\ live'.taken = (IF AtTail THEN cut ELSE None)
      /\ live'.todo = out.milestones /\ live'.decoder = out.decoder
      /\ live' = [pc |-> live'.pc, read |-> live'.read, taken |-> live'.taken, todo |-> live'.todo,
                  stopping |-> live'.stopping, pieces |-> live'.pieces, decoder |-> live'.decoder]
  BY <1>2
<1>4. LiveSound'
  <2>1. live.read + 1 <= Len(output) /\ live.read \in Nat /\ Len(output) \in Nat
    BY <1>0, <1>1 DEF Available, NextLine, LiveSound
  <2>2. live'.read \in 0 .. Len(output) /\ (live'.taken # None => live'.read < Len(output))
    BY <1>3, <2>1 DEF NextLine
  <2> QED
    BY <1>0, <1>1, <1>3, <2>2 DEF LiveSound
<1>5. ASSUME launch.harness = "codex" PROVE DecoderSound'
  <2>1. out = CodexLine(live.decoder, Piece) /\ DecoderSound
    BY <1>a, <1>5 DEF DecodeLine, ExecutorSound
  <2>2. DecoderShaped(live.decoder) /\ live.taken \in {None, "bare"}
    BY <1>1, <2>1 DEF DecoderSound, Decoding, Follows
  <2>3. CASE out.ok
    <3>1. Piece.event \notin NotJSON
      BY <2>1, <2>2, <2>3, CodexDecodes
    <3>2. /\ live.taken = None /\ NextLine \in 1 .. Len(output) /\ Piece = output[NextLine]
          /\ AtTail => cut = "bare"
      BY <1>0, <1>1, <2>2, <3>1, PieceIsLine
    <3>3. ~live.decoder.result => Latest(live.decoder.pending, NextLine - 1)
      <4>1. Decoded = live.read /\ NextLine - 1 = live.read
        BY <1>0, <3>2, CutAssumption DEF Decoded, NextLine, LiveSound
      <4> QED
        BY <1>1, <2>1, <4>1 DEF DecoderSound, Decoding, Follows
    <3>4. /\ DecoderShaped(out.decoder)
          /\ ~out.decoder.result => Latest(out.decoder.pending, next)
          /\ \/ out.milestones = <<>>
             \/ \E m : out.milestones = <<m>> /\ (m.kind = "result" => EndsTurn(m.value))
      BY <1>b, <1>0, <2>1, <2>2, <2>3, <3>2, <3>3, LineDecodes
    <3>5. Decoded' = next /\ live'.taken \in {None, "bare"}
      BY <1>b, <1>3, <3>2, CutAssumption DEF Decoded, NextLine
    <3>6. ~out.decoder.result => Latest(out.decoder.pending, next)'
      BY <1>1, <3>4 DEF Latest, Candidate
    <3>7. \A m : EndsTurn(m.value) => EndsTurn(m.value)'
      BY <1>1 DEF EndsTurn, Candidate
    <3>8. /\ DecoderShaped(live'.decoder)
          /\ (~live.decoder.result => Latest(live.decoder.pending, Decoded))'
      BY <1>3, <3>4, <3>5, <3>6
    <3>9. \/ live'.todo = <<>>
          \/ \E m : live'.todo = <<m>> /\ (m.kind = "result" => EndsTurn(m.value)')
      BY <1>3, <3>4, <3>7
    <3> QED
      BY <3>5, <3>8, <3>9 DEF DecoderSound
  <2>4. CASE ~out.ok
    <3>1. out.decoder = live.decoder /\ out.milestones = <<>>
      BY <2>1, <2>4, CodexFails
    <3>2. ~Decoding'
      BY <1>3, <2>4 DEF Decoding
    <3> QED
      BY <1>3, <2>2, <3>1, <3>2 DEF DecoderSound
  <2> QED
    BY <2>3, <2>4
<1> QED
  BY <1>0, <1>1, <1>4, <1>5 DEF ExecutorSound

\* A step that reads nothing, and leaves of what is on its way at most a part.
LEMMA RestKeepsExecutor ==
  ASSUME ExecutorSound, AdopterSound',
         UNCHANGED <<launch, output, cut>>,
         NEW pc, NEW read, NEW taken, NEW todo, NEW stopping, NEW pieces, NEW decoder,
         live' = [pc |-> pc, read |-> read, taken |-> taken, todo |-> todo,
                  stopping |-> stopping, pieces |-> pieces, decoder |-> decoder],
         todo \in {live.todo, <<>>},
         pc \in {"reading", "waiting"} => Decoding,
         \/ read = live.read /\ taken = live.taken /\ decoder = live.decoder
         \/ /\ pc = "dead" /\ read = 0 /\ taken = None /\ DecoderShaped(decoder)
  PROVE  LiveSound' /\ (launch.harness = "codex" => DecoderSound')
<1>1. /\ live'.pc = pc /\ live'.read = read /\ live'.taken = taken /\ live'.todo = todo
      /\ live'.stopping = stopping /\ live'.pieces = pieces /\ live'.decoder = decoder
  OBVIOUS
<1>2. LiveSound'
  BY <1>1 DEF ExecutorSound, LiveSound
<1>3. ASSUME launch.harness = "codex" PROVE DecoderSound'
  <2>1. \A status : EndsTurn(status) => EndsTurn(status)'
    BY DEF EndsTurn, Candidate
  <2>2. \/ live'.todo = <<>>
        \/ \E m : live'.todo = <<m>> /\ (m.kind = "result" => EndsTurn(m.value)')
    BY <1>1, <1>3, <2>1 DEF ExecutorSound, DecoderSound
  <2>3. CASE pc \in {"reading", "waiting"}
    <3>1. read = live.read /\ taken = live.taken /\ decoder = live.decoder
      BY <2>3
    <3>2. ~decoder.result => Latest(live.decoder.pending, Decoded)'
      BY <1>1, <1>3, <2>3, <3>1 DEF ExecutorSound, DecoderSound, Latest, Decoded, Candidate
    <3> QED
      BY <1>1, <1>3, <2>2, <2>3, <3>1, <3>2 DEF ExecutorSound, DecoderSound
  <2>4. CASE pc \notin {"reading", "waiting"}
    BY <1>1, <1>3, <2>2, <2>4 DEF ExecutorSound, DecoderSound, Decoding
  <2> QED
    BY <2>3, <2>4
<1> QED
  BY <1>2, <1>3

\* The executor records what its decoder said.
LEMMA RecordsKeepExecutor ==
  ASSUME ExecutorSound, LiveRecords
  PROVE  ExecutorSound'
<1>0. AdopterSound /\ AdopterSound' /\ LiveSound
  BY AdopterStays DEF ExecutorSound, OutputsNext, LiveStep
<1>1. UNCHANGED <<launch, output, cut, adopter>> /\ live.todo # <<>> /\ live.pc = "reading"
  BY DEF LiveRecords
<1>3. CASE live' = [live EXCEPT !.todo = Tail(live.todo)]
  <2>1. live' = [pc |-> live.pc, read |-> live.read, taken |-> live.taken, todo |-> Tail(live.todo),
                 stopping |-> live.stopping, pieces |-> live.pieces, decoder |-> live.decoder]
    BY <1>0, <1>3 DEF LiveSound
  <2>2. ASSUME launch.harness = "codex" PROVE DecoderSound'
    <3>1. PICK m : live.todo = <<m>> /\ (m.kind = "result" => EndsTurn(m.value))
      BY <1>1, <2>2 DEF ExecutorSound, DecoderSound
    <3>2. Head(live.todo) = m /\ Tail(live.todo) = <<>>
      BY <3>1
    <3> QED
      BY <1>0, <1>1, <2>1, <2>2, <3>2, RestKeepsExecutor DEF Decoding
  <2>3. LiveSound'
    <3>1. /\ live'.pc = live.pc /\ live'.read = live.read /\ live'.taken = live.taken
          /\ live'.todo = Tail(live.todo) /\ live'.stopping = live.stopping
          /\ live'.pieces = live.pieces /\ live'.decoder = live.decoder
      BY <2>1
    <3> QED
      BY <1>0, <1>1, <2>1, <3>1 DEF LiveSound
  <2> QED
    BY <1>0, <1>1, <2>2, <2>3 DEF ExecutorSound
<1>4. CASE live' = [live EXCEPT !.pc = "failed", !.todo = <<>>]
  <2>1. live' = [pc |-> "failed", read |-> live.read, taken |-> live.taken, todo |-> <<>>,
                 stopping |-> live.stopping, pieces |-> live.pieces, decoder |-> live.decoder]
    BY <1>0, <1>4 DEF LiveSound
  <2>2. LiveSound' /\ (launch.harness = "codex" => DecoderSound')
    BY <1>0, <1>1, <2>1, RestKeepsExecutor
  <2> QED
    BY <1>0, <1>1, <2>2 DEF ExecutorSound
<1> QED
  BY <1>3, <1>4 DEF LiveRecords

\* The executor waits, wakes, fails, ends or dies.
LEMMA LiveRestKeepsExecutor ==
  ASSUME ExecutorSound,
         LiveWaits \/ LiveWakes \/ LiveHearsStop \/ LiveFails \/ LiveExits \/ LiveDies
  PROVE  ExecutorSound'
<1>0. AdopterSound /\ AdopterSound' /\ LiveSound
  BY AdopterStays DEF ExecutorSound, OutputsNext, LiveStep
<1>1. UNCHANGED <<launch, output, cut, adopter>>
  BY DEF LiveWaits, LiveWakes, LiveHearsStop, LiveFails, LiveExits, LiveDies
<1>2. LiveSound' /\ (launch.harness = "codex" => DecoderSound')
  <2>1. ASSUME NEW pc, NEW stopping, pc \in {"reading", "waiting"} => Decoding,
               live' = [pc |-> pc, read |-> live.read, taken |-> live.taken, todo |-> live.todo,
                        stopping |-> stopping, pieces |-> live.pieces, decoder |-> live.decoder]
        PROVE  LiveSound' /\ (launch.harness = "codex" => DecoderSound')
    BY <1>0, <1>1, <2>1, RestKeepsExecutor
  <2>2. CASE LiveWaits
    <3>1. live' = [pc |-> IF live.stopping THEN "drained" ELSE "waiting", read |-> live.read,
                   taken |-> live.taken, todo |-> live.todo, stopping |-> live.stopping,
                   pieces |-> live.pieces, decoder |-> live.decoder]
      BY <1>0, <2>2 DEF LiveWaits, LiveSound
    <3> QED
      BY <2>1, <2>2, <3>1 DEF LiveWaits, Follows, Decoding
  <2>3. CASE LiveWakes \/ LiveHearsStop
    <3>1. PICK stopping : 
            live' = [pc |-> "reading", read |-> live.read,
                     taken |-> live.taken, todo |-> live.todo, stopping |-> stopping,
                     pieces |-> live.pieces, decoder |-> live.decoder]
      BY <1>0, <2>3 DEF LiveWakes, LiveHearsStop, LiveSound
    <3> QED
      BY <2>1, <2>3, <3>1 DEF LiveWakes, LiveHearsStop, Decoding
  <2>4. CASE LiveFails \/ LiveExits
    <3>1. PICK pc \in {"drained", "done"} :
            live' = [pc |-> pc, read |-> live.read,
                     taken |-> live.taken, todo |-> live.todo, stopping |-> live.stopping,
                     pieces |-> live.pieces, decoder |-> live.decoder]
      BY <1>0, <2>4 DEF LiveFails, LiveExits, LiveSound
    <3> QED
      BY <2>1, <3>1
  <2>5. CASE LiveDies
    <3>1. live' = [pc |-> "dead", read |-> 0, taken |-> None, todo |-> <<>>, stopping |-> FALSE,
                   pieces |-> FALSE, decoder |-> FreshDecoder(launch.mode = "session")]
      BY <2>5 DEF LiveDies, NewLive
    <3>2. DecoderShaped(FreshDecoder(launch.mode = "session"))
      BY DEF DecoderShaped, FreshDecoder
    <3> QED
      BY <1>0, <1>1, <3>1, <3>2, RestKeepsExecutor
  <2> QED
    BY <2>2, <2>3, <2>4, <2>5
<1> QED
  BY <1>0, <1>1, <1>2 DEF ExecutorSound

\* The adopter leaves the executor alone.
LEMMA AdopterKeepsExecutor ==
  ASSUME ExecutorSound, AdopterStep
  PROVE  ExecutorSound'
<1>0. AdopterSound /\ AdopterSound' /\ LiveSound
  BY AdopterStays DEF ExecutorSound, OutputsNext
<1>1. UNCHANGED <<launch, output, cut, live>>
  BY DEF AdopterStep, Adopt, AdopterReads, AdopterLooks, AdopterRecords, AdopterNext, AdopterExits
<1>2. LiveSound' /\ (launch.harness = "codex" => DecoderSound')
  BY <1>1 DEF ExecutorSound, LiveSound, DecoderSound, Decoding, Decoded, Latest, EndsTurn, Candidate
<1> QED
  BY <1>0, <1>1, <1>2 DEF ExecutorSound

LEMMA ExecutorStays ==
  ASSUME ExecutorSound, [OutputsNext]_vars
  PROVE  ExecutorSound'
<1>1. CASE UNCHANGED vars
  BY <1>1 DEF vars, ExecutorSound, AdopterSound, HasRead, LiveSound, DecoderSound, Decoding,
     Decoded, Latest, EndsTurn, Candidate
<1> QED
  BY <1>1, HarnessKeepsExecutor, ReadsKeepExecutor, RecordsKeepExecutor, LiveRestKeepsExecutor,
     AdopterKeepsExecutor DEF OutputsNext, LiveStep

-----------------------------------------------------------------------------
(* The Result of Codex that an adopter finds. *)

\* What an adopter decodes.
All == DecodeAll(launch.harness, AdopterDecoder, FileLines)

LEMMA FileLinesStand ==
  ASSUME Typed
  PROVE  /\ AreLines(FileLines) /\ Len(FileLines) = Len(output) /\ Len(output) \in Nat
         /\ \A i \in 1 .. Len(output) :
              FileLines[i] = IF i = Len(output) /\ cut = "half" THEN Part(output[i]) ELSE output[i]
         /\ AreLines(output) /\ launch.harness \in Harness
<1>1. cut = "half" => output # <<>>
  BY CutAssumption DEF Typed, ReaderTyped, LiveRecord
<1> QED
  BY <1>1, FileLinesAre, OutputLines DEF Typed, FileTyped, LaunchTyped

LEMMA PartIsNoJSON == \A line : Part(line).event \in NotJSON
BY DEF Part, NotJSON, Newline, Fragment

\* A file that decodes as JSON does not end within a line.
LEMMA CodexFileIsWhole ==
  ASSUME Typed, launch.harness = "codex", All.ok
  PROVE  FileLines = output
<1>1. ASSUME cut = "half" PROVE FALSE
  <2>1. PICK a, lines, N : /\ lines = FileLines /\ N = Len(output)
                           /\ a = Decodings(launch.harness, AdopterDecoder, lines)
    OBVIOUS
  <2>2. N \in Nat /\ N # 0 /\ AreLines(lines) /\ Len(lines) = N
    <3>1. N = 0 => cut = None
      BY <2>1, FileLinesStand DEF Typed, ReaderTyped, LiveRecord
    <3> QED
      BY <1>1, <2>1, <3>1, FileLinesStand, CutAssumption
  <2>3. N \in 1 .. N /\ lines[N] = Part(output[N])
    BY <1>1, <2>1, <2>2, FileLinesStand
  <2>4. a[N] = Then(launch.harness, a[N - 1], lines[N]) /\ a[N].ok
    <3>1. All = a[N]
      BY <2>1, <2>2 DEF All, DecodeAll
    <3>2. AdopterDecoder \in DecoderRecord /\ launch.harness \in Harness
      BY AdopterDecoderIsTyped, FileLinesStand
    <3> QED
      BY <2>1, <2>2, <2>3, <3>1, <3>2, DecodingsSteps
  <2>5. PICK d : d = a[N - 1].decoder
    OBVIOUS
  <2>6. PICK next : next = DecodeLine(launch.harness, d, lines[N])
    OBVIOUS
  <2>7. next = Fails(d)
    BY <2>3, <2>6, PartIsNoJSON DEF DecodeLine, CodexLine
  <2>8. a[N] = IF ~a[N - 1].ok THEN a[N - 1] ELSE [next EXCEPT !.milestones = a[N - 1].milestones \o @]
    BY <2>4, <2>5, <2>6 DEF Then
  <2>9. [next EXCEPT !.milestones = a[N - 1].milestones \o @].ok = FALSE
    BY <2>7 DEF Fails
  <2> QED
    BY <2>4, <2>8, <2>9
<1> QED
  BY <1>1 DEF FileLines

LEMMA InJoin ==
  ASSUME NEW s \in Seq(Said), NEW t \in Seq(Said), NEW i \in 1 .. Len(s \o t), i > Len(s)
  PROVE  i - Len(s) \in 1 .. Len(t) /\ (s \o t)[i] = t[i - Len(s)]
OBVIOUS

\* Every Result in it is the latest candidate before the end of its turn.
LEMMA CodexFileSays ==
  ASSUME Typed, LiveSound, launch.harness = "codex", All.ok
  PROVE  \A i \in 1 .. Len(All.milestones) :
           All.milestones[i].kind = "result" => EndsTurn(All.milestones[i].value)
<1>1. PICK a, N : a = Decodings(launch.harness, AdopterDecoder, output) /\ N = Len(output)
  OBVIOUS
<1>2. N \in Nat /\ All = a[N]
  BY <1>1, CodexFileIsWhole, FileLinesStand DEF All, DecodeAll
<1>3. /\ a \in [0 .. N -> DecodedRecord] /\ a[0] = Silent(AdopterDecoder)
      /\ \A i \in 1 .. N : a[i] = Then(launch.harness, a[i - 1], output[i])
  <2>1. AreLines(output) /\ launch.harness \in Harness /\ AdopterDecoder \in DecoderRecord
    BY AdopterDecoderIsTyped, FileLinesStand
  <2> QED
    BY <1>1, <2>1, DecodingsSteps
<1> DEFINE Say(out, n) ==
             /\ DecoderShaped(out.decoder)
             /\ ~out.decoder.result => Latest(out.decoder.pending, n)
             /\ \A i \in 1 .. Len(out.milestones) :
                  out.milestones[i].kind = "result" => EndsTurn(out.milestones[i].value)
           T == {n \in 0 .. N : a[n].ok => Say(a[n], n)}
<1>4. 0 \in T
  <2>1. a[0].decoder = FreshDecoder(launch.mode = "session") /\ a[0].milestones = <<>>
    BY <1>3 DEF Silent, Emits, AdopterDecoder
  <2>2. DecoderShaped(a[0].decoder) /\ a[0].decoder.pending = None
    BY <2>1 DEF FreshDecoder, DecoderShaped
  <2>3. Latest(None, 0)
    BY DEF Latest
  <2> QED
    BY <1>2, <2>1, <2>2, <2>3
<1>5. ASSUME NEW n \in 1 .. N, n - 1 \in T PROVE n \in T
  <2> SUFFICES ASSUME a[n].ok PROVE Say(a[n], n)
    OBVIOUS
  <2>1. PICK before, d, out : before = a[n - 1] /\ d = before.decoder /\ out = CodexLine(d, output[n])
    OBVIOUS
  <2>2. out = DecodeLine(launch.harness, d, output[n])
    BY <2>1 DEF DecodeLine
  <2>3. n - 1 \in 0 .. N /\ n \in 1 .. Len(output)
    BY <1>1, <1>2
  <2>4. before \in DecodedRecord /\ before.milestones \in Seq(Said) /\ d \in DecoderRecord
    BY <1>3, <2>1, <2>3 DEF DecodedRecord
  <2>5. out \in DecodedRecord /\ out.milestones \in Seq(Said)
    <3>1. IsLine(output[n]) /\ launch.harness \in Harness
      BY <2>3, FileLinesStand DEF AreLines
    <3> QED
      BY <2>2, <2>4, <3>1, LineIsTyped DEF DecodedRecord
  <2>6. a[n] = IF ~before.ok THEN before ELSE [out EXCEPT !.milestones = before.milestones \o @]
    BY <1>3, <2>1, <2>2 DEF Then
  <2>7. before.ok /\ a[n] = [out EXCEPT !.milestones = before.milestones \o @]
    BY <2>6
  <2>8. /\ a[n].decoder = out.decoder /\ out.ok
        /\ a[n].milestones = before.milestones \o out.milestones
    BY <2>5, <2>7 DEF DecodedRecord
  <2>9. Say(before, n - 1)
    BY <1>5, <2>1, <2>7
  <2>10. /\ DecoderShaped(out.decoder)
         /\ ~out.decoder.result => Latest(out.decoder.pending, n)
         /\ \/ out.milestones = <<>>
            \/ \E m : out.milestones = <<m>> /\ (m.kind = "result" => EndsTurn(m.value))
    <3>1. DecoderShaped(d) /\ (~d.result => Latest(d.pending, n - 1))
      BY <2>1, <2>9
    <3> QED
      BY <2>1, <2>3, <2>8, <3>1, LineDecodes
  <2>11. \A i \in 1 .. Len(out.milestones) :
           out.milestones[i].kind = "result" => EndsTurn(out.milestones[i].value)
    BY <2>10
  <2>12. ASSUME NEW i \in 1 .. Len(a[n].milestones), a[n].milestones[i].kind = "result"
         PROVE  EndsTurn(a[n].milestones[i].value)
    <3>1. CASE i <= Len(before.milestones)
      BY <2>4, <2>5, <2>8, <2>9, <2>12, <3>1
    <3>2. CASE i > Len(before.milestones)
      <4>1. PICK s, t : /\ s = before.milestones /\ t = out.milestones
                      /\ s \in Seq(Said) /\ t \in Seq(Said)
        BY <2>4, <2>5
      <4>2. i \in 1 .. Len(s \o t) /\ i > Len(s)
        BY <2>8, <3>2, <4>1
      <4>3. i - Len(s) \in 1 .. Len(t) /\ (s \o t)[i] = t[i - Len(s)]
        BY <4>1, <4>2, InJoin
      <4>4. PICK j : j = i - Len(s)
        OBVIOUS
      <4>5. j \in 1 .. Len(out.milestones) /\ a[n].milestones[i] = out.milestones[j]
        BY <2>8, <4>1, <4>3, <4>4
      <4>6. out.milestones[j].kind = "result"
        BY <2>12, <4>5
      <4>7. EndsTurn(out.milestones[j].value)
        BY <2>11, <4>5, <4>6
      <4> QED
        BY <4>5, <4>7
    <3> QED
      BY <2>4, <3>1, <3>2
  <2> QED
    BY <2>8, <2>10, <2>12
<1>6. 0 .. N \subseteq T
  <2> HIDE DEF T
  <2> QED
    BY <1>2, <1>4, <1>5, EveryStep
<1> QED
  BY <1>2, <1>6

-----------------------------------------------------------------------------

SaysEnd(m) == m.kind = "result" => EndsTurn(m.value)

\* An adopter that has read Codex holds and records only such Results.
AdopterHoldsEnds ==
  /\ \A m \in {adopter.found.session, adopter.found.turn, adopter.found.progress,
               adopter.found.result} : m = None \/ SaysEnd(m)
  /\ \A i \in 1 .. Len(adopter.todo) : SaysEnd(adopter.todo[i])

ReadersSound ==
  /\ Typed /\ ExecutorSound
  /\ launch.harness = "codex" => AdopterHoldsEnds /\ CodexResultIsLatestCandidate

LEMMA ReadersInit == OutputsInit => ReadersSound
<1> SUFFICES ASSUME OutputsInit PROVE ReadersSound
  OBVIOUS
<1>1. adopter.found = NothingFound /\ adopter.todo = <<>> /\ attempt.result = None
  BY DEF OutputsInit, Spawned
<1>2. AdopterHoldsEnds /\ CodexResultIsLatestCandidate
  BY <1>1 DEF AdopterHoldsEnds, NothingFound, CodexResultIsLatestCandidate
<1> QED
  BY <1>2, TypedInit, ExecutorInit DEF ReadersSound

LEMMA FoundSaysEnds ==
  ASSUME Typed, LiveSound, launch.harness = "codex", All.ok, NEW kind
  PROVE  LastOf(All.milestones, kind) = None \/ SaysEnd(LastOf(All.milestones, kind))
<1>1. PICK ms : ms = All.milestones
  OBVIOUS
<1>2. ms \in Seq(Said)
  BY <1>1, DecodedFileIsTyped DEF All
<1>3. \A i \in 1 .. Len(ms) : SaysEnd(ms[i])
  BY <1>1, CodexFileSays DEF SaysEnd
<1>4. LastOf(ms, kind) # None => \E i \in 1 .. Len(ms) : ms[i] = LastOf(ms, kind)
  BY <1>2, LastIsOne
<1> QED
  BY <1>1, <1>3, <1>4

LEMMA WantedSaysEnds ==
  ASSUME Typed, AdopterHoldsEnds
  PROVE  \A i \in 1 .. Len(Wanted) : SaysEnd(Wanted[i])
<1> DEFINE Good(s) == \A i \in 1 .. Len(s) : SaysEnd(s[i])
<1>1. adopter.found \in Found /\ adopter.stage \in 1 .. 3
  BY DEF Typed, AdopterRecord
<1>2. ASSUME NEW condition, NEW m \in Said \cup {None}, m = None \/ SaysEnd(m)
      PROVE  Missing(condition, m) \in Seq(Said) /\ Good(Missing(condition, m))
  BY <1>2 DEF Missing
<1>3. ASSUME NEW s \in Seq(Said), NEW t \in Seq(Said), Good(s), Good(t) PROVE Good(s \o t)
  <2> SUFFICES ASSUME NEW i \in 1 .. Len(s \o t) PROVE SaysEnd((s \o t)[i])
    OBVIOUS
  <2>1. CASE i <= Len(s)
    BY <1>3, <2>1
  <2>2. CASE i > Len(s)
    <3>1. i - Len(s) \in 1 .. Len(t) /\ (s \o t)[i] = t[i - Len(s)]
      BY <2>2
    <3> QED
      BY <1>3, <3>1
  <2> QED
    BY <2>1, <2>2
<1>4. ASSUME NEW condition, NEW m \in {adopter.found.session, adopter.found.turn,
                                       adopter.found.progress, adopter.found.result}
      PROVE  Missing(condition, m) \in Seq(Said) /\ Good(Missing(condition, m))
  <2>1. m \in Said \cup {None} /\ (m = None \/ SaysEnd(m))
    BY <1>1 DEF Found, AdopterHoldsEnds
  <2> HIDE DEF Good
  <2> QED
    BY <1>2, <2>1
<1>5. /\ Good(Missing(attempt.native = None, adopter.found.session))
      /\ Good(Missing("turn_started" \notin attempt.milestones, adopter.found.turn))
      /\ Good(Missing("meaningful_progress" \notin attempt.milestones, adopter.found.progress)
              \o Missing("result" \notin attempt.milestones, adopter.found.result))
  <2> HIDE DEF Good
  <2> QED
    BY <1>3, <1>4
<1> HIDE DEF Good
<1>6. Good(Wanted)
  BY <1>1, <1>5 DEF Wanted
<1> USE DEF Good
<1> QED
  BY <1>6

LEMMA ReadersStay ==
  ASSUME ReadersSound, [OutputsNext]_vars
  PROVE  ReadersSound'
<1>1. Typed' /\ ExecutorSound' /\ LiveSound /\ LiveSound'
  BY TypedStays, ExecutorStays DEF ReadersSound, ExecutorSound
<1>2. launch' = launch
  BY DEF OutputsNext, HarnessStep, HarnessPrints, HarnessContinues, HarnessEnds, Pause,
     LiveStep, LiveReads, LiveRecords, LiveWaits, LiveWakes, LiveHearsStop, LiveFails,
     LiveExits, LiveDies, AdopterStep, Adopt, AdopterReads, AdopterLooks, AdopterRecords,
     AdopterNext, AdopterExits, vars
<1>3. ASSUME launch.harness = "codex"
      PROVE  AdopterHoldsEnds' /\ CodexResultIsLatestCandidate'
  <2>1. AdopterHoldsEnds /\ (attempt.result # None => EndsTurn(attempt.result))
    BY <1>3 DEF ReadersSound, CodexResultIsLatestCandidate
  <2>2. \A status : EndsTurn(status) => EndsTurn(status)'
    <3>1. CASE HarnessPrints
      <4>1. /\ output \in Seq(Lines[launch.harness]) /\ output' \in Seq(Lines[launch.harness])
            /\ Len(output') >= Len(output) /\ \A j \in 1 .. Len(output) : output'[j] = output[j]
        BY <1>1, <3>1, OutputGrows DEF LiveSound
      <4> QED
        BY <4>1, EndStays
    <3>2. CASE ~HarnessPrints
      <4>1. output' = output
        BY <3>2 DEF OutputsNext, HarnessStep, HarnessContinues, HarnessEnds, Pause,
           LiveStep, LiveReads, LiveRecords, LiveWaits, LiveWakes, LiveHearsStop, LiveFails,
           LiveExits, LiveDies, AdopterStep, Adopt, AdopterReads, AdopterLooks, AdopterRecords,
           AdopterNext, AdopterExits, vars
      <4> QED
        BY <4>1 DEF EndsTurn, Candidate
    <3> QED
      BY <3>1, <3>2
  <2>3. \A m : SaysEnd(m) => SaysEnd(m)'
    BY <2>2 DEF SaysEnd
  <2>4. adopter \in AdopterRecord /\ attempt \in AttemptRecord /\ adopter.todo \in Seq(Said)
    BY DEF ReadersSound, Typed, AdopterRecord
  <2>5. ASSUME NEW m, SaysEnd(m), attempt' = Recorded(attempt, m)
        PROVE  CodexResultIsLatestCandidate'
    <3>1. PICK result : result = attempt'.result
      OBVIOUS
    <3>2. result = IF m.kind = "result" THEN m.value ELSE attempt.result
      BY <2>5, <3>1 DEF Recorded
    <3>3. result # None => EndsTurn(result)'
      BY <2>1, <2>2, <2>5, <3>2 DEF SaysEnd
    <3> QED
      BY <3>1, <3>3 DEF CodexResultIsLatestCandidate
  <2>6. CASE LiveRecords
    <3>1. adopter' = adopter /\ live.todo # <<>>
      BY <2>6 DEF LiveRecords
    <3>2. SaysEnd(Head(live.todo))
      BY <1>3, <3>1 DEF ReadersSound, ExecutorSound, DecoderSound, SaysEnd
    <3>3. attempt' = attempt \/ attempt' = Recorded(attempt, Head(live.todo))
      BY <2>6 DEF LiveRecords
    <3>4. CodexResultIsLatestCandidate'
      BY <2>1, <2>2, <2>5, <3>2, <3>3 DEF CodexResultIsLatestCandidate
    <3>5. AdopterHoldsEnds'
      BY <2>1, <2>3, <3>1 DEF AdopterHoldsEnds
    <3> QED
      BY <3>4, <3>5
  <2>7. CASE AdopterRecords
    <3>1. PICK m, rest : m = Head(adopter.todo) /\ rest = Tail(adopter.todo)
      OBVIOUS
    <3>2. adopter.todo # <<>> /\ SaysEnd(m) /\ \A i \in 1 .. Len(rest) : SaysEnd(rest[i])
      <4>1. PICK todo \in Seq(Said) : todo = adopter.todo
        BY <2>4
      <4>2. todo # <<>> /\ \A i \in 1 .. Len(todo) : SaysEnd(todo[i])
        BY <2>1, <2>7, <4>1 DEF AdopterRecords, AdopterHoldsEnds
      <4>3. /\ m = todo[1] /\ 1 \in 1 .. Len(todo)
            /\ \A i \in 1 .. Len(rest) : i + 1 \in 1 .. Len(todo) /\ rest[i] = todo[i + 1]
        BY <3>1, <4>1, <4>2
      <4> QED
        BY <4>1, <4>2, <4>3
    <3>3. attempt' = attempt \/ attempt' = Recorded(attempt, m)
      BY <2>7, <3>1 DEF AdopterRecords
    <3>4. CodexResultIsLatestCandidate'
      BY <2>1, <2>2, <2>5, <3>2, <3>3 DEF CodexResultIsLatestCandidate
    <3>5. \/ adopter' = [adopter EXCEPT !.todo = rest]
          \/ adopter' = [adopter EXCEPT !.pc = "failed", !.todo = <<>>]
      BY <2>7, <3>1 DEF AdopterRecords
    <3>6. adopter'.found = adopter.found /\ (adopter'.todo = rest \/ adopter'.todo = <<>>)
      BY <2>4, <3>5 DEF AdopterRecord
    <3>7. AdopterHoldsEnds'
      BY <2>1, <2>3, <3>2, <3>6 DEF AdopterHoldsEnds
    <3> QED
      BY <3>4, <3>7
  <2>8. CASE AdopterReads /\ All.ok
    <3>1. attempt' = attempt
      BY <2>8 DEF AdopterReads
    <3>2. adopter'.found = FoundIn(All.milestones) /\ adopter'.todo = adopter.todo
      BY <2>4, <2>8 DEF AdopterReads, All, AdopterRecord
    <3>3. \A m \in {adopter'.found.session, adopter'.found.turn, adopter'.found.progress,
                    adopter'.found.result} : m = None \/ SaysEnd(m)
      <4>1. \A kind : LastOf(All.milestones, kind) = None \/ SaysEnd(LastOf(All.milestones, kind))
        BY <1>1, <1>3, <2>8, FoundSaysEnds DEF ReadersSound
      <4> QED
        BY <3>2, <4>1 DEF FoundIn
    <3>4. AdopterHoldsEnds'
      BY <2>1, <2>3, <3>2, <3>3 DEF AdopterHoldsEnds
    <3> QED
      BY <2>1, <2>2, <3>1, <3>4 DEF CodexResultIsLatestCandidate
  <2>9. CASE AdopterLooks
    <3>1. attempt' = attempt
      BY <2>9 DEF AdopterLooks
    <3>2. adopter'.found = adopter.found /\ adopter'.todo \in {adopter.todo, Wanted}
      BY <2>4, <2>9 DEF AdopterLooks, AdopterRecord
    <3>3. \A i \in 1 .. Len(Wanted) : SaysEnd(Wanted[i])
      BY <2>1, WantedSaysEnds DEF ReadersSound
    <3>4. AdopterHoldsEnds'
      <4>1. PICK todo : todo = adopter'.todo
        OBVIOUS
      <4>2. \A i \in 1 .. Len(todo) : SaysEnd(todo[i])
        BY <2>1, <3>2, <3>3, <4>1 DEF AdopterHoldsEnds
      <4> QED
        BY <2>1, <2>3, <3>2, <4>1, <4>2 DEF AdopterHoldsEnds
    <3> QED
      BY <2>1, <2>2, <3>1, <3>4 DEF CodexResultIsLatestCandidate
  <2>10. CASE UNCHANGED <<adopter.found, adopter.todo, attempt.result>>
    BY <2>1, <2>2, <2>3, <2>10 DEF AdopterHoldsEnds, CodexResultIsLatestCandidate
  <2>11. CASE HarnessStep \/ Pause \/ UNCHANGED vars
    BY <2>10, <2>11 DEF HarnessStep, HarnessPrints, HarnessContinues, HarnessEnds, Pause, vars
  <2>12. CASE LiveStep /\ ~LiveRecords
    BY <2>4, <2>10, <2>12 DEF LiveStep, LiveReads, LiveWaits, LiveWakes, LiveHearsStop, LiveFails,
       LiveExits, LiveDies, RecordExit, AttemptRecord
  <2>13. CASE Adopt \/ AdopterNext \/ AdopterExits \/ (AdopterReads /\ ~All.ok)
    <3>1. attempt'.result = attempt.result
      BY <2>4, <2>13 DEF Adopt, AdopterReads, AdopterNext, AdopterExits, RecordExit, AttemptRecord
    <3>2. adopter'.found = adopter.found /\ adopter'.todo = adopter.todo
      BY <2>4, <2>13 DEF Adopt, AdopterReads, AdopterNext, AdopterExits, All, AdopterRecord
    <3> QED
      BY <2>10, <3>1, <3>2
  <2> QED
    BY <2>6, <2>7, <2>8, <2>9, <2>11, <2>12, <2>13 DEF OutputsNext, AdopterStep
<1> QED
  BY <1>1, <1>2, <1>3 DEF ReadersSound

(* Codex: whatever pieces of lines the executor finds while the harness writes, and
   whoever records it, the executor or an adopter, the Result is the latest structured
   message before the turn.completed that ends the turn, for any lines and any number
   of them (codex.go, DecodeLine; executor.go, decodeFile and recoverAttemptOutput). *)
THEOREM CodexResultIsLatest == OutputsSpec => []CodexResultIsLatestCandidate
<1>1. ReadersSound => CodexResultIsLatestCandidate
  BY DEF ReadersSound, CodexResultIsLatestCandidate
<1> QED
  BY <1>1, ReadersInit, ReadersStay, PTL DEF OutputsSpec

-----------------------------------------------------------------------------
(* Where a decoder stands in the file. *)

\* What is decoded of the first n lines, and what an Attempt is after its milestones.
Dec(n) == Decodings(launch.harness, AdopterDecoder, output)[n]
Rec(n) == Recording(Dec(n).milestones)

\* The first n lines are not cut within the last.
Whole(n) == n \in 0 .. Len(output) /\ (n = Len(output) => cut # "half")

\* What is left of the milestones after k of them.
Left(milestones, k, todo) ==
  /\ k \in 0 .. Len(milestones) /\ Len(todo) = Len(milestones) - k
  /\ \A i \in 1 .. Len(todo) : todo[i] = milestones[k + i]

\* The Attempt after the first k milestones of n lines.
Stands(n, k) ==
  Whole(n) /\ Dec(n).ok /\ k \in 0 .. Len(Dec(n).milestones) /\ attempt = Rec(n)[k]

-----------------------------------------------------------------------------

LEMMA DecIsTyped ==
  ASSUME Typed, NEW n \in 0 .. Len(output)
  PROVE  /\ Dec(n) \in DecodedRecord /\ Dec(n).milestones \in Seq(Said) /\ AreSaid(Dec(n).milestones)
<1>1. PICK a, N : a = Decodings(launch.harness, AdopterDecoder, output) /\ N = Len(output)
  OBVIOUS
<1>2. N \in Nat /\ n \in 0 .. N
  BY <1>1, FileLinesStand
<1>3. a \in [0 .. N -> DecodedRecord]
  <2>1. AreLines(output) /\ launch.harness \in Harness /\ AdopterDecoder \in DecoderRecord
    BY AdopterDecoderIsTyped, FileLinesStand
  <2> QED
    BY <1>1, <2>1, DecodingsSteps
<1>4. Dec(n) \in DecodedRecord
  BY <1>1, <1>2, <1>3 DEF Dec
<1>5. PICK ms : ms = Dec(n).milestones
  OBVIOUS
<1>6. ms \in Seq(Said)
  BY <1>4, <1>5 DEF DecodedRecord
<1>7. AreSaid(ms)
  BY <1>6 DEF AreSaid
<1> QED
  BY <1>4, <1>5, <1>6, <1>7

LEMMA DecSteps ==
  ASSUME Typed
  PROVE  /\ Dec(0) = Silent(AdopterDecoder)
         /\ \A n \in 1 .. Len(output) : Dec(n) = Then(launch.harness, Dec(n - 1), output[n])
<1>1. AreLines(output) /\ launch.harness \in Harness /\ AdopterDecoder \in DecoderRecord
  BY AdopterDecoderIsTyped, FileLinesStand
<1> QED
  BY <1>1, DecodingsSteps DEF Dec

\* The next line, and what it adds.
LEMMA DecAdds ==
  ASSUME Typed, NEW n \in 1 .. Len(output), Dec(n - 1).ok,
         NEW out, out = DecodeLine(launch.harness, Dec(n - 1).decoder, output[n])
  PROVE  /\ out.milestones \in Seq(Said)
         /\ Dec(n).ok = out.ok /\ Dec(n).decoder = out.decoder
         /\ Dec(n).milestones = Dec(n - 1).milestones \o out.milestones
<1>1. PICK before : before = Dec(n - 1)
  OBVIOUS
<1>2. n - 1 \in 0 .. Len(output) /\ IsLine(output[n])
  BY FileLinesStand DEF AreLines
<1>3. before \in DecodedRecord
  BY <1>1, <1>2, DecIsTyped
<1>4. out \in DecodedRecord
  BY <1>1, <1>2, <1>3, LineIsTyped, FileLinesStand DEF DecodedRecord
<1>5. Dec(n) = [out EXCEPT !.milestones = before.milestones \o @]
  BY <1>1, DecSteps DEF Then
<1> QED
  BY <1>1, <1>4, <1>5 DEF DecodedRecord

\* A line only adds, also to what is recorded.
LEMMA RecAgrees ==
  ASSUME Typed, NEW n \in 0 .. Len(output), NEW m \in n .. Len(output),
         NEW k \in 0 .. Len(Dec(n).milestones)
  PROVE  /\ Rec(m)[k] = Rec(n)[k] /\ k \in 0 .. Len(Dec(m).milestones)
         /\ Begins(Dec(n).milestones, Dec(m).milestones) /\ (Dec(m).ok => Dec(n).ok)
<1>1. PICK s, t : s = Dec(n).milestones /\ t = Dec(m).milestones
  OBVIOUS
<1>2. /\ Len(output) \in Nat /\ n \in Nat /\ m \in Nat
      /\ m \in 0 .. Len(output) /\ n <= m /\ m <= Len(output)
  BY FileLinesStand
<1>3. AreSaid(s) /\ AreSaid(t)
  BY <1>1, <1>2, DecIsTyped
<1>4. Begins(s, t) /\ (Dec(m).ok => Dec(n).ok)
  <2>1. AreLines(output) /\ launch.harness \in Harness /\ AdopterDecoder \in DecoderRecord
    BY AdopterDecoderIsTyped, FileLinesStand
  <2> QED
    BY <1>1, <1>2, <2>1, DecodingsGrow DEF Dec
<1>5. LaunchTyped
  BY DEF Typed, FileTyped
<1>6. Recording(t)[k] = Recording(s)[k]
  BY <1>1, <1>3, <1>4, <1>5, RecordingAgrees
<1> QED
  BY <1>1, <1>3, <1>4, <1>6 DEF Rec, Begins, AreSaid

-----------------------------------------------------------------------------
(* What a step leaves of the file. *)

LEMMA StepWrites ==
  ASSUME Typed, [OutputsNext]_vars
  PROVE  /\ Typed' /\ launch' = launch
         /\ Len(output) \in Nat /\ Len(output') \in Nat /\ Len(output') >= Len(output)
         /\ \A i \in 1 .. Len(output) : output'[i] = output[i]
         /\ cut' = "half" => cut = "half" \/ Len(output') > Len(output)
         /\ AreLines(output')
<1>1. Typed'
  BY TypedStays
<1>2. launch' = launch
  BY DEF OutputsNext, HarnessStep, HarnessPrints, HarnessContinues, HarnessEnds, Pause,
     LiveStep, LiveReads, LiveRecords, LiveWaits, LiveWakes, LiveHearsStop, LiveFails,
     LiveExits, LiveDies, AdopterStep, Adopt, AdopterReads, AdopterLooks, AdopterRecords,
     AdopterNext, AdopterExits, vars
<1>3. output \in Seq(Lines[launch.harness]) /\ output' \in Seq(Lines[launch.harness])
  BY <1>1, <1>2 DEF Typed, FileTyped
<1>4. Len(output) \in Nat /\ Len(output') \in Nat
  BY <1>3
<1>5. AreLines(output')
  <2>1. \A i \in 1 .. Len(output') : output'[i] \in Lines[launch.harness]
    BY <1>3
  <2>2. launch.harness \in Harness
    BY DEF Typed, FileTyped, LaunchTyped
  <2> QED
    BY <1>4, <2>1, <2>2, LinesAssumption DEF AreLines
<1>6. CASE HarnessPrints
  <2>1. PICK line \in Lines[launch.harness] : output' = Append(output, line)
    BY <1>6 DEF HarnessPrints
  <2>2. Len(output') = Len(output) + 1 /\ \A i \in 1 .. Len(output) : output'[i] = output[i]
    BY <1>3, <2>1
  <2> QED
    BY <1>1, <1>2, <1>4, <1>5, <2>2
<1>7. CASE ~HarnessPrints
  <2>1. output' = output /\ (cut' = cut \/ cut' \in {None, "bare"})
    BY <1>7 DEF OutputsNext, HarnessStep, HarnessContinues, HarnessEnds, Pause,
       LiveStep, LiveReads, LiveRecords, LiveWaits, LiveWakes, LiveHearsStop, LiveFails,
       LiveExits, LiveDies, AdopterStep, Adopt, AdopterReads, AdopterLooks, AdopterRecords,
       AdopterNext, AdopterExits, vars
  <2> QED
    BY <1>1, <1>2, <1>4, <1>5, <2>1, CutAssumption
<1> QED
  BY <1>6, <1>7

LEMMA RecordingStays ==
  ASSUME NEW ms, UNCHANGED launch
  PROVE  Recording(ms)' = Recording(ms)
BY DEF Recording, Spawned, Accepts, Recorded

\* What was decoded and recorded of the first lines stays.
LEMMA DecStays ==
  ASSUME Typed, [OutputsNext]_vars, NEW n \in 0 .. Len(output)
  PROVE  /\ Dec(n)' = Dec(n) /\ Rec(n)' = Rec(n)
         /\ n \in 0 .. Len(output') /\ (Whole(n) => Whole(n)')
<1>1. PICK h, d, lines, other :
        h = launch.harness /\ d = AdopterDecoder /\ lines = output /\ other = output'
  OBVIOUS
<1>2. AdopterDecoder' = AdopterDecoder /\ launch'.harness = launch.harness
  BY StepWrites DEF AdopterDecoder
<1>3. /\ AreLines(lines) /\ AreLines(other) /\ h \in Harness /\ d \in DecoderRecord
      /\ n \in Nat /\ n <= Len(lines) /\ n <= Len(other) /\ \A i \in 1 .. n : other[i] = lines[i]
  <2>1. AreLines(output) /\ launch.harness \in Harness /\ AdopterDecoder \in DecoderRecord
    BY AdopterDecoderIsTyped, FileLinesStand
  <2>2. /\ AreLines(output') /\ Len(output) \in Nat /\ Len(output') \in Nat
        /\ Len(output') >= Len(output) /\ \A i \in 1 .. Len(output) : output'[i] = output[i]
    BY StepWrites
  <2> QED
    BY <1>1, <2>1, <2>2
<1>4. Decodings(h, d, other)[n] = Decodings(h, d, lines)[n]
  BY <1>3, DecodingsAgree
<1>5. Dec(n)' = Dec(n)
  BY <1>1, <1>2, <1>4 DEF Dec
<1>6. PICK ms : ms = Dec(n).milestones
  OBVIOUS
<1>7. Rec(n)' = Rec(n)
  <2>1. Recording(ms)' = Recording(ms)
    BY StepWrites, RecordingStays
  <2>2. Dec(n)'.milestones = ms
    BY <1>5, <1>6
  <2> QED
    BY <1>6, <2>1, <2>2 DEF Rec
<1>8. n \in 0 .. Len(output') /\ (Whole(n) => Whole(n)')
  <2>1. /\ Len(output) \in Nat /\ Len(output') \in Nat /\ Len(output') >= Len(output)
        /\ cut' = "half" => cut = "half" \/ Len(output') > Len(output)
    BY StepWrites
  <2> QED
    BY <2>1 DEF Whole
<1> QED
  BY <1>5, <1>7, <1>8

LEMMA StandsStays ==
  ASSUME Typed, [OutputsNext]_vars, attempt' = attempt, NEW n, NEW k, Stands(n, k)
  PROVE  Stands(n, k)'
<1>1. n \in 0 .. Len(output)
  BY DEF Stands, Whole
<1>2. Dec(n)' = Dec(n) /\ Rec(n)' = Rec(n) /\ Whole(n)'
  BY <1>1, DecStays DEF Stands
<1> QED
  BY <1>2 DEF Stands

\* A line that does not decode, or a milestone that is refused, spoils the file for good.
Refused ==
  \E n \in 0 .. Len(output) :
    Whole(n) /\ (~Dec(n).ok \/ \E k \in 0 .. Len(Dec(n).milestones) : Rec(n)[k] = None)

LEMMA RefusedStays ==
  ASSUME Typed, [OutputsNext]_vars, Refused
  PROVE  Refused'
<1>1. PICK n \in 0 .. Len(output) :
        Whole(n) /\ (~Dec(n).ok \/ \E k \in 0 .. Len(Dec(n).milestones) : Rec(n)[k] = None)
  BY DEF Refused
<1>2. Dec(n)' = Dec(n) /\ Rec(n)' = Rec(n) /\ Whole(n)' /\ n \in 0 .. Len(output')
  BY <1>1, DecStays
<1> QED
  BY <1>1, <1>2 DEF Refused

\* The file's own lines decode alike.
LEMMA DecOfFile ==
  ASSUME Typed, NEW n \in 0 .. Len(output), Whole(n), All.ok
  PROVE  /\ Dec(n).ok /\ Begins(Dec(n).milestones, All.milestones)
         /\ All.milestones \in Seq(Said) /\ AreSaid(All.milestones)
<1>1. PICK h, d, lines, other, N :
        /\ h = launch.harness /\ d = AdopterDecoder /\ lines = FileLines
        /\ other = output /\ N = Len(output)
  OBVIOUS
<1>2. /\ AreLines(lines) /\ AreLines(other) /\ h \in Harness /\ d \in DecoderRecord
      /\ N \in Nat /\ Len(lines) = N /\ Len(other) = N
      /\ n \in Nat /\ n <= N /\ \A i \in 1 .. n : other[i] = lines[i]
  <2>1. AreLines(output) /\ launch.harness \in Harness /\ AdopterDecoder \in DecoderRecord
    BY AdopterDecoderIsTyped, FileLinesStand
  <2>2. /\ AreLines(FileLines) /\ Len(FileLines) = Len(output) /\ Len(output) \in Nat
        /\ \A i \in 1 .. Len(output) : i < Len(output) \/ cut # "half" => FileLines[i] = output[i]
    BY FileLinesStand
  <2> QED
    BY <1>1, <2>1, <2>2 DEF Whole
<1>3. Decodings(h, d, other)[n] = Decodings(h, d, lines)[n]
  BY <1>2, DecodingsAgree
<1>4. Decodings(h, d, lines)[N] = All
  BY <1>1, <1>2 DEF All, DecodeAll
<1>5. /\ Begins(Decodings(h, d, lines)[n].milestones, Decodings(h, d, lines)[N].milestones)
      /\ Decodings(h, d, lines)[N].ok => Decodings(h, d, lines)[n].ok
  BY <1>2, DecodingsGrow
<1>6. All.milestones \in Seq(Said)
  BY DecodedFileIsTyped DEF All
<1>7. AreSaid(All.milestones)
  <2>1. PICK ms : ms = All.milestones
    OBVIOUS
  <2> QED
    BY <1>6, <2>1 DEF AreSaid
<1> QED
  BY <1>1, <1>3, <1>4, <1>5, <1>6, <1>7 DEF Dec

LEMMA ToldIs ==
  ASSUME Typed, Told # None
  PROVE  All.ok /\ Told = Recording(All.milestones)[Len(All.milestones)]
BY DEF Told, ToldBy, All, AdopterDecoder

\* What stands at a whole line is a part of what the file tells.
LEMMA ToldGoesOn ==
  ASSUME Typed, Told # None, NEW n \in 0 .. Len(output), Whole(n),
         NEW k \in 0 .. Len(Dec(n).milestones)
  PROVE  /\ Rec(n)[k] = Recording(All.milestones)[k] /\ Rec(n)[k] # None
         /\ k \in 0 .. Len(All.milestones)
<1>1. PICK s, t : s = Dec(n).milestones /\ t = All.milestones
  OBVIOUS
<1>2. AreSaid(s) /\ AreSaid(t) /\ Begins(s, t)
  BY <1>1, ToldIs, DecIsTyped, DecOfFile
<1>3. LaunchTyped
  BY DEF Typed, FileTyped
<1>4. Recording(t)[k] = Recording(s)[k]
  BY <1>1, <1>2, <1>3, RecordingAgrees
<1>5. Recording(t)[Len(t)] # None
  BY <1>1, ToldIs
<1>6. k \in 0 .. Len(t) /\ Len(t) \in k .. Len(t)
  BY <1>1, <1>2 DEF AreSaid, Begins
<1>7. Recording(t)[k] # None
  BY <1>2, <1>3, <1>5, <1>6, RecordingGoesBack
<1> QED
  BY <1>1, <1>4, <1>6, <1>7 DEF Rec

LEMMA RefusedTellsNothing ==
  ASSUME Typed, Refused
  PROVE  Told = None
<1> SUFFICES ASSUME Told # None PROVE FALSE
  OBVIOUS
<1>1. PICK n \in 0 .. Len(output) :
        Whole(n) /\ (~Dec(n).ok \/ \E k \in 0 .. Len(Dec(n).milestones) : Rec(n)[k] = None)
  BY DEF Refused
<1>2. Dec(n).ok
  BY <1>1, ToldIs, DecOfFile
<1> QED
  BY <1>1, <1>2, ToldGoesOn

-----------------------------------------------------------------------------
(* The executor has recorded what the lines it read say. *)

Exact == launch.harness # "generic" \/ ~live.pieces

\* A decoder that has stopped looking knows the process ended; what was taken of an
\* unfinished line was taken as a piece.
Heard ==
  /\ live.stopping => ~running
  /\ live.taken # None => live.pieces

\* A decoder at work holds what its lines say, and has recorded all but what is left.
Following ==
  ~HasRead /\ Decoding /\ Exact =>
    /\ live.taken # "half" /\ Dec(Decoded).decoder = live.decoder
    /\ \E k : Stands(Decoded, k) /\ Left(Dec(Decoded).milestones, k, live.todo)

\* Until an adopter reads, the Attempt is what some first milestones of some first
\* lines make of it, also when the executor failed or died there.
Kept ==
  ~HasRead /\ launch.harness # "generic" /\ live.pc # "done" => \E n, k : Stands(n, k)

Exited(known) == [known EXCEPT !.milestones = @ \cup {"exit"}]

\* Everything was read and recorded.
Finished ==
  /\ ~running /\ live.read = Len(output) /\ Dec(live.read).ok
  /\ LET known == Rec(live.read)[Len(Dec(live.read).milestones)]
     IN  attempt = IF live.pc = "done" THEN Exited(known) ELSE known

Ended ==
  (/\ adopter.pc = "none" /\ ~live.pieces /\ ~paused
   /\ live.pc \in {"failed", "drained", "done"})
    => Refused \/ (live.pc # "failed" /\ Finished)

FollowerSound == Typed /\ ExecutorSound /\ Heard /\ Following /\ Kept /\ Ended

-----------------------------------------------------------------------------

LEMMA LeftAll ==
  ASSUME NEW ms \in Seq(Said), NEW k, NEW todo
  PROVE  /\ Left(ms, k, <<>>) => k = Len(ms)
         /\ Left(ms, Len(ms), <<>>)
BY DEF Left

LEMMA LeftAfter ==
  ASSUME NEW s \in Seq(Said), NEW t \in Seq(Said)
  PROVE  Left(s \o t, Len(s), t)
BY DEF Left

LEMMA LeftHead ==
  ASSUME NEW ms \in Seq(Said), NEW todo \in Seq(Said), todo # <<>>, NEW k, Left(ms, k, todo)
  PROVE  /\ k + 1 \in 1 .. Len(ms) /\ k \in 0 .. Len(ms) /\ Head(todo) = ms[k + 1]
         /\ Left(ms, k + 1, Tail(todo))
<1>1. k \in 0 .. Len(ms) /\ Len(todo) = Len(ms) - k /\ \A i \in 1 .. Len(todo) : todo[i] = ms[k + i]
  BY DEF Left
<1>2. Len(todo) \in Nat /\ Len(todo) # 0 /\ Head(todo) = todo[1] /\ 1 \in 1 .. Len(todo)
  OBVIOUS
<1>3. Len(Tail(todo)) = Len(todo) - 1 /\ \A i \in 1 .. Len(Tail(todo)) : Tail(todo)[i] = todo[i + 1]
  BY <1>2
<1>4. k + 1 \in 0 .. Len(ms) /\ Len(Tail(todo)) = Len(ms) - (k + 1)
  BY <1>1, <1>2, <1>3
<1>5. ASSUME NEW i \in 1 .. Len(Tail(todo)) PROVE Tail(todo)[i] = ms[(k + 1) + i]
  <2>1. i + 1 \in 1 .. Len(todo) /\ k + (i + 1) = (k + 1) + i
    BY <1>1, <1>2, <1>3
  <2>2. todo[i + 1] = ms[k + (i + 1)]
    BY <1>1, <2>1
  <2> QED
    BY <1>3, <2>1, <2>2
<1> QED
  BY <1>1, <1>2, <1>4, <1>5 DEF Left

LEMMA FollowerInit == OutputsInit => FollowerSound
<1> SUFFICES ASSUME OutputsInit PROVE FollowerSound
  OBVIOUS
<1>1. Typed /\ ExecutorSound
  BY TypedInit, ExecutorInit
<1>2. /\ output = <<>> /\ Len(output) = 0 /\ cut = None /\ attempt = Spawned
      /\ live = NewLive("reading", launch.mode)
  BY DEF OutputsInit
<1>3. /\ live.pc = "reading" /\ live.read = 0 /\ live.taken = None /\ live.todo = <<>>
      /\ live.stopping = FALSE /\ live.decoder = AdopterDecoder
  BY <1>2 DEF NewLive, AdopterDecoder
<1>4. Heard
  BY <1>3 DEF Heard
<1>5. Decoded = 0
  BY <1>3, CutAssumption DEF Decoded
<1>6. /\ Dec(0).ok /\ Dec(0).decoder = AdopterDecoder /\ Dec(0).milestones = <<>>
  BY <1>1, DecSteps DEF Silent, Emits
<1>7. Rec(0)[0] = Spawned
  <2>1. LaunchTyped /\ AreSaid(<<>>)
    BY <1>1 DEF Typed, FileTyped, AreSaid
  <2>2. Recording(<<>>)[0] = Spawned
    BY <2>1, RecordingSteps
  <2> QED
    BY <1>6, <2>2 DEF Rec
<1>8. Stands(0, 0) /\ Left(Dec(0).milestones, 0, live.todo)
  <2>1. Whole(0)
    BY <1>2, CutAssumption DEF Whole
  <2>2. 0 \in 0 .. Len(<<>>) /\ Left(<<>>, 0, <<>>)
    BY DEF Left
  <2> QED
    BY <1>2, <1>3, <1>6, <1>7, <2>1, <2>2 DEF Stands
<1>9. Following /\ Kept
  BY <1>3, <1>5, <1>6, <1>8, CutAssumption DEF Following, Kept
<1>10. Ended
  BY <1>3 DEF Ended
<1> QED
  BY <1>1, <1>4, <1>9, <1>10 DEF FollowerSound

LEMMA NoJSONFails ==
  ASSUME NEW harness \in {"codex", "claude", "pi"}, NEW d, NEW line, line.event \in NotJSON
  PROVE  DecodeLine(harness, d, line) = Fails(d)
<1>1. CASE harness = "codex"
  BY <1>1 DEF DecodeLine, CodexLine
<1>2. CASE harness = "claude"
  <2>1. DecodeLine(harness, d, line) = ClaudeLine(d, line)
    BY <1>2 DEF DecodeLine
  <2> QED
    BY <2>1 DEF ClaudeLine, NotJSON
<1>3. CASE harness = "pi"
  <2>1. DecodeLine(harness, d, line) = PiLine(d, line)
    BY <1>3 DEF DecodeLine
  <2> QED
    BY <2>1 DEF PiLine, NotJSON
<1> QED
  BY <1>1, <1>2, <1>3

\* A decoder takes whole lines, but for those it fails at or that show in its pieces.
LEMMA ReadsWhole ==
  ASSUME Typed, LiveSound, Heard, Available, live.taken # "half",
         NEW out, out = DecodeLine(launch.harness, live.decoder, Piece),
         \/ launch.harness # "generic" /\ out.ok
         \/ ~live.pieces /\ ~AtTail
  PROVE  /\ live.taken = None /\ Piece = output[NextLine] /\ (AtTail => cut = "bare")
         /\ NextLine \in 1 .. Len(output) /\ Whole(NextLine)
         /\ Decoded = live.read /\ NextLine = live.read + 1 /\ NextLine - 1 = live.read
<1>1. /\ live.taken \in {None, "bare"} /\ cut \in {None, "half", "bare"}
      /\ live.read \in Nat /\ Len(output) \in Nat /\ NextLine \in 1 .. Len(output)
  BY PieceIsTyped, FileLinesStand DEF Typed, FileTyped, ReaderTyped, LiveRecord
<1>2. NextLine = live.read + 1 /\ NextLine - 1 = live.read
  BY <1>1 DEF NextLine
<1>3. live.taken = None /\ Piece = output[NextLine] /\ (AtTail => cut = "bare")
  <2>1. CASE launch.harness # "generic" /\ out.ok
    <3>1. Piece.event \notin NotJSON
      <4>1. launch.harness \in {"codex", "claude", "pi"}
        BY <2>1 DEF Typed, FileTyped, LaunchTyped, Harness
      <4> QED
        BY <2>1, <4>1, NoJSONFails DEF Fails
    <3> QED
      BY <1>1, <3>1, PieceIsLine
  <2>2. CASE ~live.pieces /\ ~AtTail
    <3>1. live.taken = None
      BY <2>2 DEF Heard
    <3>2. Piece = output[NextLine]
      BY <2>2, <3>1, CutAssumption DEF Piece
    <3> QED
      BY <2>2, <3>1, <3>2
  <2> QED
    BY <2>1, <2>2
<1>4. Whole(NextLine)
  BY <1>1, <1>3, CutAssumption DEF Whole, AtTail
<1>5. Decoded = live.read
  BY <1>3, CutAssumption DEF Decoded
<1> QED
  BY <1>1, <1>2, <1>3, <1>4, <1>5

LEMMA ReadsKeepFollower ==
  ASSUME FollowerSound, LiveReads
  PROVE  FollowerSound'
<1>0. PICK out, next : out = DecodeLine(launch.harness, live.decoder, Piece) /\ next = NextLine
  OBVIOUS
<1>1. /\ Typed /\ Typed' /\ ExecutorSound' /\ LiveSound /\ [OutputsNext]_vars
      /\ Heard /\ Following /\ Kept /\ Ended
  BY TypedStays, ExecutorStays DEF FollowerSound, ExecutorSound, OutputsNext, LiveStep
<1>2. /\ UNCHANGED <<launch, output, cut, running, attempt, paused, adopter>>
      /\ live.pc = "reading" /\ live.todo = <<>> /\ Available
      /\ live' = [live EXCEPT !.pc = IF out.ok THEN "reading" ELSE "failed",
                              !.decoder = out.decoder, !.todo = out.milestones,
                              !.read = IF AtTail THEN live.read ELSE next,
                              !.taken = IF AtTail THEN cut ELSE None,
                              !.pieces = live.pieces \/ AtTail]
  BY <1>0 DEF LiveReads, Follows
<1>3. /\ live'.pc = (IF out.ok THEN "reading" ELSE "failed")
      /\ live'.read = (IF AtTail THEN live.read ELSE next)
      /\ live'.taken = (IF AtTail THEN cut ELSE None)
      /\ live'.todo = out.milestones /\ live'.decoder = out.decoder
      /\ live'.pieces = (live.pieces \/ AtTail) /\ live'.stopping = live.stopping
  <2>1. live \in LiveRecord
    BY <1>1 DEF Typed, ReaderTyped
  <2> QED
    BY <1>2, <2>1 DEF LiveRecord
<1>4. Heard'
  BY <1>1, <1>2, <1>3 DEF Heard
<1>5. HasRead' = HasRead /\ Decoding /\ Len(output') = Len(output)
  BY <1>2 DEF HasRead, Decoding
<1>6. ASSUME ~HasRead, Exact,
             \/ launch.harness # "generic" /\ out.ok
             \/ ~live.pieces /\ ~AtTail
      PROVE  /\ live.taken = None /\ (AtTail => cut = "bare")
             /\ next \in 1 .. Len(output) /\ Whole(next) /\ Decoded = next - 1 /\ next = live.read + 1
             /\ out.milestones \in Seq(Said) /\ Dec(next).ok = out.ok
             /\ Dec(next).decoder = out.decoder
             /\ Dec(next).milestones = Dec(next - 1).milestones \o out.milestones
             /\ Dec(next - 1).milestones \in Seq(Said)
             /\ Stands(next - 1, Len(Dec(next - 1).milestones))
  <2>1. live.taken # "half" /\ Dec(Decoded).decoder = live.decoder
    BY <1>1, <1>5, <1>6 DEF Following
  <2>2. PICK k : Stands(Decoded, k) /\ Left(Dec(Decoded).milestones, k, live.todo)
    BY <1>1, <1>5, <1>6 DEF Following
  <2>3. /\ live.taken = None /\ Piece = output[next] /\ (AtTail => cut = "bare")
        /\ next \in 1 .. Len(output) /\ Whole(next)
        /\ Decoded = next - 1 /\ next = live.read + 1
    BY <1>0, <1>1, <1>2, <1>6, <2>1, ReadsWhole
  <2>4. Dec(next - 1).ok /\ out = DecodeLine(launch.harness, Dec(next - 1).decoder, output[next])
    BY <1>0, <2>1, <2>2, <2>3 DEF Stands
  <2>5. /\ out.milestones \in Seq(Said) /\ Dec(next).ok = out.ok
        /\ Dec(next).decoder = out.decoder
        /\ Dec(next).milestones = Dec(next - 1).milestones \o out.milestones
    BY <1>1, <2>3, <2>4, DecAdds
  <2>6. Dec(next - 1).milestones \in Seq(Said)
    <3>1. next - 1 \in 0 .. Len(output)
      BY <2>3
    <3> QED
      BY <1>1, <3>1, DecIsTyped
  <2>7. k = Len(Dec(next - 1).milestones)
    <3>1. PICK ms : ms = Dec(next - 1).milestones
      OBVIOUS
    <3>2. ms \in Seq(Said) /\ Left(ms, k, <<>>)
      BY <1>2, <2>2, <2>3, <2>6, <3>1
    <3> QED
      BY <3>1, <3>2, LeftAll
  <2> QED
    BY <2>2, <2>3, <2>5, <2>6, <2>7
<1>7. ASSUME ~HasRead, out.ok, Exact'
      PROVE  Following' /\ (launch.harness # "generic" => Kept')
  <2>1. Exact /\ (\/ launch.harness # "generic" /\ out.ok
                  \/ ~live.pieces /\ ~AtTail)
    BY <1>2, <1>3, <1>7 DEF Exact
  <2>2. /\ live.taken = None /\ (AtTail => cut = "bare")
        /\ next \in 1 .. Len(output) /\ Whole(next) /\ Decoded = next - 1 /\ next = live.read + 1
        /\ out.milestones \in Seq(Said) /\ Dec(next).ok
        /\ Dec(next).decoder = out.decoder
        /\ Dec(next).milestones = Dec(next - 1).milestones \o out.milestones
        /\ Dec(next - 1).milestones \in Seq(Said)
        /\ Stands(next - 1, Len(Dec(next - 1).milestones))
    BY <1>6, <1>7, <2>1
  <2>3. Decoded' = next /\ live'.taken # "half"
    BY <1>3, <2>2, CutAssumption DEF Decoded
  <2>4. PICK s, t, k : s = Dec(next - 1).milestones /\ t = out.milestones /\ k = Len(s)
    OBVIOUS
  <2>5. Left(s \o t, k, t) /\ k \in 0 .. Len(s)
    BY <2>2, <2>4, LeftAfter
  <2>6. Rec(next)[k] = Rec(next - 1)[k] /\ k \in 0 .. Len(Dec(next).milestones)
    <3>1. next - 1 \in 0 .. Len(output) /\ next \in next - 1 .. Len(output)
      BY <2>2
    <3> QED
      BY <1>1, <2>4, <2>5, <3>1, RecAgrees
  <2>7. Stands(next, k)
    BY <2>2, <2>4, <2>6 DEF Stands
  <2>8. Stands(next, k)' /\ Dec(next)' = Dec(next)
    <3>1. next \in 0 .. Len(output)
      BY <2>2
    <3> QED
      BY <1>1, <1>2, <2>7, <3>1, StandsStays, DecStays
  <2>9. Left(Dec(next)'.milestones, k, live'.todo)
    BY <1>3, <2>2, <2>4, <2>5, <2>8
  <2>10. /\ live'.taken # "half" /\ Dec(next)'.decoder = live'.decoder
         /\ \E j : Stands(next, j)' /\ Left(Dec(next)'.milestones, j, live'.todo)
    BY <1>3, <2>2, <2>3, <2>8, <2>9
  <2>11. Following'
    BY <2>3, <2>10 DEF Following
  <2> QED
    BY <2>8, <2>11 DEF Kept
<1>8. Following'
  <2>1. CASE ~HasRead /\ out.ok /\ Exact'
    BY <1>7, <2>1
  <2>2. CASE ~(~HasRead /\ out.ok /\ Exact')
    BY <1>3, <1>5, <2>2 DEF Following, Decoding
  <2> QED
    BY <2>1, <2>2
<1>9. Kept'
  <2> SUFFICES ASSUME ~HasRead, launch.harness # "generic" PROVE \E n, k : Stands(n, k)'
    BY <1>2, <1>5 DEF Kept
  <2>1. PICK n, k : Stands(n, k)
    BY <1>1, <1>2 DEF Kept
  <2>2. Stands(n, k)'
    BY <1>1, <1>2, <2>1, StandsStays
  <2> QED
    BY <2>2
<1>10. Ended'
  <2> SUFFICES ASSUME adopter.pc = "none", ~live'.pieces, ~out.ok PROVE Refused'
    BY <1>2, <1>3 DEF Ended
  <2>1. ~HasRead /\ ~live.pieces /\ ~AtTail
    BY <1>3 DEF HasRead
  <2>2. next \in 1 .. Len(output) /\ Whole(next) /\ ~Dec(next).ok
    BY <1>6, <2>1 DEF Exact
  <2>3. Refused
    BY <2>2 DEF Refused
  <2> QED
    BY <1>1, <2>3, RefusedStays
<1> QED
  BY <1>1, <1>4, <1>8, <1>9, <1>10 DEF FollowerSound

LEMMA RecordsKeepFollower ==
  ASSUME FollowerSound, LiveRecords
  PROVE  FollowerSound'
<1>1. /\ Typed /\ Typed' /\ ExecutorSound' /\ LiveSound /\ [OutputsNext]_vars
      /\ Heard /\ Following /\ Kept /\ Ended
  BY TypedStays, ExecutorStays DEF FollowerSound, ExecutorSound, OutputsNext, LiveStep
<1>2. /\ UNCHANGED <<launch, output, cut, running, paused, adopter>>
      /\ live.pc = "reading" /\ live.todo # <<>> /\ Decoding
      /\ live \in LiveRecord /\ live.todo \in Seq(Said) /\ attempt \in AttemptRecord
      /\ HasRead' = HasRead
  BY <1>1 DEF LiveRecords, Typed, ReaderTyped, LiveRecord, Decoding, HasRead
<1>3. PICK m : m = Head(live.todo)
  OBVIOUS
<1>4. ASSUME ~HasRead, Exact
      PROVE  \E k : /\ Stands(Decoded, k) /\ live.taken # "half"
                    /\ Dec(Decoded).decoder = live.decoder /\ Whole(Decoded)
                    /\ Decoded \in 0 .. Len(output)
                    /\ k + 1 \in 1 .. Len(Dec(Decoded).milestones)
                    /\ Left(Dec(Decoded).milestones, k + 1, Tail(live.todo))
                    /\ Rec(Decoded)[k + 1] = With(attempt, m)
  <2>1. PICK k : Stands(Decoded, k) /\ Left(Dec(Decoded).milestones, k, live.todo)
    BY <1>1, <1>2, <1>4 DEF Following
  <2>2. PICK ms : ms = Dec(Decoded).milestones
    OBVIOUS
  <2>3. Decoded \in 0 .. Len(output) /\ Whole(Decoded)
    BY <2>1 DEF Stands, Whole
  <2>4. ms \in Seq(Said) /\ AreSaid(ms)
    BY <1>1, <2>2, <2>3, DecIsTyped
  <2>5. /\ k + 1 \in 1 .. Len(ms) /\ k \in 0 .. Len(ms) /\ m = ms[k + 1]
        /\ Left(ms, k + 1, Tail(live.todo))
    BY <1>2, <1>3, <2>1, <2>2, <2>4, LeftHead
  <2>6. Recording(ms)[k + 1] = With(Recording(ms)[(k + 1) - 1], ms[k + 1])
    <3>1. LaunchTyped
      BY <1>1 DEF Typed, FileTyped
    <3> QED
      BY <2>4, <2>5, <3>1, RecordingSteps
  <2>7. (k + 1) - 1 = k
    BY <2>5
  <2>8. Rec(Decoded)[k + 1] = With(attempt, m)
    BY <2>1, <2>2, <2>5, <2>6, <2>7 DEF Rec, Stands
  <2> QED
    BY <1>1, <1>2, <1>4, <2>1, <2>2, <2>3, <2>5, <2>8 DEF Following
<1>5. attempt # None
  BY <1>2, NilAssumption
<1>6. ASSUME ~Fenced(attempt), Accepts(attempt, m), attempt' = Recorded(attempt, m),
             live' = [live EXCEPT !.todo = Tail(live.todo)]
      PROVE  FollowerSound'
  <2>1. /\ live'.pc = live.pc /\ live'.read = live.read /\ live'.taken = live.taken
        /\ live'.todo = Tail(live.todo) /\ live'.stopping = live.stopping
        /\ live'.pieces = live.pieces /\ live'.decoder = live.decoder
    BY <1>2, <1>6 DEF LiveRecord
  <2>2. With(attempt, m) = attempt'
    BY <1>5, <1>6 DEF With
  <2>3. ASSUME ~HasRead, Exact
        PROVE  \E k : /\ Stands(Decoded, k)' /\ live.taken # "half"
                      /\ Dec(Decoded)' = Dec(Decoded)
                      /\ Dec(Decoded).decoder = live.decoder
                      /\ Left(Dec(Decoded).milestones, k, Tail(live.todo))
    <3>1. PICK k : /\ Stands(Decoded, k) /\ live.taken # "half"
                   /\ Dec(Decoded).decoder = live.decoder /\ Whole(Decoded)
                   /\ Decoded \in 0 .. Len(output)
                   /\ k + 1 \in 1 .. Len(Dec(Decoded).milestones)
                   /\ Left(Dec(Decoded).milestones, k + 1, Tail(live.todo))
                   /\ Rec(Decoded)[k + 1] = With(attempt, m)
      BY <1>4, <2>3
    <3>2. PICK n : n = Decoded
      OBVIOUS
    <3>3. n \in 0 .. Len(output) /\ Decoded' = n
      BY <2>1, <3>1, <3>2 DEF Decoded
    <3>4. Dec(n)' = Dec(n) /\ Rec(n)' = Rec(n) /\ (Whole(n) => Whole(n)')
      BY <1>1, <3>3, DecStays
    <3>5. PICK ms : ms = Dec(n).milestones
      OBVIOUS
    <3>6. k + 1 \in 0 .. Len(ms) /\ Dec(n).ok /\ Whole(n) /\ attempt' = Rec(n)[k + 1]
      BY <2>2, <3>1, <3>2, <3>5 DEF Stands
    <3>7. Stands(n, k + 1)'
      BY <3>4, <3>5, <3>6 DEF Stands
    <3> QED
      BY <3>1, <3>2, <3>3, <3>4, <3>7
  <2>4. Decoded' = Decoded /\ Exact' = Exact
    BY <1>2, <2>1 DEF Decoded, Exact
  <2>5. Following'
    BY <1>2, <2>1, <2>3, <2>4 DEF Following
  <2>6. Kept'
    <3>1. launch.harness # "generic" => Exact
      BY DEF Exact
    <3> QED
      BY <1>2, <2>3, <2>4, <3>1 DEF Kept
  <2>7. Heard' /\ Ended'
    BY <1>1, <1>2, <2>1 DEF Heard, Ended
  <2> QED
    BY <1>1, <2>5, <2>6, <2>7 DEF FollowerSound
<1>7. ASSUME ~(~Fenced(attempt) /\ Accepts(attempt, m)), UNCHANGED attempt,
             live' = [live EXCEPT !.pc = "failed", !.todo = <<>>]
      PROVE  FollowerSound'
  <2>1. /\ live'.pc = "failed" /\ live'.read = live.read /\ live'.taken = live.taken
        /\ live'.stopping = live.stopping /\ live'.pieces = live.pieces
    BY <1>2, <1>7 DEF LiveRecord
  <2>2. Following' /\ Heard'
    BY <1>1, <1>2, <2>1 DEF Following, Decoding, Heard
  <2>3. Kept'
    <3> SUFFICES ASSUME ~HasRead, launch.harness # "generic" PROVE \E n, k : Stands(n, k)'
      BY <1>2 DEF Kept
    <3>1. PICK n, k : Stands(n, k)
      BY <1>1, <1>2 DEF Kept
    <3>2. Stands(n, k)'
      BY <1>1, <1>7, <3>1, StandsStays
    <3> QED
      BY <3>2
  <2>4. Ended'
    <3> SUFFICES ASSUME adopter.pc = "none", ~live.pieces, ~paused PROVE Refused'
      BY <1>2, <2>1 DEF Ended
    <3>1. PICK n, k : /\ n = Decoded /\ Stands(n, k) /\ Whole(n) /\ n \in 0 .. Len(output)
                      /\ k + 1 \in 1 .. Len(Dec(n).milestones)
                      /\ Rec(n)[k + 1] = With(attempt, m)
      BY <1>4 DEF HasRead, Exact
    <3>2. "exit" \notin attempt.milestones
      <4>1. PICK ms : ms = Dec(n).milestones
        OBVIOUS
      <4>2. AreSaid(ms) /\ LaunchTyped /\ k \in 0 .. Len(ms) /\ attempt = Recording(ms)[k]
        BY <1>1, <3>1, <4>1, DecIsTyped DEF Typed, FileTyped, Stands, Rec
      <4>3. Tells(attempt, ms, k)
        BY <1>5, <4>2, RecordingTells
      <4> QED
        BY <4>2, <4>3 DEF Tells, AreSaid, Said
    <3>3. ~Accepts(attempt, m)
      BY <1>7, <3>2 DEF Fenced
    <3>4. Rec(n)[k + 1] = None
      BY <3>1, <3>3 DEF With
    <3>5. PICK ms : ms = Dec(n).milestones
      OBVIOUS
    <3>6. k + 1 \in 0 .. Len(ms)
      BY <3>1, <3>5
    <3>7. Refused
      BY <3>1, <3>4, <3>5, <3>6 DEF Refused
    <3> QED
      BY <1>1, <3>7, RefusedStays
  <2> QED
    BY <1>1, <2>2, <2>3, <2>4 DEF FollowerSound
<1> QED
  BY <1>3, <1>6, <1>7 DEF LiveRecords

-----------------------------------------------------------------------------
(* Every step leaves it so: the executor misses nothing. *)

\* A step that neither decodes nor records.
LEMMA FollowingStays ==
  ASSUME FollowerSound, [OutputsNext]_vars, UNCHANGED attempt,
         Decoding' => Decoding, HasRead => HasRead',
         Decoding' => /\ live'.read = live.read /\ live'.taken = live.taken /\ live'.todo = live.todo
                      /\ live'.decoder = live.decoder /\ live'.pieces = live.pieces,
         live'.pc = "done" \/ live.pc # "done"
  PROVE  Following' /\ Kept'
<1>1. Typed /\ Following /\ Kept /\ launch' = launch
  BY StepWrites DEF FollowerSound
<1>2. Following'
  <2> SUFFICES ASSUME ~HasRead, Decoding', Exact'
               PROVE  /\ live'.taken # "half" /\ Dec(Decoded)'.decoder = live'.decoder
                      /\ \E k : Stands(Decoded, k)' /\ Left(Dec(Decoded)'.milestones, k, live'.todo)
    BY DEF Following
  <2>1. Decoded' = Decoded /\ Exact
    BY <1>1 DEF Decoded, Exact
  <2>2. /\ live.taken # "half" /\ Dec(Decoded).decoder = live.decoder
        /\ \E k : Stands(Decoded, k) /\ Left(Dec(Decoded).milestones, k, live.todo)
    BY <1>1, <2>1 DEF Following
  <2>3. PICK n, k : n = Decoded /\ Stands(n, k) /\ Left(Dec(n).milestones, k, live.todo)
    BY <2>2
  <2>4. n \in 0 .. Len(output)
    BY <2>3 DEF Stands, Whole
  <2>5. Dec(n)' = Dec(n) /\ Stands(n, k)'
    BY <1>1, <2>3, <2>4, DecStays, StandsStays
  <2>6. Dec(Decoded)' = Dec(Decoded) /\ Stands(Decoded, k)'
    BY <2>1, <2>3, <2>5
  <2> QED
    BY <2>2, <2>3, <2>6
<1>3. Kept'
  <2> SUFFICES ASSUME ~HasRead, launch.harness # "generic", live.pc # "done"
               PROVE  \E n, k : Stands(n, k)'
    BY <1>1 DEF Kept
  <2>1. PICK n, k : Stands(n, k)
    BY <1>1 DEF Kept
  <2>2. Stands(n, k)'
    BY <1>1, <2>1, StandsStays
  <2> QED
    BY <2>2
<1> QED
  BY <1>2, <1>3

LEMMA HarnessKeepsFollower ==
  ASSUME FollowerSound, HarnessStep \/ Pause \/ UNCHANGED vars
  PROVE  FollowerSound'
<1>1. [OutputsNext]_vars /\ Typed /\ Typed' /\ ExecutorSound' /\ Heard /\ Ended /\ launch' = launch
  BY TypedStays, ExecutorStays, StepWrites DEF FollowerSound, OutputsNext
<1>2. /\ UNCHANGED <<attempt, live, adopter>> /\ running' \in {running, FALSE}
      /\ UNCHANGED paused \/ paused' = TRUE
      /\ ~running => running' = running /\ output' = output
  BY DEF HarnessStep, HarnessPrints, HarnessContinues, HarnessEnds, Pause, vars
<1>3. Following' /\ Kept'
  BY <1>1, <1>2, FollowingStays DEF Decoding, HasRead
<1>4. Heard'
  BY <1>1, <1>2 DEF Heard
<1>5. Ended'
  <2> SUFFICES ASSUME adopter.pc = "none", ~live.pieces, ~paused',
                      live.pc \in {"failed", "drained", "done"}
               PROVE  Refused' \/ (live.pc # "failed" /\ Finished')
    BY <1>2 DEF Ended
  <2>1. CASE Refused
    BY <1>1, <2>1, RefusedStays
  <2>2. CASE live.pc # "failed" /\ Finished
    <3>1. PICK n : n = live.read
      OBVIOUS
    <3>2. n \in 0 .. Len(output) /\ ~running /\ n = Len(output)
      BY <1>1, <2>2, <3>1, FileLinesStand DEF Finished
    <3>3. Dec(n)' = Dec(n) /\ Rec(n)' = Rec(n)
      BY <1>1, <3>2, DecStays
    <3>4. PICK ms, known : ms = Dec(n).milestones /\ known = Rec(n)[Len(ms)]
      OBVIOUS
    <3>5. Dec(n).ok /\ attempt = IF live.pc = "done" THEN Exited(known) ELSE known
      BY <2>2, <3>1, <3>4 DEF Finished
    <3>6. ~running' /\ live' = live /\ n = Len(output')
      BY <1>2, <3>2
    <3> QED
      BY <1>2, <2>2, <3>1, <3>3, <3>4, <3>5, <3>6 DEF Finished
  <2> QED
    BY <1>1, <1>2, <2>1, <2>2 DEF Ended
<1> QED
  BY <1>1, <1>3, <1>4, <1>5 DEF FollowerSound

LEMMA WaitsKeepFollower ==
  ASSUME FollowerSound, LiveWaits
  PROVE  FollowerSound'
<1>1. /\ [OutputsNext]_vars /\ Typed /\ Typed' /\ ExecutorSound' /\ Heard /\ Following
      /\ launch' = launch /\ live \in LiveRecord
  BY TypedStays, ExecutorStays, StepWrites
     DEF FollowerSound, OutputsNext, LiveStep, Typed, ReaderTyped
<1>2. /\ UNCHANGED <<launch, output, cut, running, attempt, paused, adopter>>
      /\ live.pc = "reading" /\ live.todo = <<>> /\ ~Available
      /\ live' = [live EXCEPT !.pc = IF live.stopping THEN "drained" ELSE "waiting"]
  BY DEF LiveWaits, Follows
<1>3. /\ live'.pc = (IF live.stopping THEN "drained" ELSE "waiting")
      /\ live'.read = live.read /\ live'.taken = live.taken /\ live'.todo = live.todo
      /\ live'.decoder = live.decoder /\ live'.pieces = live.pieces /\ live'.stopping = live.stopping
  BY <1>1, <1>2 DEF LiveRecord
<1>4. Following' /\ Kept'
  BY <1>1, <1>2, <1>3, FollowingStays DEF Decoding, HasRead
<1>5. Heard'
  BY <1>1, <1>2, <1>3 DEF Heard
<1>6. Ended'
  <2> SUFFICES ASSUME adopter.pc = "none", ~live.pieces, live.stopping PROVE Finished'
    BY <1>2, <1>3 DEF Ended
  <2>1. live.taken = None /\ ~running
    BY <1>1 DEF Heard
  <2>2. live.read \in Nat /\ Len(output) \in Nat /\ live.read <= Len(output)
        /\ cut \in {None, "half", "bare"}
    BY <1>1, FileLinesStand DEF Typed, FileTyped, ReaderTyped, LiveRecord
  <2>3. live.read = Len(output)
    BY <1>2, <2>1, <2>2, CutAssumption DEF Available, AtTail, NextLine
  <2>4. PICK n, k : n = Decoded /\ Stands(n, k) /\ Left(Dec(n).milestones, k, <<>>)
    BY <1>1, <1>2 DEF Following, HasRead, Decoding, Exact
  <2>5. n = live.read /\ n \in 0 .. Len(output)
    BY <2>1, <2>2, <2>4, CutAssumption DEF Decoded
  <2>6. PICK ms : ms = Dec(n).milestones
    OBVIOUS
  <2>7. ms \in Seq(Said) /\ Dec(n)' = Dec(n) /\ Rec(n)' = Rec(n)
    BY <1>1, <2>5, <2>6, DecIsTyped, DecStays
  <2>8. k = Len(ms)
    BY <2>4, <2>6, <2>7, LeftAll
  <2>9. Dec(n).ok /\ attempt = Rec(n)[Len(ms)]
    BY <2>4, <2>8 DEF Stands
  <2>10. live'.read = n /\ live'.pc # "done" /\ ~running' /\ Len(output') = n
    BY <1>2, <1>3, <2>1, <2>3, <2>5
  <2> QED
    BY <1>2, <2>6, <2>7, <2>9, <2>10 DEF Finished
<1> QED
  BY <1>1, <1>4, <1>5, <1>6 DEF FollowerSound

LEMMA LiveRestKeepsFollower ==
  ASSUME FollowerSound, LiveWakes \/ LiveHearsStop \/ LiveFails \/ LiveDies
  PROVE  FollowerSound'
<1>1. /\ [OutputsNext]_vars /\ Typed /\ Typed' /\ ExecutorSound' /\ Heard /\ Following /\ Ended
      /\ launch' = launch /\ live \in LiveRecord
  BY TypedStays, ExecutorStays, StepWrites
     DEF FollowerSound, OutputsNext, LiveStep, Typed, ReaderTyped
<1>2. UNCHANGED <<launch, output, cut, attempt, paused, adopter>> /\ HasRead' = HasRead
  BY DEF LiveWakes, LiveHearsStop, LiveFails, LiveDies, HasRead
<1>3. CASE LiveWakes \/ LiveHearsStop
  <2>1. /\ live.pc = "waiting" /\ running' = running
        /\ \/ live' = [live EXCEPT !.pc = "reading"]
           \/ live' = [live EXCEPT !.pc = "reading", !.stopping = TRUE] /\ ~running
    BY <1>3 DEF LiveWakes, LiveHearsStop
  <2>2. /\ live'.pc = "reading"
        /\ live'.read = live.read /\ live'.taken = live.taken /\ live'.todo = live.todo
        /\ live'.decoder = live.decoder /\ live'.pieces = live.pieces
        /\ live'.stopping = live.stopping \/ ~running
    BY <1>1, <2>1 DEF LiveRecord
  <2>3. Following' /\ Kept'
    BY <1>1, <1>2, <2>1, <2>2, FollowingStays DEF Decoding
  <2>4. Heard' /\ Ended'
    BY <1>1, <2>1, <2>2 DEF Heard, Ended
  <2> QED
    BY <1>1, <2>3, <2>4 DEF FollowerSound
<1>4. CASE LiveFails
  <2>1. live.pc = "failed" /\ running' = FALSE /\ live' = [live EXCEPT !.pc = "drained"]
    BY <1>4 DEF LiveFails
  <2>2. /\ live'.pc = "drained" /\ live'.taken = live.taken
        /\ live'.pieces = live.pieces /\ live'.stopping = live.stopping
    BY <1>1, <2>1 DEF LiveRecord
  <2>3. Following' /\ Kept'
    BY <1>1, <1>2, <2>1, <2>2, FollowingStays DEF Decoding
  <2>4. Heard'
    BY <1>1, <2>1, <2>2 DEF Heard
  <2>5. Ended'
    BY <1>1, <1>2, <2>1, <2>2, RefusedStays DEF Ended
  <2> QED
    BY <1>1, <2>3, <2>4, <2>5 DEF FollowerSound
<1>5. CASE LiveDies
  <2>1. live.pc # "done" /\ live' = NewLive("dead", launch.mode)
    BY <1>5 DEF LiveDies
  <2>2. live'.pc = "dead" /\ live'.taken = None /\ live'.stopping = FALSE
    BY <2>1 DEF NewLive
  <2>3. Following' /\ Kept'
    BY <1>1, <1>2, <2>1, <2>2, FollowingStays DEF Decoding
  <2>4. Heard' /\ Ended'
    BY <2>2 DEF Heard, Ended
  <2> QED
    BY <1>1, <2>3, <2>4 DEF FollowerSound
<1> QED
  BY <1>3, <1>4, <1>5

LEMMA ExitsKeepFollower ==
  ASSUME FollowerSound, LiveExits
  PROVE  FollowerSound'
<1>1. /\ [OutputsNext]_vars /\ Typed /\ Typed' /\ ExecutorSound' /\ Heard /\ Ended
      /\ launch' = launch /\ live \in LiveRecord
  BY TypedStays, ExecutorStays, StepWrites
     DEF FollowerSound, OutputsNext, LiveStep, Typed, ReaderTyped
<1>2. /\ UNCHANGED <<launch, output, cut, running, paused, adopter>> /\ live.pc = "drained"
      /\ attempt' = Exited(attempt) /\ live' = [live EXCEPT !.pc = "done"]
  BY DEF LiveExits, RecordExit, Exited
<1>3. /\ live'.pc = "done" /\ live'.read = live.read /\ live'.taken = live.taken
      /\ live'.pieces = live.pieces /\ live'.stopping = live.stopping
  BY <1>1, <1>2 DEF LiveRecord
<1>4. Following' /\ Kept' /\ Heard'
  BY <1>1, <1>2, <1>3 DEF Following, Decoding, Kept, Heard
<1>5. Ended'
  <2> SUFFICES ASSUME adopter.pc = "none", ~live.pieces, ~paused PROVE Refused' \/ Finished'
    BY <1>2, <1>3 DEF Ended
  <2>1. CASE Refused
    BY <1>1, <2>1, RefusedStays
  <2>2. CASE Finished
    <3>1. PICK n : n = live.read
      OBVIOUS
    <3>2. n \in 0 .. Len(output) /\ ~running /\ n = Len(output)
      BY <1>1, <2>2, <3>1, FileLinesStand DEF Finished
    <3>3. Dec(n)' = Dec(n) /\ Rec(n)' = Rec(n)
      BY <1>1, <3>2, DecStays
    <3>4. PICK ms, known : ms = Dec(n).milestones /\ known = Rec(n)[Len(ms)]
      OBVIOUS
    <3>5. Dec(n).ok /\ attempt = known
      BY <1>2, <2>2, <3>1, <3>4 DEF Finished
    <3>6. ~running' /\ live'.read = n /\ n = Len(output') /\ attempt' = Exited(known)
      BY <1>2, <1>3, <3>1, <3>2, <3>5
    <3> QED
      BY <1>3, <3>3, <3>4, <3>5, <3>6 DEF Finished
  <2> QED
    BY <1>1, <1>2, <2>1, <2>2 DEF Ended
<1> QED
  BY <1>1, <1>4, <1>5 DEF FollowerSound

LEMMA AdopterKeepsFollower ==
  ASSUME FollowerSound, AdopterStep
  PROVE  FollowerSound'
<1>1. /\ [OutputsNext]_vars /\ Typed /\ Typed' /\ ExecutorSound' /\ Heard
      /\ launch' = launch /\ adopter \in AdopterRecord
  BY TypedStays, ExecutorStays, StepWrites DEF FollowerSound, OutputsNext, Typed
<1>2. UNCHANGED <<live, running>>
  BY DEF AdopterStep, Adopt, AdopterReads, AdopterLooks, AdopterRecords, AdopterNext, AdopterExits
<1>3. /\ adopter'.pc # "none"
      /\ HasRead' \/ (attempt' = attempt /\ ~HasRead)
  BY <1>1 DEF AdopterStep, Adopt, AdopterReads, AdopterLooks, AdopterRecords, AdopterNext,
     AdopterExits, AdopterRecord, HasRead
<1>4. Following' /\ Kept'
  <2>1. CASE HasRead'
    BY <2>1 DEF Following, Kept
  <2>2. CASE attempt' = attempt /\ ~HasRead
    BY <1>1, <1>2, <2>2, FollowingStays DEF Decoding
  <2> QED
    BY <1>3, <2>1, <2>2
<1>5. Heard' /\ Ended'
  BY <1>1, <1>2, <1>3 DEF Heard, Ended
<1> QED
  BY <1>1, <1>4, <1>5 DEF FollowerSound

LEMMA FollowerStays ==
  ASSUME FollowerSound, [OutputsNext]_vars
  PROVE  FollowerSound'
BY HarnessKeepsFollower, ReadsKeepFollower, RecordsKeepFollower, WaitsKeepFollower,
   LiveRestKeepsFollower, ExitsKeepFollower, AdopterKeepsFollower DEF OutputsNext, LiveStep

LEMMA FollowerMissesNothing == FollowerSound => ExecutorMissesNothing
<1> SUFFICES ASSUME FollowerSound, live.pc = "done", adopter.pc = "none", ~live.pieces, ~paused,
                    Told # None
             PROVE  attempt = [Told EXCEPT !.milestones = @ \cup {"exit"}]
  BY DEF ExecutorMissesNothing
<1>1. Typed /\ Finished
  BY RefusedTellsNothing DEF FollowerSound, Ended
<1>2. PICK n, ms : n = live.read /\ ms = Dec(n).milestones
  OBVIOUS
<1>3. n = Len(output) /\ attempt = Exited(Rec(n)[Len(ms)])
  BY <1>1, <1>2 DEF Finished
<1>4. cut = None
  BY <1>1, <1>2, <1>3 DEF Typed, ReaderTyped
<1>5. FileLines = output
  BY <1>4, CutAssumption DEF FileLines
<1>6. All = Dec(n)
  BY <1>3, <1>5 DEF All, DecodeAll, Dec
<1>7. Told = Rec(n)[Len(ms)]
  BY <1>1, <1>2, <1>6, ToldIs DEF Rec
<1> QED
  BY <1>3, <1>7 DEF Exited

(* An executor that ends an Attempt alone, has read only whole lines, in a Workflow that
   was not paused, and could decode and record each of them, has recorded what the whole
   file tells, up to the last line before the process ended, for any lines and any number
   of them.  Where one of these fails it may lose output, and where it read an unfinished
   line in pieces the code does (executor.go, RunActivity and decodeFile). *)
THEOREM ExecutorMissesNoLine == OutputsSpec => []ExecutorMissesNothing
BY FollowerInit, FollowerStays, FollowerMissesNothing, PTL DEF OutputsSpec

-----------------------------------------------------------------------------
(* Plain text, whose pieces are read as lines: what is recorded all the same. *)

\* A line with text; one that is a Result; and one that is output, as far as it came.
Spoken(i) == output[i] # BlankText
Concludes(i) == Whole(i) /\ Content(output[i]) \in Status /\ launch.mode # "session"
Progresses(i) == Spoken(i) /\ ~Concludes(i)

Progressed(n, seen) == \A i \in 1 .. n - 1 : Progresses(i) => "meaningful_progress" \in seen

\* status is that of a whole line, and the output before it was recorded.
Concluded(status, seen) ==
  \E n \in 1 .. Len(output) :
    Concludes(n) /\ Content(output[n]) = status /\ Progressed(n, seen)

\* What an executor records of plain text, however it came in pieces.
PlainAttempt ==
  LET seen == attempt.milestones IN
  /\ attempt.native = None
  /\ seen \subseteq {"process_spawned", "turn_started", "meaningful_progress", "result"}
  /\ attempt.result # None <=> "result" \in seen
  /\ "result" \in seen => "turn_started" \in seen
  /\ "turn_started" \in seen => \E i \in 1 .. Len(output) : Spoken(i)
  /\ "result" \in seen => Concluded(attempt.result, seen)

Taken == IF live.taken = None THEN live.read ELSE live.read + 1

\* What it has decoded and not recorded yet: a turn, and then one thing said.
PlainTodo(todo) ==
  /\ todo # <<>> => \E i \in 1 .. Len(output) : Spoken(i)
  /\ \A i \in 1 .. Len(todo) :
       \/ i < Len(todo) /\ todo[i].kind = "turn_started"
       \/ /\ i = Len(todo) /\ todo[i].kind \in {"meaningful_progress", "result"}
          /\ todo[i].kind = "result" => Concluded(todo[i].value, attempt.milestones)

SaysProgress(todo) == \E i \in 1 .. Len(todo) : todo[i].kind = "meaningful_progress"

PlainReader ==
  /\ live.decoder.sessionMode = (launch.mode = "session")
  /\ PlainTodo(live.todo)
  /\ \A i \in 1 .. Taken :
       Progresses(i) => "meaningful_progress" \in attempt.milestones \/ SaysProgress(live.todo)

Plain ==
  ~HasRead /\ live.pc # "done" /\ launch.harness = "generic"
    => PlainAttempt /\ (Decoding => PlainReader)

PlainSound == FollowerSound /\ Plain

-----------------------------------------------------------------------------

\* What is said of a line of text.
SaidOf(line, sessionMode) ==
  IF Content(line) \in Status /\ ~sessionMode
  THEN WorkerResult(Content(line)) ELSE Milestone("meaningful_progress")

Says(line) == line # Newline /\ line # BlankText

LEMMA PlainLine ==
  ASSUME NEW d \in DecoderRecord, NEW line, NEW out, out = GenericLine(d, line)
  PROVE  /\ out.decoder.sessionMode = d.sessionMode /\ out.ok
         /\ ~Says(line) => out.milestones = <<>> /\ out.decoder = d
         /\ Says(line) =>
              /\ out.decoder.turn
              /\ out.milestones \in Seq(Said) /\ Len(out.milestones) \in {1, 2}
              /\ Len(out.milestones) = 2 => out.milestones[1] = Milestone("turn_started")
              /\ out.milestones[Len(out.milestones)] = SaidOf(line, d.sessionMode)
              /\ ~d.turn => out.milestones[1] = Milestone("turn_started")
<1>1. CASE ~Says(line)
  <2>1. out = Silent(d)
    BY <1>1 DEF GenericLine, Says
  <2>2. out.decoder = d /\ out.milestones = <<>> /\ out.ok
    BY <2>1 DEF Silent, Emits
  <2> QED
    BY <1>1, <2>2
<1>2. CASE Says(line)
  <2>1. PICK said : said = SaidOf(line, d.sessionMode)
    OBVIOUS
  <2>2. out = Emits(StartsTurn(d).decoder, Append(StartsTurn(d).milestones, said))
    BY <1>2, <2>1 DEF GenericLine, SaidOf, Says
  <2>3. said \in Said
    BY <2>1, MilestonesAreSaid DEF SaidOf
  <2>4. PICK start, s : start = StartsTurn(d).decoder /\ s = StartsTurn(d).milestones
    OBVIOUS
  <2>5. /\ s \in Seq(Said) /\ Len(s) = IF d.turn THEN 0 ELSE 1
        /\ ~d.turn => s[1] = Milestone("turn_started")
    <3>1. CASE d.turn
      BY <2>4, <3>1 DEF StartsTurn, Silent, Emits
    <3>2. CASE ~d.turn
      <4>1. s = <<Milestone("turn_started")>> /\ Milestone("turn_started") \in Said
        BY <2>4, <3>2, MilestonesAreSaid DEF StartsTurn, Emits
      <4> QED
        BY <3>2, <4>1
    <3> QED
      BY <3>1, <3>2
  <2>6. start.turn /\ start.sessionMode = d.sessionMode
    <3>1. CASE d.turn
      BY <2>4, <3>1 DEF StartsTurn, Silent, Emits
    <3>2. CASE ~d.turn
      BY <2>4, <3>2 DEF StartsTurn, Emits, DecoderRecord
    <3> QED
      BY <3>1, <3>2
  <2>7. out.decoder = start /\ out.ok /\ out.milestones = Append(s, said)
    BY <2>2, <2>4 DEF Emits
  <2>8. PICK ms : ms = Append(s, said)
    OBVIOUS
  <2>9. /\ ms \in Seq(Said) /\ Len(ms) = Len(s) + 1 /\ ms[Len(s) + 1] = said
        /\ ~d.turn => ms[1] = s[1]
    BY <2>3, <2>5, <2>8
  <2> QED
    BY <1>2, <2>1, <2>5, <2>6, <2>7, <2>8, <2>9
<1> QED
  BY <1>1, <1>2

\* What the file says of a line stays, and a line comes to its end.
LEMMA LinesStay ==
  ASSUME Typed, [OutputsNext]_vars, NEW i \in 1 .. Len(output)
  PROVE  /\ i \in 1 .. Len(output') /\ Spoken(i)' = Spoken(i)
         /\ Content(output[i])' = Content(output[i])
         /\ Concludes(i) => Concludes(i)'
         /\ Progresses(i)' => Progresses(i)
<1>1. /\ launch' = launch /\ Len(output) \in Nat /\ Len(output') \in Nat
      /\ Len(output') >= Len(output) /\ output'[i] = output[i]
  BY StepWrites
<1>2. i \in 0 .. Len(output) /\ i \in 1 .. Len(output')
  BY <1>1
<1>3. Whole(i) => Whole(i)'
  BY <1>2, DecStays
<1>4. Concludes(i) => Concludes(i)'
  BY <1>1, <1>3 DEF Concludes
<1>5. Spoken(i)' = Spoken(i)
  BY <1>1 DEF Spoken
<1> QED
  BY <1>1, <1>2, <1>4, <1>5 DEF Progresses

LEMMA ConcludedStays ==
  ASSUME Typed, [OutputsNext]_vars, NEW status, NEW seen, NEW more, Concluded(status, seen),
         seen \subseteq more
  PROVE  Concluded(status, more)'
<1>1. PICK n \in 1 .. Len(output) :
        Concludes(n) /\ Content(output[n]) = status /\ Progressed(n, seen)
  BY DEF Concluded
<1>2. n \in 1 .. Len(output') /\ Concludes(n)' /\ Content(output[n])' = status
  BY <1>1, LinesStay
<1>3. Progressed(n, more)'
  <2> SUFFICES ASSUME NEW i \in 1 .. n - 1, Progresses(i)' PROVE "meaningful_progress" \in more
    BY DEF Progressed
  <2>1. i \in 1 .. Len(output)
    BY FileLinesStand
  <2>2. Progresses(i)
    BY <2>1, LinesStay
  <2> QED
    BY <1>1, <2>2 DEF Progressed
<1> QED
  BY <1>2, <1>3 DEF Concluded

LEMMA PlainInit == OutputsInit => PlainSound
<1> SUFFICES ASSUME OutputsInit PROVE PlainSound
  OBVIOUS
<1>1. FollowerSound
  BY FollowerInit
<1>2. live = NewLive("reading", launch.mode) /\ attempt = Spawned
  BY DEF OutputsInit
<1>3. live.read = 0 /\ live.taken = None /\ live.todo = <<>>
      /\ live.decoder = FreshDecoder(launch.mode = "session")
  BY <1>2 DEF NewLive
<1>4. PlainAttempt \/ launch.harness # "generic"
  BY <1>2 DEF OutputsInit, Spawned, PlainAttempt
<1>5. PlainReader
  BY <1>3 DEF PlainReader, PlainTodo, Taken, FreshDecoder
<1> QED
  BY <1>1, <1>4, <1>5 DEF PlainSound, Plain

\* A step that records nothing.
LEMMA PlainAttemptStays ==
  ASSUME Typed, [OutputsNext]_vars, attempt' = attempt, PlainAttempt
  PROVE  PlainAttempt'
<1>1. "turn_started" \in attempt.milestones => \E i \in 1 .. Len(output') : Spoken(i)'
  <2> SUFFICES ASSUME "turn_started" \in attempt.milestones
               PROVE  \E i \in 1 .. Len(output') : Spoken(i)'
    OBVIOUS
  <2>1. PICK i \in 1 .. Len(output) : Spoken(i)
    BY DEF PlainAttempt
  <2> QED
    BY <2>1, LinesStay
<1>2. "result" \in attempt.milestones => Concluded(attempt.result, attempt.milestones)'
  <2>1. PICK status, seen : status = attempt.result /\ seen = attempt.milestones
    OBVIOUS
  <2>2. Concluded(status, seen) => Concluded(status, seen)'
    BY ConcludedStays
  <2>3. "result" \in attempt.milestones => Concluded(status, seen)
    BY <2>1 DEF PlainAttempt
  <2>4. attempt'.result = status /\ attempt'.milestones = seen
    BY <2>1
  <2> QED
    BY <2>2, <2>3, <2>4
<1> QED
  BY <1>1, <1>2 DEF PlainAttempt

LEMMA PlainTodoStays ==
  ASSUME Typed, [OutputsNext]_vars, attempt.milestones \subseteq attempt'.milestones,
         NEW todo, PlainTodo(todo)
  PROVE  PlainTodo(todo)'
<1>1. todo # <<>> => \E i \in 1 .. Len(output') : Spoken(i)'
  <2> SUFFICES ASSUME todo # <<>> PROVE \E i \in 1 .. Len(output') : Spoken(i)'
    OBVIOUS
  <2>1. PICK i \in 1 .. Len(output) : Spoken(i)
    BY DEF PlainTodo
  <2> QED
    BY <2>1, LinesStay
<1>2. ASSUME NEW i \in 1 .. Len(todo), todo[i].kind = "result", i = Len(todo)
      PROVE  Concluded(todo[i].value, attempt.milestones)'
  <2>1. PICK status, seen, more :
          status = todo[i].value /\ seen = attempt.milestones /\ more = attempt'.milestones
    OBVIOUS
  <2>2. Concluded(status, seen) => Concluded(status, more)'
    BY <2>1, ConcludedStays
  <2> QED
    BY <1>2, <2>1, <2>2 DEF PlainTodo
<1> QED
  BY <1>1, <1>2 DEF PlainTodo

-----------------------------------------------------------------------------
(* The executor reads plain text. *)

\* A step of others, or one that neither decodes nor records.
LEMMA PlainStays ==
  ASSUME PlainSound, [OutputsNext]_vars, UNCHANGED attempt,
         Decoding' => Decoding, HasRead => HasRead',
         Decoding' => /\ live'.read = live.read /\ live'.taken = live.taken
                      /\ live'.todo = live.todo /\ live'.decoder = live.decoder,
         live'.pc = "done" \/ live.pc # "done"
  PROVE  Plain'
<1> SUFFICES ASSUME ~HasRead, live.pc # "done", launch.harness = "generic"
             PROVE  PlainAttempt' /\ (Decoding' => PlainReader')
  <2>1. launch' = launch /\ Typed
    BY StepWrites DEF PlainSound, FollowerSound
  <2> QED
    BY <2>1 DEF Plain
<1>1. Typed /\ launch' = launch /\ PlainAttempt /\ (Decoding => PlainReader)
  BY StepWrites DEF PlainSound, FollowerSound, Plain
<1>2. PlainAttempt'
  BY <1>1, PlainAttemptStays
<1>3. ASSUME Decoding'
      PROVE  PlainReader'
  <2>1. /\ PlainReader /\ Taken' = Taken /\ live'.todo = live.todo
        /\ live'.decoder.sessionMode = live.decoder.sessionMode
    BY <1>1, <1>3 DEF Taken
  <2>2. PlainTodo(live.todo)'
    <3>1. PICK todo : todo = live.todo
      OBVIOUS
    <3>2. PlainTodo(todo)'
      BY <1>1, <2>1, <3>1, PlainTodoStays DEF PlainReader
    <3> QED
      BY <2>1, <3>1, <3>2
  <2>3. ASSUME NEW i \in 1 .. Taken, Progresses(i)'
        PROVE  "meaningful_progress" \in attempt.milestones \/ SaysProgress(live.todo)
    <3>1. i \in 1 .. Len(output)
      BY <1>1, CutAssumption DEF Typed, ReaderTyped, LiveRecord, FileTyped, Taken
    <3>2. Progresses(i)
      BY <1>1, <2>3, <3>1, LinesStay
    <3> QED
      BY <2>1, <3>2 DEF PlainReader
  <2>4. SaysProgress(live.todo)' = SaysProgress(live.todo)
    BY <2>1 DEF SaysProgress
  <2> QED
    BY <1>1, <2>1, <2>2, <2>3, <2>4 DEF PlainReader
<1> QED
  BY <1>2, <1>3

\* What is taken of plain text: a line, or a piece of one that says progress if it says
\* anything.
LEMMA PlainPiece ==
  ASSUME Typed, Available, NEW n, n = NextLine, launch.harness = "generic"
  PROVE  /\ n \in 1 .. Len(output) /\ n = live.read + 1
         /\ \/ ~Says(Piece) /\ (live.taken # None \/ ~Spoken(n))
            \/ Says(Piece) /\ Spoken(n) /\ Piece = Fragment
            \/ Says(Piece) /\ Spoken(n) /\ Piece = output[n] /\ Whole(n) /\ live.taken = None
<1>1. /\ FileTyped /\ ReaderTyped /\ live.taken \in {None, "half", "bare"}
      /\ cut \in {None, "half", "bare"} /\ live.read \in Nat
  BY DEF Typed, ReaderTyped, LiveRecord, FileTyped
<1>2. n \in 1 .. Len(output) /\ n = live.read + 1 /\ output[n] # Newline
  BY <1>1, OutputLines DEF Available, NextLine
<1>3. Says(Fragment) /\ ~Says(Newline) /\ (Says(output[n]) <=> Spoken(n))
  <2>1. Fragment # Newline /\ Fragment # BlankText
    BY DEF Fragment, Newline, BlankText
  <2> QED
    BY <1>2, <2>1 DEF Says, Spoken
<1>4. /\ Spoken(n) => Part(output[n]) = Fragment
      /\ ~Spoken(n) => Part(output[n]) = Newline
  BY DEF Spoken, Part
<1>5. CASE live.taken = None
  <2>1. Piece = IF AtTail /\ cut = "half" THEN Part(output[n]) ELSE output[n]
    BY <1>5, CutAssumption DEF Piece
  <2>2. ~(AtTail /\ cut = "half") => Whole(n)
    BY <1>1, <1>2, CutAssumption DEF Whole, AtTail
  <2>3. Piece = Part(output[n]) \/ (Piece = output[n] /\ Whole(n))
    BY <2>1, <2>2
  <2>4. CASE Piece = Part(output[n])
    <3>1. Spoken(n) => Piece = Fragment /\ Says(Piece)
      BY <1>3, <1>4, <2>4
    <3>2. ~Spoken(n) => ~Says(Piece)
      BY <1>3, <1>4, <2>4
    <3> QED
      BY <1>2, <3>1, <3>2
  <2>5. CASE Piece = output[n] /\ Whole(n)
    BY <1>2, <1>3, <1>5, <2>5
  <2> QED
    BY <2>3, <2>4, <2>5
<1>6. CASE live.taken = "half"
  <2>1. Piece = Part(output[n])
    BY <1>6, CutAssumption DEF Piece
  <2> QED
    BY <1>2, <1>3, <1>4, <2>1
<1>7. CASE live.taken = "bare"
  <2>1. Piece = Newline /\ live.taken # None
    BY <1>7, CutAssumption DEF Piece
  <2> QED
    BY <1>2, <1>3, <2>1
<1> QED
  BY <1>1, <1>5, <1>6, <1>7

LEMMA ReadsKeepPlain ==
  ASSUME PlainSound, LiveReads
  PROVE  Plain'
<1>0. PICK out, n, d, piece : /\ out = DecodeLine(launch.harness, live.decoder, Piece)
                              /\ n = NextLine /\ d = live.decoder /\ piece = Piece
  OBVIOUS
<1>1. Typed /\ [OutputsNext]_vars /\ launch' = launch
  BY StepWrites DEF PlainSound, FollowerSound, OutputsNext, LiveStep
<1>2. /\ UNCHANGED <<launch, output, cut, running, attempt, paused, adopter>>
      /\ live.pc = "reading" /\ live.todo = <<>> /\ Available
      /\ live' = [live EXCEPT !.pc = IF out.ok THEN "reading" ELSE "failed",
                              !.decoder = out.decoder, !.todo = out.milestones,
                              !.read = IF AtTail THEN live.read ELSE n,
                              !.taken = IF AtTail THEN cut ELSE None,
                              !.pieces = live.pieces \/ AtTail]
  BY <1>0 DEF LiveReads, Follows
<1>3. /\ live'.read = (IF AtTail THEN live.read ELSE n)
      /\ live'.taken = (IF AtTail THEN cut ELSE None)
      /\ live'.todo = out.milestones /\ live'.decoder = out.decoder
  <2>1. live \in LiveRecord
    BY <1>1 DEF Typed, ReaderTyped
  <2> QED
    BY <1>2, <2>1 DEF LiveRecord
<1> SUFFICES ASSUME ~HasRead, launch.harness = "generic"
             PROVE  PlainAttempt' /\ PlainReader'
  <2>1. HasRead' = HasRead
    BY <1>2 DEF HasRead
  <2> QED
    BY <1>1, <2>1 DEF Plain
<1>4. PlainAttempt /\ PlainReader /\ PlainAttempt'
  <2>1. PlainAttempt /\ PlainReader
    BY <1>2 DEF PlainSound, Plain, Decoding
  <2> QED
    BY <1>1, <1>2, <2>1, PlainAttemptStays
<1>5. d \in DecoderRecord /\ out = GenericLine(d, piece)
  BY <1>0, <1>1 DEF Typed, ReaderTyped, LiveRecord, DecodeLine
<1>6. /\ n \in 1 .. Len(output) /\ n = live.read + 1
      /\ \/ ~Says(piece) /\ (live.taken # None \/ ~Spoken(n))
         \/ Says(piece) /\ Spoken(n) /\ piece = Fragment
         \/ Says(piece) /\ Spoken(n) /\ piece = output[n] /\ Whole(n) /\ live.taken = None
  BY <1>0, <1>1, <1>2, PlainPiece
<1>7. Taken' = n /\ Taken = IF live.taken = None THEN n - 1 ELSE n
  <2>1. live.read \in Nat /\ (AtTail => cut # None)
    BY <1>1 DEF Typed, ReaderTyped, LiveRecord, AtTail
  <2> QED
    BY <1>3, <1>6, <2>1 DEF Taken
<1>8. ASSUME NEW i \in 1 .. Taken, Progresses(i)
      PROVE  "meaningful_progress" \in attempt.milestones
  <2>1. ~SaysProgress(live.todo)
    <3>1. Len(<<>>) = 0
      OBVIOUS
    <3> QED
      BY <1>2, <3>1 DEF SaysProgress
  <2> QED
    BY <1>4, <1>8, <2>1 DEF PlainReader
<1>9. CASE ~Says(piece)
  <2>1. out.milestones = <<>> /\ out.decoder = d
    BY <1>5, <1>9, PlainLine
  <2>2. PlainTodo(live.todo)'
    <3>1. live'.todo = <<>> /\ Len(<<>>) = 0
      BY <1>3, <2>1
    <3> QED
      BY <3>1 DEF PlainTodo
  <2>3. ASSUME NEW i \in 1 .. n, Progresses(i)'
        PROVE  "meaningful_progress" \in attempt.milestones
    <3>1. i \in 1 .. Len(output) /\ n \in Nat /\ i \in Nat
      BY <1>6
    <3>2. Progresses(i)
      BY <1>1, <2>3, <3>1, LinesStay
    <3>3. live.taken # None \/ ~Spoken(n)
      BY <1>6, <1>9
    <3>4. i \in 1 .. Taken
      BY <1>6, <1>7, <3>1, <3>2, <3>3 DEF Progresses
    <3> QED
      BY <1>8, <3>2, <3>4
  <2> QED
    BY <1>0, <1>2, <1>3, <1>4, <1>7, <2>1, <2>2, <2>3 DEF PlainReader
<1>10. CASE Says(piece)
  <2>1. PICK ms, said : ms = out.milestones /\ said = SaidOf(piece, d.sessionMode)
    OBVIOUS
  <2>2. /\ out.decoder.sessionMode = d.sessionMode
        /\ ms \in Seq(Said) /\ Len(ms) \in {1, 2} /\ ms[Len(ms)] = said
        /\ Len(ms) = 2 => ms[1] = Milestone("turn_started")
    BY <1>5, <1>10, <2>1, PlainLine
  <2>3. Spoken(n) /\ (piece = Fragment \/ (piece = output[n] /\ Whole(n) /\ live.taken = None))
    BY <1>6, <1>10
  <2>4. d.sessionMode = (launch.mode = "session")
    BY <1>0, <1>4 DEF PlainReader
  <2>5. said.kind \in {"meaningful_progress", "result"}
    BY <2>1 DEF SaidOf, WorkerResult, Milestone
  <2>6. ASSUME said.kind = "result"
        PROVE  Concludes(n) /\ Content(output[n]) = said.value /\ live.taken = None
    <3>1. said = WorkerResult(Content(piece)) /\ Content(piece) \in Status /\ ~d.sessionMode
      BY <2>1, <2>6 DEF SaidOf, WorkerResult, Milestone
    <3>2. piece # Fragment
      BY <3>1, NoneAssumption DEF Content, Fragment
    <3> QED
      BY <2>3, <2>4, <3>1, <3>2 DEF Concludes, WorkerResult
  <2>7. ASSUME said.kind = "result"
        PROVE  Concluded(said.value, attempt.milestones)
    <3>1. ASSUME NEW i \in 1 .. n - 1, Progresses(i)
          PROVE  "meaningful_progress" \in attempt.milestones
      BY <1>7, <1>8, <2>6, <2>7, <3>1
    <3> QED
      BY <1>6, <2>6, <2>7, <3>1 DEF Concluded, Progressed
  <2>8. PlainTodo(ms)
    <3>1. ASSUME NEW i \in 1 .. Len(ms)
          PROVE  \/ i < Len(ms) /\ ms[i].kind = "turn_started"
                 \/ /\ i = Len(ms) /\ ms[i].kind \in {"meaningful_progress", "result"}
                    /\ ms[i].kind = "result" => Concluded(ms[i].value, attempt.milestones)
      <4>1. CASE i = Len(ms)
        BY <2>2, <2>5, <2>7, <4>1
      <4>2. CASE i # Len(ms)
        BY <2>2, <4>2 DEF Milestone
      <4> QED
        BY <4>1, <4>2
    <3> QED
      BY <1>6, <2>3, <3>1 DEF PlainTodo
  <2>9. PlainTodo(live.todo)'
    <3>1. PlainTodo(ms)'
      BY <1>1, <1>2, <2>8, PlainTodoStays
    <3> QED
      BY <1>3, <2>1, <3>1
  <2>10. ASSUME NEW i \in 1 .. n, Progresses(i)'
         PROVE  "meaningful_progress" \in attempt.milestones \/ SaysProgress(live.todo)'
    <3>1. i \in 1 .. Len(output) /\ n \in Nat /\ i \in Nat
      BY <1>6
    <3>2. Progresses(i)
      BY <1>1, <2>10, <3>1, LinesStay
    <3>3. CASE i # n \/ live.taken # None
      BY <1>6, <1>7, <1>8, <3>1, <3>2, <3>3
    <3>4. CASE i = n /\ live.taken = None
      <4>1. said.kind # "result"
        BY <2>6, <3>2, <3>4 DEF Progresses
      <4>2. ms[Len(ms)].kind = "meaningful_progress" /\ Len(ms) \in 1 .. Len(ms)
        <5>1. ms[Len(ms)].kind = "meaningful_progress"
          BY <2>2, <2>5, <4>1
        <5>2. Len(ms) \in {1, 2}
          BY <2>2
        <5> QED
          BY <5>1, <5>2
      <4> QED
        BY <1>3, <2>1, <4>2 DEF SaysProgress
    <3> QED
      BY <3>3, <3>4
  <2>11. live'.decoder.sessionMode = (launch.mode = "session")
    BY <1>3, <2>2, <2>4
  <2> QED
    BY <1>2, <1>4, <1>7, <2>9, <2>10, <2>11 DEF PlainReader
<1> QED
  BY <1>4, <1>9, <1>10

-----------------------------------------------------------------------------
(* The executor records plain text; the other steps. *)

\* What was left, but for the first of it.
LEMMA PlainTail ==
  ASSUME NEW todo \in Seq(Said), todo # <<>>, PlainTodo(todo), NEW m, m = Head(todo)
  PROVE  /\ PlainTodo(Tail(todo)) /\ \E i \in 1 .. Len(output) : Spoken(i)
         /\ m.kind \in {"turn_started", "meaningful_progress", "result"}
         /\ m.kind = "result" => Concluded(m.value, attempt.milestones)
         /\ SaysProgress(todo) => m.kind = "meaningful_progress" \/ SaysProgress(Tail(todo))
<1>1. /\ Tail(todo) \in Seq(Said) /\ Len(Tail(todo)) = Len(todo) - 1 /\ Len(todo) \in Nat \ {0}
      /\ \A i \in 1 .. Len(Tail(todo)) : Tail(todo)[i] = todo[i + 1]
      /\ m = todo[1]
  OBVIOUS
<1>2. PICK rest : rest = Tail(todo)
  OBVIOUS
<1>3. PICK N, M : N = Len(todo) /\ M = Len(rest)
  OBVIOUS
<1>4. /\ N \in Nat \ {0} /\ M = N - 1 /\ \A i \in 1 .. M : rest[i] = todo[i + 1]
      /\ m = todo[1]
  BY <1>1, <1>2, <1>3
<1>5. \A i \in 1 .. N :
       \/ i < N /\ todo[i].kind = "turn_started"
       \/ /\ i = N /\ todo[i].kind \in {"meaningful_progress", "result"}
          /\ todo[i].kind = "result" => Concluded(todo[i].value, attempt.milestones)
  BY <1>3 DEF PlainTodo
<1>6. \E i \in 1 .. Len(output) : Spoken(i)
  BY DEF PlainTodo
<1>7. ASSUME NEW i \in 1 .. M
      PROVE  \/ i < M /\ rest[i].kind = "turn_started"
             \/ /\ i = M /\ rest[i].kind \in {"meaningful_progress", "result"}
                /\ rest[i].kind = "result" => Concluded(rest[i].value, attempt.milestones)
  <2>1. i + 1 \in 1 .. N /\ rest[i] = todo[i + 1] /\ (i + 1 < N <=> i < M) /\ (i + 1 = N <=> i = M)
    BY <1>4
  <2> QED
    BY <1>5, <2>1
<1>8. PlainTodo(rest)
  BY <1>3, <1>6, <1>7 DEF PlainTodo
<1>9. ASSUME SaysProgress(todo)
      PROVE  m.kind = "meaningful_progress" \/ SaysProgress(rest)
  <2>1. PICK i \in 1 .. N : todo[i].kind = "meaningful_progress"
    BY <1>3, <1>9 DEF SaysProgress
  <2>2. CASE i = 1
    BY <1>4, <2>1, <2>2
  <2>3. CASE i # 1
    <3>1. i - 1 \in 1 .. M /\ rest[i - 1] = todo[i]
      BY <1>4, <2>3
    <3> QED
      BY <1>3, <2>1, <3>1 DEF SaysProgress
  <2> QED
    BY <2>2, <2>3
<1>10. 1 \in 1 .. N
  BY <1>4
<1> QED
  BY <1>2, <1>4, <1>5, <1>6, <1>8, <1>9, <1>10

LEMMA RecordsKeepPlain ==
  ASSUME PlainSound, LiveRecords
  PROVE  Plain'
<1>0. PICK m : m = Head(live.todo)
  OBVIOUS
<1>1. Typed /\ [OutputsNext]_vars /\ launch' = launch /\ live \in LiveRecord
  BY StepWrites DEF PlainSound, FollowerSound, OutputsNext, LiveStep, Typed, ReaderTyped
<1>2. /\ UNCHANGED <<launch, output, cut, running, paused, adopter>> /\ HasRead' = HasRead
      /\ live.pc = "reading" /\ live.todo # <<>>
  BY DEF LiveRecords, HasRead
<1>3. CASE ~Fenced(attempt) /\ Accepts(attempt, m)
  <2>1. attempt' = Recorded(attempt, m) /\ live' = [live EXCEPT !.todo = Tail(@)]
    BY <1>0, <1>3 DEF LiveRecords
  <2>2. /\ live'.read = live.read /\ live'.taken = live.taken
        /\ live'.todo = Tail(live.todo) /\ live'.decoder = live.decoder
    BY <1>1, <2>1 DEF LiveRecord
  <2> SUFFICES ASSUME ~HasRead, launch.harness = "generic"
               PROVE  PlainAttempt' /\ PlainReader'
    BY <1>1, <1>2 DEF Plain
  <2>3. PlainAttempt /\ PlainReader
    BY <1>2 DEF PlainSound, Plain, Decoding
  <2>4. PICK todo, rest : todo = live.todo /\ rest = Tail(todo)
    OBVIOUS
  <2>5. todo \in Seq(Said) /\ todo # <<>> /\ PlainTodo(todo) /\ m = Head(todo)
    BY <1>0, <1>1, <1>2, <2>3, <2>4 DEF LiveRecord, PlainReader
  <2>6. /\ PlainTodo(rest) /\ \E i \in 1 .. Len(output) : Spoken(i)
        /\ m.kind \in {"turn_started", "meaningful_progress", "result"}
        /\ m.kind = "result" => Concluded(m.value, attempt.milestones)
        /\ SaysProgress(todo) => m.kind = "meaningful_progress" \/ SaysProgress(rest)
    BY <2>4, <2>5, PlainTail
  <2>7. m.kind = "result" => m.value # None
    <3>1. m \in Said
      BY <2>5, HeadIsTyped
    <3> QED
      BY <3>1, NoneAssumption DEF Said
  <2>8. PICK seen, more, kind : /\ seen = attempt.milestones /\ kind = m.kind
                                /\ more = seen \cup {kind}
    OBVIOUS
  <2>9. /\ attempt'.milestones = more /\ attempt'.native = attempt.native
        /\ attempt'.result = IF kind = "result" THEN m.value ELSE attempt.result
    BY <2>1, <2>6, <2>8 DEF Recorded
  <2>10. /\ "result" \notin seen
         /\ kind = "result" => "turn_started" \in seen
    BY <1>3, <2>8 DEF Accepts
  <2>11. \E i \in 1 .. Len(output') : Spoken(i)'
    <3>1. PICK i \in 1 .. Len(output) : Spoken(i)
      BY <2>6
    <3> QED
      BY <1>1, <3>1, LinesStay
  <2>12. ASSUME kind = "result"
         PROVE  Concluded(attempt.result, attempt.milestones)'
    <3>1. PICK status : status = m.value
      OBVIOUS
    <3>2. Concluded(status, seen) /\ seen \subseteq more
      BY <2>6, <2>8, <2>12, <3>1
    <3>3. Concluded(status, more)'
      BY <1>1, <3>2, ConcludedStays
    <3> QED
      BY <2>9, <2>12, <3>1, <3>3
  <2>13. PlainAttempt'
    <3>0. attempt.native = None /\ (attempt.result # None <=> "result" \in seen)
      BY <2>3, <2>8 DEF PlainAttempt
    <3>1. attempt'.native = None /\ (attempt'.result # None <=> "result" \in more)
      <4>1. CASE kind = "result"
        <5>1. attempt'.result = m.value /\ m.value # None
          BY <2>7, <2>8, <2>9, <4>1
        <5>2. "result" \in more
          BY <2>8, <4>1
        <5> QED
          BY <2>9, <3>0, <5>1, <5>2
      <4>2. CASE kind # "result"
        <5>1. attempt'.result = None /\ "result" \notin more
          BY <2>8, <2>9, <2>10, <3>0, <4>2
        <5> QED
          BY <2>9, <3>0, <5>1
      <4> QED
        BY <4>1, <4>2
    <3>2. more \subseteq {"process_spawned", "turn_started", "meaningful_progress", "result"}
      BY <2>3, <2>6, <2>8 DEF PlainAttempt
    <3>3. "result" \in more => kind = "result" /\ "turn_started" \in more
      BY <2>8, <2>10
    <3> QED
      BY <2>9, <2>11, <2>12, <3>1, <3>2, <3>3 DEF PlainAttempt
  <2>14. PlainTodo(live.todo)'
    <3>1. attempt.milestones \subseteq attempt'.milestones
      BY <2>8, <2>9
    <3>2. PlainTodo(rest)'
      BY <1>1, <2>6, <3>1, PlainTodoStays
    <3> QED
      BY <2>2, <2>4, <3>2
  <2>15. ASSUME NEW i \in 1 .. Taken, Progresses(i)'
         PROVE  "meaningful_progress" \in more \/ SaysProgress(rest)
    <3>1. i \in 1 .. Len(output)
      BY <1>1, CutAssumption DEF Typed, ReaderTyped, LiveRecord, FileTyped, Taken
    <3>2. Progresses(i)
      BY <1>1, <2>15, <3>1, LinesStay
    <3>3. "meaningful_progress" \in seen \/ SaysProgress(todo)
      BY <2>3, <2>4, <2>8, <3>2 DEF PlainReader
    <3> QED
      BY <2>6, <2>8, <3>3
  <2>16. Taken' = Taken /\ live'.decoder.sessionMode = (launch.mode = "session")
    BY <2>2, <2>3 DEF Taken, PlainReader
  <2>17. SaysProgress(live.todo)' = SaysProgress(rest)
    BY <2>2, <2>4 DEF SaysProgress
  <2> QED
    BY <1>1, <2>9, <2>13, <2>14, <2>15, <2>16, <2>17 DEF PlainReader
<1>4. CASE ~(~Fenced(attempt) /\ Accepts(attempt, m))
  <2>1. attempt' = attempt /\ live' = [live EXCEPT !.pc = "failed", !.todo = <<>>]
    BY <1>0, <1>4 DEF LiveRecords
  <2>2. live'.pc = "failed"
    BY <1>1, <2>1 DEF LiveRecord
  <2> QED
    BY <1>1, <1>2, <2>1, <2>2, PlainStays DEF Decoding
<1> QED
  BY <1>3, <1>4

LEMMA LiveRestKeepsPlain ==
  ASSUME PlainSound, LiveWaits \/ LiveWakes \/ LiveHearsStop \/ LiveFails \/ LiveExits \/ LiveDies
  PROVE  Plain'
<1>1. /\ Typed /\ [OutputsNext]_vars /\ launch' = launch /\ live \in LiveRecord
  BY StepWrites DEF PlainSound, FollowerSound, OutputsNext, LiveStep, Typed, ReaderTyped
<1>2. HasRead' = HasRead
  BY DEF LiveWaits, LiveWakes, LiveHearsStop, LiveFails, LiveExits, LiveDies, HasRead
<1>3. CASE LiveWaits \/ LiveWakes \/ LiveHearsStop
  <2>1. /\ live.pc \in {"reading", "waiting"} /\ attempt' = attempt
        /\ \E pc \in {"reading", "waiting", "drained"}, stopping \in BOOLEAN :
             live' = [live EXCEPT !.pc = pc, !.stopping = stopping]
    <3>1. CASE LiveWaits
      <4>1. live' = [live EXCEPT !.pc = IF live.stopping THEN "drained" ELSE "waiting",
                                 !.stopping = live.stopping]
        BY <1>1, <3>1 DEF LiveWaits, LiveRecord
      <4> QED
        BY <1>1, <3>1, <4>1 DEF LiveWaits, Follows, LiveRecord
    <3>2. CASE LiveWakes
      <4>1. live' = [live EXCEPT !.pc = "reading", !.stopping = live.stopping]
        BY <1>1, <3>2 DEF LiveWakes, LiveRecord
      <4> QED
        BY <1>1, <3>2, <4>1 DEF LiveWakes, LiveRecord
    <3>3. CASE LiveHearsStop
      BY <3>3 DEF LiveHearsStop
    <3> QED
      BY <1>3, <3>1, <3>2, <3>3
  <2>2. PICK pc \in {"reading", "waiting", "drained"}, stopping \in BOOLEAN :
          live' = [live EXCEPT !.pc = pc, !.stopping = stopping]
    BY <2>1
  <2>3. /\ live'.pc = pc /\ live'.read = live.read /\ live'.taken = live.taken
        /\ live'.todo = live.todo /\ live'.decoder = live.decoder
    BY <1>1, <2>2 DEF LiveRecord
  <2> QED
    BY <1>1, <1>2, <2>1, <2>3, PlainStays DEF Decoding
<1>4. CASE LiveFails
  <2>1. live.pc = "failed" /\ attempt' = attempt /\ live' = [live EXCEPT !.pc = "drained"]
    BY <1>4 DEF LiveFails
  <2>2. live'.pc = "drained"
    BY <1>1, <2>1 DEF LiveRecord
  <2> QED
    BY <1>1, <1>2, <2>1, <2>2, PlainStays DEF Decoding
<1>5. CASE LiveExits
  <2>1. live' = [live EXCEPT !.pc = "done"]
    BY <1>5 DEF LiveExits
  <2>2. live'.pc = "done"
    BY <1>1, <2>1 DEF LiveRecord
  <2> QED
    BY <2>2 DEF Plain
<1>6. CASE LiveDies
  <2>1. live.pc # "done" /\ attempt' = attempt /\ live'.pc = "dead"
    BY <1>6 DEF LiveDies, NewLive
  <2> QED
    BY <1>1, <1>2, <2>1, PlainStays DEF Decoding
<1> QED
  BY <1>3, <1>4, <1>5, <1>6

LEMMA OthersKeepPlain ==
  ASSUME PlainSound, HarnessStep \/ Pause \/ AdopterStep \/ UNCHANGED vars
  PROVE  Plain'
<1>1. [OutputsNext]_vars /\ adopter \in AdopterRecord
  BY DEF OutputsNext, PlainSound, FollowerSound, Typed
<1>2. live' = live
  BY DEF HarnessStep, HarnessPrints, HarnessContinues, HarnessEnds, Pause, AdopterStep, Adopt,
     AdopterReads, AdopterLooks, AdopterRecords, AdopterNext, AdopterExits, vars
<1>3. HasRead' \/ (attempt' = attempt /\ ~HasRead)
  <2>1. CASE HarnessStep \/ Pause \/ UNCHANGED vars
    BY <2>1 DEF HarnessStep, HarnessPrints, HarnessContinues, HarnessEnds, Pause, HasRead, vars
  <2>2. CASE AdopterStep
    BY <1>1, <2>2 DEF AdopterStep, Adopt, AdopterReads, AdopterLooks, AdopterRecords, AdopterNext,
       AdopterExits, AdopterRecord, HasRead
  <2> QED
    BY <2>1, <2>2
<1>4. CASE HasRead'
  BY <1>4 DEF Plain
<1>5. CASE attempt' = attempt /\ ~HasRead
  BY <1>1, <1>2, <1>5, PlainStays DEF Decoding
<1> QED
  BY <1>3, <1>4, <1>5

LEMMA PlainSoundStays ==
  ASSUME PlainSound, [OutputsNext]_vars
  PROVE  PlainSound'
<1>1. FollowerSound'
  BY FollowerStays DEF PlainSound
<1>2. Plain'
  BY ReadsKeepPlain, RecordsKeepPlain, LiveRestKeepsPlain, OthersKeepPlain DEF OutputsNext, LiveStep
<1> QED
  BY <1>1, <1>2 DEF PlainSound

-----------------------------------------------------------------------------
(* What a file of plain text tells. *)

KindsOf(milestones) == {milestones[i].kind : i \in 1 .. Len(milestones)}

LEMMA KindsJoined ==
  ASSUME NEW s \in Seq(Said), NEW t \in Seq(Said)
  PROVE  KindsOf(s \o t) = KindsOf(s) \cup KindsOf(t)
<1>1. PICK both : both = s \o t
  OBVIOUS
<1>2. PICK N, M : N = Len(s) /\ M = Len(t)
  OBVIOUS
<1>3. /\ N \in Nat /\ M \in Nat /\ Len(both) = N + M
      /\ \A i \in 1 .. N : both[i] = s[i]
      /\ \A i \in N + 1 .. N + M : both[i] = t[i - N]
  BY <1>1, <1>2
<1>4. \A i \in 1 .. M : i + N \in N + 1 .. N + M /\ both[i + N] = t[i]
  BY <1>3
<1>5. \A i \in 1 .. N + M : i \in 1 .. N \/ (i - N \in 1 .. M /\ i \in N + 1 .. N + M)
  BY <1>3
<1>6. KindsOf(both) = {both[i].kind : i \in 1 .. N + M}
  BY <1>3 DEF KindsOf
<1>7. KindsOf(s) = {s[i].kind : i \in 1 .. N} /\ KindsOf(t) = {t[i].kind : i \in 1 .. M}
  BY <1>2 DEF KindsOf
<1>8. KindsOf(both) \subseteq KindsOf(s) \cup KindsOf(t)
  BY <1>3, <1>5, <1>6, <1>7
<1>9. KindsOf(s) \subseteq KindsOf(both)
  <2>1. \A i \in 1 .. N : i \in 1 .. N + M
    BY <1>3
  <2> QED
    BY <1>3, <1>6, <1>7, <2>1
<1>10. KindsOf(t) \subseteq KindsOf(both)
  <2>1. \A i \in N + 1 .. N + M : i \in 1 .. N + M
    BY <1>3
  <2> QED
    BY <1>4, <1>6, <1>7, <2>1
<1> QED
  BY <1>1, <1>8, <1>9, <1>10

\* What was decoded of the first i lines of plain text.
PlainText(r, lines, i, mode) ==
  /\ r.ok /\ r.decoder.sessionMode = mode
  /\ r.decoder.turn \/ (\E j \in 1 .. i : Says(lines[j])) => "turn_started" \in KindsOf(r.milestones)
  /\ KindsOf(r.milestones) \subseteq {"turn_started", "meaningful_progress", "result"}
  /\ "meaningful_progress" \in KindsOf(r.milestones) =>
       \E j \in 1 .. i : Says(lines[j]) /\ SaidOf(lines[j], mode).kind = "meaningful_progress"

LEMMA PlainThen ==
  ASSUME NEW before \in DecodedRecord, NEW lines, NEW n \in Nat \ {0}, IsLine(lines[n]),
         NEW mode, PlainText(before, lines, n - 1, mode),
         NEW next, next = Then("generic", before, lines[n])
  PROVE  /\ PlainText(next, lines, n, mode)
         /\ Says(lines[n]) =>
              /\ Len(next.milestones) \in Nat \ {0}
              /\ next.milestones[Len(next.milestones)] = SaidOf(lines[n], mode)
<1>1. PICK line, d, out : line = lines[n] /\ d = before.decoder /\ out = GenericLine(d, line)
  OBVIOUS
<1>2. d \in DecoderRecord /\ out \in DecodedRecord /\ IsLine(line) /\ before.ok /\ d.sessionMode = mode
  BY <1>1, GenericIsTyped DEF DecodedRecord, PlainText
<1>3. next = [out EXCEPT !.milestones = before.milestones \o @]
  BY <1>1, <1>2 DEF Then, DecodeLine
<1>4. PICK s, t : s = before.milestones /\ t = out.milestones
  OBVIOUS
<1>5. s \in Seq(Said) /\ t \in Seq(Said)
  BY <1>2, <1>4 DEF DecodedRecord
<1>6. next.ok = out.ok /\ next.decoder = out.decoder /\ next.milestones = s \o t
  BY <1>2, <1>3, <1>4 DEF DecodedRecord
<1>7. KindsOf(next.milestones) = KindsOf(s) \cup KindsOf(t)
  BY <1>5, <1>6, KindsJoined
<1>8. out.ok /\ out.decoder.sessionMode = mode
  BY <1>1, <1>2, PlainLine
<1>9. \A j \in 1 .. n : j = n \/ j \in 1 .. n - 1
  OBVIOUS
<1>10. \A j \in 1 .. n - 1 : j \in 1 .. n
  OBVIOUS
<1>11. n \in 1 .. n
  OBVIOUS
<1>12. CASE ~Says(line)
  <2>1. t = <<>> /\ out.decoder = d
    BY <1>1, <1>2, <1>4, <1>12, PlainLine
  <2>2. KindsOf(t) = {}
    BY <2>1 DEF KindsOf
  <2>3. next.decoder.turn \/ (\E j \in 1 .. n : Says(lines[j])) =>
          before.decoder.turn \/ (\E j \in 1 .. n - 1 : Says(lines[j]))
    BY <1>1, <1>6, <1>9, <1>12, <2>1
  <2>4. KindsOf(next.milestones) = KindsOf(before.milestones)
    BY <1>4, <1>7, <2>2
  <2> QED
    BY <1>1, <1>6, <1>8, <1>10, <1>12, <2>3, <2>4 DEF PlainText
<1>13. CASE Says(line)
  <2>1. /\ Len(t) \in {1, 2} /\ t[Len(t)] = SaidOf(line, mode)
        /\ Len(t) = 2 => t[1] = Milestone("turn_started")
        /\ ~d.turn => t[1] = Milestone("turn_started")
    BY <1>1, <1>2, <1>4, <1>13, PlainLine
  <2>2. PICK said : said = SaidOf(line, mode)
    OBVIOUS
  <2>3. said.kind \in {"meaningful_progress", "result"}
    BY <2>2 DEF SaidOf, WorkerResult, Milestone
  <2>4. KindsOf(t) \subseteq {"turn_started", said.kind} /\ (~d.turn => "turn_started" \in KindsOf(t))
    <3>0. PICK M : M = Len(t)
      OBVIOUS
    <3>1. \A i \in 1 .. Len(t) : i = Len(t) \/ (i = 1 /\ Len(t) = 2)
      BY <2>1
    <3>2. 1 \in 1 .. Len(t)
      <4>1. M = 1 \/ M = 2
        BY <2>1, <3>0
      <4>2. 1 \in 1 .. M
        BY <4>1
      <4> QED
        BY <3>0, <4>2
    <3>3. Milestone("turn_started").kind = "turn_started"
      BY DEF Milestone
    <3> QED
      BY <2>1, <2>2, <3>1, <3>2, <3>3 DEF KindsOf
  <2>5. "turn_started" \in KindsOf(next.milestones)
    <3>1. d.turn => "turn_started" \in KindsOf(s)
      BY <1>1, <1>4 DEF PlainText
    <3> QED
      BY <1>7, <2>4, <3>1
  <2>6. KindsOf(next.milestones) \subseteq {"turn_started", "meaningful_progress", "result"}
    BY <1>4, <1>7, <2>3, <2>4 DEF PlainText
  <2>7. ASSUME "meaningful_progress" \in KindsOf(next.milestones)
        PROVE  \E j \in 1 .. n : Says(lines[j]) /\ SaidOf(lines[j], mode).kind = "meaningful_progress"
    <3>1. CASE "meaningful_progress" \in KindsOf(s)
      BY <1>4, <1>10, <3>1 DEF PlainText
    <3>2. CASE "meaningful_progress" \in KindsOf(t)
      BY <1>1, <1>11, <1>13, <2>2, <2>4, <3>2
    <3> QED
      BY <1>7, <2>7, <3>1, <3>2
  <2>8. PlainText(next, lines, n, mode)
    BY <1>6, <1>8, <2>5, <2>6, <2>7 DEF PlainText
  <2>9. PICK both, N, M : both = s \o t /\ N = Len(s) /\ M = Len(t)
    OBVIOUS
  <2>10. N \in Nat /\ M \in {1, 2} /\ Len(both) = N + M /\ both[N + M] = t[M]
    BY <1>5, <2>1, <2>9
  <2> QED
    BY <1>1, <1>6, <1>13, <2>1, <2>8, <2>9, <2>10
<1> QED
  BY <1>1, <1>12, <1>13

LEMMA PlainFile ==
  ASSUME NEW d \in DecoderRecord, ~d.turn, NEW lines, AreLines(lines),
         NEW a, a = Decodings("generic", d, lines)
  PROVE  \A n \in 0 .. Len(lines) :
           /\ PlainText(a[n], lines, n, d.sessionMode)
           /\ n # 0 /\ Says(lines[n]) =>
                /\ Len(a[n].milestones) \in Nat \ {0}
                /\ a[n].milestones[Len(a[n].milestones)] = SaidOf(lines[n], d.sessionMode)
<1>1. PICK N, mode : N = Len(lines) /\ mode = d.sessionMode
  OBVIOUS
<1>2. N \in Nat /\ \A i \in 1 .. N : IsLine(lines[i])
  BY <1>1 DEF AreLines
<1>3. /\ a \in [0 .. N -> DecodedRecord] /\ a[0] = Silent(d)
      /\ \A i \in 1 .. N : a[i] = Then("generic", a[i - 1], lines[i])
  <2>1. "generic" \in Harness
    BY DEF Harness
  <2> QED
    BY <1>1, <2>1, DecodingsSteps
<1> DEFINE T == {i \in 0 .. N : PlainText(a[i], lines, i, mode)}
<1>4. 0 \in T
  <2>1. a[0].ok /\ a[0].decoder = d /\ a[0].milestones = <<>>
    BY <1>3 DEF Silent, Emits
  <2>2. KindsOf(a[0].milestones) = {}
    BY <2>1 DEF KindsOf
  <2>3. PlainText(a[0], lines, 0, mode)
    BY <1>1, <2>1, <2>2 DEF PlainText
  <2> QED
    BY <1>2, <2>3
<1>5. ASSUME NEW i \in 1 .. N, PlainText(a[i - 1], lines, i - 1, mode)
      PROVE  /\ PlainText(a[i], lines, i, mode)
             /\ Says(lines[i]) =>
                  /\ Len(a[i].milestones) \in Nat \ {0}
                  /\ a[i].milestones[Len(a[i].milestones)] = SaidOf(lines[i], mode)
  <2>1. /\ i \in Nat \ {0} /\ i - 1 \in 0 .. N /\ a[i - 1] \in DecodedRecord /\ IsLine(lines[i])
        /\ a[i] = Then("generic", a[i - 1], lines[i])
    BY <1>2, <1>3
  <2> QED
    BY <1>5, <2>1, PlainThen
<1>6. ASSUME NEW i \in 1 .. N, i - 1 \in T PROVE i \in T
  <2>1. PlainText(a[i - 1], lines, i - 1, mode) /\ i \in 0 .. N
    BY <1>2, <1>6
  <2> QED
    BY <1>5, <2>1
<1>7. 0 .. N \subseteq T
  <2> HIDE DEF T
  <2> QED
    BY <1>2, <1>4, <1>6, EveryStep
<1> SUFFICES ASSUME NEW n \in 0 .. N
             PROVE  /\ PlainText(a[n], lines, n, mode)
                    /\ n # 0 /\ Says(lines[n]) =>
                         /\ Len(a[n].milestones) \in Nat \ {0}
                         /\ a[n].milestones[Len(a[n].milestones)] = SaidOf(lines[n], mode)
  BY <1>1
<1>8. PlainText(a[n], lines, n, mode)
  BY <1>7
<1>9. ASSUME n # 0 PROVE n \in 1 .. N /\ PlainText(a[n - 1], lines, n - 1, mode)
  <2>1. n \in 1 .. N /\ n - 1 \in 0 .. N
    BY <1>2, <1>9
  <2> QED
    BY <1>7, <2>1
<1> QED
  BY <1>5, <1>8, <1>9

-----------------------------------------------------------------------------
(* What an executor leaves is a part of what the file tells. *)

\* Of what the file tells, known has a part, and all of it once the launch is over.
Consistent(known) ==
  /\ "exit" \notin known.milestones
  /\ known.native \in {None, Told.native} /\ (known.native = None => launch.native = None)
  /\ known.result \in {None, Told.result} /\ (known.result # None <=> "result" \in known.milestones)
  /\ "turn_started" \in known.milestones => "turn_started" \in Told.milestones
  /\ known.milestones \cap Final # {} =>
       /\ known.native = Told.native /\ known.result = Told.result
       /\ Told.milestones \cap {"turn_started", "meaningful_progress"} \subseteq known.milestones

LEMMA ToldTells ==
  ASSUME Typed, Told # None, NEW ms, ms = All.milestones
  PROVE  /\ ms \in Seq(Said) /\ AreSaid(ms) /\ Len(ms) \in Nat /\ LaunchTyped
         /\ Told = Recording(ms)[Len(ms)] /\ Told \in AttemptRecord /\ Tells(Told, ms, Len(ms))
<1>1. /\ All.ok /\ Told = Recording(ms)[Len(ms)]
  BY ToldIs
<1>2. ms \in Seq(Said)
  BY DecodedFileIsTyped DEF All
<1>3. AreSaid(ms) /\ Len(ms) \in Nat /\ Len(ms) \in 0 .. Len(ms)
  BY <1>2 DEF AreSaid
<1>4. LaunchTyped
  BY DEF Typed, FileTyped
<1>5. /\ Recording(ms)[Len(ms)] \in AttemptRecord
      /\ Tells(Recording(ms)[Len(ms)], ms, Len(ms))
  BY <1>1, <1>3, <1>4, RecordingTells
<1> QED
  BY <1>1, <1>2, <1>3, <1>4, <1>5

\* Milestones recorded of the first of a file are a part of it.
LEMMA PartIsConsistent ==
  ASSUME Typed, Told # None, NEW ms, ms = All.milestones, NEW k \in 0 .. Len(ms),
         NEW known, known = Recording(ms)[k], known # None
  PROVE  Consistent(known)
<1>1. /\ AreSaid(ms) /\ Len(ms) \in Nat /\ LaunchTyped
      /\ Told = Recording(ms)[Len(ms)] /\ Told \in AttemptRecord /\ Tells(Told, ms, Len(ms))
  BY ToldTells
<1>2. known \in AttemptRecord /\ Tells(known, ms, k)
  BY <1>1, RecordingTells
<1>3. PICK N : N = Len(ms)
  OBVIOUS
<1>4. N \in Nat /\ k \in 0 .. N /\ (\A i \in 1 .. k : i \in 1 .. N) /\ \A i \in 1 .. N : ms[i] \in Said
  BY <1>1, <1>3 DEF AreSaid
<1>5. known.milestones \cap Final # {} => known = Told
  <2>1. N \in k .. N
    BY <1>4
  <2> QED
    BY <1>1, <1>3, <2>1, RecordingEnds
<1>6. "exit" \notin known.milestones
  <2>1. \A i \in 1 .. k : ms[i].kind # "exit"
    BY <1>4 DEF Said
  <2>2. known.milestones = {"process_spawned"} \cup {ms[i].kind : i \in 1 .. k}
    BY <1>2 DEF Tells
  <2> QED
    BY <2>1, <2>2
<1>7. known.milestones \subseteq Told.milestones
  <2>1. /\ known.milestones = {"process_spawned"} \cup {ms[i].kind : i \in 1 .. k}
        /\ Told.milestones = {"process_spawned"} \cup {ms[i].kind : i \in 1 .. N}
    BY <1>1, <1>2, <1>3 DEF Tells
  <2> QED
    BY <1>4, <2>1
<1>8. known.native \in {None, Told.native} /\ (known.native = None => launch.native = None)
  <2>1. /\ \A i \in 1 .. k : ms[i].kind = "session_bound" => ms[i].value = known.native
        /\ \/ known.native = launch.native
           \/ launch.native = None /\ \E i \in 1 .. k : ms[i].kind = "session_bound"
    BY <1>2 DEF Tells
  <2>2. /\ \A i \in 1 .. N : ms[i].kind = "session_bound" => ms[i].value = Told.native
        /\ \/ Told.native = launch.native
           \/ launch.native = None /\ \E i \in 1 .. N : ms[i].kind = "session_bound"
    BY <1>1, <1>3 DEF Tells
  <2>3. CASE \E i \in 1 .. k : ms[i].kind = "session_bound"
    <3>1. PICK i \in 1 .. k : ms[i].kind = "session_bound"
      BY <2>3
    <3>2. ms[i].value = known.native /\ ms[i].value = Told.native
      BY <1>4, <2>1, <2>2, <3>1
    <3> QED
      BY <2>1, <3>2
  <2>4. CASE ~\E i \in 1 .. k : ms[i].kind = "session_bound"
    BY <2>1, <2>2, <2>4
  <2> QED
    BY <2>3, <2>4
<1>9. known.result \in {None, Told.result} /\ (known.result # None <=> "result" \in known.milestones)
  <2>1. /\ \A i \in 1 .. k : ms[i].kind = "result" => ms[i].value = known.result
        /\ known.result # None <=> "result" \in known.milestones
        /\ known.milestones = {"process_spawned"} \cup {ms[i].kind : i \in 1 .. k}
    BY <1>2 DEF Tells
  <2>2. \A i \in 1 .. N : ms[i].kind = "result" => ms[i].value = Told.result
    BY <1>1, <1>3 DEF Tells
  <2>3. CASE "result" \in known.milestones
    <3>1. PICK i \in 1 .. k : ms[i].kind = "result"
      BY <2>1, <2>3
    <3> QED
      BY <1>4, <2>1, <2>2, <3>1
  <2> QED
    BY <2>1, <2>3
<1> QED
  BY <1>5, <1>6, <1>7, <1>8, <1>9 DEF Consistent

LEMMA StandsIsConsistent ==
  ASSUME Typed, Told # None, NEW n, NEW k, Stands(n, k)
  PROVE  Consistent(attempt)
<1>1. PICK ms : ms = All.milestones
  OBVIOUS
<1>2. /\ n \in 0 .. Len(output) /\ Whole(n) /\ k \in 0 .. Len(Dec(n).milestones)
      /\ attempt = Rec(n)[k]
  BY DEF Stands, Whole
<1>3. attempt = Recording(ms)[k] /\ attempt # None /\ k \in 0 .. Len(ms)
  BY <1>1, <1>2, ToldGoesOn
<1> QED
  BY <1>1, <1>3, PartIsConsistent

-----------------------------------------------------------------------------

\* The file as plain text: all of it, and its first n lines if they are whole.
LEMMA PlainTold ==
  ASSUME Typed, Told # None, launch.harness = "generic", NEW mode, mode = (launch.mode = "session")
  PROVE  /\ PlainText(All, FileLines, Len(output), mode)
         /\ \A n \in 1 .. Len(output) :
              Whole(n) =>
                /\ PlainText(Dec(n), output, n, mode)
                /\ Says(output[n]) =>
                     /\ Len(Dec(n).milestones) \in Nat \ {0}
                     /\ Dec(n).milestones[Len(Dec(n).milestones)] = SaidOf(output[n], mode)
<1>1. PICK d, lines, N : d = AdopterDecoder /\ lines = FileLines /\ N = Len(output)
  OBVIOUS
<1>2. d \in DecoderRecord /\ ~d.turn /\ d.sessionMode = mode
  BY <1>1, AdopterDecoderIsTyped DEF AdopterDecoder, FreshDecoder
<1>3. AreLines(lines) /\ Len(lines) = N /\ N \in Nat /\ AreLines(output)
  BY <1>1, FileLinesStand
<1>4. PICK a, b : a = Decodings("generic", d, lines) /\ b = Decodings("generic", d, output)
  OBVIOUS
<1>5. PlainText(a[N], lines, N, mode)
  <2>1. \A n \in 0 .. Len(lines) : PlainText(a[n], lines, n, d.sessionMode)
    BY <1>2, <1>3, <1>4, PlainFile
  <2>2. N \in 0 .. Len(lines)
    BY <1>3
  <2> QED
    BY <1>2, <2>1, <2>2
<1>6. All = a[N]
  BY <1>1, <1>3, <1>4 DEF All, DecodeAll
<1>7. \A n \in 0 .. Len(output) :
        /\ PlainText(b[n], output, n, d.sessionMode)
        /\ n # 0 /\ Says(output[n]) =>
             /\ Len(b[n].milestones) \in Nat \ {0}
             /\ b[n].milestones[Len(b[n].milestones)] = SaidOf(output[n], d.sessionMode)
  BY <1>2, <1>3, <1>4, PlainFile
<1>8. ASSUME NEW n \in 1 .. Len(output)
      PROVE  n \in 0 .. Len(output) /\ n # 0 /\ Dec(n) = b[n]
  BY <1>1, <1>3, <1>4, <1>8 DEF Dec
<1> QED
  BY <1>1, <1>2, <1>5, <1>6, <1>7, <1>8

LEMMA SpokenSays ==
  ASSUME Typed, NEW i \in 1 .. Len(output), Spoken(i)
  PROVE  Says(output[i]) /\ Says(FileLines[i])
<1>1. output[i] # Newline
  BY OutputLines DEF Typed
<1>2. Part(output[i]) = Fragment
  BY DEF Spoken, Part
<1>3. Fragment # Newline /\ Fragment # BlankText
  BY DEF Fragment, Newline, BlankText
<1>4. FileLines[i] = output[i] \/ FileLines[i] = Part(output[i])
  BY FileLinesStand
<1> QED
  BY <1>1, <1>2, <1>3, <1>4 DEF Says, Spoken

\* What an executor recorded of plain text is a part of what the file tells.
LEMMA PlainIsConsistent ==
  ASSUME Typed, Told # None, launch.harness = "generic", PlainAttempt
  PROVE  Consistent(attempt)
<1>1. PICK ms, seen, mode, N :
        ms = All.milestones /\ seen = attempt.milestones /\ mode = (launch.mode = "session")
        /\ N = Len(output)
  OBVIOUS
<1>2. /\ AreSaid(ms) /\ Len(ms) \in Nat /\ LaunchTyped /\ ms \in Seq(Said)
      /\ Told = Recording(ms)[Len(ms)] /\ Told \in AttemptRecord /\ Tells(Told, ms, Len(ms))
  BY <1>1, ToldTells
<1>3. PlainText(All, FileLines, N, mode)
  BY <1>1, PlainTold
<1>4. Told.milestones = {"process_spawned"} \cup KindsOf(ms)
  BY <1>2 DEF Tells, KindsOf
<1>5. launch.native = None /\ Told.native = None /\ attempt.native = None
  <2>1. launch.native = None /\ attempt.native = None
    BY DEF Typed, FileTyped, PlainAttempt
  <2>2. \A i \in 1 .. Len(ms) : ms[i].kind # "session_bound"
    BY <1>1, <1>3 DEF PlainText, KindsOf
  <2> QED
    BY <1>2, <2>1, <2>2 DEF Tells
<1>6. /\ seen \subseteq {"process_spawned", "turn_started", "meaningful_progress", "result"}
      /\ attempt.result # None <=> "result" \in seen
      /\ "result" \in seen => "turn_started" \in seen
  BY <1>1 DEF PlainAttempt
<1>7. ASSUME "turn_started" \in seen PROVE "turn_started" \in Told.milestones
  <2>1. PICK i \in 1 .. N : Spoken(i)
    BY <1>1, <1>7 DEF PlainAttempt
  <2>2. Says(FileLines[i])
    BY <1>1, <2>1, SpokenSays
  <2> QED
    BY <1>1, <1>3, <1>4, <2>2 DEF PlainText
<1>8. ASSUME "result" \in seen
      PROVE  /\ attempt.result = Told.result
             /\ "meaningful_progress" \in Told.milestones => "meaningful_progress" \in seen
  <2>1. PICK n \in 1 .. N :
          Concludes(n) /\ Content(output[n]) = attempt.result /\ Progressed(n, seen)
    BY <1>1, <1>8 DEF PlainAttempt, Concluded
  <2>2. Whole(n) /\ Content(output[n]) \in Status /\ ~mode
    BY <1>1, <2>1 DEF Concludes
  <2>3. Says(output[n])
    <3>1. Content(BlankText) = None
      BY DEF Content, BlankText
    <3>2. output[n] # BlankText
      BY <2>2, <3>1, NoneAssumption
    <3> QED
      BY <1>1, <3>2, SpokenSays DEF Spoken
  <2>4. PICK k, s : s = Dec(n).milestones /\ k = Len(s)
    OBVIOUS
  <2>5. PlainText(Dec(n), output, n, mode) /\ k \in Nat \ {0} /\ s[k] = SaidOf(output[n], mode)
    BY <1>1, <2>2, <2>3, <2>4, PlainTold
  <2>6. n \in 0 .. Len(output) /\ k \in 0 .. Len(Dec(n).milestones)
    BY <1>1, <2>4, <2>5
  <2>7. k \in 0 .. Len(ms) /\ Recording(ms)[k] # None
    BY <1>1, <2>2, <2>6, ToldGoesOn
  <2>8. Begins(s, ms)
    BY <1>1, <2>2, <2>4, <2>6, ToldIs, DecOfFile
  <2>9. k \in 1 .. Len(ms) /\ k \in 1 .. k /\ ms[k] = s[k]
    BY <1>2, <2>4, <2>5, <2>7, <2>8 DEF Begins
  <2>10. ms[k].kind = "result" /\ ms[k].value = attempt.result
    BY <2>1, <2>2, <2>5, <2>9 DEF SaidOf, WorkerResult
  <2>11. k = Len(ms)
    <3>1. PICK known : known = Recording(ms)[k]
      OBVIOUS
    <3>2. known \in AttemptRecord /\ Tells(known, ms, k)
      BY <1>2, <2>7, <3>1, RecordingTells
    <3>3. "result" \in known.milestones
      BY <2>9, <2>10, <3>2 DEF Tells
    <3>4. known.milestones \cap Final # {}
      BY <3>3 DEF Final
    <3>5. Len(ms) \in k .. Len(ms) /\ Recording(ms)[Len(ms)] # None
      BY <1>2, <2>7
    <3> QED
      BY <1>2, <2>7, <3>1, <3>4, <3>5, RecordingEnds
  <2>12. attempt.result = Told.result
    BY <1>2, <2>9, <2>10, <2>11 DEF Tells
  <2>13. ASSUME "meaningful_progress" \in Told.milestones PROVE "meaningful_progress" \in seen
    <3>1. PICK i \in 1 .. Len(ms) : ms[i].kind = "meaningful_progress"
      BY <1>4, <2>13 DEF KindsOf
    <3>2. i \in 1 .. Len(s) /\ s[i] = ms[i]
      BY <2>4, <2>8, <2>11, <3>1 DEF Begins
    <3>3. "meaningful_progress" \in KindsOf(s)
      BY <3>1, <3>2 DEF KindsOf
    <3>4. PICK j \in 1 .. n :
            Says(output[j]) /\ SaidOf(output[j], mode).kind = "meaningful_progress"
      BY <2>4, <2>5, <3>3 DEF PlainText
    <3>5. Content(output[j]) \notin Status
      BY <2>2, <3>4 DEF SaidOf, WorkerResult
    <3>6. j # n /\ j \in 1 .. n - 1
      BY <2>2, <3>5
    <3>7. Progresses(j)
      BY <3>4, <3>5 DEF Progresses, Spoken, Says, Concludes
    <3> QED
      BY <2>1, <3>6, <3>7 DEF Progressed
  <2> QED
    BY <2>12, <2>13
<1>9. seen \cap Final # {} => "result" \in seen
  BY <1>6 DEF Final
<1> QED
  BY <1>1, <1>5, <1>6, <1>7, <1>8, <1>9 DEF Consistent

-----------------------------------------------------------------------------
(* What an adopter finds is what the file tells, and is accepted. *)

\* What an adopter finds is what the file tells.
FoundTells(found) ==
  /\ found.session # None =>
       /\ found.session \in Said /\ found.session.kind = "session_bound"
       /\ found.session.value = Told.native
  /\ found.session = None => Told.native = launch.native
  /\ found.turn # None <=> "turn_started" \in Told.milestones
  /\ found.turn # None => found.turn.kind = "turn_started"
  /\ found.progress # None <=> "meaningful_progress" \in Told.milestones
  /\ found.progress # None => found.progress.kind = "meaningful_progress"
  /\ found.result # None <=> Told.result # None
  /\ found.result # None =>
       /\ found.result.kind = "result" /\ found.result.value = Told.result
       /\ Told.result # "continue" \/ launch.mode = "goal"
  /\ (found.progress # None \/ found.result # None) => "turn_started" \in Told.milestones

LEMMA LastOfKind ==
  ASSUME NEW ms \in Seq(Said), NEW kind, NEW last, last = LastOf(ms, kind)
  PROVE  /\ last # None <=> kind \in KindsOf(ms)
         /\ last # None => /\ last \in Said /\ last.kind = kind
                           /\ \E i \in 1 .. Len(ms) : ms[i] = last
<1>1. /\ last \in Said \cup {None}
      /\ last = None => \A i \in 1 .. Len(ms) : ms[i].kind # kind
      /\ last # None => \E i \in 1 .. Len(ms) : ms[i] = last /\ ms[i].kind = kind
  BY LastIsOne
<1> QED
  BY <1>1 DEF KindsOf

LEMMA FoundIsTold ==
  ASSUME Typed, Told # None
  PROVE  FoundTells(FoundIn(All.milestones))
<1>1. PICK ms, N, found : ms = All.milestones /\ N = Len(ms) /\ found = FoundIn(ms)
  OBVIOUS
<1>2. ms \in Seq(Said) /\ Told \in AttemptRecord /\ Tells(Told, ms, N)
  BY <1>1, ToldTells
<1>3. Told.milestones = {"process_spawned"} \cup KindsOf(ms)
  BY <1>1, <1>2 DEF Tells, KindsOf
<1>4. /\ found.session = LastOf(ms, "session_bound")
      /\ found.turn = LastOf(ms, "turn_started")
      /\ found.progress = LastOf(ms, "meaningful_progress")
      /\ found.result = LastOf(ms, "result")
  BY <1>1 DEF FoundIn
<1>5. /\ found.session # None =>
           /\ found.session \in Said /\ found.session.kind = "session_bound"
           /\ found.session.value = Told.native
      /\ found.session = None => Told.native = launch.native
  <2>1. /\ found.session # None <=> "session_bound" \in KindsOf(ms)
        /\ found.session # None =>
             /\ found.session \in Said /\ found.session.kind = "session_bound"
             /\ \E i \in 1 .. N : ms[i] = found.session
    BY <1>1, <1>2, <1>4, LastOfKind
  <2>2. found.session # None => found.session.value = Told.native
    BY <1>2, <2>1 DEF Tells
  <2>3. found.session = None => Told.native = launch.native
    BY <1>1, <1>2, <2>1 DEF Tells, KindsOf
  <2> QED
    BY <2>1, <2>2, <2>3
<1>6. /\ found.turn # None <=> "turn_started" \in KindsOf(ms)
      /\ found.turn # None => found.turn.kind = "turn_started"
  BY <1>2, <1>4, LastOfKind
<1>7. /\ found.progress # None <=> "meaningful_progress" \in KindsOf(ms)
      /\ found.progress # None => found.progress.kind = "meaningful_progress"
  BY <1>2, <1>4, LastOfKind
<1>8. /\ found.result # None <=> "result" \in KindsOf(ms)
      /\ found.result # None =>
           /\ found.result.kind = "result"
           /\ \E i \in 1 .. N : ms[i] = found.result
  BY <1>1, <1>2, <1>4, LastOfKind
<1>9. /\ Told.result # None <=> "result" \in Told.milestones
      /\ found.result # None => found.result.value = Told.result
      /\ Told.result # None => Told.result # "continue" \/ launch.mode = "goal"
      /\ Told.milestones \cap {"effect_started", "meaningful_progress", "result"} # {}
           => "turn_started" \in Told.milestones
  BY <1>2, <1>8 DEF Tells
<1> QED
  BY <1>1, <1>3, <1>5, <1>6, <1>7, <1>8, <1>9 DEF FoundTells

-----------------------------------------------------------------------------
(* What an adopter finds missing is accepted. *)

LEMMA SessionRecovers ==
  ASSUME NEW known, Consistent(known), NEW found, FoundTells(found),
         known.native = None, found.session # None, NEW m, m = found.session
  PROVE  /\ Accepts(known, m) /\ Consistent(Recorded(known, m))
         /\ Recorded(known, m).native = Told.native /\ Told.native # None
         /\ Recorded(known, m).milestones = known.milestones \cup {"session_bound"}
<1>1. m.kind = "session_bound" /\ m.value = Told.native /\ Told.native # None
  BY NoneAssumption DEF FoundTells, Said
<1>2. known.milestones \cap Final = {}
  BY <1>1 DEF Consistent
<1>3. Accepts(known, m)
  BY <1>1, <1>2 DEF Accepts, Final
<1>4. PICK next : next = Recorded(known, m)
  OBVIOUS
<1>5. /\ next.milestones = known.milestones \cup {"session_bound"}
      /\ next.native = Told.native /\ next.result = known.result
  BY <1>1, <1>4 DEF Recorded
<1>6. next.milestones \cap Final = {}
  BY <1>2, <1>5 DEF Final
<1>7. Consistent(next)
  BY <1>1, <1>5, <1>6 DEF Consistent
<1> QED
  BY <1>1, <1>3, <1>4, <1>5, <1>7

LEMMA TurnRecovers ==
  ASSUME NEW known, Consistent(known), NEW found, FoundTells(found),
         "turn_started" \notin known.milestones, found.turn # None, NEW m, m = found.turn
  PROVE  /\ Accepts(known, m) /\ Consistent(Recorded(known, m))
         /\ Recorded(known, m).native = known.native
         /\ Recorded(known, m).milestones = known.milestones \cup {"turn_started"}
<1>1. m.kind = "turn_started" /\ "turn_started" \in Told.milestones
  BY DEF FoundTells
<1>2. known.milestones \cap Final = {}
  BY <1>1 DEF Consistent
<1>3. Accepts(known, m)
  BY <1>1, <1>2 DEF Accepts, Final
<1>4. PICK next : next = Recorded(known, m)
  OBVIOUS
<1>5. /\ next.milestones = known.milestones \cup {"turn_started"}
      /\ next.native = known.native /\ next.result = known.result
  BY <1>1, <1>4 DEF Recorded
<1>6. next.milestones \cap Final = {}
  BY <1>2, <1>5 DEF Final
<1>7. Consistent(next)
  BY <1>1, <1>5, <1>6 DEF Consistent
<1> QED
  BY <1>3, <1>4, <1>5, <1>7

LEMMA ProgressRecovers ==
  ASSUME NEW known, Consistent(known), NEW found, FoundTells(found),
         "meaningful_progress" \notin known.milestones, found.progress # None,
         "turn_started" \in Told.milestones => "turn_started" \in known.milestones,
         NEW m, m = found.progress
  PROVE  /\ Accepts(known, m) /\ Consistent(Recorded(known, m))
         /\ Recorded(known, m).native = known.native
         /\ Recorded(known, m).milestones = known.milestones \cup {"meaningful_progress"}
<1>1. /\ m.kind = "meaningful_progress" /\ "meaningful_progress" \in Told.milestones
      /\ "turn_started" \in known.milestones
  BY DEF FoundTells
<1>2. known.milestones \cap Final = {}
  BY <1>1 DEF Consistent
<1>3. Accepts(known, m)
  BY <1>1, <1>2 DEF Accepts, Final
<1>4. PICK next : next = Recorded(known, m)
  OBVIOUS
<1>5. /\ next.milestones = known.milestones \cup {"meaningful_progress"}
      /\ next.native = known.native /\ next.result = known.result
  BY <1>1, <1>4 DEF Recorded
<1>6. next.milestones \cap Final = {}
  BY <1>2, <1>5 DEF Final
<1>7. Consistent(next)
  BY <1>1, <1>5, <1>6 DEF Consistent
<1> QED
  BY <1>3, <1>4, <1>5, <1>7

LEMMA ResultRecovers ==
  ASSUME NEW known, Consistent(known), NEW found, FoundTells(found),
         "result" \notin known.milestones, found.result # None,
         Told.milestones \cap {"turn_started", "meaningful_progress"} \subseteq known.milestones,
         known.native = Told.native, NEW m, m = found.result
  PROVE  /\ Accepts(known, m) /\ Consistent(Recorded(known, m))
         /\ Recorded(known, m).native = known.native
         /\ Recorded(known, m).milestones = known.milestones \cup {"result"}
<1>1. /\ m.kind = "result" /\ m.value = Told.result /\ Told.result # None
      /\ "turn_started" \in known.milestones
      /\ Told.result # "continue" \/ launch.mode = "goal"
  BY DEF FoundTells
<1>2. known.milestones \cap Final = {}
  BY <1>1 DEF Consistent
<1>3. Accepts(known, m)
  BY <1>1, <1>2 DEF Accepts, Final
<1>4. PICK next : next = Recorded(known, m)
  OBVIOUS
<1>5. /\ next.milestones = known.milestones \cup {"result"}
      /\ next.native = Told.native /\ next.result = Told.result
  BY <1>1, <1>4 DEF Recorded
<1>6. Consistent(next)
  BY <1>1, <1>5 DEF Consistent
<1> QED
  BY <1>3, <1>4, <1>5, <1>6

-----------------------------------------------------------------------------
(* The adopter starts from a part of what the file tells. *)

\* The adopter has looked for what is recorded in this stage.
Past(stage) == adopter.pc \in {"ending", "done"} \/ adopter.stage > stage

Recovering ==
  /\ adopter.pc # "failed" /\ adopter.found = FoundIn(All.milestones)
  /\ adopter.pc # "done" => Consistent(attempt)
  /\ "turn_started" \in attempt.milestones => "turn_started" \in Told.milestones
  /\ adopter.pc = "recording" => adopter.todo = Wanted
  /\ Past(1) => attempt.native = Told.native
  /\ Past(2) => ("turn_started" \in Told.milestones => "turn_started" \in attempt.milestones)
  /\ Past(3) => attempt.result = Told.result

\* An adopter without the executor: what it records is accepted, and it records what
\* is missing.
AdoptionSound ==
  /\ ~HasRead => adopter.stage = 1 /\ ~adopter.alone
  /\ adopter.alone =>
       /\ live.pc = "dead" /\ HasRead
       /\ ~paused /\ Told # None => Recovering

AdoptersSound == PlainSound /\ AdoptionSound

-----------------------------------------------------------------------------

LEMMA ToldStays ==
  ASSUME UNCHANGED <<launch, output, cut>>
  PROVE  Told' = Told /\ All' = All
<1>1. FileLines' = FileLines
  BY DEF FileLines
<1>2. All' = All
  BY <1>1 DEF All, AdopterDecoder
<1>3. PICK ms, ok : ms = All.milestones /\ ok = All.ok
  OBVIOUS
<1>4. Told = IF ok THEN Recording(ms)[Len(ms)] ELSE None
  BY <1>3 DEF Told, ToldBy, All, AdopterDecoder
<1>5. Told' = IF ok THEN Recording(ms)'[Len(ms)] ELSE None
  BY <1>2, <1>3 DEF Told, ToldBy, All, AdopterDecoder
<1>6. Recording(ms)' = Recording(ms)
  BY RecordingStays
<1> QED
  BY <1>2, <1>4, <1>5, <1>6

LEMMA ConsistentStays ==
  ASSUME UNCHANGED <<launch, output, cut>>, NEW known
  PROVE  Consistent(known)' = Consistent(known)
BY ToldStays DEF Consistent

LEMMA AdoptionInit == OutputsInit => AdoptersSound
<1> SUFFICES ASSUME OutputsInit PROVE AdoptersSound
  OBVIOUS
<1>1. PlainSound
  BY PlainInit
<1>2. adopter.pc = "none" /\ adopter.stage = 1 /\ adopter.alone = FALSE
  BY DEF OutputsInit
<1> QED
  BY <1>1, <1>2 DEF AdoptersSound, AdoptionSound, HasRead

\* Nobody but the adopter does anything but pause.
LEMMA OthersKeepAdoption ==
  ASSUME AdoptersSound, HarnessStep \/ Pause \/ LiveStep
  PROVE  AdoptionSound'
<1>1. adopter' = adopter /\ HasRead' = HasRead
  BY DEF HarnessStep, HarnessPrints, HarnessContinues, HarnessEnds, Pause, LiveStep, LiveReads,
     LiveRecords, LiveWaits, LiveWakes, LiveHearsStop, LiveFails, LiveExits, LiveDies, HasRead
<1>2. ~HasRead => adopter.stage = 1 /\ ~adopter.alone
  BY DEF AdoptersSound, AdoptionSound
<1>3. CASE ~adopter.alone
  BY <1>1, <1>2, <1>3 DEF AdoptionSound
<1>4. CASE adopter.alone
  <2>1. live.pc = "dead" /\ HasRead /\ ~running
    BY <1>4 DEF AdoptersSound, AdoptionSound, PlainSound, FollowerSound, ExecutorSound, AdopterSound
  <2>2. ~HarnessStep /\ ~LiveStep
    BY <2>1 DEF HarnessStep, HarnessPrints, HarnessContinues, HarnessEnds, LiveStep, LiveReads,
       LiveRecords, LiveWaits, LiveWakes, LiveHearsStop, LiveFails, LiveExits, LiveDies, Follows
  <2>3. paused' = TRUE /\ live' = live
    BY <2>2 DEF Pause
  <2> QED
    BY <1>1, <1>2, <2>1, <2>3 DEF AdoptionSound
<1> QED
  BY <1>3, <1>4

-----------------------------------------------------------------------------
(* The adopter. *)

\* What an executor that died has left is a part of what the file tells.
LEMMA LeftIsConsistent ==
  ASSUME PlainSound, ~HasRead, live.pc = "dead", Told # None
  PROVE  Consistent(attempt)
<1>1. Typed /\ Kept /\ Plain
  BY DEF PlainSound, FollowerSound
<1>2. CASE launch.harness = "generic"
  BY <1>1, <1>2, PlainIsConsistent DEF Plain
<1>3. CASE launch.harness # "generic"
  <2>1. PICK n, k : Stands(n, k)
    BY <1>1, <1>3 DEF Kept
  <2> QED
    BY <1>1, <2>1, StandsIsConsistent
<1> QED
  BY <1>2, <1>3

LEMMA AdoptKeepsAdoption ==
  ASSUME AdoptersSound, Adopt
  PROVE  AdoptionSound'
<1>1. adopter.pc = "none" /\ adopter' = [adopter EXCEPT !.pc = "watching"] /\ adopter \in AdopterRecord
  BY DEF Adopt, AdoptersSound, PlainSound, FollowerSound, Typed
<1>2. adopter.stage = 1 /\ ~adopter.alone
  BY <1>1 DEF AdoptersSound, AdoptionSound, HasRead
<1>3. adopter'.stage = 1 /\ ~adopter'.alone
  BY <1>1, <1>2 DEF AdopterRecord
<1> QED
  BY <1>3 DEF AdoptionSound

LEMMA ReadsKeepAdoption ==
  ASSUME AdoptersSound, AdopterReads
  PROVE  AdoptionSound'
<1>1. adopter \in AdopterRecord /\ PlainSound
  BY DEF AdoptersSound, PlainSound, FollowerSound, Typed
<1>2. /\ adopter.pc = "watching" /\ UNCHANGED <<launch, output, cut, running, attempt, paused, live>>
      /\ adopter' = IF All.ok
                    THEN [adopter EXCEPT !.pc = "looking", !.found = FoundIn(All.milestones),
                                         !.alone = live.pc = "dead"]
                    ELSE [adopter EXCEPT !.pc = "ending"]
  BY DEF AdopterReads, All
<1>3. ~HasRead /\ adopter.stage = 1 /\ ~adopter.alone
  BY <1>2 DEF AdoptersSound, AdoptionSound, HasRead
<1>4. CASE ~All.ok
  <2>1. adopter'.pc = "ending" /\ ~adopter'.alone
    BY <1>1, <1>2, <1>3, <1>4 DEF AdopterRecord
  <2> QED
    BY <2>1 DEF AdoptionSound, HasRead
<1>5. CASE All.ok
  <2>1. PICK found, dead : found = FoundIn(All.milestones) /\ dead = (live.pc = "dead")
    OBVIOUS
  <2>2. adopter' = [adopter EXCEPT !.pc = "looking", !.found = found, !.alone = dead]
    BY <1>2, <1>5, <2>1
  <2>3. /\ adopter'.pc = "looking" /\ adopter'.stage = 1 /\ adopter'.found = found
        /\ adopter'.alone = dead
    BY <1>1, <1>3, <2>2 DEF AdopterRecord
  <2>4. HasRead'
    BY <2>3 DEF HasRead
  <2>5. ASSUME dead, Told # None PROVE Recovering'
    <3>1. Consistent(attempt)
      BY <1>1, <1>3, <2>1, <2>5, LeftIsConsistent
    <3>2. PICK known : known = attempt
      OBVIOUS
    <3>3. Consistent(known)' /\ attempt' = known
      BY <1>2, <3>1, <3>2, ConsistentStays
    <3>4. Consistent(attempt)'
      BY <3>3
    <3>5. Told' = Told /\ All' = All
      BY <1>2, ToldStays
    <3>6. "turn_started" \in attempt.milestones => "turn_started" \in Told.milestones
      BY <3>1 DEF Consistent
    <3>7. ~Past(1)' /\ ~Past(2)' /\ ~Past(3)'
      BY <2>3 DEF Past
    <3> QED
      BY <1>2, <2>1, <2>3, <3>4, <3>5, <3>6, <3>7 DEF Recovering
  <2>6. Told' = Told
    BY <1>2, ToldStays
  <2> QED
    BY <1>2, <2>1, <2>3, <2>4, <2>5, <2>6 DEF AdoptionSound
<1> QED
  BY <1>4, <1>5

-----------------------------------------------------------------------------
(* In every stage it wants what is missing. *)

LEMMA HeadOfJoined ==
  ASSUME NEW p \in Said, NEW rest \in Seq(Said)
  PROVE  Head(<<p>> \o rest) = p /\ Tail(<<p>> \o rest) = rest /\ <<p>> \o rest # <<>>
<1>1. <<p>> \in Seq(Said) /\ Len(<<p>>) = 1 /\ <<p>>[1] = p
  OBVIOUS
<1>2. PICK s \in Seq(Said) : s = <<p>>
  BY <1>1
<1>3. PICK t : t = s \o rest
  OBVIOUS
<1>4. /\ t \in Seq(Said) /\ Len(t) = 1 + Len(rest) /\ t[1] = p
      /\ \A i \in 1 .. Len(rest) : t[i + 1] = rest[i]
  BY <1>1, <1>2, <1>3
<1>5. /\ Tail(t) \in Seq(Said) /\ Len(Tail(t)) = Len(rest)
      /\ \A i \in 1 .. Len(rest) : Tail(t)[i] = rest[i]
  BY <1>4
<1>6. Tail(t) = rest
  BY <1>5
<1>7. Head(t) = p /\ t # <<>>
  BY <1>4
<1> QED
  BY <1>2, <1>3, <1>6, <1>7

LEMMA EmptyJoined ==
  ASSUME NEW rest \in Seq(Said)
  PROVE  <<>> \o rest = rest
<1>1. <<>> \in Seq(Said) /\ Len(<<>>) = 0
  OBVIOUS
<1>2. /\ <<>> \o rest \in Seq(Said) /\ Len(<<>> \o rest) = Len(rest)
      /\ \A i \in 1 .. Len(rest) : (<<>> \o rest)[i] = rest[i]
  BY <1>1
<1> QED
  BY <1>2

LEMMA OneLeft ==
  ASSUME NEW m \in Said
  PROVE  <<m>> \in Seq(Said) /\ <<m>> # <<>> /\ Head(<<m>>) = m /\ Tail(<<m>>) = <<>>
<1>1. Tail(<<m>>) = <<>>
  OBVIOUS
<1> QED
  BY <1>1

\* What an adopter wants in each of its stages, of what it found and what is known.
MissingProgress(found, known) ==
  Missing("meaningful_progress" \notin known.milestones, found.progress)

MissingResult(found, known) == Missing("result" \notin known.milestones, found.result)

WantedIn(stage, found, known) ==
  CASE stage = 1 -> Missing(known.native = None, found.session)
    [] stage = 2 -> Missing("turn_started" \notin known.milestones, found.turn)
    [] stage = 3 -> MissingProgress(found, known) \o MissingResult(found, known)

LEMMA WantedInThird ==
  ASSUME NEW found, NEW known
  PROVE  WantedIn(3, found, known) = MissingProgress(found, known) \o MissingResult(found, known)
<1>1. 3 # 1 /\ 3 # 2
  OBVIOUS
<1>2. PICK p, r : p = MissingProgress(found, known) /\ r = MissingResult(found, known)
  OBVIOUS
<1>3. WantedIn(3, found, known) = p \o r
  BY <1>1, <1>2, Zenon DEF WantedIn
<1> QED
  BY <1>2, <1>3

\* The stages before this one are over.
Recovered(stage, known) ==
  /\ stage > 1 => known.native = Told.native
  /\ stage > 2 => ("turn_started" \in Told.milestones => "turn_started" \in known.milestones)
  /\ stage > 3 => known.result = Told.result

\* The first of what it wants is accepted, and then it wants the rest.
LEMMA WantedIsAccepted ==
  ASSUME NEW stage \in 1 .. 3, NEW found \in Found, FoundTells(found), NEW known, Consistent(known),
         Recovered(stage, known),
         NEW todo, todo = WantedIn(stage, found, known), todo # <<>>,
         NEW m, m = Head(todo), NEW next, next = Recorded(known, m)
  PROVE  /\ Accepts(known, m) /\ Consistent(next) /\ Recovered(stage, next)
         /\ Tail(todo) = WantedIn(stage, found, next)
<1>0. /\ found.session \in Said \cup {None} /\ found.turn \in Said \cup {None}
      /\ found.progress \in Said \cup {None} /\ found.result \in Said \cup {None}
  BY DEF Found
<1>1. CASE stage = 1
  <2>1. todo = IF known.native = None /\ found.session # None THEN <<found.session>> ELSE <<>>
    BY <1>1 DEF WantedIn, Missing
  <2>2. known.native = None /\ found.session # None /\ todo = <<found.session>>
    BY <2>1
  <2>3. m = found.session /\ Tail(todo) = <<>>
    BY <1>0, <2>2, OneLeft
  <2>4. /\ Accepts(known, m) /\ Consistent(next)
        /\ next.native = Told.native /\ Told.native # None
    BY <2>2, <2>3, SessionRecovers
  <2>5. WantedIn(stage, found, next) = <<>>
    BY <1>1, <2>4 DEF WantedIn, Missing
  <2>6. Recovered(stage, next)
    BY <1>1, <2>4 DEF Recovered
  <2> QED
    BY <2>3, <2>4, <2>5, <2>6
<1>2. CASE stage = 2
  <2>1. todo = IF "turn_started" \notin known.milestones /\ found.turn # None
               THEN <<found.turn>> ELSE <<>>
    BY <1>2 DEF WantedIn, Missing
  <2>2. "turn_started" \notin known.milestones /\ found.turn # None /\ todo = <<found.turn>>
    BY <2>1
  <2>3. m = found.turn /\ Tail(todo) = <<>>
    BY <1>0, <2>2, OneLeft
  <2>4. /\ Accepts(known, m) /\ Consistent(next) /\ next.native = known.native
        /\ next.milestones = known.milestones \cup {"turn_started"}
    BY <2>2, <2>3, TurnRecovers
  <2>5. "turn_started" \in next.milestones
    BY <2>4
  <2>6. WantedIn(stage, found, next) = <<>>
    BY <1>2, <2>5 DEF WantedIn, Missing
  <2>7. Recovered(stage, next)
    BY <1>2, <2>4 DEF Recovered
  <2> QED
    BY <2>3, <2>4, <2>6, <2>7
<1>3. CASE stage = 3
  <2>1. PICK p, r :
          /\ p = IF "meaningful_progress" \notin known.milestones /\ found.progress # None
                 THEN <<found.progress>> ELSE <<>>
          /\ r = IF "result" \notin known.milestones /\ found.result # None
                 THEN <<found.result>> ELSE <<>>
    OBVIOUS
  <2>2. todo = p \o r
    BY <1>3, <2>1 DEF WantedIn, MissingProgress, MissingResult, Missing
  <2>3. p \in Seq(Said) /\ r \in Seq(Said)
    BY <1>0, <2>1, OneLeft
  <2>4. /\ known.native = Told.native
        /\ "turn_started" \in Told.milestones => "turn_started" \in known.milestones
    BY <1>3 DEF Recovered
  <2>5. CASE "meaningful_progress" \notin known.milestones /\ found.progress # None
    <3>1. p = <<found.progress>> /\ found.progress \in Said
      BY <1>0, <2>1, <2>5
    <3>2. m = found.progress /\ Tail(todo) = r
      BY <2>2, <2>3, <3>1, HeadOfJoined
    <3>3. /\ Accepts(known, m) /\ Consistent(next) /\ next.native = known.native
          /\ next.milestones = known.milestones \cup {"meaningful_progress"}
      BY <2>4, <2>5, <3>2, ProgressRecovers
    <3>4. /\ "meaningful_progress" \in next.milestones
          /\ "result" \in next.milestones <=> "result" \in known.milestones
      BY <3>3
    <3>5. WantedIn(stage, found, next) = <<>> \o r
      <4>1. r = IF "result" \notin next.milestones /\ found.result # None
                THEN <<found.result>> ELSE <<>>
        BY <2>1, <3>4
      <4>2. MissingProgress(found, next) = <<>>
        BY <3>4 DEF MissingProgress, Missing
      <4>3. MissingResult(found, next) = r
        BY <4>1 DEF MissingResult, Missing
      <4>4. WantedIn(stage, found, next) = MissingProgress(found, next) \o MissingResult(found, next)
        BY <1>3, WantedInThird
      <4> QED
        BY <4>2, <4>3, <4>4
    <3>6. <<>> \o r = r
      BY <2>3, EmptyJoined
    <3>7. Recovered(stage, next)
      BY <1>3, <2>4, <3>3 DEF Recovered
    <3> QED
      BY <3>2, <3>3, <3>5, <3>6, <3>7
  <2>6. CASE ~("meaningful_progress" \notin known.milestones /\ found.progress # None)
    <3>1. p = <<>> /\ todo = r
      BY <2>1, <2>2, <2>3, <2>6, EmptyJoined
    <3>2. "result" \notin known.milestones /\ found.result # None /\ r = <<found.result>>
      BY <2>1, <3>1
    <3>3. m = found.result /\ Tail(todo) = <<>>
      BY <1>0, <3>1, <3>2, OneLeft
    <3>4. "meaningful_progress" \in Told.milestones => "meaningful_progress" \in known.milestones
      BY <2>6 DEF FoundTells
    <3>5. Told.milestones \cap {"turn_started", "meaningful_progress"} \subseteq known.milestones
      BY <2>4, <3>4
    <3>6. /\ Accepts(known, m) /\ Consistent(next) /\ next.native = known.native
          /\ next.milestones = known.milestones \cup {"result"}
      BY <2>4, <3>2, <3>3, <3>5, ResultRecovers
    <3>7. /\ "result" \in next.milestones
          /\ "meaningful_progress" \in next.milestones <=> "meaningful_progress" \in known.milestones
      BY <3>6
    <3>8. WantedIn(stage, found, next) = <<>> \o <<>>
      BY <1>3, <2>6, <3>7 DEF WantedIn, MissingProgress, MissingResult, Missing
    <3>9. <<>> \o <<>> = <<>>
      BY <2>3, <3>1, EmptyJoined
    <3>10. Recovered(stage, next)
      BY <1>3, <2>4, <3>6 DEF Recovered
    <3> QED
      BY <3>3, <3>6, <3>8, <3>9, <3>10
  <2> QED
    BY <2>5, <2>6
<1> QED
  BY <1>1, <1>2, <1>3

\* Once it wants nothing, the stage is over.
LEMMA NothingWanted ==
  ASSUME NEW stage \in 1 .. 3, NEW found \in Found, FoundTells(found), NEW known, Consistent(known),
         Recovered(stage, known), WantedIn(stage, found, known) = <<>>
  PROVE  Recovered(stage + 1, known)
<1>0. /\ found.session \in Said \cup {None} /\ found.turn \in Said \cup {None}
      /\ found.progress \in Said \cup {None} /\ found.result \in Said \cup {None}
  BY DEF Found
<1>1. CASE stage = 1
  <2>1. <<>> = IF known.native = None /\ found.session # None THEN <<found.session>> ELSE <<>>
    BY <1>1 DEF WantedIn, Missing
  <2>2. known.native # None \/ found.session = None
    BY <1>0, <2>1, OneLeft
  <2>3. known.native = Told.native
    BY <2>2 DEF Consistent, FoundTells
  <2> QED
    BY <1>1, <2>3 DEF Recovered
<1>2. CASE stage = 2
  <2>1. <<>> = IF "turn_started" \notin known.milestones /\ found.turn # None
               THEN <<found.turn>> ELSE <<>>
    BY <1>2 DEF WantedIn, Missing
  <2>2. "turn_started" \in known.milestones \/ found.turn = None
    BY <1>0, <2>1, OneLeft
  <2>3. "turn_started" \in Told.milestones => "turn_started" \in known.milestones
    BY <2>2 DEF FoundTells
  <2> QED
    BY <1>2, <2>3 DEF Recovered
<1>3. CASE stage = 3
  <2>1. PICK p, r :
          /\ p = IF "meaningful_progress" \notin known.milestones /\ found.progress # None
                 THEN <<found.progress>> ELSE <<>>
          /\ r = IF "result" \notin known.milestones /\ found.result # None
                 THEN <<found.result>> ELSE <<>>
    OBVIOUS
  <2>2. p \o r = <<>>
    BY <1>3, <2>1 DEF WantedIn, MissingProgress, MissingResult, Missing
  <2>3. p \in Seq(Said) /\ r \in Seq(Said)
    BY <1>0, <2>1, OneLeft
  <2>4. r = <<>>
    <3>1. CASE "meaningful_progress" \notin known.milestones /\ found.progress # None
      <4>1. p = <<found.progress>> /\ found.progress \in Said
        BY <1>0, <2>1, <3>1
      <4> QED
        BY <2>2, <2>3, <4>1, HeadOfJoined
    <3>2. CASE ~("meaningful_progress" \notin known.milestones /\ found.progress # None)
      <4>1. p = <<>>
        BY <2>1, <3>2
      <4> QED
        BY <2>2, <2>3, <4>1, EmptyJoined
    <3> QED
      BY <3>1, <3>2
  <2>5. "result" \in known.milestones \/ found.result = None
    BY <1>0, <2>1, <2>4, OneLeft
  <2>6. known.result = Told.result
    BY <2>5 DEF Consistent, FoundTells
  <2>7. Recovered(stage, known)
    OBVIOUS
  <2> QED
    BY <1>3, <2>6, <2>7 DEF Recovered
<1> QED
  BY <1>1, <1>2, <1>3

-----------------------------------------------------------------------------
(* Its steps, and the end: the whole of what the file tells. *)

LEMMA WantedIs ==
  /\ Wanted = WantedIn(adopter.stage, adopter.found, attempt)
  /\ Wanted' = WantedIn(adopter'.stage, adopter'.found, attempt')
BY DEF Wanted, WantedIn, MissingProgress, MissingResult

\* Which stages are over.
Stage == IF adopter.pc \in {"ending", "done"} THEN 4 ELSE adopter.stage

LEMMA PastIsRecovered ==
  ASSUME adopter.stage \in 1 .. 3
  PROVE  Recovered(Stage, attempt) <=>
           /\ Past(1) => attempt.native = Told.native
           /\ Past(2) => ("turn_started" \in Told.milestones => "turn_started" \in attempt.milestones)
           /\ Past(3) => attempt.result = Told.result
BY DEF Stage, Past, Recovered

LEMMA AdoptionGoesOn ==
  ASSUME AdoptersSound, UNCHANGED <<launch, output, cut, paused, live>>,
         HasRead, HasRead', adopter'.alone = adopter.alone,
         adopter.alone /\ ~paused /\ Told # None /\ Recovering => Recovering'
  PROVE  AdoptionSound'
<1>1. Told' = Told
  BY ToldStays
<1> QED
  BY <1>1 DEF AdoptersSound, AdoptionSound

LEMMA LooksKeepAdoption ==
  ASSUME AdoptersSound, AdopterLooks
  PROVE  AdoptionSound'
<1>1. adopter \in AdopterRecord
  BY DEF AdoptersSound, PlainSound, FollowerSound, Typed
<1>2. /\ adopter.pc = "looking" /\ UNCHANGED <<launch, output, cut, running, attempt, paused, live>>
      /\ adopter' = IF "exit" \in attempt.milestones THEN [adopter EXCEPT !.pc = "ending"]
                    ELSE [adopter EXCEPT !.pc = "recording", !.todo = Wanted]
  BY DEF AdopterLooks
<1>3. HasRead /\ HasRead' /\ adopter'.alone = adopter.alone
  BY <1>1, <1>2 DEF HasRead, AdopterRecord
<1>4. ASSUME adopter.alone, ~paused, Told # None, Recovering
      PROVE  Recovering'
  <2>1. Consistent(attempt)
    BY <1>2, <1>4 DEF Recovering
  <2>2. "exit" \notin attempt.milestones
    BY <2>1 DEF Consistent
  <2>3. PICK todo : todo = Wanted
    OBVIOUS
  <2>4. adopter' = [adopter EXCEPT !.pc = "recording", !.todo = todo]
    BY <1>2, <2>2, <2>3
  <2>5. /\ adopter'.pc = "recording" /\ adopter'.todo = todo /\ adopter'.stage = adopter.stage
        /\ adopter'.found = adopter.found
    BY <1>1, <2>4 DEF AdopterRecord
  <2>6. Wanted' = todo
    BY <1>2, <2>3, <2>5, WantedIs
  <2>7. PICK known : known = attempt
    OBVIOUS
  <2>8. Consistent(known)' /\ attempt' = known
    BY <1>2, <2>1, <2>7, ConsistentStays
  <2>9. Consistent(attempt)'
    BY <2>8
  <2>10. Told' = Told /\ All' = All
    BY <1>2, ToldStays
  <2>11. Past(1)' = Past(1) /\ Past(2)' = Past(2) /\ Past(3)' = Past(3)
    BY <1>2, <2>5 DEF Past
  <2> QED
    BY <1>2, <1>4, <2>5, <2>6, <2>9, <2>10, <2>11 DEF Recovering
<1> QED
  BY <1>2, <1>3, <1>4, AdoptionGoesOn

LEMMA AdopterRecordsKeepAdoption ==
  ASSUME AdoptersSound, AdopterRecords
  PROVE  AdoptionSound'
<1>0. PICK m, next : m = Head(adopter.todo) /\ next = Recorded(attempt, m)
  OBVIOUS
<1>1. adopter \in AdopterRecord
  BY DEF AdoptersSound, PlainSound, FollowerSound, Typed
<1>2. /\ adopter.pc = "recording" /\ adopter.todo # <<>>
      /\ UNCHANGED <<launch, output, cut, running, paused, live>>
  BY DEF AdopterRecords
<1>3. ASSUME adopter.alone, ~paused, Told # None, Recovering
      PROVE  /\ ~Fenced(attempt) /\ Accepts(attempt, m)
             /\ Consistent(next) /\ Recovered(adopter.stage, next)
             /\ Tail(adopter.todo) = WantedIn(adopter.stage, adopter.found, next)
  <2>1. PICK stage, found, known, todo :
          /\ stage = adopter.stage /\ found = adopter.found /\ known = attempt
          /\ todo = adopter.todo
    OBVIOUS
  <2>2. stage \in 1 .. 3 /\ found \in Found
    BY <1>1, <2>1 DEF AdopterRecord
  <2>3. Consistent(known) /\ todo = WantedIn(stage, found, known) /\ todo # <<>>
    BY <1>2, <1>3, <2>1, WantedIs DEF Recovering
  <2>4. FoundTells(found)
    <3>1. Typed /\ found = FoundIn(All.milestones)
      BY <1>3, <2>1 DEF AdoptersSound, PlainSound, FollowerSound, Recovering
    <3> QED
      BY <1>3, <3>1, FoundIsTold
  <2>5. Stage = stage /\ Recovered(stage, known)
    <3>1. Stage = stage
      BY <1>2, <2>1 DEF Stage
    <3>2. Recovered(Stage, attempt)
      BY <1>3, <2>1, <2>2, PastIsRecovered DEF Recovering
    <3> QED
      BY <2>1, <3>1, <3>2
  <2>6. m = Head(todo) /\ next = Recorded(known, m)
    BY <1>0, <2>1
  <2>7. /\ Accepts(known, m) /\ Consistent(next) /\ Recovered(stage, next)
        /\ Tail(todo) = WantedIn(stage, found, next)
    BY <2>2, <2>3, <2>4, <2>5, <2>6, WantedIsAccepted
  <2>8. ~Fenced(known)
    BY <1>3, <2>3 DEF Fenced, Consistent
  <2> QED
    BY <2>1, <2>7, <2>8
<1>4. CASE ~Fenced(attempt) /\ Accepts(attempt, m)
  <2>1. attempt' = next /\ adopter' = [adopter EXCEPT !.todo = Tail(@)]
    BY <1>0, <1>4 DEF AdopterRecords
  <2>2. /\ adopter'.pc = "recording" /\ adopter'.todo = Tail(adopter.todo)
        /\ adopter'.stage = adopter.stage /\ adopter'.found = adopter.found
        /\ adopter'.alone = adopter.alone
    BY <1>1, <1>2, <2>1 DEF AdopterRecord
  <2>3. HasRead /\ HasRead'
    BY <1>2, <2>2 DEF HasRead
  <2>4. ASSUME adopter.alone, ~paused, Told # None, Recovering
        PROVE  Recovering'
    <3>1. /\ Consistent(next) /\ Recovered(adopter.stage, next)
          /\ Tail(adopter.todo) = WantedIn(adopter.stage, adopter.found, next)
      BY <1>3, <2>4
    <3>2. Consistent(next)' /\ Told' = Told /\ All' = All
      BY <1>2, <3>1, ConsistentStays, ToldStays
    <3>3. Consistent(attempt)'
      BY <2>1, <3>2
    <3>4. adopter'.todo = Wanted'
      BY <2>1, <2>2, <3>1, WantedIs
    <3>5. "turn_started" \in attempt'.milestones => "turn_started" \in Told.milestones
      BY <2>1, <3>1 DEF Consistent
    <3>6. /\ Past(1)' => attempt'.native = Told.native
          /\ Past(2)' => ("turn_started" \in Told.milestones => "turn_started" \in attempt'.milestones)
          /\ ~Past(3)'
      <4>1. PICK stage : stage = adopter.stage
        OBVIOUS
      <4>2. stage \in 1 .. 3
        BY <1>1, <4>1 DEF AdopterRecord
      <4>3. Recovered(stage, next)
        BY <3>1, <4>1
      <4> QED
        BY <2>1, <2>2, <4>1, <4>2, <4>3 DEF Past, Recovered
    <3>7. adopter'.found = FoundIn(All.milestones)
      BY <2>2, <2>4 DEF Recovering
    <3> QED
      BY <2>2, <3>2, <3>3, <3>4, <3>5, <3>6, <3>7 DEF Recovering
  <2> QED
    BY <1>2, <2>2, <2>3, <2>4, AdoptionGoesOn
<1>5. CASE ~(~Fenced(attempt) /\ Accepts(attempt, m))
  <2>1. adopter'.alone = adopter.alone /\ adopter'.pc \in {"recording", "failed"}
    <3>1. \/ adopter' = [adopter EXCEPT !.todo = Tail(@)]
          \/ adopter' = [adopter EXCEPT !.pc = "failed", !.todo = <<>>]
      BY <1>0, <1>5 DEF AdopterRecords
    <3> QED
      BY <1>1, <1>2, <3>1 DEF AdopterRecord
  <2>2. HasRead /\ HasRead'
    BY <1>2, <2>1 DEF HasRead
  <2> QED
    BY <1>2, <1>3, <1>5, <2>1, <2>2, AdoptionGoesOn
<1> QED
  BY <1>4, <1>5

LEMMA NextKeepsAdoption ==
  ASSUME AdoptersSound, AdopterNext
  PROVE  AdoptionSound'
<1>1. adopter \in AdopterRecord
  BY DEF AdoptersSound, PlainSound, FollowerSound, Typed
<1>2. /\ adopter.pc = "recording" /\ adopter.todo = <<>>
      /\ UNCHANGED <<launch, output, cut, running, attempt, paused, live>>
      /\ adopter' = IF adopter.stage = 3 THEN [adopter EXCEPT !.pc = "ending"]
                    ELSE [adopter EXCEPT !.pc = "looking", !.stage = @ + 1]
  BY DEF AdopterNext
<1>3. /\ adopter'.alone = adopter.alone /\ adopter'.found = adopter.found
      /\ \/ adopter.stage = 3 /\ adopter'.stage = 3 /\ adopter'.pc = "ending"
         \/ adopter.stage # 3 /\ adopter'.stage = adopter.stage + 1 /\ adopter'.pc = "looking"
  BY <1>1, <1>2 DEF AdopterRecord
<1>4. HasRead /\ HasRead'
  BY <1>2, <1>3 DEF HasRead
<1>5. ASSUME adopter.alone, ~paused, Told # None, Recovering
      PROVE  Recovering'
  <2>1. PICK stage, found, known : stage = adopter.stage /\ found = adopter.found /\ known = attempt
    OBVIOUS
  <2>2. stage \in 1 .. 3 /\ found \in Found
    BY <1>1, <2>1 DEF AdopterRecord
  <2>3. Consistent(known) /\ WantedIn(stage, found, known) = <<>>
    BY <1>2, <1>5, <2>1, WantedIs DEF Recovering
  <2>4. FoundTells(found)
    <3>1. Typed /\ found = FoundIn(All.milestones)
      BY <1>5, <2>1 DEF AdoptersSound, PlainSound, FollowerSound, Recovering
    <3> QED
      BY <1>5, <3>1, FoundIsTold
  <2>5. Recovered(stage, known)
    <3>1. Stage = stage
      BY <1>2, <2>1 DEF Stage
    <3>2. Recovered(Stage, attempt)
      BY <1>5, <2>1, <2>2, PastIsRecovered DEF Recovering
    <3> QED
      BY <2>1, <3>1, <3>2
  <2>6. Recovered(stage + 1, known)
    BY <2>2, <2>3, <2>4, <2>5, NothingWanted
  <2>7. Consistent(known)' /\ Told' = Told /\ All' = All /\ attempt' = known
    BY <1>2, <2>1, <2>3, ConsistentStays, ToldStays
  <2>8. Consistent(attempt)'
    BY <2>7
  <2>9. /\ Past(1)' => known.native = Told.native
        /\ Past(2)' => ("turn_started" \in Told.milestones => "turn_started" \in known.milestones)
        /\ Past(3)' => known.result = Told.result
    BY <1>3, <2>1, <2>2, <2>6 DEF Past, Recovered
  <2> QED
    BY <1>3, <1>5, <2>1, <2>7, <2>8, <2>9 DEF Recovering
<1> QED
  BY <1>2, <1>3, <1>4, <1>5, AdoptionGoesOn

LEMMA ExitsKeepAdoption ==
  ASSUME AdoptersSound, AdopterExits
  PROVE  AdoptionSound'
<1>1. adopter \in AdopterRecord /\ attempt \in AttemptRecord
  BY DEF AdoptersSound, PlainSound, FollowerSound, Typed
<1>2. /\ adopter.pc = "ending" /\ UNCHANGED <<launch, output, cut, running, paused, live>>
      /\ attempt' = Exited(attempt) /\ adopter' = [adopter EXCEPT !.pc = "done"]
  BY DEF AdopterExits, RecordExit, Exited
<1>3. /\ adopter'.pc = "done" /\ adopter'.alone = adopter.alone
      /\ adopter'.found = adopter.found
  BY <1>1, <1>2 DEF AdopterRecord
<1>4. HasRead /\ HasRead'
  BY <1>2, <1>3 DEF HasRead
<1>5. /\ attempt'.native = attempt.native /\ attempt'.result = attempt.result
      /\ attempt'.milestones = attempt.milestones \cup {"exit"}
  BY <1>1, <1>2 DEF Exited, AttemptRecord
<1>6. ASSUME adopter.alone, ~paused, Told # None, Recovering
      PROVE  Recovering'
  <2>1. Past(1) /\ Past(2) /\ Past(3)
    BY <1>2 DEF Past
  <2>2. Told' = Told /\ All' = All
    BY <1>2, ToldStays
  <2>3. "turn_started" \in attempt'.milestones <=> "turn_started" \in attempt.milestones
    BY <1>5
  <2> QED
    BY <1>3, <1>5, <1>6, <2>1, <2>2, <2>3 DEF Recovering
<1> QED
  BY <1>2, <1>3, <1>4, <1>6, AdoptionGoesOn

LEMMA StutteringKeepsAdoption ==
  ASSUME AdoptersSound, UNCHANGED vars
  PROVE  AdoptionSound'
<1>1. UNCHANGED <<launch, output, cut, running, attempt, paused, live, adopter>> /\ HasRead' = HasRead
  BY DEF vars, HasRead
<1>2. Told' = Told /\ All' = All
  BY <1>1, ToldStays
<1>3. PICK known : known = attempt
  OBVIOUS
<1>4. Consistent(known)' = Consistent(known)
  BY <1>1, ConsistentStays
<1>5. Consistent(attempt)' = Consistent(attempt)
  BY <1>1, <1>3, <1>4
<1>6. Wanted' = Wanted
  BY <1>1, WantedIs
<1>7. Recovering' = Recovering
  BY <1>1, <1>2, <1>5, <1>6 DEF Recovering, Past
<1> QED
  BY <1>1, <1>2, <1>7 DEF AdoptersSound, AdoptionSound

LEMMA AdoptersStay ==
  ASSUME AdoptersSound, [OutputsNext]_vars
  PROVE  AdoptersSound'
<1>1. PlainSound'
  BY PlainSoundStays DEF AdoptersSound
<1>2. AdoptionSound'
  BY OthersKeepAdoption, AdoptKeepsAdoption, ReadsKeepAdoption, LooksKeepAdoption,
     AdopterRecordsKeepAdoption, NextKeepsAdoption, ExitsKeepAdoption, StutteringKeepsAdoption
     DEF OutputsNext, AdopterStep
<1> QED
  BY <1>1, <1>2 DEF AdoptersSound

LEMMA AdoptersRecover == AdoptersSound => AdoptionRecovers
<1> SUFFICES ASSUME AdoptersSound, adopter.pc \in {"failed", "done"}, adopter.alone, ~paused,
                    Told # None
             PROVE  /\ adopter.pc = "done"
                    /\ attempt.native = Told.native /\ attempt.result = Told.result
                    /\ "turn_started" \in attempt.milestones <=> "turn_started" \in Told.milestones
  BY DEF AdoptionRecovers
<1>1. Recovering
  BY DEF AdoptersSound, AdoptionSound
<1>2. adopter.pc = "done" /\ Past(1) /\ Past(2) /\ Past(3)
  BY <1>1 DEF Recovering, Past
<1> QED
  BY <1>1, <1>2 DEF Recovering

(* What a restart finds is what the executor that died would have recorded: at whichever
   line and between whichever two records it died, and whatever pieces of lines it had
   read, the adoption of readable output is never refused, and in the end the turn, the
   native identity and the Result are those of the whole file, for any lines and any
   number of them (executor.go, recoverAttemptOutput). *)
THEOREM RestartsRecover == OutputsSpec => []AdoptionRecovers
BY AdoptionInit, AdoptersStay, AdoptersRecover, PTL DEF OutputsSpec
=============================================================================
