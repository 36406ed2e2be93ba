------------------------------ MODULE Journal ------------------------------
(***************************************************************************)
(* Store.Execute (internal/supervisor/journal.go) on the record files of    *)
(* internal/secureledger/ledger.go: callers in several processes serialised *)
(* by the record lock, events.jsonl with a tail that a killed writer can    *)
(* leave torn, fsync, and the snapshot state.json.                          *)
(*                                                                         *)
(* A file has two sides: what every process sees (now), and what a machine  *)
(* that stops may still have when it starts again (after): all it held      *)
(* since its last successful fsync.                                         *)
(*                                                                         *)
(* A definition introduced as a "Mutant" belongs to no action: it is the   *)
(* definition after it with one plausible bug, to show which property      *)
(* catches that bug.                                                       *)
(***************************************************************************)
EXTENDS Naturals, Sequences, FiniteSets

CONSTANTS Callers,      \* calls of Execute that may run at once, a process each
          Keys,         \* idempotency keys
          Inputs,       \* digests of command inputs
          None,         \* no lock holder, no command
          MaxReboots    \* bound: how often the machine stops

ASSUME MaxRebootsAssumption == MaxReboots \in Nat
ASSUME NoneAssumption == None \notin Callers

VARIABLES events,       \* events.jsonl
          snapshot,     \* state.json, as the entries its State was built from
          lock,         \* who holds .write.lock
          call,         \* where each call of Execute is
          answers,      \* the receipts Execute returned so far
          reboots       \* how often the machine stopped

vars == <<events, snapshot, lock, call, answers, reboots>>

(* One journal entry; the domain events follow from its command. *)
Entry == [sequence : Nat \ {0}, key : Keys, input : Inputs]

(* The end of events.jsonl after its last whole entry: nothing; bytes that do
   not parse and have no newline; a last entry without its newline; or a line
   that does not parse and has its newline, which no reader gets past. *)
Tails == {"clean", "torn", "unterminated", "corrupt"}
Image == [records : Seq(Entry), tail : Tails]

Steps == {"idle", "waiting", "locked", "replayed", "repaired", "ready",
          "written", "synced", "renamed"}
CallRecord == [at : Steps, key : Keys \cup {None}, input : Inputs \cup {None},
               state : Seq(Entry), next : Nat]
Idle == [at |-> "idle", key |-> None, input |-> None, state |-> <<>>, next |-> 0]

Receipt == [key : Keys, input : Inputs, sequence : Nat, existing : BOOLEAN]

TypeOK ==
  /\ events \in [now : Image, after : SUBSET Image]
  /\ snapshot \in [now : Seq(Entry), after : SUBSET Seq(Entry)]
  /\ lock \in Callers \cup {None}
  /\ call \in [Callers -> CallRecord]
  /\ \A c \in Callers : call[c].at # "idle" => call[c].key \in Keys /\ call[c].input \in Inputs
  /\ answers \subseteq Receipt
  /\ reboots \in 0..MaxReboots

Empty == [records |-> <<>>, tail |-> "clean"]

Init ==
  /\ events = [now |-> Empty, after |-> {Empty}]
  /\ snapshot = [now |-> <<>>, after |-> {<<>>}]
  /\ lock = None
  /\ call = [c \in Callers |-> Idle]
  /\ answers = {}
  /\ reboots = 0

-----------------------------------------------------------------------------
(* The files. *)

(* walk and repairTail read the file to its end: every line but the last
   parses, and the entries are numbered 1, 2, ... *)
Readable(image) ==
  /\ image.tail # "corrupt"
  /\ \A n \in DOMAIN image.records : image.records[n].sequence = n

\* Mutant: the tail is counted but left as it is.
LeftAlone(image) == image

(* repairTail cuts off a torn tail and ends an unterminated entry. *)
Repaired(image) == [image EXCEPT !.tail = "clean"]

(* What a write of one line leaves if it stops within it, before its newline,
   or not at all.  A line put after a tail that was not repaired joins it. *)
Torn(image) ==
  [image EXCEPT !.tail = IF @ = "clean" THEN "torn" ELSE "corrupt"]
Extended(image, entry, tail) ==
  IF image.tail = "clean"
  THEN [records |-> Append(image.records, entry), tail |-> tail]
  ELSE [image EXCEPT !.tail = "corrupt"]

\* Mutant: the entry takes the number of the last one.
LastSequence(image) == Len(image.records)

(* Append numbers its entry after those that repairTail counted. *)
NextSequence(image) == Len(image.records) + 1

(* The entry a call writes: its command under the sequence number it found. *)
NewEntry(c) == [sequence |-> call[c].next, key |-> call[c].key, input |-> call[c].input]

(* The entries a call replayed that its idempotency key names. *)
Prior(c) == {n \in DOMAIN call[c].state : call[c].state[n].key = call[c].key}

(* The call returns, or its process dies: both give up the lock. *)
Leave(c) ==
  /\ call' = [call EXCEPT ![c] = Idle]
  /\ lock' = IF lock = c THEN None ELSE lock

-----------------------------------------------------------------------------
(* Execute, step by step. *)

Call(c, key, input) ==
  /\ call[c].at = "idle"
  /\ call' = [call EXCEPT ![c] =
                [at |-> "waiting", key |-> key, input |-> input, state |-> <<>>, next |-> 0]]
  /\ UNCHANGED <<events, snapshot, lock, answers, reboots>>

\* Mutant: the lock is taken whether or not another call holds it.
AcquireHeld(c) ==
  /\ call[c].at = "waiting"
  /\ lock' = c
  /\ call' = [call EXCEPT ![c].at = "locked"]
  /\ UNCHANGED <<events, snapshot, answers, reboots>>

(* acquire gets the file lock of the record. *)
Acquire(c) ==
  /\ call[c].at = "waiting"
  /\ lock = None
  /\ lock' = c
  /\ call' = [call EXCEPT ![c].at = "locked"]
  /\ UNCHANGED <<events, snapshot, answers, reboots>>

(* replayTxn: the State is what the whole entries of the file say. *)
Replay(c) ==
  /\ call[c].at = "locked"
  /\ Readable(events.now)
  /\ call' = [call EXCEPT ![c] = [@ EXCEPT !.at = "replayed", !.state = events.now.records]]
  /\ UNCHANGED <<events, snapshot, lock, answers, reboots>>

\* Mutant: the receipt is returned whatever the input was.
AnswerDivergent(c) ==
  /\ call[c].at = "replayed"
  /\ \E n \in Prior(c) :
       answers' = answers \cup {[key |-> call[c].key, input |-> call[c].input,
                                 sequence |-> call[c].state[n].sequence, existing |-> TRUE]}
  /\ Leave(c)
  /\ UNCHANGED <<events, snapshot, reboots>>

(* The key has a receipt for the same input: return it. *)
AnswerExisting(c) ==
  /\ call[c].at = "replayed"
  /\ \E n \in Prior(c) :
       /\ call[c].state[n].input = call[c].input
       /\ answers' = answers \cup {[key |-> call[c].key, input |-> call[c].input,
                                    sequence |-> call[c].state[n].sequence, existing |-> TRUE]}
  /\ Leave(c)
  /\ UNCHANGED <<events, snapshot, reboots>>

(* The command is decided and valid, and Append begins: repairTail counts the
   entries and repairs the tail, which its fsync must still make durable. *)
RepairTail(c) ==
  /\ call[c].at = "replayed"
  /\ Prior(c) = {}
  /\ Readable(events.now)
  /\ events' = [now |-> Repaired(events.now), after |-> events.after \cup {Repaired(events.now)}]
  /\ call' = [call EXCEPT ![c] =
                [@ EXCEPT !.at = IF events.now.tail = "clean" THEN "ready" ELSE "repaired",
                          !.next = NextSequence(events.now)]]
  /\ UNCHANGED <<snapshot, lock, answers, reboots>>

(* Append writes the entry and its newline; the disk may get any part of it. *)
Write(c) ==
  /\ call[c].at = "ready"
  /\ LET whole == Extended(events.now, NewEntry(c), "clean")
     IN  events' = [now |-> whole,
                    after |-> events.after \cup
                      {Torn(events.now), Extended(events.now, NewEntry(c), "unterminated"), whole}]
  /\ call' = [call EXCEPT ![c].at = "written"]
  /\ UNCHANGED <<snapshot, lock, answers, reboots>>

(* The write fails, or the process dies within it, and part of the line is in
   the file. *)
ShortWrite(c) ==
  /\ call[c].at = "ready"
  /\ \E image \in {Torn(events.now), Extended(events.now, NewEntry(c), "unterminated")} :
       events' = [now |-> image, after |-> events.after \cup {Torn(events.now), image}]
  /\ Leave(c)
  /\ UNCHANGED <<snapshot, answers, reboots>>

\* Mutant: nothing is synced.
SyncSkipped(c) ==
  /\ call[c].at \in {"repaired", "written"}
  /\ call' = [call EXCEPT ![c].at = IF @ = "repaired" THEN "ready" ELSE "synced"]
  /\ UNCHANGED <<events, snapshot, lock, answers, reboots>>

(* fsync after the repair, or after the entry. *)
Sync(c) ==
  /\ call[c].at \in {"repaired", "written"}
  /\ events' = [events EXCEPT !.after = {events.now}]
  /\ call' = [call EXCEPT ![c].at = IF @ = "repaired" THEN "ready" ELSE "synced"]
  /\ UNCHANGED <<snapshot, lock, answers, reboots>>

\* Mutant: the snapshot is replaced before the entry is synced.
ReplaceSnapshotEarly(c) ==
  /\ call[c].at = "written"
  /\ LET state == Append(call[c].state, NewEntry(c))
     IN  snapshot' = [now |-> state, after |-> snapshot.after \cup {state}]
  /\ call' = [call EXCEPT ![c].at = "renamed"]
  /\ UNCHANGED <<events, lock, answers, reboots>>

(* ReplaceSnapshot renames a synced temporary file over state.json. *)
ReplaceSnapshot(c) ==
  /\ call[c].at = "synced"
  /\ LET state == Append(call[c].state, NewEntry(c))
     IN  snapshot' = [now |-> state, after |-> snapshot.after \cup {state}]
  /\ call' = [call EXCEPT ![c].at = "renamed"]
  /\ UNCHANGED <<events, lock, answers, reboots>>

(* The directory is synced, and Execute returns the receipt. *)
AnswerNew(c) ==
  /\ call[c].at = "renamed"
  /\ snapshot' = [snapshot EXCEPT !.after = {snapshot.now}]
  /\ answers' = answers \cup {[key |-> call[c].key, input |-> call[c].input,
                               sequence |-> call[c].next, existing |-> FALSE]}
  /\ Leave(c)
  /\ UNCHANGED <<events, reboots>>

(* Any step fails and Execute returns its error (the lock times out, the key
   names another input, the command is refused, a file is unreadable, a write,
   fsync or rename fails), or the process of the call dies. *)
GiveUp(c) ==
  /\ call[c].at # "idle"
  /\ Leave(c)
  /\ UNCHANGED <<events, snapshot, answers, reboots>>

(* The machine stops and starts again: each file is one of those it held since
   its last fsync, and no process is left. *)
Reboot ==
  /\ reboots < MaxReboots
  /\ \E image \in events.after : events' = [now |-> image, after |-> {image}]
  /\ \E state \in snapshot.after : snapshot' = [now |-> state, after |-> {state}]
  /\ lock' = None
  /\ call' = [c \in Callers |-> Idle]
  /\ reboots' = reboots + 1
  /\ UNCHANGED answers

Next ==
  \/ \E c \in Callers :
       \/ \E key \in Keys, input \in Inputs : Call(c, key, input)
       \/ Acquire(c)
       \/ Replay(c)
       \/ AnswerExisting(c)
       \/ RepairTail(c)
       \/ Write(c)
       \/ ShortWrite(c)
       \/ Sync(c)
       \/ ReplaceSnapshot(c)
       \/ AnswerNew(c)
       \/ GiveUp(c)
  \/ Reboot

Spec == Init /\ [][Next]_vars

-----------------------------------------------------------------------------
(* Properties. *)

(* Every file the journal can be found with, now or after the machine stops,
   replays to its end: no sequence of failed writes, kills and repairs leaves a
   line in the middle that every later Execute and View would stop at
   (ledger.go, walk and repairTail). *)
AlwaysReadable == \A image \in events.after \cup {events.now} : Readable(image)

(* A key has at most one entry, however its callers raced, were killed after
   their write or retried (journal.go, the receipt lookup in Execute). *)
OneEntryPerKey ==
  \A m, n \in DOMAIN events.now.records :
    events.now.records[m].key = events.now.records[n].key => m = n

(* A caller told that its own execution committed finds that very entry in
   every file a crash of the machine can leave (journal.go, Execute returns
   after Append's fsync). *)
ExecutedIsDurable ==
  \A a \in answers, image \in events.after :
    ~a.existing =>
      /\ a.sequence \in DOMAIN image.records
      /\ image.records[a.sequence] =
           [sequence |-> a.sequence, key |-> a.key, input |-> a.input]

(* The snapshot may lag but never leads: whichever state.json and whichever
   events.jsonl a crash leaves, the first was built from a beginning of the
   second (journal.go, snapshot after Append). *)
SnapshotNeverLeads ==
  \A state \in snapshot.after, image \in events.after :
    /\ Len(state) <= Len(image.records)
    /\ \A n \in DOMAIN state : state[n] = image.records[n]

(* As long as only processes die, all receipts of a key are the same but for
   their existing flag (journal.go, Execute). *)
ReceiptsAgree ==
  reboots = 0 => \A a, b \in answers : a.key = b.key => a.sequence = b.sequence /\ a.input = b.input

(* The journal implements the command log (the log is the file's entries). *)
Abstract == INSTANCE CommandLog WITH log <- events.now.records
ImplementsCommandLog == Abstract!Spec
=============================================================================
