----------------------------- MODULE CommandLog -----------------------------
(***************************************************************************)
(* What the journal promises to whoever issues commands: a log in which a   *)
(* key names at most one command, and answers that name an entry of it.     *)
(* A crash of the machine may forget the end of the log, but no entry whose *)
(* own execution was answered.  Journal implements this specification.      *)
(***************************************************************************)
EXTENDS Naturals, Sequences

CONSTANTS Keys,      \* idempotency keys
          Inputs     \* digests of command inputs

VARIABLES log,       \* the committed commands, in order
          answers    \* the receipts given to callers so far

vars == <<log, answers>>

Init ==
  /\ log = <<>>
  /\ answers = {}

(* A command executes: its whole effect is one entry at the end of the log. *)
Commit(key, input) ==
  /\ \A n \in DOMAIN log : log[n].key # key
  /\ log' = Append(log, [sequence |-> Len(log) + 1, key |-> key, input |-> input])
  /\ UNCHANGED answers

(* A caller gets the receipt of entry n: of the execution it asked for, or
   (existing) of one that happened before. *)
Answer(n, existing) ==
  /\ n \in DOMAIN log
  /\ answers' = answers \cup
       {[key |-> log[n].key, input |-> log[n].input, sequence |-> n, existing |-> existing]}
  /\ UNCHANGED log

(* The machine restarts with the first n entries: those whose execution was
   answered are among them. *)
Lose(n) ==
  /\ \A a \in answers : a.existing \/ a.sequence <= n
  /\ log' = SubSeq(log, 1, n)
  /\ UNCHANGED answers

Next ==
  \/ \E key \in Keys, input \in Inputs : Commit(key, input)
  \/ \E n \in DOMAIN log, existing \in BOOLEAN : Answer(n, existing)
  \/ \E n \in 0..Len(log) : Lose(n)

Spec == Init /\ [][Next]_vars
=============================================================================
