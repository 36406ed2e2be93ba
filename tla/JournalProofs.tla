--------------------------- MODULE JournalProofs ----------------------------
(***************************************************************************)
(* The journal keeps what it acknowledges and implements CommandLog, for    *)
(* any callers, keys, inputs and number of machine crashes.  The invariant  *)
(* says what the files a crash can leave have in common (FilesSound), what  *)
(* the call that holds the lock knows of them (CallsSound), and what the    *)
(* receipts and the snapshot rest on (AnswersSound, SnapshotSound).         *)
(***************************************************************************)
EXTENDS Journal, TLAPS, SequenceTheorems

\* s is the beginning of t.
Begins(s, t) == Len(s) <= Len(t) /\ \A n \in 1..Len(s) : s[n] = t[n]

\* Every file a crash can leave is readable and a beginning of the present one.
FilesSound ==
  /\ events.now \in events.after
  /\ \A image \in events.after :
       image.tail # "corrupt" /\ Begins(image.records, events.now.records)
  /\ \A n \in 1..Len(events.now.records) : events.now.records[n].sequence = n
  /\ OneEntryPerKey

\* Only the holder of the lock is inside Execute, and the file is as it left it.
CallSound(c) ==
  /\ call[c].at \notin {"idle", "waiting"} => lock = c
  /\ call[c].at \in {"replayed", "repaired", "ready"} => call[c].state = events.now.records
  /\ call[c].at \in {"repaired", "ready"} =>
       /\ events.now.tail = "clean"
       /\ Prior(c) = {}
       /\ call[c].next = Len(events.now.records) + 1
  /\ call[c].at \in {"written", "synced", "renamed"} =>
       /\ events.now.tail = "clean"
       /\ call[c].next = Len(call[c].state) + 1
       /\ events.now.records = Append(call[c].state, NewEntry(c))
  /\ call[c].at \in {"synced", "renamed"} => events.after = {events.now}
  /\ call[c].at = "renamed" => snapshot.now = events.now.records
CallsSound == \A c \in Callers : CallSound(c)

\* The entry a receipt is about.
EntryOf(a) == [sequence |-> a.sequence, key |-> a.key, input |-> a.input]
Has(records, a) == a.sequence \in 1..Len(records) /\ records[a.sequence] = EntryOf(a)

\* Receipts of own executions are in every file; until the machine stops, all are in the log.
AnswersSound ==
  \A a \in answers :
    /\ ~a.existing => \A image \in events.after : Has(image.records, a)
    /\ reboots = 0 => Has(events.now.records, a)

SnapshotSound ==
  /\ snapshot.now \in snapshot.after
  /\ \A state \in snapshot.after, image \in events.after : Begins(state, image.records)

IInv == TypeOK /\ FilesSound /\ CallsSound /\ AnswersSound /\ SnapshotSound
-----------------------------------------------------------------------------

(* What happens to one image of the file. *)
LEMMA ImageTypes ==
  ASSUME NEW image \in Image
  PROVE  /\ Repaired(image) \in Image
         /\ Torn(image) \in Image
         /\ \A entry \in Entry, tail \in Tails : Extended(image, entry, tail) \in Image
         /\ NextSequence(image) \in Nat \ {0}
BY SMT DEF Image, Tails, Repaired, Torn, Extended, NextSequence

(* A call that is not idle writes an entry, once it has a number for it. *)
LEMMA NewEntryType ==
  ASSUME TypeOK, NEW c \in Callers, call[c].at # "idle", call[c].next # 0
  PROVE  NewEntry(c) \in Entry
BY DEF TypeOK, NewEntry, Entry, CallRecord

LEMMA NumbersArePositive ==
  ASSUME TypeOK, CallsSound, NEW c \in Callers,
         call[c].at \in {"ready", "written", "synced", "renamed"}
  PROVE  NewEntry(c) \in Entry
<1>1. events.now.records \in Seq(Entry) /\ call[c].state \in Seq(Entry)
  BY DEF TypeOK, Image, CallRecord
<1>2. call[c].next # 0
  BY <1>1 DEF CallsSound, CallSound
<1> QED
  BY <1>2, NewEntryType

(* A call moves on, with the entries it replayed or the number it found. *)
LEMMA MoveTypes ==
  ASSUME TypeOK, NEW c \in Callers, NEW step \in Steps
  PROVE  [call EXCEPT ![c].at = step] \in [Callers -> CallRecord]
BY DEF TypeOK, CallRecord

LEMMA ReplayTypes ==
  ASSUME TypeOK, NEW c \in Callers, NEW step \in Steps, NEW state \in Seq(Entry)
  PROVE  [call EXCEPT ![c] = [@ EXCEPT !.at = step, !.state = state]] \in [Callers -> CallRecord]
BY DEF TypeOK, CallRecord

LEMMA NumberTypes ==
  ASSUME TypeOK, NEW c \in Callers, NEW step \in Steps, NEW next \in Nat
  PROVE  [call EXCEPT ![c] = [@ EXCEPT !.at = step, !.next = next]] \in [Callers -> CallRecord]
BY DEF TypeOK, CallRecord

LEMMA TypeStep ==
  ASSUME TypeOK, CallsSound, [Next]_vars
  PROVE  TypeOK'
<1> USE NoneAssumption, MaxRebootsAssumption
<1>0. Idle.at = "idle" /\ Idle \in CallRecord
  BY DEF Idle, CallRecord, Steps
<1>1. ASSUME NEW c \in Callers, Leave(c)
      PROVE  /\ lock' \in Callers \cup {None}
             /\ call' \in [Callers -> CallRecord]
             /\ \A d \in Callers :
                  call'[d].at # "idle" => call'[d].key \in Keys /\ call'[d].input \in Inputs
  BY <1>0, <1>1 DEF TypeOK, Leave
<1>2. ASSUME NEW c \in Callers, NEW key \in Keys, NEW input \in Inputs, Call(c, key, input)
      PROVE  TypeOK'
  <2>1. [at |-> "waiting", key |-> key, input |-> input, state |-> <<>>, next |-> 0] \in CallRecord
    BY DEF CallRecord, Steps
  <2> QED
    BY <1>2, <2>1 DEF TypeOK, Call
<1>3. ASSUME NEW c \in Callers, Acquire(c)
      PROVE  TypeOK'
  <2>1. call' \in [Callers -> CallRecord]
    BY <1>3, MoveTypes DEF Acquire, Steps
  <2>2. \A d \in Callers : call'[d].key = call[d].key /\ call'[d].input = call[d].input
    BY <1>3 DEF Acquire, TypeOK, CallRecord
  <2> QED
    BY <1>3, <2>1, <2>2 DEF TypeOK, Acquire
<1>4. ASSUME NEW c \in Callers, Replay(c)
      PROVE  TypeOK'
  <2>1. events.now.records \in Seq(Entry)
    BY DEF TypeOK, Image
  <2>2. call' \in [Callers -> CallRecord]
    BY <1>4, <2>1, ReplayTypes DEF Replay, Steps
  <2>3. \A d \in Callers : call'[d].key = call[d].key /\ call'[d].input = call[d].input
    BY <1>4 DEF Replay, TypeOK, CallRecord
  <2> QED
    BY <1>4, <2>2, <2>3 DEF TypeOK, Replay
<1>5. ASSUME NEW c \in Callers, AnswerExisting(c)
      PROVE  TypeOK'
  <2>1. call[c].state \in Seq(Entry)
    BY DEF TypeOK, CallRecord
  <2>2. \A n \in DOMAIN call[c].state : call[c].state[n] \in Entry
    BY <2>1, LenProperties, ElementOfSeq
  <2>3. call[c].key \in Keys /\ call[c].input \in Inputs
    BY <1>5 DEF TypeOK, AnswerExisting
  <2>4. answers' \subseteq Receipt
    <3>1. PICK n \in Prior(c) :
            answers' = answers \cup {[key |-> call[c].key, input |-> call[c].input,
                                      sequence |-> call[c].state[n].sequence, existing |-> TRUE]}
      BY <1>5 DEF AnswerExisting
    <3>2. call[c].state[n].sequence \in Nat
      BY <2>2 DEF Prior, Entry
    <3>3. [key |-> call[c].key, input |-> call[c].input,
           sequence |-> call[c].state[n].sequence, existing |-> TRUE] \in Receipt
      BY <2>3, <3>2 DEF Receipt
    <3> QED
      BY <3>1, <3>3 DEF TypeOK
  <2> QED
    BY <1>5, <1>1, <2>4 DEF TypeOK, AnswerExisting
<1>6. ASSUME NEW c \in Callers, RepairTail(c)
      PROVE  TypeOK'
  <2>1. Repaired(events.now) \in Image /\ NextSequence(events.now) \in Nat
    BY ImageTypes DEF TypeOK
  <2>2. call' \in [Callers -> CallRecord]
    BY <1>6, <2>1, NumberTypes DEF RepairTail, Steps
  <2>3. \A d \in Callers : call'[d].key = call[d].key /\ call'[d].input = call[d].input
    BY <1>6 DEF RepairTail, TypeOK, CallRecord
  <2> QED
    BY <1>6, <2>1, <2>2, <2>3 DEF TypeOK, RepairTail
<1>7. ASSUME NEW c \in Callers, Write(c)
      PROVE  TypeOK'
  <2>1. NewEntry(c) \in Entry
    BY <1>7, NumbersArePositive DEF Write
  <2>2. /\ Torn(events.now) \in Image
        /\ Extended(events.now, NewEntry(c), "clean") \in Image
        /\ Extended(events.now, NewEntry(c), "unterminated") \in Image
    BY <2>1, ImageTypes DEF TypeOK, Tails
  <2>3. call' \in [Callers -> CallRecord]
    BY <1>7, MoveTypes DEF Write, Steps
  <2>4. \A d \in Callers : call'[d].key = call[d].key /\ call'[d].input = call[d].input
    BY <1>7 DEF Write, TypeOK, CallRecord
  <2> QED
    BY <1>7, <2>2, <2>3, <2>4 DEF TypeOK, Write
<1>8. ASSUME NEW c \in Callers, ShortWrite(c)
      PROVE  TypeOK'
  <2>1. NewEntry(c) \in Entry
    BY <1>8, NumbersArePositive DEF ShortWrite
  <2>2. /\ Torn(events.now) \in Image
        /\ Extended(events.now, NewEntry(c), "unterminated") \in Image
    BY <2>1, ImageTypes DEF TypeOK, Tails
  <2> QED
    BY <1>8, <1>1, <2>2 DEF TypeOK, ShortWrite
<1>9. ASSUME NEW c \in Callers, Sync(c)
      PROVE  TypeOK'
  <2>1. events' \in [now : Image, after : SUBSET Image]
    BY <1>9 DEF TypeOK, Sync
  <2>2. call' \in [Callers -> CallRecord]
    BY <1>9, MoveTypes DEF Sync, Steps
  <2>3. \A d \in Callers : call'[d].key = call[d].key /\ call'[d].input = call[d].input
    BY <1>9 DEF Sync, TypeOK, CallRecord
  <2> QED
    BY <1>9, <2>1, <2>2, <2>3 DEF TypeOK, Sync
<1>10. ASSUME NEW c \in Callers, ReplaceSnapshot(c)
       PROVE  TypeOK'
  <2>1. NewEntry(c) \in Entry
    BY <1>10, NumbersArePositive DEF ReplaceSnapshot
  <2>2. call[c].state \in Seq(Entry)
    BY DEF TypeOK, CallRecord
  <2>3. Append(call[c].state, NewEntry(c)) \in Seq(Entry)
    BY <2>1, <2>2
  <2>4. call' \in [Callers -> CallRecord]
    BY <1>10, MoveTypes DEF ReplaceSnapshot, Steps
  <2>5. \A d \in Callers : call'[d].key = call[d].key /\ call'[d].input = call[d].input
    BY <1>10 DEF ReplaceSnapshot, TypeOK, CallRecord
  <2> QED
    BY <1>10, <2>3, <2>4, <2>5 DEF TypeOK, ReplaceSnapshot
<1>11. ASSUME NEW c \in Callers, AnswerNew(c)
       PROVE  TypeOK'
  <2>1. snapshot' \in [now : Seq(Entry), after : SUBSET Seq(Entry)]
    BY <1>11 DEF TypeOK, AnswerNew
  <2>2. [key |-> call[c].key, input |-> call[c].input,
         sequence |-> call[c].next, existing |-> FALSE] \in Receipt
    BY <1>11 DEF TypeOK, AnswerNew, Receipt, CallRecord
  <2> QED
    BY <1>11, <1>1, <2>1, <2>2 DEF TypeOK, AnswerNew
<1>12. ASSUME NEW c \in Callers, GiveUp(c)
       PROVE  TypeOK'
  BY <1>12, <1>1 DEF TypeOK, GiveUp
<1>13. CASE Reboot
  BY <1>13, <1>0 DEF TypeOK, Reboot
<1>14. CASE UNCHANGED vars
  BY <1>14 DEF TypeOK, vars
<1> QED
  BY <1>2, <1>3, <1>4, <1>5, <1>6, <1>7, <1>8, <1>9, <1>10, <1>11, <1>12, <1>13, <1>14 DEF Next

-----------------------------------------------------------------------------
(* The files.  What a step writes extends what was there. *)
LEMMA BeginsFacts ==
  /\ \A s \in Seq(Entry) : Begins(s, s)
  /\ \A s, t, u \in Seq(Entry) : Begins(s, t) /\ Begins(t, u) => Begins(s, u)
  /\ \A s \in Seq(Entry), e \in Entry : Begins(s, Append(s, e))
<1>1. \A s, t, u \in Seq(Entry) : Begins(s, t) /\ Begins(t, u) => Begins(s, u)
  <2> SUFFICES ASSUME NEW s \in Seq(Entry), NEW t \in Seq(Entry), NEW u \in Seq(Entry),
                      Begins(s, t), Begins(t, u)
               PROVE  Begins(s, u)
    OBVIOUS
  <2>1. Len(s) \in Nat /\ Len(t) \in Nat /\ Len(u) \in Nat
    OBVIOUS
  <2> QED
    BY <2>1 DEF Begins
<1>2. \A s \in Seq(Entry), e \in Entry : Begins(s, Append(s, e))
  BY DEF Begins
<1> QED
  BY <1>1, <1>2 DEF Begins

(* The images a write of an entry can leave on a clean file, and the repair. *)
LEMMA ImagesExtend ==
  ASSUME NEW image \in Image, NEW entry \in Entry
  PROVE  /\ Repaired(image).records = image.records
         /\ Repaired(image).tail = "clean"
         /\ image.tail = "clean" =>
              /\ Torn(image).records = image.records
              /\ Torn(image).tail = "torn"
              /\ \A tail \in {"clean", "unterminated"} :
                   /\ Extended(image, entry, tail).records = Append(image.records, entry)
                   /\ Extended(image, entry, tail).tail = tail
BY DEF Image, Repaired, Torn, Extended

(* How a step changes events.jsonl, which is all the invariant needs to know:
   nothing; a repair; a write of an entry with a new key, whole or not; an
   fsync; a crash. *)
Same == UNCHANGED events
Repairs == \E image \in Image :
  /\ image.records = events.now.records /\ image.tail = "clean"
  /\ events' = [now |-> image, after |-> events.after \cup {image}]
Fresh(entry) ==
  /\ entry.sequence = Len(events.now.records) + 1
  /\ \A n \in 1..Len(events.now.records) : events.now.records[n].key # entry.key
Writes(entry) == \E image \in Image, more \in SUBSET Image :
  /\ \A other \in more \cup {image} :
       /\ other.tail # "corrupt"
       /\ other.records \in {events.now.records, Append(events.now.records, entry)}
  /\ \A other \in more : Len(other.records) <= Len(image.records)
  /\ events' = [now |-> image, after |-> events.after \cup more \cup {image}]
Syncs == events' = [now |-> events.now, after |-> {events.now}]
Reboots ==
  /\ reboots' = reboots + 1
  /\ \E image \in events.after : events' = [now |-> image, after |-> {image}]

LEMMA ReadyWrites ==
  ASSUME TypeOK, FilesSound, CallsSound, NEW c \in Callers, call[c].at = "ready"
  PROVE  /\ NewEntry(c) \in Entry
         /\ Fresh(NewEntry(c))
         /\ Write(c) \/ ShortWrite(c) => Writes(NewEntry(c))
<1>1. NewEntry(c) \in Entry
  BY NumbersArePositive
<1>2. /\ events.now.tail = "clean"
      /\ Prior(c) = {}
      /\ call[c].next = Len(events.now.records) + 1
      /\ call[c].state = events.now.records
  BY DEF CallsSound, CallSound
<1>3. events.now.records \in Seq(Entry) /\ events.now \in Image
  BY DEF TypeOK, Image
<1>4. DOMAIN call[c].state = 1..Len(events.now.records)
  BY <1>2, <1>3, LenProperties
<1>5. Fresh(NewEntry(c))
  BY <1>2, <1>4 DEF Fresh, NewEntry, Prior
<1> DEFINE torn == Torn(events.now)
           part == Extended(events.now, NewEntry(c), "unterminated")
           whole == Extended(events.now, NewEntry(c), "clean")
<1>6. torn \in Image /\ part \in Image /\ whole \in Image
  BY <1>1, <1>3, ImageTypes DEF Tails
<1>7. /\ torn.records = events.now.records /\ torn.tail = "torn"
      /\ part.records = Append(events.now.records, NewEntry(c)) /\ part.tail = "unterminated"
      /\ whole.records = Append(events.now.records, NewEntry(c)) /\ whole.tail = "clean"
  BY <1>1, <1>2, <1>3, ImagesExtend
<1>8. Len(torn.records) <= Len(part.records) /\ Len(torn.records) <= Len(whole.records)
      /\ Len(part.records) <= Len(whole.records)
  BY <1>1, <1>3, <1>7
<1> HIDE DEF torn, part, whole
<1>9. ASSUME Write(c) PROVE Writes(NewEntry(c))
  <2>1. events' = [now |-> whole, after |-> events.after \cup {torn, part} \cup {whole}]
    BY <1>9 DEF Write, torn, part, whole
  <2> QED
    BY <2>1, <1>6, <1>7, <1>8 DEF Writes
<1>10. ASSUME ShortWrite(c) PROVE Writes(NewEntry(c))
  <2>1. PICK image \in {torn, part} :
          events' = [now |-> image, after |-> events.after \cup {torn} \cup {image}]
    BY <1>10 DEF ShortWrite, torn, part
  <2> QED
    <3>1. image \in Image /\ {torn} \in SUBSET Image
      BY <1>6
    <3>2. \A other \in {torn} \cup {image} :
            /\ other.tail # "corrupt"
            /\ other.records \in {events.now.records, Append(events.now.records, NewEntry(c))}
      BY <1>7
    <3>3. \A other \in {torn} : Len(other.records) <= Len(image.records)
      <4>1. Len(torn.records) <= Len(torn.records)
        BY <1>3, <1>7
      <4> QED
        BY <4>1, <1>8
    <3> QED
      BY <2>1, <3>1, <3>2, <3>3 DEF Writes
<1> QED
  BY <1>1, <1>5, <1>9, <1>10

LEMMA EventsStep ==
  ASSUME TypeOK, FilesSound, CallsSound, [Next]_vars
  PROVE  /\ \/ Same \/ Repairs \/ Syncs \/ Reboots
            \/ \E entry \in Entry : Fresh(entry) /\ Writes(entry)
         /\ reboots' = 0 => reboots = 0
<1>1. ASSUME NEW c \in Callers, RepairTail(c) PROVE Repairs
  <2>1. events.now \in Image
    BY DEF TypeOK
  <2> QED
    BY <1>1, <2>1, ImageTypes, ImagesExtend, NewEntryType DEF RepairTail, Repairs, Repaired, Image
<1>2. ASSUME NEW c \in Callers, Write(c) \/ ShortWrite(c)
      PROVE  \E entry \in Entry : Fresh(entry) /\ Writes(entry)
  BY <1>2, ReadyWrites DEF Write, ShortWrite
<1>3. ASSUME NEW c \in Callers, Sync(c) PROVE Syncs
  BY <1>3 DEF Sync, Syncs, TypeOK
<1>4. ASSUME Reboot PROVE Reboots
  BY <1>4 DEF Reboot, Reboots
<1>5. reboots' = reboots \/ Reboot
  BY DEF Next, vars, Call, Acquire, Replay, AnswerExisting, RepairTail, Write, ShortWrite, Sync,
         ReplaceSnapshot, AnswerNew, GiveUp
<1>6. Reboot => reboots' # 0
  BY DEF Reboot, TypeOK
<1>7. \/ Same \/ Repairs \/ Syncs \/ Reboots
      \/ \E entry \in Entry : Fresh(entry) /\ Writes(entry)
  BY <1>1, <1>2, <1>3, <1>4
     DEF Next, vars, Same, Call, Acquire, Replay, AnswerExisting, ReplaceSnapshot, AnswerNew, GiveUp
<1> QED
  BY <1>5, <1>6, <1>7

LEMMA FilesStep ==
  ASSUME TypeOK, FilesSound, CallsSound, [Next]_vars
  PROVE  FilesSound'
<1>0. /\ events.now \in Image /\ events.now.records \in Seq(Entry)
      /\ \A image \in events.after : image \in Image /\ image.records \in Seq(Entry)
  BY DEF TypeOK, Image
<1>1. DOMAIN events.now.records = 1..Len(events.now.records) /\ Len(events.now.records) \in Nat
  BY <1>0, LenProperties
<1>2. CASE Same
  BY <1>2 DEF Same, FilesSound, OneEntryPerKey
<1>3. CASE Repairs
  BY <1>3, <1>0, BeginsFacts DEF Repairs, FilesSound, OneEntryPerKey
<1>4. CASE Syncs
  <2>1. events.now.tail # "corrupt"
    BY DEF FilesSound
  <2> QED
    BY <1>4, <1>0, <2>1, BeginsFacts DEF Syncs, FilesSound, OneEntryPerKey
<1>5. CASE Reboots
  <2>1. PICK image \in events.after : events' = [now |-> image, after |-> {image}]
    BY <1>5 DEF Reboots
  <2>2. /\ image.tail # "corrupt" /\ Begins(image.records, events.now.records)
        /\ image.records \in Seq(Entry) /\ DOMAIN image.records = 1..Len(image.records)
        /\ Len(image.records) \in Nat
    BY <1>0, LenProperties DEF FilesSound
  <2>3. \A n \in 1..Len(image.records) :
          n \in 1..Len(events.now.records) /\ image.records[n] = events.now.records[n]
    BY <2>2, <1>1 DEF Begins
  <2> QED
    <3>1. events'.now = image /\ events'.after = {image}
      BY <2>1
    <3>2. Begins(image.records, image.records)
      BY <2>2, BeginsFacts
    <3>3. \A n \in 1..Len(image.records) : image.records[n].sequence = n
      BY <2>3 DEF FilesSound
    <3>4. \A m, n \in DOMAIN image.records :
            image.records[m].key = image.records[n].key => m = n
      <4>1. \A m, n \in 1..Len(events.now.records) :
              events.now.records[m].key = events.now.records[n].key => m = n
        BY <1>1 DEF FilesSound, OneEntryPerKey
      <4>2. \A n \in DOMAIN image.records :
              n \in 1..Len(events.now.records) /\ image.records[n] = events.now.records[n]
        BY <2>2, <2>3
      <4> QED
        BY <4>1, <4>2
    <3> QED
      BY <2>2, <3>1, <3>2, <3>3, <3>4 DEF FilesSound, OneEntryPerKey
<1>6. ASSUME NEW entry \in Entry, Fresh(entry), Writes(entry)
      PROVE  FilesSound'
  <2>1. PICK image \in Image, more \in SUBSET Image :
          /\ \A other \in more \cup {image} :
               /\ other.tail # "corrupt"
               /\ other.records \in {events.now.records, Append(events.now.records, entry)}
          /\ \A other \in more : Len(other.records) <= Len(image.records)
          /\ events' = [now |-> image, after |-> events.after \cup more \cup {image}]
    BY <1>6 DEF Writes
  <2> DEFINE old == events.now.records
             new == Append(old, entry)
  <2>2. /\ new \in Seq(Entry) /\ Len(new) = Len(old) + 1 /\ DOMAIN new = 1..Len(old) + 1
        /\ new[Len(old) + 1] = entry /\ \A n \in 1..Len(old) : new[n] = old[n]
    BY <1>0, <1>1, AppendProperties, LenProperties
  <2>3. Begins(old, new) /\ Begins(old, old) /\ Begins(new, new)
    BY <1>0, <2>2, BeginsFacts
  <2> HIDE DEF old, new
  <2>4. image.records \in {old, new} /\ \A other \in more \cup {image} : other.records \in {old, new}
    BY <2>1 DEF old, new
  <2>5. \A other \in more \cup {image} : Begins(other.records, image.records)
    BY <2>1, <2>2, <2>3, <2>4, <1>1 DEF old
  <2>6. Begins(old, image.records) /\ image.records \in Seq(Entry)
    BY <2>1, <2>3, <2>4 DEF Image
  <2>7. \A other \in events.after : Begins(other.records, image.records)
    BY <2>6, <1>0, BeginsFacts DEF FilesSound, old
  <2>8. \A n \in 1..Len(image.records) : image.records[n].sequence = n
    <3>1. \A n \in 1..Len(old) : old[n].sequence = n
      BY DEF FilesSound, old
    <3>2. entry.sequence = Len(old) + 1 /\ Len(old) \in Nat
      BY <1>1, <1>6 DEF Fresh, old
    <3>3. \A n \in 1..Len(new) : new[n].sequence = n
      <4>1. ASSUME NEW n \in 1..Len(new) PROVE n \in 1..Len(old) \/ n = Len(old) + 1
        BY <2>2, <3>2
      <4> QED
        BY <2>2, <3>1, <3>2, <4>1
    <3> QED
      BY <2>4, <3>1, <3>3
  <2>9. ASSUME NEW m \in DOMAIN image.records, NEW n \in DOMAIN image.records,
               image.records[m].key = image.records[n].key
        PROVE  m = n
    <3>1. /\ \A i, j \in 1..Len(old) : old[i].key = old[j].key => i = j
          /\ \A i \in 1..Len(old) : old[i].key # entry.key
          /\ DOMAIN old = 1..Len(old) /\ Len(old) \in Nat
      BY <1>1, <1>6 DEF FilesSound, OneEntryPerKey, Fresh, old
    <3>2. CASE image.records = old
      BY <2>9, <3>1, <3>2
    <3>3. CASE image.records = new
      <4>1. \A i \in DOMAIN new : i \in 1..Len(old) \/ i = Len(old) + 1
        BY <2>2, <3>1
      <4> QED
        BY <2>2, <2>9, <3>1, <3>3, <4>1
    <3> QED
      BY <2>4, <3>2, <3>3
  <2> QED
    BY <2>1, <2>5, <2>7, <2>8, <2>9 DEF FilesSound, OneEntryPerKey
<1> QED
  BY <1>2, <1>3, <1>4, <1>5, <1>6, EventsStep

-----------------------------------------------------------------------------
(* The calls.  While one is inside, no other is; one that is outside knows
   nothing of the files. *)
LEMMA CallsStep ==
  ASSUME TypeOK, FilesSound, CallsSound, [Next]_vars
  PROVE  CallsSound'
<1> USE NoneAssumption
<1>1. ASSUME NEW c \in Callers, call'[c].at \in {"idle", "waiting"}
      PROVE  CallSound(c)'
  BY <1>1 DEF CallSound
<1>2. ASSUME NEW c \in Callers, UNCHANGED <<events, snapshot>>, call'[c] = call[c],
             lock = c => lock' = c
      PROVE  CallSound(c)'
  BY <1>2 DEF CallsSound, CallSound, Prior, NewEntry
<1>3. \A c \in Callers : call[c] \in CallRecord
  BY DEF TypeOK
<1>4. ASSUME NEW d \in Callers, lock = d, NEW c \in Callers, c # d
      PROVE  call[c].at \in {"idle", "waiting"}
  BY <1>4 DEF CallsSound, CallSound
<1>5. ASSUME NEW d \in Callers, Leave(d), NEW c \in Callers, c # d
      PROVE  call'[c] = call[c] /\ (lock = c => lock' = c)
  BY <1>5 DEF Leave, TypeOK
<1>6. ASSUME NEW d \in Callers, Leave(d)
      PROVE  CallSound(d)'
  BY <1>6, <1>1 DEF Leave, TypeOK, Idle
<1>7. ASSUME NEW d \in Callers, NEW key \in Keys, NEW input \in Inputs, Call(d, key, input)
      PROVE  CallsSound'
  <2>1. call'[d].at = "waiting" /\ \A c \in Callers : c # d => call'[c] = call[c]
    BY <1>7 DEF Call, TypeOK
  <2> QED
    BY <1>7, <2>1, <1>1, <1>2 DEF Call, CallsSound
<1>8. ASSUME NEW d \in Callers, Acquire(d)
      PROVE  CallsSound'
  <2>1. \A c \in Callers : call[c].at \in {"idle", "waiting"}
    BY <1>8 DEF Acquire, CallsSound, CallSound
  <2>2. \A c \in Callers : c # d => call'[c] = call[c]
    BY <1>8 DEF Acquire, TypeOK
  <2>3. call'[d].at = "locked" /\ lock' = d
    BY <1>8, <1>3 DEF Acquire, TypeOK, CallRecord
  <2>4. CallSound(d)'
    BY <2>3 DEF CallSound
  <2> QED
    BY <2>1, <2>2, <2>4, <1>1 DEF CallsSound
<1>9. ASSUME NEW d \in Callers, Replay(d)
      PROVE  CallsSound'
  <2>1. lock = d
    BY <1>9 DEF Replay, CallsSound, CallSound
  <2>2. \A c \in Callers : c # d => call'[c] = call[c]
    BY <1>9 DEF Replay, TypeOK
  <2>3. call'[d].at = "replayed" /\ call'[d].state = events.now.records
    BY <1>9, <1>3 DEF Replay, TypeOK, CallRecord
  <2>4. CallSound(d)'
    BY <1>9, <2>1, <2>3 DEF CallSound, Replay
  <2> QED
    BY <2>1, <2>2, <2>4, <1>1, <1>4 DEF CallsSound
<1>10. ASSUME NEW d \in Callers, RepairTail(d)
       PROVE  CallsSound'
  <2>1. lock = d /\ call[d].state = events.now.records
    BY <1>10 DEF RepairTail, CallsSound, CallSound
  <2>2. \A c \in Callers : c # d => call'[c] = call[c]
    BY <1>10 DEF RepairTail, TypeOK
  <2>3. /\ call'[d].at \in {"repaired", "ready"} /\ call'[d].state = call[d].state
        /\ call'[d].key = call[d].key
        /\ call'[d].next = Len(events.now.records) + 1
    BY <1>10, <1>3 DEF RepairTail, TypeOK, CallRecord, NextSequence
  <2>4. events'.now.records = events.now.records /\ events'.now.tail = "clean"
    BY <1>10 DEF RepairTail, TypeOK, Image, Repaired
  <2>5. CallSound(d)'
    BY <1>10, <2>1, <2>3, <2>4 DEF CallSound, RepairTail, Prior
  <2> QED
    BY <2>1, <2>2, <2>5, <1>1, <1>4 DEF CallsSound
<1>11. ASSUME NEW d \in Callers, Write(d)
       PROVE  CallsSound'
  <2>1. /\ lock = d /\ call[d].state = events.now.records /\ events.now.tail = "clean"
        /\ call[d].next = Len(events.now.records) + 1
    BY <1>11 DEF Write, CallsSound, CallSound
  <2>2. \A c \in Callers : c # d => call'[c] = call[c]
    BY <1>11 DEF Write, TypeOK
  <2>3. call'[d] = [call[d] EXCEPT !.at = "written"]
    BY <1>11 DEF Write, TypeOK
  <2>4. /\ events'.now.tail = "clean"
        /\ events'.now.records = Append(events.now.records, NewEntry(d))
    BY <1>11, <2>1 DEF Write, Extended
  <2>5. call'[d].at = "written" /\ call'[d].state = call[d].state /\ call'[d].next = call[d].next
    BY <2>3, <1>3 DEF CallRecord
  <2>6. NewEntry(d)' = NewEntry(d)
    BY <2>3, <1>3 DEF CallRecord, NewEntry
  <2>7. CallSound(d)'
    BY <1>11, <2>1, <2>4, <2>5, <2>6 DEF CallSound, Write
  <2> QED
    BY <2>1, <2>2, <2>7, <1>1, <1>4 DEF CallsSound
<1>12. ASSUME NEW d \in Callers, Sync(d)
       PROVE  CallsSound'
  <2>1. lock = d
    BY <1>12 DEF Sync, CallsSound, CallSound
  <2>2. \A c \in Callers : c # d => call'[c] = call[c]
    BY <1>12 DEF Sync, TypeOK
  <2>3. /\ call'[d] = [call[d] EXCEPT !.at = IF @ = "repaired" THEN "ready" ELSE "synced"]
        /\ events'.now = events.now /\ events'.after = {events.now}
    BY <1>12 DEF Sync, TypeOK
  <2>4. /\ call[d].at = "repaired" => call'[d].at = "ready"
        /\ call[d].at = "written" => call'[d].at = "synced"
        /\ call'[d].state = call[d].state /\ call'[d].next = call[d].next
        /\ NewEntry(d)' = NewEntry(d) /\ Prior(d)' = Prior(d)
    BY <2>3, <1>3 DEF CallRecord, NewEntry, Prior
  <2>5. call[d].at \in {"repaired", "written"} /\ CallSound(d)
    BY <1>12 DEF Sync, CallsSound
  <2>6. CallSound(d)'
    BY <1>12, <2>1, <2>3, <2>4, <2>5 DEF CallSound, Sync
  <2> QED
    BY <2>1, <2>2, <2>6, <1>1, <1>4 DEF CallsSound
<1>13. ASSUME NEW d \in Callers, ReplaceSnapshot(d)
       PROVE  CallsSound'
  <2>1. lock = d
    BY <1>13 DEF ReplaceSnapshot, CallsSound, CallSound
  <2>2. \A c \in Callers : c # d => call'[c] = call[c]
    BY <1>13 DEF ReplaceSnapshot, TypeOK
  <2>3. /\ call'[d] = [call[d] EXCEPT !.at = "renamed"] /\ UNCHANGED <<events, lock>>
        /\ snapshot'.now = Append(call[d].state, NewEntry(d))
    BY <1>13 DEF ReplaceSnapshot, TypeOK
  <2>4. /\ call'[d].at = "renamed" /\ call'[d].state = call[d].state
        /\ call'[d].next = call[d].next /\ NewEntry(d)' = NewEntry(d)
    BY <2>3, <1>3 DEF CallRecord, NewEntry
  <2>5. call[d].at = "synced" /\ CallSound(d)
    BY <1>13 DEF ReplaceSnapshot, CallsSound
  <2>6. CallSound(d)'
    BY <2>1, <2>3, <2>4, <2>5 DEF CallSound
  <2> QED
    BY <2>1, <2>2, <2>6, <1>1, <1>4 DEF CallsSound
<1>14. ASSUME NEW d \in Callers, AnswerExisting(d) \/ ShortWrite(d) \/ AnswerNew(d)
       PROVE  CallsSound'
  <2>1. lock = d /\ Leave(d)
    BY <1>14 DEF AnswerExisting, ShortWrite, AnswerNew, CallsSound, CallSound
  <2> QED
    BY <2>1, <1>1, <1>4, <1>5, <1>6 DEF CallsSound
<1>15. ASSUME NEW d \in Callers, GiveUp(d)
       PROVE  CallsSound'
  BY <1>15, <1>2, <1>5, <1>6 DEF GiveUp, CallsSound
<1>16. CASE Reboot
  BY <1>16, <1>1 DEF Reboot, CallsSound, Idle
<1>17. CASE UNCHANGED vars
  BY <1>17, <1>2 DEF vars, CallsSound
<1> QED
  BY <1>7, <1>8, <1>9, <1>10, <1>11, <1>12, <1>13, <1>14, <1>15, <1>16, <1>17 DEF Next

-----------------------------------------------------------------------------
(* The receipts.  An entry that is in a file is in all that follow it. *)
LEMMA HasGrows ==
  ASSUME NEW records \in Seq(Entry), NEW entry \in Entry, NEW a \in Receipt, Has(records, a)
  PROVE  Has(Append(records, entry), a)
BY DEF Has, Receipt

LEMMA ReceiptsKept ==
  ASSUME TypeOK, FilesSound, CallsSound, AnswersSound, [Next]_vars, NEW a \in answers
  PROVE  /\ ~a.existing => \A image \in events'.after : Has(image.records, a)
         /\ reboots' = 0 => Has(events'.now.records, a)
<1>0. events.now.records \in Seq(Entry) /\ a \in Receipt /\ events.now \in events.after
  BY DEF TypeOK, Image, FilesSound
<1>1. /\ ~a.existing => \A image \in events.after : Has(image.records, a)
      /\ reboots = 0 => Has(events.now.records, a)
      /\ ~a.existing => Has(events.now.records, a)
  BY <1>0 DEF AnswersSound
<1>2. CASE Same
  BY <1>1, <1>2, EventsStep DEF Same
<1>3. CASE Repairs
  BY <1>1, <1>3, EventsStep DEF Repairs
<1>4. CASE Syncs
  BY <1>1, <1>4, EventsStep DEF Syncs
<1>5. CASE Reboots
  BY <1>1, <1>5 DEF Reboots, TypeOK
<1>6. ASSUME NEW entry \in Entry, Fresh(entry), Writes(entry)
      PROVE  /\ ~a.existing => \A image \in events'.after : Has(image.records, a)
             /\ reboots' = 0 => Has(events'.now.records, a)
  <2>1. PICK image \in Image, more \in SUBSET Image :
          /\ \A other \in more \cup {image} :
               other.records \in {events.now.records, Append(events.now.records, entry)}
          /\ events' = [now |-> image, after |-> events.after \cup more \cup {image}]
    BY <1>6 DEF Writes
  <2>2. Has(events.now.records, a) =>
          \A other \in more \cup {image} : Has(other.records, a)
    BY <2>1, <1>0, HasGrows
  <2> QED
    BY <2>1, <2>2, <1>1, EventsStep
<1> QED
  BY <1>2, <1>3, <1>4, <1>5, <1>6, EventsStep

LEMMA AnswersStep ==
  ASSUME TypeOK, FilesSound, CallsSound, AnswersSound, [Next]_vars
  PROVE  AnswersSound'
<1>0. \A c \in Callers : call[c] \in CallRecord
  BY DEF TypeOK
<1>1. ASSUME NEW c \in Callers, AnswerExisting(c)
      PROVE  AnswersSound'
  <2>1. PICK n \in Prior(c) :
          /\ call[c].state[n].input = call[c].input
          /\ answers' = answers \cup {[key |-> call[c].key, input |-> call[c].input,
                                       sequence |-> call[c].state[n].sequence, existing |-> TRUE]}
    BY <1>1 DEF AnswerExisting
  <2>2. call[c].state = events.now.records /\ events.now.records \in Seq(Entry)
    BY <1>1 DEF AnswerExisting, CallsSound, CallSound, TypeOK, Image
  <2>3. /\ n \in 1..Len(events.now.records) /\ events.now.records[n].key = call[c].key
        /\ events.now.records[n] \in Entry
    BY <2>2, LenProperties, ElementOfSeq DEF Prior
  <2>4. events.now.records[n].sequence = n
    BY <2>3 DEF FilesSound
  <2> DEFINE a == [key |-> call[c].key, input |-> call[c].input,
                   sequence |-> call[c].state[n].sequence, existing |-> TRUE]
  <2>5. Has(events.now.records, a) /\ a.existing
    BY <2>1, <2>2, <2>3, <2>4 DEF Has, EntryOf, Entry
  <2>6. UNCHANGED events /\ answers' = answers \cup {a}
    BY <1>1, <2>1 DEF AnswerExisting
  <2> HIDE DEF a
  <2>7. ASSUME NEW b \in answers'
        PROVE  /\ ~b.existing => \A image \in events'.after : Has(image.records, b)
               /\ reboots' = 0 => Has(events'.now.records, b)
    <3>1. CASE b \in answers
      BY <3>1, ReceiptsKept
    <3>2. CASE b = a
      BY <3>2, <2>5, <2>6
    <3> QED
      BY <2>6, <2>7, <3>1, <3>2
  <2> QED
    BY <2>7 DEF AnswersSound
<1>2. ASSUME NEW c \in Callers, AnswerNew(c)
      PROVE  AnswersSound'
  <2> DEFINE a == [key |-> call[c].key, input |-> call[c].input,
                   sequence |-> call[c].next, existing |-> FALSE]
  <2>1. answers' = answers \cup {a} /\ UNCHANGED events
    BY <1>2 DEF AnswerNew
  <2>2. /\ events.after = {events.now}
        /\ call[c].next = Len(call[c].state) + 1
        /\ events.now.records = Append(call[c].state, NewEntry(c))
        /\ call[c].state \in Seq(Entry)
    BY <1>2, <1>0 DEF AnswerNew, CallsSound, CallSound, CallRecord
  <2>3. NewEntry(c) \in Entry
    BY <1>2, NumbersArePositive DEF AnswerNew
  <2>4. Has(events.now.records, a)
    BY <2>2, <2>3, AppendProperties DEF Has, EntryOf, NewEntry
  <2> QED
    BY <2>1, <2>2, <2>4, ReceiptsKept DEF AnswersSound
<1>3. CASE UNCHANGED answers
  BY <1>3, ReceiptsKept DEF AnswersSound
<1> QED
  BY <1>1, <1>2, <1>3
     DEF Next, vars, Call, Acquire, Replay, RepairTail, Write, ShortWrite, Sync, ReplaceSnapshot,
         GiveUp, Reboot

-----------------------------------------------------------------------------
(* The snapshot. *)
LEMMA SnapshotStep ==
  ASSUME TypeOK, FilesSound, CallsSound, SnapshotSound, [Next]_vars
  PROVE  SnapshotSound'
<1>0. /\ events.now \in Image /\ events.now.records \in Seq(Entry)
      /\ \A image \in events.after : image \in Image /\ image.records \in Seq(Entry)
      /\ \A state \in snapshot.after : state \in Seq(Entry)
      /\ events.now \in events.after
  BY DEF TypeOK, Image, FilesSound
<1>1. \A state \in snapshot.after, image \in events'.after : Begins(state, image.records)
  <2>1. CASE Same
    BY <2>1 DEF Same, SnapshotSound
  <2>2. CASE Repairs
    BY <2>2, <1>0 DEF Repairs, SnapshotSound
  <2>3. CASE Syncs
    BY <2>3, <1>0 DEF Syncs, SnapshotSound
  <2>4. CASE Reboots
    BY <2>4, <1>0 DEF Reboots, SnapshotSound
  <2>5. ASSUME NEW entry \in Entry, Writes(entry)
        PROVE  \A state \in snapshot.after, image \in events'.after : Begins(state, image.records)
    <3> DEFINE longer == Append(events.now.records, entry)
    <3>1. longer \in Seq(Entry) /\ Begins(events.now.records, longer)
      BY <1>0, BeginsFacts
    <3>2. \A state \in snapshot.after :
            Begins(state, events.now.records) /\ Begins(state, longer)
      <4> HIDE DEF longer
      <4>1. \A state \in snapshot.after : Begins(state, events.now.records)
        BY <1>0 DEF SnapshotSound
      <4> QED
        BY <4>1, <3>1, <1>0, BeginsFacts
    <3>3. PICK image \in Image, more \in SUBSET Image :
            /\ \A other \in more \cup {image} :
                 other.records \in {events.now.records, Append(events.now.records, entry)}
            /\ events' = [now |-> image, after |-> events.after \cup more \cup {image}]
      BY <2>5 DEF Writes
    <3> QED
      BY <3>2, <3>3 DEF SnapshotSound
  <2> QED
    BY <2>1, <2>2, <2>3, <2>4, <2>5, EventsStep
<1>2. ASSUME NEW c \in Callers, ReplaceSnapshot(c)
      PROVE  SnapshotSound'
  <2>1. /\ events.after = {events.now}
        /\ events.now.records = Append(call[c].state, NewEntry(c))
    BY <1>2 DEF ReplaceSnapshot, CallsSound, CallSound
  <2>2. /\ snapshot' = [now |-> events.now.records, after |-> snapshot.after \cup {events.now.records}]
        /\ UNCHANGED events
    BY <1>2, <2>1 DEF ReplaceSnapshot
  <2>3. Begins(events.now.records, events.now.records)
    BY <1>0, BeginsFacts
  <2> QED
    BY <2>1, <2>2, <2>3, <1>1 DEF SnapshotSound
<1>3. ASSUME NEW c \in Callers, AnswerNew(c)
      PROVE  SnapshotSound'
  BY <1>1, <1>3 DEF AnswerNew, SnapshotSound, TypeOK
<1>4. CASE Reboot
  BY <1>1, <1>4 DEF Reboot, SnapshotSound
<1>5. CASE UNCHANGED snapshot
  BY <1>1, <1>5 DEF SnapshotSound
<1> QED
  BY <1>2, <1>3, <1>4, <1>5
     DEF Next, vars, Call, Acquire, Replay, AnswerExisting, RepairTail, Write, ShortWrite, Sync, GiveUp

-----------------------------------------------------------------------------
LEMMA InvariantInit == Init => IInv
<1> SUFFICES ASSUME Init PROVE IInv
  OBVIOUS
<1> USE NoneAssumption, MaxRebootsAssumption
<1>1. Empty \in Image /\ Empty.tail = "clean" /\ Empty.records = <<>> /\ Len(Empty.records) = 0
  BY DEF Empty, Image, Tails
<1>2. Idle \in CallRecord /\ Idle.at = "idle"
  BY DEF Idle, CallRecord, Steps
<1>3. TypeOK
  BY <1>1, <1>2 DEF Init, TypeOK
<1>4. Begins(<<>>, <<>>)
  BY DEF Begins
<1>5. FilesSound
  BY <1>1, <1>4 DEF Init, FilesSound, OneEntryPerKey
<1>6. CallsSound
  BY <1>2 DEF Init, CallsSound, CallSound
<1>7. AnswersSound /\ SnapshotSound
  BY <1>1, <1>4 DEF Init, AnswersSound, SnapshotSound
<1> QED
  BY <1>3, <1>5, <1>6, <1>7 DEF IInv

LEMMA InvariantStep == IInv /\ [Next]_vars => IInv'
BY TypeStep, FilesStep, CallsStep, AnswersStep, SnapshotStep DEF IInv

LEMMA Invariant == Spec => []IInv
BY InvariantInit, InvariantStep, PTL DEF Spec

(* Every variable keeps its type (TypeOK), for any number of callers, keys,
   inputs and machine crashes. *)
THEOREM TypeCorrect == Spec => []TypeOK
<1>1. IInv => TypeOK
  BY DEF IInv
<1> QED
  BY <1>1, Invariant, PTL

(* No sequence of failed writes, kills, crashes and repairs leaves a journal
   that a later Execute or View cannot read (walk, repairTail). *)
THEOREM JournalStaysReadable == Spec => []AlwaysReadable
<1>1. IInv => AlwaysReadable
  <2> SUFFICES ASSUME IInv, NEW image \in events.after PROVE Readable(image)
    BY DEF IInv, FilesSound, AlwaysReadable
  <2>1. image.records \in Seq(Entry) /\ events.now.records \in Seq(Entry)
    BY DEF IInv, TypeOK, Image
  <2>2. /\ image.tail # "corrupt" /\ Begins(image.records, events.now.records)
        /\ \A n \in 1..Len(events.now.records) : events.now.records[n].sequence = n
    BY DEF IInv, FilesSound
  <2>3. DOMAIN image.records = 1..Len(image.records)
    BY <2>1, LenProperties
  <2> QED
    BY <2>1, <2>2, <2>3 DEF Readable, Begins
<1> QED
  BY <1>1, Invariant, PTL

(* A key executes at most once, whoever retries it (Execute's receipt lookup). *)
THEOREM KeysExecuteOnce == Spec => []OneEntryPerKey
<1>1. IInv => OneEntryPerKey
  BY DEF IInv, FilesSound
<1> QED
  BY <1>1, Invariant, PTL

(* What a caller was told it executed is in every file a machine crash can
   leave (Execute returns after Append's fsync). *)
THEOREM ExecutionsAreDurable == Spec => []ExecutedIsDurable
<1>1. IInv => ExecutedIsDurable
  <2> SUFFICES ASSUME IInv, NEW a \in answers, NEW image \in events.after, ~a.existing
               PROVE  /\ a.sequence \in DOMAIN image.records
                      /\ image.records[a.sequence] =
                           [sequence |-> a.sequence, key |-> a.key, input |-> a.input]
    BY DEF ExecutedIsDurable
  <2>1. DOMAIN image.records = 1..Len(image.records)
    BY LenProperties DEF IInv, TypeOK, Image
  <2> QED
    BY <2>1 DEF IInv, AnswersSound, Has, EntryOf
<1> QED
  BY <1>1, Invariant, PTL

(* No crash leaves a snapshot of entries the journal lacks (Execute's snapshot
   after its append). *)
THEOREM SnapshotsNeverLead == Spec => []SnapshotNeverLeads
<1>1. IInv => SnapshotNeverLeads
  <2> SUFFICES ASSUME IInv, NEW state \in snapshot.after, NEW image \in events.after
               PROVE  /\ Len(state) <= Len(image.records)
                      /\ \A n \in DOMAIN state : state[n] = image.records[n]
    BY DEF SnapshotNeverLeads
  <2>1. DOMAIN state = 1..Len(state)
    BY LenProperties DEF IInv, TypeOK
  <2> QED
    BY <2>1 DEF IInv, SnapshotSound, Begins
<1> QED
  BY <1>1, Invariant, PTL

(* While only processes die, all receipts of a key name one entry and one input
   (Execute's receipt lookup under the lock). *)
THEOREM ReceiptsAlwaysAgree == Spec => []ReceiptsAgree
<1>1. IInv => ReceiptsAgree
  <2> SUFFICES ASSUME IInv, reboots = 0, NEW a \in answers, NEW b \in answers, a.key = b.key
               PROVE  a.sequence = b.sequence /\ a.input = b.input
    BY DEF ReceiptsAgree
  <2>1. Has(events.now.records, a) /\ Has(events.now.records, b)
    BY DEF IInv, AnswersSound
  <2>2. DOMAIN events.now.records = 1..Len(events.now.records)
    BY LenProperties DEF IInv, TypeOK, Image
  <2>3. /\ events.now.records[a.sequence].key = a.key /\ events.now.records[a.sequence].input = a.input
        /\ events.now.records[b.sequence].key = b.key /\ events.now.records[b.sequence].input = b.input
    BY <2>1 DEF Has, EntryOf
  <2>4. a.sequence = b.sequence
    BY <2>1, <2>2, <2>3 DEF IInv, FilesSound, OneEntryPerKey, Has
  <2> QED
    BY <2>3, <2>4
<1> QED
  BY <1>1, Invariant, PTL

-----------------------------------------------------------------------------
(* The refinement. *)
LEMMA BeginningIsSubSeq ==
  ASSUME NEW s \in Seq(Entry), NEW t \in Seq(Entry), Begins(s, t)
  PROVE  s = SubSeq(t, 1, Len(s))
<1>1. Len(s) \in Nat /\ Len(t) \in Nat /\ Len(s) <= Len(t)
  BY DEF Begins
<1>2. /\ SubSeq(t, 1, Len(s)) \in Seq(Entry)
      /\ Len(SubSeq(t, 1, Len(s))) = Len(s)
      /\ \A i \in 1..Len(s) : SubSeq(t, 1, Len(s))[i] = t[i]
  BY <1>1
<1> QED
  BY <1>2, SeqEqual DEF Begins

LEMMA StepRefines ==
  ASSUME IInv, [Next]_vars
  PROVE  [Abstract!Next]_(Abstract!vars)
<1> DEFINE old == events.now.records
<1>0. /\ TypeOK /\ FilesSound /\ CallsSound /\ AnswersSound
      /\ old \in Seq(Entry) /\ DOMAIN old = 1..Len(old) /\ Len(old) \in Nat
  BY LenProperties DEF IInv, TypeOK, Image
<1>1. ASSUME NEW c \in Callers, Write(c) \/ ShortWrite(c)
      PROVE  [Abstract!Next]_(Abstract!vars)
  <2>1. /\ NewEntry(c) \in Entry /\ Fresh(NewEntry(c)) /\ Writes(NewEntry(c))
        /\ UNCHANGED answers
    BY <1>0, <1>1, ReadyWrites DEF Write, ShortWrite
  <2>2. /\ NewEntry(c).key \in Keys /\ NewEntry(c).input \in Inputs
        /\ NewEntry(c) = [sequence |-> Len(old) + 1, key |-> NewEntry(c).key, input |-> NewEntry(c).input]
    BY <2>1 DEF Entry, Fresh, NewEntry
  <2>3. events'.now.records \in {old, Append(old, NewEntry(c))}
    BY <2>1 DEF Writes
  <2>4. CASE events'.now.records = old
    BY <2>1, <2>4 DEF Abstract!vars
  <2>5. CASE events'.now.records = Append(old, NewEntry(c))
    <3>1. \A n \in DOMAIN old : old[n].key # NewEntry(c).key
      BY <2>1, <1>0 DEF Fresh
    <3>2. Abstract!Commit(NewEntry(c).key, NewEntry(c).input)
      BY <2>1, <2>2, <2>5, <3>1 DEF Abstract!Commit
    <3> QED
      BY <2>2, <3>2 DEF Abstract!Next
  <2> QED
    BY <2>3, <2>4, <2>5
<1>2. ASSUME NEW c \in Callers, AnswerExisting(c)
      PROVE  [Abstract!Next]_(Abstract!vars)
  <2>1. PICK n \in Prior(c) :
          /\ call[c].state[n].input = call[c].input
          /\ answers' = answers \cup {[key |-> call[c].key, input |-> call[c].input,
                                       sequence |-> call[c].state[n].sequence, existing |-> TRUE]}
    BY <1>2 DEF AnswerExisting
  <2>2. call[c].state = old
    BY <1>0, <1>2 DEF AnswerExisting, CallsSound, CallSound
  <2>3. n \in DOMAIN old /\ old[n].key = call[c].key /\ old[n].input = call[c].input
    BY <2>1, <2>2 DEF Prior
  <2>4. old[n].sequence = n
    BY <1>0, <2>3 DEF FilesSound
  <2>5. Abstract!Answer(n, TRUE)
    BY <1>2, <2>1, <2>2, <2>3, <2>4 DEF AnswerExisting, Abstract!Answer
  <2> QED
    BY <2>3, <2>5 DEF Abstract!Next
<1>3. ASSUME NEW c \in Callers, AnswerNew(c)
      PROVE  [Abstract!Next]_(Abstract!vars)
  <2>1. /\ call[c].next = Len(call[c].state) + 1
        /\ old = Append(call[c].state, NewEntry(c))
        /\ call[c].state \in Seq(Entry) /\ NewEntry(c) \in Entry
    BY <1>0, <1>3, NumbersArePositive DEF AnswerNew, CallsSound, CallSound, TypeOK, CallRecord
  <2>2. call[c].next \in DOMAIN old /\ old[call[c].next] = NewEntry(c)
    BY <2>1, <1>0, AppendProperties
  <2>3. Abstract!Answer(call[c].next, FALSE)
    BY <1>3, <2>2 DEF AnswerNew, Abstract!Answer, NewEntry
  <2> QED
    BY <2>2, <2>3 DEF Abstract!Next
<1>4. CASE Reboot
  <2>1. PICK image \in events.after : events' = [now |-> image, after |-> {image}]
    BY <1>4 DEF Reboot
  <2>2. /\ image.records \in Seq(Entry) /\ Begins(image.records, old)
        /\ Len(image.records) \in 0..Len(old)
    BY <1>0 DEF TypeOK, Image, FilesSound, Begins
  <2>3. image.records = SubSeq(old, 1, Len(image.records))
    BY <1>0, <2>2, BeginningIsSubSeq
  <2>4. \A a \in answers : a.existing \/ a.sequence <= Len(image.records)
    BY <1>0, <2>2 DEF AnswersSound, Has
  <2>5. Abstract!Lose(Len(image.records))
    BY <1>4, <2>1, <2>3, <2>4 DEF Reboot, Abstract!Lose
  <2> QED
    BY <2>2, <2>5 DEF Abstract!Next
<1>5. ASSUME NEW c \in Callers, RepairTail(c)
      PROVE  [Abstract!Next]_(Abstract!vars)
  BY <1>5, <1>0, ImagesExtend DEF RepairTail, Repaired, TypeOK, Image, Abstract!vars
<1>6. ASSUME NEW c \in Callers, Sync(c)
      PROVE  [Abstract!Next]_(Abstract!vars)
  BY <1>6, <1>0 DEF Sync, TypeOK, Abstract!vars
<1>7. CASE UNCHANGED <<events, answers>>
  BY <1>7 DEF Abstract!vars
<1> QED
  BY <1>1, <1>2, <1>3, <1>4, <1>5, <1>6, <1>7
     DEF Next, vars, Call, Acquire, Replay, ReplaceSnapshot, GiveUp

(* Execute implements the command log: each of its steps, failures and crashes
   is one atomic commit, answer or loss of it, or nothing. *)
THEOREM JournalImplementsCommandLog == Spec => ImplementsCommandLog
<1>1. Init => Abstract!Init
  BY DEF Init, Empty, Abstract!Init
<1>2. IInv /\ [Next]_vars => [Abstract!Next]_(Abstract!vars)
  BY StepRefines
<1> QED
  BY <1>1, <1>2, Invariant, PTL DEF Spec, ImplementsCommandLog, Abstract!Spec
=============================================================================
