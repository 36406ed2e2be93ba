------------------------- MODULE LegacyImportProofs -------------------------
(***************************************************************************)
(* Imports and the calls that make them.  SourceImportedOnce is not        *)
(* inductive: that a receipt names an import needs every call past its     *)
(* append to have one, under its own key and for what it had read.  Since  *)
(* a ledger only grows, what a call read is the ledger as it stands as     *)
(* long as the lengths agree.  What a replay makes of a ledger is followed *)
(* mutation by mutation (EveryStep of Recursion): a proposal leaves a      *)
(* graph that v2 accepts, and the counts of completions and reopenings     *)
(* tell what happened to each Node.                                        *)
(***************************************************************************)
EXTENDS LegacyImport, Recursion, FiniteSetTheorems

\* What is read is compared by its parts only, so its type is its shape.
Shaped ==
  /\ source = [l \in Ledger |-> source[l]]
  /\ \A l \in Ledger : source[l].length \in Nat
  /\ calls = [c \in Caller |-> calls[c]]
  /\ \A c \in Caller : calls[c] # None =>
       /\ calls[c] = [at |-> calls[c].at, key |-> calls[c].key,
                      paths |-> calls[c].paths, read |-> calls[c].read]
       /\ calls[c].read = [l \in Ledger |-> calls[c].read[l]]
       /\ \A l \in Ledger : calls[c].read[l].length \in Nat

\* The import that a call which got past its append made.
Made(c, i) == i.key = calls[c].key /\ i.digest = Digest(c)

ImportedHasImport ==
  \A c \in Caller : calls[c] # None /\ calls[c].at = "imported" => \E i \in imports : Made(c, i)

-----------------------------------------------------------------------------
(* Shapes. *)

\* A call that starts has read nothing.
LEMMA CallEffect ==
  ASSUME Shaped, NEW c \in Caller, NEW key \in Key, Call(c, key)
  PROVE  /\ \A d \in Caller : d # c => calls'[d] = calls[d]
         /\ calls'[c].at = "reading" /\ calls'[c].key = key /\ calls'[c].paths \subseteq Ledger
         /\ \A l \in Ledger : calls'[c].read[l] = Absent
         /\ Shaped'
<1> DEFINE new == [at |-> "reading", key |-> key, paths |-> {l \in Ledger : source[l].length > 0},
                   read |-> [l \in Ledger |-> Absent]]
<1>1. calls' = [calls EXCEPT ![c] = new] /\ source' = source
  BY DEF Call
<1>2. calls'[c] = new /\ \A d \in Caller : d # c => calls'[d] = calls[d]
  BY <1>1 DEF Shaped
<1>3. /\ new.at = "reading" /\ new.read = [l \in Ledger |-> Absent]
      /\ new.key = key /\ new.paths \subseteq Ledger
      /\ new = [at |-> new.at, key |-> new.key, paths |-> new.paths, read |-> new.read]
      /\ \A l \in Ledger : new.read[l] = Absent
  OBVIOUS
<1>4. Absent.length \in Nat
  BY DEF Absent
<1>5. calls' = [d \in Caller |-> calls'[d]]
  BY <1>1 DEF Shaped
<1> HIDE DEF new
<1> QED
  BY <1>1, <1>2, <1>3, <1>4, <1>5 DEF Shaped

\* A call as a record, with other paths or other ledgers read.
LEMMA CallRecord ==
  ASSUME NEW r, NEW new,
         r = [at |-> r.at, key |-> r.key, paths |-> r.paths, read |-> r.read]
  PROVE  /\ [r EXCEPT !.paths = new] =
              [at |-> r.at, key |-> r.key, paths |-> new, read |-> r.read]
         /\ [r EXCEPT !.read = new] =
              [at |-> r.at, key |-> r.key, paths |-> r.paths, read |-> new]
<1>1. [r EXCEPT !.paths = new] = [at |-> r.at, key |-> r.key, paths |-> new, read |-> r.read]
  OBVIOUS
<1>2. [r EXCEPT !.read = new] = [at |-> r.at, key |-> r.key, paths |-> r.paths, read |-> new]
  OBVIOUS
<1> QED
  BY <1>1, <1>2

\* A call reads one ledger as it stands.
LEMMA ReadEffect ==
  ASSUME Shaped, NEW c \in Caller, NEW l \in Ledger, Read(c, l)
  PROVE  /\ \A d \in Caller : d # c => calls'[d] = calls[d]
         /\ calls[c] # None /\ calls'[c].at = "reading" /\ calls'[c].key = calls[c].key
         /\ calls'[c].paths \subseteq calls[c].paths
         /\ calls'[c].read[l] = source[l]
         /\ \A k \in Ledger : k # l => calls'[c].read[k] = calls[c].read[k]
         /\ Shaped'
<1>1. PICK r : r = calls[c] /\ r # None /\ r.at = "reading"
  BY DEF Read
<1>2. /\ r = [at |-> r.at, key |-> r.key, paths |-> r.paths, read |-> r.read]
      /\ r.read = [k \in Ledger |-> r.read[k]]
      /\ \A k \in Ledger : r.read[k].length \in Nat
  BY <1>1 DEF Shaped
<1> DEFINE new == [at |-> r.at, key |-> r.key, paths |-> r.paths \ {l},
                   read |-> [r.read EXCEPT ![l] = source[l]]]
<1>3. calls' = [calls EXCEPT ![c] = new] /\ source' = source
  <2>1. calls' = [calls EXCEPT ![c].paths = @ \ {l}, ![c].read[l] = source[l]] /\ source' = source
    BY DEF Read
  <2> DEFINE without == [r EXCEPT !.paths = r.paths \ {l}]
  <2>2. without = [at |-> r.at, key |-> r.key, paths |-> r.paths \ {l}, read |-> r.read]
    BY <1>2, CallRecord
  <2>3. [without EXCEPT !.read = [r.read EXCEPT ![l] = source[l]]] = new
    <3>1. /\ without.at = r.at /\ without.key = r.key /\ without.paths = r.paths \ {l}
          /\ without = [at |-> without.at, key |-> without.key,
                        paths |-> without.paths, read |-> without.read]
      BY <2>2
    <3> HIDE DEF without
    <3>2. PICK read : read = [r.read EXCEPT ![l] = source[l]]
      OBVIOUS
    <3>3. [without EXCEPT !.read = read] =
             [at |-> r.at, key |-> r.key, paths |-> r.paths \ {l}, read |-> read]
      BY <3>1, CallRecord
    <3> QED
      BY <3>2, <3>3
  <2> DEFINE middle == [calls EXCEPT ![c] = without]
  <2>4. middle = [calls EXCEPT ![c].paths = calls[c].paths \ {l}]
    BY <1>1
  <2>5. calls' = [middle EXCEPT ![c] = [middle[c] EXCEPT !.read = [middle[c].read EXCEPT ![l] = source[l]]]]
    BY <2>1, <2>4
  <2>6. middle[c] = without /\ middle[c].read = r.read
    BY <2>2 DEF Shaped
  <2>7. calls' = [middle EXCEPT ![c] = new]
    BY <2>3, <2>5, <2>6
  <2> QED
    BY <2>1, <2>7 DEF Shaped
<1>4. calls'[c] = new /\ \A d \in Caller : d # c => calls'[d] = calls[d]
  BY <1>3 DEF Shaped
<1>5. /\ new.at = r.at /\ new.key = r.key /\ new.paths \subseteq r.paths
      /\ new = [at |-> new.at, key |-> new.key, paths |-> new.paths, read |-> new.read]
      /\ new.read = [r.read EXCEPT ![l] = source[l]]
  OBVIOUS
<1> HIDE DEF new
<1>6. /\ new.read = [k \in Ledger |-> new.read[k]]
      /\ new.read[l] = source[l] /\ \A k \in Ledger : k # l => new.read[k] = r.read[k]
  BY <1>2, <1>5
<1>7. calls' = [d \in Caller |-> calls'[d]]
  BY <1>3 DEF Shaped
<1>8. Shaped'
  BY <1>2, <1>3, <1>4, <1>5, <1>6, <1>7 DEF Shaped
<1> QED
  BY <1>1, <1>4, <1>5, <1>6, <1>8

\* An append changes only how far its call got.
LEMMA ImportEffect ==
  ASSUME Shaped, NEW c \in Caller, Import(c)
  PROVE  /\ \A d \in Caller : d # c => calls'[d] = calls[d]
         /\ calls'[c].key = calls[c].key /\ calls'[c].read = calls[c].read
         /\ calls[c] # None /\ calls'[c].at = "imported" /\ calls'[c].paths = calls[c].paths
         /\ Shaped'
<1>1. PICK r : r = calls[c] /\ r # None
  BY DEF Import
<1>2. /\ r = [at |-> r.at, key |-> r.key, paths |-> r.paths, read |-> r.read]
      /\ r.read = [k \in Ledger |-> r.read[k]]
      /\ \A k \in Ledger : r.read[k].length \in Nat
  BY <1>1 DEF Shaped
<1> DEFINE new == [at |-> "imported", key |-> r.key, paths |-> r.paths, read |-> r.read]
<1>3. calls' = [calls EXCEPT ![c] = new] /\ source' = source
  <2>1. calls' = [calls EXCEPT ![c].at = "imported"] /\ source' = source
    BY DEF Import
  <2>2. [r EXCEPT !.at = "imported"] = new
    BY <1>2
  <2>3. calls' = [calls EXCEPT ![c] = [r EXCEPT !.at = "imported"]]
    BY <1>1, <2>1
  <2> QED
    BY <2>1, <2>2, <2>3
<1>4. calls'[c] = new /\ \A d \in Caller : d # c => calls'[d] = calls[d]
  BY <1>3 DEF Shaped
<1>5. /\ new.key = r.key /\ new.read = r.read
      /\ new.at = "imported" /\ new.paths = r.paths
      /\ new = [at |-> new.at, key |-> new.key, paths |-> new.paths, read |-> new.read]
  OBVIOUS
<1> HIDE DEF new
<1>6. calls' = [d \in Caller |-> calls'[d]]
  BY <1>3 DEF Shaped
<1>7. Shaped'
  BY <1>2, <1>3, <1>4, <1>5, <1>6 DEF Shaped
<1> QED
  BY <1>1, <1>4, <1>5, <1>7

\* A call that returns or dies leaves nothing.
LEMMA EndEffect ==
  ASSUME Shaped, NEW c \in Caller, calls' = [calls EXCEPT ![c] = None], source' = source
  PROVE  /\ calls'[c] = None /\ \A d \in Caller : d # c => calls'[d] = calls[d]
         /\ Shaped'
<1>1. calls'[c] = None /\ \A d \in Caller : d # c => calls'[d] = calls[d]
  BY DEF Shaped
<1>2. calls' = [d \in Caller |-> calls'[d]]
  BY DEF Shaped
<1> QED
  BY <1>1, <1>2 DEF Shaped

\* v1's writes: one ledger gets longer.
LEMMA WriteEffect ==
  ASSUME Shaped, NEW l \in Ledger,
         (\E nodes \in Creations : Create(l, nodes)) \/ \E p \in Proposals : Propose(l, p)
  PROVE  /\ source'[l].length = source[l].length + 1
         /\ \A k \in Ledger : k # l => source'[k] = source[k]
         /\ UNCHANGED <<calls, imports, receipts>>
         /\ Shaped'
<1>1. ASSUME NEW nodes \in Creations, Create(l, nodes)
      PROVE  /\ source'[l].length = source[l].length + 1
             /\ \A k \in Ledger : k # l => source'[k] = source[k]
             /\ UNCHANGED <<calls, imports, receipts>>
             /\ source' = [k \in Ledger |-> source'[k]]
  <2>1. PICK h, t : source' = [source EXCEPT ![l] = [length |-> 1, history |-> h, truth |-> t]]
    BY <1>1 DEF Create
  <2>2. source[l].length = 0 /\ UNCHANGED <<calls, imports, receipts>>
    BY <1>1 DEF Create
  <2> QED
    BY <2>1, <2>2 DEF Shaped
<1>2. ASSUME NEW p \in Proposals, Propose(l, p)
      PROVE  /\ source'[l].length = source[l].length + 1
             /\ \A k \in Ledger : k # l => source'[k] = source[k]
             /\ UNCHANGED <<calls, imports, receipts>>
             /\ source' = [k \in Ledger |-> source'[k]]
  <2>1. PICK h, t : source' = [source EXCEPT ![l] =
                       [length |-> source[l].length + 1, history |-> h, truth |-> t]]
    BY <1>2 DEF Propose, Shaped
  <2>2. UNCHANGED <<calls, imports, receipts>>
    BY <1>2 DEF Propose
  <2> QED
    BY <2>1, <2>2 DEF Shaped
<1> QED
  BY <1>1, <1>2 DEF Shaped

-----------------------------------------------------------------------------
(* One import per source and per key. *)

ImportedOnce == Shaped /\ ImportedHasImport /\ SourceImportedOnce

\* Calls that keep what they read, and imports that stay, keep their match.
LEMMA MatchesStay ==
  ASSUME NEW c \in Caller, NEW i, Made(c, i),
         calls'[c].key = calls[c].key, calls'[c].read = calls[c].read
  PROVE  Made(c, i)'
BY DEF Made, Digest

\* The append: its guards leave no import with the key or the digest.
LEMMA ImportStaysOnce ==
  ASSUME ImportedOnce, NEW c \in Caller, Import(c)
  PROVE  ImportedOnce'
<1> DEFINE new == [digest |-> Digest(c), key |-> calls[c].key,
                   workflows |-> [l \in ReadLedgers(c) |-> ImportedWorkflow(calls[c].read[l].history)]]
<1>1. imports' = imports \cup {new} /\ receipts' = receipts
  BY DEF Import
<1>2. new.digest = Digest(c) /\ new.key = calls[c].key
  OBVIOUS
<1>3. Prior(c) = {} /\ ~AlreadyImported(c)
  BY DEF Import
<1> HIDE DEF new
<1>4. \A i \in imports : i.key # new.key /\ i.digest # new.digest
  BY <1>2, <1>3 DEF Prior, AlreadyImported
<1>5. SourceImportedOnce'
  <2>1. \A i, j \in imports' : i.digest = j.digest \/ i.key = j.key => i = j
    BY <1>1, <1>4 DEF ImportedOnce, SourceImportedOnce
  <2>2. \A r \in receipts' : \E i \in imports' : i.key = r.key /\ i.digest = r.digest
    BY <1>1 DEF ImportedOnce, SourceImportedOnce
  <2> QED
    BY <2>1, <2>2 DEF SourceImportedOnce
<1>6. /\ \A d \in Caller : d # c => calls'[d] = calls[d]
      /\ calls'[c].key = calls[c].key /\ calls'[c].read = calls[c].read
      /\ Shaped'
  BY ImportEffect DEF ImportedOnce
<1>7. ImportedHasImport'
  <2> SUFFICES ASSUME NEW d \in Caller, calls'[d] # None, calls'[d].at = "imported"
               PROVE  \E i \in imports' : Made(d, i)'
    BY DEF ImportedHasImport
  <2>1. CASE d = c
    <3>1. Made(c, new)
      BY <1>2 DEF Made
    <3> QED
      BY <1>1, <1>6, <2>1, <3>1, MatchesStay
  <2>2. CASE d # c
    <3>1. calls'[d] = calls[d]
      BY <1>6, <2>2
    <3>2. PICK i \in imports : Made(d, i)
      BY <3>1 DEF ImportedOnce, ImportedHasImport
    <3> QED
      BY <1>1, <3>1, <3>2, MatchesStay
  <2> QED
    BY <2>1, <2>2
<1> QED
  BY <1>5, <1>6, <1>7 DEF ImportedOnce

\* Every other step keeps the imports.
LEMMA ImportsKeptOnce ==
  ASSUME ImportedOnce, imports' = imports, Shaped',
         \A d \in Caller : calls'[d] # None /\ calls'[d].at = "imported" => calls'[d] = calls[d],
         \A r \in receipts' : r \in receipts \/
           \E i \in imports : i.key = r.key /\ i.digest = r.digest
  PROVE  ImportedOnce'
<1>1. SourceImportedOnce'
  BY DEF ImportedOnce, SourceImportedOnce
<1>2. ImportedHasImport'
  <2> SUFFICES ASSUME NEW d \in Caller, calls'[d] # None, calls'[d].at = "imported"
               PROVE  \E i \in imports' : Made(d, i)'
    BY DEF ImportedHasImport
  <2>1. calls'[d] = calls[d]
    OBVIOUS
  <2>2. PICK i \in imports : Made(d, i)
    BY <2>1 DEF ImportedOnce, ImportedHasImport
  <2> QED
    BY <2>1, <2>2, MatchesStay
<1> QED
  BY <1>1, <1>2 DEF ImportedOnce

\* A receipt names the import its call made, or the one it found under its key.
LEMMA AnswersNameImports ==
  ASSUME ImportedOnce, NEW c \in Caller, AnswerNew(c) \/ AnswerExisting(c)
  PROVE  \A r \in receipts' : r \in receipts \/
           \E i \in imports : i.key = r.key /\ i.digest = r.digest
<1>1. PICK existing : Return(c, existing)
  BY DEF AnswerNew, AnswerExisting
<1>2. \E i \in imports : i.key = calls[c].key /\ i.digest = Digest(c)
  BY DEF AnswerNew, AnswerExisting, ImportedOnce, ImportedHasImport, Made, Prior
<1> QED
  BY <1>1, <1>2 DEF Return

LEMMA OnceStays ==
  ASSUME ImportedOnce, [Next]_vars
  PROVE  ImportedOnce'
<1> USE DEF ImportedOnce
<1>1. ASSUME NEW l \in Ledger,
             (\E nodes \in Creations : Create(l, nodes)) \/ \E p \in Proposals : Propose(l, p)
      PROVE  ImportedOnce'
  BY <1>1, WriteEffect, ImportsKeptOnce
<1>2. ASSUME NEW c \in Caller, NEW key \in Key, Call(c, key)
      PROVE  ImportedOnce'
  <2>1. imports' = imports /\ receipts' = receipts
    BY <1>2 DEF Call
  <2> QED
    BY <1>2, <2>1, CallEffect, ImportsKeptOnce
<1>3. ASSUME NEW c \in Caller, NEW l \in Ledger, Read(c, l)
      PROVE  ImportedOnce'
  <2>1. imports' = imports /\ receipts' = receipts
    BY <1>3 DEF Read
  <2> QED
    BY <1>3, <2>1, ReadEffect, ImportsKeptOnce
<1>4. ASSUME NEW c \in Caller, Import(c)
      PROVE  ImportedOnce'
  BY <1>4, ImportStaysOnce
<1>5. ASSUME NEW c \in Caller, AnswerNew(c) \/ AnswerExisting(c)
      PROVE  ImportedOnce'
  <2>1. imports' = imports /\ source' = source /\ calls' = [calls EXCEPT ![c] = None]
    BY <1>5 DEF AnswerNew, AnswerExisting, Return
  <2>2. calls'[c] = None /\ (\A d \in Caller : d # c => calls'[d] = calls[d]) /\ Shaped'
    BY <2>1, EndEffect
  <2> QED
    BY <1>5, <2>1, <2>2, AnswersNameImports, ImportsKeptOnce
<1>6. ASSUME NEW c \in Caller, GiveUp(c)
      PROVE  ImportedOnce'
  <2>1. /\ imports' = imports /\ receipts' = receipts /\ source' = source
        /\ calls' = [calls EXCEPT ![c] = None]
    BY <1>6 DEF GiveUp
  <2>2. calls'[c] = None /\ (\A d \in Caller : d # c => calls'[d] = calls[d]) /\ Shaped'
    BY <2>1, EndEffect
  <2> QED
    BY <2>1, <2>2, ImportsKeptOnce
<1>7. CASE UNCHANGED vars
  <2>1. Shaped'
    BY <1>7 DEF vars, Shaped
  <2> QED
    BY <1>7, <2>1, ImportsKeptOnce DEF vars
<1> QED
  BY <1>1, <1>2, <1>3, <1>4, <1>5, <1>6, <1>7 DEF Next

LEMMA InitShaped == Init => Shaped
BY DEF Init, Shaped, Absent

(* However calls of ImportV1 race, die after their append or are repeated, one
   source is imported once, one key imports one source, and a receipt names the
   import of what its call had read, for any number of calls, keys and ledgers
   (import_v1.go, decide). *)
THEOREM SourcesAreImportedOnce == Spec => []SourceImportedOnce
<1>1. Init => ImportedOnce
  <2>1. Init => ImportedHasImport /\ SourceImportedOnce
    BY DEF Init, ImportedHasImport, SourceImportedOnce
  <2> QED
    BY <2>1, InitShaped DEF ImportedOnce
<1>2. ImportedOnce /\ [Next]_vars => ImportedOnce'
  BY OnceStays
<1>3. ImportedOnce => SourceImportedOnce
  BY DEF ImportedOnce
<1> QED
  BY <1>1, <1>2, <1>3, PTL DEF Spec

-----------------------------------------------------------------------------
(* A ledger only grows, so a length stands for what was read. *)

ReadsStandForSources ==
  \A c \in Caller : calls[c] # None =>
    \A l \in Ledger :
      /\ calls[c].read[l].length <= source[l].length
      /\ calls[c].read[l].length = source[l].length /\ source[l].length > 0 =>
           calls[c].read[l].history = source[l].history

(* Every Workflow of an import is whole: its ledger was read, replayed, and
   accepted by v2's checks, and as long as the ledger has not grown past the
   digest the Workflow is what its history as it stands makes of it, with every
   Node of the ledger (import_v1.go, decide). *)
ImportsShowLedgers ==
  \A i \in imports : \A l \in DOMAIN i.workflows :
    /\ l \in Ledger /\ i.digest[l] \in 1 .. source[l].length
    /\ Accepted(i.workflows[l])
    /\ i.digest[l] = source[l].length =>
         /\ source[l].history # None
         /\ i.workflows[l] = ImportedWorkflow(source[l].history)
         /\ DOMAIN i.workflows[l] = Known(source[l].history.nodes)

Standing == Shaped /\ ReadsStandForSources /\ ImportsShowLedgers

\* What v1 writes makes the ledger longer than anything read before.
LEMMA WritesOutgrow ==
  ASSUME Standing, NEW l \in Ledger,
         (\E nodes \in Creations : Create(l, nodes)) \/ \E p \in Proposals : Propose(l, p)
  PROVE  Standing'
<1>1. /\ source'[l].length = source[l].length + 1
      /\ \A k \in Ledger : k # l => source'[k] = source[k]
      /\ calls' = calls /\ imports' = imports
      /\ Shaped'
  BY WriteEffect DEF Standing
<1>2. ReadsStandForSources'
  <2> SUFFICES ASSUME NEW c \in Caller, calls[c] # None, NEW k \in Ledger
               PROVE  /\ calls[c].read[k].length <= source'[k].length
                      /\ calls[c].read[k].length = source'[k].length /\ source'[k].length > 0 =>
                           calls[c].read[k].history = source'[k].history
    BY <1>1 DEF ReadsStandForSources
  <2>1. calls[c].read[k].length \in Nat /\ source[k].length \in Nat
    BY DEF Standing, Shaped
  <2>2. /\ calls[c].read[k].length <= source[k].length
        /\ calls[c].read[k].length = source[k].length /\ source[k].length > 0 =>
             calls[c].read[k].history = source[k].history
    BY DEF Standing, ReadsStandForSources
  <2>3. CASE k = l
    BY <1>1, <2>1, <2>2, <2>3
  <2>4. CASE k # l
    BY <1>1, <2>2, <2>4
  <2> QED
    BY <2>3, <2>4
<1>3. ImportsShowLedgers'
  <2> SUFFICES ASSUME NEW i \in imports, NEW k \in DOMAIN i.workflows
               PROVE  /\ k \in Ledger /\ i.digest[k] \in 1 .. source'[k].length
                      /\ Accepted(i.workflows[k])
                      /\ i.digest[k] = source'[k].length =>
                           /\ source'[k].history # None
                           /\ i.workflows[k] = ImportedWorkflow(source'[k].history)
                           /\ DOMAIN i.workflows[k] = Known(source'[k].history.nodes)
    BY <1>1 DEF ImportsShowLedgers
  <2>1. /\ k \in Ledger /\ i.digest[k] \in 1 .. source[k].length
        /\ Accepted(i.workflows[k])
        /\ i.digest[k] = source[k].length =>
             /\ source[k].history # None
             /\ i.workflows[k] = ImportedWorkflow(source[k].history)
             /\ DOMAIN i.workflows[k] = Known(source[k].history.nodes)
    BY DEF Standing, ImportsShowLedgers
  <2>2. source[k].length \in Nat
    BY <2>1 DEF Standing, Shaped
  <2>3. CASE k = l
    BY <1>1, <2>1, <2>2, <2>3
  <2>4. CASE k # l
    BY <1>1, <2>1, <2>4
  <2> QED
    BY <2>3, <2>4
<1> QED
  BY <1>1, <1>2, <1>3 DEF Standing

\* An import holds the Workflows of the ledgers its call read.
LEMMA AppendsStand ==
  ASSUME Standing, NEW c \in Caller, Import(c)
  PROVE  Standing'
<1>1. /\ \A d \in Caller : d # c => calls'[d] = calls[d]
      /\ calls'[c].read = calls[c].read /\ calls[c] # None
      /\ Shaped' /\ source' = source
  BY ImportEffect DEF Standing, Import
<1>2. ReadsStandForSources'
  BY <1>1 DEF Standing, ReadsStandForSources
<1> DEFINE workflows == [l \in ReadLedgers(c) |-> ImportedWorkflow(calls[c].read[l].history)]
           new == [digest |-> Digest(c), key |-> calls[c].key, workflows |-> workflows]
<1>3. imports' = imports \cup {new}
  BY DEF Import
<1>4. new.digest = Digest(c) /\ new.workflows = workflows
  OBVIOUS
<1>5. ASSUME NEW l \in DOMAIN workflows
      PROVE  /\ l \in Ledger /\ Digest(c)[l] \in 1 .. source[l].length
             /\ Accepted(workflows[l])
             /\ Digest(c)[l] = source[l].length =>
                  /\ source[l].history # None
                  /\ workflows[l] = ImportedWorkflow(source[l].history)
                  /\ DOMAIN workflows[l] = Known(source[l].history.nodes)
  <2>1. l \in ReadLedgers(c) /\ l \in Ledger /\ calls[c].read[l].length > 0
    BY DEF ReadLedgers
  <2>2. calls[c].read[l].length \in Nat /\ source[l].length \in Nat
    BY <1>1, <2>1 DEF Standing, Shaped
  <2>3. /\ calls[c].read[l].length <= source[l].length
        /\ calls[c].read[l].length = source[l].length /\ source[l].length > 0 =>
             calls[c].read[l].history = source[l].history
    BY <1>1, <2>1 DEF Standing, ReadsStandForSources
  <2>4. Digest(c)[l] = calls[c].read[l].length
    BY <2>1 DEF Digest
  <2>5. workflows[l] = ImportedWorkflow(calls[c].read[l].history)
    BY <2>1
  <2>6. calls[c].read[l].history # None /\ Accepted(ImportedWorkflow(calls[c].read[l].history))
    BY <2>1 DEF Import
  <2> HIDE DEF workflows
  <2>7. DOMAIN workflows[l] = Known(calls[c].read[l].history.nodes)
    BY <2>5 DEF ImportedWorkflow
  <2> QED
    BY <2>1, <2>2, <2>3, <2>4, <2>5, <2>6, <2>7
<1> HIDE DEF workflows, new
<1>6. ImportsShowLedgers'
  <2> SUFFICES ASSUME NEW i \in imports', NEW l \in DOMAIN i.workflows
               PROVE  /\ l \in Ledger /\ i.digest[l] \in 1 .. source[l].length
                      /\ Accepted(i.workflows[l])
                      /\ i.digest[l] = source[l].length =>
                           /\ source[l].history # None
                           /\ i.workflows[l] = ImportedWorkflow(source[l].history)
                           /\ DOMAIN i.workflows[l] = Known(source[l].history.nodes)
    BY <1>1 DEF ImportsShowLedgers
  <2>1. CASE i \in imports
    BY <2>1 DEF Standing, ImportsShowLedgers
  <2>2. CASE i = new
    BY <1>4, <1>5, <2>2
  <2> QED
    BY <1>3, <2>1, <2>2
<1> QED
  BY <1>1, <1>2, <1>6 DEF Standing

\* A call reads a ledger as it stands; one that starts or ends has read nothing.
LEMMA ReadsStand ==
  ASSUME Standing, Shaped', source' = source, imports' = imports,
         \A d \in Caller : calls'[d] # None =>
           \A l \in Ledger :
             \/ calls'[d].read[l] \in {source[l], Absent}
             \/ calls[d] # None /\ calls'[d].read[l] = calls[d].read[l]
  PROVE  Standing'
<1>1. ReadsStandForSources'
  <2> SUFFICES ASSUME NEW d \in Caller, calls'[d] # None, NEW l \in Ledger
               PROVE  /\ calls'[d].read[l].length <= source[l].length
                      /\ calls'[d].read[l].length = source[l].length /\ source[l].length > 0 =>
                           calls'[d].read[l].history = source[l].history
    BY DEF ReadsStandForSources
  <2>1. source[l].length \in Nat
    BY DEF Standing, Shaped
  <2>2. CASE calls'[d].read[l] = source[l]
    BY <2>1, <2>2
  <2>3. CASE calls'[d].read[l] = Absent
    BY <2>1, <2>3 DEF Absent
  <2>4. CASE calls[d] # None /\ calls'[d].read[l] = calls[d].read[l]
    BY <2>4 DEF Standing, ReadsStandForSources
  <2> QED
    BY <2>2, <2>3, <2>4
<1>2. ImportsShowLedgers'
  BY DEF Standing, ImportsShowLedgers
<1> QED
  BY <1>1, <1>2 DEF Standing

LEMMA StandingStays ==
  ASSUME Standing, [Next]_vars
  PROVE  Standing'
<1>0. Shaped
  BY DEF Standing
<1>1. ASSUME NEW l \in Ledger,
             (\E nodes \in Creations : Create(l, nodes)) \/ \E p \in Proposals : Propose(l, p)
      PROVE  Standing'
  BY <1>1, WritesOutgrow
<1>2. ASSUME NEW c \in Caller, NEW key \in Key, Call(c, key)
      PROVE  Standing'
  <2>1. imports' = imports /\ source' = source
    BY <1>2 DEF Call
  <2>2. /\ \A d \in Caller : d # c => calls'[d] = calls[d]
        /\ \A l \in Ledger : calls'[c].read[l] = Absent
        /\ Shaped'
    BY <1>0, <1>2, CallEffect
  <2> QED
    BY <2>1, <2>2, ReadsStand
<1>3. ASSUME NEW c \in Caller, NEW l \in Ledger, Read(c, l)
      PROVE  Standing'
  <2>1. imports' = imports /\ source' = source
    BY <1>3 DEF Read
  <2>2. /\ \A d \in Caller : d # c => calls'[d] = calls[d]
        /\ calls[c] # None /\ calls'[c].read[l] = source[l]
        /\ \A k \in Ledger : k # l => calls'[c].read[k] = calls[c].read[k]
        /\ Shaped'
    BY <1>0, <1>3, ReadEffect
  <2> QED
    BY <2>1, <2>2, ReadsStand
<1>4. ASSUME NEW c \in Caller, Import(c)
      PROVE  Standing'
  BY <1>4, AppendsStand
<1>5. ASSUME NEW c \in Caller, AnswerNew(c) \/ AnswerExisting(c) \/ GiveUp(c)
      PROVE  Standing'
  <2>1. imports' = imports /\ source' = source /\ calls' = [calls EXCEPT ![c] = None]
    BY <1>5 DEF AnswerNew, AnswerExisting, Return, GiveUp
  <2>2. calls'[c] = None /\ (\A d \in Caller : d # c => calls'[d] = calls[d]) /\ Shaped'
    BY <1>0, <2>1, EndEffect
  <2> QED
    BY <2>1, <2>2, ReadsStand
<1>6. CASE UNCHANGED vars
  BY <1>6 DEF vars, Standing, Shaped, ReadsStandForSources, ImportsShowLedgers
<1> QED
  BY <1>1, <1>2, <1>3, <1>4, <1>5, <1>6 DEF Next

(* Although v1 may write between two reads of one call, an import never shows
   more of a ledger than its digest covers, nor less: as long as the ledger has
   not grown past it, each Workflow is what the history of its ledger makes of
   it, for any number of calls and ledgers of any length (import_v1.go, decide). *)
THEOREM ImportsAreWhole == Spec => []ImportsShowLedgers
<1>1. Init => Standing
  <2>1. Init => ReadsStandForSources /\ ImportsShowLedgers
    BY DEF Init, ReadsStandForSources, ImportsShowLedgers
  <2> QED
    BY <2>1, InitShaped DEF Standing
<1>2. Standing /\ [Next]_vars => Standing'
  BY StandingStays
<1>3. Standing => ImportsShowLedgers
  BY DEF Standing
<1> QED
  BY <1>1, <1>2, <1>3, PTL DEF Spec
-----------------------------------------------------------------------------
(* A proposal, mutation by mutation. *)

\* What one mutation makes of the Nodes that the ones before it left.
Mutated(old, actor, m) ==
  IF old = None \/ ~ValidMutation(old, actor, m) THEN None ELSE ApplyMutation(old, m)

LEMMA ApplyIsTyped ==
  ASSUME NEW nodes \in LegacyNodes, NEW actor, NEW m \in Mutation, ValidMutation(nodes, actor, m)
  PROVE  ApplyMutation(nodes, m) \in LegacyNodes
<1>1. CASE m.op = "add_node"
  <2>1. m.node \in LegacyNode /\ m.record \in Node
    BY <1>1 DEF Mutation
  <2>2. ApplyMutation(nodes, m) = [nodes EXCEPT ![m.node] = m.record]
    BY <1>1 DEF ApplyMutation
  <2> QED
    BY <2>1, <2>2 DEF LegacyNodes
<1>2. CASE m.op = "unimported"
  BY <1>2 DEF ApplyMutation
<1>3. CASE m.op = "malformed"
  BY <1>3 DEF ValidMutation
<1>4. CASE m.op \in {"add_dependency", "set_state", "set_session", "reopen_agent", "supersede"}
  <2>1. m.node \in LegacyNode /\ nodes[m.node] # None
    BY <1>4 DEF Mutation, ValidMutation
  <2>2. nodes[m.node] \in Node
    BY <2>1 DEF LegacyNodes
  <2>3. ASSUME NEW node \in Node PROVE [nodes EXCEPT ![m.node] = node] \in LegacyNodes
    BY <2>1 DEF LegacyNodes
  <2>4. ASSUME NEW state \in NodeState PROVE [nodes[m.node] EXCEPT !.state = state] \in Node
    BY <2>2 DEF Node
  <2>5. CASE m.op = "add_dependency"
    <3>1. m.deps \subseteq LegacyNode
      BY <2>5 DEF Mutation
    <3>2. [nodes[m.node] EXCEPT !.deps = @ \cup m.deps] \in Node
      BY <2>2, <3>1 DEF Node
    <3> QED
      BY <2>3, <2>5, <3>2 DEF ApplyMutation
  <2>6. CASE m.op = "set_state"
    <3>1. m.state \in NodeState
      BY <2>6 DEF Mutation
    <3> QED
      BY <2>3, <2>4, <2>6, <3>1 DEF ApplyMutation
  <2>7. CASE m.op = "set_session"
    <3>1. [nodes[m.node] EXCEPT !.session = TRUE] \in Node
      BY <2>2 DEF Node
    <3> QED
      BY <2>3, <2>7, <3>1 DEF ApplyMutation
  <2>8. CASE m.op = "reopen_agent"
    BY <2>3, <2>4, <2>8 DEF ApplyMutation, NodeState
  <2>9. CASE m.op = "supersede"
    BY <2>3, <2>4, <2>9 DEF ApplyMutation, NodeState
  <2> QED
    BY <1>4, <2>5, <2>6, <2>7, <2>8, <2>9
<1> QED
  BY <1>1, <1>2, <1>3, <1>4 DEF Mutation

(* The Nodes after each mutation are made from those after the one before. *)
LEMMA AfterSteps ==
  ASSUME NEW nodes \in LegacyNodes, NEW proposal \in Proposals
  PROVE  LET after == After(nodes, proposal)
             N == Len(proposal.mutations)
         IN  /\ after \in [0 .. N -> LegacyNodes \cup {None}]
             /\ after[0] = nodes
             /\ \A i \in 1 .. N :
                  after[i] = Mutated(after[i - 1], proposal.actor, proposal.mutations[i])
<1> DEFINE N == Len(proposal.mutations)
           S == LegacyNodes \cup {None}
           m(i) == proposal.mutations[i]
           Is(after) ==
             after = [i \in 0 .. N |->
                IF i = 0 THEN nodes
                ELSE LET old == after[i - 1]
                         k == proposal.mutations[i]
                     IN  IF old = None \/ ~ValidMutation(old, proposal.actor, k) THEN None
                         ELSE ApplyMutation(old, k)]
<1>1. proposal.mutations \in Seq(Mutation) /\ N \in Nat
  BY ProposalsAssumption
<1>2. PICK step : step = [i \in 1 .. N |-> [old \in S |-> Mutated(old, proposal.actor, m(i))]]
  OBVIOUS
<1>3. step \in [1 .. N -> [S -> S]]
  <2>1. ASSUME NEW i \in 1 .. N, NEW old \in S PROVE Mutated(old, proposal.actor, m(i)) \in S
    <3>1. m(i) \in Mutation
      BY <1>1
    <3> QED
      BY <3>1, ApplyIsTyped DEF Mutated
  <2> QED
    BY <1>2, <2>1
<1>4. PICK f \in [0 .. N -> S] : f[0] = nodes /\ \A i \in 1 .. N : f[i] = step[i][f[i - 1]]
  <2>1. nodes \in S
    OBVIOUS
  <2>2. N \in Nat
    BY <1>1
  <2> HIDE DEF N, S
  <2> QED
    BY <1>3, <2>1, <2>2, RecursionIsDefined
<1>5. ASSUME NEW i \in 1 .. N PROVE f[i] = Mutated(f[i - 1], proposal.actor, m(i))
  <2>1. i - 1 \in 0 .. N
    BY <1>1
  <2>2. f[i - 1] \in S
    BY <2>1
  <2> HIDE DEF S, m
  <2> QED
    BY <1>2, <1>4, <2>2
<1>6. Is(f)
  BY <1>1, <1>4, <1>5 DEF Mutated
<1>7. After(nodes, proposal) = CHOOSE after : Is(after)
  BY DEF After
<1>8. Is(After(nodes, proposal))
  <2> HIDE DEF Is
  <2> QED
    BY <1>6, <1>7
<1>9. PICK after : after = After(nodes, proposal)
  OBVIOUS
<1>10. /\ after[0] = nodes
       /\ \A i \in 1 .. N : after[i] = Mutated(after[i - 1], proposal.actor, m(i))
  <2>1. \A i \in 0 .. N : after[i] =
          IF i = 0 THEN nodes ELSE Mutated(after[i - 1], proposal.actor, m(i))
    BY <1>8, <1>9, Zenon DEF Mutated
  <2> HIDE DEF m
  <2> QED
    BY <1>1, <2>1
<1>11. 0 .. N \subseteq {i \in 0 .. N : after[i] \in S}
  <2> DEFINE T == {i \in 0 .. N : after[i] \in S}
  <2>1. 0 \in T
    BY <1>1, <1>10
  <2>2. ASSUME NEW i \in 1 .. N, i - 1 \in T PROVE i \in T
    <3>1. after[i - 1] \in S /\ m(i) \in Mutation
      BY <1>1, <2>2
    <3> QED
      BY <1>10, <3>1, ApplyIsTyped DEF Mutated
  <2> HIDE DEF T
  <2>3. 0 .. N \subseteq T
    BY <1>1, <2>1, <2>2, EveryStep
  <2> QED
    BY <2>3 DEF T
<1>12. after \in [0 .. N -> S]
  BY <1>8, <1>9, <1>11
<1> QED
  BY <1>9, <1>10, <1>12

-----------------------------------------------------------------------------
(* Dependencies. *)

\* Every dependency is a Node.
Closed(nodes) == \A n \in Known(nodes) : nodes[n].deps \subseteq Known(nodes)

\* A valid mutation loses no Node, and names only dependencies there are.
LEMMA ApplyKeepsClosed ==
  ASSUME NEW nodes \in LegacyNodes, Closed(nodes),
         NEW actor, NEW m \in Mutation, ValidMutation(nodes, actor, m)
  PROVE  Closed(ApplyMutation(nodes, m))
<1>1. CASE m.op = "unimported"
  BY <1>1 DEF ApplyMutation
<1>2. CASE m.op = "malformed"
  BY <1>2 DEF ValidMutation
<1>3. ASSUME NEW new \in Node, NEW k \in LegacyNode, new.deps \subseteq Known(nodes) \cup {k}
      PROVE  Closed([nodes EXCEPT ![k] = new])
  <2> DEFINE after == [nodes EXCEPT ![k] = new]
  <2>1. after[k] = new /\ \A n \in LegacyNode : n # k => after[n] = nodes[n]
    BY DEF LegacyNodes
  <2>2. Known(after) = Known(nodes) \cup {k}
    BY <2>1, NoneAssumption DEF Known
  <2>3. ASSUME NEW n \in Known(after) PROVE after[n].deps \subseteq Known(after)
    <3>1. CASE n = k
      BY <1>3, <2>1, <2>2, <3>1
    <3>2. CASE n # k
      <4>1. n \in Known(nodes) /\ after[n] = nodes[n]
        BY <2>1, <2>2, <3>2 DEF Known
      <4> QED
        BY <2>2, <4>1 DEF Closed
    <3> QED
      BY <3>1, <3>2
  <2> QED
    BY <2>3 DEF Closed
<1>4. CASE m.op = "add_node"
  <2>1. m.node \in LegacyNode /\ m.record \in Node
    BY <1>4 DEF Mutation
  <2>2. m.record.deps \subseteq Known(nodes)
    BY <1>4 DEF ValidMutation
  <2>3. ApplyMutation(nodes, m) = [nodes EXCEPT ![m.node] = m.record]
    BY <1>4 DEF ApplyMutation
  <2> QED
    BY <1>3, <2>1, <2>2, <2>3
<1>5. CASE m.op \in {"add_dependency", "set_state", "set_session", "reopen_agent", "supersede"}
  <2>1. m.node \in LegacyNode /\ m.node \in Known(nodes)
    BY <1>5 DEF Mutation, ValidMutation, Known
  <2>2. PICK old : old = nodes[m.node] /\ old \in Node
    BY <2>1 DEF LegacyNodes, Known
  <2>3. old.deps \subseteq Known(nodes)
    BY <2>1, <2>2 DEF Closed
  <2>4. CASE m.op = "add_dependency"
    <3>1. m.deps \subseteq Known(nodes) /\ m.deps \subseteq LegacyNode
      BY <2>4 DEF ValidMutation, Mutation
    <3>2. PICK new : new = [old EXCEPT !.deps = old.deps \cup m.deps]
      OBVIOUS
    <3>3. new \in Node /\ new.deps = old.deps \cup m.deps
      <4>1. PICK deps : deps = old.deps \cup m.deps
        OBVIOUS
      <4>2. deps \in SUBSET LegacyNode
        BY <2>2, <3>1, <4>1 DEF Node
      <4>3. new = [old EXCEPT !.deps = deps]
        BY <3>2, <4>1
      <4>4. new \in Node /\ new.deps = deps
        BY <2>2, <4>2, <4>3 DEF Node
      <4> QED
        BY <4>1, <4>4
    <3>4. ApplyMutation(nodes, m) = [nodes EXCEPT ![m.node] = new]
      BY <2>2, <2>4, <3>2 DEF ApplyMutation
    <3>5. new.deps \subseteq Known(nodes) \cup {m.node}
      BY <2>3, <3>1, <3>3
    <3>6. Closed([nodes EXCEPT ![m.node] = new])
      BY <1>3, <2>1, <3>3, <3>5
    <3> QED
      BY <3>4, <3>6
  <2>5. CASE m.op # "add_dependency"
    <3>1. PICK state \in NodeState, session \in BOOLEAN :
            ApplyMutation(nodes, m) =
              [nodes EXCEPT ![m.node] = [old EXCEPT !.state = state, !.session = session]]
      <4>1. old = [old EXCEPT !.session = old.session] /\ old.session \in BOOLEAN
            /\ old.state \in NodeState /\ old = [old EXCEPT !.state = old.state]
        BY <2>2 DEF Node
      <4>2. CASE m.op = "set_session"
        <5>1. [old EXCEPT !.session = TRUE] = [old EXCEPT !.state = old.state, !.session = TRUE]
          BY <4>1
        <5>2. ApplyMutation(nodes, m) = [nodes EXCEPT ![m.node] = [old EXCEPT !.session = TRUE]]
          BY <2>2, <4>2 DEF ApplyMutation
        <5> QED
          BY <4>1, <5>1, <5>2
      <4>3. ASSUME NEW state \in NodeState,
                   ApplyMutation(nodes, m) = [nodes EXCEPT ![m.node] = [old EXCEPT !.state = state]]
            PROVE  ApplyMutation(nodes, m) =
              [nodes EXCEPT ![m.node] = [old EXCEPT !.state = state, !.session = old.session]]
        <5>1. [old EXCEPT !.state = state] = [old EXCEPT !.state = state, !.session = old.session]
          BY <2>2 DEF Node
        <5> QED
          BY <4>3, <5>1
      <4>4. CASE m.op = "set_state"
        <5>1. m.state \in NodeState
          BY <4>4 DEF Mutation
        <5>2. ApplyMutation(nodes, m) = [nodes EXCEPT ![m.node] = [old EXCEPT !.state = m.state]]
          BY <2>2, <4>4 DEF ApplyMutation
        <5> QED
          BY <4>1, <4>3, <5>1, <5>2
      <4>5. CASE m.op = "reopen_agent"
        <5>1. ApplyMutation(nodes, m) = [nodes EXCEPT ![m.node] = [old EXCEPT !.state = "ready"]]
          BY <2>2, <4>5 DEF ApplyMutation
        <5> QED
          BY <4>1, <4>3, <5>1 DEF NodeState
      <4>6. CASE m.op = "supersede"
        <5>1. ApplyMutation(nodes, m) = [nodes EXCEPT ![m.node] = [old EXCEPT !.state = "superseded"]]
          BY <2>2, <4>6 DEF ApplyMutation
        <5> QED
          BY <4>1, <4>3, <5>1 DEF NodeState
      <4> QED
        BY <1>5, <2>5, <4>2, <4>4, <4>5, <4>6
    <3>2. PICK new : new = [old EXCEPT !.state = state, !.session = session]
      OBVIOUS
    <3>3. new \in Node /\ new.deps = old.deps
      BY <2>2, <3>2 DEF Node
    <3>4. ApplyMutation(nodes, m) = [nodes EXCEPT ![m.node] = new]
      BY <3>1, <3>2
    <3> QED
      BY <1>3, <2>1, <2>3, <3>3, <3>4
  <2> QED
    BY <2>4, <2>5
<1> QED
  BY <1>1, <1>2, <1>4, <1>5 DEF Mutation

\* So do all of a proposal together.
LEMMA AfterKeepsClosed ==
  ASSUME NEW nodes \in LegacyNodes, Closed(nodes), NEW proposal \in Proposals,
         NEW i \in 0 .. Len(proposal.mutations), After(nodes, proposal)[i] # None
  PROVE  Closed(After(nodes, proposal)[i])
<1>1. PICK after, N : after = After(nodes, proposal) /\ N = Len(proposal.mutations)
  OBVIOUS
<1>2. N \in Nat /\ \A k \in 1 .. N : proposal.mutations[k] \in Mutation
  BY <1>1, ProposalsAssumption
<1>3. /\ after \in [0 .. N -> LegacyNodes \cup {None}] /\ after[0] = nodes
      /\ \A k \in 1 .. N :
           after[k] = Mutated(after[k - 1], proposal.actor, proposal.mutations[k])
  BY <1>1, AfterSteps
<1> DEFINE T == {k \in 0 .. N : after[k] # None => after[k] \in LegacyNodes /\ Closed(after[k])}
<1>4. 0 \in T
  BY <1>2, <1>3
<1>5. ASSUME NEW k \in 1 .. N, k - 1 \in T PROVE k \in T
  <2> SUFFICES ASSUME after[k] # None PROVE Closed(after[k])
    BY <1>3
  <2>1. PICK old, m : old = after[k - 1] /\ m = proposal.mutations[k] /\ m \in Mutation
    BY <1>2
  <2>2. /\ old # None /\ ValidMutation(old, proposal.actor, m)
        /\ after[k] = ApplyMutation(old, m)
    BY <1>3, <2>1 DEF Mutated
  <2>3. old \in LegacyNodes /\ Closed(old)
    BY <1>5, <2>1, <2>2
  <2> QED
    BY <2>1, <2>2, <2>3, ApplyKeepsClosed
<1> HIDE DEF T
<1>6. 0 .. N \subseteq T
  BY <1>2, <1>4, <1>5, EveryStep
<1> QED
  BY <1>1, <1>6 DEF T

\* recompute changes no dependency.
LEMMA RecomputeKeeps ==
  ASSUME NEW nodes \in LegacyNodes
  PROVE  /\ Recomputed(nodes) \in LegacyNodes
         /\ Known(Recomputed(nodes)) = Known(nodes)
         /\ \A n \in Known(nodes) : Recomputed(nodes)[n].deps = nodes[n].deps
         /\ \A n \in LegacyNode :
              \/ Recomputed(nodes)[n] = nodes[n]
              \/ /\ nodes[n] # None /\ nodes[n].state = "pending"
                 /\ Recomputed(nodes)[n] = [nodes[n] EXCEPT !.state = "ready"]
<1>1. PICK after : after = Recomputed(nodes)
  OBVIOUS
<1>2. /\ after = [n \in LegacyNode |-> after[n]]
      /\ \A n \in LegacyNode :
           \/ after[n] = nodes[n]
           \/ /\ nodes[n] # None /\ nodes[n].state = "pending"
              /\ after[n] = [nodes[n] EXCEPT !.state = "ready"]
  BY <1>1 DEF Recomputed, Known
<1>3. \A n \in LegacyNode : nodes[n] \in Node \cup {None}
  BY DEF LegacyNodes
<1>4. ASSUME NEW n \in LegacyNode
      PROVE  /\ after[n] \in Node \cup {None} /\ (after[n] = None <=> nodes[n] = None)
             /\ nodes[n] # None => after[n].deps = nodes[n].deps
  <2>1. CASE after[n] = nodes[n]
    BY <1>3, <2>1
  <2>2. CASE nodes[n] # None /\ after[n] = [nodes[n] EXCEPT !.state = "ready"]
    <3>1. nodes[n] \in Node
      BY <1>3, <2>2
    <3>2. after[n] \in Node /\ after[n].deps = nodes[n].deps
      BY <2>2, <3>1 DEF Node, NodeState
    <3> QED
      BY <2>2, <3>2, NoneAssumption
  <2> QED
    BY <1>2, <2>1, <2>2
<1>5. after \in LegacyNodes /\ Known(after) = Known(nodes)
  BY <1>2, <1>4 DEF LegacyNodes, Known
<1> QED
  BY <1>1, <1>2, <1>4, <1>5 DEF Known

\* What v1 knows of a ledger's Nodes: typed, within the budget, and a graph that
\* v2 accepts.
NodesSound(nodes) == nodes \in LegacyNodes /\ WithinPolicy(nodes) /\ Closed(nodes)

LEMMA ProposalsKeepNodes ==
  ASSUME NEW nodes, NodesSound(nodes), NEW proposal \in Proposals,
         ApplyProposal(nodes, proposal) # None
  PROVE  NodesSound(ApplyProposal(nodes, proposal))
<1>1. PICK N : N = Len(proposal.mutations) /\ N \in Nat
  BY ProposalsAssumption
<1>2. PICK mutated : mutated = After(nodes, proposal)[N]
  OBVIOUS
<1>3. /\ mutated # None /\ WithinPolicy(mutated)
      /\ ApplyProposal(nodes, proposal) = Recomputed(mutated)
  BY <1>1, <1>2 DEF ApplyProposal
<1>4. After(nodes, proposal) \in [0 .. N -> LegacyNodes \cup {None}] /\ nodes \in LegacyNodes
  BY <1>1, AfterSteps DEF NodesSound
<1>5. mutated \in LegacyNodes
  BY <1>1, <1>2, <1>3, <1>4
<1>6. Closed(mutated)
  BY <1>1, <1>2, <1>3, AfterKeepsClosed DEF NodesSound
<1>7. PICK after : after = Recomputed(mutated)
  OBVIOUS
<1>8. /\ after \in LegacyNodes /\ Known(after) = Known(mutated)
      /\ \A n \in Known(mutated) : after[n].deps = mutated[n].deps
  BY <1>5, <1>7, RecomputeKeeps
<1>9. Closed(after) /\ WithinPolicy(after)
  BY <1>3, <1>6, <1>8 DEF Closed, WithinPolicy, Acyclic
<1> QED
  BY <1>3, <1>7, <1>8, <1>9 DEF NodesSound

-----------------------------------------------------------------------------
(* Counting and witnessing. *)

Truth == [results : Nat, reopened : BOOLEAN, open : BOOLEAN, regular : BOOLEAN]

LEMMA RegularChanges ==
  ASSUME NEW t \in Truth, NEW b \in BOOLEAN
  PROVE  LET u == [t EXCEPT !.regular = b]
         IN  /\ u \in Truth /\ u.regular = b
             /\ u.results = t.results /\ u.reopened = t.reopened /\ u.open = t.open
BY DEF Truth

LEMMA ReopenedChanges ==
  ASSUME NEW t \in Truth
  PROVE  LET u == [t EXCEPT !.reopened = TRUE, !.open = TRUE]
         IN  /\ u \in Truth /\ u.reopened /\ u.open
             /\ u.results = t.results /\ u.regular = t.regular
BY DEF Truth

LEMMA ResultsChange ==
  ASSUME NEW t \in Truth
  PROVE  LET u == [t EXCEPT !.results = t.results + 1, !.open = FALSE]
         IN  /\ u \in Truth /\ u.results = t.results + 1 /\ ~u.open
             /\ u.reopened = t.reopened /\ u.regular = t.regular
<1>1. ASSUME NEW k \in Nat PROVE [t EXCEPT !.results = k, !.open = FALSE] \in Truth
  BY DEF Truth
<1>2. [t EXCEPT !.results = t.results + 1, !.open = FALSE].results = t.results + 1
  BY DEF Truth
<1>3. LET u == [t EXCEPT !.results = t.results + 1, !.open = FALSE]
      IN  ~u.open /\ u.reopened = t.reopened /\ u.regular = t.regular
  BY DEF Truth
<1>4. t.results + 1 \in Nat
  BY DEF Truth
<1> QED
  BY <1>1, <1>2, <1>3, <1>4

LEMMA WitnessedIsTyped ==
  ASSUME NEW truth \in Truth, NEW nodes, NEW m, NEW n
  PROVE  Witnessed(truth, nodes, m, n) \in Truth
<1>1. ASSUME NEW b \in BOOLEAN PROVE [truth EXCEPT !.regular = b] \in Truth
  BY RegularChanges
<1>2. /\ [truth EXCEPT !.reopened = TRUE, !.open = TRUE] \in Truth
      /\ [truth EXCEPT !.results = truth.results + 1, !.open = FALSE] \in Truth
  BY ReopenedChanges, ResultsChange
<1>3. (truth.regular /\ m.record.state # "completed") \in BOOLEAN
      /\ (truth.regular /\ ~truth.reopened) \in BOOLEAN
  OBVIOUS
<1>4. /\ [truth EXCEPT !.regular = truth.regular /\ m.record.state # "completed"] \in Truth
      /\ [truth EXCEPT !.regular = truth.regular /\ ~truth.reopened] \in Truth
      /\ [truth EXCEPT !.regular = FALSE] \in Truth
  BY <1>1, <1>3
<1> QED
  BY <1>2, <1>4 DEF Witnessed

(* The truth after each mutation is made from that after the one before. *)
LEMMA SeenSteps ==
  ASSUME NEW truth \in Truth, NEW nodes, NEW proposal \in Proposals, NEW n
  PROVE  LET seen == Seen(truth, nodes, proposal, n)
             N == Len(proposal.mutations)
         IN  /\ seen[0] = truth
             /\ \A i \in 1 .. N :
                  seen[i] = Witnessed(seen[i - 1], After(nodes, proposal)[i - 1],
                                      proposal.mutations[i], n)
<1>1. PICK N : N = Len(proposal.mutations) /\ N \in Nat
  BY ProposalsAssumption
<1> DEFINE Seeing(old, i) ==
             Witnessed(old, After(nodes, proposal)[i - 1], proposal.mutations[i], n)
           Is(seen) == seen = [i \in 0 .. N |-> IF i = 0 THEN truth ELSE Seeing(seen[i - 1], i)]
<1>2. PICK step : step = [i \in 1 .. N |-> [old \in Truth |-> Seeing(old, i)]]
  OBVIOUS
<1>3. step \in [1 .. N -> [Truth -> Truth]]
  <2>1. ASSUME NEW i \in 1 .. N, NEW old \in Truth PROVE Seeing(old, i) \in Truth
    BY WitnessedIsTyped
  <2> HIDE DEF Next
  <2> QED
    BY <1>2, <2>1
<1>4. PICK f \in [0 .. N -> Truth] : f[0] = truth /\ \A i \in 1 .. N : f[i] = step[i][f[i - 1]]
  <2>1. N \in Nat
    BY <1>1
  <2> DEFINE S == Truth
  <2>2. truth \in S /\ step \in [1 .. N -> [S -> S]]
    BY <1>3
  <2>3. truth \in S
    BY <2>2
  <2>4. step \in [1 .. N -> [S -> S]]
    BY <2>2
  <2> HIDE DEF S
  <2>5. \E f \in [0 .. N -> S] : f[0] = truth /\ \A i \in 1 .. N : f[i] = step[i][f[i - 1]]
    BY <2>1, <2>3, <2>4, RecursionIsDefined
  <2> QED
    BY <2>5 DEF S
<1> HIDE DEF Next
<1>5. ASSUME NEW i \in 1 .. N PROVE f[i] = Seeing(f[i - 1], i)
  <2>1. f[i - 1] \in Truth
    BY <1>1
  <2> QED
    BY <1>2, <1>4, <2>1
<1>6. Is(f)
  BY <1>1, <1>4, <1>5
<1>7. Seen(truth, nodes, proposal, n) = CHOOSE seen : Is(seen)
  BY <1>1 DEF Seen, Next
<1>8. Is(Seen(truth, nodes, proposal, n))
  <2> HIDE DEF Is
  <2> QED
    BY <1>6, <1>7
<1>9. PICK seen : seen = Seen(truth, nodes, proposal, n)
  OBVIOUS
<1>10. \A i \in 0 .. N : seen[i] = IF i = 0 THEN truth ELSE Seeing(seen[i - 1], i)
  BY <1>8, <1>9, Zenon
<1>11. seen[0] = truth /\ \A i \in 1 .. N : seen[i] = Seeing(seen[i - 1], i)
  BY <1>1, <1>10
<1> QED
  BY <1>1, <1>9, <1>11 DEF Next

Added(condition) == IF condition THEN 1 ELSE 0

\* How many of the first i indices are in P.
Counted(P, i) == Cardinality({k \in 1 .. i : k \in P})

LEMMA CountStep ==
  ASSUME NEW P, NEW i \in Nat \ {0}
  PROVE  Counted(P, i - 1) \in Nat /\ Counted(P, i) = Counted(P, i - 1) + Added(i \in P)
<1> DEFINE before == {k \in 1 .. i - 1 : k \in P}
           now == {k \in 1 .. i : k \in P}
<1>1. IsFiniteSet(1 .. i - 1)
  BY FS_Interval
<1>2. IsFiniteSet(before)
  BY <1>1, FS_Subset
<1>3. now = IF i \in P THEN before \cup {i} ELSE before
  OBVIOUS
<1>4. i \notin before
  OBVIOUS
<1>5. Counted(P, i - 1) = Cardinality(before) /\ Counted(P, i) = Cardinality(now)
  BY DEF Counted
<1> HIDE DEF before, now
<1>6. Cardinality(before) \in Nat /\ Cardinality(before \cup {i}) = Cardinality(before) + 1
  BY <1>2, <1>4, FS_CardinalityType, FS_AddElement
<1> QED
  BY <1>3, <1>5, <1>6 DEF Added

Completing(proposal, n) ==
  {i \in DOMAIN proposal.mutations :
     Completes(proposal.mutations[i]) /\ proposal.mutations[i].node = n}

Reopening(proposal, n) ==
  {i \in DOMAIN proposal.mutations :
     Reopens(proposal.mutations[i]) /\ proposal.mutations[i].node = n}

\* What happened to a Node, t, and what its ledger counts, c completions and r
\* reopenings: as long as its history is regular they are in step, a Node that is
\* worked on again was reopened as often as it completed, and one that was reopened
\* is at work or completed since.
Tells(node, t, c, r) ==
  /\ t \in Truth /\ c \in Nat /\ r \in Nat
  /\ node = None => c = 0 /\ r = 0 /\ t.results = 0 /\ ~t.reopened /\ ~t.open
  /\ t.regular =>
       /\ c = t.results /\ (t.reopened <=> r > 0) /\ (t.open => t.reopened)
       /\ node # None =>
            /\ node.state = "completed" => ~t.open /\ c > 0 /\ r + 1 >= c
            /\ node.state \notin {"completed", "superseded"} => r >= c
            /\ t.open => node.state # "superseded"
            /\ t.reopened /\ ~t.open => node.state = "completed"

\* A mutation of a Node that is there leaves a Node, in the state it sets.
LEMMA MutatedState ==
  ASSUME NEW nodes \in LegacyNodes, NEW m \in Mutation, nodes[m.node] # None,
         m.op \in {"add_dependency", "set_state", "set_session", "reopen_agent", "supersede"}
  PROVE  LET old == nodes[m.node]
             new == ApplyMutation(nodes, m)[m.node]
         IN  /\ m.node \in LegacyNode /\ old \in Node /\ new \in Node
             /\ m.op = "set_state" => new.state = m.state
             /\ m.op = "reopen_agent" => new.state = "ready"
             /\ m.op = "supersede" => new.state = "superseded"
             /\ m.op \in {"add_dependency", "set_session"} => new.state = old.state
<1>1. m.node \in LegacyNode
  BY DEF Mutation
<1>2. nodes[m.node] \in Node
  BY <1>1 DEF LegacyNodes
<1>3. ASSUME NEW new, ApplyMutation(nodes, m) = [nodes EXCEPT ![m.node] = new]
      PROVE  ApplyMutation(nodes, m)[m.node] = new
  BY <1>1, <1>3 DEF LegacyNodes
<1>4. ASSUME NEW state \in NodeState
      PROVE  [nodes[m.node] EXCEPT !.state = state] \in Node
             /\ [nodes[m.node] EXCEPT !.state = state].state = state
  BY <1>2 DEF Node
<1>5. CASE m.op = "add_dependency"
  <2>1. m.deps \subseteq LegacyNode
    BY <1>5 DEF Mutation
  <2>2. [nodes[m.node] EXCEPT !.deps = @ \cup m.deps] \in Node
        /\ [nodes[m.node] EXCEPT !.deps = @ \cup m.deps].state = nodes[m.node].state
    BY <1>2, <2>1 DEF Node
  <2>3. ApplyMutation(nodes, m)[m.node] = [nodes[m.node] EXCEPT !.deps = @ \cup m.deps]
    BY <1>3, <1>5 DEF ApplyMutation
  <2> QED
    BY <1>1, <1>2, <1>5, <2>2, <2>3
<1>6. CASE m.op = "set_session"
  <2>1. [nodes[m.node] EXCEPT !.session = TRUE] \in Node
        /\ [nodes[m.node] EXCEPT !.session = TRUE].state = nodes[m.node].state
    BY <1>2 DEF Node
  <2>2. ApplyMutation(nodes, m)[m.node] = [nodes[m.node] EXCEPT !.session = TRUE]
    BY <1>3, <1>6 DEF ApplyMutation
  <2> QED
    BY <1>1, <1>2, <1>6, <2>1, <2>2
<1>7. CASE m.op = "set_state"
  <2>1. m.state \in NodeState
    BY <1>7 DEF Mutation
  <2>2. ApplyMutation(nodes, m)[m.node] = [nodes[m.node] EXCEPT !.state = m.state]
    BY <1>3, <1>7 DEF ApplyMutation
  <2> QED
    BY <1>1, <1>2, <1>4, <1>7, <2>1, <2>2
<1>8. CASE m.op = "reopen_agent"
  <2>1. ApplyMutation(nodes, m)[m.node] = [nodes[m.node] EXCEPT !.state = "ready"]
    BY <1>3, <1>8 DEF ApplyMutation
  <2> QED
    BY <1>1, <1>2, <1>4, <1>8, <2>1 DEF NodeState
<1>9. CASE m.op = "supersede"
  <2>1. ApplyMutation(nodes, m)[m.node] = [nodes[m.node] EXCEPT !.state = "superseded"]
    BY <1>3, <1>9 DEF ApplyMutation
  <2> QED
    BY <1>1, <1>2, <1>4, <1>9, <2>1 DEF NodeState
<1> QED
  BY <1>5, <1>6, <1>7, <1>8, <1>9

LEMMA MutationsAreTold ==
  ASSUME NEW nodes \in LegacyNodes, NEW actor, NEW m \in Mutation, ValidMutation(nodes, actor, m),
         NEW n \in LegacyNode, NEW t, NEW c, NEW r, Tells(nodes[n], t, c, r)
  PROVE  Tells(ApplyMutation(nodes, m)[n], Witnessed(t, nodes, m, n),
               c + Added(Completes(m) /\ m.node = n), r + Added(Reopens(m) /\ m.node = n))
<1>1. t \in Truth /\ c \in Nat /\ r \in Nat
  BY DEF Tells
<1>2. CASE m.op = "unimported"
  BY <1>1, <1>2 DEF ApplyMutation, Witnessed, Completes, Reopens, Added
<1>3. CASE m.op = "malformed"
  BY <1>3 DEF ValidMutation
<1>4. CASE m.op \notin {"unimported", "malformed"} /\ m.node # n
  <2>1. ApplyMutation(nodes, m)[n] = nodes[n]
    BY <1>4 DEF ApplyMutation, Mutation, LegacyNodes
  <2>2. Witnessed(t, nodes, m, n) = t
    BY <1>4 DEF Witnessed
  <2> QED
    BY <1>1, <1>4, <2>1, <2>2 DEF Added
<1>5. CASE m.op = "add_node" /\ m.node = n
  <2>1. nodes[n] = None /\ m.record \in Node
    BY <1>5 DEF ValidMutation, Mutation
  <2>2. ApplyMutation(nodes, m)[n] = m.record /\ m.record # None
    BY <1>5, <2>1, NoneAssumption DEF ApplyMutation, LegacyNodes
  <2>3. PICK b \in BOOLEAN : b <=> t.regular /\ m.record.state # "completed"
    OBVIOUS
  <2>4. Witnessed(t, nodes, m, n) = [t EXCEPT !.regular = b]
    <3>1. Witnessed(t, nodes, m, n) = [t EXCEPT !.regular = @ /\ m.record.state # "completed"]
      BY <1>5, Zenon DEF Witnessed, Completes
    <3>2. (t.regular /\ m.record.state # "completed") = b
      BY <1>1, <2>3 DEF Truth
    <3> QED
      BY <3>1, <3>2
  <2>5. PICK u : u = Witnessed(t, nodes, m, n)
    OBVIOUS
  <2>6. /\ u \in Truth /\ u.results = t.results /\ u.reopened = t.reopened /\ u.open = t.open
        /\ u.regular = b
    BY <1>1, <2>4, <2>5, RegularChanges
  <2>7. c = 0 /\ r = 0 /\ t.results = 0 /\ ~t.reopened /\ ~t.open
    BY <2>1 DEF Tells
  <2>8. c + Added(Completes(m) /\ m.node = n) = 0 /\ r + Added(Reopens(m) /\ m.node = n) = 0
    BY <1>5, <2>7 DEF Added, Completes, Reopens
  <2>9. Tells(m.record, u, 0, 0)
    BY <2>2, <2>3, <2>6, <2>7 DEF Tells
  <2> QED
    BY <2>2, <2>5, <2>8, <2>9
<1>6. CASE m.op \in {"add_dependency", "set_state", "set_session", "reopen_agent", "supersede"}
           /\ m.node = n
  <2>1. nodes[n] # None
    BY <1>6 DEF ValidMutation
  <2>2. PICK old : old = nodes[n]
    OBVIOUS
  <2>3. PICK new : new = ApplyMutation(nodes, m)[n]
    OBVIOUS
  <2>4. /\ old \in Node /\ new \in Node
        /\ m.op = "set_state" => new.state = m.state
        /\ m.op = "reopen_agent" => new.state = "ready"
        /\ m.op = "supersede" => new.state = "superseded"
        /\ m.op \in {"add_dependency", "set_session"} => new.state = old.state
    BY <1>6, <2>1, <2>2, <2>3, MutatedState
  <2>5. old # None /\ new # None
    BY <2>4, NoneAssumption
  <2>6. PICK u : u = Witnessed(t, nodes, m, n)
    OBVIOUS
  <2>7. Tells(old, t, c, r)
    BY <2>2
  <2>8. CASE m.op \in {"add_dependency", "set_session"}
    <3>1. u = t
      BY <2>6, <2>8, Zenon DEF Witnessed, Completes
    <3>2. c + Added(Completes(m) /\ m.node = n) = c /\ r + Added(Reopens(m) /\ m.node = n) = r
      BY <1>1, <2>8 DEF Added, Completes, Reopens
    <3>3. Tells(new, t, c, r)
      BY <2>4, <2>5, <2>7, <2>8 DEF Tells
    <3> QED
      BY <2>3, <2>6, <3>1, <3>2, <3>3
  <2>9. CASE m.op = "reopen_agent"
    <3>1. u = [t EXCEPT !.reopened = TRUE, !.open = TRUE]
      BY <1>6, <2>6, <2>9, Zenon DEF Witnessed, Completes
    <3>2. /\ u \in Truth /\ u.results = t.results /\ u.reopened /\ u.open /\ u.regular = t.regular
      BY <1>1, <3>1, ReopenedChanges
    <3>3. old.state \in {"completed", "waiting", "failed"}
      BY <1>6, <2>2, <2>9 DEF ValidMutation
    <3>4. c + Added(Completes(m) /\ m.node = n) = c /\ r + Added(Reopens(m) /\ m.node = n) = r + 1
      BY <1>1, <1>6, <2>9 DEF Added, Completes, Reopens
    <3>5. Tells(new, u, c, r + 1)
      BY <1>1, <2>4, <2>5, <2>7, <2>9, <3>2, <3>3 DEF Tells
    <3> QED
      BY <2>3, <2>6, <3>4, <3>5
  <2>10. CASE m.op = "supersede"
    <3>1. PICK b \in BOOLEAN : b <=> t.regular /\ ~t.reopened
      OBVIOUS
    <3>2. u = [t EXCEPT !.regular = b]
      <4>1. u = [t EXCEPT !.regular = @ /\ ~t.reopened]
        BY <1>6, <2>6, <2>10, Zenon DEF Witnessed, Completes
      <4>2. (t.regular /\ ~t.reopened) = b
        BY <1>1, <3>1 DEF Truth
      <4> QED
        BY <4>1, <4>2
    <3>3. /\ u \in Truth /\ u.results = t.results /\ u.reopened = t.reopened /\ u.open = t.open
          /\ u.regular = b
      BY <1>1, <3>2, RegularChanges
    <3>4. c + Added(Completes(m) /\ m.node = n) = c /\ r + Added(Reopens(m) /\ m.node = n) = r
      BY <1>1, <2>10 DEF Added, Completes, Reopens
    <3>5. Tells(new, u, c, r)
      BY <2>4, <2>5, <2>7, <2>10, <3>1, <3>3 DEF Tells
    <3> QED
      BY <2>3, <2>6, <3>4, <3>5
  <2>11. CASE m.op = "set_state" /\ m.state # "completed"
    <3>1. u = t
      BY <2>6, <2>11, Zenon DEF Witnessed, Completes
    <3>2. ValidTransition(old.state, new.state)
      BY <1>6, <2>2, <2>4, <2>11 DEF ValidMutation
    <3>3. c + Added(Completes(m) /\ m.node = n) = c /\ r + Added(Reopens(m) /\ m.node = n) = r
      BY <1>1, <2>11 DEF Added, Completes, Reopens
    <3>4. Tells(new, t, c, r)
      BY <2>4, <2>5, <2>7, <2>11, <3>2 DEF Tells, ValidTransition
    <3> QED
      BY <2>3, <2>6, <3>1, <3>3, <3>4
  <2>12. CASE m.op = "set_state" /\ m.state = "completed"
    <3>1. Completes(m) /\ m.node = n
      BY <1>6, <2>12 DEF Completes
    <3>2. c + Added(Completes(m) /\ m.node = n) = c + 1 /\ r + Added(Reopens(m) /\ m.node = n) = r
      BY <1>1, <3>1, <2>12 DEF Added, Reopens
    <3>3. CASE old.state = "completed"
      <4>1. u = [t EXCEPT !.regular = FALSE]
        BY <2>2, <2>6, <2>12, <3>1, <3>3, Zenon DEF Witnessed
      <4>2. u \in Truth /\ ~u.regular
        BY <1>1, <4>1, RegularChanges
      <4>3. Tells(new, u, c + 1, r)
        BY <1>1, <2>5, <4>2 DEF Tells
      <4> QED
        BY <2>3, <2>6, <3>2, <4>3
    <3>4. CASE old.state # "completed"
      <4>1. u = [t EXCEPT !.results = @ + 1, !.open = FALSE]
        BY <2>2, <2>6, <2>12, <3>1, <3>4, Zenon DEF Witnessed
      <4>2. /\ u \in Truth /\ u.results = t.results + 1 /\ u.reopened = t.reopened /\ ~u.open
            /\ u.regular = t.regular
        BY <1>1, <4>1, ResultsChange
      <4>3. ValidTransition(old.state, "completed")
        BY <1>6, <2>2, <2>12 DEF ValidMutation
      <4>4. old.state = "running"
        BY <3>4, <4>3 DEF ValidTransition
      <4>5. t.results \in Nat /\ new.state = "completed"
        BY <1>1, <2>4, <2>12 DEF Truth
      <4>6. Tells(new, u, c + 1, r)
        BY <1>1, <2>5, <2>7, <4>2, <4>4, <4>5 DEF Tells
      <4> QED
        BY <2>3, <2>6, <3>2, <4>6
    <3> QED
      BY <3>3, <3>4
  <2> QED
    BY <1>6, <2>8, <2>9, <2>10, <2>11, <2>12
<1> QED
  BY <1>2, <1>3, <1>4, <1>5, <1>6 DEF Mutation

\* Counted along a proposal: what it says after its first i mutations.
LEMMA PrefixesAreTold ==
  ASSUME NEW nodes \in LegacyNodes, NEW proposal \in Proposals, NEW n \in LegacyNode,
         NEW t, NEW c, NEW r, Tells(nodes[n], t, c, r),
         NEW i \in 0 .. Len(proposal.mutations), After(nodes, proposal)[i] # None
  PROVE  Tells(After(nodes, proposal)[i][n], Seen(t, nodes, proposal, n)[i],
               c + Counted(Completing(proposal, n), i),
               r + Counted(Reopening(proposal, n), i))
<1>1. PICK N : N = Len(proposal.mutations)
  OBVIOUS
<1>2. PICK after, seen : after = After(nodes, proposal) /\ seen = Seen(t, nodes, proposal, n)
  OBVIOUS
<1>3. PICK P, Q : P = Completing(proposal, n) /\ Q = Reopening(proposal, n)
  OBVIOUS
<1>4. N \in Nat /\ t \in Truth /\ c \in Nat /\ r \in Nat
  BY <1>1, ProposalsAssumption DEF Tells
<1>5. /\ after \in [0 .. N -> LegacyNodes \cup {None}] /\ after[0] = nodes
      /\ \A k \in 1 .. N :
           after[k] = Mutated(after[k - 1], proposal.actor, proposal.mutations[k])
  BY <1>1, <1>2, AfterSteps
<1>6. /\ seen[0] = t
      /\ \A k \in 1 .. N :
           seen[k] = Witnessed(seen[k - 1], after[k - 1], proposal.mutations[k], n)
  BY <1>1, <1>2, <1>4, SeenSteps
<1>7. ASSUME NEW k \in 1 .. N
      PROVE  /\ proposal.mutations[k] \in Mutation
             /\ k \in P <=> Completes(proposal.mutations[k]) /\ proposal.mutations[k].node = n
             /\ k \in Q <=> Reopens(proposal.mutations[k]) /\ proposal.mutations[k].node = n
  <2>1. proposal.mutations \in Seq(Mutation)
    BY ProposalsAssumption
  <2>2. k \in DOMAIN proposal.mutations /\ proposal.mutations[k] \in Mutation
    BY <1>1, <2>1
  <2> QED
    BY <1>3, <2>2 DEF Completing, Reopening
<1> DEFINE Told(k) == Tells(after[k][n], seen[k], c + Counted(P, k),
                            r + Counted(Q, k))
           T == {k \in 0 .. N : after[k] # None => Told(k)}
<1>8. 0 \in T
  <2>1. \A R : {j \in 1 .. 0 : j \in R} = {}
    OBVIOUS
  <2>2. Counted(P, 0) = 0 /\ Counted(Q, 0) = 0
    BY <2>1, FS_EmptySet DEF Counted
  <2>3. c + Counted(P, 0) = c /\ r + Counted(Q, 0) = r
    BY <1>4, <2>2
  <2>4. Told(0)
    BY <1>5, <1>6, <2>3
  <2> HIDE DEF Told
  <2> QED
    BY <1>4, <2>4
<1>9. ASSUME NEW k \in 1 .. N, k - 1 \in T PROVE k \in T
  <2> SUFFICES ASSUME after[k] # None PROVE Told(k)
    BY <1>4
  <2>1. PICK old, m : old = after[k - 1] /\ m = proposal.mutations[k] /\ m \in Mutation
    BY <1>7
  <2>2. /\ old # None /\ ValidMutation(old, proposal.actor, m)
        /\ after[k] = ApplyMutation(old, m)
    BY <1>5, <2>1 DEF Mutated
  <2>3. old \in LegacyNodes
    <3>1. k - 1 \in 0 .. N
      BY <1>4
    <3> QED
      BY <1>5, <2>1, <2>2, <3>1
  <2>4. PICK c0, r0 : /\ c0 = Counted(P, k - 1)
                      /\ r0 = Counted(Q, k - 1)
    OBVIOUS
  <2>5. Tells(old[n], seen[k - 1], c + c0, r + r0)
    BY <1>9, <2>1, <2>2, <2>4
  <2>6. seen[k] = Witnessed(seen[k - 1], old, m, n)
    BY <1>6, <2>1
  <2>7. Tells(after[k][n], seen[k], c + c0 + Added(Completes(m) /\ m.node = n),
              r + r0 + Added(Reopens(m) /\ m.node = n))
    <3>1. PICK t1, c1, r1 : t1 = seen[k - 1] /\ c1 = c + c0 /\ r1 = r + r0
      OBVIOUS
    <3>2. Tells(old[n], t1, c1, r1)
      BY <2>5, <3>1
    <3>3. Tells(ApplyMutation(old, m)[n], Witnessed(t1, old, m, n),
                c1 + Added(Completes(m) /\ m.node = n), r1 + Added(Reopens(m) /\ m.node = n))
      <4>1. m \in Mutation /\ ValidMutation(old, proposal.actor, m)
        BY <2>1, <2>2
      <4> QED
        BY <2>3, <3>2, <4>1, MutationsAreTold
    <3> QED
      BY <2>2, <2>6, <3>1, <3>3
  <2>8. k \in Nat \ {0}
    BY <1>4
  <2>9. /\ c0 \in Nat /\ Counted(P, k) = c0 + Added(k \in P)
        /\ r0 \in Nat /\ Counted(Q, k) = r0 + Added(k \in Q)
    BY <2>4, <2>8, CountStep
  <2>10. /\ Added(k \in P) = Added(Completes(m) /\ m.node = n)
         /\ Added(k \in Q) = Added(Reopens(m) /\ m.node = n)
    BY <1>7, <2>1 DEF Added
  <2>11. Added(Completes(m) /\ m.node = n) \in Nat /\ Added(Reopens(m) /\ m.node = n) \in Nat
    BY DEF Added
  <2>12. /\ c + Counted(P, k) = c + c0 + Added(Completes(m) /\ m.node = n)
         /\ r + Counted(Q, k) = r + r0 + Added(Reopens(m) /\ m.node = n)
    BY <1>4, <2>9, <2>10, <2>11
  <2> QED
    BY <2>7, <2>12
<1>10. 0 .. N \subseteq T
  <2>1. N \in Nat
    BY <1>4
  <2> HIDE DEF T
  <2> QED
    BY <1>8, <1>9, <2>1, EveryStep
<1>11. i \in T
  BY <1>1, <1>10
<1>12. Told(i)
  BY <1>2, <1>11
<1> QED
  BY <1>2, <1>3, <1>12

\* A whole proposal, with the recomputation at its end.
LEMMA ProposalsAreTold ==
  ASSUME NEW nodes \in LegacyNodes, NEW proposal \in Proposals, NEW n \in LegacyNode,
         NEW t, NEW c, NEW r, Tells(nodes[n], t, c, r), ApplyProposal(nodes, proposal) # None
  PROVE  Tells(ApplyProposal(nodes, proposal)[n],
               Seen(t, nodes, proposal, n)[Len(proposal.mutations)],
               c + CompletionsIn(proposal, n), r + ReopeningsIn(proposal, n))
<1>1. PICK N : N = Len(proposal.mutations)
  OBVIOUS
<1>2. N \in Nat /\ DOMAIN proposal.mutations = 1 .. N
  BY <1>1, ProposalsAssumption
<1>3. PICK mutated : mutated = After(nodes, proposal)[N]
  OBVIOUS
<1>4. mutated # None /\ ApplyProposal(nodes, proposal) = Recomputed(mutated)
  BY <1>1, <1>3 DEF ApplyProposal
<1>5. mutated \in LegacyNodes
  <2>1. After(nodes, proposal) \in [0 .. N -> LegacyNodes \cup {None}]
    BY <1>1, AfterSteps
  <2> QED
    BY <1>2, <1>3, <1>4, <2>1
<1>6. /\ {k \in 1 .. N : k \in Completing(proposal, n)} = Completing(proposal, n)
      /\ {k \in 1 .. N : k \in Reopening(proposal, n)} = Reopening(proposal, n)
  BY <1>2 DEF Completing, Reopening
<1>7. /\ Counted(Completing(proposal, n), N) = CompletionsIn(proposal, n)
      /\ Counted(Reopening(proposal, n), N) = ReopeningsIn(proposal, n)
  BY <1>6 DEF Counted, CompletionsIn, ReopeningsIn, Completing, Reopening
<1>8. PICK u, c1, r1 : /\ u = Seen(t, nodes, proposal, n)[N]
                       /\ c1 = c + CompletionsIn(proposal, n)
                       /\ r1 = r + ReopeningsIn(proposal, n)
  OBVIOUS
<1>9. Tells(mutated[n], u, c1, r1)
  <2>1. N \in 0 .. Len(proposal.mutations)
    BY <1>1, <1>2
  <2> QED
    BY <1>3, <1>4, <1>7, <1>8, <2>1, PrefixesAreTold
<1>10. Tells(Recomputed(mutated)[n], u, c1, r1)
  <2>1. CASE Recomputed(mutated)[n] = mutated[n]
    BY <1>9, <2>1
  <2>2. CASE /\ mutated[n] # None /\ mutated[n].state = "pending"
             /\ Recomputed(mutated)[n] = [mutated[n] EXCEPT !.state = "ready"]
    <3>1. PICK old, new : /\ old = mutated[n] /\ old \in Node
                          /\ new = [old EXCEPT !.state = "ready"] /\ new = Recomputed(mutated)[n]
      BY <1>5, <2>2 DEF LegacyNodes
    <3>2. new \in Node /\ new.state = "ready"
      BY <3>1 DEF Node, NodeState
    <3>3. old # None /\ new # None /\ old.state = "pending"
      BY <2>2, <3>1, <3>2, NoneAssumption
    <3>4. Tells(old, u, c1, r1)
      BY <1>9, <3>1
    <3>5. Tells(new, u, c1, r1)
      BY <3>2, <3>3, <3>4 DEF Tells
    <3> QED
      BY <3>1, <3>5
  <2> QED
    BY <1>5, <2>1, <2>2, RecomputeKeeps
<1> QED
  BY <1>1, <1>4, <1>8, <1>10

-----------------------------------------------------------------------------
(* Ledgers as v1 writes them. *)

\* A ledger that replays: its Nodes are a graph v2 accepts, and its counts tell
\* what happened to each of them.
LedgerSound(ledger) ==
  /\ ledger.length \in 0 .. MaxEntries
  /\ ledger.history # None =>
       /\ ledger.history \in History /\ NodesSound(ledger.history.nodes)
       /\ \A n \in LegacyNode :
            Tells(ledger.history.nodes[n], ledger.truth[n],
                  ledger.history.completions[n], ledger.history.reopened[n])

LedgersSound == \A l \in Ledger : LedgerSound(source[l])

LEMMA AbsentIsSound == LedgerSound(Absent)
BY EntriesAssumption DEF Absent, LedgerSound

\* A Workflow as it is created, perhaps with completed Nodes.
LEMMA CreatedIsSound ==
  ASSUME NEW nodes \in Creations, MaxEntries > 0
  PROVE  LedgerSound(
           [length |-> 1, history |-> Created(nodes),
            truth |-> [n \in LegacyNode |-> [Untouched EXCEPT !.results = Created(nodes).completions[n]]]])
<1>1. NodesSound(nodes) /\ nodes \in LegacyNodes
  BY CreationsAssumption DEF NodesSound, Closed
<1>2. PICK history : history = Created(nodes)
  OBVIOUS
<1>3. /\ history = [nodes |-> history.nodes, completions |-> history.completions, reopened |-> history.reopened]
      /\ history.nodes = nodes
      /\ history.completions = [n \in LegacyNode |->
                                  IF n \in Known(nodes) /\ nodes[n].state = "completed" THEN 1 ELSE 0]
      /\ history.reopened = [n \in LegacyNode |-> 0]
  BY <1>2 DEF Created
<1>4. history.completions \in [LegacyNode -> Nat] /\ history.reopened \in [LegacyNode -> Nat]
  BY <1>3
<1>5. history \in History
  BY <1>1, <1>3, <1>4 DEF History
<1>6. PICK truth : truth = [n \in LegacyNode |-> [Untouched EXCEPT !.results = history.completions[n]]]
  OBVIOUS
<1>7. ASSUME NEW n \in LegacyNode
      PROVE  Tells(history.nodes[n], truth[n], history.completions[n], history.reopened[n])
  <2>1. PICK k \in Nat : k = history.completions[n]
    BY <1>4
  <2>2. PICK t : t = truth[n]
    OBVIOUS
  <2>3. t = [results |-> k, reopened |-> FALSE, open |-> FALSE, regular |-> TRUE]
    BY <1>6, <2>1, <2>2 DEF Untouched
  <2>4. t \in Truth /\ t.results = k /\ ~t.reopened /\ ~t.open /\ t.regular
    BY <2>3 DEF Truth
  <2>5. k = (IF n \in Known(nodes) /\ nodes[n].state = "completed" THEN 1 ELSE 0)
        /\ history.reopened[n] = 0
    BY <1>3, <2>1
  <2>6. /\ nodes[n] = None => k = 0
        /\ nodes[n] # None => k = (IF nodes[n].state = "completed" THEN 1 ELSE 0)
    BY <2>5 DEF Known
  <2>7. PICK node : node = nodes[n]
    OBVIOUS
  <2>8. /\ node = None => k = 0
        /\ node # None => k = (IF node.state = "completed" THEN 1 ELSE 0)
    BY <2>6, <2>7
  <2>9. Tells(node, t, k, 0)
    BY <2>4, <2>8 DEF Tells
  <2> QED
    BY <1>3, <2>1, <2>2, <2>5, <2>7, <2>9
<1>8. 1 \in 0 .. MaxEntries
  BY EntriesAssumption
<1>9. PICK ledger : ledger = [length |-> 1, history |-> history, truth |-> truth]
  OBVIOUS
<1>10. ledger.length = 1 /\ ledger.history = history /\ ledger.truth = truth
  BY <1>9
<1>11. LedgerSound(ledger)
  BY <1>1, <1>3, <1>5, <1>7, <1>8, <1>10 DEF LedgerSound
<1> QED
  BY <1>2, <1>6, <1>9, <1>11

\* A proposal, accepted or not.
LEMMA ProposedIsSound ==
  ASSUME NEW ledger, LedgerSound(ledger), ledger.length < MaxEntries, NEW proposal \in Proposals
  PROVE  LET history == Proposed(ledger.history, proposal)
         IN  LedgerSound([length |-> ledger.length + 1, history |-> history,
               truth |-> IF history = None THEN Absent.truth ELSE WitnessedAll(ledger, proposal)])
<1>1. PICK history : history = Proposed(ledger.history, proposal)
  OBVIOUS
<1>2. PICK truth : truth = IF history = None THEN Absent.truth ELSE WitnessedAll(ledger, proposal)
  OBVIOUS
<1>3. PICK new : new = [length |-> ledger.length + 1, history |-> history, truth |-> truth]
  OBVIOUS
<1>4. new.length = ledger.length + 1 /\ new.history = history /\ new.truth = truth
  BY <1>3
<1>5. new.length \in 0 .. MaxEntries
  BY <1>4, EntriesAssumption DEF LedgerSound
<1>6. ASSUME history # None
      PROVE  /\ history \in History /\ NodesSound(history.nodes)
             /\ \A n \in LegacyNode :
                  Tells(history.nodes[n], truth[n], history.completions[n], history.reopened[n])
  <2>1. PICK old : old = ledger.history
    OBVIOUS
  <2>2. PICK nodes : nodes = ApplyProposal(old.nodes, proposal)
    OBVIOUS
  <2>3. /\ old # None /\ nodes # None
        /\ history =
             [nodes |-> nodes,
              completions |-> [n \in LegacyNode |-> old.completions[n] + CompletionsIn(proposal, n)],
              reopened |-> [n \in LegacyNode |-> old.reopened[n] + ReopeningsIn(proposal, n)]]
    BY <1>1, <1>6, <2>1, <2>2 DEF Proposed
  <2>4. /\ history.nodes = nodes
        /\ history.completions = [n \in LegacyNode |-> old.completions[n] + CompletionsIn(proposal, n)]
        /\ history.reopened = [n \in LegacyNode |-> old.reopened[n] + ReopeningsIn(proposal, n)]
        /\ history = [nodes |-> history.nodes, completions |-> history.completions,
                      reopened |-> history.reopened]
    BY <2>3
  <2>5. /\ NodesSound(old.nodes) /\ old.nodes \in LegacyNodes
        /\ \A n \in LegacyNode :
             Tells(old.nodes[n], ledger.truth[n], old.completions[n], old.reopened[n])
    BY <2>1, <2>3 DEF LedgerSound, NodesSound
  <2>6. NodesSound(nodes)
    BY <2>2, <2>3, <2>5, ProposalsKeepNodes
  <2>7. ASSUME NEW n \in LegacyNode
        PROVE  Tells(history.nodes[n], truth[n], history.completions[n], history.reopened[n])
    <3>1. Tells(nodes[n], Seen(ledger.truth[n], old.nodes, proposal, n)[Len(proposal.mutations)],
                old.completions[n] + CompletionsIn(proposal, n),
                old.reopened[n] + ReopeningsIn(proposal, n))
      <4>1. PICK t, c, r : t = ledger.truth[n] /\ c = old.completions[n] /\ r = old.reopened[n]
        OBVIOUS
      <4>2. Tells(old.nodes[n], t, c, r)
        BY <2>5, <4>1
      <4>3. Tells(nodes[n], Seen(t, old.nodes, proposal, n)[Len(proposal.mutations)],
                  c + CompletionsIn(proposal, n), r + ReopeningsIn(proposal, n))
        BY <2>2, <2>3, <2>5, <4>2, ProposalsAreTold
      <4> QED
        BY <4>1, <4>3
    <3>2. truth = WitnessedAll(ledger, proposal)
      BY <1>2, <1>6
    <3>3. truth[n] = Seen(ledger.truth[n], old.nodes, proposal, n)[Len(proposal.mutations)]
      BY <2>1, <3>2 DEF WitnessedAll
    <3>4. /\ history.completions[n] = old.completions[n] + CompletionsIn(proposal, n)
          /\ history.reopened[n] = old.reopened[n] + ReopeningsIn(proposal, n)
      BY <2>4
    <3> QED
      BY <2>4, <3>1, <3>3, <3>4
  <2>8. \A n \in LegacyNode : history.completions[n] \in Nat /\ history.reopened[n] \in Nat
    BY <2>7 DEF Tells
  <2>9. history.completions \in [LegacyNode -> Nat] /\ history.reopened \in [LegacyNode -> Nat]
    BY <2>4, <2>8
  <2>10. history.nodes \in LegacyNodes
    BY <2>4, <2>6 DEF NodesSound
  <2>11. history \in History
    BY <2>4, <2>9, <2>10 DEF History
  <2> QED
    BY <2>4, <2>6, <2>7, <2>11
<1>7. LedgerSound(new)
  BY <1>4, <1>5, <1>6 DEF LedgerSound
<1> QED
  BY <1>1, <1>2, <1>3, <1>7

LEMMA LedgersStaySound ==
  ASSUME Shaped, LedgersSound, [Next]_vars
  PROVE  LedgersSound'
<1>1. ASSUME NEW l \in Ledger, NEW new, LedgerSound(new), source' = [source EXCEPT ![l] = new]
      PROVE  LedgersSound'
  <2>1. source'[l] = new /\ \A k \in Ledger : k # l => source'[k] = source[k]
    BY <1>1 DEF Shaped
  <2> QED
    BY <1>1, <2>1 DEF LedgersSound
<1>2. ASSUME NEW l \in Ledger, NEW nodes \in Creations, Create(l, nodes)
      PROVE  LedgersSound'
  BY <1>1, <1>2, CreatedIsSound DEF Create
<1>3. ASSUME NEW l \in Ledger, NEW proposal \in Proposals, Propose(l, proposal)
      PROVE  LedgersSound'
  <2>1. LedgerSound(source[l]) /\ source[l].length < MaxEntries
    BY <1>3 DEF Propose, LedgersSound
  <2>2. PICK new :
          /\ LET history == Proposed(source[l].history, proposal)
             IN  new = [length |-> source[l].length + 1, history |-> history,
                        truth |-> IF history = None THEN Absent.truth
                                  ELSE WitnessedAll(source[l], proposal)]
          /\ source' = [source EXCEPT ![l] = new]
    BY <1>3 DEF Propose, Shaped
  <2>3. LedgerSound(new)
    BY <2>1, <2>2, ProposedIsSound
  <2> QED
    BY <1>1, <2>2, <2>3
<1>4. ASSUME source' = source PROVE LedgersSound'
  BY <1>4 DEF LedgersSound
<1>5. ASSUME NEW c \in Caller,
             \/ \E key \in Key : Call(c, key)
             \/ \E l \in Ledger : Read(c, l)
             \/ Import(c) \/ AnswerNew(c) \/ AnswerExisting(c) \/ GiveUp(c)
      PROVE  source' = source
  BY <1>5 DEF Call, Read, Import, AnswerNew, AnswerExisting, Return, GiveUp
<1>6. CASE UNCHANGED vars
  BY <1>4, <1>6 DEF vars
<1> QED
  BY <1>2, <1>3, <1>4, <1>5, <1>6 DEF Next

LEMMA ShapedStays ==
  ASSUME Shaped, [Next]_vars
  PROVE  Shaped'
<1>1. ASSUME NEW l \in Ledger,
             (\E nodes \in Creations : Create(l, nodes)) \/ \E p \in Proposals : Propose(l, p)
      PROVE  Shaped'
  BY <1>1, WriteEffect
<1>2. ASSUME NEW c \in Caller,
             \/ \E key \in Key : Call(c, key)
             \/ \E l \in Ledger : Read(c, l)
             \/ Import(c)
      PROVE  Shaped'
  BY <1>2, CallEffect, ReadEffect, ImportEffect
<1>3. ASSUME NEW c \in Caller, AnswerNew(c) \/ AnswerExisting(c) \/ GiveUp(c)
      PROVE  Shaped'
  <2>1. source' = source /\ calls' = [calls EXCEPT ![c] = None]
    BY <1>3 DEF AnswerNew, AnswerExisting, Return, GiveUp
  <2> QED
    BY <2>1, EndEffect
<1>4. CASE UNCHANGED vars
  BY <1>4 DEF vars, Shaped
<1> QED
  BY <1>1, <1>2, <1>3, <1>4 DEF Next

LEMMA InitSound == Init => LedgersSound
BY AbsentIsSound DEF Init, LedgersSound

LEMMA LedgersAreSound == Spec => [](Shaped /\ LedgersSound)
<1>1. Init => Shaped /\ LedgersSound
  BY InitShaped, InitSound
<1>2. Shaped /\ LedgersSound /\ [Next]_vars => (Shaped /\ LedgersSound)'
  BY ShapedStays, LedgersStaySound
<1> QED
  BY <1>1, <1>2, PTL DEF Spec

(* A ledger that replays is never refused by the checks of v2, for any proposals
   that follow one another: no mutation loses a Node or names a dependency there
   is not, no proposal leaves a cycle, and recompute changes no dependency
   (legacyimport/reducer.go, findCycle; supervisor/reducer.go, validateDAG). *)
THEOREM ReplayedIsAlwaysAccepted == Spec => []ReplayedIsAccepted
<1>1. LedgersSound => ReplayedIsAccepted
  <2> SUFFICES ASSUME LedgersSound, NEW l \in Ledger, source[l].history # None
               PROVE  Accepted(ImportedWorkflow(source[l].history))
    BY DEF ReplayedIsAccepted
  <2>1. PICK history, nodes : history = source[l].history /\ nodes = history.nodes
    OBVIOUS
  <2>2. Acyclic(nodes) /\ Closed(nodes)
    BY <2>1 DEF LedgersSound, LedgerSound, NodesSound, WithinPolicy
  <2>3. PICK workflow : workflow = ImportedWorkflow(history)
    OBVIOUS
  <2>4. DOMAIN workflow = Known(nodes) /\ \A n \in Known(nodes) : workflow[n].deps = nodes[n].deps
    BY <2>1, <2>3 DEF ImportedWorkflow
  <2>5. Accepted(workflow)
    BY <2>2, <2>4 DEF Accepted, Acyclic, Closed
  <2> QED
    BY <2>1, <2>3, <2>5
<1> QED
  BY <1>1, LedgersAreSound, PTL

\* What a Node's Activities say, when the counts tell its history.
LEMMA ActivitiesTell ==
  ASSUME NEW history, NEW n, history.nodes[n] # None, NEW t,
         Tells(history.nodes[n], t, history.completions[n], history.reopened[n]), t.regular
  PROVE  LET imported == ImportedActivities(history, n)
         IN  /\ {a.generation : a \in {b \in imported : b.result}} = 1 .. t.results
             /\ {a.generation : a \in {b \in imported : ~b.result}} =
                  IF t.open THEN {t.results + 1} ELSE {}
<1>1. PICK node, c, r : node = history.nodes[n] /\ c = history.completions[n] /\ r = history.reopened[n]
  OBVIOUS
<1>2. node # None /\ Tells(node, t, c, r)
  BY <1>1
<1>3. t.results \in Nat /\ c = t.results /\ c \in Nat /\ r \in Nat
  BY <1>2 DEF Tells, Truth
<1>4. Generations(history, n) = c
  <2>1. node.state = "completed" => c > 0
    BY <1>2 DEF Tells
  <2> QED
    BY <1>1, <1>3, <2>1 DEF Generations, Unresolved
<1>5. Reopened(history, n) <=> t.open
  <2>1. Reopened(history, n) <=> r >= c /\ r > 0 /\ node.state # "completed"
    BY <1>1, <1>4 DEF Reopened, Unresolved
  <2>2. t.open => r >= c /\ r > 0 /\ node.state # "completed"
    BY <1>2 DEF Tells
  <2>3. r > 0 /\ node.state # "completed" => t.open
    BY <1>2 DEF Tells
  <2> QED
    BY <2>1, <2>2, <2>3
<1>6. PICK last : last = c + (IF t.open THEN 1 ELSE 0)
  OBVIOUS
<1>7. PICK imported : imported = ImportedActivities(history, n)
  OBVIOUS
<1>8. imported = {[generation |-> g, parent |-> g - 1, result |-> g <= c] : g \in 1 .. last}
  BY <1>4, <1>5, <1>6, <1>7 DEF ImportedActivities
<1>9. /\ \A g \in 1 .. last : \E a \in imported : a.generation = g /\ (a.result <=> g <= c)
      /\ \A a \in imported : a.generation \in 1 .. last /\ (a.result <=> a.generation <= c)
  <2>1. ASSUME NEW g \in 1 .. last
        PROVE  \E a \in imported : a.generation = g /\ (a.result <=> g <= c)
    <3>1. PICK a : a = [generation |-> g, parent |-> g - 1, result |-> g <= c]
      OBVIOUS
    <3>2. a \in imported
      BY <1>8, <3>1
    <3> QED
      BY <3>1, <3>2
  <2>2. ASSUME NEW a \in imported
        PROVE  a.generation \in 1 .. last /\ (a.result <=> a.generation <= c)
    <3>1. PICK g \in 1 .. last : a = [generation |-> g, parent |-> g - 1, result |-> g <= c]
      BY <1>8
    <3> QED
      BY <3>1
  <2> QED
    BY <2>1, <2>2
<1>10. {a.generation : a \in {b \in imported : b.result}} = {g \in 1 .. last : g <= c}
  BY <1>9
<1>11. {a.generation : a \in {b \in imported : ~b.result}} = {g \in 1 .. last : ~(g <= c)}
  BY <1>9
<1>12. {g \in 1 .. last : g <= c} = 1 .. t.results
  BY <1>3, <1>6
<1>13. {g \in 1 .. last : ~(g <= c)} = IF t.open THEN {t.results + 1} ELSE {}
  BY <1>3, <1>6
<1> QED
  BY <1>7, <1>10, <1>11, <1>12, <1>13

(* Whatever v1 writes while calls read its ledgers, and however long the ledgers
   and their proposals are, an import says of a Node with a regular history what
   happened to it: as many completed generations as it completed, and one more
   exactly when it was reopened since (import_v1.go, decide; legacyimport/reducer.go,
   the validation of reopen_agent that its counts rely on). *)
THEOREM ImportsTellHistories == Spec => []ImportTellsHistory
<1>1. ImportsShowLedgers /\ LedgersSound => ImportTellsHistory
  <2> SUFFICES ASSUME ImportsShowLedgers, LedgersSound,
                      NEW i \in imports, NEW l \in DOMAIN i.workflows,
                      i.digest[l] = source[l].length, source[l].history # None
               PROVE  /\ DOMAIN i.workflows[l] = Known(source[l].history.nodes)
                      /\ \A n \in DOMAIN i.workflows[l] :
                           LET truth == source[l].truth[n]
                               imported == i.workflows[l][n].activities
                           IN  truth.regular =>
                                 /\ {a.generation : a \in {b \in imported : b.result}} = 1 .. truth.results
                                 /\ {a.generation : a \in {b \in imported : ~b.result}} =
                                      IF truth.open THEN {truth.results + 1} ELSE {}
    BY DEF ImportTellsHistory
  <2>1. PICK history : history = source[l].history
    OBVIOUS
  <2>2. /\ l \in Ledger /\ i.workflows[l] = ImportedWorkflow(history)
        /\ DOMAIN i.workflows[l] = Known(history.nodes)
    BY <2>1 DEF ImportsShowLedgers
  <2>3. ASSUME NEW n \in Known(history.nodes), NEW t, t = source[l].truth[n], t.regular
        PROVE  LET imported == i.workflows[l][n].activities
               IN  /\ {a.generation : a \in {b \in imported : b.result}} = 1 .. t.results
                   /\ {a.generation : a \in {b \in imported : ~b.result}} =
                        IF t.open THEN {t.results + 1} ELSE {}
    <3>1. n \in LegacyNode /\ history.nodes[n] # None
      BY DEF Known
    <3>2. Tells(history.nodes[n], t, history.completions[n], history.reopened[n])
      BY <2>1, <2>2, <2>3, <3>1 DEF LedgersSound, LedgerSound
    <3>3. i.workflows[l][n].activities = ImportedActivities(history, n)
      BY <2>2 DEF ImportedWorkflow
    <3>4. PICK imported : imported = ImportedActivities(history, n)
      OBVIOUS
    <3>5. t.regular
      BY <2>3
    <3>6. /\ {a.generation : a \in {b \in imported : b.result}} = 1 .. t.results
          /\ {a.generation : a \in {b \in imported : ~b.result}} =
               IF t.open THEN {t.results + 1} ELSE {}
      BY <3>1, <3>2, <3>4, <3>5, ActivitiesTell
    <3>7. i.workflows[l][n].activities = imported
      BY <3>3, <3>4
    <3> QED
      BY <3>6, <3>7
  <2> QED
    BY <2>1, <2>2, <2>3
<1> QED
  BY <1>1, ImportsAreWhole, LedgersAreSound, PTL

-----------------------------------------------------------------------------
(* Types. *)

CallsTyped ==
  \A c \in Caller : calls[c] # None =>
    /\ calls[c].at \in {"reading", "imported"} /\ calls[c].key \in Key
    /\ calls[c].paths \subseteq Ledger

ImportsTyped ==
  /\ \A i \in imports : i.key \in Key /\ DOMAIN i.workflows \subseteq Ledger
  /\ \A r \in receipts : r.key \in Key /\ r.existing \in BOOLEAN

LEMMA CallsStayTyped ==
  ASSUME Shaped, CallsTyped, ImportsTyped, [Next]_vars
  PROVE  CallsTyped' /\ ImportsTyped'
<1>1. ASSUME NEW l \in Ledger,
             (\E nodes \in Creations : Create(l, nodes)) \/ \E p \in Proposals : Propose(l, p)
      PROVE  UNCHANGED <<calls, imports, receipts>>
  BY <1>1, WriteEffect
<1>2. ASSUME NEW c \in Caller, \A d \in Caller : d # c => calls'[d] = calls[d],
             calls'[c] # None =>
               /\ calls'[c].at \in {"reading", "imported"} /\ calls'[c].key \in Key
               /\ calls'[c].paths \subseteq Ledger
      PROVE  CallsTyped'
  BY <1>2 DEF CallsTyped
<1>3. ASSUME NEW c \in Caller, NEW key \in Key, Call(c, key)
      PROVE  CallsTyped' /\ ImportsTyped'
  <2>1. imports' = imports /\ receipts' = receipts
    BY <1>3 DEF Call
  <2>2. /\ \A d \in Caller : d # c => calls'[d] = calls[d]
        /\ calls'[c].at = "reading" /\ calls'[c].key = key /\ calls'[c].paths \subseteq Ledger
    BY <1>3, CallEffect
  <2> QED
    BY <1>2, <2>1, <2>2 DEF ImportsTyped
<1>4. ASSUME NEW c \in Caller, NEW l \in Ledger, Read(c, l)
      PROVE  CallsTyped' /\ ImportsTyped'
  <2>1. imports' = imports /\ receipts' = receipts
    BY <1>4 DEF Read
  <2>2. /\ \A d \in Caller : d # c => calls'[d] = calls[d]
        /\ calls[c] # None /\ calls'[c].at = "reading" /\ calls'[c].key = calls[c].key
        /\ calls'[c].paths \subseteq calls[c].paths
    BY <1>4, ReadEffect
  <2>3. calls'[c].key \in Key /\ calls'[c].paths \subseteq Ledger
    BY <2>2 DEF CallsTyped
  <2> QED
    BY <1>2, <2>1, <2>2, <2>3 DEF ImportsTyped
<1>5. ASSUME NEW c \in Caller, Import(c)
      PROVE  CallsTyped' /\ ImportsTyped'
  <2>1. /\ \A d \in Caller : d # c => calls'[d] = calls[d]
        /\ calls'[c].key = calls[c].key /\ calls[c] # None
        /\ calls'[c].at = "imported" /\ calls'[c].paths = calls[c].paths
    BY <1>5, ImportEffect
  <2>2. calls[c].key \in Key /\ calls[c].paths \subseteq Ledger
    BY <2>1 DEF CallsTyped
  <2>3. CallsTyped'
    BY <1>2, <2>1, <2>2
  <2>4. PICK new : /\ imports' = imports \cup {new} /\ receipts' = receipts
                   /\ new.key = calls[c].key /\ DOMAIN new.workflows = ReadLedgers(c)
    <3> DEFINE workflows == [l \in ReadLedgers(c) |-> ImportedWorkflow(calls[c].read[l].history)]
               it == [digest |-> Digest(c), key |-> calls[c].key, workflows |-> workflows]
    <3>1. imports' = imports \cup {it} /\ receipts' = receipts
      BY <1>5 DEF Import
    <3>2. it.key = calls[c].key /\ it.workflows = workflows /\ DOMAIN workflows = ReadLedgers(c)
      OBVIOUS
    <3> HIDE DEF it, workflows
    <3> QED
      BY <3>1, <3>2
  <2>5. ImportsTyped'
    BY <2>2, <2>4 DEF ImportsTyped, ReadLedgers
  <2> QED
    BY <2>3, <2>5
<1>6. ASSUME NEW c \in Caller, AnswerNew(c) \/ AnswerExisting(c) \/ GiveUp(c)
      PROVE  CallsTyped' /\ ImportsTyped'
  <2>1. /\ source' = source /\ calls' = [calls EXCEPT ![c] = None] /\ imports' = imports
        /\ calls[c] # None
    BY <1>6 DEF AnswerNew, AnswerExisting, Return, GiveUp
  <2>2. calls'[c] = None /\ \A d \in Caller : d # c => calls'[d] = calls[d]
    BY <2>1, EndEffect
  <2>3. CallsTyped'
    BY <1>2, <2>2
  <2>4. ASSUME NEW r \in receipts' PROVE r.key \in Key /\ r.existing \in BOOLEAN
    <3>1. CASE r \in receipts
      BY <3>1 DEF ImportsTyped
    <3>2. CASE r \notin receipts
      <4>1. PICK existing \in BOOLEAN :
              r = [key |-> calls[c].key, digest |-> Digest(c), existing |-> existing]
        BY <1>6, <3>2 DEF AnswerNew, AnswerExisting, Return, GiveUp
      <4> QED
        BY <2>1, <4>1 DEF CallsTyped
    <3> QED
      BY <3>1, <3>2
  <2> QED
    BY <2>1, <2>3, <2>4 DEF ImportsTyped
<1>7. ASSUME UNCHANGED <<calls, imports, receipts>>
      PROVE  CallsTyped' /\ ImportsTyped'
  BY <1>7 DEF CallsTyped, ImportsTyped
<1> QED
  BY <1>1, <1>3, <1>4, <1>5, <1>6, <1>7 DEF Next, vars

(* Every ledger that replays is a graph of Nodes within the budget, whatever was
   proposed; calls, imports and receipts are what the code's types say. *)
THEOREM TypeCorrect == Spec => []TypeOK
<1>1. Init => Shaped /\ LedgersSound /\ CallsTyped /\ ImportsTyped
  <2>1. Init => CallsTyped /\ ImportsTyped
    BY DEF Init, CallsTyped, ImportsTyped
  <2> QED
    BY <2>1, InitShaped, InitSound
<1>2. Shaped /\ LedgersSound /\ CallsTyped /\ ImportsTyped /\ [Next]_vars
        => (Shaped /\ LedgersSound /\ CallsTyped /\ ImportsTyped)'
  BY ShapedStays, LedgersStaySound, CallsStayTyped
<1>3. LedgersSound /\ CallsTyped /\ ImportsTyped => TypeOK
  <2>1. LedgersSound =>
          \A l \in Ledger :
            /\ source[l].length \in 0 .. MaxEntries
            /\ source[l].history # None =>
                 source[l].history \in History /\ Cardinality(Known(source[l].history.nodes)) <= MaxNodes
    BY DEF LedgersSound, LedgerSound, NodesSound, WithinPolicy
  <2> QED
    BY <2>1 DEF CallsTyped, ImportsTyped, TypeOK
<1> QED
  BY <1>1, <1>2, <1>3, PTL DEF Spec
=============================================================================
