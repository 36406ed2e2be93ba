-------------------------- MODULE FinalizerProofs ---------------------------
(***************************************************************************)
(* Publication is decided, verified and recorded as the runs check, for    *)
(* any number of callers, keys, pull requests and commits.  The invariant  *)
(* follows a decision along its way: what a call carries (CallsSound),     *)
(* what is on its way to GitHub (RequestsSound), what a record and its     *)
(* receipt say of each other (RecordsSound).                               *)
(***************************************************************************)
EXTENDS Finalizer, TLAPS

Decided(k) == finalizations[k] # None

\* What a call has in hand is what it read or verified, however long ago.
CallsSound ==
  \A c \in Caller :
    /\ calls[c].at \in {"inspect", "prepare"} =>
         /\ RequireHuman => calls[c].request.approved
         /\ calls[c].request.gates = RequiredChecks
    /\ calls[c].at \in {"read", "check", "merge", "settle"} => Decided(calls[c].key)
    /\ calls[c].at = "settle" /\ calls[c].settlement.state = "merged" =>
         Merged(finalizations[calls[c].key].pull)

\* A merge request asks for the decision it was sent for, on a verified head.
RequestsSound ==
  \A q \in requests :
    /\ Decided(q.key)
    /\ finalizations[q.key].pull = q.pull /\ finalizations[q.key].head = q.head
    /\ q.head \in verified

\* A decision carries the Workflow's policy, and its outcome its receipt.
RecordsSound ==
  \A k \in Key :
    /\ ~Decided(k) => settlements[k] = None
    /\ Decided(k) =>
         /\ RequireHuman => finalizations[k].approved
         /\ finalizations[k].gates = RequiredChecks
         /\ Terminal(k) <=> settlements[k] # None
         /\ Terminal(k) => settlements[k].state = finalizations[k].state
         /\ finalizations[k].state = "merged" => Merged(finalizations[k].pull)
    /\ answers[k] # {} => Decided(k) /\ Terminal(k) /\ answers[k] = {finalizations[k].state}

\* A commit whose required checks have all passed now is one where they have.
VerifiedSound == \A h \in Commit : RequiredChecks \subseteq passing[h] => h \in verified

Inv ==
  /\ TypeOK
  /\ CallsSound
  /\ RequestsSound
  /\ RecordsSound
  /\ VerifiedSound
  /\ MergeIsDecided
  /\ MergeIsVerified

-----------------------------------------------------------------------------
(* Types. *)

\* The fields a call has, by the step it takes next.
LEMMA CallFields ==
  ASSUME NEW call \in Call
  PROVE  /\ call.at \in {"idle", "inspect", "prepare", "read", "check", "merge", "settle"}
         /\ call.at # "idle" => call.key \in Key
         /\ call.at \in {"inspect", "prepare"} => call.request \in Request
         /\ call.at = "prepare" => call.head \in Commit
         /\ call.at = "settle" => call.settlement \in Settlement
         /\ call.at = "idle" => call = Idle
  BY DEF Call, Idle

\* The record of a call past its preparation.
LEMMA RecordOfCall ==
  ASSUME TypeOK, CallsSound, NEW c \in Caller,
         calls[c].at \in {"read", "check", "merge", "settle"}
  PROVE  calls[c].key \in Key /\ finalizations[calls[c].key] \in Finalization
<1>1. calls[c] \in Call
  BY DEF TypeOK
<1>2. calls[c].key \in Key
  BY <1>1, CallFields
<1> QED
  BY <1>2 DEF TypeOK, CallsSound, Decided

-----------------------------------------------------------------------------
(* One lemma per action: it keeps the invariant. *)

\* The invariant speaks of nothing that such a step changes, but for calls.
LEMMA CallsAlone ==
  ASSUME Inv, UNCHANGED <<finalizations, settlements, answers, requests, pulls, passing,
           verified>>,
         ready' \in BOOLEAN, calls' \in [Caller -> Call], CallsSound'
  PROVE  Inv'
<1> USE DEF Decided, Merged, Terminal
<1>1. TypeOK' /\ RequestsSound' /\ RecordsSound' /\ VerifiedSound'
  BY DEF Inv, TypeOK, RequestsSound, RecordsSound, VerifiedSound
<1>2. MergeIsDecided' /\ MergeIsVerified'
  BY DEF Inv, MergeIsDecided, MergeIsVerified
<1> QED
  BY <1>1, <1>2 DEF Inv

\* Resuming a record keeps the invariant: a terminal one is answered with its
\* own outcome.
LEMMA ResumeKeepsInv ==
  ASSUME Inv, NEW c \in Caller, NEW k \in Key, Decided(k), Resume(c, k),
         UNCHANGED <<ready, journal, requests, github>>
  PROVE  Inv'
<1> USE DEF Decided, Merged, Terminal
<1>1. finalizations[k] \in Finalization
  BY DEF Inv, TypeOK
<1>2. UNCHANGED <<ready, finalizations, settlements, requests, pulls, passing, verified>>
  BY DEF journal, github
<1>3. calls' \in [Caller -> Call] /\ answers' \in [Key -> SUBSET Outcome]
  BY <1>1 DEF Inv, TypeOK, Resume, Goes, Call, Idle, Finalization
<1>4. TypeOK'
  BY <1>2, <1>3 DEF Inv, TypeOK
<1>5. CallsSound'
  BY <1>2 DEF Inv, TypeOK, CallsSound, Resume, Goes, Idle
<1>6. RecordsSound'
  BY <1>2 DEF Inv, TypeOK, RecordsSound, Resume
<1> QED
  BY <1>2, <1>4, <1>5, <1>6
     DEF Inv, RequestsSound, VerifiedSound, MergeIsDecided, MergeIsVerified

\* A new call carries an admissible request; a retry resumes its record.
LEMMA FinalizeKeepsInv ==
  ASSUME Inv, NEW c \in Caller, NEW k \in Key, NEW r \in Request, Finalize(c, k, r)
  PROVE  Inv'
<1>1. CASE finalizations[k] = None
  <2>1. UNCHANGED <<ready, finalizations, settlements, answers, requests, pulls, passing,
                    verified>>
    BY <1>1 DEF Finalize, journal, github
  <2>2. calls' = [calls EXCEPT ![c] = [at |-> "inspect", key |-> k, request |-> r]]
    BY <1>1 DEF Finalize, Goes
  <2>3. calls' \in [Caller -> Call]
    BY <2>2 DEF Inv, TypeOK, Call
  <2>4. CallsSound'
    BY <2>1, <2>2 DEF Inv, TypeOK, CallsSound, Finalize, ExactChecks, Decided, Merged
  <2> QED
    BY <2>1, <2>3, <2>4, CallsAlone DEF Inv, TypeOK
<1>2. CASE finalizations[k] # None
  BY <1>2, ResumeKeepsInv DEF Finalize, Decided
<1> QED
  BY <1>1, <1>2

\* The head a decision is made for is a head the pull request had.
LEMMA InspectHeadKeepsInv ==
  ASSUME Inv, NEW c \in Caller, InspectHead(c)
  PROVE  Inv'
<1> DEFINE call == [at |-> "prepare", key |-> calls[c].key, request |-> calls[c].request,
                    head |-> pulls[calls[c].request.pull].head]
<1>1. UNCHANGED <<ready, finalizations, settlements, answers, requests, pulls, passing,
                  verified>>
  BY DEF InspectHead, journal, github
<1>2. calls[c].key \in Key /\ calls[c].request \in Request
  BY CallFields DEF InspectHead, Inv, TypeOK
<1>3. call.head \in Commit
  BY <1>2 DEF Inv, TypeOK, Request
<1>4. calls' = [calls EXCEPT ![c] = call]
  BY DEF InspectHead, Goes
<1>5. calls' \in [Caller -> Call]
  BY <1>2, <1>3, <1>4 DEF Inv, TypeOK, Call
<1>6. CallsSound'
  BY <1>1, <1>4 DEF Inv, TypeOK, CallsSound, InspectHead, Decided, Merged
<1> QED
  BY <1>1, <1>5, <1>6, CallsAlone DEF Inv, TypeOK

\* A new record carries the policy its call was admitted with; an existing one
\* stays.
LEMMA PrepareFinalizationKeepsInv ==
  ASSUME Inv, NEW c \in Caller, PrepareFinalization(c)
  PROVE  Inv'
<1> DEFINE k == calls[c].key
           r == calls[c].request
           f == [pull |-> r.pull, approved |-> r.approved, gates |-> r.gates,
                 head |-> calls[c].head, state |-> "prepared"]
<1>1. k \in Key /\ r \in Request /\ calls[c].head \in Commit
  BY CallFields DEF PrepareFinalization, Inv, TypeOK
<1>2. f \in Finalization /\ f # None
  BY <1>1, NoneAssumption DEF Request, Finalization
<1>3. /\ UNCHANGED <<ready, settlements, answers, requests, pulls, passing, verified>>
      /\ calls' = [calls EXCEPT ![c] = [at |-> "read", key |-> k]]
  BY DEF PrepareFinalization, Goes, github
<1>4. calls' \in [Caller -> Call]
  BY <1>1, <1>3 DEF Inv, TypeOK, Call
<1>5. CASE finalizations[k] # None
  <2>1. UNCHANGED finalizations
    BY <1>5 DEF PrepareFinalization
  <2>2. CallsSound'
    BY <1>3, <1>5, <2>1 DEF Inv, TypeOK, CallsSound, Decided, Merged
  <2> QED
    BY <1>3, <1>4, <2>1, <2>2, CallsAlone DEF Inv, TypeOK
<1>6. CASE finalizations[k] = None
  <2>1. finalizations' = [finalizations EXCEPT ![k] = f]
    BY <1>6 DEF PrepareFinalization
  <2>2. \A j \in Key : Decided(j) => finalizations'[j] = finalizations[j] /\ Decided(j)'
    BY <1>6, <2>1 DEF Decided, Inv, TypeOK
  <2>3. TypeOK'
    BY <1>1, <1>2, <1>3, <1>4, <2>1 DEF Inv, TypeOK
  <2>4. CallsSound'
    <3>1. SUFFICES ASSUME NEW d \in Caller, d # c PROVE CallsSound!(d)'
      BY <1>1, <1>2, <1>3, <2>1 DEF Inv, TypeOK, CallsSound, Decided
    <3> QED
      BY <1>3, <2>2, <3>1, CallFields DEF Inv, TypeOK, CallsSound, Merged
  <2>5. RequestsSound'
    BY <1>3, <2>2 DEF Inv, TypeOK, RequestsSound, MergeRequest
  <2>6. RecordsSound'
    <3>1. /\ settlements[k] = None /\ answers[k] = {}
          /\ RequireHuman => r.approved
          /\ r.gates = RequiredChecks
      BY <1>1, <1>6 DEF Inv, RecordsSound, CallsSound, PrepareFinalization, Decided
    <3> QED
      BY <1>1, <1>3, <2>1, <3>1 DEF Inv, TypeOK, RecordsSound, Decided, Terminal, Merged
  <2>7. MergeIsDecided' /\ MergeIsVerified'
    BY <1>3, <2>2 DEF Inv, TypeOK, MergeIsDecided, MergeIsVerified, Decided
  <2> QED
    BY <1>3, <2>3, <2>4, <2>5, <2>6, <2>7 DEF Inv, VerifiedSound
<1> QED
  BY <1>5, <1>6

\* What is read after the append is resumed like any record.
LEMMA ReadPreparedKeepsInv ==
  ASSUME Inv, NEW c \in Caller, ReadPrepared(c)
  PROVE  Inv'
<1>1. calls[c].key \in Key /\ Decided(calls[c].key)
  BY RecordOfCall DEF ReadPrepared, Inv, CallsSound
<1> QED
  BY <1>1, ResumeKeepsInv DEF ReadPrepared

\* A merge is requested on a verified head, and merged is settled on evidence.
LEMMA InspectKeepsInv ==
  ASSUME Inv, NEW c \in Caller, NEW mergeable \in BOOLEAN, Inspect(c, mergeable)
  PROVE  Inv'
<1> DEFINE k == calls[c].key
           f == finalizations[k]
           settled(state, why) == [at |-> "settle", key |-> k,
                                   settlement |-> [state |-> state, summary |-> why]]
           q == [key |-> k, pull |-> f.pull, head |-> f.head, caller |-> c]
<1>1. k \in Key /\ f \in Finalization /\ Decided(k)
  BY RecordOfCall DEF Inspect, Inv, CallsSound
<1>2. UNCHANGED <<ready, finalizations, settlements, answers, pulls, passing, verified>>
  BY DEF Inspect, journal, github
<1>3. ASSUME NEW state \in Outcome, NEW why \in {"found merged", "head changed",
         "not verified"},
             calls' = [calls EXCEPT ![c] = settled(state, why)], UNCHANGED requests,
             state = "merged" => Merged(f.pull)
      PROVE  Inv'
  <2>1. settled(state, why).settlement \in Settlement
    BY <1>3 DEF Settlement
  <2>2. calls' \in [Caller -> Call]
    BY <1>1, <1>3, <2>1 DEF Inv, TypeOK, Call
  <2>3. CallsSound'
    BY <1>1, <1>2, <1>3 DEF Inv, TypeOK, CallsSound, Decided, Merged
  <2> QED
    BY <1>2, <1>3, <2>2, <2>3, CallsAlone DEF Inv, TypeOK
<1>4. ASSUME calls' = [calls EXCEPT ![c] = [at |-> "merge", key |-> k]],
             requests' = requests \cup {q},
             pulls[f.pull].head = f.head, Verify(f, mergeable)
      PROVE  Inv'
  <2>1. calls' \in [Caller -> Call]
    BY <1>1, <1>4 DEF Inv, TypeOK, Call
  <2>2. q \in MergeRequest
    BY <1>1 DEF MergeRequest, Finalization
  <2>3. f.head \in verified
    <3>1. f.head \in Commit /\ f.gates = RequiredChecks
      BY <1>1 DEF Inv, RecordsSound, Finalization
    <3> QED
      BY <1>4, <3>1 DEF Inv, VerifiedSound, Verify
  <2>4. TypeOK'
    BY <1>2, <1>4, <2>1, <2>2 DEF Inv, TypeOK
  <2>5. CallsSound'
    BY <1>1, <1>2, <1>4 DEF Inv, TypeOK, CallsSound, Decided, Merged
  <2>6. RequestsSound'
    BY <1>1, <1>2, <1>4, <2>3 DEF Inv, RequestsSound, Decided
  <2> QED
    BY <1>2, <2>4, <2>5, <2>6
       DEF Inv, RecordsSound, VerifiedSound, MergeIsDecided, MergeIsVerified, Decided,
           Terminal, Merged
<1> QED
  BY <1>3, <1>4 DEF Inspect, Goes, Outcome

\* The first settlement of a key is recorded, and a repeated one is answered
\* alike.
LEMMA SettleKeepsInv ==
  ASSUME Inv, NEW c \in Caller, Settle(c)
  PROVE  Inv'
<1> DEFINE k == calls[c].key
           s == calls[c].settlement
<1>1. k \in Key /\ finalizations[k] \in Finalization /\ Decided(k)
  BY RecordOfCall DEF Settle, Inv, CallsSound
<1>2. s \in Settlement /\ s # None /\ s.state \in Outcome
  <2>1. s \in Settlement
    BY CallFields DEF Settle, Inv, TypeOK
  <2> QED
    BY <2>1, NoneAssumption DEF Settlement
<1>3. /\ UNCHANGED <<ready, requests, pulls, passing, verified>>
      /\ calls' = [calls EXCEPT ![c] = Idle]
      /\ answers' = [answers EXCEPT ![k] = @ \cup {s.state}]
  BY DEF Settle, Goes, github
<1>4. s.state = "merged" => Merged(finalizations[k].pull)
  BY DEF Settle, Inv, CallsSound
<1>5. calls' \in [Caller -> Call] /\ answers' \in [Key -> SUBSET Outcome]
  BY <1>2, <1>3 DEF Inv, TypeOK, Call, Idle
<1>6. CASE FirstSettlement(k, s) /\ settlements' = [settlements EXCEPT ![k] = s]
             /\ finalizations' = [finalizations EXCEPT ![k].state = s.state]
  <2>0. finalizations'[k] = [finalizations[k] EXCEPT !.state = s.state]
    BY <1>1, <1>6 DEF Inv, TypeOK
  <2>1. /\ finalizations'[k] \in Finalization /\ finalizations'[k] # None
        /\ finalizations'[k].state = s.state /\ finalizations'[k].pull = finalizations[k].pull
        /\ finalizations'[k].head = finalizations[k].head
        /\ finalizations'[k].gates = finalizations[k].gates
        /\ finalizations'[k].approved = finalizations[k].approved
    <3>1. finalizations'[k] \in Finalization
      BY <1>1, <1>2, <2>0 DEF Finalization
    <3> QED
      BY <1>1, <1>2, <2>0, <3>1, NoneAssumption DEF Finalization
  <2>2. \A j \in Key : j # k => /\ finalizations'[j] = finalizations[j]
                                /\ settlements'[j] = settlements[j] /\ answers'[j] = answers[j]
    BY <1>3, <1>6 DEF Inv, TypeOK
  <2>3. \A j \in Key : Decided(j) =>
          /\ Decided(j)'
          /\ finalizations'[j].pull = finalizations[j].pull
          /\ finalizations'[j].head = finalizations[j].head
          /\ finalizations'[j].approved = finalizations[j].approved
    BY <2>1, <2>2 DEF Decided
  <2>4. TypeOK'
    BY <1>1, <1>2, <1>3, <1>5, <1>6, <2>1 DEF Inv, TypeOK
  <2>5. CallsSound'
    BY <1>3, <2>3, CallFields DEF Inv, TypeOK, CallsSound, Merged, Idle
  <2>6. RequestsSound'
    BY <1>3, <2>3 DEF Inv, TypeOK, RequestsSound, MergeRequest
  <2>7. RecordsSound'
    <3>1. settlements'[k] = s /\ answers'[k] = {s.state}
      BY <1>1, <1>3, <1>6 DEF Inv, TypeOK, RecordsSound, FirstSettlement
    <3>2. s.state # "prepared"
      BY <1>2 DEF Outcome
    <3> QED
      BY <1>1, <1>2, <1>3, <1>4, <2>1, <2>2, <3>1, <3>2
         DEF Inv, RecordsSound, Decided, Terminal, Merged
  <2>8. MergeIsDecided' /\ MergeIsVerified'
    BY <1>3, <2>3 DEF Inv, TypeOK, MergeIsDecided, MergeIsVerified, Decided
  <2> QED
    BY <1>3, <2>4, <2>5, <2>6, <2>7, <2>8 DEF Inv, VerifiedSound
<1>7. CASE SameSettlement(k, s) /\ UNCHANGED journal
  <2>1. UNCHANGED <<finalizations, settlements>>
    BY <1>7 DEF journal
  <2>2. TypeOK'
    BY <1>3, <1>5, <2>1 DEF Inv, TypeOK
  <2>3. CallsSound'
    BY <1>3, <2>1 DEF Inv, TypeOK, CallsSound, Decided, Merged, Idle
  <2>4. Terminal(k) /\ finalizations[k].state = s.state
    BY <1>1, <1>2, <1>7 DEF Inv, RecordsSound, SameSettlement
  <2>5. RecordsSound'
    BY <1>1, <1>3, <2>1, <2>4 DEF Inv, TypeOK, RecordsSound, Decided, Terminal, Merged
  <2> QED
    BY <1>3, <2>1, <2>2, <2>3, <2>5
       DEF Inv, RequestsSound, VerifiedSound, MergeIsDecided, MergeIsVerified, Decided
<1> QED
  BY <1>6, <1>7 DEF Settle

\* An abandoned call leaves its merge requests as they were, without a caller.
LEMMA AbandonKeepsInv ==
  ASSUME Inv, NEW c \in Caller, Abandon(c)
  PROVE  Inv'
<1>1. /\ UNCHANGED <<ready, finalizations, settlements, answers, pulls, passing, verified>>
      /\ calls' = [calls EXCEPT ![c] = Idle]
  BY DEF Abandon, Goes, journal, github
<1>2. \A q \in requests' : \E o \in requests :
         q.key = o.key /\ q.pull = o.pull /\ q.head = o.head /\ q \in MergeRequest
  BY DEF Abandon, Inv, TypeOK, MergeRequest
<1>3. TypeOK'
  BY <1>1, <1>2 DEF Inv, TypeOK, Call, Idle
<1>4. CallsSound'
  BY <1>1 DEF Inv, TypeOK, CallsSound, Decided, Merged, Idle
<1>5. RequestsSound'
  BY <1>1, <1>2 DEF Inv, RequestsSound, Decided
<1> QED
  BY <1>1, <1>3, <1>4, <1>5
     DEF Inv, RecordsSound, VerifiedSound, MergeIsDecided, MergeIsVerified, Decided,
         Terminal, Merged

\* GitHub merges only the head a request names, for the decision that sent it.
LEMMA MergeAtHeadKeepsInv ==
  ASSUME Inv, NEW q \in requests, MergeAtHead(q)
  PROVE  Inv'
<1> DEFINE merged == [at |-> "settle", key |-> q.key,
                      settlement |-> [state |-> "merged", summary |-> "merged at head"]]
<1>1. q \in MergeRequest /\ Decided(q.key) /\ finalizations[q.key].pull = q.pull
      /\ finalizations[q.key].head = q.head /\ q.head \in verified
  BY DEF Inv, TypeOK, RequestsSound
<1>2. /\ UNCHANGED <<ready, finalizations, settlements, answers, passing, verified>>
      /\ requests' \subseteq requests
  BY DEF MergeAtHead, journal
<1>3. merged \in Call /\ Idle \in Call
  BY <1>1 DEF Call, Idle, Settlement, Outcome, MergeRequest
<1>4. merged.at = "settle" /\ merged.key = q.key
  OBVIOUS
<1>5. ASSUME Answer(q, TRUE), q.caller # None
      PROVE  calls' = [calls EXCEPT ![q.caller] = merged]
  BY <1>5, Zenon DEF Answer, Succeeded, Goes
<1> HIDE DEF merged
<1>6. RequestsSound'
  BY <1>2 DEF Inv, RequestsSound, Decided
<1>7. CASE /\ ~Merged(q.pull) /\ AtHead(q) /\ Answer(q, TRUE)
           /\ pulls' = [pulls EXCEPT ![q.pull].by = q.key]
  <2>0. q.caller = None => UNCHANGED calls
    BY <1>7 DEF Answer
  <2>1. /\ pulls' \in [PullRequest -> [head: Commit, by: Key \cup {Somebody, None}]]
        /\ \A p \in PullRequest : pulls'[p].head = pulls[p].head
        /\ \A p \in PullRequest : p # q.pull => pulls'[p] = pulls[p]
        /\ q.pull \in PullRequest /\ pulls'[q.pull].by = q.key
    BY <1>1, <1>7 DEF Inv, TypeOK, MergeRequest
  <2>2. \A p \in PullRequest : Merged(p) => Merged(p)'
    BY <1>7, <2>1 DEF Merged
  <2>3. Merged(q.pull)'
    BY <1>1, <2>1, NoneAssumption DEF Merged, MergeRequest
  <2>4. \A c \in Caller : calls'[c] = calls[c] \/ calls'[c] = merged
    BY <1>5, <1>7, <2>0 DEF Inv, TypeOK
  <2>5. TypeOK'
    <3>1. calls' \in [Caller -> Call]
      BY <1>1, <1>3, <1>5, <1>7, <2>0 DEF Inv, TypeOK, MergeRequest
    <3> QED
      BY <1>2, <2>1, <3>1 DEF Inv, TypeOK
  <2>6. \A k \in Key : Decided(k) => finalizations[k].pull \in PullRequest
    BY DEF Inv, TypeOK, Decided, Finalization
  <2>7. CallsSound'
    <3>1. ASSUME NEW c \in Caller, calls'[c] = merged PROVE CallsSound!(c)'
      <4>1. calls'[c].at = "settle" /\ calls'[c].key = q.key
        BY <1>4, <3>1
      <4>2. Decided(calls[c].key)' /\ Merged(finalizations[calls[c].key].pull)'
        BY <1>1, <1>2, <2>3, <4>1 DEF Decided, Merged
      <4> QED
        BY <4>1, <4>2
    <3>2. ASSUME NEW c \in Caller, calls'[c] = calls[c] PROVE CallsSound!(c)'
      <4>1. calls[c].at = "settle" =>
              calls[c].key \in Key /\ finalizations[calls[c].key].pull \in PullRequest
        BY <2>6, RecordOfCall DEF Inv, CallsSound
      <4> QED
        BY <1>2, <2>2, <3>2, <4>1 DEF Inv, CallsSound, Decided
    <3> QED
      BY <2>4, <3>1, <3>2 DEF CallsSound
  <2>8. RecordsSound'
    BY <1>2, <2>2, <2>6 DEF Inv, RecordsSound, Decided, Terminal
  <2>9. MergeIsDecided'
    <3>1. q.key \in Key /\ (RequireHuman => finalizations[q.key].approved)
      BY <1>1 DEF Inv, RecordsSound, MergeRequest
    <3>2. pulls[q.pull].head = q.head
      BY <1>7 DEF AtHead
    <3> QED
      BY <1>1, <1>2, <2>1, <3>1, <3>2 DEF Inv, MergeIsDecided, Decided
  <2>10. MergeIsVerified'
    BY <1>1, <1>2, <1>7, <2>1 DEF Inv, MergeIsVerified, AtHead
  <2> QED
    BY <1>2, <1>6, <2>5, <2>7, <2>8, <2>9, <2>10 DEF Inv, VerifiedSound
<1>8. CASE Answer(q, FALSE) /\ UNCHANGED pulls
  <2>1. \A c \in Caller : calls'[c] = calls[c] \/ calls'[c] = Idle
    BY <1>8 DEF Answer, Succeeded, Goes, Inv, TypeOK
  <2>2. TypeOK'
    BY <1>1, <1>2, <1>3, <1>8 DEF Inv, TypeOK, Answer, Succeeded, Goes, MergeRequest
  <2>3. CallsSound'
    BY <1>2, <1>8, <2>1 DEF Inv, CallsSound, Decided, Merged, Idle
  <2> QED
    BY <1>2, <1>6, <1>8, <2>2, <2>3
       DEF Inv, RecordsSound, VerifiedSound, MergeIsDecided, MergeIsVerified, Decided,
           Terminal, Merged
<1> QED
  BY <1>7, <1>8 DEF MergeAtHead

\* Pushes and foreign merges touch only pull requests nobody has merged.
LEMMA PullKeepsInv ==
  ASSUME Inv, NEW p \in PullRequest, ~Merged(p),
         NEW head \in Commit, NEW by \in {None, Somebody},
         pulls' = [pulls EXCEPT ![p] = [head |-> head, by |-> by]],
         UNCHANGED <<ready, journal, calls, requests, passing, verified, answers>>
  PROVE  Inv'
<1>1. UNCHANGED <<finalizations, settlements>>
  BY DEF journal
<1>2. TypeOK'
  BY <1>1 DEF Inv, TypeOK
<1>3. \A o \in PullRequest : /\ Merged(o) => Merged(o)'
                             /\ pulls'[o].by \in Key => pulls'[o] = pulls[o]
  BY NoneAssumption DEF Merged, Inv, TypeOK
<1>4. \A k \in Key : Decided(k) => finalizations[k].pull \in PullRequest
  BY DEF Inv, TypeOK, Decided, Finalization
<1>5. CallsSound'
  BY <1>1, <1>3, <1>4, CallFields DEF Inv, TypeOK, CallsSound, Decided
<1>6. RecordsSound'
  BY <1>1, <1>3, <1>4 DEF Inv, RecordsSound, Decided, Terminal
<1>7. MergeIsDecided' /\ MergeIsVerified'
  BY <1>1, <1>3 DEF Inv, MergeIsDecided, MergeIsVerified, Decided
<1> QED
  BY <1>1, <1>2, <1>5, <1>6, <1>7 DEF Inv, RequestsSound, VerifiedSound, Decided

\* A check report can only add verified commits.
LEMMA ReportKeepsInv ==
  ASSUME Inv, NEW h \in Commit, NEW g \in Check, Report(h, g)
  PROVE  Inv'
<1>1. /\ UNCHANGED <<ready, finalizations, settlements, calls, requests, pulls, answers>>
      /\ verified \subseteq verified'
  BY DEF Report, journal
<1>2. TypeOK'
  BY <1>1 DEF Inv, TypeOK, Report
<1>3. VerifiedSound'
  BY DEF Inv, TypeOK, VerifiedSound, Report
<1> QED
  BY <1>1, <1>2, <1>3
     DEF Inv, CallsSound, RequestsSound, RecordsSound, MergeIsDecided, MergeIsVerified,
         Decided, Terminal, Merged

-----------------------------------------------------------------------------
(* The invariant. *)

\* Nothing is decided at the start.
LEMMA InitInv == Init => Inv
<1> SUFFICES ASSUME Init PROVE Inv
  OBVIOUS
<1>1. TypeOK
  BY DEF Init, TypeOK, Call, Idle
<1>2. CallsSound /\ RequestsSound /\ RecordsSound
  BY DEF Init, CallsSound, RequestsSound, RecordsSound, Idle, Decided
<1>3. VerifiedSound
  BY FinalizerAssumption DEF Init, VerifiedSound
<1>4. MergeIsDecided /\ MergeIsVerified
  BY NoneAssumption DEF Init, MergeIsDecided, MergeIsVerified
<1> QED
  BY <1>1, <1>2, <1>3, <1>4 DEF Inv

\* Every step keeps the invariant.
LEMMA StepKeepsInv == Inv /\ [Next]_vars => Inv'
<1> SUFFICES ASSUME Inv, [Next]_vars PROVE Inv'
  OBVIOUS
<1>1. ASSUME NEW p \in PullRequest, NEW h \in Commit, Push(p, h) PROVE Inv'
  <2>1. pulls' = [pulls EXCEPT ![p] = [head |-> h, by |-> None]]
    <3>1. pulls[p] \in [head: Commit, by: Key \cup {Somebody, None}] /\ pulls[p].by = None
      BY <1>1 DEF Push, Merged, Inv, TypeOK
    <3>2. [pulls[p] EXCEPT !.head = h] = [head |-> h, by |-> None]
      BY <3>1
    <3> QED
      BY <1>1, <3>2 DEF Push
  <2> QED
    BY <1>1, <2>1, PullKeepsInv DEF Push
<1>2. ASSUME NEW p \in PullRequest, MergeElsewhere(p) PROVE Inv'
  <2>1. pulls' = [pulls EXCEPT ![p] = [head |-> pulls[p].head, by |-> Somebody]]
    <3>1. pulls[p] \in [head: Commit, by: Key \cup {Somebody, None}]
      BY DEF Inv, TypeOK
    <3>2. [pulls[p] EXCEPT !.by = Somebody] = [head |-> pulls[p].head, by |-> Somebody]
      BY <3>1
    <3> QED
      BY <1>2, <3>2 DEF MergeElsewhere
  <2>2. pulls[p].head \in Commit
    BY DEF Inv, TypeOK
  <2> QED
    BY <1>2, <2>1, <2>2, PullKeepsInv DEF MergeElsewhere
<1>3. CASE Work
  <2>1. UNCHANGED <<finalizations, settlements, answers, requests, pulls, passing, verified,
                    calls>>
        /\ ready' \in BOOLEAN
    BY <1>3 DEF Work, journal, github
  <2> QED
    BY <2>1, CallsAlone DEF Inv, TypeOK, CallsSound, Decided, Merged
<1>4. CASE UNCHANGED vars
  <2>1. UNCHANGED <<finalizations, settlements, answers, requests, pulls, passing, verified,
                    calls, ready>>
    BY <1>4 DEF vars, journal, github
  <2> QED
    BY <2>1, CallsAlone DEF Inv, TypeOK, CallsSound, Decided, Merged
<1> QED
  BY <1>1, <1>2, <1>3, <1>4, FinalizeKeepsInv, InspectHeadKeepsInv,
     PrepareFinalizationKeepsInv,
     ReadPreparedKeepsInv, InspectKeepsInv, SettleKeepsInv, AbandonKeepsInv,
       MergeAtHeadKeepsInv,
     ReportKeepsInv DEF Next

\* The invariant holds in every reachable state.
THEOREM Invariance == Spec => []Inv
  BY InitInv, StepKeepsInv, PTL DEF Spec

-----------------------------------------------------------------------------
(* Results. *)

\* Every variable keeps its type; in particular no caller is told of an outcome
\* other than merged or blocked.
THEOREM TypeCorrect == Spec => []TypeOK
<1>1. Inv => TypeOK
  BY DEF Inv
<1> QED
  BY <1>1, Invariance, PTL

\* However calls of however many keys interleave, crash and leave merge
\* commands behind, a pull request is merged only for a recorded, approved
\* decision and on exactly its head.
THEOREM MergesAreDecided == Spec => []MergeIsDecided
<1>1. Inv => MergeIsDecided
  BY DEF Inv
<1> QED
  BY <1>1, Invariance, PTL

\* A merged head once had all the checks the Workflow requires.
THEOREM MergesAreVerified == Spec => []MergeIsVerified
<1>1. Inv => MergeIsVerified
  BY DEF Inv
<1> QED
  BY <1>1, Invariance, PTL

\* A merge is recorded or reported only if the pull request is merged.
THEOREM RecordedMergesHappened == Spec => []RecordedMergeHappened
<1>1. Inv => RecordedMergeHappened
  BY DEF Inv, RecordsSound, RecordedMergeHappened, Decided
<1> QED
  BY <1>1, Invariance, PTL

\* All callers of a key are told the one recorded outcome.
THEOREM AnswersAreOne == Spec => []AnswersAgree
<1>1. Inv => AnswersAgree
  BY DEF Inv, RecordsSound, AnswersAgree, Decided
<1> QED
  BY <1>1, Invariance, PTL

\* A step changes a record only by its first settlement.
LEMMA StepKeepsDecisions ==
  ASSUME Inv, [Next]_vars, NEW k \in Key, finalizations[k] # None
  PROVE  /\ finalizations'[k] # None
         /\ finalizations'[k].state # finalizations[k].state => finalizations[k].state = "prepared"
         /\ [finalizations'[k] EXCEPT !.state = "prepared"]
              = [finalizations[k] EXCEPT !.state = "prepared"]
<1>1. finalizations[k] \in Finalization
  BY DEF Inv, TypeOK
<1>2. ASSUME NEW c \in Caller, PrepareFinalization(c)
      PROVE  finalizations'[k] = finalizations[k]
  BY <1>2 DEF PrepareFinalization, Inv, TypeOK
<1>3. ASSUME NEW c \in Caller, Settle(c)
      PROVE  \/ finalizations'[k] = finalizations[k]
             \/ /\ ~Terminal(k) /\ calls[c].settlement.state \in Outcome
                /\ finalizations'[k] = [finalizations[k] EXCEPT !.state = calls[c].settlement.state]
  <2>1. calls[c].settlement \in Settlement
    BY <1>3, CallFields DEF Settle, Inv, TypeOK
  <2> QED
    BY <1>3, <2>1 DEF Settle, FirstSettlement, Inv, TypeOK, journal, Settlement
<1>4. \/ finalizations'[k] = finalizations[k]
      \/ \E state \in Outcome : ~Terminal(k) /\ finalizations'[k] = [finalizations[k] EXCEPT !.state = state]
  BY <1>2, <1>3 DEF Next, Finalize, InspectHead, ReadPrepared, Inspect, Abandon, MergeAtHead,
     Push,
     MergeElsewhere, Report, Work, vars, journal
<1>5. CASE finalizations'[k] = finalizations[k]
  BY <1>5
<1>6. ASSUME NEW state \in Outcome, ~Terminal(k),
             finalizations'[k] = [finalizations[k] EXCEPT !.state = state]
      PROVE  /\ finalizations'[k] # None
             /\ finalizations[k].state = "prepared"
             /\ [finalizations'[k] EXCEPT !.state = "prepared"]
                  = [finalizations[k] EXCEPT !.state = "prepared"]
  <2>1. finalizations'[k] \in Finalization
    BY <1>1, <1>6 DEF Finalization
  <2>2. finalizations'[k] # None
    BY <2>1, NoneAssumption
  <2> QED
    BY <1>1, <1>6, <2>2 DEF Terminal, Finalization
<1> QED
  BY <1>4, <1>5, <1>6

\* A decision keeps its pull request, approval and head, and its outcome is
\* final.
THEOREM DecisionsAreKept == Spec => DecisionsKept
<1>1. Inv /\ [Next]_vars =>
        [\A k \in Key : finalizations[k] # None =>
          /\ finalizations'[k] # None
          /\ finalizations'[k].state # finalizations[k].state => finalizations[k].state = "prepared"
          /\ [finalizations'[k] EXCEPT !.state = "prepared"]
               = [finalizations[k] EXCEPT !.state = "prepared"]]_vars
  BY StepKeepsDecisions
<1> QED
  BY <1>1, Invariance, PTL DEF Spec, DecisionsKept
=============================================================================
