----------------------- MODULE CommandProcessorProofs -----------------------
(***************************************************************************)
(* The command path of a match, for every number of handlers, requests and *)
(* events.  The argument: only the handler inside a transaction changes    *)
(* what is stored, and what it read is still true when it writes; hence    *)
(* the processed actions and the outbox rows grow in step with the         *)
(* versions, and a request that was rejected once is rejected for ever.    *)
(***************************************************************************)
EXTENDS CommandProcessor, SequenceTheorems, TLAPS

(* What a handler works on was issued by a client. *)
Pending == \A h \in Handlers : stage[h] \in {"WAITING", "LOCKED"} => request[h] \in issued

(* Under the row lock, what was read is what is stored. *)
Reading == \A h \in Handlers : stage[h] = "LOCKED" => seen[h] = match

CoreInv == TypeOK /\ Pending /\ Reading

LEMMA NextMatchIsARow ==
  ASSUME NEW m \in MatchRows, NEW count \in Nat, NEW accepts \in SUBSET Commands
  PROVE  /\ NextMatch(m, count, accepts) \in MatchRows
         /\ NextMatch(m, count, accepts).status # "NONE"
         /\ NextMatch(m, count, accepts).stateVersion = m.stateVersion + 1
         /\ NextMatch(m, count, accepts).lastSequence = m.lastSequence + count
         /\ NextMatch(m, count, accepts).accepts = accepts
         /\ NextMatch(m, count, accepts).status \in {"ACTIVE", "FINISHED"}
         /\ NextMatch(m, count, accepts).status = "FINISHED" <=> accepts = {}
  BY DEF NextMatch, MatchRows

(* The journal grows by the events of one transition, all of its version.  *)
Entries(v, count) == [i \in 1 .. count |-> v]

LEMMA JournalGrows ==
  ASSUME NEW S \in Seq(Nat), NEW count \in Nat, NEW v \in Nat
  PROVE  /\ S \o Entries(v, count) \in Seq(Nat)
         /\ Len(S \o Entries(v, count)) = Len(S) + count
         /\ \A s \in 1 .. Len(S) : (S \o Entries(v, count))[s] = S[s]
         /\ \A s \in Len(S) + 1 .. Len(S) + count : (S \o Entries(v, count))[s] = v
<1> DEFINE E == Entries(v, count)
           T == S \o E
<1>1. E \in Seq(Nat) /\ Len(E) = count /\ \A i \in 1 .. count : E[i] = v
  BY SMT DEF Entries
<1> HIDE DEF E
<1>2. T \in Seq(Nat) /\ Len(T) = Len(S) + count
  BY <1>1
<1>3. \A s \in 1 .. Len(S) : T[s] = S[s]
  BY <1>1, SMT
<1>4. ASSUME NEW s \in Len(S) + 1 .. Len(S) + count PROVE T[s] = v
  <2>1. s - Len(S) \in 1 .. count
    OBVIOUS
  <2>2. T[s] = E[s - Len(S)]
    BY <1>1, <2>1, SMT
  <2>. QED BY <1>1, <2>1, <2>2
<1>. QED BY <1>2, <1>3, <1>4 DEF E

(* The discipline of the row lock: a handler that enters the transaction   *)
(* is the only one inside, and one that leaves it leaves nobody inside.    *)
LEMMA OneHolder ==
  ASSUME TypeOK, NEW h \in Handlers, stage[h] = "LOCKED"
  PROVE  /\ holders = {h}
         /\ \A g \in Handlers : g # h => stage[g] # "LOCKED"
  BY DEF TypeOK

LEMMA CoreInit == Init => CoreInv
<1> SUFFICES ASSUME Init PROVE CoreInv
  OBVIOUS
<1> USE DEF Init
<1>1. PICK accepts \in Accepting : match = NewMatch(accepts)
  OBVIOUS
<1>2. match \in MatchRows /\ match.status # "NONE"
  BY <1>1, CommandAssumption DEF NewMatch, MatchRows, Accepting
<1>3. NoMatch \in MatchRows /\ NoAnswer \in Answers
  BY DEF NoMatch, NoAnswer, MatchRows, Answers
<1>4. journal \in Seq(Nat)
  OBVIOUS
<1>5. TypeOK
  BY <1>2, <1>3, <1>4 DEF TypeOK
<1>. QED BY <1>5 DEF CoreInv, Pending, Reading

(* The part of TypeOK about the handlers and their clients. *)
RunningOK ==
  /\ stage \in [Handlers -> {"IDLE", "WAITING", "LOCKED", "ANSWERING"}]
  /\ request \in [Handlers -> Requests \union {NoRequest}]
  /\ seen \in [Handlers -> MatchRows]
  /\ answer \in [Handlers -> Answers]
  /\ issued \in SUBSET Requests
  /\ answers \in SUBSET Answers
  /\ holders = {h \in Handlers : stage[h] = "LOCKED"}
  /\ \A g, h \in holders : g = h

LEMMA AnswerLeaves ==
  ASSUME CoreInv, NEW h \in Handlers, stage[h] = "LOCKED", NEW a \in Answers, AnswerWith(h, a)
  PROVE  RunningOK' /\ Pending' /\ Reading'
<1>1. holders = {h} /\ \A g \in Handlers : g # h => stage[g] # "LOCKED"
  BY OneHolder DEF CoreInv
<1>2. NoMatch \in MatchRows
  BY DEF NoMatch, MatchRows
<1>3. /\ stage' \in [Handlers -> {"IDLE", "WAITING", "LOCKED", "ANSWERING"}]
      /\ request' \in [Handlers -> Requests \union {NoRequest}]
      /\ seen' \in [Handlers -> MatchRows]
      /\ answer' \in [Handlers -> Answers]
  BY <1>2 DEF AnswerWith, CoreInv, TypeOK
<1>4. \A g \in Handlers : stage'[g] # "LOCKED"
  BY <1>1 DEF AnswerWith, CoreInv, TypeOK
<1>5. holders' = {}
  BY <1>1 DEF AnswerWith
<1>6. RunningOK'
  BY <1>3, <1>4, <1>5 DEF RunningOK, AnswerWith, CoreInv, TypeOK
<1>7. Pending'
  BY DEF AnswerWith, CoreInv, TypeOK, Pending
<1>. QED BY <1>4, <1>6, <1>7 DEF Reading

LEMMA ForgetLeaves ==
  ASSUME CoreInv, NEW h \in Handlers, Forget(h), holders' = holders \ {h},
         UNCHANGED <<match, issued>>, answers' \in SUBSET Answers
  PROVE  RunningOK' /\ Pending' /\ Reading'
<1>1. NoMatch \in MatchRows /\ NoAnswer \in Answers
  BY DEF NoMatch, MatchRows, NoAnswer, Answers
<1>2. /\ stage' \in [Handlers -> {"IDLE", "WAITING", "LOCKED", "ANSWERING"}]
      /\ request' \in [Handlers -> Requests \union {NoRequest}]
      /\ seen' \in [Handlers -> MatchRows]
      /\ answer' \in [Handlers -> Answers]
  BY <1>1 DEF Forget, CoreInv, TypeOK
<1>3. /\ stage'[h] = "IDLE"
      /\ \A g \in Handlers : g # h => stage'[g] = stage[g] /\ request'[g] = request[g] /\ seen'[g] = seen[g]
  BY DEF Forget, CoreInv, TypeOK
<1>4. holders' = {g \in Handlers : stage'[g] = "LOCKED"}
  BY <1>3 DEF CoreInv, TypeOK
<1>5. RunningOK'
  BY <1>2, <1>4 DEF RunningOK, CoreInv, TypeOK
<1>6. Pending'
  BY <1>3 DEF CoreInv, Pending
<1>7. Reading'
  BY <1>3 DEF CoreInv, Reading
<1>. QED BY <1>5, <1>6, <1>7

LEMMA CommitStores ==
  ASSUME CoreInv, NEW h \in Handlers, NEW count \in 1 .. MaxEvents,
         NEW accepts \in SUBSET (Commands \ Foreign), Commit(h, count, accepts)
  PROVE  /\ stage[h] = "LOCKED" /\ seen[h] = match
         /\ request[h] \in issued /\ request[h] \in Requests
         /\ match' = NextMatch(match, count, accepts)
         /\ journal' = journal \o Entries(match'.stateVersion, count)
         /\ processed' = processed \union
              {[request |-> request[h], stateVersion |-> match'.stateVersion,
                lastSequence |-> match'.lastSequence]}
         /\ outbox' = outbox \union
              {[stateVersion |-> match'.stateVersion, from |-> match.lastSequence + 1,
                to |-> match'.lastSequence]}
         /\ AnswerWith(h, [request |-> request[h], code |-> "OK",
                           stateVersion |-> match'.stateVersion,
                           lastSequence |-> match'.lastSequence])
         /\ Prior(request[h]) = {} /\ Rejection(request[h], match) = "NONE"
         /\ match' \in MatchRows /\ match'.status # "NONE"
         /\ match'.stateVersion = match.stateVersion + 1
         /\ match'.lastSequence = match.lastSequence + count
         /\ UNCHANGED <<issued, answers>>
<1>1. stage[h] = "LOCKED" /\ seen[h] = match
  BY DEF Commit, CoreInv, Reading
<1>2. request[h] \in issued /\ request[h] \in Requests
  BY <1>1 DEF CoreInv, TypeOK, Pending
<1>3. match' = NextMatch(match, count, accepts)
  BY <1>1 DEF Commit
<1>4. match \in MatchRows /\ count \in Nat /\ accepts \in SUBSET Commands
  BY CommandAssumption DEF CoreInv, TypeOK
<1>5. /\ match' \in MatchRows /\ match'.status # "NONE"
      /\ match'.stateVersion = match.stateVersion + 1
      /\ match'.lastSequence = match.lastSequence + count
  BY <1>3, <1>4, NextMatchIsARow
<1>6. UNCHANGED <<issued, answers>>
  BY DEF Commit, AnswerWith
<1>. QED BY <1>1, <1>2, <1>3, <1>5, <1>6 DEF Commit, CanPersist, Entries

(* An accepted command keeps the types of what is stored. *)
LEMMA CommitCore ==
  ASSUME CoreInv, NEW h \in Handlers, NEW count \in 1 .. MaxEvents,
         NEW accepts \in SUBSET (Commands \ Foreign), Commit(h, count, accepts)
  PROVE  CoreInv'
<1>0. /\ stage[h] = "LOCKED" /\ request[h] \in Requests
      /\ match' \in MatchRows /\ match'.status # "NONE"
      /\ journal' = journal \o Entries(match'.stateVersion, count)
      /\ processed' = processed \union
           {[request |-> request[h], stateVersion |-> match'.stateVersion,
             lastSequence |-> match'.lastSequence]}
      /\ outbox' = outbox \union
           {[stateVersion |-> match'.stateVersion, from |-> match.lastSequence + 1,
             to |-> match'.lastSequence]}
  BY CommitStores
<1>1. /\ match'.stateVersion \in Nat /\ match'.lastSequence \in Nat
      /\ match.lastSequence \in Nat /\ count \in Nat /\ journal \in Seq(Nat)
  BY <1>0, CommandAssumption DEF CoreInv, TypeOK, MatchRows
<1>2. journal' \in Seq(Nat)
  BY <1>0, <1>1, JournalGrows
<1>3. /\ processed' \in SUBSET [request : Requests, stateVersion : Nat, lastSequence : Nat]
      /\ outbox' \in SUBSET [stateVersion : Nat, from : Nat, to : Nat]
  BY <1>0, <1>1 DEF CoreInv, TypeOK
<1>4. results' \in SUBSET Nat /\ room' \in {"IN_GAME", "WAITING"}
  <2>1. NextMatch(seen[h], count, accepts) = match'
    BY DEF Commit
  <2>. QED BY <2>1, <1>1 DEF Commit, CoreInv, TypeOK
<1>5. DEFINE a == [request |-> request[h], code |-> "OK", stateVersion |-> match'.stateVersion,
                   lastSequence |-> match'.lastSequence]
<1>6. a \in Answers
  BY <1>0, <1>1 DEF Answers
<1>7. AnswerWith(h, a)
  BY CommitStores
<1>8. RunningOK' /\ Pending' /\ Reading'
  BY <1>0, <1>6, <1>7, AnswerLeaves
<1>. QED BY <1>0, <1>2, <1>3, <1>4, <1>8 DEF CoreInv, TypeOK, RunningOK

LEMMA CoreStep == CoreInv /\ [Next]_vars => CoreInv'
<1> SUFFICES ASSUME CoreInv, [Next]_vars PROVE CoreInv'
  OBVIOUS
<1> USE DEF CoreInv
<1>1. ASSUME NEW r \in Requests, Issue(r) PROVE CoreInv'
  BY <1>1 DEF Issue, stored, running, TypeOK, Pending, Reading
<1>2. ASSUME NEW h \in Handlers, NEW r \in issued, Receive(h, r) PROVE CoreInv'
  <2>1. TypeOK'
    BY <1>2 DEF Receive, stored, TypeOK
  <2>2. Pending' /\ Reading'
    BY <1>2 DEF Receive, stored, TypeOK, Pending, Reading
  <2>. QED BY <2>1, <2>2
<1>3. ASSUME NEW h \in Handlers, Lock(h) PROVE CoreInv'
  <2>1. TypeOK'
    BY <1>3 DEF Lock, stored, TypeOK
  <2>2. Pending' /\ Reading'
    BY <1>3 DEF Lock, stored, TypeOK, Pending, Reading
  <2>. QED BY <2>1, <2>2
<1>4. ASSUME NEW h \in Handlers, GiveUp(h) PROVE CoreInv'
  <2>1. TypeOK'
    BY <1>4 DEF GiveUp, stored, TypeOK
  <2>2. Pending' /\ Reading'
    BY <1>4 DEF GiveUp, stored, TypeOK, Pending, Reading
  <2>. QED BY <2>1, <2>2
<1>5. ASSUME NEW h \in Handlers, Replay(h) PROVE CoreInv'
  <2>1. PICK p \in Replayed(request[h]) :
          AnswerWith(h, [request |-> p.request, code |-> "OK",
                         stateVersion |-> p.stateVersion, lastSequence |-> p.lastSequence])
    BY <1>5 DEF Replay
  <2>2. p \in [request : Requests, stateVersion : Nat, lastSequence : Nat]
    BY DEF Replayed, Prior, TypeOK
  <2>3. [request |-> p.request, code |-> "OK", stateVersion |-> p.stateVersion,
         lastSequence |-> p.lastSequence] \in Answers
    BY <2>2 DEF Answers
  <2>4. RunningOK' /\ Pending' /\ Reading'
    BY <1>5, <2>1, <2>3, AnswerLeaves DEF Replay
  <2>. QED BY <1>5, <2>4 DEF Replay, stored, TypeOK, RunningOK
<1>6. ASSUME NEW h \in Handlers, Reject(h) PROVE CoreInv'
  <2>1. stage[h] = "LOCKED" /\ request[h] \in Requests /\ seen[h] \in MatchRows
    BY <1>6 DEF Reject, Pending, TypeOK
  <2>2. Rejection(request[h], seen[h]) \in Codes
    BY <1>6 DEF Reject, Rejection, Codes
  <2>3. [request |-> request[h], code |-> Rejection(request[h], seen[h]),
         stateVersion |-> seen[h].stateVersion, lastSequence |-> seen[h].lastSequence] \in Answers
    BY <2>1, <2>2 DEF Answers, MatchRows
  <2>4. RunningOK' /\ Pending' /\ Reading'
    BY <1>6, <2>1, <2>3, AnswerLeaves DEF Reject
  <2>. QED BY <1>6, <2>4 DEF Reject, stored, TypeOK, RunningOK
<1>7. ASSUME NEW h \in Handlers, Abort(h) PROVE CoreInv'
  <2>1. RunningOK' /\ Pending' /\ Reading'
    BY <1>7, ForgetLeaves DEF Abort, stored, TypeOK
  <2>. QED BY <1>7, <2>1 DEF Abort, stored, TypeOK, RunningOK
<1>8. ASSUME NEW h \in Handlers, Deliver(h) PROVE CoreInv'
  <2>1. holders' = holders \ {h} /\ answers' \in SUBSET Answers
    BY <1>8 DEF Deliver, TypeOK
  <2>2. RunningOK' /\ Pending' /\ Reading'
    BY <1>8, <2>1, ForgetLeaves DEF Deliver, stored
  <2>. QED BY <1>8, <2>2 DEF Deliver, stored, TypeOK, RunningOK
<1>9. ASSUME NEW h \in Handlers, Lose(h) PROVE CoreInv'
  <2>1. holders' = holders \ {h} /\ answers' \in SUBSET Answers
    BY <1>9 DEF Lose, TypeOK
  <2>2. RunningOK' /\ Pending' /\ Reading'
    BY <1>9, <2>1, ForgetLeaves DEF Lose, stored
  <2>. QED BY <1>9, <2>2 DEF Lose, stored, TypeOK, RunningOK
<1>10. CASE Crash
  <2>1. NoMatch \in MatchRows /\ NoAnswer \in Answers
    BY DEF NoMatch, MatchRows, NoAnswer, Answers
  <2>. QED BY <1>10, <2>1 DEF Crash, stored, TypeOK, Pending, Reading
<1>11. CASE UNCHANGED vars
  BY <1>11 DEF vars, stored, running, TypeOK, Pending, Reading
<1>. QED
  BY <1>1, <1>2, <1>3, <1>4, <1>5, <1>6, <1>7, <1>8, <1>9, <1>10, <1>11, CommitCore
  DEF Next, Handle

(* Every reachable state is well typed, exactly the handlers inside a      *)
(* transaction hold the match row, and there is at most one of them.       *)
THEOREM TypeCorrect == Spec => []TypeOK
<1>1. Spec => []CoreInv
  BY CoreInit, CoreStep, PTL DEF Spec
<1>2. CoreInv => TypeOK
  BY DEF CoreInv
<1>. QED BY <1>1, <1>2, PTL

-----------------------------------------------------------------------------
(* The journal. *)

(* Only an accepted command changes what is stored. *)
LEMMA OnlyCommitStores ==
  ASSUME [Next]_vars
  PROVE  \/ UNCHANGED stored
         \/ \E h \in Handlers : \E count \in 1 .. MaxEvents, accepts \in SUBSET (Commands \ Foreign) :
              Commit(h, count, accepts)
  BY DEF Next, Handle, vars, Issue, Receive, Lock, GiveUp, Replay, Reject, Abort, Deliver, Lose, Crash

(* Sequences start at 1, with the first version. *)
JournalInv ==
  /\ JournalTiled
  /\ match.stateVersion = 0 => match.lastSequence = 0
  /\ \A row \in outbox : row.from >= 1

LEMMA JournalStart == Init => JournalInv
  BY DEF Init, NewMatch, JournalInv, JournalTiled

LEMMA CommitTiles ==
  ASSUME CoreInv, JournalInv, NEW h \in Handlers, NEW count \in 1 .. MaxEvents,
         NEW accepts \in SUBSET (Commands \ Foreign), Commit(h, count, accepts)
  PROVE  JournalInv'
<1> DEFINE new == [stateVersion |-> match.stateVersion + 1, from |-> match.lastSequence + 1,
                   to |-> match.lastSequence + count]
<1>1. /\ journal' = journal \o Entries(match.stateVersion + 1, count)
      /\ outbox' = outbox \union {new}
      /\ match'.stateVersion = match.stateVersion + 1
      /\ match'.lastSequence = match.lastSequence + count
  BY CommitStores
<1>2. /\ match.stateVersion \in Nat /\ match.lastSequence \in Nat /\ count \in Nat /\ count > 0
      /\ journal \in Seq(Nat)
      /\ outbox \in SUBSET [stateVersion : Nat, from : Nat, to : Nat]
  BY <1>1, CommandAssumption DEF CoreInv, TypeOK, MatchRows
<1>3. /\ Len(journal') = match'.lastSequence
      /\ \A s \in 1 .. match.lastSequence : journal'[s] = journal[s]
      /\ \A s \in match.lastSequence + 1 .. match'.lastSequence : journal'[s] = match'.stateVersion
  <2>1. Len(journal) = match.lastSequence
    BY DEF JournalInv, JournalTiled
  <2>2. match.stateVersion + 1 \in Nat
    BY <1>2
  <2>3. /\ Len(journal') = Len(journal) + count
        /\ \A s \in 1 .. Len(journal) : journal'[s] = journal[s]
        /\ \A s \in Len(journal) + 1 .. Len(journal) + count : journal'[s] = match.stateVersion + 1
    <3> DEFINE v == match.stateVersion + 1
    <3> HIDE DEF v
    <3>1. v \in Nat /\ journal \in Seq(Nat) /\ count \in Nat
      BY <1>2, <2>2 DEF v
    <3>2. journal' = journal \o Entries(v, count)
      BY <1>1 DEF v
    <3>3. /\ Len(journal \o Entries(v, count)) = Len(journal) + count
          /\ \A s \in 1 .. Len(journal) : (journal \o Entries(v, count))[s] = journal[s]
          /\ \A s \in Len(journal) + 1 .. Len(journal) + count :
               (journal \o Entries(v, count))[s] = v
      BY <3>1, JournalGrows
    <3>. QED BY <3>2, <3>3 DEF v
  <2>. QED BY <1>1, <2>1, <2>3
<1>4. \A row \in outbox : row.stateVersion \in 1 .. match.stateVersion
  BY DEF JournalInv, JournalTiled
<1>5. {row.stateVersion : row \in outbox'} = 1 .. match'.stateVersion
  <2>1. {row.stateVersion : row \in outbox'} = {row.stateVersion : row \in outbox} \union {new.stateVersion}
    BY <1>1
  <2>2. {row.stateVersion : row \in outbox} = 1 .. match.stateVersion
    BY DEF JournalInv, JournalTiled
  <2>3. new.stateVersion = match.stateVersion + 1
    BY <1>1
  <2>4. 1 .. match'.stateVersion = (1 .. match.stateVersion) \union {match.stateVersion + 1}
    BY <1>1, <1>2
  <2>. QED BY <2>1, <2>2, <2>3, <2>4
<1>6. ASSUME NEW a \in outbox', NEW b \in outbox'
      PROVE  /\ a.stateVersion = b.stateVersion => a = b
             /\ b.stateVersion = a.stateVersion + 1 => b.from = a.to + 1
  <2>1. CASE a \in outbox /\ b \in outbox
    BY <2>1 DEF JournalInv, JournalTiled
  <2>2. CASE a = new /\ b \in outbox
    BY <1>1, <1>2, <1>4, <2>2
  <2>3. CASE a \in outbox /\ b = new
    <3>1. a.stateVersion = match.stateVersion => a.to = match.lastSequence
      BY <2>3 DEF JournalInv, JournalTiled
    <3>. QED BY <1>1, <1>2, <1>4, <2>3, <3>1
  <2>4. CASE a = new /\ b = new
    BY <1>1, <1>2, <2>4
  <2>. QED BY <1>1, <2>1, <2>2, <2>3, <2>4
<1>7. ASSUME NEW row \in outbox'
      PROVE  /\ row.from <= row.to /\ row.to <= match'.lastSequence
             /\ row.stateVersion = 1 => row.from = 1
             /\ row.stateVersion = match'.stateVersion => row.to = match'.lastSequence
             /\ \A s \in row.from .. row.to : journal'[s] = row.stateVersion
  <2>1. CASE row \in outbox
    <3>1. /\ row.from <= row.to /\ row.to <= match.lastSequence
          /\ row.stateVersion = 1 => row.from = 1
          /\ \A s \in row.from .. row.to : journal[s] = row.stateVersion
      BY <2>1 DEF JournalInv, JournalTiled
    <3>2. row.from >= 1
      BY <2>1 DEF JournalInv
    <3>3. /\ row.from \in Nat /\ row.to \in Nat /\ row.stateVersion \in Nat
          /\ row.stateVersion # match'.stateVersion
      BY <1>1, <1>2, <1>4, <2>1
    <3>4. ASSUME NEW s \in row.from .. row.to PROVE journal'[s] = row.stateVersion
      <4>1. s \in 1 .. match.lastSequence
        BY <1>2, <3>1, <3>2, <3>3
      <4>. QED BY <1>3, <3>1, <4>1
    <3>5. row.to <= match'.lastSequence
      BY <1>1, <1>2, <3>1, <3>3
    <3>. QED BY <3>1, <3>3, <3>4, <3>5
  <2>2. CASE row = new
    BY <1>1, <1>2, <1>3, <2>2 DEF JournalInv
  <2>. QED BY <1>1, <2>1, <2>2
<1>8. \A row \in outbox' : row.from >= 1
  BY <1>1, <1>2 DEF JournalInv
<1>9. match'.stateVersion # 0
  BY <1>1, <1>2
<1>10. JournalTiled'
  BY <1>3, <1>5, <1>6, <1>7 DEF JournalTiled
<1>. QED BY <1>8, <1>9, <1>10 DEF JournalInv, JournalTiled

LEMMA JournalStep == CoreInv /\ JournalInv /\ [Next]_vars => JournalInv'
<1> SUFFICES ASSUME CoreInv, JournalInv, [Next]_vars PROVE JournalInv'
  OBVIOUS
<1>1. CASE UNCHANGED stored
  BY <1>1 DEF stored, JournalInv, JournalTiled
<1>2. CASE \E h \in Handlers : \E count \in 1 .. MaxEvents, accepts \in SUBSET (Commands \ Foreign) :
             Commit(h, count, accepts)
  BY <1>2, CommitTiles
<1>. QED BY <1>1, <1>2, OnlyCommitStores

(* The announced intervals tile the journal, for any number of racing      *)
(* handlers and any sizes of transitions.                                  *)
THEOREM JournalTiledHolds == Spec => []JournalTiled
<1>1. Spec => []CoreInv
  BY CoreInit, CoreStep, PTL DEF Spec
<1>2. Spec => []JournalInv
  BY <1>1, JournalStart, JournalStep, PTL DEF Spec
<1>3. JournalInv => JournalTiled
  BY DEF JournalInv
<1>. QED BY <1>2, <1>3, PTL

-----------------------------------------------------------------------------
(* Processed actions, and what clients are told of them. *)

(* One processed action per version, at the version its request asked for, *)
(* announced with the sequence it was answered with.                       *)
Recorded ==
  /\ \A p \in processed :
       /\ p.stateVersion \in 1 .. match.stateVersion
       /\ p.stateVersion = p.request.expected + 1
       /\ \E row \in outbox : row.stateVersion = p.stateVersion /\ row.to = p.lastSequence
  /\ \A v \in 1 .. match.stateVersion : \E p \in processed : p.stateVersion = v
  /\ \A p, q \in processed : p.stateVersion = q.stateVersion => p = q

(* Requests are issued against versions that exist. *)
Past == \A r \in issued : r.expected <= match.stateVersion

(* A request that has not taken effect and never will. *)
Refused(r) ==
  /\ \A p \in processed : p.request # r
  /\ \/ \E p \in processed : p.request.id = r.id
     \/ match.status # "ACTIVE"
     \/ r.expected < match.stateVersion
     \/ r.command \in Foreign
     \/ r.expected = match.stateVersion /\ r.command \notin match.accepts

(* An answer that stays true. *)
Confirmed(a) ==
  \E p \in processed : /\ p.request = a.request /\ p.stateVersion = a.stateVersion
                       /\ p.lastSequence = a.lastSequence
Honest(a) ==
  /\ a.request \in Requests
  /\ a.code = "OK" => Confirmed(a)
  /\ a.code # "OK" => Refused(a.request)

Told ==
  /\ \A h \in Handlers : stage[h] = "ANSWERING" => Honest(answer[h])
  /\ \A a \in answers : Honest(a)

LogInv == Recorded /\ Past /\ Told

LEMMA LogStart == Init => LogInv
  BY DEF Init, NewMatch, LogInv, Recorded, Past, Told

(* The engine was asked for a fresh request of the current version.        *)
LEMMA AcceptedIsCurrent ==
  ASSUME NEW r \in Requests, Rejection(r, match) = "NONE"
  PROVE  /\ match.status = "ACTIVE" /\ r.expected = match.stateVersion
         /\ r.command \notin Foreign /\ r.command \in match.accepts
  BY DEF Rejection

(* A request that is rejected has not been applied, and never will be.     *)
LEMMA RejectionIsFinal ==
  ASSUME CoreInv, Past, NEW r \in issued, Replayed(r) = {}, Rejection(r, match) # "NONE"
  PROVE  Refused(r)
<1>1. r \in Requests /\ r.expected \in Nat /\ match.stateVersion \in Nat
      /\ r.expected <= match.stateVersion
  BY CommandAssumption DEF CoreInv, TypeOK, MatchRows, Past, Requests
<1>2. \A p \in processed : p.request # r
  BY DEF Replayed, Prior
<1>3. CASE Prior(r) # {}
  BY <1>2, <1>3 DEF Refused, Prior
<1>4. CASE match.status # "ACTIVE"
  BY <1>2, <1>4 DEF Refused
<1>5. CASE r.expected # match.stateVersion
  BY <1>1, <1>2, <1>5 DEF Refused
<1>6. CASE r.command \in Foreign
  BY <1>2, <1>6 DEF Refused
<1>7. CASE r.expected = match.stateVersion /\ r.command \notin match.accepts
  BY <1>2, <1>7 DEF Refused
<1>8. Prior(r) # {} \/ match.status # "ACTIVE" \/ r.expected # match.stateVersion
        \/ r.command \in Foreign \/ r.command \notin match.accepts
  BY DEF Rejection
<1>. QED BY <1>3, <1>4, <1>5, <1>6, <1>7, <1>8

(* What was said stays true when a command commits.                        *)
LEMMA CommitKeepsHonest ==
  ASSUME CoreInv, NEW h \in Handlers, NEW count \in 1 .. MaxEvents,
         NEW accepts \in SUBSET (Commands \ Foreign), Commit(h, count, accepts),
         NEW a, Honest(a)
  PROVE  Honest(a)'
<1> DEFINE r == request[h]
           new == [request |-> r, stateVersion |-> match'.stateVersion,
                   lastSequence |-> match'.lastSequence]
<1>1. /\ r \in Requests /\ processed' = processed \union {new} /\ Prior(r) = {}
      /\ Rejection(r, match) = "NONE" /\ match'.stateVersion = match.stateVersion + 1
  BY CommitStores
<1>2. /\ match.status = "ACTIVE" /\ r.expected = match.stateVersion
      /\ r.command \notin Foreign /\ r.command \in match.accepts
  BY <1>1, AcceptedIsCurrent
<1>3. match.stateVersion \in Nat /\ a.request.expected \in Nat
  BY CommandAssumption DEF CoreInv, TypeOK, MatchRows, Honest, Requests
<1>4. CASE a.code = "OK"
  BY <1>1, <1>4 DEF Honest, Confirmed
<1>5. CASE a.code # "OK"
  <2>1. Refused(a.request)
    BY <1>5 DEF Honest
  <2>2. a.request # r
    BY <1>1, <1>2, <1>3, <2>1 DEF Refused, Prior
  <2>3. \A p \in processed' : p.request # a.request
    BY <1>1, <2>1, <2>2 DEF Refused
  <2>4. \/ \E p \in processed' : p.request.id = a.request.id
        \/ a.request.expected < match'.stateVersion
        \/ a.request.command \in Foreign
    BY <1>1, <1>2, <1>3, <2>1 DEF Refused
  <2>. QED BY <1>5, <2>3, <2>4 DEF Honest, Refused
<1>. QED BY <1>4, <1>5

(* Steps that store nothing make no answer false. *)
LEMMA UnstoredKeepsHonest ==
  ASSUME UNCHANGED stored, NEW a, Honest(a)
  PROVE  Honest(a)'
  BY DEF stored, Honest, Confirmed, Refused

LEMMA CommitRecords ==
  ASSUME CoreInv, LogInv, NEW h \in Handlers, NEW count \in 1 .. MaxEvents,
         NEW accepts \in SUBSET (Commands \ Foreign), Commit(h, count, accepts)
  PROVE  Recorded' /\ Past'
<1> DEFINE r == request[h]
           n == match.stateVersion
           new == [request |-> r, stateVersion |-> n + 1,
                   lastSequence |-> match.lastSequence + count]
           row == [stateVersion |-> n + 1, from |-> match.lastSequence + 1,
                   to |-> match.lastSequence + count]
<1>1. /\ r \in Requests /\ processed' = processed \union {new}
      /\ outbox' = outbox \union {row}
      /\ Rejection(r, match) = "NONE" /\ match'.stateVersion = n + 1 /\ issued' = issued
  BY CommitStores
<1>2. r.expected = n
  BY <1>1, AcceptedIsCurrent
<1>3. n \in Nat /\ \A q \in issued : q.expected \in Nat
  BY CommandAssumption DEF CoreInv, TypeOK, MatchRows, Requests
<1>4. /\ new.stateVersion = n + 1 /\ new.request = r /\ row.stateVersion = n + 1
      /\ row.to = new.lastSequence
  OBVIOUS
<1> HIDE DEF new, row
<1>5. ASSUME NEW p \in processed'
      PROVE  /\ p.stateVersion \in 1 .. n + 1
             /\ p.stateVersion = p.request.expected + 1
             /\ \E o \in outbox' : o.stateVersion = p.stateVersion /\ o.to = p.lastSequence
  <2>1. CASE p \in processed
    <3>1. /\ p.stateVersion \in 1 .. n
          /\ p.stateVersion = p.request.expected + 1
          /\ \E o \in outbox : o.stateVersion = p.stateVersion /\ o.to = p.lastSequence
      BY <2>1 DEF LogInv, Recorded
    <3>. QED BY <1>1, <1>3, <3>1
  <2>2. CASE p = new
    BY <1>1, <1>2, <1>3, <1>4, <2>2
  <2>. QED BY <1>1, <2>1, <2>2
<1>6. ASSUME NEW v \in 1 .. n + 1 PROVE \E p \in processed' : p.stateVersion = v
  <2>1. CASE v \in 1 .. n
    BY <1>1, <2>1 DEF LogInv, Recorded
  <2>2. CASE v = n + 1
    BY <1>1, <1>4, <2>2
  <2>. QED BY <1>3, <2>1, <2>2
<1>7. ASSUME NEW p \in processed', NEW q \in processed', p.stateVersion = q.stateVersion
      PROVE  p = q
  <2>1. \A o \in processed : o.stateVersion \in 1 .. n
    BY DEF LogInv, Recorded
  <2>2. \A o \in processed : o.stateVersion # new.stateVersion
    BY <1>3, <1>4, <2>1
  <2>3. CASE p \in processed /\ q \in processed
    BY <1>7, <2>3 DEF LogInv, Recorded
  <2>. QED BY <1>1, <1>7, <2>2, <2>3
<1>8. Recorded'
  BY <1>1, <1>5, <1>6, <1>7 DEF Recorded
<1>9. Past'
  BY <1>1, <1>3 DEF LogInv, Past
<1>. QED BY <1>8, <1>9

LEMMA CommitTells ==
  ASSUME CoreInv, LogInv, NEW h \in Handlers, NEW count \in 1 .. MaxEvents,
         NEW accepts \in SUBSET (Commands \ Foreign), Commit(h, count, accepts)
  PROVE  Told'
<1> DEFINE new == [request |-> request[h], stateVersion |-> match'.stateVersion,
                   lastSequence |-> match'.lastSequence]
<1>1. PICK a : a = [request |-> request[h], code |-> "OK", stateVersion |-> match'.stateVersion,
                    lastSequence |-> match'.lastSequence]
  OBVIOUS
<1>2. /\ request[h] \in Requests /\ processed' = processed \union {new}
      /\ AnswerWith(h, a) /\ answers' = answers /\ stage[h] = "LOCKED"
  BY <1>1, CommitStores
<1>3. Honest(a)'
  <2>1. /\ new \in processed' /\ new.request = a.request
        /\ new.stateVersion = a.stateVersion /\ new.lastSequence = a.lastSequence
    BY <1>1, <1>2
  <2>2. Confirmed(a)'
    BY <2>1 DEF Confirmed
  <2>. QED BY <1>1, <1>2, <2>2 DEF Honest
<1>4. \A b \in answers' : Honest(b)'
  BY <1>2, CommitKeepsHonest DEF LogInv, Told
<1>5. ASSUME NEW g \in Handlers, stage'[g] = "ANSWERING" PROVE Honest(answer[g])'
  <2>1. CASE g = h
    <3>1. answer'[h] = a
      BY <1>2 DEF AnswerWith, CoreInv, TypeOK
    <3>. QED BY <1>3, <2>1, <3>1 DEF Honest, Confirmed, Refused
  <2>2. CASE g # h
    <3>1. PICK b : b = answer[g]
      OBVIOUS
    <3>2. stage[g] = "ANSWERING" /\ answer'[g] = b
      BY <1>2, <1>5, <2>2, <3>1 DEF AnswerWith, CoreInv, TypeOK
    <3>3. Honest(b)
      BY <3>1, <3>2 DEF LogInv, Told
    <3>4. Honest(b)'
      BY <3>3, CommitKeepsHonest
    <3>. QED BY <3>2, <3>4 DEF Honest, Confirmed, Refused
  <2>. QED BY <2>1, <2>2
<1>. QED BY <1>4, <1>5 DEF Told

(* A step that stores nothing may only say what is true already.           *)
LEMMA UnstoredTells ==
  ASSUME UNCHANGED stored,
         \A g \in Handlers : stage'[g] = "ANSWERING" => \E a : Honest(a) /\ answer'[g] = a,
         \A a \in answers' : Honest(a)
  PROVE  Told'
<1>1. \A a \in answers' : Honest(a)'
  BY UnstoredKeepsHonest
<1>2. ASSUME NEW g \in Handlers, stage'[g] = "ANSWERING" PROVE Honest(answer[g])'
  <2>1. PICK a : Honest(a) /\ answer'[g] = a
    BY <1>2
  <2>2. Honest(a)'
    BY <2>1, UnstoredKeepsHonest
  <2>. QED BY <2>1, <2>2 DEF Honest, Confirmed, Refused
<1>. QED BY <1>1, <1>2 DEF Told

LEMMA UnstoredRecorded ==
  ASSUME UNCHANGED stored, LogInv
  PROVE  Recorded' /\ (issued' = issued => Past')
  BY DEF stored, LogInv, Recorded, Past

LEMMA LogStep == CoreInv /\ LogInv /\ [Next]_vars => LogInv'
<1> SUFFICES ASSUME CoreInv, LogInv, [Next]_vars PROVE LogInv'
  OBVIOUS
<1>0. ASSUME UNCHANGED <<stored, issued, answers>>,
             \A g \in Handlers : stage'[g] = "ANSWERING" =>
               stage[g] = "ANSWERING" /\ answer'[g] = answer[g]
      PROVE  LogInv'
  <2>1. \A g \in Handlers : stage'[g] = "ANSWERING" => \E a : Honest(a) /\ answer'[g] = a
    BY <1>0 DEF LogInv, Told
  <2>2. \A a \in answers' : Honest(a)
    BY <1>0 DEF LogInv, Told
  <2>. QED BY <1>0, <2>1, <2>2, UnstoredTells, UnstoredRecorded DEF LogInv
<1>1. ASSUME NEW r \in Requests, Issue(r) PROVE LogInv'
  <2>1. Past'
    BY <1>1 DEF Issue, stored, LogInv, Past
  <2>2. \A g \in Handlers : stage'[g] = "ANSWERING" => \E a : Honest(a) /\ answer'[g] = a
    BY <1>1 DEF Issue, running, LogInv, Told
  <2>3. \A a \in answers' : Honest(a)
    BY <1>1 DEF Issue, LogInv, Told
  <2>4. UNCHANGED stored
    BY <1>1 DEF Issue
  <2>. QED BY <2>1, <2>2, <2>3, <2>4, UnstoredTells, UnstoredRecorded DEF LogInv
<1>2. ASSUME NEW h \in Handlers, NEW r \in issued, Receive(h, r) PROVE LogInv'
  BY <1>0, <1>2 DEF Receive, CoreInv, TypeOK
<1>3. ASSUME NEW h \in Handlers, Lock(h) PROVE LogInv'
  BY <1>0, <1>3 DEF Lock, CoreInv, TypeOK
<1>4. ASSUME NEW h \in Handlers, GiveUp(h) PROVE LogInv'
  BY <1>0, <1>4 DEF GiveUp, CoreInv, TypeOK
<1>5. ASSUME NEW h \in Handlers, NEW a, Honest(a), AnswerWith(h, a), UNCHANGED stored
      PROVE  LogInv'
  <2>1. \A g \in Handlers : stage'[g] = "ANSWERING" => \E b : Honest(b) /\ answer'[g] = b
    BY <1>5 DEF AnswerWith, CoreInv, TypeOK, LogInv, Told
  <2>2. \A b \in answers' : Honest(b)
    BY <1>5 DEF AnswerWith, LogInv, Told
  <2>. QED BY <1>5, <2>1, <2>2, UnstoredTells, UnstoredRecorded DEF LogInv, AnswerWith
<1>6. ASSUME NEW h \in Handlers, Replay(h) PROVE LogInv'
  <2>1. PICK p \in Replayed(request[h]) :
          AnswerWith(h, [request |-> p.request, code |-> "OK",
                         stateVersion |-> p.stateVersion, lastSequence |-> p.lastSequence])
    BY <1>6 DEF Replay
  <2>2. p \in processed /\ p.request \in Requests
    BY DEF Replayed, Prior, CoreInv, TypeOK
  <2>3. Honest([request |-> p.request, code |-> "OK",
                stateVersion |-> p.stateVersion, lastSequence |-> p.lastSequence])
    BY <2>2 DEF Honest, Confirmed
  <2>. QED BY <1>5, <1>6, <2>1, <2>3 DEF Replay
<1>7. ASSUME NEW h \in Handlers, Reject(h) PROVE LogInv'
  <2>1. stage[h] = "LOCKED" /\ request[h] \in issued /\ seen[h] = match
    BY <1>7 DEF Reject, CoreInv, Pending, Reading
  <2>2. Refused(request[h])
    BY <1>7, <2>1, RejectionIsFinal DEF Reject, LogInv
  <2>3. Rejection(request[h], seen[h]) # "OK" /\ request[h] \in Requests
    <3>1. Rejection(request[h], seen[h]) \in Codes \union {"NONE"}
      BY DEF Rejection, Codes
    <3>. QED BY <2>1, <3>1 DEF Codes, CoreInv, TypeOK
  <2>4. Honest([request |-> request[h], code |-> Rejection(request[h], seen[h]),
                stateVersion |-> seen[h].stateVersion, lastSequence |-> seen[h].lastSequence])
    BY <2>2, <2>3 DEF Honest
  <2>. QED BY <1>5, <1>7, <2>4 DEF Reject
<1>8. ASSUME NEW h \in Handlers, Abort(h) PROVE LogInv'
  BY <1>0, <1>8 DEF Abort, Forget, CoreInv, TypeOK
<1>9. ASSUME NEW h \in Handlers, Deliver(h) PROVE LogInv'
  <2>1. \A g \in Handlers : stage'[g] = "ANSWERING" => \E a : Honest(a) /\ answer'[g] = a
    BY <1>9 DEF Deliver, Forget, CoreInv, TypeOK, LogInv, Told
  <2>2. \A a \in answers' : Honest(a)
    BY <1>9 DEF Deliver, LogInv, Told
  <2>. QED BY <1>9, <2>1, <2>2, UnstoredTells, UnstoredRecorded DEF Deliver, LogInv
<1>10. ASSUME NEW h \in Handlers, Lose(h) PROVE LogInv'
  BY <1>0, <1>10 DEF Lose, Forget, CoreInv, TypeOK
<1>11. CASE Crash
  BY <1>0, <1>11 DEF Crash
<1>12. CASE UNCHANGED vars
  BY <1>0, <1>12 DEF vars, running
<1>13. ASSUME NEW h \in Handlers, NEW count \in 1 .. MaxEvents,
              NEW accepts \in SUBSET (Commands \ Foreign), Commit(h, count, accepts)
       PROVE  LogInv'
  BY <1>13, CommitRecords, CommitTells DEF LogInv
<1>. QED
  BY <1>1, <1>2, <1>3, <1>4, <1>6, <1>7, <1>8, <1>9, <1>10, <1>11, <1>12, <1>13
  DEF Next, Handle

(* Whatever a client is told of a success, at once or on a retry, is what  *)
(* is broadcast for it.                                                    *)
THEOREM AckAgreesWithBroadcastHolds == Spec => []AckAgreesWithBroadcast
<1>1. Spec => []CoreInv
  BY CoreInit, CoreStep, PTL DEF Spec
<1>2. Spec => []LogInv
  BY <1>1, LogStart, LogStep, PTL DEF Spec
<1>3. LogInv => AckAgreesWithBroadcast
  BY DEF LogInv, Told, Honest, Confirmed, Recorded, AckAgreesWithBroadcast
<1>. QED BY <1>2, <1>3, PTL

-----------------------------------------------------------------------------
(* The refinement of CommandLog. *)

(* Log, as a function of the processed actions and the current version.    *)
LogOf(P, n) == [v \in 1 .. n |-> (CHOOSE p \in P : p.stateVersion = v).request]

Accepted(A) == {<<a.request, a.stateVersion>> : a \in {b \in A : b.code = "OK"}}
Rejected(A) == {a.request : a \in {b \in A : b.code # "OK"}}

(* One record per version makes it a log, whose entries are the requests.  *)
LEMMA LogOfRecords ==
  ASSUME NEW P, NEW n \in Nat,
         \A p \in P : p.request \in Requests,
         \A v \in 1 .. n : \E p \in P : p.stateVersion = v,
         \A p, q \in P : p.stateVersion = q.stateVersion => p = q
  PROVE  /\ LogOf(P, n) \in Seq(Requests)
         /\ Len(LogOf(P, n)) = n
         /\ \A p \in P : p.stateVersion \in 1 .. n => LogOf(P, n)[p.stateVersion] = p.request
         /\ \A v \in 1 .. n : \E p \in P : p.stateVersion = v /\ LogOf(P, n)[v] = p.request
<1>1. ASSUME NEW v \in 1 .. n
      PROVE  \E p \in P : p.stateVersion = v /\ LogOf(P, n)[v] = p.request
  <2>1. (CHOOSE p \in P : p.stateVersion = v) \in P
        /\ (CHOOSE p \in P : p.stateVersion = v).stateVersion = v
    OBVIOUS
  <2>2. LogOf(P, n)[v] = (CHOOSE p \in P : p.stateVersion = v).request
    BY DEF LogOf
  <2>. QED BY <2>1, <2>2
<1>2. LogOf(P, n) \in [1 .. n -> Requests]
  <2>1. \A v \in 1 .. n : LogOf(P, n)[v] \in Requests
    BY <1>1
  <2>2. LogOf(P, n) = [v \in 1 .. n |-> LogOf(P, n)[v]]
    BY DEF LogOf
  <2>. QED BY <2>1, <2>2
<1>3. LogOf(P, n) \in Seq(Requests) /\ Len(LogOf(P, n)) = n
  BY <1>2
<1>4. \A p \in P : p.stateVersion \in 1 .. n => LogOf(P, n)[p.stateVersion] = p.request
  BY <1>1
<1>. QED BY <1>1, <1>3, <1>4

(* A record of the next version appends its request.                       *)
LEMMA LogOfGrows ==
  ASSUME NEW P, NEW n \in Nat, NEW new, new.stateVersion = n + 1, new.request \in Requests,
         \A p \in P : p.request \in Requests,
         \A p \in P : p.stateVersion \in 1 .. n,
         \A v \in 1 .. n : \E p \in P : p.stateVersion = v,
         \A p, q \in P : p.stateVersion = q.stateVersion => p = q
  PROVE  LogOf(P \union {new}, n + 1) = Append(LogOf(P, n), new.request)
<1> DEFINE Q == P \union {new}
           old == LogOf(P, n)
           ext == LogOf(Q, n + 1)
           app == Append(old, new.request)
<1>1. /\ old \in Seq(Requests) /\ Len(old) = n
      /\ \A p \in P : old[p.stateVersion] = p.request
  BY LogOfRecords
<1>2. /\ \A p \in Q : p.request \in Requests
      /\ \A v \in 1 .. n + 1 : \E p \in Q : p.stateVersion = v
      /\ \A p, q \in Q : p.stateVersion = q.stateVersion => p = q
  <2>1. \A v \in 1 .. n + 1 : v \in 1 .. n \/ v = n + 1
    OBVIOUS
  <2>2. \A p \in P : p.stateVersion # new.stateVersion
    OBVIOUS
  <2>. QED BY <2>1, <2>2
<1>3. /\ ext \in Seq(Requests) /\ Len(ext) = n + 1
      /\ \A p \in Q : p.stateVersion \in 1 .. n + 1 => ext[p.stateVersion] = p.request
  <2>1. n + 1 \in Nat
    OBVIOUS
  <2>. HIDE DEF Q
  <2>. QED BY <1>2, <2>1, LogOfRecords
<1>. HIDE DEF old, ext
<1>4. /\ app \in Seq(Requests) /\ Len(app) = n + 1
      /\ \A i \in 1 .. n : app[i] = old[i]
      /\ app[n + 1] = new.request
  BY <1>1, AppendProperties
<1>. HIDE DEF app, Q
<1>5. ASSUME NEW i \in 1 .. n + 1 PROVE ext[i] = app[i]
  <2>1. CASE i \in 1 .. n
    <3>1. PICK p \in P : p.stateVersion = i
      BY <2>1
    <3>2. old[i] = p.request
      BY <1>1, <3>1
    <3>3. ext[i] = p.request
      BY <1>3, <3>1 DEF Q
    <3>. QED BY <1>4, <2>1, <3>2, <3>3
  <2>2. CASE i = n + 1
    <3>1. ext[i] = new.request
      BY <1>3, <2>2 DEF Q
    <3>. QED BY <1>4, <2>2, <3>1
  <2>. QED BY <2>1, <2>2
<1>6. ext = app
  BY <1>3, <1>4, <1>5, SeqEqual
<1>. QED BY <1>6 DEF ext, old, app, Q

(* The log of a reachable state: entry v is the request of version v.      *)
LEMMA LogIsRecorded ==
  ASSUME CoreInv, LogInv
  PROVE  /\ Log = LogOf(processed, match.stateVersion)
         /\ Log \in Seq(Requests) /\ Len(Log) = match.stateVersion
         /\ \A p \in processed : p.stateVersion \in 1 .. Len(Log) /\ Log[p.stateVersion] = p.request
         /\ \A v \in 1 .. Len(Log) : \E p \in processed : Log[v] = p.request
<1>1. Log = LogOf(processed, match.stateVersion)
  BY DEF Log, LogOf
<1>2. /\ match.stateVersion \in Nat
      /\ \A p \in processed : p.request \in Requests
  BY DEF CoreInv, TypeOK, MatchRows
<1>3. /\ \A p \in processed : p.stateVersion \in 1 .. match.stateVersion
      /\ \A v \in 1 .. match.stateVersion : \E p \in processed : p.stateVersion = v
      /\ \A p, q \in processed : p.stateVersion = q.stateVersion => p = q
  BY DEF LogInv, Recorded
<1>4. /\ LogOf(processed, match.stateVersion) \in Seq(Requests)
      /\ Len(LogOf(processed, match.stateVersion)) = match.stateVersion
      /\ \A p \in processed : p.stateVersion \in 1 .. match.stateVersion =>
           LogOf(processed, match.stateVersion)[p.stateVersion] = p.request
      /\ \A v \in 1 .. match.stateVersion : \E p \in processed :
           p.stateVersion = v /\ LogOf(processed, match.stateVersion)[v] = p.request
  BY <1>2, <1>3, LogOfRecords
<1>. QED BY <1>1, <1>3, <1>4

(* Committing a command applies its request, and says nothing yet.         *)
LEMMA CommitApplies ==
  ASSUME CoreInv, LogInv, NEW h \in Handlers, NEW count \in 1 .. MaxEvents,
         NEW accepts \in SUBSET (Commands \ Foreign), Commit(h, count, accepts)
  PROVE  CommandLog!Apply(request[h])
<1> DEFINE r == request[h]
<1>1. PICK new : new = [request |-> r, stateVersion |-> match'.stateVersion,
                        lastSequence |-> match'.lastSequence]
  OBVIOUS
<1>2. /\ r \in Requests /\ processed' = processed \union {new}
      /\ Prior(r) = {} /\ Rejection(r, match) = "NONE"
      /\ match'.stateVersion = match.stateVersion + 1 /\ answers' = answers
  BY <1>1, CommitStores
<1>3. r.expected = match.stateVersion /\ match.status = "ACTIVE"
      /\ r.command \notin Foreign /\ r.command \in match.accepts
  BY <1>2, AcceptedIsCurrent
<1>4. /\ Log = LogOf(processed, match.stateVersion) /\ Len(Log) = match.stateVersion
      /\ \A v \in 1 .. Len(Log) : \E p \in processed : Log[v] = p.request
  BY LogIsRecorded
<1>5. Log' = Append(Log, r)
  <2>1. Log' = LogOf(processed', match'.stateVersion)
    BY DEF Log, LogOf
  <2>2. new.stateVersion = match.stateVersion + 1 /\ new.request = r /\ new.request \in Requests
    BY <1>1, <1>2
  <2>3. match.stateVersion \in Nat /\ \A p \in processed : p.request \in Requests
    BY DEF CoreInv, TypeOK, MatchRows
  <2>4. /\ \A p \in processed : p.stateVersion \in 1 .. match.stateVersion
        /\ \A v \in 1 .. match.stateVersion : \E p \in processed : p.stateVersion = v
        /\ \A p, q \in processed : p.stateVersion = q.stateVersion => p = q
    BY DEF LogInv, Recorded
  <2>5. LogOf(processed \union {new}, match.stateVersion + 1)
          = Append(LogOf(processed, match.stateVersion), new.request)
    <3> DEFINE P == processed
               n == match.stateVersion
    <3> HIDE DEF P, n
    <3>1. /\ n \in Nat /\ new.stateVersion = n + 1 /\ new.request \in Requests
          /\ \A p \in P : p.request \in Requests
          /\ \A p \in P : p.stateVersion \in 1 .. n
          /\ \A v \in 1 .. n : \E p \in P : p.stateVersion = v
          /\ \A p, q \in P : p.stateVersion = q.stateVersion => p = q
      BY <2>2, <2>3, <2>4 DEF P, n
    <3>2. LogOf(P \union {new}, n + 1) = Append(LogOf(P, n), new.request)
      BY ONLY <3>1, LogOfGrows
    <3>. QED BY <3>2 DEF P, n
  <2>. QED BY <1>2, <1>4, <2>1, <2>2, <2>5
<1>6. \A v \in 1 .. Len(Log) : Log[v].id # r.id
  BY <1>2, <1>4 DEF Prior
<1>7. r \notin Rejected(answers)
  <2> SUFFICES ASSUME NEW a \in answers, a.code # "OK", a.request = r PROVE FALSE
    BY DEF Rejected
  <2>1. Refused(r)
    BY DEF LogInv, Told, Honest
  <2>2. match.stateVersion \in Nat
    BY DEF CoreInv, TypeOK, MatchRows
  <2>. QED BY <1>2, <1>3, <2>1, <2>2 DEF Refused, Prior
<1>. QED BY <1>2, <1>3, <1>4, <1>5, <1>6, <1>7 DEF CommandLog!Apply, Rejected

(* Delivering an answer reports what the log says of its request.          *)
LEMMA DeliverReports ==
  ASSUME CoreInv, LogInv, NEW h \in Handlers, Deliver(h)
  PROVE  CommandLog!LogNext
<1>1. PICK a : a = answer[h]
  OBVIOUS
<1>2. Honest(a) /\ answers' = answers \union {a} /\ UNCHANGED stored
  BY <1>1 DEF Deliver, LogInv, Told
<1>3. Log' = Log /\ a.request \in Requests
  BY <1>2 DEF Log, stored, Honest
<1>4. CASE a.code = "OK"
  <2>1. PICK p \in processed : p.request = a.request /\ p.stateVersion = a.stateVersion
    BY <1>2, <1>4 DEF Honest, Confirmed
  <2>2. a.stateVersion \in 1 .. Len(Log) /\ Log[a.stateVersion] = a.request
    BY <2>1, LogIsRecorded
  <2>3. /\ Accepted(answers') = Accepted(answers) \union {<<a.request, a.stateVersion>>}
        /\ Rejected(answers') = Rejected(answers)
    BY <1>2, <1>4 DEF Accepted, Rejected
  <2>4. CommandLog!ReportAccepted(a.request, a.stateVersion)
    BY <1>3, <2>2, <2>3 DEF CommandLog!ReportAccepted, Accepted, Rejected
  <2>. QED BY <1>3, <2>2, <2>4 DEF CommandLog!LogNext
<1>5. CASE a.code # "OK"
  <2>1. \A v \in 1 .. Len(Log) : Log[v] # a.request
    BY <1>2, <1>5, LogIsRecorded DEF Honest, Refused
  <2>2. /\ Rejected(answers') = Rejected(answers) \union {a.request}
        /\ Accepted(answers') = Accepted(answers)
    BY <1>2, <1>5 DEF Accepted, Rejected
  <2>3. CommandLog!ReportRejected(a.request)
    BY <1>3, <2>1, <2>2 DEF CommandLog!ReportRejected, Accepted, Rejected
  <2>. QED BY <1>3, <2>3 DEF CommandLog!LogNext
<1>. QED BY <1>4, <1>5

LEMMA StepIsLogStep ==
  ASSUME CoreInv, LogInv, [Next]_vars
  PROVE  [CommandLog!LogNext]_(CommandLog!logVars)
<1>1. ASSUME UNCHANGED <<stored, answers>> PROVE UNCHANGED CommandLog!logVars
  BY <1>1 DEF stored, CommandLog!logVars, Log
<1>2. ASSUME NEW h \in Handlers, NEW count \in 1 .. MaxEvents,
             NEW accepts \in SUBSET (Commands \ Foreign), Commit(h, count, accepts)
      PROVE  CommandLog!LogNext
  <2>1. CommandLog!Apply(request[h]) /\ request[h] \in Requests
    BY <1>2, CommitApplies, CommitStores
  <2>. QED BY <2>1 DEF CommandLog!LogNext
<1>3. ASSUME NEW h \in Handlers, Handle(h) PROVE CommandLog!LogNext \/ UNCHANGED CommandLog!logVars
  <2>1. CASE Lock(h) \/ GiveUp(h) \/ Abort(h) \/ Lose(h)
    BY <1>1, <2>1 DEF Lock, GiveUp, Abort, Lose
  <2>2. CASE Replay(h) \/ Reject(h)
    BY <1>1, <2>2 DEF Replay, Reject, AnswerWith
  <2>3. CASE Deliver(h)
    BY <2>3, DeliverReports
  <2>. QED BY <1>2, <1>3, <2>1, <2>2, <2>3 DEF Handle
<1>4. CASE UNCHANGED vars
  BY <1>1, <1>4 DEF vars
<1>. QED BY <1>1, <1>3, <1>4 DEF Next, Issue, Receive, Crash

(* The command path applies every request at most once, at the version it  *)
(* asked for, and never takes back what it reported.                       *)
THEOREM ProcessorImplementsCommandLog == Spec => ImplementsCommandLog
<1>1. Spec => []CoreInv
  BY CoreInit, CoreStep, PTL DEF Spec
<1>2. Spec => []LogInv
  BY <1>1, LogStart, LogStep, PTL DEF Spec
<1>3. Init => CommandLog!LogInit
  <2> SUFFICES ASSUME Init PROVE CommandLog!LogInit
    OBVIOUS
  <2>1. match.stateVersion = 0 /\ answers = {}
    BY DEF Init, NewMatch
  <2>2. Log = <<>>
    BY <2>1 DEF Log
  <2>. QED BY <2>1, <2>2 DEF CommandLog!LogInit
<1>4. CoreInv /\ LogInv /\ [Next]_vars => [CommandLog!LogNext]_(CommandLog!logVars)
  BY StepIsLogStep
<1>. QED BY <1>1, <1>2, <1>3, <1>4, PTL DEF Spec, ImplementsCommandLog, CommandLog!LogSpec
=============================================================================
