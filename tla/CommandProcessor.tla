-------------------------- MODULE CommandProcessor --------------------------
(***************************************************************************)
(* The authoritative command path of one match: createCommandProcessor in  *)
(* apps/api/src/realtime/command-processor.ts over the tables of           *)
(* apps/api/src/match/match-repository.ts.  A handler waits for the match  *)
(* row, reads it, and either answers or writes the transition; the writes  *)
(* of one transaction become visible together at its commit, or never.     *)
(*                                                                         *)
(* The engine is any function of the snapshot: the snapshot carries the    *)
(* set of commands it accepts, and an accepted command leads to an         *)
(* arbitrary next snapshot (the dice are drawn inside the transaction).    *)
(***************************************************************************)
EXTENDS Naturals, FiniteSets, Sequences

CONSTANTS
  Handlers,     \* concurrent executions of process(), over all connections and bots
  ActionIds,
  Commands,     \* a user together with what it asks for: what the fingerprint covers
  Foreign,      \* the commands of users who are not players of the match
  MaxEvents,    \* the most events of one transition
  MaxRequests,  \* bound: distinct requests ever issued
  Ranked        \* whether the match is stored as a result (humans only, no debug mode)

ASSUME CommandAssumption ==
  /\ Foreign \subseteq Commands
  /\ MaxEvents \in Nat \ {0}
  /\ MaxRequests \in Nat
  /\ Ranked \in BOOLEAN

(* Every version takes a request of its own, so none is higher than the    *)
(* number of requests.                                                     *)
Requests == [id : ActionIds, command : Commands, expected : 0 .. MaxRequests]
NoRequest == [id |-> "none", command |-> "none", expected |-> 0]

Codes == {"ACTION_ID_CONFLICT", "MATCH_FINISHED", "STALE_STATE_VERSION",
          "MATCH_ACCESS_DENIED", "REFUSED_BY_ENGINE"}

VARIABLES
  match,      \* the Match row: status, stateVersion, lastSequence and what its snapshot accepts
  journal,    \* MatchEvent rows: sequence -> stateVersion of the event
  processed,  \* ProcessedAction rows: the request and the version and sequence answered
  outbox,     \* OutboxRow rows: stateVersion and the interval of sequences announced
  results,    \* MatchResult rows: the versions that stored one
  room,       \* "IN_GAME" until the terminal transition releases the room
  holders,    \* the handlers holding the match row
  stage,      \* handler -> "IDLE", "WAITING", "LOCKED" or "ANSWERING"
  request,    \* handler -> the request it processes
  seen,       \* handler -> the match row as it read it
  answer,     \* handler -> the answer it is about to send
  issued,     \* the requests clients have sent at least once
  answers     \* the answers that reached their client

stored  == <<match, journal, processed, outbox, results, room>>
running == <<holders, stage, request, seen, answer>>
vars    == <<stored, running, issued, answers>>

NewMatch(accepts) == [status |-> "ACTIVE", stateVersion |-> 0, lastSequence |-> 0,
                      accepts |-> accepts]
NoMatch  == [status |-> "NONE", stateVersion |-> 0, lastSequence |-> 0, accepts |-> {}]
NoAnswer == [request |-> NoRequest, code |-> "NONE", stateVersion |-> 0, lastSequence |-> 0]

(* A snapshot of an active match accepts something from some player.       *)
Accepting == (SUBSET (Commands \ Foreign)) \ {{}}

Init ==
  /\ \E accepts \in Accepting : match = NewMatch(accepts)
  /\ journal = <<>> /\ processed = {} /\ outbox = {} /\ results = {}
  /\ room = "IN_GAME"
  /\ holders = {}
  /\ stage = [h \in Handlers |-> "IDLE"]
  /\ request = [h \in Handlers |-> NoRequest]
  /\ seen = [h \in Handlers |-> NoMatch]
  /\ answer = [h \in Handlers |-> NoAnswer]
  /\ issued = {} /\ answers = {}

-----------------------------------------------------------------------------
(* Clients. *)

(* A client issues a request against a version it has been shown.          *)
Issue(r) ==
  /\ r.expected <= match.stateVersion
  /\ Cardinality(issued) < MaxRequests
  /\ issued' = issued \union {r}
  /\ UNCHANGED <<stored, running, answers>>

(* The request arrives: for the first time, again, or twice at once.       *)
Receive(h, r) ==
  /\ stage[h] = "IDLE" /\ r \in issued
  /\ stage' = [stage EXCEPT ![h] = "WAITING"]
  /\ request' = [request EXCEPT ![h] = r]
  /\ UNCHANGED <<stored, holders, seen, answer, issued, answers>>

-----------------------------------------------------------------------------
(* The transaction. *)

(* The transaction times out while it waits for the row: no answer.        *)
GiveUp(h) ==
  /\ stage[h] = "WAITING"
  /\ stage' = [stage EXCEPT ![h] = "IDLE"]
  /\ request' = [request EXCEPT ![h] = NoRequest]
  /\ UNCHANGED <<stored, holders, seen, answer, issued, answers>>

(* SELECT ... FOR UPDATE, then the row is read.                            *)
Lock(h) ==
  /\ stage[h] = "WAITING" /\ holders = {}
  /\ holders' = {h}
  /\ stage' = [stage EXCEPT ![h] = "LOCKED"]
  /\ seen' = [seen EXCEPT ![h] = match]
  /\ UNCHANGED <<stored, request, answer, issued, answers>>

(* Faulty Prior: processed actions are not looked up. *)
NoPrior(r) == {}

Prior(r) == {p \in processed : p.request.id = r.id}
Replayed(r) == {p \in Prior(r) : p.request = r}

(* The code a request is rejected with, in the order of the checks.        *)
Rejection(r, m) ==
  IF Prior(r) # {}                    THEN "ACTION_ID_CONFLICT"
  ELSE IF m.status # "ACTIVE"         THEN "MATCH_FINISHED"
  ELSE IF r.expected # m.stateVersion THEN "STALE_STATE_VERSION"
  ELSE IF r.command \in Foreign       THEN "MATCH_ACCESS_DENIED"
  ELSE IF r.command \notin m.accepts  THEN "REFUSED_BY_ENGINE"
  ELSE "NONE"

AnswerWith(h, a) ==
  /\ answer' = [answer EXCEPT ![h] = a]
  /\ stage' = [stage EXCEPT ![h] = "ANSWERING"]
  /\ holders' = holders \ {h}
  /\ request' = [request EXCEPT ![h] = NoRequest]
  /\ seen' = [seen EXCEPT ![h] = NoMatch]
  /\ UNCHANGED <<issued, answers>>

(* Faulty Replay: answers with the version of today. *)
ReplayCurrent(h) ==
  /\ stage[h] = "LOCKED"
  /\ \E p \in Replayed(request[h]) :
       AnswerWith(h, [request |-> p.request, code |-> "OK",
                      stateVersion |-> seen[h].stateVersion,
                      lastSequence |-> seen[h].lastSequence])
  /\ UNCHANGED stored

(* An identical retry is answered with the stored result. *)
Replay(h) ==
  /\ stage[h] = "LOCKED"
  /\ \E p \in Replayed(request[h]) :
       AnswerWith(h, [request |-> p.request, code |-> "OK",
                      stateVersion |-> p.stateVersion, lastSequence |-> p.lastSequence])
  /\ UNCHANGED stored

(* A rejection writes nothing, not even that the request was processed.    *)
Reject(h) ==
  /\ stage[h] = "LOCKED" /\ Replayed(request[h]) = {}
  /\ Rejection(request[h], seen[h]) # "NONE"
  /\ AnswerWith(h, [request |-> request[h], code |-> Rejection(request[h], seen[h]),
                    stateVersion |-> seen[h].stateVersion, lastSequence |-> seen[h].lastSequence])
  /\ UNCHANGED stored

(* The inserts of the transition respect the unique indexes, and the events*)
(* continue the sequence of the row as it is now.                          *)
CanPersist(h) ==
  /\ Prior(request[h]) = {}
  /\ \A row \in outbox : row.stateVersion # seen[h].stateVersion + 1
  /\ seen[h].lastSequence = match.lastSequence

(* Faulty NextMatch: the sequence counts transitions, not events. *)
NextMatchOfOneEvent(m, count, accepts) ==
  [status       |-> IF accepts = {} THEN "FINISHED" ELSE "ACTIVE",
   stateVersion |-> m.stateVersion + 1,
   lastSequence |-> m.lastSequence + 1,
   accepts      |-> accepts]

NextMatch(m, count, accepts) ==
  [status       |-> IF accepts = {} THEN "FINISHED" ELSE "ACTIVE",
   stateVersion |-> m.stateVersion + 1,
   lastSequence |-> m.lastSequence + count,
   accepts      |-> accepts]

(* The engine accepts: snapshot, result, events, processed action, outbox  *)
(* row and the release of the room are committed together.                 *)
Commit(h, count, accepts) ==
  LET r    == request[h]
      next == NextMatch(seen[h], count, accepts)
  IN  /\ stage[h] = "LOCKED"
      /\ Replayed(r) = {} /\ Rejection(r, seen[h]) = "NONE" /\ CanPersist(h)
      /\ match' = next
      /\ journal' = journal \o [i \in 1 .. count |-> next.stateVersion]
      /\ processed' = processed \union {[request |-> r, stateVersion |-> next.stateVersion,
                                         lastSequence |-> next.lastSequence]}
      /\ outbox' = outbox \union {[stateVersion |-> next.stateVersion,
                                   from |-> seen[h].lastSequence + 1, to |-> next.lastSequence]}
      /\ results' = IF next.status = "FINISHED" /\ Ranked
                    THEN results \union {next.stateVersion} ELSE results
      /\ room' = IF next.status = "FINISHED" THEN "WAITING" ELSE room
      /\ AnswerWith(h, [request |-> r, code |-> "OK", stateVersion |-> next.stateVersion,
                        lastSequence |-> next.lastSequence])

Forget(h) ==
  /\ stage' = [stage EXCEPT ![h] = "IDLE"]
  /\ request' = [request EXCEPT ![h] = NoRequest]
  /\ seen' = [seen EXCEPT ![h] = NoMatch]
  /\ answer' = [answer EXCEPT ![h] = NoAnswer]

(* Faulty Abort: the row lock outlives the transaction. *)
AbortKeepingLock(h) ==
  /\ stage[h] = "LOCKED"
  /\ Forget(h)
  /\ UNCHANGED <<stored, holders, issued, answers>>

(* Any statement of the transaction throws: it is rolled back, and the     *)
(* handler sends no answer at all.                                         *)
Abort(h) ==
  /\ stage[h] = "LOCKED"
  /\ Forget(h) /\ holders' = holders \ {h}
  /\ UNCHANGED <<stored, issued, answers>>

-----------------------------------------------------------------------------
(* The acknowledgement, after the transaction. *)

Deliver(h) ==
  /\ stage[h] = "ANSWERING"
  /\ answers' = answers \union {answer[h]}
  /\ Forget(h)
  /\ UNCHANGED <<stored, holders, issued>>

(* The connection is gone before the answer reaches the client.            *)
Lose(h) ==
  /\ stage[h] = "ANSWERING"
  /\ Forget(h)
  /\ UNCHANGED <<stored, holders, issued, answers>>

(* The server process dies: open transactions are rolled back.             *)
Crash ==
  /\ \E h \in Handlers : stage[h] # "IDLE"
  /\ stage' = [h \in Handlers |-> "IDLE"]
  /\ request' = [h \in Handlers |-> NoRequest]
  /\ seen' = [h \in Handlers |-> NoMatch]
  /\ answer' = [h \in Handlers |-> NoAnswer]
  /\ holders' = {}
  /\ UNCHANGED <<stored, issued, answers>>

Handle(h) ==
  \/ Lock(h) \/ GiveUp(h) \/ Replay(h) \/ Reject(h) \/ Abort(h) \/ Deliver(h) \/ Lose(h)
  \/ \E count \in 1 .. MaxEvents, accepts \in SUBSET (Commands \ Foreign) :
       Commit(h, count, accepts)

Next ==
  \/ \E r \in Requests : Issue(r)
  \/ \E h \in Handlers : \E r \in issued : Receive(h, r)
  \/ \E h \in Handlers : Handle(h)
  \/ Crash

Spec == Init /\ [][Next]_vars

(* A waiting handler gets the row in its turn, a transaction ends (at the  *)
(* latest by its timeout), and an answer is sent or its connection closed. *)
Decide(h) ==
  \/ Replay(h) \/ Reject(h) \/ Abort(h)
  \/ \E count \in 1 .. MaxEvents, accepts \in SUBSET (Commands \ Foreign) :
       Commit(h, count, accepts)

Fairness ==
  \A h \in Handlers : SF_vars(Lock(h)) /\ WF_vars(Decide(h)) /\ WF_vars(Deliver(h) \/ Lose(h))

FairSpec == Spec /\ Fairness

-----------------------------------------------------------------------------
(* Properties. *)

MatchRows == [status : {"ACTIVE", "FINISHED", "NONE"}, stateVersion : Nat,
              lastSequence : Nat, accepts : SUBSET Commands]
Answers == [request : Requests \union {NoRequest}, code : Codes \union {"OK", "NONE"},
            stateVersion : Nat, lastSequence : Nat]

(* Types, and the discipline of the row lock: exactly the handlers inside  *)
(* a transaction hold the row, and there is at most one of them.           *)
TypeOK ==
  /\ match \in MatchRows /\ match.status # "NONE"
  /\ journal \in Seq(Nat)
  /\ processed \in SUBSET [request : Requests, stateVersion : Nat, lastSequence : Nat]
  /\ outbox \in SUBSET [stateVersion : Nat, from : Nat, to : Nat]
  /\ results \in SUBSET Nat
  /\ room \in {"IN_GAME", "WAITING"}
  /\ stage \in [Handlers -> {"IDLE", "WAITING", "LOCKED", "ANSWERING"}]
  /\ request \in [Handlers -> Requests \union {NoRequest}]
  /\ seen \in [Handlers -> MatchRows]
  /\ answer \in [Handlers -> Answers]
  /\ issued \in SUBSET Requests
  /\ answers \in SUBSET Answers
  /\ holders = {h \in Handlers : stage[h] = "LOCKED"}
  /\ \A g, h \in holders : g = h

(* Every version but the first was announced by one outbox row; the rows   *)
(* tile the journal without gap or overlap, in the order of the versions,  *)
(* and the events of a row carry its version.  Gap detection in the client *)
(* rests on it.                                                            *)
JournalTiled ==
  /\ Len(journal) = match.lastSequence
  /\ {row.stateVersion : row \in outbox} = 1 .. match.stateVersion
  /\ \A a, b \in outbox :
       /\ a.stateVersion = b.stateVersion => a = b
       /\ b.stateVersion = a.stateVersion + 1 => b.from = a.to + 1
  /\ \A row \in outbox :
       /\ row.from <= row.to /\ row.to <= match.lastSequence
       /\ row.stateVersion = 1 => row.from = 1
       /\ row.stateVersion = match.stateVersion => row.to = match.lastSequence
       /\ \A s \in row.from .. row.to : journal[s] = row.stateVersion

(* A client told that its request succeeded, at once or by a retry long    *)
(* after, was told the version that follows the one it acted on, and the   *)
(* last sequence of what is broadcast for that version.                    *)
AckAgreesWithBroadcast ==
  \A a \in answers : a.code = "OK" =>
    /\ a.stateVersion = a.request.expected + 1
    /\ \E row \in outbox : row.stateVersion = a.stateVersion /\ row.to = a.lastSequence

(* The request that produced each version.                                 *)
Log == [v \in 1 .. match.stateVersion |->
          (CHOOSE p \in processed : p.stateVersion = v).request]

CommandLog == INSTANCE CommandLog WITH
  log      <- Log,
  accepted <- {<<a.request, a.stateVersion>> : a \in {b \in answers : b.code = "OK"}},
  rejected <- {a.request : a \in {b \in answers : b.code # "OK"}}

(* Exactly-once: whatever is retried, duplicated, interleaved, rolled back *)
(* or lost in a crash, the processor behaves like one log of requests in   *)
(* which a success and a rejection, once reported, are final.              *)
ImplementsCommandLog == CommandLog!LogSpec

(* Every handler that waits for the row leaves the processor.              *)
HandlersSettle == \A h \in Handlers : stage[h] = "WAITING" ~> stage[h] = "IDLE"

=============================================================================
