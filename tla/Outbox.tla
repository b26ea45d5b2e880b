------------------------------- MODULE Outbox -------------------------------
(***************************************************************************)
(* Post-commit publication: the outbox rows of committed transitions, the  *)
(* lease store over them (apps/api/src/realtime/outbox.ts) and the         *)
(* dispatcher of every server process (outbox-dispatcher.ts and the wake   *)
(* flag in socketio.ts).  A claim is one transaction; publishing, marking  *)
(* and releasing are separate steps, each of which can fail, and a server  *)
(* can die between any two of them.                                        *)
(*                                                                         *)
(* Everything that goes wrong is counted, and MaxFaults bounds it: what    *)
(* must eventually happen is asked of a system whose faults end.           *)
(***************************************************************************)
EXTENDS Naturals, FiniteSets, Sequences

CONSTANTS
  Servers,    \* server processes
  Tokens,     \* lease tokens "socketio-<pid>"; processes of two hosts may share one
  Matches,
  MaxRows,    \* bound: transitions ever committed
  MaxFaults   \* bound: failures, crashes and leases that expire under a live worker

NoLease == "none"
NoRow == 0

ASSUME OutboxAssumption ==
  /\ NoLease \notin Tokens
  /\ MaxRows \in Nat /\ MaxFaults \in Nat

VARIABLES
  version,   \* match -> the version of its current snapshot
  outbox,    \* OutboxRow rows in the order of createdAt and id
  token,     \* server -> its lease token
  stage,     \* server -> "DOWN", "STOPPED", "CLAIMING", "PUBLISHING" or "MARKING"
  claimed,   \* server -> the row dispatchOne works on; NoRow outside of it
  wake,      \* server -> outboxWakeRequested
  sent,      \* the envelopes emitted: the row and the version of the snapshot inside
  faults

vars == <<version, outbox, token, stage, claimed, wake, sent, faults>>

Rows == 1 .. Len(outbox)

NewRow(m, v) == [match |-> m, version |-> v, published |-> FALSE,
                 lease |-> NoLease, expired |-> FALSE]

Init ==
  /\ version = [m \in Matches |-> 0]
  /\ outbox = <<>>
  /\ token \in [Servers -> Tokens]
  /\ stage = [s \in Servers |-> "STOPPED"]
  /\ claimed = [s \in Servers |-> NoRow]
  /\ wake = [s \in Servers |-> FALSE]
  /\ sent = <<>>
  /\ faults = 0

Fault == faults < MaxFaults /\ faults' = faults + 1

-----------------------------------------------------------------------------
(* A transition commits together with its row.  Whoever committed it wakes *)
(* a dispatcher afterwards, unless it dies first: see Dispatch.            *)
Commit(m) ==
  /\ Len(outbox) < MaxRows
  /\ version' = [version EXCEPT ![m] = @ + 1]
  /\ outbox' = Append(outbox, NewRow(m, version'[m]))
  /\ UNCHANGED <<token, stage, claimed, wake, sent, faults>>

(* dispatchOutboxOnce, from a command or the 250 ms timer: start the loop, *)
(* or ask the running one for another round.                               *)
Dispatch(s) ==
  /\ stage[s] # "DOWN"
  /\ \/ /\ stage[s] = "STOPPED"
        /\ stage' = [stage EXCEPT ![s] = "CLAIMING"]
        /\ UNCHANGED wake
     \/ /\ stage[s] # "STOPPED"
        /\ wake' = [wake EXCEPT ![s] = TRUE]
        /\ UNCHANGED stage
  /\ UNCHANGED <<version, outbox, token, claimed, sent, faults>>

(* dispatchOne returns: another round if one was asked for meanwhile.      *)
Settle(s) ==
  /\ stage' = [stage EXCEPT ![s] = IF wake[s] THEN "CLAIMING" ELSE "STOPPED"]
  /\ wake' = [wake EXCEPT ![s] = FALSE]
  /\ claimed' = [claimed EXCEPT ![s] = NoRow]

-----------------------------------------------------------------------------
(* The lease store. *)

(* Faulty Claimable: an expired lease is never taken over.                 *)
ClaimableUnleased == {i \in Rows : ~ outbox[i].published /\ outbox[i].lease = NoLease}

(* Faulty Claimable: a lease does not keep others away.                    *)
ClaimableLeased == {i \in Rows : ~ outbox[i].published}

Claimable ==
  {i \in Rows : /\ ~ outbox[i].published
                /\ outbox[i].lease = NoLease \/ outbox[i].expired}

(* The oldest claimable row is leased.                                     *)
Claim(s) ==
  /\ stage[s] = "CLAIMING"
  /\ \E i \in Claimable :
       /\ \A j \in Claimable : i <= j
       /\ outbox' = [outbox EXCEPT ![i].lease = token[s], ![i].expired = FALSE]
       /\ claimed' = [claimed EXCEPT ![s] = i]
  /\ stage' = [stage EXCEPT ![s] = "PUBLISHING"]
  /\ UNCHANGED <<version, token, wake, sent, faults>>

ClaimNothing(s) ==
  /\ stage[s] = "CLAIMING" /\ Claimable = {}
  /\ Settle(s)
  /\ UNCHANGED <<version, outbox, token, sent, faults>>

(* Four attempts to claim throw. *)
ClaimFails(s) ==
  /\ stage[s] = "CLAIMING"
  /\ Settle(s) /\ Fault
  /\ UNCHANGED <<version, outbox, token, sent>>

(* What an update "where leaseToken = mine and not published" matches.     *)
Holds(s, i) == ~ outbox[i].published /\ outbox[i].lease = token[s]

(* Faulty Unlease: a failed row counts as published. *)
UnleaseAsPublished(i) ==
  [outbox EXCEPT ![i].lease = NoLease, ![i].expired = FALSE, ![i].published = TRUE]

Unlease(i) == [outbox EXCEPT ![i].lease = NoLease, ![i].expired = FALSE]

(* Thirty seconds pass for a lease whose worker is gone ...                *)
Expire(i) ==
  /\ ~ outbox[i].published /\ outbox[i].lease # NoLease /\ ~ outbox[i].expired
  /\ outbox' = [outbox EXCEPT ![i].expired = TRUE]
  /\ IF \E s \in Servers : claimed[s] = i /\ Holds(s, i)
     THEN Fault   \* ... or is slower than that
     ELSE UNCHANGED faults
  /\ UNCHANGED <<version, token, stage, claimed, wake, sent>>

-----------------------------------------------------------------------------
(* Publishing. *)

(* The envelope carries the snapshot the match has now.                    *)
EnvelopeOf(i) == [row |-> i, snapshot |-> version[outbox[i].match]]

Publish(s) ==
  /\ stage[s] = "PUBLISHING"
  /\ sent' = Append(sent, EnvelopeOf(claimed[s]))
  /\ stage' = [stage EXCEPT ![s] = "MARKING"]
  /\ UNCHANGED <<version, outbox, token, claimed, wake, faults>>

(* Publishing throws: the lease is released, whoever holds it under this   *)
(* token by now.                                                           *)
PublishFails(s) ==
  /\ stage[s] = "PUBLISHING"
  /\ Fault
  /\ outbox' = IF Holds(s, claimed[s]) THEN Unlease(claimed[s]) ELSE outbox
  /\ Settle(s)
  /\ UNCHANGED <<version, token, sent>>

(* The release throws too: nobody handles that rejection, and it ends the  *)
(* process.                                                                *)
ReleaseFails(s) ==
  /\ stage[s] = "PUBLISHING"
  /\ Fault
  /\ stage' = [stage EXCEPT ![s] = "DOWN"]
  /\ wake' = [wake EXCEPT ![s] = FALSE]
  /\ claimed' = [claimed EXCEPT ![s] = NoRow]
  /\ UNCHANGED <<version, outbox, token, sent>>

(* A lease lost meanwhile is noticed by nobody: the dispatcher ignores     *)
(* that markPublished changed no row.                                      *)
Mark(s) ==
  LET i == claimed[s]
  IN  /\ stage[s] = "MARKING"
      /\ outbox' = IF Holds(s, i)
                   THEN [Unlease(i) EXCEPT ![i].published = TRUE] ELSE outbox
      /\ Settle(s)
      /\ UNCHANGED <<version, token, sent, faults>>

(* Marking throws: the row stays leased until the lease expires.           *)
MarkFails(s) ==
  /\ stage[s] = "MARKING"
  /\ Settle(s) /\ Fault
  /\ UNCHANGED <<version, outbox, token, sent>>

-----------------------------------------------------------------------------
Crash(s) ==
  /\ stage[s] # "DOWN"
  /\ Fault
  /\ stage' = [stage EXCEPT ![s] = "DOWN"]
  /\ wake' = [wake EXCEPT ![s] = FALSE]
  /\ claimed' = [claimed EXCEPT ![s] = NoRow]
  /\ UNCHANGED <<version, outbox, token, sent>>

(* A restarted process has another process ID, or the same.                *)
Restart(s) ==
  /\ stage[s] = "DOWN"
  /\ stage' = [stage EXCEPT ![s] = "STOPPED"]
  /\ \E t \in Tokens : token' = [token EXCEPT ![s] = t]
  /\ UNCHANGED <<version, outbox, claimed, wake, sent, faults>>

Work(s) ==
  \/ Claim(s) \/ ClaimNothing(s) \/ ClaimFails(s)
  \/ Publish(s) \/ PublishFails(s) \/ ReleaseFails(s)
  \/ Mark(s) \/ MarkFails(s)

Next ==
  \/ \E m \in Matches : Commit(m)
  \/ \E s \in Servers : Dispatch(s) \/ Work(s) \/ Crash(s) \/ Restart(s)
  \/ \E i \in Rows : Expire(i)

Spec == Init /\ [][Next]_vars

(* The timer ticks, an await settles, a process is restarted, time passes. *)
Fairness ==
  /\ \A s \in Servers :
       WF_vars(Dispatch(s)) /\ WF_vars(Work(s)) /\ WF_vars(Restart(s))
  /\ WF_vars(\E i \in Rows : Expire(i))

FairSpec == Spec /\ Fairness

-----------------------------------------------------------------------------
OutboxRow == [match : Matches, version : 1 .. MaxRows, published : BOOLEAN,
              lease : Tokens \union {NoLease}, expired : BOOLEAN]

Envelope == [row : Rows, snapshot : 1 .. MaxRows]

TypeOK ==
  /\ version \in [Matches -> 0 .. MaxRows]
  /\ outbox \in Seq(OutboxRow)
  /\ Len(outbox) <= MaxRows
  /\ token \in [Servers -> Tokens]
  /\ stage \in [Servers -> {"DOWN", "STOPPED", "CLAIMING", "PUBLISHING", "MARKING"}]
  /\ claimed \in [Servers -> Rows \union {NoRow}]
  /\ \A s \in Servers : stage[s] \in {"PUBLISHING", "MARKING"} <=> claimed[s] # NoRow
  /\ wake \in [Servers -> BOOLEAN]
  /\ sent \in Seq(Envelope)
  /\ faults \in 0 .. MaxFaults

(* A row counts as published only if the players of its match were sent    *)
(* its events with a snapshot at least as new: markPublished asks only for *)
(* the token, which two processes may share and a lease may have outlived. *)
PublishedWasBroadcast ==
  \A i \in Rows : outbox[i].published =>
    \E k \in 1 .. Len(sent) : /\ sent[k].row = i
                             /\ sent[k].snapshot >= outbox[i].version

(* Leases and SKIP LOCKED keep the servers apart: every broadcast beyond   *)
(* the first one of a row is the price of a fault of its own, even when    *)
(* processes share a token.                                                *)
RepeatsAreFaults ==
  Len(sent) <= Cardinality({sent[k].row : k \in 1 .. Len(sent)}) + faults

(* However its first workers end, a committed transition is published.     *)
EveryRowPublished ==
  \A i \in 1 .. MaxRows :
    Len(outbox) >= i ~> (Len(outbox) >= i /\ outbox[i].published)

=============================================================================
