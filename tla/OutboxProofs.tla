---------------------------- MODULE OutboxProofs ----------------------------
(***************************************************************************)
(* What Outbox promises about every number of servers, tokens, rows and    *)
(* faults: its types, that no row counts as published which was not        *)
(* broadcast, and that every repeated broadcast has its own fault.         *)
(* Liveness is checked by TLC only.                                        *)
(***************************************************************************)
EXTENDS Outbox, SequenceTheorems, FiniteSetTheorems, TLAPS

(* The players were sent row i, with a snapshot it is part of.             *)
Broadcast(i) ==
  \E k \in 1 .. Len(sent) : sent[k].row = i /\ sent[k].snapshot >= outbox[i].version

(* A snapshot is never behind a row of its match, and counts its rows.     *)
SnapshotsKeepUp ==
  /\ \A m \in Matches : version[m] <= Len(outbox)
  /\ \A i \in Rows : outbox[i].version <= version[outbox[i].match]

(* Whoever is about to mark a row has broadcast it.                        *)
MarkersHaveSent ==
  \A s \in Servers : stage[s] = "MARKING" => Broadcast(claimed[s])

OutboxInv == TypeOK /\ SnapshotsKeepUp /\ MarkersHaveSent /\ PublishedWasBroadcast

-----------------------------------------------------------------------------
(* What a step of a worker does to the rows: nothing but leases, and a row *)
(* it publishes was broadcast.                                             *)
OnlyLeasesChange ==
  /\ outbox' \in Seq(OutboxRow)
  /\ Len(outbox') = Len(outbox)
  /\ \A j \in Rows : /\ outbox'[j].match = outbox[j].match
                     /\ outbox'[j].version = outbox[j].version
                     /\ outbox'[j].published => outbox[j].published \/ Broadcast(j)

(* What it does to the workers.                                            *)
WorkersTyped ==
  /\ stage \in [Servers -> {"DOWN", "STOPPED", "CLAIMING", "PUBLISHING", "MARKING"}]
  /\ claimed \in [Servers -> Rows \union {NoRow}]
  /\ \A s \in Servers : stage[s] \in {"PUBLISHING", "MARKING"} <=> claimed[s] # NoRow
  /\ wake \in [Servers -> BOOLEAN]

(* Nobody starts to mark a row but the one who has just sent it.           *)
NobodyStartsMarking ==
  \A s \in Servers :
    stage'[s] = "MARKING" => stage[s] = "MARKING" /\ claimed'[s] = claimed[s]

(* A step that sends and commits nothing keeps the invariant if it keeps   *)
(* to these rules.                                                         *)
LEMMA QuietStep ==
  ASSUME OutboxInv, OnlyLeasesChange, WorkersTyped', NobodyStartsMarking,
         version' = version, sent' = sent,
         token' \in [Servers -> Tokens], faults' \in 0 .. MaxFaults
  PROVE  OutboxInv'
<1>1. TypeOK'
  BY DEF OutboxInv, OnlyLeasesChange, WorkersTyped, TypeOK, Rows, Envelope
<1>2. Rows' = Rows
  BY DEF OnlyLeasesChange, Rows
<1>3. SnapshotsKeepUp'
  <2>1. \A m \in Matches : version'[m] <= Len(outbox')
    BY DEF OutboxInv, OnlyLeasesChange, SnapshotsKeepUp
  <2>2. \A i \in Rows : outbox'[i].version <= version'[outbox'[i].match]
    BY DEF OutboxInv, OnlyLeasesChange, SnapshotsKeepUp
  <2> QED BY <2>1, <2>2, <1>2 DEF SnapshotsKeepUp
<1>4. \A i \in Rows : Broadcast(i) => Broadcast(i)'
  BY DEF OnlyLeasesChange, Broadcast
<1>5. MarkersHaveSent'
  <2>1. \A s \in Servers : stage[s] = "MARKING" => claimed[s] \in Rows
    BY DEF OutboxInv, TypeOK
  <2> QED BY <2>1, <1>4 DEF OutboxInv, NobodyStartsMarking, MarkersHaveSent, Broadcast
<1>6. PublishedWasBroadcast'
  <2>1. ASSUME NEW i \in Rows, outbox'[i].published PROVE Broadcast(i)'
    BY <2>1, <1>4 DEF OutboxInv, OnlyLeasesChange, PublishedWasBroadcast, Broadcast
  <2> QED BY <2>1, <1>2 DEF PublishedWasBroadcast, Broadcast
<1> QED BY <1>1, <1>3, <1>5, <1>6 DEF OutboxInv

(* Rewriting one row's lease keeps to the rule for rows.                   *)
LEMMA OneRowChanges ==
  ASSUME OutboxInv, NEW i \in Rows, NEW r \in OutboxRow,
         outbox' = [outbox EXCEPT ![i] = r],
         r.match = outbox[i].match, r.version = outbox[i].version,
         r.published => outbox[i].published \/ Broadcast(i)
  PROVE  OnlyLeasesChange
<1>1. outbox \in Seq(OutboxRow)
  BY DEF OutboxInv, TypeOK
<1> QED BY <1>1, ExceptSeq DEF OnlyLeasesChange, Rows

LEMMA RowsUnchanged ==
  ASSUME OutboxInv, outbox' = outbox
  PROVE  OnlyLeasesChange
BY DEF OutboxInv, TypeOK, OnlyLeasesChange

(* A worker that settles is typed, and marks nothing.                      *)
LEMMA SettledWorker ==
  ASSUME OutboxInv, NEW s \in Servers, Settle(s), Len(outbox') = Len(outbox)
  PROVE  WorkersTyped' /\ NobodyStartsMarking
BY DEF OutboxInv, TypeOK, Settle, WorkersTyped, NobodyStartsMarking, Rows, NoRow

(* So is one that is down.                                                 *)
LEMMA StoppedWorker ==
  ASSUME OutboxInv, NEW s \in Servers, outbox' = outbox,
         stage' = [stage EXCEPT ![s] = "DOWN"],
         wake' = [wake EXCEPT ![s] = FALSE],
         claimed' = [claimed EXCEPT ![s] = NoRow]
  PROVE  WorkersTyped' /\ NobodyStartsMarking
BY DEF OutboxInv, TypeOK, WorkersTyped, NobodyStartsMarking, Rows, NoRow

LEMMA FaultIsCounted ==
  ASSUME OutboxInv, Fault
  PROVE  faults' \in 0 .. MaxFaults
BY OutboxAssumption DEF OutboxInv, TypeOK, Fault

-----------------------------------------------------------------------------
LEMMA InitEstablishes == Init => OutboxInv
<1> SUFFICES ASSUME Init PROVE OutboxInv
  OBVIOUS
<1>1. outbox = <<>> /\ sent = <<>> /\ Rows = {}
  BY DEF Init, Rows
<1>2. TypeOK
  BY <1>1, OutboxAssumption DEF Init, TypeOK, Rows, NoRow
<1>3. SnapshotsKeepUp
  BY <1>1 DEF Init, SnapshotsKeepUp
<1> QED BY <1>1, <1>2, <1>3 DEF Init, OutboxInv, MarkersHaveSent, PublishedWasBroadcast

(* A new row is behind no snapshot, and nobody works on it yet.            *)
LEMMA CommitPreserves ==
  ASSUME OutboxInv, NEW m \in Matches, Commit(m)
  PROVE  OutboxInv'
<1> DEFINE r == NewRow(m, version'[m])
<1>1. /\ version[m] \in 0 .. MaxRows /\ version[m] <= Len(outbox)
      /\ Len(outbox) \in Nat /\ Len(outbox) < MaxRows
      /\ outbox \in Seq(OutboxRow)
  BY DEF OutboxInv, TypeOK, SnapshotsKeepUp, Commit
<1>2. /\ version' \in [Matches -> 0 .. MaxRows]
      /\ version'[m] = version[m] + 1 /\ version'[m] \in 1 .. MaxRows
      /\ \A n \in Matches : n # m => version'[n] = version[n]
  BY <1>1, OutboxAssumption DEF OutboxInv, TypeOK, Commit
<1>3. r \in OutboxRow /\ r.match = m /\ r.version = version'[m] /\ ~ r.published
  BY <1>2 DEF NewRow, OutboxRow
<1> HIDE DEF r
<1>4. /\ outbox' \in Seq(OutboxRow) /\ Len(outbox') = Len(outbox) + 1
      /\ \A i \in Rows : outbox'[i] = outbox[i]
      /\ outbox'[Len(outbox) + 1] = r
  <2>1. outbox' = Append(outbox, r)
    BY DEF Commit, r
  <2> QED BY <2>1, <1>1, <1>3, AppendProperties DEF Rows
<1>5. Rows \subseteq Rows' /\ Rows' = Rows \union {Len(outbox) + 1}
  BY <1>1, <1>4 DEF Rows
<1>6. TypeOK'
  <2>1. sent' \in Seq(Envelope')
    <3>1. Envelope \subseteq Envelope'
      BY <1>5 DEF Envelope
    <3>2. sent \in Seq(Envelope) /\ sent' = sent
      BY DEF OutboxInv, TypeOK, Commit
    <3>3. sent \in [1 .. Len(sent) -> Envelope'] /\ Len(sent) \in Nat
      BY <3>1, <3>2, LenProperties
    <3> QED BY <3>2, <3>3
  <2>2. /\ claimed' \in [Servers -> Rows' \union {NoRow}]
        /\ \A s \in Servers : stage'[s] \in {"PUBLISHING", "MARKING"} <=> claimed'[s] # NoRow
    BY <1>5 DEF OutboxInv, TypeOK, Commit
  <2>3. outbox' \in Seq(OutboxRow) /\ Len(outbox') <= MaxRows
    BY <1>1, <1>4, OutboxAssumption
  <2>4. /\ token' \in [Servers -> Tokens] /\ wake' \in [Servers -> BOOLEAN]
        /\ stage' \in [Servers -> {"DOWN", "STOPPED", "CLAIMING", "PUBLISHING", "MARKING"}]
        /\ faults' \in 0 .. MaxFaults
    BY DEF OutboxInv, TypeOK, Commit
  <2> QED BY <2>1, <2>2, <2>3, <2>4, <1>2 DEF TypeOK
<1>7. SnapshotsKeepUp'
  <2>1. \A n \in Matches : version'[n] <= Len(outbox')
    <3> SUFFICES ASSUME NEW n \in Matches PROVE version'[n] <= Len(outbox')
      OBVIOUS
    <3>1. version[n] \in Nat /\ version[n] <= Len(outbox)
      BY DEF OutboxInv, TypeOK, SnapshotsKeepUp
    <3> QED BY <3>1, <1>1, <1>2, <1>4
  <2>2. \A i \in Rows : outbox'[i].version <= version'[outbox'[i].match]
    <3> SUFFICES ASSUME NEW i \in Rows
                 PROVE  outbox[i].version <= version'[outbox[i].match]
      BY <1>4
    <3>1. /\ outbox[i].version \in Nat /\ outbox[i].match \in Matches
          /\ outbox[i].version <= version[outbox[i].match]
          /\ version[outbox[i].match] \in Nat
      <4>1. outbox[i] \in OutboxRow
        BY <1>1 DEF Rows
      <4>2. /\ outbox[i].version \in Nat /\ outbox[i].match \in Matches
            /\ version \in [Matches -> 0 .. MaxRows]
        BY <4>1 DEF OutboxInv, TypeOK, OutboxRow
      <4> QED BY <4>2 DEF OutboxInv, SnapshotsKeepUp
    <3> QED BY <3>1, <1>2
  <2>3. r.version <= version'[r.match]
    BY <1>2, <1>3
  <2> QED BY <2>1, <2>2, <2>3, <1>4, <1>5 DEF SnapshotsKeepUp
<1>8. \A i \in Rows : Broadcast(i) => Broadcast(i)'
  BY <1>4 DEF Broadcast, Commit
<1>9. MarkersHaveSent'
  <2>1. \A s \in Servers : stage[s] = "MARKING" => claimed[s] \in Rows
    BY DEF OutboxInv, TypeOK
  <2> QED BY <2>1, <1>8 DEF OutboxInv, MarkersHaveSent, Broadcast, Commit
<1>10. PublishedWasBroadcast'
  <2>1. ASSUME NEW i \in Rows, outbox'[i].published PROVE Broadcast(i)'
    BY <2>1, <1>4, <1>8 DEF OutboxInv, PublishedWasBroadcast, Broadcast
  <2> QED BY <2>1, <1>3, <1>4, <1>5 DEF PublishedWasBroadcast, Broadcast
<1> QED BY <1>6, <1>7, <1>9, <1>10 DEF OutboxInv

LEMMA DispatchPreserves ==
  ASSUME OutboxInv, NEW s \in Servers, Dispatch(s)
  PROVE  OutboxInv'
<1>1. WorkersTyped' /\ NobodyStartsMarking
  BY DEF OutboxInv, TypeOK, Dispatch, WorkersTyped, NobodyStartsMarking, Rows, NoRow
<1> QED BY <1>1, QuietStep, RowsUnchanged DEF Dispatch, OutboxInv, TypeOK

LEMMA ClaimPreserves ==
  ASSUME OutboxInv, NEW s \in Servers, Claim(s)
  PROVE  OutboxInv'
<1>1. PICK i \in Claimable :
        /\ outbox' = [outbox EXCEPT ![i].lease = token[s], ![i].expired = FALSE]
        /\ claimed' = [claimed EXCEPT ![s] = i]
  BY DEF Claim
<1>2. i \in Rows /\ outbox[i] \in OutboxRow /\ token[s] \in Tokens
  BY DEF OutboxInv, TypeOK, Claimable, Rows
<1> DEFINE r == [outbox[i] EXCEPT !.lease = token[s], !.expired = FALSE]
<1>3. /\ r \in OutboxRow /\ r.match = outbox[i].match /\ r.version = outbox[i].version
      /\ r.published = outbox[i].published /\ outbox' = [outbox EXCEPT ![i] = r]
  BY <1>1, <1>2 DEF OutboxRow
<1>4. OnlyLeasesChange
  BY <1>2, <1>3, OneRowChanges
<1>5. WorkersTyped' /\ NobodyStartsMarking
  BY <1>1, <1>2, <1>4
     DEF OutboxInv, TypeOK, Claim, WorkersTyped, NobodyStartsMarking, Rows, NoRow,
         OnlyLeasesChange
<1> QED BY <1>4, <1>5, QuietStep DEF Claim, OutboxInv, TypeOK

LEMMA ExpirePreserves ==
  ASSUME OutboxInv, NEW i \in Rows, Expire(i)
  PROVE  OutboxInv'
<1>1. outbox[i] \in OutboxRow
  BY DEF OutboxInv, TypeOK, Rows
<1> DEFINE r == [outbox[i] EXCEPT !.expired = TRUE]
<1>2. /\ r \in OutboxRow /\ r.match = outbox[i].match /\ r.version = outbox[i].version
      /\ r.published = outbox[i].published /\ outbox' = [outbox EXCEPT ![i] = r]
  BY <1>1 DEF OutboxRow, Expire
<1>3. OnlyLeasesChange
  BY <1>2, OneRowChanges
<1>4. WorkersTyped' /\ NobodyStartsMarking
  BY <1>3
     DEF OutboxInv, TypeOK, Expire, WorkersTyped, NobodyStartsMarking, Rows, OnlyLeasesChange
<1>5. faults' \in 0 .. MaxFaults
  BY FaultIsCounted DEF Expire, OutboxInv, TypeOK
<1> QED BY <1>3, <1>4, <1>5, QuietStep DEF Expire, OutboxInv, TypeOK

(* The only step that sends: its envelope carries the row it claimed and   *)
(* the snapshot of now, which keeps up with the row.                       *)
LEMMA PublishPreserves ==
  ASSUME OutboxInv, NEW s \in Servers, Publish(s)
  PROVE  OutboxInv'
<1>1. PICK i \in Rows : i = claimed[s] /\ outbox[i] \in OutboxRow
  BY DEF OutboxInv, TypeOK, Publish, Rows
<1> DEFINE e == EnvelopeOf(i)
<1>2. /\ outbox[i].match \in Matches /\ outbox[i].version \in 1 .. MaxRows
      /\ version[outbox[i].match] \in 0 .. MaxRows
      /\ outbox[i].version <= version[outbox[i].match]
  BY <1>1 DEF OutboxInv, TypeOK, SnapshotsKeepUp, OutboxRow
<1>3. e \in Envelope /\ e.row = i /\ e.snapshot >= outbox[i].version
  BY <1>1, <1>2, OutboxAssumption DEF EnvelopeOf, Envelope
<1>4. sent \in Seq(Envelope) /\ sent' = Append(sent, e)
  BY <1>1 DEF OutboxInv, TypeOK, Publish
<1> HIDE DEF e
<1>5. /\ sent' \in Seq(Envelope) /\ Len(sent') = Len(sent) + 1
      /\ \A k \in 1 .. Len(sent) : sent'[k] = sent[k]
      /\ sent'[Len(sent) + 1] = e
  BY <1>3, <1>4, AppendProperties
<1>6. outbox' = outbox /\ Rows' = Rows
  BY DEF Publish, Rows
<1>7. Broadcast(i)'
  <2>1. Len(sent) \in Nat /\ Len(sent) + 1 \in 1 .. Len(sent')
    BY <1>4, <1>5
  <2> QED BY <2>1, <1>3, <1>5, <1>6 DEF Broadcast
<1>8. \A j \in Rows : Broadcast(j) => Broadcast(j)'
  <2>1. 1 .. Len(sent) \subseteq 1 .. Len(sent')
    BY <1>4, <1>5
  <2> QED BY <2>1, <1>5, <1>6 DEF Broadcast
<1>9. TypeOK'
  BY <1>1, <1>5, <1>6 DEF OutboxInv, TypeOK, Publish, Envelope, NoRow, Rows
<1>10. MarkersHaveSent'
  <2>1. \A t \in Servers : stage[t] = "MARKING" => claimed[t] \in Rows
    BY DEF OutboxInv, TypeOK
  <2>2. \A t \in Servers : t # s => stage'[t] = stage[t]
    BY DEF OutboxInv, TypeOK, Publish
  <2> QED BY <2>1, <2>2, <1>1, <1>7, <1>8
          DEF OutboxInv, MarkersHaveSent, Broadcast, Publish
<1>11. PublishedWasBroadcast'
  <2>1. ASSUME NEW j \in Rows, outbox'[j].published PROVE Broadcast(j)'
    BY <2>1, <1>6, <1>8 DEF OutboxInv, PublishedWasBroadcast, Broadcast
  <2> QED BY <2>1, <1>6 DEF PublishedWasBroadcast, Broadcast
<1>12. SnapshotsKeepUp'
  BY <1>6 DEF OutboxInv, SnapshotsKeepUp, Publish
<1> QED BY <1>9, <1>10, <1>11, <1>12 DEF OutboxInv

(* Releasing publishes nothing.                                            *)
LEMMA PublishFailsPreserves ==
  ASSUME OutboxInv, NEW s \in Servers, PublishFails(s)
  PROVE  OutboxInv'
<1> DEFINE i == claimed[s]
           r == [outbox[i] EXCEPT !.lease = NoLease, !.expired = FALSE]
<1>1. i \in Rows /\ outbox[i] \in OutboxRow
  BY DEF OutboxInv, TypeOK, PublishFails, Rows
<1>2. /\ r \in OutboxRow /\ r.match = outbox[i].match /\ r.version = outbox[i].version
      /\ r.published = outbox[i].published /\ Unlease(i) = [outbox EXCEPT ![i] = r]
  BY <1>1 DEF OutboxRow, Unlease
<1>3. OnlyLeasesChange
  BY <1>1, <1>2, OneRowChanges, RowsUnchanged DEF PublishFails
<1>4. WorkersTyped' /\ NobodyStartsMarking
  BY <1>3, SettledWorker DEF PublishFails, OnlyLeasesChange
<1>5. faults' \in 0 .. MaxFaults
  BY FaultIsCounted DEF PublishFails, OutboxInv, TypeOK
<1> QED BY <1>3, <1>4, <1>5, QuietStep DEF PublishFails, OutboxInv, TypeOK

(* Whoever marks has sent the row, so it may count as published.           *)
LEMMA MarkPreserves ==
  ASSUME OutboxInv, NEW s \in Servers, Mark(s)
  PROVE  OutboxInv'
<1> DEFINE i == claimed[s]
           r == [outbox[i] EXCEPT !.lease = NoLease, !.expired = FALSE, !.published = TRUE]
<1>1. i \in Rows /\ outbox[i] \in OutboxRow /\ outbox \in Seq(OutboxRow)
  BY DEF OutboxInv, TypeOK, Mark, Rows
<1>2. Broadcast(i)
  BY DEF OutboxInv, MarkersHaveSent, Mark
<1>3. /\ r \in OutboxRow /\ r.match = outbox[i].match /\ r.version = outbox[i].version
      /\ [Unlease(i) EXCEPT ![i].published = TRUE] = [outbox EXCEPT ![i] = r]
  BY <1>1 DEF OutboxRow, Unlease, Rows
<1>4. OnlyLeasesChange
  BY <1>1, <1>2, <1>3, OneRowChanges, RowsUnchanged DEF Mark
<1>5. WorkersTyped' /\ NobodyStartsMarking
  BY <1>4, SettledWorker DEF Mark, OnlyLeasesChange
<1> QED BY <1>4, <1>5, QuietStep DEF Mark, OutboxInv, TypeOK

(* Every step keeps the invariant.                                         *)
LEMMA StepPreserves == OutboxInv /\ [Next]_vars => OutboxInv'
<1> SUFFICES ASSUME OutboxInv, [Next]_vars PROVE OutboxInv'
  OBVIOUS
<1>1. CASE UNCHANGED vars
  BY <1>1 DEF vars, OutboxInv, TypeOK, SnapshotsKeepUp, MarkersHaveSent, Broadcast,
              PublishedWasBroadcast, Rows, Envelope
<1>2. ASSUME NEW m \in Matches, Commit(m) PROVE OutboxInv'
  BY <1>2, CommitPreserves
<1>3. ASSUME NEW s \in Servers, Dispatch(s) PROVE OutboxInv'
  BY <1>3, DispatchPreserves
<1>4. ASSUME NEW s \in Servers, Claim(s) PROVE OutboxInv'
  BY <1>4, ClaimPreserves
<1>5. ASSUME NEW s \in Servers, ClaimNothing(s) PROVE OutboxInv'
  BY <1>5, QuietStep, RowsUnchanged, SettledWorker DEF ClaimNothing, OutboxInv, TypeOK
<1>6. ASSUME NEW s \in Servers, ClaimFails(s) PROVE OutboxInv'
  BY <1>6, QuietStep, RowsUnchanged, SettledWorker, FaultIsCounted
     DEF ClaimFails, OutboxInv, TypeOK
<1>7. ASSUME NEW s \in Servers, Publish(s) PROVE OutboxInv'
  BY <1>7, PublishPreserves
<1>8. ASSUME NEW s \in Servers, PublishFails(s) PROVE OutboxInv'
  BY <1>8, PublishFailsPreserves
<1>9. ASSUME NEW s \in Servers, ReleaseFails(s) PROVE OutboxInv'
  BY <1>9, QuietStep, RowsUnchanged, StoppedWorker, FaultIsCounted
     DEF ReleaseFails, OutboxInv, TypeOK
<1>10. ASSUME NEW s \in Servers, Mark(s) PROVE OutboxInv'
  BY <1>10, MarkPreserves
<1>11. ASSUME NEW s \in Servers, MarkFails(s) PROVE OutboxInv'
  BY <1>11, QuietStep, RowsUnchanged, SettledWorker, FaultIsCounted
     DEF MarkFails, OutboxInv, TypeOK
<1>12. ASSUME NEW s \in Servers, Crash(s) PROVE OutboxInv'
  BY <1>12, QuietStep, RowsUnchanged, StoppedWorker, FaultIsCounted
     DEF Crash, OutboxInv, TypeOK
<1>13. ASSUME NEW s \in Servers, Restart(s) PROVE OutboxInv'
  <2>1. WorkersTyped' /\ NobodyStartsMarking
    BY <1>13 DEF OutboxInv, TypeOK, Restart, WorkersTyped, NobodyStartsMarking, Rows, NoRow
  <2>2. token' \in [Servers -> Tokens]
    BY <1>13 DEF OutboxInv, TypeOK, Restart
  <2> QED BY <1>13, <2>1, <2>2, QuietStep, RowsUnchanged DEF Restart, OutboxInv, TypeOK
<1>14. ASSUME NEW i \in Rows, Expire(i) PROVE OutboxInv'
  BY <1>14, ExpirePreserves
<1> QED BY <1>1, <1>2, <1>3, <1>4, <1>5, <1>6, <1>7, <1>8, <1>9, <1>10, <1>11, <1>12,
           <1>13, <1>14 DEF Next, Work

-----------------------------------------------------------------------------
(* The inductive invariant holds: who claims, publishes or marks a row,    *)
(* whatever fails and whichever server dies (realtime/outbox.ts).          *)
THEOREM InvariantHolds == Spec => []OutboxInv
<1> QED BY InitEstablishes, StepPreserves, PTL DEF Spec

(* The types are right, and a worker has a row at hand exactly while it    *)
(* publishes or marks, whatever fails.                                     *)
THEOREM TypeCorrect == Spec => []TypeOK
<1>1. OutboxInv => TypeOK
  BY DEF OutboxInv
<1> QED BY <1>1, InvariantHolds, PTL

(* No row counts as published which was not broadcast, although lease      *)
(* tokens may be shared, leases outlived and results of an update ignored. *)
THEOREM PublishedWasBroadcastHolds == Spec => []PublishedWasBroadcast
<1>1. OutboxInv => PublishedWasBroadcast
  BY DEF OutboxInv
<1> QED BY <1>1, InvariantHolds, PTL

-----------------------------------------------------------------------------
(* Repeated broadcasts.                                                    *)

(* The broadcasts under way, and the rows that can be claimed (again)      *)
(* without a further fault: nobody alive holds a lease on them that runs.  *)
Publishing == {s \in Servers : stage[s] = "PUBLISHING"}
Kept(i)    == \E s \in Servers : claimed[s] = i /\ Holds(s, i) /\ ~ outbox[i].expired
Exposed    == {i \in Rows : ~ outbox[i].published /\ ~ Kept(i)}

(* Each row pays for one broadcast and each fault for one more: those that *)
(* were made, those under way and those that can come without a fault.     *)
SendsPaidFor ==
  /\ IsFiniteSet(Publishing)
  /\ Len(sent) + Cardinality(Publishing) + Cardinality(Exposed) <= Len(outbox) + faults

LEMMA CountsTyped ==
  ASSUME OutboxInv
  PROVE  /\ Len(sent) \in Nat /\ Len(outbox) \in Nat /\ faults \in Nat
         /\ IsFiniteSet(Exposed) /\ Cardinality(Exposed) \in Nat
<1>1. Len(sent) \in Nat /\ Len(outbox) \in Nat /\ faults \in Nat
  BY OutboxAssumption DEF OutboxInv, TypeOK
<1>2. IsFiniteSet(Rows)
  BY <1>1, FS_Interval DEF Rows
<1>3. IsFiniteSet(Exposed)
  BY <1>2, FS_Subset DEF Exposed
<1> QED
  BY <1>1, <1>3, FS_CardinalityType

LEMMA OneMoreCounts ==
  ASSUME NEW S, NEW x, IsFiniteSet(S)
  PROVE  /\ IsFiniteSet(S \cup {x}) /\ Cardinality(S) \in Nat
         /\ Cardinality(S \cup {x}) <= Cardinality(S) + 1
<1>1. Cardinality(S) \in Nat
  BY FS_CardinalityType
<1>2. IsFiniteSet(S \cup {x}) /\ Cardinality(S \cup {x}) \in {Cardinality(S), Cardinality(S) + 1}
  BY FS_AddElement
<1> QED
  BY <1>1, <1>2

LEMMA TwoSetsCount ==
  ASSUME NEW S, NEW T, IsFiniteSet(S), IsFiniteSet(T)
  PROVE  /\ IsFiniteSet(S \cup T) /\ Cardinality(S \cup T) \in Nat
         /\ Cardinality(S \cup T) <= Cardinality(S) + Cardinality(T)
<1>1. /\ IsFiniteSet(S \cup T)
      /\ Cardinality(S \cup T) = Cardinality(S) + Cardinality(T) - Cardinality(S \cap T)
  BY FS_Union
<1>2. IsFiniteSet(S \cap T)
  BY FS_Intersection
<1>3. /\ Cardinality(S) \in Nat /\ Cardinality(T) \in Nat
      /\ Cardinality(S \cap T) \in Nat /\ Cardinality(S \cup T) \in Nat
  BY <1>1, <1>2, FS_CardinalityType
<1> QED
  BY <1>1, <1>3

(* The ways in which a step changes the account.                           *)
LEMMA NothingDue ==
  ASSUME OutboxInv, SendsPaidFor, OutboxInv',
         Publishing' \subseteq Publishing, Exposed' \subseteq Exposed,
         Len(sent') = Len(sent), Len(outbox') = Len(outbox), faults' >= faults
  PROVE  SendsPaidFor'
<1>1. IsFiniteSet(Publishing') /\ Cardinality(Publishing') <= Cardinality(Publishing)
  BY FS_Subset DEF SendsPaidFor
<1>2. Cardinality(Exposed') <= Cardinality(Exposed)
  BY CountsTyped, FS_Subset
<1>3. Cardinality(Publishing) \in Nat /\ Cardinality(Publishing') \in Nat
  BY <1>1, FS_CardinalityType DEF SendsPaidFor
<1>4. Cardinality(Exposed) \in Nat /\ Cardinality(Exposed') \in Nat /\ faults' \in Nat
  <2>1. IsFiniteSet(Exposed')
    BY CountsTyped, FS_Subset
  <2>2. faults' \in Nat
    BY OutboxAssumption DEF OutboxInv, TypeOK
  <2> QED
    BY <2>1, <2>2, CountsTyped, FS_CardinalityType
<1> QED
  BY <1>1, <1>2, <1>3, <1>4, CountsTyped DEF SendsPaidFor

LEMMA OneMorePaid ==
  ASSUME OutboxInv, SendsPaidFor, NEW i,
         Publishing' \subseteq Publishing, Exposed' \subseteq Exposed \cup {i},
         Len(sent') = Len(sent),
         \/ Len(outbox') = Len(outbox) + 1 /\ faults' = faults
         \/ Len(outbox') = Len(outbox) /\ faults' = faults + 1
  PROVE  SendsPaidFor'
<1>1. IsFiniteSet(Publishing') /\ Cardinality(Publishing') <= Cardinality(Publishing)
  BY FS_Subset DEF SendsPaidFor
<1>2. /\ IsFiniteSet(Exposed \cup {i})
      /\ Cardinality(Exposed \cup {i}) <= Cardinality(Exposed) + 1
  BY CountsTyped, OneMoreCounts
<1>3. IsFiniteSet(Exposed') /\ Cardinality(Exposed') <= Cardinality(Exposed \cup {i})
  BY <1>2, FS_Subset
<1>4. /\ Cardinality(Publishing) \in Nat /\ Cardinality(Publishing') \in Nat
      /\ Cardinality(Exposed') \in Nat /\ Cardinality(Exposed \cup {i}) \in Nat
  BY <1>1, <1>2, <1>3, FS_CardinalityType DEF SendsPaidFor
<1> QED
  BY <1>1, <1>2, <1>3, <1>4, CountsTyped DEF SendsPaidFor

LEMMA ClaimPays ==
  ASSUME OutboxInv, SendsPaidFor, NEW s, NEW i \in Exposed,
         Publishing' \subseteq Publishing \cup {s}, Exposed' \subseteq Exposed \ {i},
         Len(sent') = Len(sent), Len(outbox') = Len(outbox), faults' = faults
  PROVE  SendsPaidFor'
<1>1. /\ IsFiniteSet(Publishing \cup {s})
      /\ Cardinality(Publishing \cup {s}) <= Cardinality(Publishing) + 1
      /\ Cardinality(Publishing) \in Nat
  BY OneMoreCounts DEF SendsPaidFor
<1>2. /\ IsFiniteSet(Publishing') /\ Cardinality(Publishing') <= Cardinality(Publishing \cup {s})
  BY <1>1, FS_Subset
<1>3. /\ IsFiniteSet(Exposed \ {i}) /\ Cardinality(Exposed \ {i}) = Cardinality(Exposed) - 1
  BY CountsTyped, FS_RemoveElement
<1>4. IsFiniteSet(Exposed') /\ Cardinality(Exposed') <= Cardinality(Exposed \ {i})
  BY <1>3, FS_Subset
<1>5. /\ Cardinality(Publishing') \in Nat /\ Cardinality(Publishing \cup {s}) \in Nat
      /\ Cardinality(Exposed') \in Nat /\ Cardinality(Exposed \ {i}) \in Nat
  BY <1>1, <1>2, <1>3, <1>4, FS_CardinalityType
<1> QED
  BY <1>1, <1>2, <1>3, <1>4, <1>5, CountsTyped DEF SendsPaidFor

LEMMA PublishPays ==
  ASSUME OutboxInv, SendsPaidFor, NEW s \in Publishing,
         Publishing' \subseteq Publishing \ {s}, Exposed' \subseteq Exposed,
         Len(sent') = Len(sent) + 1, Len(outbox') = Len(outbox), faults' = faults
  PROVE  SendsPaidFor'
<1>1. /\ IsFiniteSet(Publishing \ {s})
      /\ Cardinality(Publishing \ {s}) = Cardinality(Publishing) - 1
      /\ Cardinality(Publishing) \in Nat
  BY FS_RemoveElement, FS_CardinalityType DEF SendsPaidFor
<1>2. IsFiniteSet(Publishing') /\ Cardinality(Publishing') <= Cardinality(Publishing \ {s})
  BY <1>1, FS_Subset
<1>3. IsFiniteSet(Exposed') /\ Cardinality(Exposed') <= Cardinality(Exposed)
  BY CountsTyped, FS_Subset
<1>4. /\ Cardinality(Publishing') \in Nat /\ Cardinality(Publishing \ {s}) \in Nat
      /\ Cardinality(Exposed') \in Nat
  BY <1>1, <1>2, <1>3, FS_CardinalityType
<1> QED
  BY <1>1, <1>2, <1>3, <1>4, CountsTyped DEF SendsPaidFor

(* Whoever stops working on a row exposes no other.                        *)
LEMMA OneStopsWorking ==
  ASSUME OutboxInv, NEW s \in Servers, claimed' = [claimed EXCEPT ![s] = NoRow],
         NEW at \in {"DOWN", "STOPPED", "CLAIMING"}, stage' = [stage EXCEPT ![s] = at],
         token' = token, outbox' = outbox
  PROVE  /\ Publishing' \subseteq Publishing
         /\ Exposed' \subseteq Exposed \cup {claimed[s]}
         /\ stage[s] \notin {"PUBLISHING", "MARKING"} => Exposed' \subseteq Exposed
<1>1. Publishing' \subseteq Publishing
  BY DEF Publishing, OutboxInv, TypeOK
<1>2. Rows' = Rows /\ NoRow \notin Rows
  BY DEF Rows, NoRow
<1>3. ASSUME NEW i \in Rows, Kept(i), i # claimed[s]
      PROVE  Kept(i)'
  <2>1. PICK t \in Servers : claimed[t] = i /\ Holds(t, i) /\ ~ outbox[i].expired
    BY <1>3 DEF Kept
  <2>2. claimed'[t] = i /\ Holds(t, i)'
    BY <1>3, <2>1 DEF Holds, OutboxInv, TypeOK
  <2> QED
    BY <2>1, <2>2 DEF Kept
<1>4. stage[s] \notin {"PUBLISHING", "MARKING"} => claimed[s] \notin Rows
  BY <1>2 DEF OutboxInv, TypeOK
<1> QED
  BY <1>1, <1>2, <1>3, <1>4 DEF Exposed

LEMMA SettleStage ==
  ASSUME NEW s, Settle(s)
  PROVE  \E at \in {"STOPPED", "CLAIMING"} : stage' = [stage EXCEPT ![s] = at]
  BY DEF Settle

LEMMA WorkPays ==
  ASSUME OutboxInv, OutboxInv', SendsPaidFor, NEW s \in Servers, Work(s)
  PROVE  SendsPaidFor'
<1>1. outbox \in Seq(OutboxRow) /\ Len(outbox) \in Nat /\ Len(sent) \in Nat /\ faults \in Nat
  BY CountsTyped DEF OutboxInv, TypeOK
<1>2. NoRow \notin Rows /\ \A t \in Servers : token[t] # NoLease
  BY OutboxAssumption DEF Rows, NoRow, OutboxInv, TypeOK
<1>3. CASE Claim(s)
  <2>1. PICK i \in Claimable :
          /\ outbox' = [outbox EXCEPT ![i].lease = token[s], ![i].expired = FALSE]
          /\ claimed' = [claimed EXCEPT ![s] = i]
    BY <1>3 DEF Claim
  <2>2. i \in Rows /\ outbox[i] \in OutboxRow
    BY <1>1, <2>1 DEF Claimable, Rows
  <2>3. i \in Exposed
    BY <1>2, <2>1 DEF Claimable, Exposed, Kept, Holds
  <2>4. /\ \A j \in Rows : j # i => outbox'[j] = outbox[j]
        /\ outbox'[i].lease = token[s] /\ outbox'[i].expired = FALSE
        /\ outbox'[i].published = outbox[i].published
        /\ Len(outbox') = Len(outbox) /\ Rows' = Rows
    BY <1>1, <2>1, <2>2 DEF Rows, OutboxRow
  <2>5. claimed[s] = NoRow /\ claimed'[s] = i /\ \A t \in Servers : t # s => claimed'[t] = claimed[t]
    BY <1>3, <2>1 DEF Claim, OutboxInv, TypeOK
  <2>6. token' = token /\ sent' = sent /\ faults' = faults
    BY <1>3 DEF Claim
  <2>7. Publishing' \subseteq Publishing \cup {s}
    BY <1>3 DEF Claim, Publishing, OutboxInv, TypeOK
  <2>8. \A j \in Rows : j # i /\ Kept(j) => Kept(j)'
    BY <1>2, <2>4, <2>5, <2>6 DEF Kept, Holds
  <2>9. Kept(i)' \/ outbox'[i].published
    BY <2>4, <2>5, <2>6 DEF Kept, Holds
  <2>10. Exposed' \subseteq Exposed \ {i}
    BY <2>4, <2>8, <2>9 DEF Exposed
  <2> QED
    BY <2>3, <2>4, <2>6, <2>7, <2>10, ClaimPays
<1>4. CASE Publish(s)
  <2>1. s \in Publishing /\ Publishing' \subseteq Publishing \ {s}
    BY <1>4 DEF Publish, Publishing, OutboxInv, TypeOK
  <2>2. Exposed' \subseteq Exposed
    BY <1>4 DEF Publish, Exposed, Kept, Holds, Rows
  <2>3. Len(sent') = Len(sent) + 1
    BY <1>4 DEF Publish, OutboxInv, TypeOK
  <2> QED
    BY <1>4, <2>1, <2>2, <2>3, PublishPays DEF Publish
<1>5. CASE ClaimNothing(s)
  <2>1. Publishing' \subseteq Publishing /\ Exposed' \subseteq Exposed
    BY <1>5, SettleStage, OneStopsWorking DEF ClaimNothing, Settle
  <2> QED
    BY <1>1, <1>5, <2>1, NothingDue DEF ClaimNothing
<1>6. CASE ClaimFails(s) \/ MarkFails(s) \/ ReleaseFails(s)
  <2>1. Publishing' \subseteq Publishing /\ Exposed' \subseteq Exposed \cup {claimed[s]}
    BY <1>6, SettleStage, OneStopsWorking DEF ClaimFails, MarkFails, ReleaseFails, Settle
  <2> QED
    BY <1>6, <2>1, OneMorePaid DEF ClaimFails, MarkFails, ReleaseFails, Fault
<1> DEFINE c == claimed[s]
<1>7. ASSUME PublishFails(s) \/ Mark(s)
      PROVE  /\ c \in Rows /\ outbox[c] \in OutboxRow
             /\ Publishing' \subseteq Publishing /\ token' = token /\ sent' = sent
             /\ Len(outbox') = Len(outbox) /\ Rows' = Rows
             /\ \A j \in Rows : j # c => outbox'[j] = outbox[j]
             /\ Exposed' \subseteq Exposed \cup {c}
  <2>1. c \in Rows /\ outbox[c] \in OutboxRow
    BY <1>1, <1>7 DEF PublishFails, Mark, OutboxInv, TypeOK, Rows
  <2>2. Publishing' \subseteq Publishing /\ token' = token /\ sent' = sent
    BY <1>7, SettleStage DEF PublishFails, Mark, Publishing, OutboxInv, TypeOK
  <2>3. \/ outbox' = outbox \/ outbox' = Unlease(c)
        \/ outbox' = [Unlease(c) EXCEPT ![c].published = TRUE]
    BY <1>7 DEF PublishFails, Mark
  <2>4. /\ Len(outbox') = Len(outbox) /\ \A j \in Rows : j # c => outbox'[j] = outbox[j]
    BY <1>1, <2>1, <2>3 DEF Unlease, Rows
  <2>5. Rows' = Rows
    BY <2>4 DEF Rows
  <2>6. \A t \in Servers : t # s => claimed'[t] = claimed[t]
    BY <1>7 DEF PublishFails, Mark, Settle, OutboxInv, TypeOK
  <2>7. \A j \in Rows : j # c /\ Kept(j) => Kept(j)'
    BY <2>2, <2>4, <2>6 DEF Kept, Holds
  <2>8. Exposed' \subseteq Exposed \cup {c}
    BY <2>4, <2>5, <2>7 DEF Exposed
  <2> QED
    BY <2>1, <2>2, <2>4, <2>5, <2>8
<1>8. CASE PublishFails(s)
  BY <1>7, <1>8, OneMorePaid DEF PublishFails, Fault
<1>9. CASE Mark(s)
  <2>1. c \in Exposed' => c \in Exposed
    <3>1. CASE Holds(s, c)
      <4> DEFINE freed == [outbox[c] EXCEPT !.lease = NoLease, !.expired = FALSE]
                 marked == [freed EXCEPT !.published = TRUE]
      <4>1. outbox' = [outbox EXCEPT ![c] = marked]
        <5>1. outbox' = [Unlease(c) EXCEPT ![c].published = TRUE]
          BY <1>9, <3>1 DEF Mark
        <5>2. Unlease(c) = [outbox EXCEPT ![c] = freed]
          BY DEF Unlease
        <5>3. c \in DOMAIN outbox
          BY <1>1, <1>7, <1>9 DEF Rows
        <5> QED
          BY <5>1, <5>2, <5>3
      <4>2. marked.published
        BY <1>7, <1>9 DEF OutboxRow
      <4>3. c \in DOMAIN outbox
        BY <1>1, <1>7, <1>9 DEF Rows
      <4> HIDE DEF marked
      <4>4. outbox'[c].published
        BY <4>1, <4>2, <4>3
      <4> QED
        BY <4>4 DEF Exposed
    <3>2. CASE ~ Holds(s, c)
      <4>1. outbox' = outbox
        BY <1>9, <3>2 DEF Mark
      <4>2. ASSUME NEW i, i = c, Kept(i) PROVE Kept(i)'
        <5>1. PICK t \in Servers : claimed[t] = i /\ Holds(t, i) /\ ~ outbox[i].expired
          BY <4>2 DEF Kept
        <5>2. claimed'[t] = i
          BY <1>9, <3>2, <4>2, <5>1 DEF Mark, Settle, OutboxInv, TypeOK
        <5>3. Holds(t, i)'
          BY <1>7, <1>9, <4>1, <5>1 DEF Holds
        <5> QED
          BY <4>1, <5>1, <5>2, <5>3 DEF Kept
      <4>3. ASSUME NEW i, i = c, i \in Exposed' PROVE i \in Exposed
        BY <1>7, <1>9, <4>1, <4>2, <4>3 DEF Exposed
      <4> QED
        BY <4>3
    <3> QED
      BY <3>1, <3>2
  <2>2. Exposed' \subseteq Exposed
    BY <1>7, <1>9, <2>1
  <2> QED
    BY <1>1, <1>7, <1>9, <2>2, NothingDue DEF Mark
<1> QED
  BY <1>3, <1>4, <1>5, <1>6, <1>8, <1>9 DEF Work

LEMMA PaidStep == OutboxInv /\ OutboxInv' /\ SendsPaidFor /\ [Next]_vars => SendsPaidFor'
<1> SUFFICES ASSUME OutboxInv, OutboxInv', SendsPaidFor, [Next]_vars PROVE SendsPaidFor'
  OBVIOUS
<1>1. outbox \in Seq(OutboxRow) /\ Len(outbox) \in Nat /\ Len(sent) \in Nat /\ faults \in Nat
  BY CountsTyped DEF OutboxInv, TypeOK
<1>2. CASE UNCHANGED vars
  <2>1. Publishing' = Publishing /\ Exposed' = Exposed
    BY <1>2 DEF vars, Publishing, Exposed, Kept, Holds, Rows
  <2> QED
    BY <1>1, <1>2, <2>1, NothingDue DEF vars
<1>3. ASSUME NEW m \in Matches, Commit(m) PROVE SendsPaidFor'
  <2>1. outbox' = Append(outbox, NewRow(m, version'[m]))
    BY <1>3 DEF Commit
  <2>2. /\ Len(outbox') = Len(outbox) + 1 /\ \A i \in Rows : outbox'[i] = outbox[i]
        /\ Rows' = Rows \cup {Len(outbox) + 1}
    BY <1>1, <2>1 DEF Rows
  <2>3. \A i \in Rows : Kept(i) => Kept(i)'
    BY <1>3, <2>2 DEF Commit, Kept, Holds
  <2>4. Exposed' \subseteq Exposed \cup {Len(outbox) + 1}
    BY <2>2, <2>3 DEF Exposed
  <2>5. Publishing' \subseteq Publishing
    BY <1>3 DEF Commit, Publishing
  <2> QED
    BY <1>3, <2>2, <2>4, <2>5, OneMorePaid DEF Commit
<1>4. ASSUME NEW s \in Servers, Dispatch(s) PROVE SendsPaidFor'
  <2>1. Publishing' \subseteq Publishing
    BY <1>4 DEF Dispatch, Publishing, OutboxInv, TypeOK
  <2>2. Exposed' \subseteq Exposed
    BY <1>4 DEF Dispatch, Exposed, Kept, Holds, Rows
  <2> QED
    BY <1>1, <1>4, <2>1, <2>2, NothingDue DEF Dispatch
<1>5. ASSUME NEW s \in Servers, Work(s) PROVE SendsPaidFor'
  BY <1>5, WorkPays
<1>6. ASSUME NEW s \in Servers, Crash(s) PROVE SendsPaidFor'
  <2>1. Publishing' \subseteq Publishing /\ Exposed' \subseteq Exposed \cup {claimed[s]}
    BY <1>6, OneStopsWorking DEF Crash
  <2> QED
    BY <1>6, <2>1, OneMorePaid DEF Crash, Fault
<1>7. ASSUME NEW s \in Servers, Restart(s) PROVE SendsPaidFor'
  <2>1. Publishing' \subseteq Publishing
    BY <1>7 DEF Restart, Publishing, OutboxInv, TypeOK
  <2>2. claimed[s] \notin Rows /\ \A t \in Servers : t # s => token'[t] = token[t]
    BY <1>7 DEF Restart, OutboxInv, TypeOK, Rows, NoRow
  <2>3. \A i \in Rows : Kept(i) => Kept(i)'
    BY <1>7, <2>2 DEF Restart, Kept, Holds
  <2>4. Exposed' \subseteq Exposed
    BY <1>7, <2>3 DEF Restart, Exposed, Rows
  <2> QED
    BY <1>1, <1>7, <2>1, <2>4, NothingDue DEF Restart
<1>8. ASSUME NEW i \in Rows, Expire(i) PROVE SendsPaidFor'
  <2>1. outbox' = [outbox EXCEPT ![i].expired = TRUE] /\ outbox[i] \in OutboxRow
    BY <1>1, <1>8 DEF Expire, Rows
  <2>2. /\ Len(outbox') = Len(outbox) /\ Rows' = Rows
        /\ \A j \in Rows : j # i => outbox'[j] = outbox[j]
        /\ outbox'[i].published = outbox[i].published
    BY <1>1, <2>1 DEF Rows, OutboxRow
  <2>3. /\ Publishing' \subseteq Publishing /\ claimed' = claimed /\ token' = token
        /\ sent' = sent
    BY <1>8 DEF Expire, Publishing
  <2>4. \A j \in Rows : j # i /\ Kept(j) => Kept(j)'
    BY <2>2, <2>3 DEF Kept, Holds
  <2>5. Exposed' \subseteq Exposed \cup {i}
    BY <2>2, <2>4 DEF Exposed
  <2>6. CASE \E s \in Servers : claimed[s] = i /\ Holds(s, i)
    BY <1>8, <2>2, <2>3, <2>5, <2>6, OneMorePaid DEF Expire, Fault
  <2>7. CASE ~ \E s \in Servers : claimed[s] = i /\ Holds(s, i)
    <3>1. i \in Exposed
      BY <1>8, <2>7 DEF Expire, Exposed, Kept
    <3> QED
      BY <1>1, <1>8, <2>2, <2>3, <2>5, <2>7, <3>1, NothingDue DEF Expire
  <2> QED
    BY <2>6, <2>7
<1> QED
  BY <1>2, <1>3, <1>4, <1>5, <1>6, <1>7, <1>8 DEF Next

LEMMA NothingSentIsPaid == Init => SendsPaidFor
<1> SUFFICES ASSUME Init PROVE SendsPaidFor
  OBVIOUS
<1>1. Publishing = {} /\ Exposed = {}
  BY DEF Init, Publishing, Exposed, Rows
<1>2. Len(sent) = 0 /\ Len(outbox) = 0 /\ faults = 0
  BY DEF Init
<1> QED
  BY <1>1, <1>2, FS_EmptySet DEF SendsPaidFor

LEMMA SendsArePaidFor == Spec => []SendsPaidFor
<1>1. Init => SendsPaidFor
  BY NothingSentIsPaid
<1>2. OutboxInv /\ OutboxInv' /\ SendsPaidFor /\ [Next]_vars => SendsPaidFor'
  BY PaidStep
<1> QED
  BY <1>1, <1>2, InvariantHolds, PTL DEF Spec

(* A row that is neither exposed nor being sent was sent: a lease that is  *)
(* held and runs is that of a worker, which publishes or marks.            *)
LEMMA RowsAccountedFor ==
  ASSUME OutboxInv, NEW i \in Rows, i \notin Exposed,
         \A s \in Publishing : claimed[s] # i
  PROVE  Broadcast(i)
<1>1. CASE outbox[i].published
  BY <1>1 DEF OutboxInv, PublishedWasBroadcast, Broadcast
<1>2. CASE ~ outbox[i].published
  <2>1. PICK s \in Servers : claimed[s] = i
    BY <1>2 DEF Exposed, Kept
  <2>2. stage[s] \in {"PUBLISHING", "MARKING"}
    BY <2>1 DEF OutboxInv, TypeOK, Rows, NoRow
  <2>3. stage[s] = "MARKING"
    BY <2>1, <2>2 DEF Publishing
  <2> QED
    BY <2>1, <2>3 DEF OutboxInv, MarkersHaveSent
<1> QED
  BY <1>1, <1>2

LEMMA PaidForMeansFaults == OutboxInv /\ SendsPaidFor => RepeatsAreFaults
<1> SUFFICES ASSUME OutboxInv, SendsPaidFor PROVE RepeatsAreFaults
  OBVIOUS
<1> DEFINE SentRows == {sent[k].row : k \in 1 .. Len(sent)}
           WorkedOn == {claimed[s] : s \in Publishing}
           f == [s \in Publishing |-> claimed[s]]
<1>1. /\ Len(sent) \in Nat /\ Len(outbox) \in Nat /\ faults \in Nat
      /\ IsFiniteSet(Exposed) /\ Cardinality(Exposed) \in Nat
  BY CountsTyped
<1>2. IsFiniteSet(Rows) /\ Cardinality(Rows) = Len(outbox)
  <2> DEFINE n == Len(outbox)
  <2>1. n \in Int /\ 1 \in Int /\ (1 > n => n = 0)
    BY <1>1
  <2> HIDE DEF n
  <2>2. IsFiniteSet(1 .. n) /\ Cardinality(1 .. n) = IF 1 > n THEN 0 ELSE n - 1 + 1
    BY <2>1, FS_Interval
  <2>3. IsFiniteSet(1 .. n) /\ Cardinality(1 .. n) = n
    BY <2>1, <2>2
  <2> QED
    BY <2>3 DEF Rows, n
<1>3. SentRows \subseteq Rows
  <2>1. \A k \in 1 .. Len(sent) : sent[k] \in Envelope
    BY DEF OutboxInv, TypeOK
  <2> QED
    BY <2>1 DEF Envelope
<1>4. IsFiniteSet(SentRows) /\ Cardinality(SentRows) \in Nat
  BY <1>2, <1>3, FS_Subset, FS_CardinalityType
<1>5. f \in Surjection(Publishing, WorkedOn)
  BY DEF Surjection
<1>6. /\ IsFiniteSet(WorkedOn) /\ Cardinality(WorkedOn) \in Nat
      /\ Cardinality(Publishing) \in Nat
      /\ Cardinality(WorkedOn) <= Cardinality(Publishing)
  BY <1>5, FS_Surjection, FS_CardinalityType DEF SendsPaidFor
<1>7. Rows \subseteq (SentRows \cup WorkedOn) \cup Exposed
  BY RowsAccountedFor DEF Broadcast
<1> HIDE DEF SentRows, WorkedOn, f
<1>8. /\ IsFiniteSet(SentRows \cup WorkedOn) /\ Cardinality(SentRows \cup WorkedOn) \in Nat
      /\ Cardinality(SentRows \cup WorkedOn) <= Cardinality(SentRows) + Cardinality(WorkedOn)
  BY <1>4, <1>6, TwoSetsCount
<1>9. /\ IsFiniteSet((SentRows \cup WorkedOn) \cup Exposed)
      /\ Cardinality((SentRows \cup WorkedOn) \cup Exposed) \in Nat
      /\ Cardinality((SentRows \cup WorkedOn) \cup Exposed)
           <= Cardinality(SentRows \cup WorkedOn) + Cardinality(Exposed)
  BY <1>1, <1>8, TwoSetsCount
<1>10. Cardinality(Rows) <= Cardinality((SentRows \cup WorkedOn) \cup Exposed)
  BY <1>7, <1>9, FS_Subset
<1>11. Len(sent) <= Cardinality(SentRows) + faults
  BY <1>1, <1>2, <1>4, <1>6, <1>8, <1>9, <1>10 DEF SendsPaidFor
<1> QED
  BY <1>11 DEF RepeatsAreFaults, SentRows

(* Every broadcast of a row beyond its first has a fault of its own: a     *)
(* failed step, a death, or a lease that ran out under its worker.  Two    *)
(* workers never send a row for nothing, shared lease tokens or not.       *)
THEOREM RepeatsAreFaultsHolds == Spec => []RepeatsAreFaults
<1>1. OutboxInv /\ SendsPaidFor => RepeatsAreFaults
  BY PaidForMeansFaults
<1> QED
  BY <1>1, InvariantHolds, SendsArePaidFor, PTL

=============================================================================
