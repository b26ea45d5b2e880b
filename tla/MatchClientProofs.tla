------------------------- MODULE MatchClientProofs --------------------------
(***************************************************************************)
(* What a page keeps to for every number of versions, waiting updates and  *)
(* pauses: its types, that the queue of the board is contiguous, that      *)
(* nothing is skipped or repeated before a pause, and that the board       *)
(* follows the match, that an answer that comes late takes nothing back    *)
(* that the page already shows, and that the page implements MatchView.    *)
(* The last section is about the connection of the page, RealtimeGateway:  *)
(* that it misses nothing of what is published.                            *)
(***************************************************************************)
EXTENDS MatchClient, RealtimeGateway, SequenceTheorems, WellFoundedInduction, TLAPS

-----------------------------------------------------------------------------
(* Versions and sequence numbers. *)

LEMMA SequenceTyped ==
  ASSUME NEW v \in Nat
  PROVE  ToSequence(v) \in Nat /\ WatermarkOf(v) \in Watermarks
         /\ WatermarkOf(v).version = v /\ WatermarkOf(v).last = ToSequence(v)
<1>1. ToSequence(v) \in Nat
  BY ClientAssumption DEF ToSequence
<1> QED
  BY <1>1 DEF WatermarkOf, Watermark, Watermarks

LEMMA SequenceGrows ==
  ASSUME NEW a \in Nat, NEW b \in Nat
  PROVE  a < b => ToSequence(a) + Events <= ToSequence(b)
<1>1. \A n, m, k \in Int : (n + m) * k = n * k + m * k
  OBVIOUS
<1>2. \A n \in Nat, k \in Nat : n * k \in Nat
  OBVIOUS
<1> SUFFICES ASSUME a < b PROVE ToSequence(a) + Events <= ToSequence(b)
  OBVIOUS
<1> DEFINE more == b - a - 1
<1>3. more \in Nat /\ b = (a + 1) + more
  OBVIOUS
<1>4. b * Events = (a + 1) * Events + more * Events
  BY <1>1, <1>3, ClientAssumption
<1>5. (a + 1) * Events = a * Events + 1 * Events
  BY <1>1, ClientAssumption
<1>6. more * Events \in Nat /\ a * Events \in Nat /\ 1 * Events = Events
  BY <1>2, <1>3, ClientAssumption
<1> QED
  BY <1>4, <1>5, <1>6, ClientAssumption DEF ToSequence

LEMMA SequenceOrder ==
  ASSUME NEW a \in Nat, NEW b \in Nat
  PROVE  /\ ToSequence(a) <= ToSequence(b) <=> a <= b
         /\ ToSequence(a) = ToSequence(b) <=> a = b
<1>1. ToSequence(a) \in Nat /\ ToSequence(b) \in Nat
  BY SequenceTyped
<1>2. a < b => ToSequence(a) + Events <= ToSequence(b)
  BY SequenceGrows
<1>3. b < a => ToSequence(b) + Events <= ToSequence(a)
  BY SequenceGrows
<1> QED
  BY <1>1, <1>2, <1>3, ClientAssumption

(* The first event of a version comes after the last one of its            *)
(* predecessor; comparing sequence numbers is comparing versions.          *)
LEMMA FromOrder ==
  ASSUME NEW a \in Nat, NEW b \in Nat \ {0}
  PROVE  /\ FromSequence(b) \in Nat
         /\ FromSequence(b) = ToSequence(a) + 1 <=> b = a + 1
         /\ FromSequence(b) > ToSequence(a) + 1 <=> b > a + 1
         /\ FromSequence(b) <= ToSequence(a) <=> b <= a
<1>1. b - 1 \in Nat /\ FromSequence(b) = ToSequence(b - 1) + 1
  BY DEF FromSequence, ToSequence
<1>2. /\ ToSequence(a) \in Nat /\ ToSequence(b - 1) \in Nat
      /\ ToSequence(b - 1) <= ToSequence(a) <=> b - 1 <= a
      /\ ToSequence(b - 1) = ToSequence(a) <=> b - 1 = a
  BY <1>1, SequenceTyped, SequenceOrder
<1>3. b - 1 < a => ToSequence(b - 1) + Events <= ToSequence(a)
  BY <1>1, SequenceGrows
<1> QED
  BY <1>1, <1>2, <1>3, ClientAssumption

-----------------------------------------------------------------------------
(* The controller of a board. *)

(* What waits is numbered through, and ends with the version last.         *)
Chained(queue, last) ==
  IF queue.active = NoTransition THEN queue.queued = <<>>
  ELSE /\ \A i \in 1 .. Len(queue.queued) :
            queue.queued[i].version = queue.active.version + i
       /\ queue.active.version + Len(queue.queued) = last

(* Before a pause the board stands directly before what is animated.       *)
InOrder(c) ==
  c.generation = 0 =>
    /\ c.queue.reconciled = c.presentation
    /\ IF c.queue.active = NoTransition
       THEN c.presentation.version = c.authoritative.version
       ELSE c.queue.active.version = c.presentation.version + 1

Sound(c) ==
  /\ c \in Controllers
  /\ c.authoritative = WatermarkOf(c.authoritative.version)
  /\ c.presentation = WatermarkOf(c.presentation.version)
  /\ c.presentation.version <= c.authoritative.version
  /\ Chained(c.queue, c.authoritative.version)
  /\ InOrder(c)

LEMMA NoTransitionIsNone == NoTransition \notin Envelopes /\ NoTransition.version = 0
  BY DEF NoTransition, Envelopes

LEMMA CreateSound ==
  ASSUME NEW v \in Nat
  PROVE  Sound(CreateController(v))
<1>1. WatermarkOf(v) \in Watermarks /\ WatermarkOf(v).version = v
  BY SequenceTyped
<1>2. CreateController(v) \in Controllers
  BY <1>1 DEF CreateController, CreateQueue, Controllers, Queues, Recoveries
<1> QED
  BY <1>1, <1>2 DEF Sound, CreateController, CreateQueue, Chained, InOrder

LEMMA NoControllerSound == Sound(NoController)
<1>1. WatermarkOf(0) \in Watermarks /\ WatermarkOf(0).version = 0
  BY SequenceTyped
<1>2. NoController \in Controllers
  BY <1>1 DEF NoController, CreateQueue, Controllers, Queues, Recoveries
<1> QED
  BY <1>1, <1>2 DEF Sound, NoController, CreateQueue, Chained, InOrder

(* A paused controller waits for nothing.                                  *)
LEMMA PauseSound ==
  ASSUME NEW c, Sound(c), NEW reason \in {"SEQUENCE_GAP", "SEQUENCE_OVERLAP"}
  PROVE  Sound(Pause(c, reason)) /\ Pause(c, reason).generation # 0
         /\ Pause(c, reason).recovery # "NO_CONTROLLER"
<1>1. c \in Controllers
  BY DEF Sound
<1>2. CreateQueue(Watermark(c.snapshot, c.presentation.last)) \in Queues
  BY <1>1 DEF Controllers, CreateQueue, Queues, Watermark, Watermarks
<1>3. /\ Pause(c, reason) \in Controllers
      /\ Pause(c, reason).generation # 0
      /\ Pause(c, reason).recovery = reason
      /\ Pause(c, reason).authoritative = c.authoritative
      /\ Pause(c, reason).presentation = c.presentation
      /\ Pause(c, reason).queue = CreateQueue(Watermark(c.snapshot, c.presentation.last))
  <2> DEFINE queue == CreateQueue(Watermark(c.snapshot, c.presentation.last))
  <2>1. c.generation \in Nat /\ c.generation + 1 \in Nat /\ c.generation + 1 # 0
    BY <1>1 DEF Controllers
  <2>2. Pause(c, reason) = [c EXCEPT !.generation = c.generation + 1, !.queue = queue,
                                     !.recovery = reason]
    BY Zenon DEF Pause
  <2>3. queue \in Queues /\ reason \in Recoveries
    BY <1>2 DEF Recoveries
  <2> HIDE DEF queue
  <2>4. Pause(c, reason) \in Controllers
    BY <1>1, <2>1, <2>2, <2>3 DEF Controllers
  <2>5. /\ Pause(c, reason).generation = c.generation + 1
        /\ Pause(c, reason).recovery = reason
        /\ Pause(c, reason).authoritative = c.authoritative
        /\ Pause(c, reason).presentation = c.presentation
        /\ Pause(c, reason).queue = queue
    BY <1>1, <2>2 DEF Controllers
  <2> QED
    BY <2>1, <2>4, <2>5 DEF queue
<1>4. Chained(Pause(c, reason).queue, c.authoritative.version)
  BY <1>3 DEF CreateQueue, Chained
<1>5. InOrder(Pause(c, reason))
  BY <1>3 DEF InOrder
<1>6. /\ c.authoritative = WatermarkOf(c.authoritative.version)
      /\ c.presentation = WatermarkOf(c.presentation.version)
      /\ c.presentation.version <= c.authoritative.version
  BY DEF Sound
<1>7. Sound(Pause(c, reason))
  BY <1>3, <1>4, <1>5, <1>6 DEF Sound
<1> QED
  BY <1>3, <1>7

(* Only the very next transition joins the queue, and it joins at the end. *)
LEMMA JoinQueue ==
  ASSUME NEW queue \in Queues, NEW last \in Nat, Chained(queue, last),
         NEW t \in Envelopes, t.version = last + 1, ~ HasTransition(queue, t)
  PROVE  LET next == ActivateNext(Enqueue(queue, t))
         IN  /\ next \in Queues
             /\ Chained(next, t.version)
             /\ next.active # NoTransition
             /\ next.reconciled = queue.reconciled
             /\ queue.active # NoTransition => next.active = queue.active
             /\ queue.active = NoTransition => next.active = t
<1> DEFINE longer == [queue EXCEPT !.queued = Append(queue.queued, t)]
           next   == ActivateNext(Enqueue(queue, t))
<1>1. /\ queue.queued \in Seq(Envelopes) /\ queue.active \in Envelopes \union {NoTransition}
      /\ queue.reconciled \in Watermarks
  BY DEF Queues
<1>2. /\ Append(queue.queued, t) \in Seq(Envelopes)
      /\ Append(queue.queued, t) # <<>>
      /\ Len(Append(queue.queued, t)) = Len(queue.queued) + 1
      /\ \A i \in 1 .. Len(queue.queued) : Append(queue.queued, t)[i] = queue.queued[i]
      /\ Append(queue.queued, t)[Len(queue.queued) + 1] = t
  BY <1>1
<1>3. /\ longer \in Queues
      /\ longer.queued = Append(queue.queued, t)
      /\ longer.active = queue.active /\ longer.reconciled = queue.reconciled
  BY <1>1, <1>2 DEF Queues
<1>4. Enqueue(queue, t) = longer
  BY DEF Enqueue
<1>5. t # NoTransition
  BY NoTransitionIsNone
<1> HIDE DEF longer
<1>6. CASE queue.active # NoTransition
  <2>1. next = longer
    BY <1>3, <1>4, <1>6 DEF ActivateNext
  <2>2. \A i \in 1 .. Len(queue.queued) : queue.queued[i].version = queue.active.version + i
    BY <1>6 DEF Chained
  <2>3. queue.active.version + Len(queue.queued) = last /\ queue.active.version \in Nat
        /\ Len(queue.queued) \in Nat
    BY <1>1, <1>6 DEF Chained, Envelopes
  <2>4. \A i \in 1 .. Len(longer.queued) : longer.queued[i].version = longer.active.version + i
    <3> TAKE i \in 1 .. Len(longer.queued)
    <3>1. CASE i \in 1 .. Len(queue.queued)
      BY <1>2, <1>3, <2>2, <3>1
    <3>2. CASE i = Len(queue.queued) + 1
      BY <1>2, <1>3, <2>3, <3>2
    <3> QED
      BY <1>2, <1>3, <2>3, <3>1, <3>2
  <2>5. longer.active.version + Len(longer.queued) = t.version
    <3>1. Len(longer.queued) = Len(queue.queued) + 1
      BY <1>2, <1>3
    <3>2. longer.active.version = queue.active.version
      BY <1>3
    <3> QED
      BY <2>3, <3>1, <3>2
  <2> QED
    BY <1>3, <1>6, <2>1, <2>4, <2>5 DEF Chained
<1>7. CASE queue.active = NoTransition
  <2>1. queue.queued = <<>>
    BY <1>7 DEF Chained
  <2>2. Head(longer.queued) = t /\ Tail(longer.queued) = <<>>
    BY <1>3, <2>1
  <2>3. next = [longer EXCEPT !.active = t, !.queued = <<>>]
    BY <1>2, <1>3, <1>4, <1>7, <2>2 DEF ActivateNext
  <2>4. /\ next \in Queues /\ next.active = t /\ next.queued = <<>>
        /\ next.reconciled = queue.reconciled
    <3>1. <<>> \in Seq(Envelopes)
      OBVIOUS
    <3> HIDE DEF next
    <3> QED
      BY <1>3, <2>3, <3>1 DEF Queues
  <2> QED
    BY <1>5, <1>7, <2>4 DEF Chained, Envelopes
<1> QED
  BY <1>6, <1>7

LEMMA NextIsNeither ==
  ASSUME NEW c, Sound(c), NEW t \in Envelopes
  PROVE  /\ c.authoritative.version \in Nat
         /\ ~ IsGap(c, t) /\ ~ IsOverlap(c, t) <=> t.version = c.authoritative.version + 1
<1>1. /\ c.authoritative.version \in Nat /\ t.version \in Nat \ {0}
      /\ c.authoritative = WatermarkOf(c.authoritative.version)
  BY DEF Sound, Controllers, Watermarks, Envelopes
<1>2. c.authoritative.last = ToSequence(c.authoritative.version)
      /\ ToSequence(c.authoritative.version) \in Nat
  BY <1>1, SequenceTyped
<1>3. /\ FromSequence(t.version) \in Nat
      /\ IsGap(c, t) <=> t.version > c.authoritative.version + 1
      /\ IsOverlap(c, t) <=> t.version <= c.authoritative.version
  BY <1>1, <1>2, FromOrder DEF IsGap, IsOverlap
<1> QED
  BY <1>1, <1>3

LEMMA AcceptSound ==
  ASSUME NEW c, Sound(c), NEW t \in Envelopes
  PROVE  LET next == AcceptTransition(c, t)
         IN  /\ Sound(next)
             /\ c.recovery # "NO_CONTROLLER" => next.recovery # "NO_CONTROLLER"
             /\ next.generation = 0 =>
                  /\ c.generation = 0
                  /\ next.authoritative.version =
                       IF t.version = c.authoritative.version + 1 THEN t.version
                       ELSE c.authoritative.version
<1> DEFINE next == AcceptTransition(c, t)
<1>1. /\ c \in Controllers /\ c.queue \in Queues /\ c.generation \in Nat
      /\ c.authoritative.version \in Nat /\ c.presentation.version \in Nat
      /\ t.version \in Nat \ {0}
  BY DEF Sound, Controllers, Watermarks, Envelopes
<1>2. CASE IsKnown(c, t)
  <2>1. next = c
    BY <1>2 DEF AcceptTransition
  <2>2. c.generation = 0 => t.version # c.authoritative.version + 1
    <3> SUFFICES ASSUME c.generation = 0, t.version = c.authoritative.version + 1
                 PROVE  FALSE
      OBVIOUS
    <3>1. /\ c.queue.reconciled = c.presentation
          /\ c.presentation.version <= c.authoritative.version
          /\ c.presentation = WatermarkOf(c.presentation.version)
          /\ Chained(c.queue, c.authoritative.version)
      BY DEF Sound, InOrder
    <3>2. ~ (ToSequence(t.version) <= c.presentation.last)
      BY <1>1, <3>1, SequenceTyped, SequenceOrder
    <3>3. HasTransition(c.queue, t)
      BY <1>1, <1>2, <3>1, <3>2 DEF IsKnown
    <3>4. c.queue.active # NoTransition
      BY <1>1, <3>1, <3>2, <3>3, NoTransitionIsNone DEF HasTransition, Chained
    <3>5. /\ c.queue.active.version \in Nat /\ c.queue.queued \in Seq(Envelopes)
          /\ Len(c.queue.queued) \in Nat
          /\ \A i \in 1 .. Len(c.queue.queued) :
               c.queue.queued[i].version = c.queue.active.version + i
          /\ c.queue.active.version + Len(c.queue.queued) = c.authoritative.version
      BY <1>1, <3>1, <3>4 DEF Chained, Queues, Envelopes
    <3>6. \/ c.queue.active.version = t.version
          \/ \E i \in 1 .. Len(c.queue.queued) : c.queue.queued[i].version = t.version
      BY <1>1, <3>1, <3>2, <3>3 DEF HasTransition
    <3>7. c.queue.active.version <= c.authoritative.version
      BY <1>1, <3>5
    <3>8. \A i \in 1 .. Len(c.queue.queued) :
            c.queue.active.version + i <= c.authoritative.version
      BY <1>1, <3>5
    <3> QED
      BY <1>1, <3>5, <3>6, <3>7, <3>8
  <2> QED
    BY <2>1, <2>2
<1>3. CASE ~ IsKnown(c, t) /\ (IsGap(c, t) \/ IsOverlap(c, t))
  <2>1. next = Pause(c, "SEQUENCE_GAP") \/ next = Pause(c, "SEQUENCE_OVERLAP")
    BY <1>3 DEF AcceptTransition
  <2> QED
    BY <2>1, PauseSound
<1>4. CASE ~ IsKnown(c, t) /\ ~ IsGap(c, t) /\ ~ IsOverlap(c, t)
  <2> DEFINE queue == ActivateNext(Enqueue(c.queue, t))
  <2>1. t.version = c.authoritative.version + 1 /\ ~ HasTransition(c.queue, t)
    BY <1>4, NextIsNeither DEF IsKnown
  <2>2. /\ queue \in Queues /\ Chained(queue, t.version)
        /\ queue.active # NoTransition /\ queue.reconciled = c.queue.reconciled
        /\ c.queue.active # NoTransition => queue.active = c.queue.active
        /\ c.queue.active = NoTransition => queue.active = t
    <3>1. Chained(c.queue, c.authoritative.version)
      BY DEF Sound
    <3> QED
      BY <1>1, <2>1, <3>1, JoinQueue
  <2>3. /\ WatermarkOf(t.version) \in Watermarks
        /\ WatermarkOf(t.version).version = t.version
    BY <1>1, SequenceTyped
  <2>4. next = [c EXCEPT !.authoritative = WatermarkOf(t.version), !.queue = queue,
                         !.recovery = "NONE"]
    BY <1>4 DEF AcceptTransition
  <2> HIDE DEF queue
  <2>5. /\ next \in Controllers
        /\ next.authoritative = WatermarkOf(t.version) /\ next.queue = queue
        /\ next.recovery = "NONE" /\ next.presentation = c.presentation
        /\ next.generation = c.generation
    BY <1>1, <2>2, <2>3, <2>4 DEF Controllers, Recoveries
  <2>6. InOrder(next)
    BY <2>1, <2>2, <2>5 DEF InOrder, Sound
  <2>7. /\ c.presentation = WatermarkOf(c.presentation.version)
        /\ c.presentation.version <= c.authoritative.version
    BY DEF Sound
  <2>8. Sound(next)
    BY <1>1, <2>1, <2>2, <2>3, <2>5, <2>6, <2>7 DEF Sound
  <2> QED
    BY <2>1, <2>3, <2>5, <2>8
<1> QED
  BY <1>2, <1>3, <1>4

LEMMA CompleteSound ==
  ASSUME NEW c, Sound(c), NEW token
  PROVE  LET next == CompletePresentation(c, token)
         IN  /\ Sound(next)
             /\ next.generation = c.generation
             /\ next.authoritative = c.authoritative
             /\ next.recovery = c.recovery
<1> DEFINE next   == CompletePresentation(c, token)
           active == c.queue.active
           rest   == [c.queue EXCEPT !.active = NoTransition,
                                     !.reconciled = WatermarkOf(active.version)]
           queue  == CompleteActive(c.queue)
<1>1. CASE active = NoTransition \/ token # Token(c)
  BY <1>1 DEF CompletePresentation
<1>2. CASE active # NoTransition /\ token = Token(c)
  <2>1. /\ c \in Controllers /\ c.queue \in Queues /\ c.queue.queued \in Seq(Envelopes)
        /\ active \in Envelopes /\ active.version \in Nat /\ active.snapshot \in Nat
        /\ Len(c.queue.queued) \in Nat
        /\ c.authoritative.version \in Nat
    BY <1>2 DEF Sound, Controllers, Queues, Envelopes, Watermarks
  <2>2. /\ \A i \in 1 .. Len(c.queue.queued) :
             c.queue.queued[i].version = active.version + i
        /\ active.version + Len(c.queue.queued) = c.authoritative.version
    BY <1>2 DEF Sound, Chained
  <2>3. /\ WatermarkOf(active.version) \in Watermarks
        /\ WatermarkOf(active.version).version = active.version
    BY <2>1, SequenceTyped
  <2>4. /\ rest \in Queues /\ rest.queued = c.queue.queued /\ rest.active = NoTransition
        /\ rest.reconciled = WatermarkOf(active.version)
    BY <2>1, <2>3 DEF Queues
  <2>5. queue = ActivateNext(rest)
    BY DEF CompleteActive
  <2>6. next = [c EXCEPT !.snapshot = active.snapshot,
                         !.presentation = WatermarkOf(active.version), !.queue = queue]
    BY <1>2 DEF CompletePresentation
  <2> HIDE DEF rest, queue, next, active
  <2>7. /\ queue \in Queues /\ queue.reconciled = WatermarkOf(active.version)
        /\ Chained(queue, c.authoritative.version)
        /\ IF queue.active = NoTransition THEN active.version = c.authoritative.version
           ELSE queue.active.version = active.version + 1
    <3>1. CASE c.queue.queued = <<>>
      <4>1. queue = rest
        BY <2>4, <2>5, <3>1 DEF ActivateNext
      <4>2. active.version = c.authoritative.version
        BY <2>1, <2>2, <3>1
      <4> QED
        BY <2>4, <3>1, <4>1, <4>2 DEF Chained
    <3>2. CASE c.queue.queued # <<>>
      <4> DEFINE first == Head(c.queue.queued)
                 later == Tail(c.queue.queued)
      <4>1. /\ first \in Envelopes /\ later \in Seq(Envelopes)
            /\ first = c.queue.queued[1]
            /\ Len(later) = Len(c.queue.queued) - 1 /\ Len(later) \in Nat
            /\ \A i \in 1 .. Len(later) : later[i] = c.queue.queued[i + 1]
        BY <2>1, <3>2
      <4>2. queue = [rest EXCEPT !.active = first, !.queued = later]
        BY <2>4, <2>5, <3>2 DEF ActivateNext
      <4> HIDE DEF first, later
      <4>3. /\ queue \in Queues /\ queue.active = first /\ queue.queued = later
            /\ queue.reconciled = rest.reconciled
        BY <2>4, <4>1, <4>2 DEF Queues
      <4>4. Len(c.queue.queued) >= 1
        BY <2>1, <4>1
      <4>5. first.version = active.version + 1
        BY <2>1, <2>2, <4>1, <4>4
      <4>6. first # NoTransition
        BY <4>1, NoTransitionIsNone
      <4>7. first.version + Len(later) = c.authoritative.version
        <5>1. active.version + Len(c.queue.queued) = c.authoritative.version
          BY <2>2
        <5>2. Len(later) = Len(c.queue.queued) - 1 /\ Len(c.queue.queued) \in Nat
          BY <2>1, <4>1
        <5>3. active.version \in Nat
          BY <2>1
        <5>4. first.version = active.version + 1
          BY <4>5
        <5>5. \A a, n \in Nat : (a + 1) + (n - 1) = a + n
          OBVIOUS
        <5> QED
          BY <5>1, <5>2, <5>3, <5>4, <5>5
      <4>8. \A i \in 1 .. Len(later) : later[i].version = first.version + i
        <5> TAKE i \in 1 .. Len(later)
        <5>1. later[i] = c.queue.queued[i + 1] /\ i \in Nat
          BY <4>1
        <5>2. i + 1 \in 1 .. Len(c.queue.queued)
          BY <2>1, <4>1
        <5>3. c.queue.queued[i + 1].version = active.version + (i + 1)
          BY <2>2, <5>2
        <5>4. active.version \in Nat
          BY <2>1
        <5>5. \A a, n \in Nat : (a + 1) + n = a + (n + 1)
          OBVIOUS
        <5> QED
          BY <4>5, <5>1, <5>3, <5>4, <5>5
      <4> QED
        BY <2>4, <4>3, <4>5, <4>6, <4>7, <4>8 DEF Chained
    <3> QED
      BY <3>1, <3>2
  <2>8. /\ next \in Controllers /\ next.queue = queue
        /\ next.presentation = WatermarkOf(active.version)
        /\ next.authoritative = c.authoritative /\ next.generation = c.generation
        /\ next.recovery = c.recovery
    BY <2>1, <2>3, <2>6, <2>7 DEF Controllers
  <2>9. InOrder(next)
    BY <2>3, <2>7, <2>8 DEF InOrder
  <2>10. active.version <= c.authoritative.version
    BY <2>1, <2>2
  <2>11. c.authoritative = WatermarkOf(c.authoritative.version)
    BY DEF Sound
  <2>12. Sound(next)
    BY <2>3, <2>7, <2>8, <2>9, <2>10, <2>11 DEF Sound
  <2> QED
    BY <2>8, <2>12 DEF next
<1> QED
  BY <1>1, <1>2

-----------------------------------------------------------------------------
(* What an answer makes of the buffer. *)

LEMMA LastReplayedExists ==
  ASSUME hydration.buffer \subseteq Transitions, NEW version \in 0 .. MaxVersion
  PROVE  /\ LastReplayed(version) \in version .. MaxVersion
         /\ \A v \in (version + 1) .. LastReplayed(version) : v \in BufferedVersions
<1> DEFINE missing == {v \in Nat : version <= v /\ v + 1 \notin BufferedVersions}
<1>1. BufferedVersions \subseteq 1 .. MaxVersion
  BY DEF BufferedVersions, Buffered, Transitions
<1>2. MaxVersion \in missing
  BY <1>1, ClientAssumption
<1>3. PICK last \in missing : \A v \in missing : ~ (<<v, last>> \in OpToRel(<, Nat))
  <2>1. missing \subseteq Nat /\ missing # {}
    BY <1>2
  <2> HIDE DEF missing
  <2> QED
    BY <2>1, NatLessThanWellFounded, WFMin
<1>4. \A v \in missing : last <= v
  <2> SUFFICES ASSUME NEW v \in missing, v < last PROVE FALSE
    OBVIOUS
  <2>1. <<v, last>> \in OpToRel(<, Nat)
    BY DEF OpToRel
  <2> QED
    BY <1>3, <2>1
<1>5. last \in version .. MaxVersion /\ last + 1 \notin BufferedVersions
  BY <1>2, <1>4, ClientAssumption
<1>6. \A v \in (version + 1) .. last : v \in BufferedVersions
  <2> SUFFICES ASSUME NEW v \in (version + 1) .. last, v \notin BufferedVersions
               PROVE  FALSE
    OBVIOUS
  <2>1. v - 1 \in missing /\ v - 1 < last
    BY <1>5
  <2> QED
    BY <1>4, <2>1
<1> QED
  BY <1>5, <1>6 DEF LastReplayed

LEMMA FunctionIsSequence ==
  ASSUME NEW S, NEW n \in Nat, NEW f \in [1 .. n -> S]
  PROVE  f \in Seq(S) /\ Len(f) = n
  OBVIOUS

LEMMA ReplaySound ==
  ASSUME hydration.buffer \subseteq Transitions, NEW version \in 0 .. MaxVersion
  PROVE  LET last == LastReplayed(version)
             c    == ReplayController(version, last)
         IN  /\ last \in Nat
             /\ last # version => BufferedAs(last).snapshot \in Nat
             /\ Sound(c)
             /\ c.recovery = "NONE"
             /\ c.authoritative.last = ToSequence(last)
<1> DEFINE last  == LastReplayed(version)
           c     == ReplayController(version, last)
           start == CreateController(version)
<1>1. /\ version \in Nat /\ last \in Nat /\ version <= last
      /\ \A v \in (version + 1) .. last : v \in BufferedVersions
  BY LastReplayedExists, ClientAssumption
<1>2. \A v \in (version + 1) .. last :
        BufferedAs(v) \in Transitions /\ BufferedAs(v).version = v
  BY <1>1 DEF BufferedVersions, BufferedAs, Buffered
<1>3. Transitions \subseteq Envelopes
  BY ClientAssumption DEF Transitions, Envelopes
<1>4. /\ Sound(start) /\ start \in Controllers /\ start.queue \in Queues
      /\ start.recovery = "NONE" /\ start.generation = 0
      /\ start.authoritative = WatermarkOf(version)
      /\ start.presentation = WatermarkOf(version)
      /\ start.queue.reconciled = WatermarkOf(version)
  <2>1. start \in Controllers
    BY <1>1, CreateSound DEF Sound
  <2>2. start.queue \in Queues
    BY <2>1 DEF Controllers
  <2> QED
    BY <1>1, <2>1, <2>2, CreateSound DEF CreateController, CreateQueue
<1>5. /\ WatermarkOf(version) \in Watermarks /\ WatermarkOf(last) \in Watermarks
      /\ WatermarkOf(version).version = version /\ WatermarkOf(last).version = last
      /\ WatermarkOf(version).last = ToSequence(version)
      /\ WatermarkOf(last).last = ToSequence(last)
  BY <1>1, SequenceTyped
<1>6. CASE last = version
  BY <1>1, <1>4, <1>5, <1>6 DEF ReplayController
<1>7. CASE last # version
  <2> DEFINE first == BufferedAs(version + 1)
             later == [i \in 1 .. (last - version - 1) |-> BufferedAs(version + 1 + i)]
             queue == [start.queue EXCEPT !.active = first, !.queued = later]
  <2>1. version + 1 \in (version + 1) .. last /\ last \in (version + 1) .. last
    BY <1>1, <1>7
  <2>2. first \in Envelopes /\ first.version = version + 1
    BY <1>2, <1>3, <2>1
  <2>3. \A i \in 1 .. (last - version - 1) :
          BufferedAs(version + 1 + i) \in Envelopes
          /\ BufferedAs(version + 1 + i).version = version + 1 + i
    <3> TAKE i \in 1 .. (last - version - 1)
    <3>1. version + 1 + i \in (version + 1) .. last
      BY <1>1
    <3> QED
      BY <1>2, <1>3, <3>1
  <2>4. last - version - 1 \in Nat
    BY <1>1, <1>7
  <2>5. /\ later \in Seq(Envelopes) /\ Len(later) = last - version - 1
        /\ \A i \in 1 .. Len(later) : later[i].version = first.version + i
    <3>1. later \in [1 .. (last - version - 1) -> Envelopes]
      BY <2>3
    <3>2. \A i \in 1 .. (last - version - 1) : later[i].version = first.version + i
      BY <1>1, <2>2, <2>3
    <3> HIDE DEF later, last, first
    <3>3. later \in Seq(Envelopes) /\ Len(later) = last - version - 1
      BY <2>4, <3>1, FunctionIsSequence
    <3> QED
      BY <3>2, <3>3
  <2>6. c = [start EXCEPT !.authoritative = WatermarkOf(last), !.queue = queue]
    BY <1>4, <1>7 DEF ReplayController, Controllers, Queues
  <2>7. BufferedAs(last).snapshot \in Nat
    BY <1>2, <2>1 DEF Transitions
  <2> HIDE DEF first, later, start, c, last
  <2>8. /\ queue \in Queues /\ queue.active = first /\ queue.queued = later
        /\ queue.reconciled = WatermarkOf(version)
    BY <1>4, <2>2, <2>5 DEF Queues
  <2> HIDE DEF queue
  <2>9. /\ c \in Controllers /\ c.queue = queue /\ c.generation = 0 /\ c.recovery = "NONE"
        /\ c.authoritative = WatermarkOf(last) /\ c.presentation = WatermarkOf(version)
    BY <1>4, <1>5, <2>6, <2>8 DEF Controllers
  <2>10. first # NoTransition
    BY <2>2, NoTransitionIsNone
  <2>11. first.version + Len(later) = last
    BY <1>1, <2>2, <2>5
  <2>12. Chained(c.queue, c.authoritative.version)
    BY <1>5, <2>5, <2>8, <2>9, <2>10, <2>11 DEF Chained
  <2>13. InOrder(c)
    BY <1>5, <2>2, <2>8, <2>9, <2>10 DEF InOrder
  <2>14. Sound(c)
    BY <1>1, <1>5, <2>9, <2>12, <2>13 DEF Sound
  <2> QED
    BY <1>1, <1>5, <2>7, <2>9, <2>14 DEF last, c
<1> QED
  BY <1>6, <1>7

-----------------------------------------------------------------------------
(* The page. *)

(* The controller of an answer that waits for React is sound as well, and  *)
(* stands where the match will stand.                                      *)
GoodUpdates ==
  {u \in Updates :
     u.kind = "SYNCED" =>
       /\ Sound(u.controller)
       /\ u.controller.recovery # "NO_CONTROLLER"
       /\ u.controller.authoritative.last = u.last}

ReadyHasController == match.status = "READY" => controller.recovery # "NO_CONTROLLER"

ClientInv ==
  /\ TypeOK
  /\ Sound(controller)
  /\ updates \in Seq(GoodUpdates)
  /\ ReadyHasController
  /\ BoardFollowsMatch

LEMMA GoodAreUpdates == Seq(GoodUpdates) \subseteq Seq(Updates)
<1>1. GoodUpdates \subseteq Updates
  BY DEF GoodUpdates
<1> QED
  BY <1>1, SeqMonotonic

LEMMA UpdatesGood ==
  /\ Update("LOADING") \in GoodUpdates /\ Update("PENDING") \in GoodUpdates
  /\ Update("SETTLED") \in GoodUpdates /\ Update("ERROR") \in GoodUpdates
  /\ \A t \in Envelopes : Received(t) \in GoodUpdates
  /\ \A version \in Nat : Overwrite(version) \in GoodUpdates
  /\ \A token \in [generation : Nat, version : Nat] : Completed(token) \in GoodUpdates
<1>1. \A kind \in {"LOADING", "PENDING", "SETTLED", "ERROR"} : Update(kind) \in GoodUpdates
  BY DEF Update, Updates, GoodUpdates
<1>2. \A t \in Envelopes : Received(t) \in GoodUpdates
  BY DEF Received, Updates, GoodUpdates
<1>3. \A version \in Nat : Overwrite(version) \in GoodUpdates
  BY DEF Overwrite, Updates, GoodUpdates
<1>4. \A token \in [generation : Nat, version : Nat] : Completed(token) \in GoodUpdates
  BY DEF Completed, Updates, GoodUpdates
<1> QED
  BY <1>1, <1>2, <1>3, <1>4

LEMMA SyncedGood ==
  ASSUME NEW c, Sound(c), c.recovery # "NO_CONTROLLER", NEW snapshot \in Nat,
         NEW last \in Nat, c.authoritative.last = last
  PROVE  Synced(c, snapshot, last) \in GoodUpdates
<1>1. c \in Controllers
  BY DEF Sound
<1> QED
  BY <1>1 DEF Synced, Updates, GoodUpdates

(* Queueing updates. *)
Grows == updates' \in Seq(GoodUpdates) /\ (updates # <<>> => updates' # <<>>)

LEMMA QueueGrows ==
  ASSUME updates \in Seq(GoodUpdates), NEW new \in Seq(GoodUpdates), Queue(new)
  PROVE  Grows
<1>1. updates \o new \in Seq(GoodUpdates) /\ (updates # <<>> => updates \o new # <<>>)
  BY ConcatProperties, ConcatSimplifications
<1> QED
  BY <1>1 DEF Grows, Queue

(* A handler changes what its refs hold within their types, and adds       *)
(* updates; match and board stay as they are.                              *)
LEMMA HandlerStep ==
  ASSUME ClientInv, Grows,
         UNCHANGED <<match, controller, rendering, overwritten>>,
         committed' \in 0 .. MaxVersion, matchRef' \in Matches, watermark' \in Watermarks,
         hydration' \in Buffers, sync' \in Syncs, command' \in Commands, ackTimer' \in Nat
  PROVE  ClientInv'
<1>1. updates' \in Seq(GoodUpdates) /\ updates' \in Seq(Updates)
  BY GoodAreUpdates DEF Grows
<1>2. TypeOK'
  BY <1>1 DEF ClientInv, TypeOK, Grows
<1>3. Sound(controller')
  BY DEF ClientInv
<1>4. ReadyHasController' /\ BoardFollowsMatch'
  BY DEF ClientInv, ReadyHasController, BoardFollowsMatch
<1> QED
  BY <1>1, <1>2, <1>3, <1>4 DEF ClientInv

LEMMA RunTyped ==
  ASSUME ClientInv, NEW initial \in BOOLEAN, NEW retries \in 0 .. StartupRetries
  PROVE  Run(initial, retries) \in Syncs
  BY DEF ClientInv, TypeOK, Run, Syncs

LEMMA RefsAreTyped == NoSync \in Syncs /\ NoCommand \in Commands /\ NoBuffer \in Buffers
                      /\ [on |-> TRUE, buffer |-> {}] \in Buffers
  BY ClientAssumption DEF NoSync, Syncs, NoCommand, Commands, NoBuffer, Buffers

LEMMA SyncMatchStep ==
  ASSUME ClientInv, NEW initial \in BOOLEAN, NEW before \in Seq(GoodUpdates),
         SyncMatch(initial, before)
  PROVE  sync' \in Syncs /\ hydration' \in Buffers /\ Grows
<1>1. updates \in Seq(GoodUpdates) /\ sync \in Syncs /\ hydration \in Buffers
  BY DEF ClientInv, TypeOK
<1>2. CASE sync.running
  <2>1. sync' = [sync EXCEPT !.again = sync.again \/ ~ initial]
        /\ Queue(before) /\ hydration' = hydration
    BY <1>2 DEF SyncMatch
  <2>2. sync' \in Syncs
    BY <1>1, <1>2, <2>1 DEF Syncs, NoSync
  <2> QED
    BY <1>1, <2>1, <2>2, QueueGrows
<1>3. CASE ~ sync.running
  <2>1. /\ sync' = Run(initial, 0)
        /\ hydration' = hydration \/ hydration' = [on |-> TRUE, buffer |-> {}]
        /\ Queue(before \o <<Update("LOADING")>>)
    BY <1>3 DEF SyncMatch
  <2>2. Run(initial, 0) \in Syncs
    <3>1. 0 \in 0 .. StartupRetries
      BY ClientAssumption
    <3> QED
      BY <3>1, RunTyped
  <2>6. hydration' \in Buffers
    BY <1>1, <2>1, RefsAreTyped
  <2>3. <<Update("LOADING")>> \in Seq(GoodUpdates)
    BY UpdatesGood
  <2>4. before \o <<Update("LOADING")>> \in Seq(GoodUpdates)
    BY <2>3, ConcatProperties
  <2> QED
    BY <1>1, <2>1, <2>2, <2>4, <2>6, QueueGrows
<1> QED
  BY <1>2, <1>3

LEMMA EndRunStep ==
  ASSUME ClientInv, NEW again \in BOOLEAN, NEW before \in Seq(GoodUpdates),
         EndRun(again, before)
  PROVE  sync' \in Syncs /\ command' \in Commands /\ Grows
<1>1. updates \in Seq(GoodUpdates) /\ command \in Commands
  BY DEF ClientInv, TypeOK
<1>2. Run(FALSE, 0) \in Syncs
  <2>1. 0 \in 0 .. StartupRetries
    BY ClientAssumption
  <2> QED
    BY <2>1, RunTyped
<1>3. sync' \in Syncs /\ command' \in Commands
  BY <1>1, <1>2, RefsAreTyped DEF EndRun
<1>4. Grows
  <2> DEFINE after == IF again THEN <<Update("LOADING")>> ELSE <<>>
  <2>1. after \in Seq(GoodUpdates)
    BY UpdatesGood
  <2>2. before \o after \in Seq(GoodUpdates)
    BY <2>1, ConcatProperties
  <2>3. Queue(before \o after)
    BY DEF EndRun
  <2> QED
    BY <1>1, <2>2, <2>3, QueueGrows
<1> QED
  BY <1>3, <1>4

LEMMA AdvanceTyped ==
  ASSUME NEW m \in Matches, NEW t \in Envelopes
  PROVE  Advance(m, t) \in Matches
<1>1. ToSequence(t.version) \in Nat /\ t.snapshot \in Nat
  BY SequenceTyped DEF Envelopes
<1> QED
  BY <1>1 DEF Advance, Match, Matches

LEMMA NextRefTyped ==
  ASSUME matchRef \in Matches, NEW t \in Envelopes
  PROVE  NextRef(t) \in Matches
  BY AdvanceTyped DEF NextRef

LEMMA InitialIsBoolean == \A m : IsInitial(m) \in BOOLEAN
  BY DEF IsInitial

LEMMA TransitionsAreEnvelopes == Transitions \subseteq Envelopes
  BY ClientAssumption DEF Transitions, Envelopes

LEMMA ReceiveStep ==
  ASSUME ClientInv, NEW t \in Transitions, Receive(t)
  PROVE  ClientInv'
<1>1. /\ t \in Envelopes /\ updates \in Seq(GoodUpdates) /\ matchRef \in Matches
      /\ committed \in 0 .. MaxVersion /\ watermark \in Watermarks /\ hydration \in Buffers
      /\ sync \in Syncs /\ command \in Commands
  BY TransitionsAreEnvelopes DEF ClientInv, TypeOK
<1>2. CASE hydration.on
  <2>1. hydration' = [hydration EXCEPT !.buffer =
               IF \E b \in hydration.buffer : b.version = t.version THEN hydration.buffer
               ELSE hydration.buffer \union {t}]
    BY <1>2 DEF Receive
  <2>2. hydration' \in Buffers
    BY <1>1, <1>2, <2>1 DEF Buffers
  <2>3. Grows
    BY <1>1, <1>2 DEF Receive, Grows
  <2>4. ackTimer' = 0 /\ matchRef' = matchRef
        /\ UNCHANGED <<committed, match, watermark, controller, sync, command, rendering,
                       overwritten>>
    BY <1>2 DEF Receive
  <2> QED
    BY <1>1, <2>2, <2>3, <2>4, HandlerStep
<1>3. CASE ~ hydration.on
  <2>1. /\ ackTimer' = 0 /\ matchRef' = NextRef(t) /\ hydration' = hydration
        /\ Queue(<<Received(t)>>)
        /\ UNCHANGED <<committed, match, watermark, controller, sync, command, rendering,
                       overwritten>>
    BY <1>3 DEF Receive
  <2>2. <<Received(t)>> \in Seq(GoodUpdates)
    BY <1>1, UpdatesGood
  <2>3. Grows
    BY <1>1, <2>1, <2>2, QueueGrows
  <2>4. matchRef' \in Matches
    BY <1>1, <2>1, NextRefTyped
  <2> QED
    BY <1>1, <2>1, <2>3, <2>4, HandlerStep
<1> QED
  BY <1>2, <1>3

LEMMA AnswerStep ==
  ASSUME ClientInv, NEW version \in 0 .. MaxVersion, SyncAnswered(version)
  PROVE  ClientInv'
<1> DEFINE last     == LastReplayed(version)
           snapshot == IF last = version THEN version ELSE BufferedAs(last).snapshot
           c        == ReplayController(version, last)
           missing  == \E v \in BufferedVersions : v > last
           update   == Synced(c, snapshot, ToSequence(last))
<1>1. /\ updates \in Seq(GoodUpdates) /\ matchRef \in Matches
      /\ committed \in 0 .. MaxVersion /\ watermark \in Watermarks /\ hydration \in Buffers
      /\ sync \in Syncs /\ ackTimer \in Nat /\ version \in Nat
      /\ hydration.buffer \subseteq Transitions /\ sync.again \in BOOLEAN
  BY ClientAssumption DEF ClientInv, TypeOK, Buffers, Syncs
<1>2. /\ last \in Nat /\ snapshot \in Nat
      /\ Sound(c) /\ c.recovery = "NONE" /\ c.authoritative.last = ToSequence(last)
  BY <1>1, ReplaySound
<1>3. ToSequence(last) \in Nat /\ Watermark(snapshot, ToSequence(last)) \in Watermarks
  BY <1>2, SequenceTyped DEF Watermark, Watermarks
<1>4. update \in GoodUpdates
  <2> HIDE DEF c, snapshot, last
  <2> QED
    BY <1>2, <1>3, SyncedGood
<1>5. /\ hydration' = IF sync.initial THEN NoBuffer ELSE hydration
      /\ UNCHANGED <<committed, match, matchRef, controller, ackTimer, rendering, overwritten>>
  BY DEF SyncAnswered
<1>6. hydration' \in Buffers
  BY <1>1, <1>5, RefsAreTyped
<1>7. watermark' \in Watermarks /\ sync' \in Syncs /\ command' \in Commands /\ Grows
  <2>1. CASE IsOutdated(version)
    <3>1. EndRun(sync.again, <<>>) /\ watermark' = watermark
      BY <2>1 DEF SyncAnswered
    <3>2. <<>> \in Seq(GoodUpdates)
      OBVIOUS
    <3> QED
      BY <1>1, <3>1, <3>2, EndRunStep
  <2>2. CASE ~ IsOutdated(version)
    <3>1. /\ watermark' = Watermark(snapshot, ToSequence(last))
          /\ EndRun(sync.again \/ (missing /\ version # 0), <<update>>)
      BY <2>2 DEF SyncAnswered
    <3> HIDE DEF update, snapshot, last, missing
    <3>2. <<update>> \in Seq(GoodUpdates)
      BY <1>4
    <3>3. (sync.again \/ (missing /\ version # 0)) \in BOOLEAN
      OBVIOUS
    <3> QED
      BY <1>3, <3>1, <3>2, <3>3, EndRunStep
  <2> QED
    BY <2>1, <2>2
<1> QED
  BY <1>1, <1>5, <1>6, <1>7, HandlerStep

LEMMA SyncFailsStep ==
  ASSUME ClientInv, SyncFails
  PROVE  ClientInv'
<1>1. /\ updates \in Seq(GoodUpdates) /\ matchRef \in Matches
      /\ committed \in 0 .. MaxVersion /\ watermark \in Watermarks /\ hydration \in Buffers
      /\ sync \in Syncs /\ sync.again \in BOOLEAN /\ command \in Commands /\ ackTimer \in Nat
  BY DEF ClientInv, TypeOK, Syncs
<1>2. UNCHANGED <<committed, match, matchRef, watermark, controller, hydration, ackTimer,
                  rendering, overwritten>>
  BY DEF SyncFails
<1>3. CASE sync.retries > 0
  <2>1. /\ sync' = [sync EXCEPT !.retries = sync.retries - 1, !.asked = committed]
        /\ command' = command /\ updates' = updates /\ sync.running
    BY <1>3 DEF SyncFails
  <2>2. sync' \in Syncs
    <3> DEFINE S == [running : BOOLEAN, initial : BOOLEAN, asked : 0 .. MaxVersion,
                     retries : 0 .. StartupRetries, again : BOOLEAN]
    <3>1. sync \in S /\ sync.running = TRUE /\ sync.retries \in 0 .. StartupRetries
      BY <1>1, <2>1 DEF Syncs
    <3>2. sync.retries - 1 \in 0 .. StartupRetries
      BY <1>3, <3>1, ClientAssumption
    <3>3. sync' \in S /\ sync'.running = TRUE
      BY <1>1, <2>1, <3>1, <3>2
    <3> QED
      BY <3>3 DEF Syncs
  <2>3. Grows
    BY <1>1, <2>1 DEF Grows
  <2> QED
    BY <1>1, <1>2, <2>1, <2>2, <2>3, HandlerStep
<1>4. CASE ~ (sync.retries > 0)
  <2>1. EndRun(sync.again, <<Update("ERROR")>>)
    BY <1>4 DEF SyncFails
  <2>2. <<Update("ERROR")>> \in Seq(GoodUpdates)
    BY UpdatesGood
  <2>3. sync' \in Syncs /\ command' \in Commands /\ Grows
    BY <1>1, <2>1, <2>2, EndRunStep
  <2> QED
    BY <1>1, <1>2, <2>3, HandlerStep
<1> QED
  BY <1>3, <1>4

(* Handlers that only ask for a synchronisation, if anything.              *)
LEMMA AskStep ==
  ASSUME ClientInv, NEW before \in Seq(GoodUpdates), NEW initial \in BOOLEAN,
         SyncMatch(initial, before),
         command' \in Commands, ackTimer' \in Nat,
         UNCHANGED <<committed, match, matchRef, watermark, controller, rendering, overwritten>>
  PROVE  ClientInv'
<1>1. committed \in 0 .. MaxVersion /\ matchRef \in Matches /\ watermark \in Watermarks
  BY DEF ClientInv, TypeOK
<1>2. sync' \in Syncs /\ hydration' \in Buffers /\ Grows
  BY SyncMatchStep
<1> QED
  BY <1>1, <1>2, HandlerStep

LEMMA TimeoutStep ==
  ASSUME ClientInv, OpponentTimeout \/ AckTimeout
  PROVE  ClientInv'
<1>1. /\ updates \in Seq(GoodUpdates) /\ matchRef \in Matches /\ IsInitial(match) \in BOOLEAN
      /\ committed \in 0 .. MaxVersion /\ watermark \in Watermarks /\ hydration \in Buffers
      /\ sync \in Syncs /\ command \in Commands /\ ackTimer \in Nat /\ <<>> \in Seq(GoodUpdates)
  BY InitialIsBoolean DEF ClientInv, TypeOK
<1>2. CASE OpponentTimeout
  <2>1. /\ SyncMatch(IsInitial(match), <<>>) /\ command' = command /\ ackTimer' = ackTimer
        /\ UNCHANGED <<committed, match, matchRef, watermark, controller, rendering, overwritten>>
    BY <1>2 DEF OpponentTimeout
  <2> QED
    BY <1>1, <2>1, AskStep
<1>3. CASE AckTimeout
  <2>1. /\ ackTimer' = 0 /\ command' = command
        /\ UNCHANGED <<committed, match, matchRef, watermark, controller, rendering, overwritten>>
        /\ SyncMatch(IsInitial(match), <<>>) \/ UNCHANGED <<sync, hydration, updates>>
    BY <1>3 DEF AckTimeout
  <2>2. CASE SyncMatch(IsInitial(match), <<>>)
    BY <1>1, <2>1, <2>2, AskStep
  <2>3. CASE UNCHANGED <<sync, hydration, updates>>
    <3>1. Grows
      BY <1>1, <2>3 DEF Grows
    <3> QED
      BY <1>1, <2>1, <2>3, <3>1, HandlerStep
  <2> QED
    BY <2>1, <2>2, <2>3
<1> QED
  BY <1>2, <1>3

LEMMA CommandMoves ==
  ASSUME NEW c \in Commands, NEW version \in Nat
  PROVE  /\ [c EXCEPT !.stage = "ACCEPTED", !.version = version + 1] \in Commands
         /\ [c EXCEPT !.stage = "STALE", !.version = version] \in Commands
         /\ [c EXCEPT !.stage = "AWAITING"] \in Commands
         /\ [c EXCEPT !.stage = "SENT", !.retry = TRUE] \in Commands
<1> DEFINE S == [stage : {"NONE", "SENT", "ACCEPTED", "STALE", "AWAITING"}, version : Nat,
                 initial : BOOLEAN, surrender : BOOLEAN, retry : BOOLEAN]
<1>1. c \in S /\ version + 1 \in Nat /\ version + 1 # 0
  BY DEF Commands
<1>2. [c EXCEPT !.stage = "ACCEPTED", !.version = version + 1] \in Commands
  BY <1>1 DEF Commands
<1>3. [c EXCEPT !.stage = "STALE", !.version = version] \in Commands
  BY <1>1 DEF Commands
<1>4. [c EXCEPT !.stage = "AWAITING"] \in Commands
  BY <1>1 DEF Commands
<1>5. [c EXCEPT !.stage = "SENT", !.retry = TRUE] \in Commands
  BY <1>1 DEF Commands
<1> QED
  BY <1>2, <1>3, <1>4, <1>5

LEMMA CommandStep ==
  ASSUME ClientInv,
         OthersCommit \/ Decide \/ (\E surrender \in BOOLEAN : SubmitAction(surrender)) \/ Ack
  PROVE  ClientInv'
<1>1. /\ updates \in Seq(GoodUpdates) /\ matchRef \in Matches
      /\ committed \in 0 .. MaxVersion /\ committed \in Nat
      /\ watermark \in Watermarks /\ hydration \in Buffers
      /\ sync \in Syncs /\ command \in Commands /\ ackTimer \in Nat
      /\ command.version \in Nat /\ command.initial \in BOOLEAN /\ matchRef.version \in Nat
      /\ IsInitial(matchRef) \in BOOLEAN
  BY ClientAssumption, InitialIsBoolean DEF ClientInv, TypeOK, Commands, Matches
<1>2. \A k \in {"PENDING", "SETTLED"} : <<Update(k)>> \in Seq(GoodUpdates)
  BY UpdatesGood
<1>3. CASE OthersCommit
  <2>1. /\ committed' \in 0 .. MaxVersion
        /\ UNCHANGED <<match, controller, matchRef, watermark, hydration, sync, command,
                       ackTimer, updates, rendering, overwritten>>
    BY <1>1, <1>3, ClientAssumption DEF OthersCommit, refs
  <2>2. Grows
    BY <1>1, <2>1 DEF Grows
  <2> QED
    BY <1>1, <2>1, <2>2, HandlerStep
<1>4. CASE Decide
  <2>1. /\ committed' \in 0 .. MaxVersion
        /\ UNCHANGED <<match, matchRef, watermark, controller, hydration, sync, ackTimer, updates,
                       rendering, overwritten>>
    BY <1>1, <1>4, ClientAssumption DEF Decide
  <2>2. \/ command' = [command EXCEPT !.stage = "ACCEPTED", !.version = committed + 1]
        \/ command' = [command EXCEPT !.stage = "STALE", !.version = committed]
    BY <1>4 DEF Decide
  <2>3. command' \in Commands
    BY <1>1, <2>2, CommandMoves
  <2>4. Grows
    BY <1>1, <2>1 DEF Grows
  <2> QED
    BY <1>1, <2>1, <2>3, <2>4, HandlerStep
<1>5. ASSUME NEW surrender \in BOOLEAN, SubmitAction(surrender)
      PROVE  ClientInv'
  <2>1. /\ command' = [stage |-> "SENT", version |-> matchRef.version,
                       initial |-> IsInitial(matchRef), surrender |-> surrender, retry |-> FALSE]
        /\ Queue(<<Update("PENDING")>>)
        /\ UNCHANGED <<committed, match, matchRef, watermark, controller, hydration, sync,
                       ackTimer, rendering, overwritten>>
    BY <1>5 DEF SubmitAction
  <2>2. command' \in Commands
    BY <1>1, <2>1 DEF Commands
  <2>3. Grows
    BY <1>1, <1>2, <2>1, QueueGrows
  <2> QED
    BY <1>1, <2>1, <2>2, <2>3, HandlerStep
<1>6. CASE AckAccepted
  <2> DEFINE t == [version |-> command.version, snapshot |-> command.version]
  <2>1. /\ Queue(<<Update("SETTLED"), Received(t)>>)
        /\ matchRef' = NextRef(t) /\ command' = NoCommand
        /\ ackTimer' = IF command.retry THEN ackTimer ELSE ToSequence(command.version)
        /\ UNCHANGED <<committed, match, watermark, controller, hydration, sync, rendering,
                       overwritten>>
        /\ command.stage = "ACCEPTED"
    BY <1>6 DEF AckAccepted
  <2>2. ackTimer' \in Nat /\ command' \in Commands
    BY <1>1, <2>1, SequenceTyped, RefsAreTyped
  <2>3. t \in Envelopes
    BY <1>1, <2>1 DEF Commands, Envelopes
  <2> HIDE DEF t
  <2>4. matchRef' \in Matches
    BY <1>1, <2>1, <2>3, NextRefTyped
  <2>5. <<Update("SETTLED"), Received(t)>> \in Seq(GoodUpdates)
    BY <2>3, UpdatesGood
  <2>6. Grows
    BY <1>1, <2>1, <2>5, QueueGrows
  <2> QED
    BY <1>1, <2>1, <2>2, <2>4, <2>6, HandlerStep
<1>7. CASE AckRefused
  <2>1. /\ Queue(<<Update("SETTLED")>>) /\ command' = NoCommand
        /\ UNCHANGED <<committed, match, matchRef, watermark, controller, hydration, sync,
                       ackTimer, rendering, overwritten>>
    BY <1>7 DEF AckRefused
  <2>2. Grows
    BY <1>1, <1>2, <2>1, QueueGrows
  <2> QED
    BY <1>1, <2>1, <2>2, RefsAreTyped, HandlerStep
<1>8. CASE AckStale
  <2>1. /\ SyncMatch(command.initial, <<Update("SETTLED")>>)
        /\ command' = [command EXCEPT !.stage = "AWAITING"]
        /\ UNCHANGED <<committed, match, matchRef, watermark, controller, ackTimer, rendering,
                       overwritten>>
    BY <1>8 DEF AckStale
  <2>2. command' \in Commands
    BY <1>1, <2>1, CommandMoves
  <2> QED
    BY <1>1, <1>2, <2>1, <2>2, AskStep
<1>9. CASE SurrenderAgain
  <2>1. /\ watermark' = WatermarkOf(command.version)
        /\ Queue(<<Overwrite(command.version)>>)
        /\ command' = [command EXCEPT !.stage = "SENT", !.retry = TRUE]
        /\ UNCHANGED <<committed, match, matchRef, controller, hydration, sync, ackTimer,
                       rendering, overwritten>>
    BY <1>9 DEF SurrenderAgain
  <2>2. command' \in Commands /\ watermark' \in Watermarks
    BY <1>1, <2>1, CommandMoves, SequenceTyped
  <2>3. <<Overwrite(command.version)>> \in Seq(GoodUpdates)
    BY <1>1, UpdatesGood
  <2>4. Grows
    BY <1>1, <2>1, <2>3, QueueGrows
  <2> QED
    BY <1>1, <2>1, <2>2, <2>4, HandlerStep
<1> QED
  BY <1>3, <1>4, <1>5, <1>6, <1>7, <1>8, <1>9 DEF Ack

LEMMA AnimationStep ==
  ASSUME ClientInv, AnimationEnds
  PROVE  ClientInv'
<1>1. /\ updates \in Seq(GoodUpdates) /\ controller.generation \in Nat
      /\ controller.queue.active \in Envelopes \union {NoTransition}
  BY DEF ClientInv, TypeOK, Controllers, Queues
<1>2. Token(controller) \in [generation : Nat, version : Nat]
  BY <1>1 DEF Token, Envelopes, NoTransition
<1>3. /\ Queue(<<Completed(Token(controller))>>)
      /\ UNCHANGED <<committed, match, controller, matchRef, watermark, hydration, sync, command,
                     ackTimer, rendering, overwritten>>
  BY DEF AnimationEnds, refs
<1>4. <<Completed(Token(controller))>> \in Seq(GoodUpdates)
  BY <1>2, UpdatesGood
<1>5. Grows
  BY <1>1, <1>3, <1>4, QueueGrows
<1> QED
  BY <1>3, <1>5, HandlerStep DEF ClientInv, TypeOK

LEMMA RenderKeeps ==
  ASSUME ClientInv, updates' \in Seq(GoodUpdates), match' \in Matches, Sound(controller'),
         watermark' \in Watermarks, hydration' \in Buffers, sync' \in Syncs,
         overwritten' \in BOOLEAN, matchRef' = match', rendering' = (updates' # <<>>),
         UNCHANGED <<committed, command, ackTimer>>,
         match'.status = "READY" => controller'.recovery # "NO_CONTROLLER",
         match'.status = "READY" /\ controller'.generation = 0 /\ ~ overwritten' =>
           controller'.authoritative.last = match'.last
  PROVE  ClientInv'
<1>1. updates' \in Seq(Updates)
  BY GoodAreUpdates
<1>2. controller' \in Controllers
  BY DEF Sound
<1>3. TypeOK'
  BY <1>1, <1>2 DEF ClientInv, TypeOK
<1> QED
  BY <1>3 DEF ClientInv, ReadyHasController, BoardFollowsMatch

(* An update of the match alone makes it READY or another version never.   *)
LEMMA OnMatchTyped ==
  ASSUME match \in Matches, NEW update, RunOnMatch(update)
  PROVE  /\ match' \in Matches
         /\ match'.status = "READY" => match.status = "READY" /\ match'.last = match.last
<1>1. \A pending \in BOOLEAN :
        /\ Busy(pending) \in Matches
        /\ Busy(pending).status = match.status
        /\ Busy(pending).last = match.last
  BY DEF Busy, Matches
<1>2. Match("LOADING", 0, 0, FALSE) \in Matches /\ Match("ERROR", 0, 0, FALSE) \in Matches
  BY DEF Match, Matches
<1>3. Match("LOADING", 0, 0, FALSE).status # "READY" /\ Match("ERROR", 0, 0, FALSE).status # "READY"
  BY DEF Match
<1>4. \/ match' = Busy(TRUE) /\ TRUE \in BOOLEAN
      \/ match' = Busy(FALSE) /\ FALSE \in BOOLEAN
      \/ match' = Match("LOADING", 0, 0, FALSE)
      \/ match' = Match("ERROR", 0, 0, FALSE)
  BY DEF RunOnMatch, Loading
<1> QED
  BY <1>1, <1>2, <1>3, <1>4

(* The board accepts a transition exactly when the match does.             *)
LEMMA FollowSound ==
  ASSUME ClientInv, NEW t \in Envelopes
  PROVE  /\ Sound(Follow(t))
         /\ controller.recovery # "NO_CONTROLLER" => Follow(t).recovery # "NO_CONTROLLER"
         /\ match.status = "READY" /\ Follow(t).generation = 0 /\ ~ overwritten =>
              Follow(t).authoritative.last =
                IF Extends(match, t) THEN ToSequence(t.version) ELSE match.last
<1>1. Sound(controller) /\ controller.authoritative.version \in Nat /\ t.version \in Nat \ {0}
  BY DEF ClientInv, Sound, Controllers, Watermarks, Envelopes
<1>2. controller = NoController => controller.recovery = "NO_CONTROLLER"
  BY DEF NoController
<1>3. CASE controller = NoController
  BY <1>1, <1>2, <1>3 DEF Follow, ClientInv, ReadyHasController
<1>4. CASE controller # NoController
  <2> DEFINE next == AcceptTransition(controller, t)
  <2>1. Follow(t) = next
    BY <1>4 DEF Follow
  <2>2. /\ Sound(next)
        /\ controller.recovery # "NO_CONTROLLER" => next.recovery # "NO_CONTROLLER"
        /\ next.generation = 0 =>
             /\ controller.generation = 0
             /\ next.authoritative.version =
                  IF t.version = controller.authoritative.version + 1 THEN t.version
                  ELSE controller.authoritative.version
    BY <1>1, AcceptSound
  <2> HIDE DEF next
  <2>3. ASSUME match.status = "READY", next.generation = 0, ~ overwritten
        PROVE  next.authoritative.last =
                 IF Extends(match, t) THEN ToSequence(t.version) ELSE match.last
    <3>1. /\ controller.authoritative = WatermarkOf(controller.authoritative.version)
          /\ next.authoritative = WatermarkOf(next.authoritative.version)
      BY <1>1, <2>2 DEF Sound
    <3>2. /\ controller.authoritative.last = ToSequence(controller.authoritative.version)
          /\ match.last = ToSequence(controller.authoritative.version)
      BY <1>1, <2>2, <2>3, <3>1, SequenceTyped DEF ClientInv, BoardFollowsMatch
    <3>3. Extends(match, t) <=> t.version = controller.authoritative.version + 1
      BY <1>1, <2>3, <3>2, FromOrder DEF Extends
    <3>4. CASE Extends(match, t)
      <4>1. next.authoritative = WatermarkOf(t.version)
        BY <2>2, <2>3, <3>1, <3>3, <3>4
      <4> QED
        BY <1>1, <3>4, <4>1, SequenceTyped
    <3>5. CASE ~ Extends(match, t)
      <4>1. next.authoritative = controller.authoritative
        BY <2>2, <2>3, <3>1, <3>3, <3>5
      <4> QED
        BY <3>2, <3>5, <4>1
    <3> QED
      BY <3>4, <3>5
  <2> QED
    BY <2>1, <2>2, <2>3
<1> QED
  BY <1>3, <1>4

LEMMA RenderStep ==
  ASSUME ClientInv, Render
  PROVE  ClientInv'
<1> DEFINE update == Head(updates)
<1>1. /\ updates \in Seq(GoodUpdates) /\ updates # <<>> /\ match \in Matches
      /\ watermark \in Watermarks /\ hydration \in Buffers /\ sync \in Syncs
      /\ overwritten \in BOOLEAN
      /\ Sound(controller)
      /\ match.status = "READY" => controller.recovery # "NO_CONTROLLER"
      /\ match.status = "READY" /\ controller.generation = 0 /\ ~ overwritten =>
           controller.authoritative.last = match.last
  BY DEF ClientInv, TypeOK, ReadyHasController, BoardFollowsMatch, Render
<1>2. update \in GoodUpdates /\ Tail(updates) \in Seq(GoodUpdates)
  BY <1>1, HeadTailProperties
<1>3. matchRef' = match' /\ rendering' = (updates' # <<>>)
      /\ UNCHANGED <<committed, command, ackTimer>>
  BY DEF Render
<1> HIDE DEF update
<1>4. CASE RunOnMatch(update)
  <2>1. /\ updates' = Tail(updates)
        /\ UNCHANGED <<controller, watermark, hydration, sync, overwritten>>
    BY <1>4 DEF RunOnMatch
  <2>2. /\ match' \in Matches
        /\ match'.status = "READY" => match.status = "READY" /\ match'.last = match.last
    BY <1>1, <1>4, OnMatchTyped
  <2> QED
    BY <1>1, <1>2, <1>3, <2>1, <2>2, RenderKeeps
<1>5. CASE update.kind = "OVERWRITE" /\ RunOverwrite(update)
  <2>1. /\ updates' = Tail(updates)
        /\ UNCHANGED <<controller, watermark, hydration, sync>>
        /\ IF match.status = "READY"
           THEN /\ match' = Match("READY", update.version, ToSequence(update.version), TRUE)
                /\ overwritten' = TRUE
           ELSE UNCHANGED <<match, overwritten>>
    BY <1>5 DEF RunOverwrite
  <2>2. update.version \in Nat
    BY <1>2, <1>5 DEF GoodUpdates, Updates
  <2>3. Match("READY", update.version, ToSequence(update.version), TRUE) \in Matches
    BY <2>2, SequenceTyped DEF Match, Matches
  <2> QED
    BY <1>1, <1>2, <1>3, <2>1, <2>3, RenderKeeps
<1>6. CASE update.kind = "SYNCED" /\ RunSynced(update)
  <2>1. /\ updates' = Tail(updates)
        /\ UNCHANGED <<watermark, hydration, sync>>
        /\ match' = Match("READY", update.snapshot, update.last, FALSE)
        /\ controller' = update.controller /\ overwritten' = FALSE
    BY <1>6 DEF RunSynced
  <2>2. /\ update.snapshot \in Nat /\ update.last \in Nat
        /\ Sound(update.controller) /\ update.controller.recovery # "NO_CONTROLLER"
        /\ update.controller.authoritative.last = update.last
    BY <1>2, <1>6 DEF GoodUpdates, Updates
  <2>3. match' \in Matches /\ match'.last = update.last
    BY <2>1, <2>2 DEF Match, Matches
  <2> QED
    BY <1>1, <1>2, <1>3, <2>1, <2>2, <2>3, RenderKeeps
<1>7. CASE update.kind = "COMPLETED" /\ RunCompleted(update)
  <2>1. /\ updates' = Tail(updates)
        /\ UNCHANGED <<match, watermark, hydration, sync, overwritten>>
        /\ controller' = CompletePresentation(controller, update.token)
    BY <1>7 DEF RunCompleted
  <2>2. /\ Sound(controller')
        /\ controller'.generation = controller.generation
        /\ controller'.authoritative = controller.authoritative
        /\ controller'.recovery = controller.recovery
    BY <1>1, <2>1, CompleteSound
  <2> QED
    BY <1>1, <1>2, <1>3, <2>1, <2>2, RenderKeeps
<1>8. CASE update.kind = "TRANSITION" /\ RunTransition(update.transition)
  <2> DEFINE t == update.transition
  <2>1. t \in Envelopes
    BY <1>2, <1>8 DEF GoodUpdates, Updates
  <2>2. /\ controller' = Follow(t) /\ overwritten' = overwritten
        /\ IF Extends(match, t)
           THEN /\ match' = Advance(match, t)
                /\ watermark' = Watermark(t.snapshot, ToSequence(t.version))
           ELSE UNCHANGED <<match, watermark>>
    BY <1>8 DEF RunTransition
  <2>3. IF MatchMisses(t) /\ ~ sync.running
        THEN /\ sync' = Run(IsInitial(match), 0)
             /\ hydration' = IF IsInitial(match) THEN [on |-> TRUE, buffer |-> {}] ELSE hydration
             /\ updates' = Append(Tail(updates), Update("LOADING"))
        ELSE /\ sync' = IF MatchMisses(t) /\ ~ IsInitial(match)
                        THEN [sync EXCEPT !.again = TRUE] ELSE sync
             /\ updates' = Tail(updates)
             /\ UNCHANGED hydration
    BY <1>8 DEF RunTransition
  <2>4. sync' \in Syncs /\ hydration' \in Buffers /\ updates' \in Seq(GoodUpdates)
    <3>1. Run(IsInitial(match), 0) \in Syncs
      <4>1. 0 \in 0 .. StartupRetries
        BY ClientAssumption
      <4> QED
        BY <4>1, InitialIsBoolean, RunTyped
    <3>2. Append(Tail(updates), Update("LOADING")) \in Seq(GoodUpdates)
      BY <1>2, UpdatesGood
    <3>3. sync.running => [sync EXCEPT !.again = TRUE] \in Syncs
      BY <1>1 DEF Syncs
    <3> QED
      BY <1>1, <1>2, <2>3, <3>1, <3>2, <3>3, RefsAreTyped
  <2>5. /\ t.snapshot \in Nat /\ ToSequence(t.version) \in Nat
        /\ Watermark(t.snapshot, ToSequence(t.version)) \in Watermarks
    BY <2>1, SequenceTyped DEF Envelopes, Watermark, Watermarks
  <2>6. match' \in Matches /\ watermark' \in Watermarks
    BY <1>1, <2>1, <2>2, <2>5, AdvanceTyped
  <2>7. match'.status = "READY" =>
          /\ match.status = "READY"
          /\ match'.last = IF Extends(match, t) THEN ToSequence(t.version) ELSE match.last
    BY <2>2 DEF Advance, Match, Extends
  <2>8. /\ Sound(controller')
        /\ controller.recovery # "NO_CONTROLLER" => controller'.recovery # "NO_CONTROLLER"
        /\ match.status = "READY" /\ controller'.generation = 0 /\ ~ overwritten =>
             controller'.authoritative.last =
               IF Extends(match, t) THEN ToSequence(t.version) ELSE match.last
    BY <2>1, <2>2, FollowSound
  <2> QED
    BY <1>1, <1>3, <2>2, <2>4, <2>6, <2>7, <2>8, RenderKeeps
<1> QED
  BY <1>4, <1>5, <1>6, <1>7, <1>8 DEF Render, update

-----------------------------------------------------------------------------
(* Theorems. *)

LEMMA InitClient == Init => ClientInv
<1> SUFFICES ASSUME Init PROVE ClientInv
  OBVIOUS
<1>1. /\ match = Match("IDLE", 0, 0, FALSE) /\ matchRef = match /\ committed \in 0 .. MaxVersion
      /\ watermark = NoWatermark /\ controller = NoController
      /\ hydration = [on |-> TRUE, buffer |-> {}] /\ sync = Run(TRUE, StartupRetries)
      /\ command = NoCommand /\ ackTimer = 0 /\ updates = <<Update("LOADING")>>
      /\ rendering = FALSE /\ overwritten = FALSE
  BY DEF Init
<1>2. match \in Matches /\ match.status = "IDLE"
  BY <1>1 DEF Match, Matches
<1>3. watermark \in Watermarks
  BY <1>1 DEF NoWatermark, Watermark, Watermarks
<1>4. sync \in Syncs
  BY <1>1, ClientAssumption DEF Run, Syncs
<1>5. hydration \in Buffers /\ command \in Commands
  BY <1>1, RefsAreTyped
<1>6. updates \in Seq(GoodUpdates)
  BY <1>1, UpdatesGood
<1>7. updates \in Seq(Updates)
  BY <1>6, GoodAreUpdates
<1>8. Sound(controller)
  BY <1>1, NoControllerSound
<1>9. controller \in Controllers
  BY <1>8 DEF Sound
<1>10. TypeOK
  BY <1>1, <1>2, <1>3, <1>4, <1>5, <1>7, <1>9 DEF TypeOK
<1> QED
  BY <1>2, <1>6, <1>8, <1>10 DEF ClientInv, ReadyHasController, BoardFollowsMatch

LEMMA NextClient == ClientInv /\ [Next]_vars => ClientInv'
<1> SUFFICES ASSUME ClientInv, [Next]_vars PROVE ClientInv'
  OBVIOUS
<1>1. ASSUME NEW t \in Transitions, Receive(t) PROVE ClientInv'
  BY <1>1, ReceiveStep
<1>2. CASE Answer
  BY <1>2, AnswerStep DEF Answer
<1>3. CASE SyncFails
  BY <1>3, SyncFailsStep
<1>4. CASE OpponentTimeout \/ AckTimeout
  BY <1>4, TimeoutStep
<1>5. CASE OthersCommit \/ Decide \/ (\E surrender \in BOOLEAN : SubmitAction(surrender)) \/ Ack
  BY <1>5, CommandStep
<1>6. CASE AnimationEnds
  BY <1>6, AnimationStep
<1>7. CASE Render
  BY <1>7, RenderStep
<1>8. CASE UNCHANGED vars
  BY <1>8 DEF vars, refs, ClientInv, TypeOK, ReadyHasController, BoardFollowsMatch
<1> QED
  BY <1>1, <1>2, <1>3, <1>4, <1>5, <1>6, <1>7, <1>8 DEF Next

LEMMA ClientInvariant == Spec => []ClientInv
  BY InitClient, NextClient, PTL DEF Spec

(* Types, whatever overlaps.                                               *)
THEOREM TypeCorrect == Spec => []TypeOK
<1>1. ClientInv => TypeOK
  BY DEF ClientInv
<1> QED
  BY <1>1, ClientInvariant, PTL

(* What waits for its animation is contiguous and ends with what the       *)
(* controller takes for the state of the match.                            *)
THEOREM QueueContiguousHolds == Spec => []QueueContiguous
<1>1. ClientInv => QueueContiguous
  <2> SUFFICES ASSUME ClientInv PROVE QueueContiguous
    OBVIOUS
  <2> DEFINE queue   == controller.queue
             waiting == Waiting(queue)
             n       == Len(queue.queued)
  <2>1. /\ Sound(controller) /\ queue.queued \in Seq(Envelopes)
        /\ queue.active \in Envelopes \union {NoTransition}
        /\ controller.authoritative.version \in Nat
        /\ Chained(queue, controller.authoritative.version)
        /\ controller.authoritative = WatermarkOf(controller.authoritative.version)
    BY DEF ClientInv, Sound, Controllers, Queues, Watermarks
  <2>2. CASE queue.active = NoTransition
    <3>1. waiting = <<>>
      BY <2>1, <2>2 DEF Waiting, Chained
    <3> QED
      BY <3>1 DEF QueueContiguous
  <2>3. CASE queue.active # NoTransition
    <3>1. /\ <<queue.active>> \in Seq(Envelopes) /\ Len(<<queue.active>>) = 1
          /\ <<queue.active>>[1] = queue.active
      BY <2>1, <2>3
    <3>2. waiting = <<queue.active>> \o queue.queued
      BY <2>3 DEF Waiting
    <3>3. /\ waiting \in Seq(Envelopes) /\ Len(waiting) = 1 + n
          /\ \A i \in 1 .. (1 + n) :
               waiting[i] = IF i <= 1 THEN <<queue.active>>[i] ELSE queue.queued[i - 1]
      BY <2>1, <3>1, <3>2, ConcatProperties
    <3>4. /\ n \in Nat /\ queue.active.version \in Nat
          /\ queue.active.version + n = controller.authoritative.version
          /\ \A i \in 1 .. n : queue.queued[i].version = queue.active.version + i
      BY <2>1, <2>3 DEF Chained, Envelopes
    <3> HIDE DEF waiting, queue, n
    <3>5. \A i \in 1 .. (1 + n) : waiting[i].version = queue.active.version + (i - 1)
      <4> TAKE i \in 1 .. (1 + n)
      <4>1. CASE i = 1
        BY <3>1, <3>3, <3>4, <4>1
      <4>2. CASE i # 1
        <5>1. i - 1 \in 1 .. n /\ ~ (i <= 1)
          BY <3>4, <4>2
        <5> QED
          BY <3>3, <3>4, <5>1
      <4> QED
        BY <4>1, <4>2
    <3>6. \A i \in 1 .. n : waiting[i + 1].version = waiting[i].version + 1
      <4> TAKE i \in 1 .. n
      <4>1. i \in 1 .. (1 + n) /\ i + 1 \in 1 .. (1 + n)
        BY <3>4
      <4>2. /\ waiting[i].version = queue.active.version + (i - 1)
            /\ waiting[i + 1].version = queue.active.version + ((i + 1) - 1)
        BY <3>5, <4>1
      <4> QED
        BY <3>4, <4>1, <4>2
    <3>7. waiting[1 + n].version = controller.authoritative.version
      <4>1. 1 + n \in 1 .. (1 + n)
        BY <3>4
      <4>2. waiting[1 + n].version = queue.active.version + ((1 + n) - 1)
        BY <3>5, <4>1
      <4> QED
        BY <3>4, <4>2
    <3>8. ToSequence(waiting[Len(waiting)].version) = controller.authoritative.last
      BY <2>1, <3>3, <3>7, SequenceTyped
    <3>9. (1 + n) - 1 = n
      BY <3>4
    <3> QED
      BY <2>3, <3>3, <3>6, <3>8, <3>9 DEF QueueContiguous, waiting, queue
  <2> QED
    BY <2>2, <2>3
<1> QED
  BY <1>1, ClientInvariant, PTL

(* Until a controller has paused, every transition is animated from the    *)
(* board its predecessor left: none is skipped or shown again.             *)
THEOREM AnimatesInOrderHolds == Spec => []AnimatesInOrder
<1>1. ClientInv => AnimatesInOrder
  <2> SUFFICES ASSUME ClientInv, controller.generation = 0
               PROVE  IF controller.queue.active = NoTransition
                      THEN controller.presentation.last = controller.authoritative.last
                      ELSE FromSequence(controller.queue.active.version)
                             = controller.presentation.last + 1
    BY DEF AnimatesInOrder
  <2>1. /\ controller.authoritative = WatermarkOf(controller.authoritative.version)
        /\ controller.presentation = WatermarkOf(controller.presentation.version)
        /\ controller.presentation.version \in Nat
        /\ controller.queue.active \in Envelopes \union {NoTransition}
        /\ IF controller.queue.active = NoTransition
           THEN controller.presentation.version = controller.authoritative.version
           ELSE controller.queue.active.version = controller.presentation.version + 1
    BY DEF ClientInv, Sound, InOrder, Controllers, Queues, Watermarks
  <2>2. controller.presentation.last = ToSequence(controller.presentation.version)
    BY <2>1, SequenceTyped
  <2>3. CASE controller.queue.active = NoTransition
    BY <2>1, <2>3
  <2>4. CASE controller.queue.active # NoTransition
    <3>1. controller.queue.active.version \in Nat \ {0}
      BY <2>1, <2>4 DEF Envelopes
    <3> QED
      BY <2>1, <2>2, <2>4, <3>1, FromOrder
  <2> QED
    BY <2>3, <2>4
<1> QED
  BY <1>1, ClientInvariant, PTL

(* The page decides twice whether a transition continues what it has, once *)
(* for the match and once for the board; the two agree until the           *)
(* controller pauses or a surrender is repeated.                           *)
THEOREM BoardFollowsMatchHolds == Spec => []BoardFollowsMatch
<1>1. ClientInv => BoardFollowsMatch
  BY DEF ClientInv
<1> QED
  BY <1>1, ClientInvariant, PTL

-----------------------------------------------------------------------------
(* Answers to synchronisations (AnswersKeepWhatIsShown).                   *)

(* The match is the one of an answer or of the transitions after it, not   *)
(* of a repeated surrender; and such a repetition waits for React.         *)
Current   == match.status = "READY" /\ ~ overwritten
Repeating == \E i \in 1 .. Len(updates) : updates[i].kind = "OVERWRITE"

(* The updates that tell no more than the version n.                       *)
AnswersUpTo(n) == {u \in GoodUpdates : u.kind = "SYNCED" => u.last <= ToSequence(n)}
Within(n) == {u \in AnswersUpTo(n) : u.kind = "TRANSITION" => u.transition.version <= n}

(* Nothing on the page is newer than the server.                           *)
WithinCommitted ==
  /\ \A t \in hydration.buffer : t.version <= committed
  /\ command.stage = "ACCEPTED" => command.version <= committed
  /\ updates \in Seq(Within(committed))
  /\ Current => match.last <= ToSequence(committed)

(* What the page has when a run asks, the answer has too; what it learns   *)
(* while the run waits is in the watermark the answer is compared with.    *)
NothingOlderAsked ==
  sync.running =>
    /\ updates \in Seq(AnswersUpTo(sync.asked))
    /\ Current => \/ Repeating
                  \/ match.last <= watermark.last \/ match.last <= ToSequence(sync.asked)

AnswersInv == WithinCommitted /\ NothingOlderAsked /\ AnswersKeepWhatIsShown

LEMMA WithinGrows ==
  ASSUME NEW m \in Nat, NEW n \in Nat, m <= n
  PROVE  /\ Within(m) \subseteq Within(n) /\ Within(n) \subseteq AnswersUpTo(n)
         /\ Seq(Within(m)) \subseteq Seq(Within(n))
         /\ Seq(Within(n)) \subseteq Seq(AnswersUpTo(n))
         /\ ToSequence(m) <= ToSequence(n)
<1>1. /\ ToSequence(m) \in Nat /\ ToSequence(n) \in Nat
      /\ ToSequence(m) <= ToSequence(n)
  BY SequenceTyped, SequenceOrder
<1>2. /\ \A u \in GoodUpdates : u.kind = "SYNCED" => u.last \in Nat
      /\ \A u \in GoodUpdates : u.kind = "TRANSITION" => u.transition.version \in Nat
  BY DEF GoodUpdates, Updates, Envelopes
<1>3. Within(m) \subseteq Within(n) /\ Within(n) \subseteq AnswersUpTo(n)
  BY <1>1, <1>2 DEF Within, AnswersUpTo
<1>4. /\ Seq(Within(m)) \subseteq Seq(Within(n))
      /\ Seq(Within(n)) \subseteq Seq(AnswersUpTo(n))
  BY <1>3, SeqMonotonic
<1> QED
  BY <1>1, <1>3, <1>4

(* The updates that tell nothing of the server.                            *)
LEMMA QuietUpdates ==
  ASSUME NEW n \in Nat
  PROVE  /\ \A k \in {"LOADING", "PENDING", "SETTLED", "ERROR"} : Update(k) \in Within(n)
         /\ \A version \in Nat : Overwrite(version) \in Within(n)
         /\ \A token \in [generation : Nat, version : Nat] : Completed(token) \in Within(n)
         /\ \A t \in Envelopes : t.version <= n => Received(t) \in Within(n)
         /\ \A t \in Envelopes : \A k \in Nat : Received(t) \in AnswersUpTo(k)
<1>1. /\ \A k \in {"LOADING", "PENDING", "SETTLED", "ERROR"} :
           Update(k) \in GoodUpdates /\ Update(k).kind = k
      /\ \A version \in Nat : Overwrite(version) \in GoodUpdates
      /\ \A version : Overwrite(version).kind = "OVERWRITE"
      /\ \A token \in [generation : Nat, version : Nat] : Completed(token) \in GoodUpdates
      /\ \A token : Completed(token).kind = "COMPLETED"
      /\ \A t \in Envelopes : Received(t) \in GoodUpdates
      /\ \A t : Received(t).kind = "TRANSITION" /\ Received(t).transition = t
  BY UpdatesGood DEF Update, Overwrite, Completed, Received
<1> QED
  BY <1>1 DEF Within, AnswersUpTo

(* Updates among which no answer is older than the match.                  *)
NoneOlder(new) ==
  \A i \in 1 .. Len(new) : new[i].kind = "SYNCED" => match.last <= new[i].last

(* What a handler does to the run in flight: it begins one, or asks anew,  *)
(* or leaves it waiting for an answer of the moment it asked for.          *)
AskedAgain(new) ==
  sync'.running =>
    \/ sync'.asked = committed'
    \/ /\ sync.running /\ sync'.asked = sync.asked
       /\ new \in Seq(AnswersUpTo(sync.asked))
       /\ watermark' = watermark \/ \E i \in 1 .. Len(new) : new[i].kind = "OVERWRITE"

LEMMA HandlerTells ==
  ASSUME ClientInv, AnswersInv, committed' \in Nat, committed <= committed',
         NEW new \in Seq(Within(committed')), Queue(new),
         UNCHANGED <<match, rendering, overwritten>>,
         \A t \in hydration'.buffer : t.version <= committed',
         command'.stage = "ACCEPTED" => command'.version <= committed',
         AskedAgain(new),
         Current /\ ~ Repeating => NoneOlder(new)
  PROVE  AnswersInv'
<1>1. /\ committed \in Nat /\ match.last \in Nat /\ updates \in Seq(Within(committed))
      /\ watermark.last \in Nat /\ sync.running => sync.asked \in Nat
      /\ updates' = updates \o new
  BY ClientAssumption
     DEF ClientInv, TypeOK, Matches, Watermarks, Syncs, AnswersInv, WithinCommitted, Queue
<1>2. ToSequence(committed) \in Nat /\ ToSequence(committed') \in Nat
  BY <1>1, SequenceTyped
<1>3. /\ Seq(Within(committed)) \subseteq Seq(Within(committed'))
      /\ Seq(Within(committed')) \subseteq Seq(AnswersUpTo(committed'))
      /\ ToSequence(committed) <= ToSequence(committed')
  BY <1>1, WithinGrows
<1>4. updates' \in Seq(Within(committed')) /\ updates' \in Seq(AnswersUpTo(committed'))
  BY <1>1, <1>3, ConcatProperties
<1>5. Current' <=> Current
  BY DEF Current
<1>6. Current' => match'.last <= ToSequence(committed')
  BY <1>1, <1>2, <1>3, <1>5 DEF AnswersInv, WithinCommitted
<1>7. WithinCommitted'
  BY <1>4, <1>6 DEF WithinCommitted
<1>8. /\ \A i \in 1 .. Len(updates) : i \in 1 .. Len(updates') /\ updates'[i] = updates[i]
      /\ \A i \in 1 .. Len(new) : /\ Len(updates) + i \in 1 .. Len(updates')
                                  /\ updates'[Len(updates) + i] = new[i]
  BY <1>1, ConcatProperties, LenProperties
<1>9. /\ Repeating => Repeating'
      /\ (\E i \in 1 .. Len(new) : new[i].kind = "OVERWRITE") => Repeating'
  BY <1>8 DEF Repeating
<1>10. NothingOlderAsked'
  <2> SUFFICES ASSUME sync'.running
               PROVE  /\ updates' \in Seq(AnswersUpTo(sync'.asked))
                      /\ Current' => \/ Repeating'
                                     \/ match'.last <= watermark'.last
                                     \/ match'.last <= ToSequence(sync'.asked)
    BY DEF NothingOlderAsked
  <2>1. CASE sync'.asked = committed'
    BY <1>4, <1>6, <2>1
  <2>2. CASE /\ sync.running /\ sync'.asked = sync.asked
             /\ new \in Seq(AnswersUpTo(sync.asked))
             /\ watermark' = watermark \/ \E i \in 1 .. Len(new) : new[i].kind = "OVERWRITE"
    <3>1. /\ updates \in Seq(AnswersUpTo(sync.asked))
          /\ Current => \/ Repeating
                        \/ match.last <= watermark.last
                        \/ match.last <= ToSequence(sync.asked)
      BY <2>2 DEF AnswersInv, NothingOlderAsked
    <3>2. updates' \in Seq(AnswersUpTo(sync'.asked))
      BY <1>1, <2>2, <3>1, ConcatProperties
    <3> QED
      BY <1>5, <1>9, <2>2, <3>1, <3>2
  <2> QED
    BY <2>1, <2>2 DEF AskedAgain
<1>11. AnswersKeepWhatIsShown'
  <2> SUFFICES ASSUME ~ rendering', Current', NEW i \in 1 .. Len(updates'),
                      AnswerAt(updates', i)
               PROVE  match'.last <= updates'[i].last
    BY DEF AnswersKeepWhatIsShown, Current
  <2>1. /\ updates'[i].kind = "SYNCED" /\ \A j \in 1 .. (i - 1) : updates'[j].kind # "OVERWRITE"
        /\ ~ rendering /\ Current /\ match' = match
    BY <1>5 DEF AnswerAt
  <2>2. /\ Len(updates) \in Nat /\ Len(new) \in Nat /\ Len(updates') = Len(updates) + Len(new)
    BY <1>1, <1>3, ConcatProperties, LenProperties
  <2>3. CASE i \in 1 .. Len(updates)
    <3>1. updates'[i] = updates[i] /\ \A j \in 1 .. (i - 1) : updates'[j] = updates[j]
      BY <1>8, <2>2, <2>3
    <3>2. AnswerAt(updates, i)
      BY <2>1, <3>1 DEF AnswerAt
    <3> QED
      BY <2>1, <2>3, <3>1, <3>2 DEF AnswersInv, AnswersKeepWhatIsShown, Current
  <2>4. CASE i \notin 1 .. Len(updates)
    <3>1. i - Len(updates) \in 1 .. Len(new) /\ updates'[i] = new[i - Len(updates)]
      <4>1. i - Len(updates) \in 1 .. Len(new) /\ Len(updates) + (i - Len(updates)) = i
        BY <2>2, <2>4
      <4> QED
        BY <1>8, <4>1
    <3>2. ~ Repeating
      <4>1. \A j \in 1 .. Len(updates) : j \in 1 .. (i - 1) /\ updates'[j] = updates[j]
        BY <1>8, <2>2, <2>4
      <4> QED
        BY <2>1, <4>1 DEF Repeating
    <3> QED
      BY <2>1, <3>1, <3>2 DEF NoneOlder
  <2> QED
    BY <2>3, <2>4
<1> QED
  BY <1>7, <1>10, <1>11 DEF AnswersInv

(* What the handlers start from.                                           *)
LEMMA TellingParts ==
  ASSUME ClientInv, AnswersInv
  PROVE  /\ committed \in Nat /\ match.last \in Nat /\ watermark.last \in Nat
         /\ updates \in Seq(GoodUpdates)
         /\ \A t \in hydration.buffer : t.version <= committed
         /\ command.stage = "ACCEPTED" => command.version <= committed
         /\ \A k \in {"LOADING", "PENDING", "SETTLED", "ERROR"} :
              /\ Update(k).kind = k
              /\ <<Update(k)>> \in Seq(Within(committed))
              /\ \A n \in Nat : <<Update(k)>> \in Seq(AnswersUpTo(n))
         /\ <<>> \in Seq(Within(committed)) /\ Queue(<<>>) <=> updates' = updates
<1>1. /\ committed \in Nat /\ match.last \in Nat /\ watermark.last \in Nat
        /\ updates \in Seq(GoodUpdates)
  BY ClientAssumption DEF ClientInv, TypeOK, Matches, Watermarks
<1>2. ASSUME NEW k \in {"LOADING", "PENDING", "SETTLED", "ERROR"}, NEW n \in Nat
        PROVE  /\ Update(k).kind = k
               /\ <<Update(k)>> \in Seq(Within(n)) /\ <<Update(k)>> \in Seq(AnswersUpTo(n))
  <2>1. Update(k) \in Within(n) /\ Update(k) \in AnswersUpTo(n)
    BY QuietUpdates, WithinGrows DEF Within
  <2> QED
    BY <2>1 DEF Update
<1>3. updates \o <<>> = updates
  BY <1>1, ConcatEmptySeq
<1> QED
  BY <1>1, <1>2, <1>3 DEF AnswersInv, WithinCommitted, Queue

(* Handlers that begin a run, or ask the one in flight to run again.       *)
LEMMA AskTells ==
  ASSUME ClientInv, AnswersInv, NEW initial, NEW before \in {<<>>, <<Update("SETTLED")>>},
         SyncMatch(initial, before),
         command'.stage = "ACCEPTED" => command' = command,
         UNCHANGED <<committed, match, matchRef, watermark, controller, rendering, overwritten>>
  PROVE  AnswersInv'
<1>1. /\ committed \in Nat /\ \A t \in hydration.buffer : t.version <= committed
      /\ command.stage = "ACCEPTED" => command.version <= committed
      /\ before \in Seq(Within(committed))
      /\ \A n \in Nat : before \in Seq(AnswersUpTo(n))
      /\ NoneOlder(before)
  <2>1. /\ committed \in Nat /\ \A t \in hydration.buffer : t.version <= committed
        /\ command.stage = "ACCEPTED" => command.version <= committed
        /\ <<Update("SETTLED")>> \in Seq(Within(committed))
        /\ \A n \in Nat : <<Update("SETTLED")>> \in Seq(AnswersUpTo(n))
        /\ Update("SETTLED").kind = "SETTLED"
    BY TellingParts
  <2>2. CASE before = <<>>
    BY <2>1, <2>2 DEF NoneOlder
  <2>3. CASE before = <<Update("SETTLED")>>
    <3>1. Len(before) = 1 /\ before[1] = Update("SETTLED")
      BY <2>3
    <3>2. NoneOlder(before)
      BY <2>1, <3>1 DEF NoneOlder
    <3> QED
      BY <2>1, <2>3, <3>2
  <2> QED
    BY <2>2, <2>3
<1>2. CASE sync.running
  <2>1. /\ sync' = [sync EXCEPT !.again = sync.again \/ ~ initial]
        /\ Queue(before) /\ hydration' = hydration
    BY <1>2 DEF SyncMatch
  <2>2. sync \in Syncs /\ sync.asked \in Nat
    BY ClientAssumption DEF ClientInv, TypeOK, Syncs
  <2>3. sync'.asked = sync.asked
    BY <2>1, <2>2 DEF Syncs
  <2>4. AskedAgain(before)
    BY <1>1, <1>2, <2>2, <2>3 DEF AskedAgain
  <2> QED
    BY <1>1, <2>1, <2>4, HandlerTells
<1>3. CASE ~ sync.running
  <2> DEFINE new == before \o <<Update("LOADING")>>
  <2>1. /\ sync' = Run(initial, 0) /\ Queue(new)
        /\ hydration' = hydration \/ hydration' = [on |-> TRUE, buffer |-> {}]
    BY <1>3 DEF SyncMatch
  <2>2. /\ <<Update("LOADING")>> \in Seq(Within(committed))
        /\ Update("LOADING").kind = "LOADING" /\ Update("SETTLED").kind = "SETTLED"
    BY TellingParts
  <2>3. new \in Seq(Within(committed)) /\ NoneOlder(new)
    <3>1. new \in Seq(Within(committed)) /\ Len(new) = Len(before) + 1
          /\ \A i \in 1 .. Len(before) + 1 :
               new[i] = IF i <= Len(before) THEN before[i]
                        ELSE <<Update("LOADING")>>[i - Len(before)]
      BY <1>1, <2>2, ConcatProperties
    <3>2. Len(before) \in {0, 1} /\ (Len(before) = 1 => before[1] = Update("SETTLED"))
      OBVIOUS
    <3>3. \A i \in 1 .. Len(new) : new[i] \in {Update("SETTLED"), Update("LOADING")}
      BY <3>1, <3>2
    <3>4. NoneOlder(new)
      BY <2>2, <3>3 DEF NoneOlder
    <3> QED
      BY <3>1, <3>4
  <2>4. sync'.asked = committed'
    BY <2>1 DEF Run
  <2>5. AskedAgain(new)
    BY <2>4 DEF AskedAgain
  <2>6. \A t \in hydration'.buffer : t.version <= committed
    BY <1>1, <2>1
  <2> HIDE DEF new
  <2> QED
    BY <1>1, <2>1, <2>3, <2>5, <2>6, HandlerTells
<1> QED
  BY <1>2, <1>3

LEMMA TimeoutTells ==
  ASSUME ClientInv, AnswersInv, OpponentTimeout \/ AckTimeout
  PROVE  AnswersInv'
<1>1. /\ command' = command
      /\ UNCHANGED <<committed, match, matchRef, watermark, controller, rendering, overwritten>>
      /\ SyncMatch(IsInitial(match), <<>>) \/ UNCHANGED <<sync, hydration, updates>>
  BY DEF OpponentTimeout, AckTimeout
<1>2. CASE SyncMatch(IsInitial(match), <<>>)
  BY <1>1, <1>2, AskTells
<1>3. CASE UNCHANGED <<sync, hydration, updates>>
  BY <1>1, <1>3
     DEF AnswersInv, WithinCommitted, NothingOlderAsked, AnswersKeepWhatIsShown, Current, Repeating
<1> QED
  BY <1>1, <1>2, <1>3

LEMMA ReceiveTells ==
  ASSUME ClientInv, AnswersInv, NEW t \in Transitions, Receive(t)
  PROVE  AnswersInv'
<1>1. /\ committed \in Nat /\ \A b \in hydration.buffer : b.version <= committed
      /\ command.stage = "ACCEPTED" => command.version <= committed
      /\ <<>> \in Seq(Within(committed)) /\ Queue(<<>>) <=> updates' = updates
  BY TellingParts
<1>2. /\ t \in Envelopes /\ t.version <= committed
      /\ UNCHANGED <<committed, match, watermark, controller, sync, command, rendering,
                     overwritten>>
  <2>1. t \in Envelopes /\ t.version \in Nat /\ t.snapshot \in Nat
    BY ClientAssumption, TransitionsAreEnvelopes DEF Transitions
  <2>2. t.version <= t.snapshot /\ t.snapshot <= committed
    BY DEF Receive
  <2> QED
    BY <1>1, <2>1, <2>2 DEF Receive
<1>3. sync \in Syncs /\ hydration \in Buffers /\ sync.asked \in Nat
  BY ClientAssumption DEF ClientInv, TypeOK, Syncs
<1>4. CASE hydration.on
  <2>1. /\ updates' = updates
        /\ hydration' = [hydration EXCEPT !.buffer =
               IF \E b \in hydration.buffer : b.version = t.version THEN hydration.buffer
               ELSE hydration.buffer \union {t}]
    BY <1>4 DEF Receive
  <2>2. hydration'.buffer \subseteq hydration.buffer \union {t}
    BY <1>3, <2>1 DEF Buffers
  <2>3. \A b \in hydration'.buffer : b.version <= committed
    BY <1>1, <1>2, <2>2
  <2>4. AskedAgain(<<>>) /\ NoneOlder(<<>>)
    BY <1>2, <1>3 DEF AskedAgain, NoneOlder
  <2>5. /\ committed' \in Nat /\ committed <= committed' /\ Queue(<<>>)
        /\ <<>> \in Seq(Within(committed'))
        /\ \A b \in hydration'.buffer : b.version <= committed'
        /\ command'.stage = "ACCEPTED" => command'.version <= committed'
    BY <1>1, <1>2, <2>1, <2>3
  <2> QED
    BY <1>2, <2>4, <2>5, HandlerTells
<1>5. CASE ~ hydration.on
  <2>1. hydration' = hydration /\ Queue(<<Received(t)>>)
    BY <1>5 DEF Receive
  <2>2. Received(t) \in Within(committed) /\ Received(t) \in AnswersUpTo(sync.asked)
    BY <1>1, <1>2, <1>3, QuietUpdates
  <2>3. AskedAgain(<<Received(t)>>)
    BY <1>2, <2>2 DEF AskedAgain
  <2>4. NoneOlder(<<Received(t)>>)
    BY DEF Received, NoneOlder
  <2>5. /\ committed' \in Nat /\ committed <= committed'
        /\ <<Received(t)>> \in Seq(Within(committed'))
        /\ \A b \in hydration'.buffer : b.version <= committed'
        /\ command'.stage = "ACCEPTED" => command'.version <= committed'
    BY <1>1, <1>2, <2>1, <2>2
  <2> QED
    BY <1>2, <2>1, <2>3, <2>4, <2>5, HandlerTells
<1> QED
  BY <1>4, <1>5

(* The end of a run, after which all that is asked for is of now.          *)
LEMMA EndTells ==
  ASSUME ClientInv, AnswersInv, NEW again \in BOOLEAN, NEW before \in Seq(Within(committed)),
         EndRun(again, before),
         hydration'.buffer \subseteq hydration.buffer,
         Current /\ ~ Repeating => NoneOlder(before),
         UNCHANGED <<committed, match, matchRef, controller, ackTimer, rendering, overwritten>>
  PROVE  AnswersInv'
<1> DEFINE after == IF again THEN <<Update("LOADING")>> ELSE <<>>
           new   == before \o after
<1>1. /\ committed \in Nat /\ \A t \in hydration.buffer : t.version <= committed
      /\ command.stage = "ACCEPTED" => command.version <= committed
      /\ <<Update("LOADING")>> \in Seq(Within(committed))
      /\ <<>> \in Seq(Within(committed)) /\ Update("LOADING").kind = "LOADING"
  BY TellingParts
<1>2. /\ Queue(new) /\ sync' = IF again THEN Run(FALSE, 0) ELSE NoSync
      /\ command' = NoCommand \/ command' = command
  BY DEF EndRun
<1>3. after \in Seq(Within(committed)) /\ new \in Seq(Within(committed))
  BY <1>1, ConcatProperties
<1>4. AskedAgain(new)
  BY <1>2 DEF AskedAgain, Run, NoSync
<1>5. Current /\ ~ Repeating => NoneOlder(new)
  <2> SUFFICES ASSUME NoneOlder(before), NEW i \in 1 .. Len(new), new[i].kind = "SYNCED"
               PROVE  match.last <= new[i].last
    BY DEF NoneOlder
  <2>1. /\ Len(before) \in Nat /\ Len(after) \in Nat /\ Len(new) = Len(before) + Len(after)
        /\ \A k \in 1 .. Len(before) + Len(after) :
             new[k] = IF k <= Len(before) THEN before[k] ELSE after[k - Len(before)]
    BY <1>3, ConcatProperties, LenProperties
  <2>2. \A k \in 1 .. Len(after) : after[k].kind = "LOADING"
    BY <1>1
  <2> HIDE DEF new, after
  <2>3. i \in 1 .. Len(before) /\ new[i] = before[i]
    <3>1. CASE i <= Len(before)
      BY <2>1, <3>1
    <3>2. CASE ~ (i <= Len(before))
      <4>1. i - Len(before) \in 1 .. Len(after) /\ new[i] = after[i - Len(before)]
        BY <2>1, <3>2
      <4> QED
        BY <2>2, <4>1
    <3> QED
      BY <3>1, <3>2
  <2> QED
    BY <2>3 DEF NoneOlder
<1>6. /\ \A t \in hydration'.buffer : t.version <= committed
      /\ command'.stage = "ACCEPTED" => command'.version <= committed
  BY <1>1, <1>2 DEF NoCommand
<1> HIDE DEF new
<1> QED
  BY <1>1, <1>2, <1>3, <1>4, <1>5, <1>6, HandlerTells

(* What a run brings is no older than what was there when it asked, and    *)
(* than the watermark.                                                     *)
LEMMA AnswerTells ==
  ASSUME ClientInv, AnswersInv, NEW version \in 0 .. MaxVersion, SyncAnswered(version)
  PROVE  AnswersInv'
<1> DEFINE last     == LastReplayed(version)
           snapshot == IF last = version THEN version ELSE BufferedAs(last).snapshot
           c        == ReplayController(version, last)
           missing  == \E v \in BufferedVersions : v > last
           update   == Synced(c, snapshot, ToSequence(last))
<1>1. /\ committed \in Nat /\ \A t \in hydration.buffer : t.version <= committed
      /\ <<>> \in Seq(Within(committed))
      /\ match.last \in Nat /\ watermark.last \in Nat /\ updates \in Seq(GoodUpdates)
  BY TellingParts
<1>2. /\ hydration.buffer \subseteq Transitions /\ sync.again \in BOOLEAN /\ version \in Nat
      /\ sync.asked \in Nat
  BY ClientAssumption DEF ClientInv, TypeOK, Buffers, Syncs
<1>3. /\ sync.running /\ sync.asked <= version /\ version <= committed
      /\ hydration' = IF sync.initial THEN NoBuffer ELSE hydration
      /\ UNCHANGED <<committed, match, matchRef, controller, ackTimer, rendering, overwritten>>
  BY DEF SyncAnswered
<1>4. hydration'.buffer \subseteq hydration.buffer
  BY <1>3 DEF NoBuffer
<1>5. CASE IsOutdated(version)
  <2>1. EndRun(sync.again, <<>>)
    BY <1>5 DEF SyncAnswered
  <2>2. NoneOlder(<<>>)
    BY DEF NoneOlder
  <2> QED
    BY <1>1, <1>2, <1>3, <1>4, <2>1, <2>2, EndTells
<1>6. CASE ~ IsOutdated(version)
  <2>1. EndRun(sync.again \/ (missing /\ version # 0), <<update>>)
    BY <1>6 DEF SyncAnswered
  <2>2. /\ last \in Nat /\ snapshot \in Nat
        /\ Sound(c) /\ c.recovery = "NONE" /\ c.authoritative.last = ToSequence(last)
    BY <1>2, ReplaySound
  <2>3. /\ last \in version .. MaxVersion
        /\ \A v \in (version + 1) .. last : v \in BufferedVersions
    BY <1>2, LastReplayedExists
  <2>4. \A v \in BufferedVersions : v <= committed
    BY <1>1 DEF BufferedVersions, Buffered
  <2>5. version <= last /\ last <= committed
    <3>1. last # version => last \in (version + 1) .. last
      BY <1>2, <2>2, <2>3
    <3> QED
      BY <1>3, <2>3, <2>4, <3>1
  <2>6. update.kind = "SYNCED" /\ update.last = ToSequence(last)
    BY DEF Synced
  <2> HIDE DEF snapshot, c, missing
  <2>7. ToSequence(last) \in Nat /\ update \in GoodUpdates
    BY <2>2, SequenceTyped, SyncedGood
  <2> HIDE DEF update
  <2>8. ToSequence(last) <= ToSequence(committed)
    BY <1>1, <2>2, <2>5, SequenceOrder
  <2>9. <<update>> \in Seq(Within(committed))
    BY <2>6, <2>7, <2>8 DEF Within, AnswersUpTo
  <2>10. Current /\ ~ Repeating => match.last <= ToSequence(last)
    <3> SUFFICES ASSUME ~ Repeating, Current
                 PROVE  match.last <= ToSequence(last)
      OBVIOUS
    <3>1. match.last <= watermark.last \/ match.last <= ToSequence(sync.asked)
      BY <1>3 DEF AnswersInv, NothingOlderAsked
    <3>2. watermark.last <= ToSequence(version)
      <4>1. ToSequence(version) \in Nat
        BY <1>2, SequenceTyped
      <4> QED
        BY <1>1, <1>6, <4>1 DEF IsOutdated
    <3>3. ToSequence(sync.asked) <= ToSequence(version) /\ ToSequence(version) <= ToSequence(last)
      BY <1>2, <1>3, <2>2, <2>5, SequenceOrder
    <3>4. ToSequence(sync.asked) \in Nat /\ ToSequence(version) \in Nat
      BY <1>2, SequenceTyped
    <3> HIDE DEF last
    <3> QED
      BY <1>1, <2>7, <3>1, <3>2, <3>3, <3>4
  <2>11. Current /\ ~ Repeating => NoneOlder(<<update>>)
    BY <2>6, <2>10 DEF NoneOlder
  <2>12. (sync.again \/ (missing /\ version # 0)) \in BOOLEAN
    OBVIOUS
  <2> HIDE DEF last
  <2> QED
    BY <1>3, <1>4, <2>1, <2>9, <2>11, <2>12, EndTells
<1> QED
  BY <1>5, <1>6

LEMMA FailureTells ==
  ASSUME ClientInv, AnswersInv, SyncFails
  PROVE  AnswersInv'
<1>1. /\ committed \in Nat /\ \A t \in hydration.buffer : t.version <= committed
      /\ command.stage = "ACCEPTED" => command.version <= committed
      /\ <<>> \in Seq(Within(committed)) /\ Queue(<<>>) <=> updates' = updates
      /\ <<Update("ERROR")>> \in Seq(Within(committed)) /\ Update("ERROR").kind = "ERROR"
  BY TellingParts
<1>2. UNCHANGED <<committed, match, matchRef, watermark, controller, hydration, ackTimer,
                  rendering, overwritten>>
  BY DEF SyncFails
<1>3. CASE sync.retries > 0
  <2>1. /\ sync' = [sync EXCEPT !.retries = sync.retries - 1, !.asked = committed]
        /\ command' = command /\ updates' = updates
    BY <1>3 DEF SyncFails
  <2>2. sync'.asked = committed'
    BY <1>2, <2>1 DEF ClientInv, TypeOK, Syncs
  <2>3. AskedAgain(<<>>) /\ NoneOlder(<<>>)
    BY <2>2 DEF AskedAgain, NoneOlder
  <2>4. /\ committed' \in Nat /\ committed <= committed' /\ Queue(<<>>)
        /\ <<>> \in Seq(Within(committed'))
        /\ \A b \in hydration'.buffer : b.version <= committed'
        /\ command'.stage = "ACCEPTED" => command'.version <= committed'
    BY <1>1, <1>2, <2>1
  <2> QED
    BY <1>2, <2>3, <2>4, HandlerTells
<1>4. CASE ~ (sync.retries > 0)
  <2>1. EndRun(sync.again, <<Update("ERROR")>>)
    BY <1>4 DEF SyncFails
  <2>2. sync.again \in BOOLEAN
    BY DEF ClientInv, TypeOK, Syncs
  <2>3. NoneOlder(<<Update("ERROR")>>) /\ hydration'.buffer \subseteq hydration.buffer
    BY <1>1, <1>2 DEF NoneOlder
  <2> QED
    BY <1>1, <1>2, <2>1, <2>2, <2>3, EndTells
<1> QED
  BY <1>3, <1>4

LEMMA CommandTells ==
  ASSUME ClientInv, AnswersInv,
         OthersCommit \/ Decide \/ (\E surrender \in BOOLEAN : SubmitAction(surrender)) \/ Ack
  PROVE  AnswersInv'
<1>1. /\ committed \in Nat /\ \A t \in hydration.buffer : t.version <= committed
      /\ command.stage = "ACCEPTED" => command.version <= committed
      /\ \A k \in {"PENDING", "SETTLED"} :
           /\ Update(k).kind = k
           /\ <<Update(k)>> \in Seq(Within(committed))
           /\ \A n \in Nat : <<Update(k)>> \in Seq(AnswersUpTo(n))
      /\ Queue(<<>>) <=> updates' = updates
  BY TellingParts
<1>2. /\ sync \in Syncs /\ sync.asked \in Nat /\ command \in Commands /\ command.version \in Nat
      /\ matchRef.version \in Nat
  BY ClientAssumption DEF ClientInv, TypeOK, Syncs, Commands, Matches
<1>3. \A n \in Nat : <<>> \in Seq(Within(n)) /\ <<>> \in Seq(AnswersUpTo(n))
  OBVIOUS
<1>4. NoneOlder(<<>>) /\ \A k \in {"PENDING", "SETTLED"} : NoneOlder(<<Update(k)>>)
  BY <1>1 DEF NoneOlder
(* The server goes on. *)
<1>5. ASSUME committed' = committed \/ committed' = committed + 1,
             command'.stage = "ACCEPTED" => command' = command \/ command'.version = committed',
             UNCHANGED <<match, watermark, controller, hydration, sync, updates, rendering,
                         overwritten>>
      PROVE  AnswersInv'
  <2>1. committed' \in Nat /\ committed <= committed'
    BY <1>1, <1>5
  <2>2. \A t \in hydration.buffer : t.version <= committed'
    <3>1. \A t \in hydration.buffer : t.version \in Nat
      BY ClientAssumption DEF ClientInv, TypeOK, Buffers, Transitions
    <3> QED
      BY <1>1, <2>1, <3>1
  <2>3. command'.stage = "ACCEPTED" => command'.version <= committed'
    BY <1>1, <1>2, <1>5, <2>1
  <2>4. AskedAgain(<<>>)
    BY <1>2, <1>3, <1>5 DEF AskedAgain
  <2> QED
    BY <1>1, <1>3, <1>4, <1>5, <2>1, <2>2, <2>3, <2>4, HandlerTells
<1>6. CASE OthersCommit
  BY <1>5, <1>6 DEF OthersCommit, refs
<1>7. CASE Decide
  <2>1. /\ UNCHANGED <<match, watermark, controller, hydration, sync, updates, rendering,
                       overwritten>>
        /\ \/ /\ committed' = committed + 1
              /\ command' = [command EXCEPT !.stage = "ACCEPTED", !.version = committed + 1]
           \/ /\ committed' = committed
              /\ command' = [command EXCEPT !.stage = "STALE", !.version = committed]
    BY <1>7 DEF Decide
  <2>2. command'.stage = "ACCEPTED" => command'.version = committed'
    BY <1>2, <2>1 DEF Commands
  <2> QED
    BY <1>5, <2>1, <2>2
(* A handler of the page: the run in flight goes on. *)
<1>8. ASSUME NEW new \in Seq(Within(committed)), new \in Seq(AnswersUpTo(sync.asked)),
             NoneOlder(new), Queue(new), sync' = sync,
             watermark' = watermark \/ \E i \in 1 .. Len(new) : new[i].kind = "OVERWRITE",
             command'.stage # "ACCEPTED",
             UNCHANGED <<committed, match, controller, hydration, rendering, overwritten>>
      PROVE  AnswersInv'
  <2>1. AskedAgain(new)
    BY <1>8 DEF AskedAgain
  <2> QED
    BY <1>1, <1>8, <2>1, HandlerTells
<1>9. ASSUME NEW surrender \in BOOLEAN, SubmitAction(surrender)
      PROVE  AnswersInv'
  <2>1. /\ command'.stage = "SENT" /\ Queue(<<Update("PENDING")>>)
        /\ UNCHANGED <<committed, match, matchRef, watermark, controller, hydration, sync,
                       ackTimer, rendering, overwritten>>
    BY <1>9 DEF SubmitAction
  <2> QED
    BY <1>1, <1>2, <1>4, <1>8, <2>1
<1>10. CASE AckAccepted
  <2> DEFINE t   == [version |-> command.version, snapshot |-> command.version]
             new == <<Update("SETTLED"), Received(t)>>
  <2>1. /\ Queue(new) /\ command' = NoCommand /\ command.stage = "ACCEPTED"
        /\ UNCHANGED <<committed, match, watermark, controller, hydration, sync, rendering,
                       overwritten>>
    BY <1>10 DEF AckAccepted
  <2>2. t \in Envelopes /\ t.version <= committed
    BY <1>1, <1>2, <2>1 DEF Commands, Envelopes
  <2> HIDE DEF t
  <2>3. /\ Received(t) \in Within(committed) /\ Received(t) \in AnswersUpTo(sync.asked)
        /\ Update("SETTLED") \in Within(committed) /\ Update("SETTLED") \in Within(sync.asked)
    BY <1>1, <1>2, <2>2, QuietUpdates
  <2>4. Update("SETTLED") \in AnswersUpTo(sync.asked)
    BY <2>3 DEF Within
  <2>5. /\ new \in Seq(Within(committed)) /\ new \in Seq(AnswersUpTo(sync.asked))
        /\ NoneOlder(new)
    <3>1. new \in Seq(Within(committed)) /\ new \in Seq(AnswersUpTo(sync.asked))
      BY <2>3, <2>4
    <3>2. \A i \in 1 .. Len(new) : new[i] \in {Update("SETTLED"), Received(t)}
      OBVIOUS
    <3> QED
      BY <1>1, <3>1, <3>2 DEF NoneOlder, Received
  <2> HIDE DEF new
  <2>6. command'.stage # "ACCEPTED"
    BY <2>1 DEF NoCommand
  <2> QED
    BY <1>1, <1>8, <2>1, <2>5, <2>6
<1>11. CASE AckRefused
  <2>1. /\ Queue(<<Update("SETTLED")>>) /\ command' = NoCommand
        /\ UNCHANGED <<committed, match, matchRef, watermark, controller, hydration, sync,
                       ackTimer, rendering, overwritten>>
    BY <1>11 DEF AckRefused
  <2> QED
    BY <1>1, <1>2, <1>4, <1>8, <2>1 DEF NoCommand
<1>12. CASE AckStale
  <2>1. /\ SyncMatch(command.initial, <<Update("SETTLED")>>)
        /\ command' = [command EXCEPT !.stage = "AWAITING"]
        /\ UNCHANGED <<committed, match, matchRef, watermark, controller, ackTimer, rendering,
                       overwritten>>
    BY <1>12 DEF AckStale
  <2>2. command'.stage # "ACCEPTED"
    BY <1>2, <2>1 DEF Commands
  <2> QED
    BY <2>1, <2>2, AskTells
<1>13. CASE SurrenderAgain
  <2> DEFINE new == <<Overwrite(command.version)>>
  <2>1. /\ Queue(new) /\ command' = [command EXCEPT !.stage = "SENT", !.retry = TRUE]
        /\ UNCHANGED <<committed, match, matchRef, controller, hydration, sync, ackTimer,
                       rendering, overwritten>>
    BY <1>13 DEF SurrenderAgain
  <2>2. Overwrite(command.version) \in Within(committed)
        /\ Overwrite(command.version) \in Within(sync.asked)
        /\ Overwrite(command.version).kind = "OVERWRITE"
    BY <1>1, <1>2, QuietUpdates DEF Overwrite
  <2>3. Overwrite(command.version) \in AnswersUpTo(sync.asked)
    BY <2>2 DEF Within
  <2>4. /\ new \in Seq(Within(committed)) /\ new \in Seq(AnswersUpTo(sync.asked))
        /\ NoneOlder(new) /\ \E i \in 1 .. Len(new) : new[i].kind = "OVERWRITE"
    BY <2>2, <2>3 DEF NoneOlder
  <2> HIDE DEF new
  <2>5. command'.stage # "ACCEPTED"
    BY <1>2, <2>1 DEF Commands
  <2> QED
    BY <1>8, <2>1, <2>4, <2>5
<1> QED
  BY <1>6, <1>7, <1>9, <1>10, <1>11, <1>12, <1>13 DEF Ack

LEMMA AnimationTells ==
  ASSUME ClientInv, AnswersInv, AnimationEnds
  PROVE  AnswersInv'
<1> DEFINE new == <<Completed(Token(controller))>>
<1>1. /\ committed \in Nat /\ \A t \in hydration.buffer : t.version <= committed
      /\ command.stage = "ACCEPTED" => command.version <= committed
  BY TellingParts
<1>2. /\ Queue(new)
      /\ UNCHANGED <<committed, match, controller, matchRef, watermark, hydration, sync, command,
                     ackTimer, rendering, overwritten>>
  BY DEF AnimationEnds, refs
<1>3. Token(controller) \in [generation : Nat, version : Nat] /\ sync.asked \in Nat
  BY ClientAssumption
     DEF Token, Envelopes, NoTransition, ClientInv, TypeOK, Controllers, Queues, Syncs
<1>4. /\ Completed(Token(controller)) \in Within(committed)
      /\ Completed(Token(controller)) \in AnswersUpTo(sync.asked)
  <2>1. \A n \in Nat : Completed(Token(controller)) \in Within(n)
    BY <1>3, QuietUpdates
  <2> QED
    BY <1>1, <1>3, <2>1 DEF Within
<1>5. /\ new \in Seq(Within(committed)) /\ new \in Seq(AnswersUpTo(sync.asked))
      /\ NoneOlder(new)
  BY <1>4 DEF Completed, NoneOlder
<1>6. AskedAgain(new)
  BY <1>2, <1>5 DEF AskedAgain
<1> HIDE DEF new
<1> QED
  BY <1>1, <1>2, <1>5, <1>6, HandlerTells

(* Running an update adds at most that a run begins.                       *)
LEMMA RenderTells ==
  ASSUME ClientInv, AnswersInv, updates # <<>>, rendering' = (updates' # <<>>),
         updates' \in {Tail(updates), Append(Tail(updates), Update("LOADING"))},
         UNCHANGED <<committed, command>>,
         hydration'.buffer \subseteq hydration.buffer,
         Current' => match'.last <= ToSequence(committed),
         sync'.running =>
           \/ sync'.asked = committed
           \/ /\ sync.running /\ sync'.asked = sync.asked
              /\ Current' => \/ Repeating'
                             \/ match'.last <= watermark'.last
                             \/ match'.last <= ToSequence(sync.asked)
  PROVE  AnswersInv'
<1>1. /\ committed \in Nat /\ sync.asked \in Nat
      /\ Update("LOADING") \in Within(committed) /\ Update("LOADING") \in Within(sync.asked)
      /\ updates \in Seq(Within(committed))
      /\ sync.running => updates \in Seq(AnswersUpTo(sync.asked))
  BY ClientAssumption, QuietUpdates
     DEF ClientInv, TypeOK, Syncs, AnswersInv, WithinCommitted, NothingOlderAsked
<1>2. /\ Tail(updates) \in Seq(Within(committed))
      /\ sync.running => Tail(updates) \in Seq(AnswersUpTo(sync.asked))
  BY <1>1, HeadTailProperties
<1>3. Update("LOADING") \in AnswersUpTo(sync.asked)
  BY <1>1 DEF Within
<1>4. /\ updates' \in Seq(Within(committed))
      /\ sync.running => updates' \in Seq(AnswersUpTo(sync.asked))
  BY <1>1, <1>2, <1>3
<1>5. updates' \in Seq(AnswersUpTo(committed))
  <2>1. Seq(Within(committed)) \subseteq Seq(AnswersUpTo(committed))
    BY <1>1, WithinGrows
  <2> QED
    BY <1>4, <2>1
<1>6. WithinCommitted'
  <2>1. /\ \A t \in hydration'.buffer : t.version <= committed'
        /\ command'.stage = "ACCEPTED" => command'.version <= committed'
    BY DEF AnswersInv, WithinCommitted
  <2>2. updates' \in Seq(Within(committed'))
    BY <1>4
  <2>3. Current' => match'.last <= ToSequence(committed')
    OBVIOUS
  <2> QED
    BY <2>1, <2>2, <2>3 DEF WithinCommitted
<1>7. NothingOlderAsked'
  <2> SUFFICES ASSUME sync'.running
               PROVE  /\ updates' \in Seq(AnswersUpTo(sync'.asked))
                      /\ Current' => \/ Repeating'
                                     \/ match'.last <= watermark'.last
                                     \/ match'.last <= ToSequence(sync'.asked)
    BY DEF NothingOlderAsked
  <2>1. CASE sync'.asked = committed
    BY <1>5, <2>1
  <2>2. CASE /\ sync.running /\ sync'.asked = sync.asked
             /\ Current' => \/ Repeating'
                            \/ match'.last <= watermark'.last
                            \/ match'.last <= ToSequence(sync.asked)
    BY <1>4, <2>2
  <2> QED
    BY <2>1, <2>2
<1>8. AnswersKeepWhatIsShown'
  <2>1. CASE updates' = <<>>
    <3>1. Len(updates') = 0
      BY <2>1
    <3> QED
      BY <3>1 DEF AnswersKeepWhatIsShown
  <2>2. CASE updates' # <<>>
    BY <2>2 DEF AnswersKeepWhatIsShown
  <2> QED
    BY <2>1, <2>2
<1> QED
  BY <1>6, <1>7, <1>8 DEF AnswersInv

LEMMA UpdateTells ==
  ASSUME ClientInv, AnswersInv, Render
  PROVE  AnswersInv'
<1> DEFINE update == Head(updates)
<1>1. /\ updates \in Seq(GoodUpdates) /\ updates # <<>> /\ match \in Matches /\ match.last \in Nat
      /\ sync \in Syncs /\ sync.asked \in Nat /\ committed \in Nat
  BY ClientAssumption DEF ClientInv, TypeOK, Matches, Syncs, Render
<1>2. /\ update \in Within(committed) /\ update \in GoodUpdates
      /\ sync.running => update \in AnswersUpTo(sync.asked)
  BY <1>1, HeadTailProperties DEF AnswersInv, WithinCommitted, NothingOlderAsked
<1>3. rendering' = (updates' # <<>>) /\ UNCHANGED <<committed, command>>
  BY DEF Render
<1>4. Current => match.last <= ToSequence(committed)
  BY DEF AnswersInv, WithinCommitted
<1>5. sync.running /\ Current => \/ Repeating
                                 \/ match.last <= watermark.last
                                 \/ match.last <= ToSequence(sync.asked)
  BY DEF AnswersInv, NothingOlderAsked
<1>6. updates' \in {Tail(updates), Append(Tail(updates), Update("LOADING"))}
        /\ update.kind # "OVERWRITE" /\ Repeating => Repeating'
  <2> SUFFICES ASSUME updates' \in {Tail(updates), Append(Tail(updates), Update("LOADING"))},
                      update.kind # "OVERWRITE", Repeating
               PROVE  Repeating'
    OBVIOUS
  <2>1. PICK i \in 1 .. Len(updates) : updates[i].kind = "OVERWRITE"
    BY DEF Repeating
  <2>2. /\ Len(updates) \in Nat /\ Tail(updates) \in Seq(GoodUpdates)
        /\ Len(Tail(updates)) = Len(updates) - 1 /\ update = updates[1]
        /\ \A k \in 1 .. Len(Tail(updates)) : Tail(updates)[k] = updates[k + 1]
    BY <1>1, HeadTailProperties, LenProperties
  <2>3. i - 1 \in 1 .. Len(Tail(updates)) /\ Tail(updates)[i - 1].kind = "OVERWRITE"
    BY <2>1, <2>2
  <2>4. i - 1 \in 1 .. Len(updates') /\ updates'[i - 1] = Tail(updates)[i - 1]
    BY <2>2, <2>3
  <2> QED
    BY <2>3, <2>4 DEF Repeating
<1> HIDE DEF update
(* Updates that leave the runs alone. *)
<1>7. ASSUME updates' = Tail(updates), UNCHANGED <<watermark, hydration, sync>>,
             Current' => \/ /\ Current /\ match'.last = match.last
                            /\ update.kind # "OVERWRITE"
                         \/ /\ match'.last <= ToSequence(committed)
                            /\ sync.running => match'.last <= ToSequence(sync.asked)
      PROVE  AnswersInv'
  <2>1. Current' => match'.last <= ToSequence(committed)
    BY <1>4, <1>7
  <2>2. sync.running /\ Current' => \/ Repeating'
                                    \/ match'.last <= watermark'.last
                                    \/ match'.last <= ToSequence(sync.asked)
    BY <1>5, <1>6, <1>7
  <2> QED
    BY <1>1, <1>3, <1>7, <2>1, <2>2, RenderTells
<1>8. CASE update.kind # "OVERWRITE" /\ RunOnMatch(update)
  <2>1. /\ updates' = Tail(updates)
        /\ UNCHANGED <<controller, watermark, hydration, sync, overwritten>>
    BY <1>8 DEF RunOnMatch
  <2>2. match'.status = "READY" => match.status = "READY" /\ match'.last = match.last
    BY <1>1, <1>8, OnMatchTyped
  <2> QED
    BY <1>7, <1>8, <2>1, <2>2 DEF Current
<1>9. CASE RunOverwrite(update)
  <2>1. /\ updates' = Tail(updates)
        /\ UNCHANGED <<controller, watermark, hydration, sync>>
        /\ ~ Current'
    BY <1>9 DEF RunOverwrite, Current
  <2> QED
    BY <1>7, <2>1
<1>10. CASE update.kind = "SYNCED" /\ RunSynced(update)
  <2>1. /\ updates' = Tail(updates) /\ UNCHANGED <<watermark, hydration, sync>>
        /\ match'.last = update.last
    BY <1>10 DEF RunSynced, Match
  <2>2. /\ update.last <= ToSequence(committed)
        /\ sync.running => update.last <= ToSequence(sync.asked)
    BY <1>2, <1>10 DEF Within, AnswersUpTo
  <2> QED
    BY <1>7, <2>1, <2>2
<1>11. CASE update.kind = "COMPLETED" /\ RunCompleted(update)
  <2>1. /\ updates' = Tail(updates)
        /\ UNCHANGED <<match, watermark, hydration, sync, overwritten>>
    BY <1>11 DEF RunCompleted
  <2> QED
    BY <1>7, <1>11, <2>1 DEF Current
<1>12. CASE update.kind = "TRANSITION" /\ RunTransition(update.transition)
  <2> DEFINE t == update.transition
  <2>1. t \in Envelopes /\ t.version \in Nat /\ t.version <= committed
    BY <1>2, <1>12 DEF Within, GoodUpdates, Updates, Envelopes
  <2>2. /\ overwritten' = overwritten
        /\ IF Extends(match, t)
           THEN /\ match' = Advance(match, t)
                /\ watermark' = Watermark(t.snapshot, ToSequence(t.version))
           ELSE UNCHANGED <<match, watermark>>
    BY <1>12 DEF RunTransition
  <2>3. IF MatchMisses(t) /\ ~ sync.running
        THEN /\ sync' = Run(IsInitial(match), 0)
             /\ hydration' = IF IsInitial(match) THEN [on |-> TRUE, buffer |-> {}] ELSE hydration
             /\ updates' = Append(Tail(updates), Update("LOADING"))
        ELSE /\ sync' = IF MatchMisses(t) /\ ~ IsInitial(match)
                        THEN [sync EXCEPT !.again = TRUE] ELSE sync
             /\ updates' = Tail(updates)
             /\ UNCHANGED hydration
    BY <1>12 DEF RunTransition
  <2>4. /\ hydration'.buffer \subseteq hydration.buffer
        /\ updates' \in {Tail(updates), Append(Tail(updates), Update("LOADING"))}
    BY <2>3
  <2>5. sync'.running => sync'.asked = committed \/ (sync.running /\ sync'.asked = sync.asked)
    BY <1>1, <2>3 DEF Run, Syncs
  <2>6. CASE Extends(match, t)
    <3>1. match'.last = ToSequence(t.version) /\ watermark'.last = ToSequence(t.version)
      BY <2>2, <2>6 DEF Advance, Match, Watermark
    <3>2. ToSequence(t.version) \in Nat /\ ToSequence(t.version) <= ToSequence(committed)
      BY <1>1, <2>1, SequenceTyped, SequenceOrder
    <3>3. match'.last <= watermark'.last
      BY <3>1, <3>2
    <3> QED
      BY <1>1, <1>3, <2>4, <2>5, <3>1, <3>2, <3>3, RenderTells
  <2>7. CASE ~ Extends(match, t)
    <3>1. UNCHANGED <<match, watermark>> /\ Current' = Current
      BY <2>2, <2>7 DEF Current
    <3>2. Repeating => Repeating'
      BY <1>6, <1>12, <2>4
    <3> QED
      BY <1>1, <1>3, <1>4, <1>5, <2>4, <2>5, <3>1, <3>2, RenderTells
  <2> QED
    BY <2>6, <2>7
<1> QED
  BY <1>8, <1>9, <1>10, <1>11, <1>12 DEF Render, update

LEMMA InitTells == Init => AnswersInv
<1> SUFFICES ASSUME Init PROVE AnswersInv
  OBVIOUS
<1>1. /\ match = Match("IDLE", 0, 0, FALSE) /\ committed \in 0 .. MaxVersion
      /\ hydration = [on |-> TRUE, buffer |-> {}] /\ sync = Run(TRUE, StartupRetries)
      /\ command = NoCommand /\ updates = <<Update("LOADING")>>
  BY DEF Init
<1>2. ~ Current /\ sync.asked = committed /\ committed \in Nat
  BY <1>1, ClientAssumption DEF Match, Current, Run
<1>3. Update("LOADING") \in Within(committed) /\ Update("LOADING").kind # "SYNCED"
  BY <1>2, QuietUpdates DEF Update
<1>4. Update("LOADING") \in AnswersUpTo(committed)
  BY <1>3 DEF Within
<1>5. updates \in Seq(Within(committed)) /\ updates \in Seq(AnswersUpTo(committed))
  BY <1>1, <1>3, <1>4
<1> QED
  BY <1>1, <1>2, <1>5
     DEF AnswersInv, WithinCommitted, NothingOlderAsked, AnswersKeepWhatIsShown, Current, NoCommand

LEMMA NextTells == ClientInv /\ AnswersInv /\ [Next]_vars => AnswersInv'
<1> SUFFICES ASSUME ClientInv, AnswersInv, [Next]_vars PROVE AnswersInv'
  OBVIOUS
<1>1. ASSUME NEW t \in Transitions, Receive(t) PROVE AnswersInv'
  BY <1>1, ReceiveTells
<1>2. CASE Answer
  BY <1>2, AnswerTells DEF Answer
<1>3. CASE SyncFails
  BY <1>3, FailureTells
<1>4. CASE OpponentTimeout \/ AckTimeout
  BY <1>4, TimeoutTells
<1>5. CASE OthersCommit \/ Decide \/ (\E surrender \in BOOLEAN : SubmitAction(surrender)) \/ Ack
  BY <1>5, CommandTells
<1>6. CASE AnimationEnds
  BY <1>6, AnimationTells
<1>7. CASE Render
  BY <1>7, UpdateTells
<1>8. CASE UNCHANGED vars
  BY <1>8 DEF vars, refs, AnswersInv, WithinCommitted, NothingOlderAsked, AnswersKeepWhatIsShown,
              AnswerAt, Current, Repeating
<1> QED
  BY <1>1, <1>2, <1>3, <1>4, <1>5, <1>6, <1>7, <1>8 DEF Next

LEMMA AnswersInvariant == Spec => []AnswersInv
  BY InitTells, NextTells, ClientInvariant, PTL DEF Spec

(* No answer that waits for React is older than the match it rendered      *)
(* last, whatever waits before it, unless that is a repeated surrender.    *)
(* syncMatch compares the answer with a watermark that may be behind the   *)
(* match, and still no answer in time is older.  Nothing is said of two    *)
(* updates of one batch (AnswersTakeNothingBack, which does not hold).     *)
THEOREM AnswersKeepWhatIsShownHolds == Spec => []AnswersKeepWhatIsShown
<1>1. AnswersInv => AnswersKeepWhatIsShown
  BY DEF AnswersInv
<1> QED
  BY <1>1, AnswersInvariant, PTL

-----------------------------------------------------------------------------
(* The page shows what has happened, one version after the other           *)
(* (MatchView): everything it buffers, queues or has yet to render has     *)
(* happened, and the snapshot that comes with it was taken no earlier.     *)

(* The board of an answer starts where the answer stands, and what waits   *)
(* for its animation has happened, with a snapshot taken since.            *)
Fresh(c) == c.generation = 0 /\ c.snapshot = c.presentation.version

Happened(t, n) == t.version <= t.snapshot /\ t.snapshot <= n

Genuine(c, n) ==
  /\ c.authoritative.version <= n
  /\ c.queue.active # NoTransition => Happened(c.queue.active, n)
  /\ \A i \in 1 .. Len(c.queue.queued) : Happened(c.queue.queued[i], n)

Told(n) ==
  {u \in GoodUpdates :
     /\ u.kind = "TRANSITION" => Happened(u.transition, n)
     /\ u.kind = "SYNCED" => Fresh(u.controller) /\ Genuine(u.controller, n)}

ViewInv ==
  /\ \A t \in hydration.buffer : Happened(t, committed)
  /\ updates \in Seq(Told(committed))
  /\ Genuine(controller, committed)

(* What has happened stays so.                                             *)
LEMMA HappenedStays ==
  ASSUME NEW m \in Nat, NEW n \in Nat, m <= n
  PROVE  /\ \A t \in Envelopes : Happened(t, m) => Happened(t, n)
         /\ \A c : Sound(c) /\ Genuine(c, m) => Genuine(c, n)
         /\ Told(m) \subseteq Told(n) /\ Seq(Told(m)) \subseteq Seq(Told(n))
<1>1. ASSUME NEW t \in Envelopes, Happened(t, m) PROVE Happened(t, n)
  BY <1>1 DEF Happened, Envelopes
<1>2. ASSUME NEW c, Sound(c), Genuine(c, m) PROVE Genuine(c, n)
  <2>1. /\ c.authoritative.version \in Nat /\ c.queue.queued \in Seq(Envelopes)
        /\ c.queue.active \in Envelopes \union {NoTransition}
    BY <1>2 DEF Sound, Controllers, Watermarks, Queues
  <2>2. \A i \in 1 .. Len(c.queue.queued) : c.queue.queued[i] \in Envelopes
    BY <2>1
  <2>3. c.authoritative.version <= n
    BY <1>2, <2>1 DEF Genuine
  <2>4. c.queue.active # NoTransition => Happened(c.queue.active, n)
    BY <1>1, <1>2, <2>1 DEF Genuine
  <2>5. \A i \in 1 .. Len(c.queue.queued) : Happened(c.queue.queued[i], n)
    BY <1>1, <1>2, <2>2 DEF Genuine
  <2> QED
    BY <2>3, <2>4, <2>5 DEF Genuine
<1>3. Told(m) \subseteq Told(n)
  <2> SUFFICES ASSUME NEW u \in Told(m) PROVE u \in Told(n)
    OBVIOUS
  <2>1. u \in GoodUpdates
    BY DEF Told
  <2>2. /\ u.kind = "TRANSITION" => u.transition \in Envelopes
        /\ u.kind = "SYNCED" => Sound(u.controller)
    BY <2>1 DEF GoodUpdates, Updates
  <2> QED
    BY <1>1, <1>2, <2>1, <2>2 DEF Told
<1>4. Seq(Told(m)) \subseteq Seq(Told(n))
  BY <1>3, SeqMonotonic
<1> QED
  BY <1>1, <1>2, <1>3, <1>4

(* The updates that tell the board nothing of the server.                  *)
LEMMA ToldUpdates ==
  ASSUME NEW n \in Nat
  PROVE  /\ \A k \in {"LOADING", "PENDING", "SETTLED", "ERROR"} : Update(k) \in Told(n)
         /\ \A version \in Nat : Overwrite(version) \in Told(n)
         /\ \A token \in [generation : Nat, version : Nat] : Completed(token) \in Told(n)
         /\ \A t \in Envelopes : Happened(t, n) => Received(t) \in Told(n)
<1>1. /\ \A k \in {"LOADING", "PENDING", "SETTLED", "ERROR"} :
           Update(k) \in GoodUpdates /\ Update(k).kind = k
      /\ \A version \in Nat : Overwrite(version) \in GoodUpdates
      /\ \A version : Overwrite(version).kind = "OVERWRITE"
      /\ \A token \in [generation : Nat, version : Nat] : Completed(token) \in GoodUpdates
      /\ \A token : Completed(token).kind = "COMPLETED"
      /\ \A t \in Envelopes : Received(t) \in GoodUpdates
      /\ \A t : Received(t).kind = "TRANSITION" /\ Received(t).transition = t
  BY UpdatesGood DEF Update, Overwrite, Completed, Received
<1> QED
  BY <1>1 DEF Told

(* The queue holds only what it was given.                                 *)
LEMMA JoinKeeps ==
  ASSUME NEW queue \in Queues, NEW last \in Nat, Chained(queue, last),
         NEW t \in Envelopes, t.version = last + 1, ~ HasTransition(queue, t), NEW n \in Nat,
         Happened(t, n), queue.active # NoTransition => Happened(queue.active, n),
         \A i \in 1 .. Len(queue.queued) : Happened(queue.queued[i], n)
  PROVE  LET next == ActivateNext(Enqueue(queue, t))
         IN  \A i \in 1 .. Len(next.queued) : Happened(next.queued[i], n)
<1> DEFINE longer == [queue EXCEPT !.queued = Append(queue.queued, t)]
           next   == ActivateNext(Enqueue(queue, t))
<1>1. queue.queued \in Seq(Envelopes) /\ queue.active \in Envelopes \union {NoTransition}
  BY DEF Queues
<1>2. /\ Len(Append(queue.queued, t)) = Len(queue.queued) + 1
      /\ \A i \in 1 .. Len(queue.queued) : Append(queue.queued, t)[i] = queue.queued[i]
      /\ Append(queue.queued, t)[Len(queue.queued) + 1] = t
      /\ Len(queue.queued) \in Nat
  BY <1>1
<1>3. /\ longer.queued = Append(queue.queued, t) /\ longer.active = queue.active
      /\ longer \in Queues
  BY <1>1 DEF Queues
<1>4. Enqueue(queue, t) = longer
  BY DEF Enqueue
<1> HIDE DEF longer
<1>5. CASE queue.active # NoTransition
  <2>1. next = longer
    BY <1>3, <1>4, <1>5 DEF ActivateNext
  <2>2. \A i \in 1 .. Len(longer.queued) : Happened(longer.queued[i], n)
    <3> TAKE i \in 1 .. Len(longer.queued)
    <3>1. CASE i \in 1 .. Len(queue.queued)
      BY <1>2, <1>3, <3>1
    <3>2. CASE i = Len(queue.queued) + 1
      BY <1>2, <1>3, <3>2
    <3> QED
      BY <1>2, <1>3, <3>1, <3>2
  <2> QED
    BY <2>1, <2>2
<1>6. CASE queue.active = NoTransition
  <2>1. queue.queued = <<>>
    BY <1>6 DEF Chained
  <2>2. longer.queued # <<>> /\ Tail(longer.queued) = <<>>
    BY <1>3, <2>1
  <2>3. next = [longer EXCEPT !.active = Head(longer.queued), !.queued = Tail(longer.queued)]
    BY <1>3, <1>4, <1>6, <2>2 DEF ActivateNext
  <2>4. next.queued = <<>>
    BY <1>3, <2>2, <2>3 DEF Queues
  <2> QED
    BY <2>4
<1> QED
  BY <1>5, <1>6

(* A transition changes the board in one of three ways.                    *)
LEMMA AcceptGenuine ==
  ASSUME NEW c, Sound(c), NEW n \in Nat, Genuine(c, n), NEW t \in Envelopes, Happened(t, n)
  PROVE  LET next == AcceptTransition(c, t)
         IN  /\ Genuine(next, n)
             /\ \/ next = c
                \/ /\ next.queue.active = NoTransition /\ next.generation # 0
                   /\ next.snapshot = c.snapshot /\ next.presentation = c.presentation
                   /\ next.authoritative = c.authoritative
                \/ /\ c.authoritative.version < n
                   /\ next.authoritative.version = c.authoritative.version + 1
                   /\ next.queue.active.version =
                        IF c.queue.active.version = 0 THEN c.authoritative.version + 1
                        ELSE c.queue.active.version
                   /\ next.snapshot = c.snapshot /\ next.presentation = c.presentation
                   /\ next.generation = c.generation
<1> DEFINE next == AcceptTransition(c, t)
<1>1. /\ c \in Controllers /\ c.queue \in Queues /\ c.generation \in Nat
      /\ c.authoritative.version \in Nat /\ t.version \in Nat /\ t.snapshot \in Nat
      /\ c.queue.active \in Envelopes \union {NoTransition}
      /\ Chained(c.queue, c.authoritative.version)
  BY DEF Sound, Controllers, Watermarks, Queues, Envelopes
<1>2. CASE IsKnown(c, t)
  BY <1>2 DEF AcceptTransition
<1>3. CASE ~ IsKnown(c, t) /\ (IsGap(c, t) \/ IsOverlap(c, t))
  <2>1. PICK reason \in {"SEQUENCE_GAP", "SEQUENCE_OVERLAP"} : next = Pause(c, reason)
    BY <1>3 DEF AcceptTransition
  <2> DEFINE empty == CreateQueue(Watermark(c.snapshot, c.presentation.last))
  <2>2. next = [c EXCEPT !.generation = c.generation + 1, !.queue = empty, !.recovery = reason]
    BY <2>1 DEF Pause
  <2>3. empty.active = NoTransition /\ empty.queued = <<>>
    BY DEF CreateQueue
  <2> HIDE DEF empty, next
  <2>4. /\ next.queue = empty /\ next.generation = c.generation + 1
        /\ next.snapshot = c.snapshot /\ next.presentation = c.presentation
        /\ next.authoritative = c.authoritative
    BY <1>1, <2>2 DEF Controllers
  <2>5. Genuine(next, n)
    BY <2>3, <2>4 DEF Genuine
  <2> QED
    BY <1>1, <2>3, <2>4, <2>5 DEF next
<1>4. CASE ~ IsKnown(c, t) /\ ~ IsGap(c, t) /\ ~ IsOverlap(c, t)
  <2> DEFINE queue == ActivateNext(Enqueue(c.queue, t))
  <2>1. t.version = c.authoritative.version + 1 /\ ~ HasTransition(c.queue, t)
    BY <1>4, NextIsNeither DEF IsKnown
  <2>2. /\ c.queue.active # NoTransition => queue.active = c.queue.active
        /\ c.queue.active = NoTransition => queue.active = t
    BY <1>1, <2>1, JoinQueue
  <2>3. \A i \in 1 .. Len(queue.queued) : Happened(queue.queued[i], n)
    <3>1. /\ c.queue.active # NoTransition => Happened(c.queue.active, n)
          /\ \A i \in 1 .. Len(c.queue.queued) : Happened(c.queue.queued[i], n)
      BY DEF Genuine
    <3> QED
      BY <1>1, <2>1, <3>1, JoinKeeps
  <2>4. next = [c EXCEPT !.authoritative = WatermarkOf(t.version), !.queue = queue,
                         !.recovery = "NONE"]
    BY <1>4 DEF AcceptTransition
  <2>5. WatermarkOf(t.version).version = t.version
    BY <1>1, SequenceTyped
  <2> HIDE DEF queue, next
  <2>6. /\ next.authoritative = WatermarkOf(t.version) /\ next.queue = queue
        /\ next.snapshot = c.snapshot /\ next.presentation = c.presentation
        /\ next.generation = c.generation
    BY <1>1, <2>4 DEF Controllers
  <2>7. t.version <= n /\ c.authoritative.version < n
    BY <1>1, <2>1 DEF Happened
  <2>8. Genuine(next, n)
    BY <2>2, <2>3, <2>5, <2>6, <2>7 DEF Genuine
  <2>9. /\ c.queue.active = NoTransition => c.queue.active.version = 0
        /\ c.queue.active # NoTransition => c.queue.active.version # 0
    BY <1>1, NoTransitionIsNone DEF Envelopes
  <2> QED
    BY <2>1, <2>2, <2>5, <2>6, <2>7, <2>8, <2>9 DEF next
<1> QED
  BY <1>2, <1>3, <1>4

(* A finished animation leaves its snapshot, and the next one follows.     *)
LEMMA CompleteGenuine ==
  ASSUME NEW c, Sound(c), NEW n \in Nat, Genuine(c, n), NEW token
  PROVE  LET next == CompletePresentation(c, token)
         IN  /\ Genuine(next, n)
             /\ \/ next = c
                \/ /\ c.queue.active.version # 0
                   /\ next.presentation.version = c.queue.active.version
                   /\ next.snapshot \in c.queue.active.version .. n
                   /\ next.queue.active.version =
                        IF c.queue.active.version < c.authoritative.version
                        THEN c.queue.active.version + 1 ELSE 0
                   /\ next.authoritative = c.authoritative
                   /\ next.generation = c.generation
<1> DEFINE next   == CompletePresentation(c, token)
           active == c.queue.active
           rest   == [c.queue EXCEPT !.active = NoTransition,
                                     !.reconciled = WatermarkOf(active.version)]
           queue  == CompleteActive(c.queue)
<1>1. CASE active = NoTransition \/ token # Token(c)
  BY <1>1 DEF CompletePresentation
<1>2. CASE active # NoTransition /\ token = Token(c)
  <2>1. /\ c \in Controllers /\ c.queue \in Queues /\ c.queue.queued \in Seq(Envelopes)
        /\ active \in Envelopes /\ active.version \in Nat \ {0} /\ active.snapshot \in Nat
        /\ Len(c.queue.queued) \in Nat
        /\ c.authoritative.version \in Nat
    BY <1>2 DEF Sound, Controllers, Queues, Envelopes, Watermarks
  <2>2. /\ \A i \in 1 .. Len(c.queue.queued) :
             c.queue.queued[i].version = active.version + i
        /\ active.version + Len(c.queue.queued) = c.authoritative.version
    BY <1>2 DEF Sound, Chained
  <2>3. WatermarkOf(active.version).version = active.version
    BY <2>1, SequenceTyped
  <2>4. rest \in [queued : Seq(Envelopes), active : {NoTransition},
                  reconciled : {WatermarkOf(active.version)}]
        /\ rest.queued = c.queue.queued /\ rest.active = NoTransition
    BY <2>1 DEF Queues
  <2>5. queue = ActivateNext(rest)
    BY DEF CompleteActive
  <2>6. next = [c EXCEPT !.snapshot = active.snapshot,
                         !.presentation = WatermarkOf(active.version), !.queue = queue]
    BY <1>2 DEF CompletePresentation
  <2>7. /\ active.version <= active.snapshot /\ active.snapshot <= n
        /\ \A i \in 1 .. Len(c.queue.queued) : Happened(c.queue.queued[i], n)
        /\ c.authoritative.version <= n
    BY <1>2 DEF Genuine, Happened
  <2> HIDE DEF rest, queue, next, active
  <2>8. /\ queue.active # NoTransition => Happened(queue.active, n)
        /\ \A i \in 1 .. Len(queue.queued) : Happened(queue.queued[i], n)
        /\ queue.active.version = IF active.version < c.authoritative.version
                                  THEN active.version + 1 ELSE 0
    <3>1. CASE c.queue.queued = <<>>
      <4>1. queue = rest
        BY <2>4, <2>5, <3>1 DEF ActivateNext
      <4>2. active.version = c.authoritative.version
        BY <2>1, <2>2, <3>1
      <4> QED
        BY <2>1, <2>4, <3>1, <4>1, <4>2, NoTransitionIsNone
    <3>2. CASE c.queue.queued # <<>>
      <4> DEFINE first == Head(c.queue.queued)
                 later == Tail(c.queue.queued)
      <4>1. /\ first = c.queue.queued[1]
            /\ Len(later) = Len(c.queue.queued) - 1 /\ Len(later) \in Nat
            /\ \A i \in 1 .. Len(later) : later[i] = c.queue.queued[i + 1]
        BY <2>1, <3>2
      <4>2. queue = [rest EXCEPT !.active = first, !.queued = later]
        BY <2>4, <2>5, <3>2 DEF ActivateNext
      <4> HIDE DEF first, later
      <4>3. queue.active = first /\ queue.queued = later
        BY <2>4, <4>2
      <4>4. 1 \in 1 .. Len(c.queue.queued) /\ Len(c.queue.queued) >= 1
        BY <2>1, <4>1
      <4>5. first.version = active.version + 1 /\ Happened(first, n)
        BY <2>1, <2>2, <2>7, <4>1, <4>4
      <4>6. active.version < c.authoritative.version
        <5>1. active.version + Len(c.queue.queued) = c.authoritative.version
          BY <2>2
        <5> QED
          BY <2>1, <4>4, <5>1
      <4>7. \A i \in 1 .. Len(later) : Happened(later[i], n)
        <5> TAKE i \in 1 .. Len(later)
        <5>1. i + 1 \in 1 .. Len(c.queue.queued) /\ later[i] = c.queue.queued[i + 1]
          BY <2>1, <4>1
        <5> QED
          BY <2>7, <5>1
      <4> QED
        BY <4>3, <4>5, <4>6, <4>7
    <3> QED
      BY <3>1, <3>2
  <2>9. /\ next.queue = queue /\ next.presentation = WatermarkOf(active.version)
        /\ next.snapshot = active.snapshot
        /\ next.authoritative = c.authoritative /\ next.generation = c.generation
    BY <2>1, <2>6 DEF Controllers
  <2>10. Genuine(next, n)
    BY <2>7, <2>8, <2>9 DEF Genuine
  <2>11. next.snapshot \in active.version .. n
    BY <2>1, <2>7, <2>9
  <2> QED
    BY <2>1, <2>3, <2>8, <2>9, <2>10, <2>11 DEF next, active
<1> QED
  BY <1>1, <1>2

(* The board of an answer holds the answer and what was buffered after it. *)
LEMMA ReplayGenuine ==
  ASSUME hydration.buffer \subseteq Transitions, NEW version \in 0 .. MaxVersion,
         version <= committed, committed \in Nat,
         \A t \in hydration.buffer : Happened(t, committed)
  PROVE  LET c == ReplayController(version, LastReplayed(version))
         IN  Fresh(c) /\ Genuine(c, committed)
<1> DEFINE last  == LastReplayed(version)
           c     == ReplayController(version, last)
           start == CreateController(version)
<1>1. /\ version \in Nat /\ last \in Nat /\ version <= last
      /\ \A v \in (version + 1) .. last : v \in BufferedVersions
  BY LastReplayedExists, ClientAssumption
<1>2. \A v \in (version + 1) .. last :
        /\ BufferedAs(v) \in Transitions /\ BufferedAs(v).version = v
        /\ Happened(BufferedAs(v), committed)
  BY <1>1 DEF BufferedVersions, BufferedAs, Buffered
<1>3. /\ start.queue = CreateQueue(WatermarkOf(version)) /\ start.generation = 0
      /\ start.snapshot = version /\ start.presentation = WatermarkOf(version)
      /\ start.authoritative = WatermarkOf(version)
      /\ start.queue.active = NoTransition /\ start.queue.queued = <<>>
  BY DEF CreateController, CreateQueue
<1>4. WatermarkOf(version).version = version /\ WatermarkOf(last).version = last
  BY <1>1, SequenceTyped
<1>5. CASE last = version
  <2>1. c = start
    BY <1>5 DEF ReplayController
  <2> HIDE DEF start
  <2> QED
    BY <1>3, <1>4, <2>1 DEF Fresh, Genuine
<1>6. CASE last # version
  <2> DEFINE first == BufferedAs(version + 1)
             later == [i \in 1 .. (last - version - 1) |-> BufferedAs(version + 1 + i)]
             queue == [start.queue EXCEPT !.active = first, !.queued = later]
  <2>1. version + 1 \in (version + 1) .. last /\ last \in (version + 1) .. last
    BY <1>1, <1>6
  <2>2. Happened(first, committed)
    BY <1>2, <2>1
  <2>3. last <= committed
    <3>1. /\ BufferedAs(last) \in Transitions /\ BufferedAs(last).version = last
          /\ Happened(BufferedAs(last), committed)
      BY <1>2, <2>1
    <3>2. BufferedAs(last).snapshot \in Nat
      BY <3>1 DEF Transitions
    <3> HIDE DEF last
    <3> QED
      BY <1>1, <3>1, <3>2 DEF Happened
  <2>4. last - version - 1 \in Nat
    BY <1>1, <1>6
  <2>5. Len(later) = last - version - 1
    <3>1. later \in [1 .. (last - version - 1) -> {BufferedAs(version + 1 + i) :
                                                     i \in 1 .. (last - version - 1)}]
      OBVIOUS
    <3> HIDE DEF later, last
    <3> QED
      BY <2>4, <3>1, FunctionIsSequence
  <2>6. \A i \in 1 .. Len(later) : Happened(later[i], committed)
    <3> TAKE i \in 1 .. Len(later)
    <3>1. version + 1 + i \in (version + 1) .. last
      BY <1>1, <2>4, <2>5
    <3>2. later[i] = BufferedAs(version + 1 + i)
      BY <2>5
    <3> QED
      BY <1>2, <3>1, <3>2
  <2>7. c = [start EXCEPT !.authoritative = WatermarkOf(last), !.queue = queue]
    <3>1. start.queue = [queued |-> <<>>, active |-> NoTransition,
                         reconciled |-> WatermarkOf(version)]
      BY DEF CreateController, CreateQueue
    <3> QED
      BY <1>6, <3>1 DEF ReplayController, CreateController
  <2>8. queue.active = first /\ queue.queued = later
    BY <1>3 DEF CreateController, CreateQueue
  <2> HIDE DEF first, later, last, queue
  <2>9. /\ c.authoritative = WatermarkOf(last) /\ c.queue = queue
        /\ c.generation = 0 /\ c.snapshot = version /\ c.presentation = WatermarkOf(version)
    BY <1>3, <2>7 DEF CreateController
  <2> HIDE DEF c
  <2>10. Fresh(c)
    BY <1>4, <2>9 DEF Fresh
  <2>11. Genuine(c, committed)
    BY <1>4, <2>2, <2>3, <2>6, <2>8, <2>9 DEF Genuine
  <2> QED
    BY <2>10, <2>11 DEF c, last
<1> QED
  BY <1>5, <1>6

(* What the lemmas about steps start from.                                 *)
LEMMA ViewParts ==
  ASSUME ClientInv, ViewInv
  PROVE  /\ committed \in Nat /\ updates \in Seq(GoodUpdates) /\ Sound(controller)
         /\ hydration.buffer \subseteq Transitions /\ Transitions \subseteq Envelopes
         /\ \A k \in {"LOADING", "PENDING", "SETTLED", "ERROR"} :
              <<Update(k)>> \in Seq(Told(committed))
         /\ <<>> \in Seq(Told(committed)) /\ Queue(<<>>) <=> updates' = updates
<1>1. /\ committed \in Nat /\ updates \in Seq(GoodUpdates) /\ Sound(controller)
      /\ hydration.buffer \subseteq Transitions
  BY ClientAssumption DEF ClientInv, TypeOK, Buffers
<1>2. \A k \in {"LOADING", "PENDING", "SETTLED", "ERROR"} : Update(k) \in Told(committed)
  BY <1>1, ToldUpdates
<1>3. updates \o <<>> = updates
  BY <1>1, ConcatEmptySeq
<1> QED
  BY <1>1, <1>2, <1>3, TransitionsAreEnvelopes DEF Queue

(* A handler leaves the board alone; the server may go on meanwhile.       *)
LEMMA HandlerViews ==
  ASSUME ClientInv, ViewInv, committed' \in Nat, committed <= committed',
         NEW new \in Seq(Told(committed')), Queue(new), controller' = controller,
         \A t \in hydration'.buffer : t \in hydration.buffer \/ Happened(t, committed')
  PROVE  ViewInv'
<1>1. /\ committed \in Nat /\ Sound(controller)
      /\ hydration.buffer \subseteq Envelopes /\ updates \in Seq(Told(committed))
      /\ Genuine(controller, committed)
      /\ \A t \in hydration.buffer : Happened(t, committed)
  BY ViewParts DEF ViewInv
<1>2. updates \in Seq(Told(committed'))
  BY <1>1, HappenedStays
<1>3. updates' \in Seq(Told(committed'))
  BY <1>2, ConcatProperties DEF Queue
<1>4. Genuine(controller', committed')
  BY <1>1, HappenedStays
<1>5. \A t \in hydration'.buffer : Happened(t, committed')
  BY <1>1, HappenedStays
<1> QED
  BY <1>3, <1>4, <1>5 DEF ViewInv

(* Asking for a snapshot tells the board nothing.                          *)
LEMMA AskViews ==
  ASSUME ClientInv, ViewInv, NEW initial, NEW before \in Seq(Told(committed)),
         SyncMatch(initial, before), UNCHANGED <<committed, controller>>
  PROVE  ViewInv'
<1>1. /\ committed \in Nat /\ <<Update("LOADING")>> \in Seq(Told(committed))
  BY ViewParts
<1>2. CASE sync.running
  <2>1. Queue(before) /\ hydration' = hydration
    BY <1>2 DEF SyncMatch
  <2> QED
    BY <1>1, <2>1, HandlerViews
<1>3. CASE ~ sync.running
  <2> DEFINE new == before \o <<Update("LOADING")>>
  <2>1. /\ Queue(new)
        /\ hydration' = hydration \/ hydration' = [on |-> TRUE, buffer |-> {}]
    BY <1>3 DEF SyncMatch
  <2>2. new \in Seq(Told(committed))
    BY <1>1, ConcatProperties
  <2>3. hydration'.buffer \subseteq hydration.buffer
    BY <2>1
  <2> HIDE DEF new
  <2> QED
    BY <1>1, <2>1, <2>2, <2>3, HandlerViews
<1> QED
  BY <1>2, <1>3

(* The end of a run tells the board what it brings.                        *)
LEMMA EndViews ==
  ASSUME ClientInv, ViewInv, NEW again \in BOOLEAN, NEW before \in Seq(Told(committed)),
         EndRun(again, before), hydration'.buffer \subseteq hydration.buffer,
         UNCHANGED <<committed, controller>>
  PROVE  ViewInv'
<1> DEFINE after == IF again THEN <<Update("LOADING")>> ELSE <<>>
           new   == before \o after
<1>1. /\ committed \in Nat /\ <<Update("LOADING")>> \in Seq(Told(committed))
      /\ <<>> \in Seq(Told(committed))
  BY ViewParts
<1>2. Queue(new)
  BY DEF EndRun
<1>3. new \in Seq(Told(committed))
  BY <1>1, ConcatProperties
<1> HIDE DEF new
<1> QED
  BY <1>1, <1>2, <1>3, HandlerViews

(* An answer is what the service had when it answered.                     *)
LEMMA AnswerViews ==
  ASSUME ClientInv, ViewInv, NEW version \in 0 .. MaxVersion, SyncAnswered(version)
  PROVE  ViewInv'
<1> DEFINE last     == LastReplayed(version)
           snapshot == IF last = version THEN version ELSE BufferedAs(last).snapshot
           c        == ReplayController(version, last)
           missing  == \E v \in BufferedVersions : v > last
           update   == Synced(c, snapshot, ToSequence(last))
<1>1. /\ committed \in Nat /\ hydration.buffer \subseteq Transitions
      /\ <<>> \in Seq(Told(committed)) /\ sync.again \in BOOLEAN
  BY ViewParts DEF ClientInv, TypeOK, Syncs
<1>2. /\ version <= committed
      /\ hydration' = IF sync.initial THEN NoBuffer ELSE hydration
      /\ UNCHANGED <<committed, controller>>
  BY DEF SyncAnswered
<1>3. hydration'.buffer \subseteq hydration.buffer
  BY <1>2 DEF NoBuffer
<1>4. CASE IsOutdated(version)
  <2>1. EndRun(sync.again, <<>>)
    BY <1>4 DEF SyncAnswered
  <2> QED
    BY <1>1, <1>2, <1>3, <2>1, EndViews
<1>5. CASE ~ IsOutdated(version)
  <2>1. EndRun(sync.again \/ (missing /\ version # 0), <<update>>)
    BY <1>5 DEF SyncAnswered
  <2>2. /\ last \in Nat /\ snapshot \in Nat
        /\ Sound(c) /\ c.recovery = "NONE" /\ c.authoritative.last = ToSequence(last)
    <3>1. version \in Nat
      BY ClientAssumption
    <3> QED
      BY <1>1, <3>1, ReplaySound
  <2>3. Fresh(c) /\ Genuine(c, committed)
    BY <1>1, <1>2, ReplayGenuine DEF ViewInv
  <2>4. update.kind = "SYNCED" /\ update.controller = c
    BY DEF Synced
  <2>5. (sync.again \/ (missing /\ version # 0)) \in BOOLEAN
    OBVIOUS
  <2> HIDE DEF snapshot, c, missing
  <2>6. update \in GoodUpdates
    BY <2>2, SequenceTyped, SyncedGood
  <2> HIDE DEF update, last
  <2>7. <<update>> \in Seq(Told(committed))
    BY <2>3, <2>4, <2>6 DEF Told
  <2> QED
    BY <1>2, <1>3, <2>1, <2>5, <2>7, EndViews
<1> QED
  BY <1>4, <1>5

(* Every handler leaves the board alone and knows only what has happened;  *)
(* at most one version is committed by a step.                             *)
LEMMA HandlersView ==
  ASSUME ClientInv, AnswersInv, ViewInv, Next, ~ Render
  PROVE  /\ ViewInv' /\ controller' = controller
         /\ committed' = committed \/ committed' = committed + 1
<1>1. /\ committed \in Nat /\ hydration.buffer \subseteq Transitions
      /\ Transitions \subseteq Envelopes
      /\ \A k \in {"LOADING", "PENDING", "SETTLED", "ERROR"} :
           <<Update(k)>> \in Seq(Told(committed))
      /\ <<>> \in Seq(Told(committed)) /\ Queue(<<>>) <=> updates' = updates
  BY ViewParts
<1>2. ASSUME NEW new \in Seq(Told(committed)), Queue(new), controller' = controller,
             hydration' = hydration, committed' = committed
      PROVE  ViewInv'
  BY <1>1, <1>2, HandlerViews
<1>3. ASSUME NEW t \in Transitions, Receive(t)
      PROVE  ViewInv' /\ controller' = controller /\ committed' = committed
  <2>1. /\ Happened(t, committed) /\ UNCHANGED <<committed, controller>>
    BY <1>3 DEF Receive, Happened
  <2>2. CASE hydration.on
    <3>1. /\ updates' = updates
          /\ hydration' = [hydration EXCEPT !.buffer =
                 IF \E b \in hydration.buffer : b.version = t.version THEN hydration.buffer
                 ELSE hydration.buffer \union {t}]
      BY <1>3, <2>2 DEF Receive
    <3>2. hydration'.buffer \subseteq hydration.buffer \union {t}
      BY <3>1 DEF ClientInv, TypeOK, Buffers
    <3>3. \A b \in hydration'.buffer : b \in hydration.buffer \/ Happened(b, committed')
      BY <2>1, <3>2
    <3>4. Queue(<<>>)
      BY <1>1, <3>1
    <3>5. committed' = committed /\ controller' = controller
      BY <2>1
    <3>6. committed' \in Nat /\ committed <= committed'
      BY <1>1, <3>5
    <3>7. <<>> \in Seq(Told(committed'))
      OBVIOUS
    <3> QED
      BY <3>3, <3>4, <3>5, <3>6, <3>7, HandlerViews
  <2>3. CASE ~ hydration.on
    <3>1. hydration' = hydration /\ Queue(<<Received(t)>>)
      BY <1>3, <2>3 DEF Receive
    <3>2. Received(t) \in Told(committed)
      BY <1>1, <2>1, ToldUpdates
    <3>3. <<Received(t)>> \in Seq(Told(committed))
      BY <3>2
    <3> QED
      BY <1>2, <2>1, <3>1, <3>3
  <2> QED
    BY <2>1, <2>2, <2>3
<1>4. CASE Answer
  <2>1. PICK version \in 0 .. MaxVersion : SyncAnswered(version)
    BY <1>4 DEF Answer
  <2> QED
    BY <2>1, AnswerViews DEF SyncAnswered
<1>5. CASE SyncFails
  <2>1. UNCHANGED <<committed, controller, hydration>>
    BY <1>5 DEF SyncFails
  <2>2. CASE sync.retries > 0
    <3>1. updates' = updates
      BY <1>5, <2>2 DEF SyncFails
    <3> QED
      BY <1>1, <1>2, <2>1, <3>1
  <2>3. CASE ~ (sync.retries > 0)
    <3>1. EndRun(sync.again, <<Update("ERROR")>>) /\ sync.again \in BOOLEAN
      BY <1>5, <2>3 DEF SyncFails, ClientInv, TypeOK, Syncs
    <3> QED
      BY <1>1, <2>1, <3>1, EndViews
  <2> QED
    BY <2>1, <2>2, <2>3
<1>6. CASE OpponentTimeout \/ AckTimeout
  <2>1. /\ UNCHANGED <<committed, controller>>
        /\ SyncMatch(IsInitial(match), <<>>) \/ UNCHANGED <<sync, hydration, updates>>
    BY <1>6 DEF OpponentTimeout, AckTimeout
  <2>2. CASE SyncMatch(IsInitial(match), <<>>)
    <3>1. <<>> \in Seq(Told(committed)) /\ UNCHANGED <<committed, controller>>
      BY <1>1, <2>1
    <3>2. ViewInv'
      BY <2>2, <3>1, AskViews
    <3> QED
      BY <2>1, <3>2
  <2>3. CASE UNCHANGED <<sync, hydration, updates>>
    BY <1>1, <1>2, <2>1, <2>3
  <2> QED
    BY <2>1, <2>2, <2>3
<1>7. CASE OthersCommit \/ Decide
  <2>1. /\ committed' = committed \/ committed' = committed + 1
        /\ UNCHANGED <<controller, hydration, updates>>
    BY <1>7 DEF OthersCommit, Decide, refs
  <2>2. committed' \in Nat /\ committed <= committed' /\ Queue(<<>>)
        /\ <<>> \in Seq(Told(committed'))
    BY <1>1, <2>1
  <2> QED
    BY <2>1, <2>2, HandlerViews
<1>8. ASSUME NEW surrender \in BOOLEAN, SubmitAction(surrender)
      PROVE  ViewInv' /\ controller' = controller /\ committed' = committed
  <2>1. Queue(<<Update("PENDING")>>) /\ UNCHANGED <<committed, controller, hydration>>
    BY <1>8 DEF SubmitAction
  <2> QED
    BY <1>1, <1>2, <2>1
<1>9. CASE AckAccepted
  <2> DEFINE t == [version |-> command.version, snapshot |-> command.version]
  <2>1. /\ Queue(<<Update("SETTLED"), Received(t)>>) /\ command.stage = "ACCEPTED"
        /\ UNCHANGED <<committed, controller, hydration>>
    BY <1>9 DEF AckAccepted
  <2>2. /\ t \in Envelopes /\ Happened(t, committed)
    <3>1. command.version \in Nat \ {0} /\ command.version <= committed
      BY <2>1 DEF ClientInv, TypeOK, Commands, AnswersInv, WithinCommitted
    <3> QED
      BY <3>1 DEF Happened, Envelopes
  <2> HIDE DEF t
  <2>3. Received(t) \in Told(committed) /\ Update("SETTLED") \in Told(committed)
    BY <1>1, <2>2, ToldUpdates
  <2>4. <<Update("SETTLED"), Received(t)>> \in Seq(Told(committed))
    BY <2>3
  <2> QED
    BY <1>2, <2>1, <2>4
<1>10. CASE AckRefused
  <2>1. Queue(<<Update("SETTLED")>>) /\ UNCHANGED <<committed, controller, hydration>>
    BY <1>10 DEF AckRefused
  <2> QED
    BY <1>1, <1>2, <2>1
<1>11. CASE AckStale
  <2>1. /\ SyncMatch(command.initial, <<Update("SETTLED")>>)
        /\ UNCHANGED <<committed, controller>>
    BY <1>11 DEF AckStale
  <2> QED
    BY <1>1, <2>1, AskViews
<1>12. CASE SurrenderAgain
  <2>1. Queue(<<Overwrite(command.version)>>) /\ UNCHANGED <<committed, controller, hydration>>
    BY <1>12 DEF SurrenderAgain
  <2>2. Overwrite(command.version) \in Told(committed)
    <3>1. command.version \in Nat
      BY DEF ClientInv, TypeOK, Commands
    <3> QED
      BY <1>1, <3>1, ToldUpdates
  <2>3. <<Overwrite(command.version)>> \in Seq(Told(committed))
    BY <2>2
  <2> QED
    BY <1>2, <2>1, <2>3
<1>13. CASE AnimationEnds
  <2>1. Queue(<<Completed(Token(controller))>>) /\ UNCHANGED <<committed, controller, hydration>>
    BY <1>13 DEF AnimationEnds, refs
  <2>2. Token(controller) \in [generation : Nat, version : Nat]
    BY DEF Token, Envelopes, NoTransition, ClientInv, TypeOK, Controllers, Queues
  <2>3. Completed(Token(controller)) \in Told(committed)
    BY <1>1, <2>2, ToldUpdates
  <2>4. <<Completed(Token(controller))>> \in Seq(Told(committed))
    BY <2>3
  <2> QED
    BY <1>2, <2>1, <2>4
<1> QED
  BY <1>3, <1>4, <1>5, <1>6, <1>7, <1>8, <1>9, <1>10, <1>11, <1>12, <1>13 DEF Next, Ack

(* Running an update: the board moves as MatchView allows.                 *)
LEMMA RenderViews ==
  ASSUME ClientInv, ViewInv, Render
  PROVE  /\ ViewInv' /\ committed' = committed
         /\ \/ controller' = controller
            \/ View!Learn \/ View!Finish \/ View!Stop
            \/ \E last \in 0 .. committed : \E version \in 0 .. last : View!Load(version, last)
<1> DEFINE update == Head(updates)
<1>1. /\ committed \in Nat /\ updates \in Seq(Told(committed)) /\ updates # <<>>
      /\ Genuine(controller, committed) /\ Sound(controller)
      /\ \A t \in hydration.buffer : Happened(t, committed)
      /\ Update("LOADING") \in Told(committed)
  BY ViewParts, ToldUpdates DEF ViewInv, Render
<1>2. update \in Told(committed) /\ Tail(updates) \in Seq(Told(committed))
  BY <1>1, HeadTailProperties
<1>3. committed' = committed
  BY DEF Render
<1> HIDE DEF update
<1>4. ASSUME Genuine(controller', committed), hydration'.buffer \subseteq hydration.buffer,
             updates' \in {Tail(updates), Append(Tail(updates), Update("LOADING"))}
      PROVE  ViewInv'
  <2>1. updates' \in Seq(Told(committed'))
    <3>1. Append(Tail(updates), Update("LOADING")) \in Seq(Told(committed))
      BY <1>1, <1>2
    <3> QED
      BY <1>2, <1>3, <1>4, <3>1
  <2>2. Genuine(controller', committed')
    BY <1>3, <1>4
  <2>3. \A t \in hydration'.buffer : Happened(t, committed')
    BY <1>1, <1>3, <1>4
  <2> QED
    BY <2>1, <2>2, <2>3 DEF ViewInv
<1>5. CASE RunOnMatch(update) \/ RunOverwrite(update)
  <2>1. updates' = Tail(updates) /\ UNCHANGED <<controller, hydration>>
    BY <1>5 DEF RunOnMatch, RunOverwrite
  <2> QED
    BY <1>1, <1>3, <1>4, <2>1
<1>6. CASE update.kind = "SYNCED" /\ RunSynced(update)
  <2> DEFINE c == update.controller
  <2>1. updates' = Tail(updates) /\ hydration' = hydration /\ controller' = c
    BY <1>6 DEF RunSynced
  <2>2. Fresh(c) /\ Genuine(c, committed) /\ Sound(c)
    BY <1>2, <1>6 DEF Told, GoodUpdates
  <2> HIDE DEF c
  <2>3. ViewInv'
    BY <1>4, <2>1, <2>2
  <2> DEFINE version == c.presentation.version
             last    == c.authoritative.version
  <2>4. /\ version \in Nat /\ last \in Nat /\ version <= last /\ last <= committed
        /\ c.queue.active \in Envelopes \union {NoTransition}
    BY <2>2 DEF Sound, Controllers, Watermarks, Queues, Genuine
  <2>5. /\ c.generation = 0 /\ c.snapshot = version
        /\ c.queue.active.version = IF last = version THEN 0 ELSE version + 1
    <3>1. /\ c.generation = 0 /\ c.snapshot = version
          /\ IF c.queue.active = NoTransition THEN version = last
             ELSE c.queue.active.version = version + 1
          /\ Chained(c.queue, last)
      BY <2>2 DEF Fresh, Sound, InOrder
    <3>2. c.queue.active # NoTransition => last # version
      <4>1. c.queue.queued \in Seq(Envelopes)
        BY <2>2 DEF Sound, Controllers, Queues
      <4>2. Len(c.queue.queued) \in Nat
        BY <4>1
      <4> QED
        BY <2>4, <3>1, <4>2 DEF Chained
    <3> QED
      BY <3>1, <3>2, NoTransitionIsNone
  <2>6. View!Load(version, last)
    BY <1>3, <2>1, <2>5 DEF View!Load
  <2>7. version \in 0 .. last /\ last \in 0 .. committed
    BY <1>1, <2>4
  <2> QED
    BY <1>3, <2>3, <2>6, <2>7
<1>7. CASE update.kind = "COMPLETED" /\ RunCompleted(update)
  <2>1. /\ updates' = Tail(updates) /\ hydration' = hydration
        /\ controller' = CompletePresentation(controller, update.token)
    BY <1>7 DEF RunCompleted
  <2>2. /\ Genuine(controller', committed)
        /\ \/ controller' = controller
           \/ /\ controller.queue.active.version # 0
              /\ controller'.presentation.version = controller.queue.active.version
              /\ controller'.snapshot \in controller.queue.active.version .. committed
              /\ controller'.queue.active.version =
                   IF controller.queue.active.version < controller.authoritative.version
                   THEN controller.queue.active.version + 1 ELSE 0
              /\ controller'.authoritative = controller.authoritative
              /\ controller'.generation = controller.generation
    BY <1>1, <2>1, CompleteGenuine
  <2>3. ViewInv'
    BY <1>4, <2>1, <2>2
  <2>4. controller' = controller \/ View!Finish
    BY <1>3, <2>2 DEF View!Finish
  <2> QED
    BY <1>3, <2>3, <2>4
<1>8. CASE update.kind = "TRANSITION" /\ RunTransition(update.transition)
  <2> DEFINE t    == update.transition
             next == AcceptTransition(controller, t)
  <2>1. t \in Envelopes /\ Happened(t, committed)
    BY <1>2, <1>8 DEF Told, GoodUpdates, Updates
  <2>2. /\ controller' = controller \/ controller' = next
        /\ hydration'.buffer \subseteq hydration.buffer
        /\ updates' \in {Tail(updates), Append(Tail(updates), Update("LOADING"))}
    BY <1>8 DEF RunTransition, Follow
  <2>3. /\ Genuine(next, committed)
        /\ \/ next = controller
           \/ /\ next.queue.active = NoTransition /\ next.generation # 0
              /\ next.snapshot = controller.snapshot
              /\ next.presentation = controller.presentation
              /\ next.authoritative = controller.authoritative
           \/ /\ controller.authoritative.version < committed
              /\ next.authoritative.version = controller.authoritative.version + 1
              /\ next.queue.active.version =
                   IF controller.queue.active.version = 0
                   THEN controller.authoritative.version + 1
                   ELSE controller.queue.active.version
              /\ next.snapshot = controller.snapshot
              /\ next.presentation = controller.presentation
              /\ next.generation = controller.generation
    BY <1>1, <2>1, AcceptGenuine
  <2> HIDE DEF next
  <2>4. ViewInv'
    BY <1>1, <1>4, <2>2, <2>3
  <2>5. \/ controller' = controller \/ View!Learn \/ View!Stop
    BY <1>3, <2>2, <2>3, NoTransitionIsNone DEF View!Learn, View!Stop
  <2> QED
    BY <1>3, <2>4, <2>5
<1> QED
  BY <1>5, <1>6, <1>7, <1>8 DEF Render, update

(* A page that opens shows and knows nothing.                              *)
LEMMA InitView == Init => ViewInv /\ View!ViewInit
<1> SUFFICES ASSUME Init PROVE ViewInv /\ View!ViewInit
  OBVIOUS
<1>1. /\ committed \in 0 .. MaxVersion /\ controller = NoController
      /\ hydration = [on |-> TRUE, buffer |-> {}] /\ updates = <<Update("LOADING")>>
  BY DEF Init
<1>2. committed \in Nat
  BY <1>1, ClientAssumption
<1>3. /\ controller.generation = 0 /\ controller.snapshot = 0
      /\ controller.authoritative.version = 0 /\ controller.presentation.version = 0
      /\ controller.queue.active = NoTransition /\ controller.queue.queued = <<>>
      /\ NoTransition.version = 0
  BY <1>1 DEF NoController, WatermarkOf, Watermark, CreateQueue, NoTransition
<1>4. Genuine(controller, committed)
  BY <1>2, <1>3 DEF Genuine
<1>5. updates \in Seq(Told(committed))
  <2>1. Update("LOADING") \in Told(committed)
    BY <1>2, ToldUpdates
  <2> QED
    BY <1>1, <2>1
<1>6. View!ViewInit
  BY <1>2, <1>3 DEF View!ViewInit
<1> QED
  BY <1>1, <1>4, <1>5, <1>6 DEF ViewInv

(* Every step of the page is one of MatchView, or none.                    *)
LEMMA NextView ==
  ClientInv /\ AnswersInv /\ ViewInv /\ [Next]_vars =>
    ViewInv' /\ [View!ViewNext]_View!viewVars
<1> SUFFICES ASSUME ClientInv, AnswersInv, ViewInv, [Next]_vars
             PROVE  ViewInv' /\ [View!ViewNext]_View!viewVars
  OBVIOUS
<1>1. CASE Render
  <2>1. controller' = controller /\ committed' = committed => UNCHANGED View!viewVars
    BY DEF View!viewVars
  <2> QED
    BY <1>1, <2>1, RenderViews DEF View!ViewNext
<1>2. CASE Next /\ ~ Render
  <2>1. /\ ViewInv' /\ controller' = controller
        /\ committed' = committed \/ committed' = committed + 1
    BY <1>2, HandlersView
  <2>2. CASE committed' = committed
    BY <2>1, <2>2 DEF View!viewVars
  <2>3. CASE committed' = committed + 1
    BY <2>1, <2>3 DEF View!ViewNext, View!Commit
  <2> QED
    BY <2>1, <2>2, <2>3
<1>3. CASE UNCHANGED vars
  BY <1>3 DEF vars, refs, ViewInv, View!viewVars
<1> QED
  BY <1>1, <1>2, <1>3

(* The page keeps the promises of MatchView.                               *)
THEOREM ClientImplementsMatchView == Spec => ImplementsView
<1>1. Init => ViewInv /\ View!ViewInit
  BY InitView
<1>2. ClientInv /\ AnswersInv /\ ViewInv /\ [Next]_vars =>
        ViewInv' /\ [View!ViewNext]_View!viewVars
  BY NextView
<1> QED
  BY <1>1, <1>2, ClientInvariant, AnswersInvariant, PTL DEF Spec, ImplementsView, View!ViewSpec

(* What MatchView sees of a page are numbers.                              *)
LEMMA ViewNumbers ==
  ASSUME ClientInv
  PROVE  /\ committed \in Nat /\ controller.presentation.version \in Nat
         /\ controller.snapshot \in Nat /\ controller.authoritative.version \in Nat
         /\ controller.queue.active.version \in Nat
  BY ClientAssumption, NoTransitionIsNone
     DEF ClientInv, TypeOK, Controllers, Watermarks, Queues, Envelopes

(* Nothing is on the board that has not happened; what is animated is news,*)
(* and as long as nothing was missing it starts where the board stands.    *)
THEOREM ShowsWhatHappenedHolds == Spec => []View!ShowsWhatHappened
<1>1. Init => View!ShowsWhatHappened
  <2>1. View!ViewInit => View!ShowsWhatHappened
    BY DEF View!ViewInit, View!ShowsWhatHappened
  <2> QED
    BY <2>1, InitView
<1>2. ClientInv /\ [View!ViewNext]_View!viewVars /\ View!ShowsWhatHappened
        => View!ShowsWhatHappened'
  <2> SUFFICES ASSUME ClientInv, [View!ViewNext]_View!viewVars, View!ShowsWhatHappened
               PROVE  View!ShowsWhatHappened'
    OBVIOUS
  <2>1. /\ committed \in Nat /\ controller.presentation.version \in Nat
        /\ controller.snapshot \in Nat /\ controller.authoritative.version \in Nat
        /\ controller.queue.active.version \in Nat
    BY ViewNumbers
  <2>2. CASE View!Commit
    BY <2>1, <2>2 DEF View!Commit, View!ShowsWhatHappened
  <2>3. CASE View!Learn
    BY <2>1, <2>3 DEF View!Learn, View!ShowsWhatHappened
  <2>4. CASE View!Finish
    BY <2>1, <2>4 DEF View!Finish, View!ShowsWhatHappened
  <2>5. CASE View!Stop
    BY <2>1, <2>5 DEF View!Stop, View!ShowsWhatHappened
  <2>6. CASE \E last \in 0 .. committed : \E version \in 0 .. last : View!Load(version, last)
    BY <2>1, <2>6 DEF View!Load, View!ShowsWhatHappened
  <2>7. CASE UNCHANGED View!viewVars
    BY <2>7 DEF View!viewVars, View!ShowsWhatHappened
  <2> QED
    BY <2>2, <2>3, <2>4, <2>5, <2>6, <2>7 DEF View!ViewNext
<1> QED
  BY <1>1, <1>2, ClientInvariant, ClientImplementsMatchView, PTL
     DEF Spec, ImplementsView, View!ViewSpec

-----------------------------------------------------------------------------
(* The connection of the page (RealtimeGateway): another state of the same *)
(* page, for the same match.                                               *)

(* A version that is known to the page, or on its way to it, once it has   *)
(* the snapshot of the version seen.                                       *)
Reaches(seen) == (1 .. seen) \union heard \union events

(* What makes the order of the requests safe: an answered JOIN has         *)
(* subscribed this connection, SYNC is only asked on a connection that is, *)
(* and from its answer on nothing is missed.                               *)
GatewayInv ==
  /\ stored \in Nat /\ published \subseteq 1 .. stored
  /\ request \in [Requests -> {"NONE", "SENT", "ANSWERED"}]
  /\ request["JOIN"] = "ANSWERED" /\ participant => subscribed
  /\ request["SYNC"] # "NONE" => subscribed
  /\ request["SYNC"] = "ANSWERED" => published \subseteq Reaches(answer)
  /\ steady = "YES" => subscribed /\ published \subseteq Reaches(snapshotVersion)

LEMMA GatewayInit == ConnectionInit => GatewayInv
BY DEF ConnectionInit, GatewayInv, NoRequests, Requests, Reaches

(* Nothing of the connection survives its loss.                            *)
LEMMA ConnectionLost ==
  ASSUME GatewayInv, subscribed' = FALSE, request' = NoRequests, steady' = "NO",
         UNCHANGED <<stored, published>>
  PROVE  GatewayInv'
BY DEF GatewayInv, NoRequests, Requests

(* Asking for a join changes nothing that was promised.                    *)
LEMMA JoinsAsked ==
  ASSUME GatewayInv, NEW asked \in SUBSET {"JOIN", "REJOIN"}, request' = Sent(asked),
         steady' = "YES" => steady = "YES",
         UNCHANGED <<heard, snapshotVersion, answer, participant, subscribed, events, stored,
                     published>>
  PROVE  GatewayInv'
<1>1. /\ request' \in [Requests -> {"NONE", "SENT", "ANSWERED"}]
      /\ request'["SYNC"] = request["SYNC"]
      /\ request'["JOIN"] = "ANSWERED" => request["JOIN"] = "ANSWERED"
  BY DEF GatewayInv, Sent, Requests
<1> QED
  BY <1>1 DEF GatewayInv, Reaches

LEMMA GatewayStep == GatewayInv /\ [ConnectionNext]_connectionVars => GatewayInv'
<1> SUFFICES ASSUME GatewayInv, [ConnectionNext]_connectionVars PROVE GatewayInv'
  OBVIOUS
<1>1. CASE UNCHANGED connectionVars
  BY <1>1 DEF GatewayInv, Reaches, connectionVars, page, server, matchVars
<1>2. CASE StartRun
  <2>1. CASE socket = "CONNECTED"
    BY <1>2, <2>1, JoinsAsked DEF StartRun, Joining, matchVars
  <2>2. CASE socket # "CONNECTED"
    BY <1>2, <2>2 DEF StartRun, matchVars, GatewayInv, Reaches
  <2> QED
    BY <2>1, <2>2
<1>3. CASE Opened
  <2>1. \E asked \in SUBSET {"JOIN", "REJOIN"} : request' = Sent(asked)
    BY <1>3 DEF Opened
  <2> QED
    BY <1>3, <2>1, JoinsAsked DEF Opened, Joining, matchVars
<1>4. CASE OpenFails \/ Refused
  <2>1. UNCHANGED <<heard, snapshotVersion, request, answer, participant, subscribed, events,
                    stored, published, steady>>
    BY <1>4 DEF OpenFails, Refused, server, matchVars
  <2> QED
    BY <2>1 DEF GatewayInv, Reaches
<1>5. CASE Drop \/ Disconnect \/ \E r \in Joins : JoinFails(r)
  BY <1>5, ConnectionLost
     DEF Drop, Disconnect, JoinFails, LoseConnection, matchVars
<1>6. ASSUME NEW r \in Joins, HandleJoin(r) PROVE GatewayInv'
  <2>1. /\ request' \in [Requests -> {"NONE", "SENT", "ANSWERED"}]
        /\ request'["SYNC"] = request["SYNC"] /\ (participant => subscribed')
        /\ subscribed => subscribed'
    BY <1>6 DEF HandleJoin, Joins, Requests, GatewayInv
  <2> QED
    BY <1>6, <2>1 DEF HandleJoin, page, matchVars, GatewayInv, Reaches
<1>7. CASE HandleSync
  <2>1. /\ request' \in [Requests -> {"NONE", "SENT", "ANSWERED"}]
        /\ request'["JOIN"] = request["JOIN"] /\ subscribed
    BY <1>7 DEF HandleSync, Requests, GatewayInv
  <2> QED
    BY <1>7, <2>1 DEF HandleSync, page, matchVars, GatewayInv, Reaches
<1>8. CASE SyncUnanswered
  <2>1. /\ request' \in [Requests -> {"NONE", "SENT", "ANSWERED"}]
        /\ request'["JOIN"] = request["JOIN"] /\ request'["SYNC"] = "NONE"
    BY <1>8 DEF SyncUnanswered, Requests, GatewayInv
  <2> QED
    BY <1>8, <2>1 DEF SyncUnanswered, page, matchVars, GatewayInv, Reaches
<1>9. CASE Joined
  <2>1. request["JOIN"] = "ANSWERED" /\ (participant => subscribed)
    BY <1>9 DEF Joined, GatewayInv
  <2>2. /\ request' \in [Requests -> {"NONE", "SENT", "ANSWERED"}]
        /\ request'["JOIN"] = "NONE"
        /\ IF participant THEN request'["SYNC"] = "SENT" ELSE request'["SYNC"] = request["SYNC"]
    BY <1>9 DEF Joined, Sent, Requests, GatewayInv
  <2> QED
    BY <1>9, <2>1, <2>2 DEF Joined, matchVars, GatewayInv, Reaches
<1>10. CASE Rejoined
  <2>1. /\ request' \in [Requests -> {"NONE", "SENT", "ANSWERED"}]
        /\ request'["JOIN"] = request["JOIN"] /\ request'["SYNC"] = request["SYNC"]
    BY <1>10 DEF Rejoined, Requests, GatewayInv
  <2> QED
    BY <1>10, <2>1 DEF Rejoined, page, matchVars, GatewayInv, Reaches
<1>11. CASE SnapshotArrives
  <2>1. /\ subscribed /\ published \subseteq Reaches(answer)
        /\ request' \in [Requests -> {"NONE", "SENT", "ANSWERED"}]
        /\ request'["JOIN"] = request["JOIN"] /\ request'["SYNC"] = "NONE"
    BY <1>11 DEF SnapshotArrives, Requests, GatewayInv
  <2> QED
    BY <1>11, <2>1 DEF SnapshotArrives, matchVars, GatewayInv, Reaches
<1>12. CASE Commit
  <2>1. stored' \in Nat /\ published \subseteq 1 .. stored'
    BY <1>12 DEF Commit, GatewayInv
  <2> QED
    BY <1>12, <2>1 DEF Commit, page, server, GatewayInv, Reaches
<1>13. ASSUME NEW version \in Versions, Publish(version) PROVE GatewayInv'
  <2>1. version \in 1 .. stored
    BY <1>13 DEF Publish, Versions, GatewayInv
  <2>2. subscribed =>
          \A seen : published \subseteq Reaches(seen) => published' \subseteq Reaches(seen)'
    BY <1>13 DEF Publish, page, Reaches
  <2> QED
    BY <1>13, <2>1, <2>2 DEF Publish, page, GatewayInv
<1>14. ASSUME NEW version \in Versions, Hear(version) PROVE GatewayInv'
  <2>1. \A seen : Reaches(seen)' = Reaches(seen)
    BY <1>14 DEF Hear, Reaches
  <2> QED
    BY <1>14, <2>1 DEF Hear, matchVars, GatewayInv
<1> QED
  BY <1>1, <1>2, <1>3, <1>4, <1>5, <1>6, <1>7, <1>8, <1>9, <1>10, <1>11, <1>12, <1>13, <1>14
     DEF ConnectionNext

(* Joining before synchronising leaves no gap: on a connection on which a  *)
(* run did both, every transition that was published is in the snapshot,   *)
(* was heard or is on its way, however answers, publications and lost      *)
(* connections are interleaved.                                            *)
THEOREM NothingMissedHolds == ConnectionSpec => []NothingMissed
<1>1. GatewayInv => NothingMissed
  BY DEF GatewayInv, NothingMissed, Reaches
<1> QED
  BY <1>1, GatewayInit, GatewayStep, PTL DEF ConnectionSpec

=============================================================================
