-------------------------- MODULE LogPipelineProofs --------------------------
(***************************************************************************)
(* What file logging guarantees for any number of threads and records, any *)
(* size of the queue and any number of configurations.                     *)
(***************************************************************************)
EXTENDS LogPipeline, FiniteSetTheorems, SequenceTheorems, TLAPS

AnyPipe == UNION {PipeType(n) : n \in Nat}

NoSentinel(queue, k) == \A j \in 1..k : queue[j] # Sentinel

(* How many of the accepted records have left the queue. *)
Gone(p) == IF p.listener = "writing" THEN Len(p.written) + 1 ELSE Len(p.written)

(* Records are stamped with the id of their request, the listener's own    *)
(* context has none to put in its place, and each line carries it.         *)
KeepsIds(p) ==
    /\ p.stamped = p.emitted
    /\ p.context = NoId
    /\ \A i \in DOMAIN p.written :
         p.written[i].id = p.emitted[p.written[i].n]

(* The lines, the record in hand and the queue up to its sentinel are what *)
(* the queue has accepted, in that order.                                  *)
InOrder(p) ==
    /\ Len(p.written) <= Len(p.accepted)
    /\ \A i \in DOMAIN p.written : p.written[i].n = p.accepted[i]
    /\ p.listener = "writing" =>
          /\ Len(p.written) < Len(p.accepted)
          /\ p.inHand = p.accepted[Len(p.written) + 1]
    /\ p.listener # "ended" =>
          /\ \A k \in DOMAIN p.queue : NoSentinel(p.queue, k) =>
                Gone(p) + k <= Len(p.accepted)
                  /\ p.queue[k] = p.accepted[Gone(p) + k]
          /\ NoSentinel(p.queue, Len(p.queue)) =>
                Len(p.accepted) = Gone(p) + Len(p.queue)

(* What was accepted before a stop() that did not fail comes before the    *)
(* sentinel.                                                               *)
Flushes(p) == p.stopFailed = FALSE =>
    /\ p.listener = "ended" => Len(p.written) >= p.before
    /\ p.listener # "ended" =>
          \A k \in DOMAIN p.queue :
              NoSentinel(p.queue, k - 1) /\ p.queue[k] = Sentinel =>
                  Gone(p) + k - 1 >= p.before

(* A listener that lives on after its file was closed was not stopped. *)
ClosedLate(p) ==
    p.open = FALSE /\ p.listener # "ended" => p.stopFailed = TRUE

PipeOk(p) ==
    /\ p \in PipeType(Len(p.emitted))
    /\ ClosedLate(p)
    /\ KeepsIds(p)
    /\ InOrder(p)
    /\ Flushes(p)

(* Where a pipeline is in its life: running, stopped, closed and detached. *)
Running(p) == /\ p.listener # "ended" /\ p.open = TRUE
              /\ NoSentinel(p.queue, Len(p.queue))
Stopped(p) == p.stopFailed = TRUE \/ p.listener = "ended"
Closed(p) == p.stopFailed = TRUE \/ (p.listener = "ended" /\ p.open = FALSE)

(* What may happen to a pipeline short of stop() and close(). *)
Ages(p, q) ==
    /\ Running(p) => Running(q)
    /\ Stopped(p) => Stopped(q)
    /\ Closed(p) => Closed(q)

Life ==
    /\ phase \in {"off", "down"} => attached = 0
    /\ attached # 0 =>
          /\ phase = "up" => Running(pipes[attached])
          /\ phase \in {"closing", "removing"} => Stopped(pipes[attached])
          /\ phase = "removing" => Closed(pipes[attached])
    /\ \A g \in Pipes : g # attached => Closed(pipes[g])

(* Threads on their way to the queue of pipeline g. *)
Holders(g) == {t \in Threads : pending[t].pipe = g}

Counted(p) == Len(p.accepted) + p.dropped + p.reported + p.refused

IInv ==
    /\ TypeOK
    /\ pipes \in Seq(AnyPipe)
    /\ \A g \in Pipes : PipeOk(pipes[g])
    /\ Life
    /\ DropsAreCounted

-------------------------------------------------------------------------------
(* What is done to one pipeline *)

LEMMA PipeFields ==
    ASSUME NEW p, PipeOk(p)
    PROVE  /\ Len(p.emitted) \in Nat
           /\ p.emitted \in Seq(Ids \cup {NoId})
           /\ p.accepted \in Seq(1..Len(p.emitted))
           /\ p.queue \in Seq(0..Len(p.emitted))
           /\ p.written \in Seq([n: 1..Len(p.emitted), ok: BOOLEAN, id: Ids \cup {NoId}])
           /\ p.listener \in {"waiting", "writing", "ended"}
           /\ p.inHand \in 0..Len(p.emitted)
           /\ p.open \in BOOLEAN /\ p.stopFailed \in BOOLEAN
           /\ p.dropped \in Nat /\ p.reported \in Nat /\ p.refused \in Nat
      /\ p.before \in Nat
           /\ p \in AnyPipe
<1> DEFINE n == Len(p.emitted)
<1>1. p \in PipeType(n)
  BY DEF PipeOk
<1>2. p.emitted \in Seq(Ids \cup {NoId})
  BY <1>1 DEF PipeType
<1>3. n \in Nat
  BY <1>2, LenProperties
<1>4. p \in AnyPipe
  BY <1>1, <1>3 DEF AnyPipe
<1> HIDE DEF n
<1>5. /\ p.accepted \in Seq(1..n)
      /\ p.queue \in Seq(0..n)
      /\ p.written \in Seq([n: 1..n, ok: BOOLEAN, id: Ids \cup {NoId}])
      /\ p.listener \in {"waiting", "writing", "ended"}
      /\ p.inHand \in 0..n
      /\ p.open \in BOOLEAN /\ p.stopFailed \in BOOLEAN
      /\ p.dropped \in Nat /\ p.reported \in Nat /\ p.refused \in Nat
      /\ p.before \in Nat
  BY <1>1 DEF PipeType
<1> QED
  BY <1>2, <1>3, <1>4, <1>5 DEF n

(* The lines of a file are of records that were made. *)
LEMMA LinesAreRecords ==
    ASSUME NEW p, PipeOk(p)
    PROVE  /\ Len(p.written) \in Nat /\ DOMAIN p.written = 1..Len(p.written)
           /\ Len(p.queue) \in Nat /\ DOMAIN p.queue = 1..Len(p.queue)
           /\ Len(p.accepted) \in Nat /\ DOMAIN p.accepted = 1..Len(p.accepted)
           /\ \A i \in 1..Len(p.written) : p.written[i].n \in 1..Len(p.emitted)
           /\ \A k \in 1..Len(p.accepted) : p.accepted[k] \in 1..Len(p.emitted)
           /\ Gone(p) \in Nat
<1> DEFINE Line == [n: 1..Len(p.emitted), ok: BOOLEAN, id: Ids \cup {NoId}]
<1>1. p.written \in Seq(Line) /\ p.accepted \in Seq(1..Len(p.emitted))
      /\ p.queue \in Seq(0..Len(p.emitted))
  BY PipeFields
<1>2. ASSUME NEW l \in Line PROVE l.n \in 1..Len(p.emitted)
  OBVIOUS
<1> HIDE DEF Line
<1>3. /\ Len(p.written) \in Nat /\ DOMAIN p.written = 1..Len(p.written)
      /\ Len(p.queue) \in Nat /\ DOMAIN p.queue = 1..Len(p.queue)
      /\ Len(p.accepted) \in Nat /\ DOMAIN p.accepted = 1..Len(p.accepted)
  BY <1>1, LenProperties
<1>4. ASSUME NEW i \in 1..Len(p.written) PROVE p.written[i].n \in 1..Len(p.emitted)
  <2>1. p.written[i] \in Line
    BY <1>1, ElementOfSeq
  <2> QED
    BY <2>1, <1>2
<1>5. ASSUME NEW k \in 1..Len(p.accepted) PROVE p.accepted[k] \in 1..Len(p.emitted)
  BY <1>1, ElementOfSeq
<1>6. Gone(p) \in Nat
  BY <1>3 DEF Gone
<1> QED
  BY <1>3, <1>4, <1>5, <1>6

LEMMA SumIsNat ==
    ASSUME NEW a \in Nat, NEW b \in Nat, NEW c \in Nat, NEW d \in Nat
    PROVE  a + b + c + d \in Nat
OBVIOUS

LEMMA CountedIsNat == ASSUME NEW p, PipeOk(p) PROVE Counted(p) \in Nat
<1>1. /\ Len(p.accepted) \in Nat
      /\ p.dropped \in Nat /\ p.reported \in Nat /\ p.refused \in Nat
  BY PipeFields, LinesAreRecords
<1> QED
  BY <1>1, SumIsNat DEF Counted

LEMMA NewPipeOk == PipeOk(NewPipe) /\ Running(NewPipe)
<1>1. NewPipe \in PipeType(0)
  BY DEF NewPipe, PipeType
<1> QED
  BY <1>1 DEF NewPipe, PipeOk, KeepsIds, InOrder, Flushes, ClosedLate, Running,
              NoSentinel, Gone

(* One more record is made. *)
LEMMA EmitOk ==
    ASSUME NEW p, PipeOk(p), NEW id \in Ids \cup {NoId}
    PROVE  LET q == [p EXCEPT !.emitted = Append(@, id),
                              !.stamped = Append(@, Stamp(id, NoId))]
           IN  /\ PipeOk(q) /\ Ages(p, q)
               /\ Len(q.emitted) = Len(p.emitted) + 1
               /\ Counted(q) = Counted(p)
<1> DEFINE n == Len(p.emitted)
           q == [p EXCEPT !.emitted = Append(@, id),
                          !.stamped = Append(@, Stamp(id, NoId))]
<1>0. p \in PipeType(n) /\ n \in Nat /\ p.emitted \in Seq(Ids \cup {NoId})
  BY PipeFields DEF PipeOk
<1>9. p.stamped = p.emitted /\ p.context = NoId /\ Stamp(id, NoId) = id
  BY DEF PipeOk, KeepsIds, Stamp
<1>1. /\ q.emitted = Append(p.emitted, id) /\ q.accepted = p.accepted
      /\ q.queue = p.queue /\ q.written = p.written /\ q.listener = p.listener
      /\ q.inHand = p.inHand /\ q.before = p.before
      /\ q.stamped = q.emitted /\ q.context = NoId
      /\ q = [p EXCEPT !.emitted = q.emitted, !.stamped = q.emitted]
  BY <1>0, <1>9 DEF PipeType
<1>6. /\ q.open = p.open /\ q.stopFailed = p.stopFailed
      /\ q.dropped = p.dropped /\ q.reported = p.reported /\ q.refused = p.refused
  BY <1>0 DEF PipeType
<1> HIDE DEF q
<1>2. /\ Len(q.emitted) = n + 1 /\ q.emitted \in Seq(Ids \cup {NoId})
      /\ \A i \in 1..n : q.emitted[i] = p.emitted[i]
  BY <1>0, <1>1, AppendProperties
<1>3. q \in PipeType(n + 1)
  <2>1. p.accepted \in Seq(1..n + 1)
    <3>1. 1..n \subseteq 1..n + 1
      BY <1>0
    <3>2. Seq(1..n) \subseteq Seq(1..n + 1)
      BY <3>1, SeqMonotonic
    <3> QED
      BY <3>2, PipeFields
  <2>2. p.queue \in Seq(0..n + 1)
    <3>1. 0..n \subseteq 0..n + 1
      BY <1>0
    <3>2. Seq(0..n) \subseteq Seq(0..n + 1)
      BY <3>1, SeqMonotonic
    <3> QED
      BY <3>2, PipeFields
  <2>5. p.written \in Seq([n: 1..n + 1, ok: BOOLEAN, id: Ids \cup {NoId}])
    <3>1. 1..n \subseteq 1..n + 1
      BY <1>0
    <3>2. [n: 1..n, ok: BOOLEAN, id: Ids \cup {NoId}] \subseteq [n: 1..n + 1, ok: BOOLEAN, id: Ids \cup {NoId}]
      BY <3>1
    <3>3. Seq([n: 1..n, ok: BOOLEAN, id: Ids \cup {NoId}])
            \subseteq Seq([n: 1..n + 1, ok: BOOLEAN, id: Ids \cup {NoId}])
      BY <3>2, SeqMonotonic
    <3> QED
      BY <3>3, PipeFields
  <2>3. p.inHand \in 0..n + 1
    <3>1. p.inHand \in 0..n
      BY PipeFields
    <3> QED
      BY <3>1, <1>0
  <2> HIDE DEF n
  <2> QED
    BY <1>0, <1>1, <1>2, <2>1, <2>2, <2>3, <2>5 DEF PipeType
<1>4. KeepsIds(q) /\ ClosedLate(q)
  <2>1. \A i \in DOMAIN q.written : q.written[i].id = q.emitted[q.written[i].n]
    BY <1>0, <1>1, <1>2, LinesAreRecords DEF PipeOk, KeepsIds
  <2>2. ClosedLate(q)
    BY <1>1, <1>6 DEF PipeOk, ClosedLate
  <2> QED
    BY <1>1, <2>1, <2>2 DEF KeepsIds
<1>5. InOrder(q) /\ Flushes(q)
  BY <1>1, <1>6 DEF PipeOk, InOrder, Flushes, Gone
<1>7. Ages(p, q)
  BY <1>1, <1>6 DEF Ages, Running, Stopped, Closed
<1>8. Counted(q) = Counted(p)
  BY <1>1, <1>6 DEF Counted
<1> QED
  BY <1>2, <1>3, <1>4, <1>5, <1>7, <1>8 DEF PipeOk, q

(* The queue takes a record. *)
LEMMA AcceptOk ==
    ASSUME NEW p, PipeOk(p), NEW n \in 1..Len(p.emitted)
    PROVE  /\ PipeOk(Accept(p, n)) /\ Ages(p, Accept(p, n))
           /\ Accept(p, n).emitted = p.emitted
           /\ Counted(Accept(p, n)) = Counted(p) + 1
<1> DEFINE q == Accept(p, n)
<1>1. /\ p.queue \in Seq(0..Len(p.emitted))
      /\ p.accepted \in Seq(1..Len(p.emitted))
      /\ Len(p.emitted) \in Nat
  BY PipeFields
<1>2. /\ q.emitted = p.emitted /\ q.stamped = p.stamped
      /\ q.context = p.context /\ q.accepted = Append(p.accepted, n)
      /\ q.queue = Append(p.queue, n) /\ q.written = p.written
      /\ q.listener = p.listener /\ q.inHand = p.inHand /\ q.before = p.before
  BY DEF PipeOk, PipeType, Accept
<1>3. /\ q.open = p.open /\ q.stopFailed = p.stopFailed
      /\ q.dropped = p.dropped /\ q.reported = p.reported /\ q.refused = p.refused
      /\ p.dropped \in Nat /\ p.reported \in Nat /\ p.refused \in Nat
  BY DEF PipeOk, PipeType, Accept
<1>4. q \in PipeType(Len(p.emitted))
  <2>1. /\ Append(p.queue, n) \in Seq(0..Len(p.emitted))
        /\ Append(p.accepted, n) \in Seq(1..Len(p.emitted))
    BY <1>1
  <2> QED
    BY <2>1 DEF PipeOk, PipeType, Accept
<1> HIDE DEF q
<1>5. /\ Len(p.queue) \in Nat /\ Len(p.accepted) \in Nat /\ Len(p.written) \in Nat
      /\ DOMAIN p.queue = 1..Len(p.queue) /\ DOMAIN p.written = 1..Len(p.written)
      /\ Gone(p) \in Nat
  BY LinesAreRecords
<1>6. /\ Len(q.queue) = Len(p.queue) + 1 /\ DOMAIN q.queue = 1..Len(p.queue) + 1
      /\ \A k \in 1..Len(p.queue) : q.queue[k] = p.queue[k]
      /\ q.queue[Len(p.queue) + 1] = n
  BY <1>1, <1>2
<1>7. /\ Len(q.accepted) = Len(p.accepted) + 1
      /\ \A k \in 1..Len(p.accepted) : q.accepted[k] = p.accepted[k]
      /\ q.accepted[Len(p.accepted) + 1] = n
  BY <1>1, <1>2
<1>8. n # Sentinel
  BY <1>1 DEF Sentinel
<1>9. KeepsIds(q) /\ ClosedLate(q)
  BY <1>2, <1>3 DEF PipeOk, KeepsIds, ClosedLate
<1>10. Gone(q) = Gone(p)
  BY <1>2 DEF Gone
<1>11. ASSUME NEW k \in 0..Len(p.queue)
      PROVE  NoSentinel(q.queue, k) <=> NoSentinel(p.queue, k)
  <2>1. \A j \in 1..k : j \in 1..Len(p.queue)
    BY <1>5
  <2>2. \A j \in 1..k : q.queue[j] = p.queue[j]
    BY <2>1, <1>6
  <2> QED
    BY <2>2 DEF NoSentinel
<1>12. NoSentinel(q.queue, Len(p.queue) + 1) => NoSentinel(p.queue, Len(p.queue))
  BY <1>5, <1>6 DEF NoSentinel
<1>13. InOrder(q)
  <2>1. /\ Len(q.written) <= Len(q.accepted)
        /\ \A i \in DOMAIN q.written : q.written[i].n = q.accepted[i]
    BY <1>2, <1>5, <1>7 DEF PipeOk, InOrder
  <2>2. q.listener = "writing" =>
          /\ Len(q.written) < Len(q.accepted)
          /\ q.inHand = q.accepted[Len(q.written) + 1]
    BY <1>2, <1>5, <1>7 DEF PipeOk, InOrder
  <2>3. ASSUME q.listener # "ended", NEW k \in DOMAIN q.queue, NoSentinel(q.queue, k)
        PROVE  Gone(q) + k <= Len(q.accepted) /\ q.queue[k] = q.accepted[Gone(q) + k]
    <3>1. CASE k \in DOMAIN p.queue
      <4>1. NoSentinel(p.queue, k)
        BY <2>3, <3>1, <1>5, <1>11
      <4>2. Gone(p) + k <= Len(p.accepted) /\ p.queue[k] = p.accepted[Gone(p) + k]
        BY <4>1, <3>1, <2>3, <1>2 DEF PipeOk, InOrder
      <4>3. k \in 1..Len(p.queue) /\ Gone(p) + k \in 1..Len(p.accepted)
        BY <3>1, <4>2, <1>5
      <4>4. Gone(p) + k <= Len(q.accepted)
        BY <4>2, <4>3, <1>5, <1>7
      <4>5. q.queue[k] = p.queue[k] /\ q.accepted[Gone(p) + k] = p.accepted[Gone(p) + k]
        BY <4>3, <1>6, <1>7
      <4> QED
        BY <4>2, <4>4, <4>5, <1>10
    <3>2. CASE k = Len(p.queue) + 1
      <4>1. Len(p.accepted) = Gone(p) + Len(p.queue)
        BY <2>3, <3>2, <1>2, <1>12 DEF PipeOk, InOrder
      <4>2. Gone(p) + k = Len(p.accepted) + 1
        BY <4>1, <3>2, <1>5
      <4> QED
        BY <4>2, <3>2, <1>5, <1>6, <1>7, <1>10
    <3> QED
      BY <3>1, <3>2, <2>3, <1>5, <1>6
  <2>4. ASSUME q.listener # "ended", NoSentinel(q.queue, Len(q.queue))
        PROVE  Len(q.accepted) = Gone(q) + Len(q.queue)
    <3>1. Len(p.accepted) = Gone(p) + Len(p.queue)
      BY <2>4, <1>2, <1>6, <1>12 DEF PipeOk, InOrder
    <3> QED
      BY <3>1, <1>5, <1>6, <1>7, <1>10
  <2> QED
    BY <2>1, <2>2, <2>3, <2>4 DEF InOrder
<1>14. Flushes(q)
  <2>1. ASSUME q.stopFailed = FALSE, q.listener # "ended",
               NEW k \in DOMAIN q.queue,
               NoSentinel(q.queue, k - 1), q.queue[k] = Sentinel
        PROVE  Gone(q) + k - 1 >= q.before
    <3>1. k \in 1..Len(p.queue)
      BY <2>1, <1>5, <1>6, <1>8
    <3>2. p.queue[k] = Sentinel
      BY <2>1, <3>1, <1>6
    <3>3. NoSentinel(p.queue, k - 1)
      BY <2>1, <3>1, <1>5, <1>11
    <3> QED
      BY <2>1, <3>1, <3>2, <3>3, <1>2, <1>3, <1>5, <1>10 DEF PipeOk, Flushes
  <2> QED
    BY <2>1, <1>2, <1>3 DEF PipeOk, Flushes
<1>15. Running(p) => Running(q)
  <2>1. ASSUME NoSentinel(p.queue, Len(p.queue))
        PROVE  NoSentinel(q.queue, Len(p.queue) + 1)
    BY <2>1, <1>5, <1>6, <1>8 DEF NoSentinel
  <2> QED
    BY <2>1, <1>2, <1>3, <1>6 DEF Running
<1>16. Ages(p, q)
  BY <1>15, <1>2, <1>3 DEF Ages, Stopped, Closed
<1>17. Counted(q) = Counted(p) + 1
  BY <1>5, <1>7, <1>3 DEF Counted
<1> QED
  BY <1>2, <1>4, <1>9, <1>13, <1>14, <1>16, <1>17 DEF PipeOk, q

(* The record is dropped and counted. *)
LEMMA CountDropOk ==
    ASSUME NEW p, PipeOk(p), NEW report \in Reports
    PROVE  /\ PipeOk(CountDrop(p, report)) /\ Ages(p, CountDrop(p, report))
           /\ CountDrop(p, report).emitted = p.emitted
           /\ Counted(CountDrop(p, report)) = Counted(p) + 1
<1> DEFINE q == CountDrop(p, report)
<1>1. /\ q.emitted = p.emitted /\ q.stamped = p.stamped
      /\ q.context = p.context /\ q.accepted = p.accepted
      /\ q.queue = p.queue /\ q.written = p.written
      /\ q.listener = p.listener /\ q.inHand = p.inHand /\ q.before = p.before
      /\ q.open = p.open /\ q.stopFailed = p.stopFailed
  BY DEF PipeOk, PipeType, CountDrop
<1>0. /\ p.dropped \in Nat /\ p.reported \in Nat /\ p.refused \in Nat
      /\ Len(p.accepted) \in Nat
  BY PipeFields, LinesAreRecords
<1>6. \/ /\ q.dropped = p.dropped + 1
         /\ q.reported = p.reported /\ q.refused = p.refused
      \/ /\ q.dropped = 0
         /\ q.reported = p.reported + p.dropped + 1 /\ q.refused = p.refused
      \/ /\ q.dropped = 0
         /\ q.reported = p.reported /\ q.refused = p.refused + p.dropped + 1
  <2>1. CASE report = "not due"
    BY <2>1 DEF PipeOk, PipeType, CountDrop
  <2>2. CASE report = "reported"
    BY <2>2 DEF PipeOk, PipeType, CountDrop
  <2>3. CASE report = "refused"
    BY <2>3 DEF PipeOk, PipeType, CountDrop
  <2> QED
    BY <2>1, <2>2, <2>3 DEF Reports
<1>7. q.dropped \in Nat /\ q.reported \in Nat /\ q.refused \in Nat
  <2> HIDE DEF q
  <2> QED
    BY <1>0, <1>6
<1>8. q = [p EXCEPT !.dropped = q.dropped, !.reported = q.reported,
                    !.refused = q.refused]
  BY DEF PipeOk, PipeType, CountDrop
<1>2. q \in PipeType(Len(p.emitted))
  <2> HIDE DEF q
  <2> QED
    BY <1>7, <1>8 DEF PipeOk, PipeType
<1> HIDE DEF q
<1>3. KeepsIds(q) /\ InOrder(q) /\ Flushes(q) /\ ClosedLate(q)
  <2>1. InOrder(q) /\ Flushes(q)
    BY <1>1 DEF PipeOk, InOrder, Flushes, Gone
  <2>2. KeepsIds(q) /\ ClosedLate(q)
    BY <1>1 DEF PipeOk, KeepsIds, ClosedLate
  <2> QED
    BY <2>1, <2>2
<1>4. Ages(p, q)
  BY <1>1 DEF Ages, Running, Stopped, Closed
<1>5. Counted(q) = Counted(p) + 1
  <2> DEFINE n == Len(p.accepted)
  <2>1. /\ Counted(p) = n + p.dropped + p.reported + p.refused
        /\ Counted(q) = n + q.dropped + q.reported + q.refused
    BY <1>1 DEF Counted
  <2>2. n \in Nat
    BY <1>0
  <2> HIDE DEF n
  <2> QED
    BY <1>0, <1>6, <2>1, <2>2
<1> QED
  BY <1>1, <1>2, <1>3, <1>4, <1>5 DEF PipeOk, q

(* The listener takes a record or the sentinel from the queue. *)
LEMMA TakeOk ==
    ASSUME NEW p, PipeOk(p), p.listener = "waiting", p.queue # <<>>
    PROVE  LET q == [p EXCEPT !.queue = Tail(@),
                              !.inHand = Head(p.queue),
                              !.listener = IF Head(p.queue) = Sentinel
                                           THEN "ended" ELSE "writing"]
           IN  PipeOk(q) /\ Ages(p, q) /\ q.emitted = p.emitted /\ Counted(q) = Counted(p)
<1> DEFINE q == [p EXCEPT !.queue = Tail(@),
                          !.inHand = Head(p.queue),
                          !.listener = IF Head(p.queue) = Sentinel
                                       THEN "ended" ELSE "writing"]
<1>0. Gone(p) = Len(p.written) /\ Len(p.written) \in Nat
  BY LinesAreRecords DEF Gone
<1>1. /\ q.emitted = p.emitted /\ q.stamped = p.stamped
      /\ q.context = p.context /\ q.accepted = p.accepted /\ q.queue = Tail(p.queue)
      /\ q.written = p.written /\ q.inHand = Head(p.queue) /\ q.before = p.before
      /\ q.listener = IF Head(p.queue) = Sentinel THEN "ended" ELSE "writing"
  BY DEF PipeOk, PipeType
<1>2. /\ q.open = p.open /\ q.stopFailed = p.stopFailed
      /\ q.dropped = p.dropped /\ q.reported = p.reported /\ q.refused = p.refused
  BY DEF PipeOk, PipeType
<1>3. /\ Tail(p.queue) \in Seq(0..Len(p.emitted))
      /\ Head(p.queue) \in 0..Len(p.emitted) /\ Head(p.queue) = p.queue[1]
      /\ Len(Tail(p.queue)) = Len(p.queue) - 1 /\ Len(p.queue) \in Nat \ {0}
      /\ \A k \in 1..Len(p.queue) - 1 : Tail(p.queue)[k] = p.queue[k + 1]
  <2>1. p.queue \in Seq(0..Len(p.emitted)) /\ p.queue # <<>>
    BY PipeFields
  <2>2. /\ Tail(p.queue) \in Seq(0..Len(p.emitted))
        /\ Head(p.queue) \in 0..Len(p.emitted)
        /\ Len(Tail(p.queue)) = Len(p.queue) - 1
        /\ \A i \in 1..Len(Tail(p.queue)) : Tail(p.queue)[i] = p.queue[i + 1]
    BY <2>1, HeadTailProperties
  <2>3. Head(p.queue) = p.queue[1]
    BY <2>1
  <2>4. Len(p.queue) \in Nat \ {0}
    BY <2>1, EmptySeq, LenProperties
  <2> QED
    BY <2>2, <2>3, <2>4
<1>4. q \in PipeType(Len(p.emitted))
  BY <1>3 DEF PipeOk, PipeType
<1> HIDE DEF q
<1>5. /\ Len(p.queue) \in Nat /\ Len(p.accepted) \in Nat /\ Len(p.written) \in Nat
      /\ DOMAIN p.queue = 1..Len(p.queue) /\ DOMAIN p.written = 1..Len(p.written)
      /\ Gone(p) = Len(p.written)
  BY LinesAreRecords DEF Gone
<1>6. /\ Len(q.queue) = Len(p.queue) - 1 /\ DOMAIN q.queue = 1..Len(p.queue) - 1
      /\ \A k \in 1..Len(p.queue) - 1 : q.queue[k] = p.queue[k + 1]
  <2>1. DOMAIN q.queue = 1..Len(q.queue)
    BY <1>1, <1>3, LenProperties
  <2> QED
    BY <2>1, <1>1, <1>3
<1>7. KeepsIds(q) /\ ClosedLate(q)
  BY <1>1, <1>2 DEF PipeOk, KeepsIds, ClosedLate
<1>8. ASSUME p.queue[1] # Sentinel, NEW k \in 0..Len(p.queue) - 1
      PROVE  NoSentinel(q.queue, k) <=> NoSentinel(p.queue, k + 1)
  <2>1. \A j \in 1..k : q.queue[j] = p.queue[j + 1]
    BY <1>5, <1>6
  <2>2. ASSUME NoSentinel(p.queue, k + 1), NEW j \in 1..k
        PROVE  q.queue[j] # Sentinel
    <3>1. j + 1 \in 1..k + 1
      BY <1>5
    <3> QED
      BY <3>1, <2>1, <2>2 DEF NoSentinel
  <2>3. ASSUME NoSentinel(q.queue, k), NEW j \in 1..k + 1
        PROVE  p.queue[j] # Sentinel
    <3>1. CASE j = 1
      BY <3>1, <1>8
    <3>2. CASE j # 1
      <4>1. j - 1 \in 1..k /\ (j - 1) + 1 = j
        BY <3>2, <1>5
      <4> QED
        BY <4>1, <2>1, <2>3 DEF NoSentinel
    <3> QED
      BY <3>1, <3>2
  <2> QED
    BY <2>2, <2>3 DEF NoSentinel
<1>9. CASE p.queue[1] = Sentinel
  <2>1. q.listener = "ended"
    BY <1>1, <1>3, <1>9
  <2>2. NoSentinel(p.queue, 0)
    BY DEF NoSentinel
  <2>3. p.stopFailed = FALSE => Len(p.written) >= p.before
    <3>1. 1 \in DOMAIN p.queue /\ 1 - 1 = 0 /\ p.listener # "ended"
      BY <1>3, <1>5
    <3>2. p.stopFailed = FALSE => Gone(p) + 1 - 1 >= p.before
      BY <3>1, <2>2, <1>9 DEF PipeOk, Flushes
    <3> QED
      BY <3>2, <1>5
  <2>4. InOrder(q) /\ Flushes(q)
    BY <2>1, <2>3, <1>1, <1>2 DEF PipeOk, InOrder, Flushes
  <2>5. ~Running(p)
    <3>1. 1 \in 1..Len(p.queue)
      BY <1>3
    <3> QED
      BY <3>1, <1>9 DEF Running, NoSentinel
  <2>6. Ages(p, q)
    BY <2>1, <2>5, <1>1, <1>2 DEF Ages, Stopped, Closed
  <2>7. Counted(q) = Counted(p)
    BY <1>1, <1>2 DEF Counted
  <2> QED
    BY <2>4, <2>6, <2>7, <1>1, <1>4, <1>7 DEF PipeOk, q
<1>10. CASE p.queue[1] # Sentinel
  <2>1. q.listener = "writing" /\ Gone(q) = Len(p.written) + 1
    BY <1>1, <1>3, <1>10 DEF Gone
  <2>2. Len(p.written) + 1 <= Len(p.accepted) /\ p.queue[1] = p.accepted[Len(p.written) + 1]
    <3>1. NoSentinel(p.queue, 1)
      BY <1>10 DEF NoSentinel
    <3>2. 1 \in DOMAIN p.queue
      BY <1>3, <1>5
    <3>3. Gone(p) + 1 <= Len(p.accepted) /\ p.queue[1] = p.accepted[Gone(p) + 1]
      BY <3>1, <3>2 DEF PipeOk, InOrder
    <3> QED
      BY <3>3, <1>5
  <2>3. ASSUME NEW k \in DOMAIN q.queue, NoSentinel(q.queue, k)
        PROVE  Gone(q) + k <= Len(q.accepted) /\ q.queue[k] = q.accepted[Gone(q) + k]
    <3>1. k \in 0..Len(p.queue) - 1 /\ k + 1 \in DOMAIN p.queue
      BY <1>5, <1>6
    <3>2. NoSentinel(p.queue, k + 1)
      BY <3>1, <2>3, <1>8, <1>10
    <3>3. /\ Gone(p) + (k + 1) <= Len(p.accepted)
          /\ p.queue[k + 1] = p.accepted[Gone(p) + (k + 1)]
      BY <3>1, <3>2 DEF PipeOk, InOrder
    <3>4. Gone(p) + (k + 1) = Gone(q) + k
      <4>1. k \in Nat
        BY <3>1
      <4> QED
        BY <4>1, <2>1, <1>0
    <3>5. q.queue[k] = p.queue[k + 1]
      BY <1>6
    <3> QED
      BY <3>3, <3>4, <3>5, <1>1
  <2>4. ASSUME NoSentinel(q.queue, Len(q.queue))
        PROVE  Len(q.accepted) = Gone(q) + Len(q.queue)
    <3>1. Len(p.queue) - 1 \in 0..Len(p.queue) - 1 /\ (Len(p.queue) - 1) + 1 = Len(p.queue)
      BY <1>3
    <3>2. NoSentinel(p.queue, Len(p.queue))
      BY <3>1, <2>4, <1>6, <1>8, <1>10
    <3>3. Len(p.accepted) = Gone(p) + Len(p.queue)
      BY <3>2 DEF PipeOk, InOrder
    <3>4. Gone(q) + Len(q.queue) = Gone(p) + Len(p.queue)
      <4>1. Len(p.queue) \in Nat /\ Len(q.queue) = Len(p.queue) - 1
        BY <1>3, <1>6
      <4>2. Gone(q) = Gone(p) + 1 /\ Gone(p) \in Nat
        BY <2>1, <1>0
      <4>3. Gone(q) + (Len(p.queue) - 1) = Gone(p) + Len(p.queue)
        BY <4>2, <1>3
      <4> QED
        BY <4>1, <4>3
    <3> QED
      BY <3>3, <3>4, <1>1
  <2>5. InOrder(q)
    <3>1. /\ Len(q.written) <= Len(q.accepted)
          /\ \A i \in DOMAIN q.written : q.written[i].n = q.accepted[i]
      BY <1>1 DEF PipeOk, InOrder
    <3>2. Len(q.written) < Len(q.accepted) /\ q.inHand = q.accepted[Len(q.written) + 1]
      BY <1>1, <1>3, <1>5, <2>2
    <3> QED
      BY <3>1, <3>2, <2>3, <2>4 DEF InOrder
  <2>6. Flushes(q)
    <3>1. ASSUME q.stopFailed = FALSE, NEW k \in DOMAIN q.queue,
                 NoSentinel(q.queue, k - 1), q.queue[k] = Sentinel
          PROVE  Gone(q) + k - 1 >= q.before
      <4>1. k \in Nat /\ k + 1 \in DOMAIN p.queue /\ q.queue[k] = p.queue[k + 1]
        BY <1>5, <1>6
      <4>2. k - 1 \in 0..Len(p.queue) - 1 /\ (k - 1) + 1 = k /\ (k + 1) - 1 = k
        BY <1>5, <1>6
      <4>3. NoSentinel(p.queue, (k + 1) - 1) /\ p.queue[k + 1] = Sentinel
        BY <4>1, <4>2, <3>1, <1>8, <1>10
      <4>4. Gone(p) + (k + 1) - 1 >= p.before
        BY <4>1, <4>3, <3>1, <1>2 DEF PipeOk, Flushes
      <4> QED
        BY <4>1, <4>4, <2>1, <1>1, <1>5
    <3> QED
      BY <3>1, <2>1 DEF Flushes
  <2>7. Running(p) => Running(q)
    <3>1. Len(p.queue) - 1 \in 0..Len(p.queue) - 1 /\ (Len(p.queue) - 1) + 1 = Len(p.queue)
      BY <1>3
    <3> QED
      BY <3>1, <2>1, <1>2, <1>6, <1>8, <1>10 DEF Running
  <2>8. Ages(p, q)
    BY <2>7, <1>1, <1>2 DEF Ages, Stopped, Closed
  <2>9. Counted(q) = Counted(p)
    BY <1>1, <1>2 DEF Counted
  <2> QED
    BY <2>5, <2>6, <2>8, <2>9, <1>1, <1>4, <1>7 DEF PipeOk, q
<1> QED
  BY <1>9, <1>10

(* A pipeline once its listener is rid of the record in its hand.          *)
Rid(p, ok, next, open) ==
    [p EXCEPT !.listener = next,
              !.inHand = 0,
              !.open = open,
              !.written = Append(@,
                  [n |-> p.inHand, ok |-> ok,
                   id |-> Stamp(p.context, p.stamped[p.inHand])])]

(* The record's line got into the file or not, or the file could not be    *)
(* opened and the thread ends.                                             *)
LEMMA HandledOk ==
    ASSUME NEW p, PipeOk(p), p.listener = "writing",
           NEW ok \in BOOLEAN, NEW next, NEW open,
           open \in BOOLEAN,
           \/ next = "waiting" /\ open # FALSE
           \/ next = "ended" /\ open = FALSE /\ p.open = FALSE
    PROVE  LET q == Rid(p, ok, next, open)
           IN  PipeOk(q) /\ Ages(p, q) /\ q.emitted = p.emitted /\ Counted(q) = Counted(p)
<1> DEFINE line == [n |-> p.inHand, ok |-> ok,
                    id |-> Stamp(p.context, p.stamped[p.inHand])]
           Line == [n: 1..Len(p.emitted), ok: BOOLEAN, id: Ids \cup {NoId}]
           q == [p EXCEPT !.listener = next, !.inHand = 0, !.open = open,
                          !.written = Append(@, line)]
<1>0. /\ Len(p.written) \in Nat /\ Len(p.accepted) \in Nat
      /\ DOMAIN p.written = 1..Len(p.written)
      /\ Gone(p) = Len(p.written) + 1
  BY LinesAreRecords DEF Gone
<1>1. /\ q.emitted = p.emitted /\ q.stamped = p.stamped
      /\ q.context = p.context /\ q.accepted = p.accepted /\ q.queue = p.queue
      /\ q.written = Append(p.written, line) /\ q.listener = next
      /\ q.before = p.before /\ q.open = open
      /\ q.stopFailed = p.stopFailed
      /\ q.dropped = p.dropped /\ q.reported = p.reported /\ q.refused = p.refused
  BY DEF PipeOk, PipeType
<1>2. Len(p.written) + 1 <= Len(p.accepted) /\ p.inHand = p.accepted[Len(p.written) + 1]
  BY <1>0 DEF PipeOk, InOrder
<1>3. p.inHand \in 1..Len(p.emitted)
  <2>1. Len(p.written) + 1 \in 1..Len(p.accepted)
    BY <1>0, <1>2
  <2> QED
    BY <2>1, <1>2, LinesAreRecords
<1>4. line \in Line /\ line.n = p.inHand /\ line.id = p.emitted[p.inHand]
  <2>1. p.emitted \in Seq(Ids \cup {NoId})
    BY PipeFields
  <2>2. p.emitted[p.inHand] \in Ids \cup {NoId}
    BY <2>1, <1>3, ElementOfSeq
  <2>3. Stamp(p.context, p.stamped[p.inHand]) = p.emitted[p.inHand]
    BY DEF PipeOk, KeepsIds, Stamp
  <2> QED
    BY <2>2, <2>3, <1>3
<1>5. p.written \in Seq(Line)
  BY PipeFields
<1> HIDE DEF line
<1>6. q \in PipeType(Len(p.emitted))
  <2>1. Append(p.written, line) \in Seq(Line)
    <3> HIDE DEF Line
    <3> QED
      BY <1>4, <1>5, AppendProperties
  <2>2. Len(p.emitted) \in Nat
    BY PipeFields
  <2>3. 0 \in 0..Len(p.emitted)
    BY <2>2
  <2> QED
    BY <2>1, <2>3 DEF PipeOk, PipeType
<1> HIDE DEF Line, q
<1>7. /\ Len(q.written) = Len(p.written) + 1
      /\ q.written[Len(p.written) + 1] = line
      /\ \A i \in 1..Len(p.written) : q.written[i] = p.written[i]
      /\ DOMAIN q.written = 1..Len(p.written) + 1
  BY <1>1, <1>5, AppendProperties, LenProperties
<1>14. next = "ended" => p.stopFailed = TRUE
  BY DEF PipeOk, ClosedLate
<1>8. Gone(q) = Gone(p)
  BY <1>0, <1>1, <1>7 DEF Gone
<1>9. ASSUME NEW i \in DOMAIN q.written
      PROVE  /\ q.written[i].id = q.emitted[q.written[i].n]
             /\ q.written[i].n = q.accepted[i]
  <2>1. CASE i \in DOMAIN p.written
    <3>1. q.written[i] = p.written[i]
      BY <2>1, <1>0, <1>7
    <3> QED
      BY <2>1, <3>1, <1>1 DEF PipeOk, KeepsIds, InOrder
  <2>2. CASE i = Len(p.written) + 1
    BY <2>2, <1>1, <1>2, <1>4, <1>7
  <2> QED
    BY <2>1, <2>2, <1>0, <1>7
<1>10. KeepsIds(q) /\ ClosedLate(q)
  BY <1>1, <1>9 DEF PipeOk, KeepsIds, ClosedLate
<1>11. InOrder(q)
  <2>1. Len(q.written) <= Len(q.accepted) /\ q.listener # "writing"
    BY <1>1, <1>2, <1>7
  <2>2. q.listener # "ended" =>
          /\ \A k \in DOMAIN q.queue : NoSentinel(q.queue, k) =>
                Gone(q) + k <= Len(q.accepted)
                  /\ q.queue[k] = q.accepted[Gone(q) + k]
          /\ NoSentinel(q.queue, Len(q.queue)) =>
                Len(q.accepted) = Gone(q) + Len(q.queue)
    BY <1>1, <1>8 DEF PipeOk, InOrder
  <2> QED
    BY <2>1, <2>2, <1>9 DEF InOrder
<1>12. Flushes(q)
  BY <1>1, <1>8, <1>14 DEF PipeOk, Flushes
<1>13. Ages(p, q)
  BY <1>1, <1>14 DEF Ages, Running, Stopped, Closed
<1>15. Counted(q) = Counted(p)
  BY <1>1 DEF Counted
<1> QED
  BY <1>1, <1>6, <1>10, <1>11, <1>12, <1>13, <1>15 DEF PipeOk, q, line, Rid

(* stop() puts the sentinel into the queue, or fails. *)
LEMMA StopOk ==
    ASSUME NEW p, PipeOk(p), Running(p), NEW full \in BOOLEAN
    PROVE  LET q == [p EXCEPT
                      !.before = Len(p.accepted),
                      !.stopFailed = full,
                      !.queue = IF full THEN @ ELSE Append(@, Sentinel)]
           IN  /\ PipeOk(q) /\ q.stopFailed = full
               /\ q.emitted = p.emitted /\ Counted(q) = Counted(p)
<1> DEFINE q == [p EXCEPT !.before = Len(p.accepted),
                          !.stopFailed = full,
                          !.queue = IF full THEN @ ELSE Append(@, Sentinel)]
<1>0. /\ Len(p.queue) \in Nat /\ Len(p.accepted) \in Nat
      /\ DOMAIN p.queue = 1..Len(p.queue) /\ Gone(p) \in Nat
  BY LinesAreRecords
<1>1. /\ q.emitted = p.emitted /\ q.stamped = p.stamped
      /\ q.context = p.context /\ q.accepted = p.accepted
      /\ q.queue = IF full THEN p.queue ELSE Append(p.queue, Sentinel)
      /\ q.written = p.written /\ q.listener = p.listener /\ q.inHand = p.inHand
      /\ q.before = Len(p.accepted) /\ q.stopFailed = full /\ q.open = p.open
      /\ q.dropped = p.dropped /\ q.reported = p.reported /\ q.refused = p.refused
  BY DEF PipeOk, PipeType
<1>2. p.queue \in Seq(0..Len(p.emitted)) /\ 0 \in 0..Len(p.emitted)
  <2>1. Len(p.emitted) \in Nat
    BY PipeFields
  <2>2. 0 \in 0..Len(p.emitted)
    BY <2>1
  <2> QED
    BY <2>2, PipeFields
<1>3. q \in PipeType(Len(p.emitted))
  <2>1. Append(p.queue, Sentinel) \in Seq(0..Len(p.emitted))
    BY <1>2, AppendProperties DEF Sentinel
  <2> QED
    BY <2>1, <1>0 DEF PipeOk, PipeType
<1> HIDE DEF q
<1>4. NoSentinel(p.queue, Len(p.queue)) /\ p.listener # "ended"
  BY DEF Running
<1>5. Len(p.accepted) = Gone(p) + Len(p.queue)
  BY <1>4 DEF PipeOk, InOrder
<1>6. KeepsIds(q) /\ Gone(q) = Gone(p) /\ ClosedLate(q)
  BY <1>1 DEF PipeOk, KeepsIds, Gone, ClosedLate, Running
<1>7. Counted(q) = Counted(p)
  BY <1>1 DEF Counted
<1>8. CASE full
  <2>1. q.queue = p.queue
    BY <1>1, <1>8
  <2>2. InOrder(q)
    BY <2>1, <1>1, <1>6 DEF PipeOk, InOrder
  <2>3. Flushes(q)
    <3>1. \A k \in DOMAIN q.queue : q.queue[k] # Sentinel
      BY <2>1, <1>0, <1>4 DEF NoSentinel
    <3> QED
      BY <3>1, <1>1, <1>4 DEF Flushes
  <2> QED
    BY <2>2, <2>3, <1>1, <1>3, <1>6, <1>7 DEF PipeOk, q
<1>9. CASE ~full
  <2>1. q.queue = Append(p.queue, Sentinel)
    BY <1>1, <1>9
  <2>2. /\ Len(q.queue) = Len(p.queue) + 1 /\ DOMAIN q.queue = 1..Len(p.queue) + 1
        /\ \A k \in 1..Len(p.queue) : q.queue[k] = p.queue[k]
        /\ q.queue[Len(p.queue) + 1] = Sentinel
    BY <2>1, <1>2
  <2>3. ASSUME NEW k \in DOMAIN q.queue
        PROVE  /\ k \in DOMAIN p.queue => q.queue[k] # Sentinel /\ q.queue[k] = p.queue[k]
               /\ k \in DOMAIN p.queue \/ k = Len(p.queue) + 1
    <3>1. k \in DOMAIN p.queue => q.queue[k] = p.queue[k] /\ p.queue[k] # Sentinel
      BY <2>2, <1>0, <1>4 DEF NoSentinel
    <3> QED
      BY <3>1, <2>2, <1>0
  <2>4. ~NoSentinel(q.queue, Len(p.queue) + 1)
    <3>1. Len(p.queue) + 1 \in 1..Len(p.queue) + 1
      BY <1>0
    <3> QED
      BY <3>1, <2>2 DEF NoSentinel
  <2>5. InOrder(q)
    <3>1. ASSUME NEW k \in DOMAIN q.queue, NoSentinel(q.queue, k)
          PROVE  Gone(q) + k <= Len(q.accepted) /\ q.queue[k] = q.accepted[Gone(q) + k]
      <4>1. k \in DOMAIN p.queue /\ q.queue[k] = p.queue[k]
        BY <3>1, <2>3, <2>4
      <4>2. NoSentinel(p.queue, k)
        BY <4>1, <1>0, <1>4 DEF NoSentinel
      <4> QED
        BY <4>1, <4>2, <1>1, <1>4, <1>6 DEF PipeOk, InOrder
    <3>2. ~NoSentinel(q.queue, Len(q.queue))
      BY <2>2, <2>4
    <3> QED
      BY <3>1, <3>2, <1>1 DEF PipeOk, InOrder
  <2>6. Flushes(q)
    <3>1. ASSUME NEW k \in DOMAIN q.queue, q.queue[k] = Sentinel
          PROVE  Gone(q) + k - 1 >= q.before
      <4>1. k = Len(p.queue) + 1
        BY <3>1, <2>3
      <4>2. Gone(q) + k - 1 = Gone(p) + Len(p.queue)
        BY <4>1, <1>0, <1>6
      <4> QED
        BY <4>2, <1>0, <1>1, <1>5
    <3> QED
      BY <3>1, <1>1, <1>4 DEF Flushes
  <2> QED
    BY <2>5, <2>6, <1>1, <1>3, <1>6, <1>7 DEF PipeOk, q
<1> QED
  BY <1>8, <1>9

(* The file handler is closed. *)
LEMMA CloseOk ==
    ASSUME NEW p, PipeOk(p), Stopped(p)
    PROVE  LET q == [p EXCEPT !.open = FALSE]
           IN  /\ PipeOk(q) /\ Closed(q) /\ Stopped(q)
               /\ q.emitted = p.emitted /\ Counted(q) = Counted(p)
<1> DEFINE q == [p EXCEPT !.open = FALSE]
<1>1. /\ q.emitted = p.emitted /\ q.stamped = p.stamped
      /\ q.context = p.context /\ q.accepted = p.accepted /\ q.queue = p.queue
      /\ q.written = p.written /\ q.listener = p.listener /\ q.inHand = p.inHand
      /\ q.before = p.before /\ q.stopFailed = p.stopFailed /\ q.open = FALSE
      /\ q.dropped = p.dropped /\ q.reported = p.reported /\ q.refused = p.refused
  BY DEF PipeOk, PipeType
<1>2. q \in PipeType(Len(p.emitted))
  BY DEF PipeOk, PipeType
<1> HIDE DEF q
<1>3. KeepsIds(q) /\ InOrder(q) /\ Flushes(q)
  BY <1>1 DEF PipeOk, KeepsIds, InOrder, Flushes, Gone
<1>4. Closed(q) /\ Stopped(q) /\ ClosedLate(q)
  BY <1>1 DEF Stopped, Closed, ClosedLate
<1>5. Counted(q) = Counted(p)
  BY <1>1 DEF Counted
<1> QED
  BY <1>1, <1>2, <1>3, <1>4, <1>5 DEF PipeOk, q

-------------------------------------------------------------------------------
(* What that means for the pipelines together *)

LEMMA Replaced ==
    ASSUME IInv, NEW g \in Pipes, NEW q, PipeOk(q), pipes' = [pipes EXCEPT ![g] = q]
    PROVE  /\ pipes' \in Seq(AnyPipe) /\ Len(pipes') = Len(pipes) /\ Pipes' = Pipes
           /\ Len(pipes) \in Nat /\ Pipes = 1..Len(pipes)
           /\ pipes'[g] = q /\ \A h \in Pipes : h # g => pipes'[h] = pipes[h]
           /\ (\A h \in Pipes : PipeOk(pipes[h]))'
<1>1. pipes \in Seq(AnyPipe) /\ q \in AnyPipe
  BY PipeFields DEF IInv
<1>2. Len(pipes) \in Nat /\ Pipes = 1..Len(pipes)
  BY <1>1, LenProperties DEF Pipes
<1>3. pipes' \in Seq(AnyPipe) /\ Len(pipes') = Len(pipes)
  BY <1>1, <1>2, ExceptSeq
<1>4. Pipes' = Pipes
  BY <1>2, <1>3, LenProperties DEF Pipes
<1>5. pipes'[g] = q /\ \A h \in Pipes : h # g => pipes'[h] = pipes[h]
  BY DEF Pipes
<1>6. \A h \in Pipes : PipeOk(pipes'[h])
  BY <1>5 DEF IInv
<1> QED
  BY <1>2, <1>3, <1>4, <1>5, <1>6

(* A step that leaves the records of threads alone. *)
LEMMA OnePipe ==
    ASSUME IInv, NEW g \in Pipes, NEW q, PipeOk(q), pipes' = [pipes EXCEPT ![g] = q],
           q.emitted = pipes[g].emitted, Counted(q) = Counted(pipes[g]),
           UNCHANGED pending
    PROVE  DropsAreCounted' /\ \A h \in Pipes : pipes'[h].emitted = pipes[h].emitted
<1>1. Pipes' = Pipes /\ pipes'[g] = q /\ \A h \in Pipes : h # g => pipes'[h] = pipes[h]
  BY Replaced
<1>2. \A h \in Pipes : Counted(pipes'[h]) = Counted(pipes[h])
                         /\ pipes'[h].emitted = pipes[h].emitted
  BY <1>1
<1> QED
  BY <1>1, <1>2 DEF IInv, DropsAreCounted, Counted

(* What a thread has in hand, when it takes a record or is rid of it. *)
LEMMA Hands ==
    ASSUME IInv, NEW t \in Threads, NEW r, r.pipe \in 0..Len(pipes),
           pending' = [pending EXCEPT ![t] = r], NEW g
    PROVE  /\ Cardinality(Holders(g)) \in Nat
           /\ r.pipe = g /\ pending[t].pipe # g =>
                Cardinality(Holders(g)') = Cardinality(Holders(g)) + 1
           /\ r.pipe # g /\ pending[t].pipe = g =>
                Cardinality(Holders(g)) = Cardinality(Holders(g)') + 1
           /\ r.pipe # g /\ pending[t].pipe # g =>
                Cardinality(Holders(g)') = Cardinality(Holders(g))
<1>1. IsFiniteSet(Holders(g)) /\ IsFiniteSet(Holders(g)')
  BY LogAssumption, FS_Subset DEF Holders
<1>2. Cardinality(Holders(g)) \in Nat /\ Cardinality(Holders(g)') \in Nat
  BY <1>1, FS_CardinalityType
<1>3. pending \in [Threads -> [pipe: 0..Len(pipes), n: Nat]]
  BY DEF IInv, TypeOK
<1>4. pending'[t] = r /\ \A s \in Threads : s # t => pending'[s] = pending[s]
  BY <1>3
<1>5. ASSUME r.pipe = g, pending[t].pipe # g
      PROVE  Cardinality(Holders(g)') = Cardinality(Holders(g)) + 1
  <2>1. Holders(g)' = Holders(g) \cup {t} /\ t \notin Holders(g)
    BY <1>4, <1>5 DEF Holders
  <2> QED
    BY <2>1, <1>1, FS_AddElement
<1>6. ASSUME r.pipe # g, pending[t].pipe = g
      PROVE  Cardinality(Holders(g)) = Cardinality(Holders(g)') + 1
  <2>1. Holders(g) = Holders(g)' \cup {t} /\ t \notin Holders(g)'
    BY <1>4, <1>6 DEF Holders
  <2> QED
    BY <2>1, <1>1, FS_AddElement
<1>7. ASSUME r.pipe # g, pending[t].pipe # g
      PROVE  Cardinality(Holders(g)') = Cardinality(Holders(g))
  <2>1. Holders(g)' = Holders(g)
    BY <1>4, <1>7 DEF Holders
  <2> QED
    BY <2>1
<1> QED
  BY <1>2, <1>5, <1>6, <1>7

-------------------------------------------------------------------------------
(* The invariant *)

LEMMA InitIInv == Init => IInv
<1> SUFFICES ASSUME Init PROVE IInv
  OBVIOUS
<1>1. pipes = <<>> /\ Pipes = {} /\ Len(pipes) = 0 /\ pipes \in Seq(AnyPipe)
  BY DEF Init, Pipes
<1>2. Len(MaxRecords) \in Nat
  BY LogAssumption, LenProperties
<1>3. TypeOK
  BY <1>1, <1>2 DEF Init, TypeOK, NoRecord
<1> QED
  BY <1>1, <1>3 DEF Init, IInv, Life, DropsAreCounted

LEMMA ConfigureKeeps == IInv /\ Configure => IInv'
<1> SUFFICES ASSUME IInv, Configure PROVE IInv'
  OBVIOUS
<1> DEFINE m == Len(pipes) + 1
<1>1. /\ attached = 0 /\ pipes \in Seq(AnyPipe) /\ NewPipe \in AnyPipe
      /\ Len(pipes) \in Nat /\ Pipes = 1..Len(pipes)
  BY NewPipeOk, PipeFields, LenProperties DEF IInv, Life, Configure, Pipes
<1>2. /\ pipes' = Append(pipes, NewPipe) /\ attached' = m /\ phase' = "up"
      /\ Len(pipes) < Len(MaxRecords) /\ UNCHANGED pending
  BY DEF Configure
<1>3. /\ pipes' \in Seq(AnyPipe) /\ Len(pipes') = m /\ Pipes' = 1..m
      /\ pipes'[m] = NewPipe /\ \A g \in Pipes : pipes'[g] = pipes[g]
  <2>1. pipes' \in Seq(AnyPipe) /\ Len(pipes') = m
        /\ pipes'[m] = NewPipe /\ \A g \in 1..Len(pipes) : pipes'[g] = pipes[g]
    BY <1>1, <1>2, AppendProperties
  <2> QED
    BY <2>1, <1>1, LenProperties DEF Pipes
<1>4. \A g \in Pipes' : g = m \/ (g \in Pipes /\ pipes'[g] = pipes[g])
  BY <1>1, <1>3
<1>5. (\A g \in Pipes : PipeOk(pipes[g]))'
  BY <1>3, <1>4, NewPipeOk DEF IInv
<1>6. TypeOK'
  <2>1. /\ phase' \in {"off", "up", "joining", "closing", "removing", "down"}
        /\ attached' \in {0, Len(pipes')} /\ attached' # 0
        /\ Len(pipes') <= Len(MaxRecords)
    BY <1>1, <1>2, <1>3, LogAssumption, LenProperties
  <2>2. (\A g \in Pipes : pipes[g] \in PipeType(Len(pipes[g].emitted)))'
    BY <1>5 DEF PipeOk
  <2>3. pending' \in [Threads -> [pipe: 0..Len(pipes'), n: Nat]]
    <3>1. 0..Len(pipes) \subseteq 0..Len(pipes')
      BY <1>1, <1>3
    <3> QED
      BY <3>1, <1>2 DEF IInv, TypeOK
  <2>4. (\A t \in Threads : pending[t] # NoRecord =>
           /\ pending[t].pipe \in Pipes
           /\ pending[t].n \in 1..Len(pipes[pending[t].pipe].emitted))'
    BY <1>1, <1>2, <1>3 DEF IInv, TypeOK, NoRecord
  <2> QED
    BY <2>1, <2>2, <2>3, <2>4 DEF TypeOK
<1>7. Life'
  <2>1. attached' \in Pipes' /\ Running(pipes'[attached'])
    BY <1>1, <1>2, <1>3, NewPipeOk
  <2>2. \A g \in Pipes' : g # attached' => Closed(pipes'[g])
    BY <1>1, <1>2, <1>4 DEF IInv, Life
  <2> QED
    BY <1>2, <2>1, <2>2 DEF Life
<1>8. DropsAreCounted'
  <2>1. ASSUME NEW g \in Pipes'
        PROVE  Len(pipes'[g].emitted) = Counted(pipes'[g]) + Cardinality(Holders(g)')
    <3>1. CASE g # m
      <4>1. g \in Pipes /\ pipes'[g] = pipes[g] /\ Holders(g)' = Holders(g)
        BY <3>1, <1>2, <1>4 DEF Holders
      <4>2. Len(pipes[g].emitted) = Counted(pipes[g]) + Cardinality(Holders(g))
        BY <4>1 DEF IInv, DropsAreCounted, Counted, Holders
      <4> QED
        BY <4>1, <4>2
    <3>2. CASE g = m
      <4>1. Holders(g)' = {}
        BY <3>2, <1>1, <1>2 DEF Holders, IInv, TypeOK
      <4>2. Cardinality(Holders(g)') = 0
        BY <4>1, FS_EmptySet
      <4> QED
        BY <3>2, <4>2, <1>3 DEF NewPipe, Counted
    <3> QED
      BY <3>1, <3>2
  <2> QED
    BY <2>1 DEF DropsAreCounted, Counted, Holders
<1> QED
  BY <1>3, <1>5, <1>6, <1>7, <1>8 DEF IInv

LEMMA EmitKeeps ==
    ASSUME IInv, NEW t \in Threads, NEW id \in Ids \cup {NoId}, Emit(t, id)
    PROVE  IInv'
<1> DEFINE p == pipes[attached]
           q == [p EXCEPT !.emitted = Append(@, id),
                          !.stamped = Append(@, Stamp(id, NoId))]
           r == [pipe |-> attached, n |-> Len(p.emitted) + 1]
<1>1. attached \in Pipes /\ attached = Len(pipes) /\ attached # 0 /\ PipeOk(p)
  BY LenProperties DEF Emit, MayEmit, IInv, TypeOK, Pipes
<1>3. PipeOk(q) /\ Ages(p, q) /\ Len(q.emitted) = Len(p.emitted) + 1 /\ Counted(q) = Counted(p)
  BY <1>1, EmitOk
<1>4. /\ pipes' = [pipes EXCEPT ![attached] = q] /\ pending' = [pending EXCEPT ![t] = r]
      /\ UNCHANGED <<phase, attached>> /\ pending[t] = NoRecord
  BY DEF Emit
<1> HIDE DEF q
<1>5. /\ pipes' \in Seq(AnyPipe) /\ Len(pipes') = Len(pipes) /\ Pipes' = Pipes
      /\ Len(pipes) \in Nat /\ Pipes = 1..Len(pipes)
      /\ pipes'[attached] = q /\ \A h \in Pipes : h # attached => pipes'[h] = pipes[h]
      /\ (\A h \in Pipes : PipeOk(pipes[h]))'
  BY <1>1, <1>3, <1>4, Replaced
<1>6. Len(p.emitted) \in Nat
  BY <1>1, PipeFields
<1>7. r.pipe = attached /\ r.n = Len(p.emitted) + 1 /\ r \in [pipe: 0..Len(pipes), n: Nat]
  BY <1>1, <1>5, <1>6
<1> HIDE DEF r
<1>8. TypeOK'
  <2>1. (\A g \in Pipes : pipes[g] \in PipeType(Len(pipes[g].emitted)))'
    BY <1>5 DEF PipeOk
  <2>2. pending' \in [Threads -> [pipe: 0..Len(pipes'), n: Nat]]
    BY <1>4, <1>5, <1>7 DEF IInv, TypeOK
  <2>3. ASSUME NEW s \in Threads, pending'[s] # NoRecord
        PROVE  /\ pending'[s].pipe \in Pipes
               /\ pending'[s].n \in 1..Len(pipes'[pending'[s].pipe].emitted)
    <3>1. CASE s = t
      <4>1. pending'[s] = r
        BY <3>1, <1>4 DEF IInv, TypeOK
      <4>2. Len(p.emitted) + 1 \in 1..Len(p.emitted) + 1
        BY <1>6
      <4> QED
        BY <4>1, <4>2, <1>1, <1>3, <1>5, <1>7
    <3>2. CASE s # t
      <4>1. /\ pending'[s] = pending[s] /\ pending[s].pipe \in Pipes
            /\ pending[s].n \in 1..Len(pipes[pending[s].pipe].emitted)
        BY <3>2, <2>3, <1>4 DEF IInv, TypeOK
      <4>2. CASE pending[s].pipe # attached
        BY <4>1, <4>2, <1>5
      <4>3. CASE pending[s].pipe = attached
        <5>1. pending[s].n \in 1..Len(p.emitted) + 1
          BY <4>1, <4>3, <1>6
        <5> QED
          BY <5>1, <4>1, <4>3, <1>3, <1>5
      <4> QED
        BY <4>2, <4>3
    <3> QED
      BY <3>1, <3>2
  <2> QED
    BY <2>1, <2>2, <2>3, <1>4, <1>5 DEF IInv, TypeOK
<1>9. Life'
  BY <1>1, <1>3, <1>4, <1>5 DEF IInv, Life, Ages
<1>10. DropsAreCounted'
  <2>1. ASSUME NEW g \in Pipes
        PROVE  Len(pipes'[g].emitted) = Counted(pipes'[g]) + Cardinality(Holders(g)')
    <3>1. /\ Cardinality(Holders(g)) \in Nat
          /\ attached = g => Cardinality(Holders(g)') = Cardinality(Holders(g)) + 1
          /\ attached # g => Cardinality(Holders(g)') = Cardinality(Holders(g))
      <4>1. pending[t].pipe # g /\ r.pipe \in 0..Len(pipes)
        BY <1>1, <1>4, <1>5, <1>7 DEF NoRecord
      <4> QED
        BY <4>1, <1>4, <1>7, Hands
    <3>2. Len(pipes[g].emitted) = Counted(pipes[g]) + Cardinality(Holders(g))
      BY DEF IInv, DropsAreCounted, Counted, Holders
    <3>3. Counted(pipes[g]) \in Nat
      BY CountedIsNat DEF IInv
    <3>4. CASE g = attached
      <4>1. /\ Len(pipes'[g].emitted) = Len(p.emitted) + 1
            /\ Counted(pipes'[g]) = Counted(pipes[g])
        BY <3>4, <1>3, <1>5
      <4> QED
        BY <4>1, <3>1, <3>2, <3>3, <3>4
    <3>5. CASE g # attached
      BY <3>1, <3>2, <3>5, <1>5
    <3> QED
      BY <3>4, <3>5
  <2> QED
    BY <2>1, <1>5 DEF DropsAreCounted, Counted, Holders
<1> QED
  BY <1>5, <1>8, <1>9, <1>10 DEF IInv

(* A thread hands its record over, to the queue or to the drop counter. *)
LEMMA HandOverKeeps ==
    ASSUME IInv, NEW t \in Threads, pending[t].pipe # 0, NEW q, HandOver(t, q),
           PipeOk(q), Ages(pipes[pending[t].pipe], q),
           q.emitted = pipes[pending[t].pipe].emitted,
           Counted(q) = Counted(pipes[pending[t].pipe]) + 1
    PROVE  IInv'
<1> DEFINE g == pending[t].pipe
<1>1. g \in Pipes
  BY DEF IInv, TypeOK, NoRecord
<1>2. /\ pipes' = [pipes EXCEPT ![g] = q] /\ pending' = [pending EXCEPT ![t] = NoRecord]
      /\ UNCHANGED <<phase, attached>>
  BY DEF HandOver
<1> HIDE DEF g
<1>3. /\ pipes' \in Seq(AnyPipe) /\ Len(pipes') = Len(pipes) /\ Pipes' = Pipes
      /\ Len(pipes) \in Nat /\ Pipes = 1..Len(pipes)
      /\ pipes'[g] = q /\ \A h \in Pipes : h # g => pipes'[h] = pipes[h]
      /\ (\A h \in Pipes : PipeOk(pipes[h]))'
  BY <1>1, <1>2, Replaced
<1>4. \A h \in Pipes : pipes'[h].emitted = pipes[h].emitted
  BY <1>3 DEF g
<1>5. TypeOK'
  <2>1. (\A h \in Pipes : pipes[h] \in PipeType(Len(pipes[h].emitted)))'
    BY <1>3 DEF PipeOk
  <2>2. pending' \in [Threads -> [pipe: 0..Len(pipes'), n: Nat]]
    <3>1. NoRecord \in [pipe: 0..Len(pipes), n: Nat]
      BY <1>3 DEF NoRecord
    <3> QED
      BY <3>1, <1>2, <1>3 DEF IInv, TypeOK
  <2>3. ASSUME NEW s \in Threads, pending'[s] # NoRecord
        PROVE  /\ pending'[s].pipe \in Pipes
               /\ pending'[s].n \in 1..Len(pipes'[pending'[s].pipe].emitted)
    <3>1. pending'[s] = pending[s]
      BY <2>3, <1>2 DEF IInv, TypeOK
    <3> QED
      BY <3>1, <2>3, <1>4 DEF IInv, TypeOK
  <2> QED
    BY <2>1, <2>2, <2>3, <1>2, <1>3 DEF IInv, TypeOK
<1>6. Life'
  <2>1. \A h \in Pipes : Ages(pipes[h], pipes'[h])
    BY <1>3 DEF Ages, g
  <2>2. attached # 0 => attached \in Pipes
    BY <1>3 DEF IInv, TypeOK
  <2> QED
    BY <2>1, <2>2, <1>2, <1>3 DEF IInv, Life, Ages
<1>7. DropsAreCounted'
  <2>1. ASSUME NEW h \in Pipes
        PROVE  Len(pipes'[h].emitted) = Counted(pipes'[h]) + Cardinality(Holders(h)')
    <3>1. /\ Cardinality(Holders(h)) \in Nat
          /\ h = g => Cardinality(Holders(h)) = Cardinality(Holders(h)') + 1
          /\ h # g => Cardinality(Holders(h)') = Cardinality(Holders(h))
      <4>1. NoRecord.pipe \in 0..Len(pipes) /\ NoRecord.pipe # h
        BY <1>3 DEF NoRecord
      <4> QED
        BY <4>1, <1>2, Hands DEF g
    <3>2. Len(pipes[h].emitted) = Counted(pipes[h]) + Cardinality(Holders(h))
      BY DEF IInv, DropsAreCounted, Counted, Holders
    <3>3. Counted(pipes[h]) \in Nat
      BY CountedIsNat DEF IInv
    <3>4. CASE h = g
      <4>1. Cardinality(Holders(h)') \in Nat
        <5>1. IsFiniteSet(Holders(h)')
          BY LogAssumption, FS_Subset DEF Holders
        <5> QED
          BY <5>1, FS_CardinalityType
      <4>2. Counted(pipes'[h]) = Counted(pipes[h]) + 1
        BY <3>4, <1>3 DEF g
      <4> QED
        BY <4>1, <4>2, <3>1, <3>2, <3>3, <3>4, <1>4
    <3>5. CASE h # g
      BY <3>1, <3>2, <3>5, <1>3
    <3> QED
      BY <3>4, <3>5
  <2> QED
    BY <2>1, <1>3 DEF DropsAreCounted, Counted, Holders
<1> QED
  BY <1>3, <1>5, <1>6, <1>7 DEF IInv

LEMMA LogKeeps == ASSUME IInv, NEW t \in Threads, Log(t) PROVE IInv'
<1> DEFINE g == pending[t].pipe
<1>1. g # 0
  BY DEF Log, Enqueue, Drop
<1>2. g \in Pipes /\ PipeOk(pipes[g]) /\ pending[t].n \in 1..Len(pipes[g].emitted)
  BY <1>1 DEF IInv, TypeOK, NoRecord
<1>3. CASE Enqueue(t)
  <2>1. HandOver(t, Accept(pipes[g], pending[t].n))
    BY <1>3 DEF Enqueue
  <2> QED
    BY <2>1, <1>1, <1>2, AcceptOk, HandOverKeeps
<1>4. CASE Drop(t)
  <2>1. PICK report \in Reports : HandOver(t, CountDrop(pipes[g], report))
    BY <1>4 DEF Drop
  <2> QED
    BY <2>1, <1>1, <1>2, CountDropOk, HandOverKeeps
<1> QED
  BY <1>3, <1>4 DEF Log

(* A step of a listener, or of a shutdown, on one pipeline. *)
LEMMA PipeStep ==
    ASSUME IInv, NEW g \in Pipes, NEW q, pipes' = [pipes EXCEPT ![g] = q],
           PipeOk(q), q.emitted = pipes[g].emitted, Counted(q) = Counted(pipes[g]),
           phase' \in {"off", "up", "joining", "closing", "removing", "down"},
           UNCHANGED <<attached, pending>>,
           phase' \in {"joining", "closing", "removing"} => attached # 0,
           Life'
    PROVE  IInv'
<1>1. /\ pipes' \in Seq(AnyPipe) /\ Len(pipes') = Len(pipes) /\ Pipes' = Pipes
      /\ (\A h \in Pipes : PipeOk(pipes[h]))'
  BY Replaced
<1>2. DropsAreCounted' /\ \A h \in Pipes : pipes'[h].emitted = pipes[h].emitted
  BY OnePipe
<1>3. TypeOK'
  <2>1. (\A h \in Pipes : pipes[h] \in PipeType(Len(pipes[h].emitted)))'
    BY <1>1 DEF PipeOk
  <2>2. (\A t \in Threads : pending[t] # NoRecord =>
           /\ pending[t].pipe \in Pipes
           /\ pending[t].n \in 1..Len(pipes[pending[t].pipe].emitted))'
    BY <1>1, <1>2 DEF IInv, TypeOK
  <2> QED
    BY <2>1, <2>2, <1>1 DEF IInv, TypeOK
<1> QED
  BY <1>1, <1>2, <1>3 DEF IInv

LEMMA ListenKeeps == ASSUME IInv, NEW g \in Pipes, Listen(g) PROVE IInv'
<1> DEFINE p == pipes[g]
<1>1. PipeOk(p)
  BY DEF IInv
<1>2. attached # 0 => attached \in Pipes
  BY LenProperties DEF IInv, TypeOK, Pipes
<1>3. ASSUME NEW q, PipeOk(q), Ages(p, q), q.emitted = p.emitted, Counted(q) = Counted(p),
             pipes' = [pipes EXCEPT ![g] = q], UNCHANGED <<phase, attached, pending>>
      PROVE  IInv'
  <2>1. Pipes' = Pipes /\ pipes'[g] = q /\ \A h \in Pipes : h # g => pipes'[h] = pipes[h]
    BY <1>3, Replaced
  <2>2. \A h \in Pipes : Ages(pipes[h], pipes'[h])
    BY <2>1, <1>3 DEF Ages
  <2>3. Life'
    BY <2>1, <2>2, <1>2, <1>3 DEF IInv, Life, Ages
  <2> QED
    BY <2>3, <1>3, PipeStep DEF IInv, TypeOK
<1>4. CASE Take(g)
  <2> DEFINE q == [p EXCEPT !.queue = Tail(@),
                            !.inHand = Head(p.queue),
                            !.listener = IF Head(p.queue) = Sentinel
                                         THEN "ended" ELSE "writing"]
  <2>1. PipeOk(q) /\ Ages(p, q) /\ q.emitted = p.emitted /\ Counted(q) = Counted(p)
    BY <1>1, <1>4, TakeOk DEF Take
  <2>2. pipes' = [pipes EXCEPT ![g] = q]
    BY <1>4 DEF Take, IInv, Pipes
  <2>3. UNCHANGED <<phase, attached, pending>>
    BY <1>4 DEF Take
  <2> QED
    BY <2>1, <2>2, <2>3, <1>3
<1>5. CASE Write(g)
  <2>1. PICK ok \in BOOLEAN :
            pipes' = [pipes EXCEPT ![g].listener = "waiting", ![g].inHand = 0,
                                   ![g].open = TRUE, ![g].written = Handled(g, ok)]
    BY <1>5 DEF Write
  <2> DEFINE q == Rid(p, ok, "waiting", TRUE)
  <2>2. PipeOk(q) /\ Ages(p, q) /\ q.emitted = p.emitted /\ Counted(q) = Counted(p)
    <3>1. p.listener = "writing"
      BY <1>5 DEF Write
    <3> HIDE DEF p
    <3> QED
      BY <1>1, <3>1, HandledOk
  <2>3. pipes' = [pipes EXCEPT ![g] = q]
    BY <2>1 DEF Handled, Rid, IInv, Pipes
  <2>4. UNCHANGED <<phase, attached, pending>>
    BY <1>5 DEF Write
  <2> QED
    BY <2>2, <2>3, <2>4, <1>3
<1>6. CASE ReopenFails(g)
  <2> DEFINE q == Rid(p, FALSE, "ended", FALSE)
  <2>1. p.listener = "writing" /\ p.open = FALSE
    BY <1>1, <1>6, PipeFields DEF ReopenFails
  <2>2. PipeOk(q) /\ Ages(p, q) /\ q.emitted = p.emitted /\ Counted(q) = Counted(p)
    <3> HIDE DEF p
    <3> QED
      BY <1>1, <2>1, HandledOk
  <2>3. q = [p EXCEPT !.listener = "ended", !.inHand = 0,
                      !.written = Handled(g, FALSE)]
    BY <1>1, <2>1 DEF Handled, Rid, PipeOk, PipeType
  <2>4. pipes' = [pipes EXCEPT ![g] = q]
    <3> HIDE DEF q
    <3> QED
      BY <1>6, <2>3 DEF ReopenFails, IInv, Pipes
  <2>5. UNCHANGED <<phase, attached, pending>>
    BY <1>6 DEF ReopenFails
  <2> QED
    BY <2>2, <2>4, <2>5, <1>3
<1> QED
  BY <1>4, <1>5, <1>6 DEF Listen

LEMMA StopListenerKeeps == ASSUME IInv, StopListener PROVE IInv'
<1> DEFINE p == pipes[attached]
           q == [p EXCEPT !.before = Len(p.accepted),
                          !.stopFailed = Full(attached),
                          !.queue = IF Full(attached) THEN @ ELSE Append(@, Sentinel)]
<1>1. attached \in Pipes /\ attached # 0 /\ phase = "up"
  BY LenProperties DEF StopListener, Proceed, IInv, TypeOK, Pipes
<1>2. PipeOk(p) /\ Running(p)
  BY <1>1 DEF IInv, Life
<1>3. Full(attached) \in BOOLEAN
  BY DEF Full
<1>4. /\ PipeOk(q) /\ q.stopFailed = Full(attached)
      /\ q.emitted = p.emitted /\ Counted(q) = Counted(p)
  <2> HIDE DEF p
  <2> QED
    BY <1>2, <1>3, StopOk
<1>5. pipes' = [pipes EXCEPT ![attached] = q]
  BY <1>1 DEF StopListener, IInv, Pipes
<1>6. /\ phase' = IF Full(attached) THEN "closing" ELSE "joining"
      /\ UNCHANGED <<attached, pending>>
  BY DEF StopListener, Proceed
<1> HIDE DEF q
<1>7. /\ Pipes' = Pipes /\ pipes'[attached] = q
      /\ \A h \in Pipes : h # attached => pipes'[h] = pipes[h]
  BY <1>1, <1>4, <1>5, Replaced
<1>8. Life'
  <2>1. phase' = "closing" => Stopped(pipes'[attached])
    BY <1>4, <1>6, <1>7 DEF Stopped
  <2>2. \A h \in Pipes : h # attached => Closed(pipes'[h])
    BY <1>7 DEF IInv, Life
  <2> QED
    BY <2>1, <2>2, <1>6, <1>7 DEF Life
<1> QED
  BY <1>1, <1>4, <1>5, <1>6, <1>8, PipeStep

LEMMA CloseFileKeeps == ASSUME IInv, CloseFile PROVE IInv'
<1> DEFINE p == pipes[attached]
           q == [p EXCEPT !.open = FALSE]
<1>1. attached \in Pipes /\ attached # 0 /\ phase = "closing"
  BY LenProperties DEF CloseFile, Proceed, IInv, TypeOK, Pipes
<1>2. PipeOk(p) /\ Stopped(p)
  BY <1>1 DEF IInv, Life
<1>3. /\ PipeOk(q) /\ Closed(q) /\ Stopped(q)
      /\ q.emitted = p.emitted /\ Counted(q) = Counted(p)
  BY <1>2, CloseOk
<1>4. pipes' = [pipes EXCEPT ![attached] = q]
  BY <1>1 DEF CloseFile, IInv, Pipes
<1>5. phase' = "removing" /\ UNCHANGED <<attached, pending>>
  BY DEF CloseFile, Proceed
<1> HIDE DEF q
<1>6. /\ Pipes' = Pipes /\ pipes'[attached] = q
      /\ \A h \in Pipes : h # attached => pipes'[h] = pipes[h]
  BY <1>1, <1>3, <1>4, Replaced
<1>7. Life'
  BY <1>3, <1>5, <1>6 DEF IInv, Life
<1> QED
  BY <1>1, <1>3, <1>4, <1>5, <1>7, PipeStep

(* The steps that change no pipeline. *)
LEMMA OtherStepsKeep ==
    ASSUME IInv, UNCHANGED <<pipes, pending>>, phase' \in {"off", "up", "closing", "down"},
           attached' \in {0, attached},
           phase' = "closing" => attached' # 0, Life'
    PROVE  IInv'
<1>1. TypeOK'
  BY DEF IInv, TypeOK, Pipes
<1>2. DropsAreCounted'
  BY DEF IInv, DropsAreCounted, Pipes
<1> QED
  BY <1>1, <1>2 DEF IInv, Pipes

(* Every step keeps the invariant. *)
LEMMA NextIInv == IInv /\ [Next]_vars => IInv'
<1> SUFFICES ASSUME IInv, [Next]_vars PROVE IInv'
  OBVIOUS
<1>1. CASE Configure
  BY <1>1, ConfigureKeeps
<1>2. CASE ConfigureFails
  <2>1. Life'
    BY <1>2 DEF ConfigureFails, IInv, Life, Pipes
  <2> QED
    BY <1>2, <2>1, OtherStepsKeep DEF ConfigureFails, IInv, TypeOK
<1>4. ASSUME NEW t \in Threads, NEW id \in Ids \cup {NoId}, Emit(t, id)
      PROVE  IInv'
  BY <1>4, EmitKeeps
<1>5. ASSUME NEW t \in Threads, Log(t) PROVE IInv'
  BY <1>5, LogKeeps
<1>6. ASSUME NEW g \in Pipes, Listen(g) PROVE IInv'
  BY <1>6, ListenKeeps
<1>7. CASE NothingToStop
  <2>1. Life'
    BY <1>7 DEF NothingToStop, Proceed, IInv, Life, Pipes
  <2> QED
    BY <1>7, <2>1, OtherStepsKeep DEF NothingToStop, Proceed, IInv, TypeOK
<1>8. CASE StopListener
  BY <1>8, StopListenerKeeps
<1>9. CASE Join
  <2>1. Life'
    BY <1>9 DEF Join, Proceed, IInv, Life, Stopped, Pipes
  <2> QED
    BY <1>9, <2>1, OtherStepsKeep DEF Join, Proceed, IInv, TypeOK
<1>10. CASE CloseFile
  BY <1>10, CloseFileKeeps
<1>11. CASE RemoveHandlers
  <2>1. Life'
    BY <1>11 DEF RemoveHandlers, Proceed, IInv, TypeOK, Life, Pipes
  <2> QED
    BY <1>11, <2>1, OtherStepsKeep DEF RemoveHandlers, Proceed, IInv, TypeOK
<1>12. CASE UNCHANGED vars
  BY <1>12 DEF vars, IInv, TypeOK, Life, DropsAreCounted, Pipes
<1> QED
  BY <1>1, <1>2, <1>4, <1>5, <1>6, <1>7, <1>8, <1>9, <1>10, <1>11, <1>12
     DEF Next, Shutdown, Terminating

(* The inductive invariant: every pipeline ever made is sound, the attached *)
(* one is as far as the shutdown is, every other one is closed, and each    *)
(* record is accepted, dropped, reported or in the hands of its thread.     *)
THEOREM Invariant == Spec => []IInv
<1> QED
  BY InitIInv, NextIInv, PTL DEF Spec

(* The state of file logging has its type, for any number of threads,      *)
(* records and configurations.                                             *)
THEOREM TypeCorrect == Spec => []TypeOK
<1> QED
  BY Invariant, PTL DEF IInv

(* Each line carries the id of the request that logged it, though the      *)
(* listener's thread, with a context of its own, filters and writes it.    *)
THEOREM LinesKeepTheirId == Spec => []FileKeepsIds
<1>1. IInv => FileKeepsIds
  BY DEF IInv, PipeOk, KeepsIds, FileKeepsIds
<1> QED
  BY <1>1, Invariant, PTL

(* Each file is what its queue accepted so far, in that order, across      *)
(* stops that fail, files that are opened again and new configurations.    *)
THEOREM FilesAreInOrder == Spec => []FileIsPrefix
<1>1. IInv => FileIsPrefix
  BY DEF IInv, PipeOk, InOrder, FileIsPrefix
<1> QED
  BY <1>1, Invariant, PTL

(* A stop that succeeds leaves nothing unhandled that was accepted before  *)
(* it, and closes the file.                                                *)
THEOREM StopsFlush == Spec => []StopFlushes
<1>1. IInv => StopFlushes
  BY DEF IInv, PipeOk, Flushes, Life, Closed, StopFlushes
<1> QED
  BY <1>1, Invariant, PTL

(* What the queue does not take is counted as dropped, reported, or part   *)
(* of a report that stderr refused.                                        *)
THEOREM DropsAddUp == Spec => []DropsAreCounted
<1> QED
  BY Invariant, PTL DEF IInv
===============================================================================
