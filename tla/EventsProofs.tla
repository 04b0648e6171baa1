---------------------------- MODULE EventsProofs ----------------------------
(***************************************************************************)
(* Proofs about EventBus, for any number of publishers, subscriptions,     *)
(* events and any capacities: what reaches a subscription is in order, and *)
(* what does not reach it is counted.  And about WsSession, for any number *)
(* of subscriptions: none is left on the bus that nobody can cancel.       *)
(***************************************************************************)
EXTENDS MCEvents, FiniteSetTheorems, SequenceTheorems, TLAPS

USE DEF ringVars, pubVars, subVars, runVars

-----------------------------------------------------------------------------
(* Sequences.                                                              *)

\* What is put into the inbox comes to the end of the stream.
LEMMA StreamSent ==
  ASSUME NEW E, NEW g \in Seq(E), NEW q \in Seq(E), NEW e \in E
  PROVE  g \o Append(q, e) = Append(g \o q, e)
<1>1. g \o Append(q, e) \in Seq(E) /\ Append(g \o q, e) \in Seq(E)
  OBVIOUS
<1>2. Len(g \o Append(q, e)) = Len(Append(g \o q, e))
  OBVIOUS
<1>3. ASSUME NEW i \in 1..Len(Append(g \o q, e))
      PROVE  (g \o Append(q, e))[i] = Append(g \o q, e)[i]
  OBVIOUS
<1> QED BY <1>1, <1>2, <1>3, SeqEqual

\* Reading the inbox leaves the stream as it is.
LEMMA StreamRead ==
  ASSUME NEW E, NEW g \in Seq(E), NEW q \in Seq(E), q # <<>>
  PROVE  Append(g, Head(q)) \o Tail(q) = g \o q
<1>0. Head(q) \in E /\ Tail(q) \in Seq(E) /\ Len(Tail(q)) = Len(q) - 1
  OBVIOUS
<1>1. Append(g, Head(q)) \o Tail(q) \in Seq(E) /\ g \o q \in Seq(E)
  BY <1>0
<1>2. Len(Append(g, Head(q)) \o Tail(q)) = Len(g \o q)
  BY <1>0
<1>3. ASSUME NEW i \in 1..Len(g \o q)
      PROVE  (Append(g, Head(q)) \o Tail(q))[i] = (g \o q)[i]
  BY <1>0
<1> QED BY <1>1, <1>2, <1>3, SeqEqual

\* The publisher's mark for "nothing to put" is no kind of event.
LEMMA NoneIsNoKind == None \notin Kinds
<1>1. ASSUME None \in Kinds PROVE FALSE
  <2>1. None.type = "none" /\ None.type \in {"install", "invoke", "safe"}
    BY <1>1, BusAssumption DEF None
  <2> QED BY <2>1
<1> QED BY <1>1

-----------------------------------------------------------------------------
(* The inductive invariant, part by part.                                  *)

LEMMA TypeStep == ASSUME BusInv, [Next]_vars PROVE TypeOK'
<1> USE DEF TypeOK
<1>0. TypeOK /\ RingSize \in Nat \ {0} /\ InboxSize \in Nat \ {0} /\ MaxEvents \in Nat
      /\ Len(log) + Cardinality(Pending) <= calls /\ IsFiniteSet(Pending)
      /\ Len(ring) <= Len(log)
  BY BusAssumption DEF BusInv, PendLine, RingLine
<1>1. CASE UNCHANGED vars
  BY <1>0, <1>1 DEF vars
<1>2. ASSUME NEW p \in Publishers, PublishCheck(p) PROVE TypeOK'
  <2>1. sending' \in [Publishers -> Kinds \cup {None}]
    BY <1>0, <1>2 DEF PublishCheck
  <2>2. calls' \in 0..MaxEvents /\ Len(log) <= calls'
    BY <1>0, <1>2 DEF PublishCheck
  <2> QED BY <1>0, <1>2, <2>1, <2>2 DEF PublishCheck
<1>3. ASSUME NEW p \in Publishers, PublishSend(p) PROVE TypeOK'
  <2>1. sending[p] \in Kinds /\ sending[p] # None /\ p \in Pending
    BY <1>0, <1>3 DEF PublishSend, Pending
  <2>2. Len(log) + 1 <= calls
    <3>1. Cardinality(Pending) \in Nat \ {0}
      <4>0. IsFiniteSet(Pending)
        BY <1>0
      <4>1. Cardinality(Pending) \in Nat
        BY <4>0, FS_CardinalityType
      <4>2. Cardinality(Pending) # 0
        BY <1>0, <2>1, FS_EmptySet
      <4> QED BY <4>1, <4>2
    <3> QED BY <1>0, <3>1
  <2>3. Event(Len(log) + 1, sending[p]) \in Events
    BY <1>0, <2>1 DEF Event, Events
  <2>4. sending' \in [Publishers -> Kinds \cup {None}]
    BY <1>0, <1>3 DEF PublishSend
  <2>5. /\ ring' \in Seq(Events) /\ Len(ring') <= RingSize
        /\ log' \in Seq(Kinds) /\ Len(log') <= calls
    <3>1. CASE UNCHANGED <<ring, log>>
      BY <1>0, <3>1
    <3>2. CASE /\ ring' = Append(ring, Event(Len(log) + 1, sending[p]))
               /\ log' = Append(log, sending[p]) /\ Len(ring) < RingSize
      BY <1>0, <2>1, <2>2, <2>3, <3>2
    <3> QED BY <1>3, <3>1, <3>2 DEF PublishSend
  <2>6. panicked' \in BOOLEAN
    BY <1>0, <1>3 DEF PublishSend
  <2> QED BY <1>0, <1>3, <2>4, <2>5, <2>6 DEF PublishSend
<1>4. ASSUME NEW s \in Subs, Subscribe(s) PROVE TypeOK'
  <2>1. Popped \in Nat
    BY <1>0 DEF Popped
  <2> QED BY <1>0, <1>4, <2>1 DEF Subscribe
<1>5. ASSUME NEW s \in Subs, CancelDelete(s) PROVE TypeOK'
  BY <1>0, <1>5 DEF CancelDelete
<1>6. ASSUME NEW s \in Subs, CancelClose(s) PROVE TypeOK'
  BY <1>0, <1>6 DEF CancelClose
<1>7. ASSUME NEW s \in Subs, Receive(s) PROVE TypeOK'
  <2>1. /\ inbox[s] \in Seq(Events) /\ inbox[s] # <<>> /\ got[s] \in Seq(Events)
        /\ Len(inbox[s]) <= InboxSize
    BY <1>0, <1>7 DEF Receive
  <2>2. /\ Head(inbox[s]) \in Events /\ Tail(inbox[s]) \in Seq(Events)
        /\ Len(Tail(inbox[s])) <= InboxSize
    BY <1>0, <2>1
  <2>3. Append(got[s], Head(inbox[s])) \in Seq(Events)
    BY <2>1, <2>2
  <2>4. /\ inbox' \in [Subs -> Seq(Events)] /\ got' \in [Subs -> Seq(Events)]
        /\ \A t \in Subs : Len(inbox'[t]) <= InboxSize
    BY <1>0, <1>7, <2>2, <2>3 DEF Receive
  <2> QED BY <1>0, <1>7, <2>4 DEF Receive
<1>8. CASE RunRecv
  BY <1>0, <1>8 DEF RunRecv
<1>9. CASE RunClosed \/ RunFanned \/ RunDone
  BY <1>0, <1>9 DEF RunClosed, RunFanned, RunDone
<1>10. ASSUME NEW s \in Subs, RunVisit(s) PROVE TypeOK'
  <2>1. /\ inbox' \in [Subs -> Seq(Events)] /\ dropped' \in [Subs -> Nat]
        /\ \A t \in Subs : Len(inbox'[t]) <= InboxSize
    <3>1. CASE inbox' = [inbox EXCEPT ![s] = Append(@, current)] /\ UNCHANGED dropped
               /\ Len(inbox[s]) < InboxSize
      <4>1. Append(inbox[s], current) \in Seq(Events)
            /\ Len(Append(inbox[s], current)) <= InboxSize
        BY <1>0, <3>1
      <4> QED BY <1>0, <3>1, <4>1
    <3>2. CASE UNCHANGED inbox /\ dropped' = [dropped EXCEPT ![s] = @ + 1]
      BY <1>0, <3>2
    <3>3. CASE UNCHANGED <<inbox, dropped>>
      BY <1>0, <3>3
    <3> QED BY <1>10, <3>1, <3>2, <3>3 DEF RunVisit, TrySend
  <2> QED BY <1>0, <1>10, <2>1 DEF RunVisit
<1>11. ASSUME NEW s \in Subs, RunCancel(s) PROVE TypeOK'
  BY <1>0, <1>11 DEF RunCancel
<1>12. CASE CloseFlag \/ CloseRing
  BY <1>0, <1>12 DEF CloseFlag, CloseRing
<1> QED BY <1>1, <1>2, <1>3, <1>4, <1>5, <1>6, <1>7, <1>8, <1>9, <1>10, <1>11, <1>12
        DEF Next, Run

\* A publisher is pending between its two steps.
LEMMA PendStep == ASSUME BusInv, [Next]_vars PROVE PendLine'
<1> USE DEF PendLine
<1>0. /\ sending \in [Publishers -> Kinds \cup {None}] /\ log \in Seq(Kinds)
      /\ calls \in Nat /\ IsFiniteSet(Pending) /\ Cardinality(Pending) \in Nat
      /\ Len(log) + Cardinality(Pending) <= calls
  <2>1. IsFiniteSet(Pending)
    BY DEF BusInv
  <2>2. Cardinality(Pending) \in Nat
    BY <2>1, FS_CardinalityType
  <2>3. calls \in Nat
    BY BusAssumption DEF BusInv, TypeOK
  <2> QED BY <2>1, <2>2, <2>3 DEF BusInv, TypeOK
<1>1. ASSUME UNCHANGED <<sending, calls, log>> PROVE PendLine'
  BY <1>0, <1>1 DEF Pending
<1>2. ASSUME NEW p \in Publishers, PublishCheck(p) PROVE PendLine'
  <2>1. CASE busClosed
    BY <1>0, <1>2, <2>1 DEF PublishCheck, Pending
  <2>2. CASE ~busClosed
    <3>1. PICK kind \in Kinds : sending' = [sending EXCEPT ![p] = kind]
      BY <1>2, <2>2 DEF PublishCheck
    <3>2. Pending' = Pending \cup {p} /\ p \notin Pending
      <4>1. \A q \in Publishers : sending'[q] = IF q = p THEN kind ELSE sending[q]
        BY <1>0, <3>1
      <4>2. kind # None /\ sending[p] = None
        BY <1>2, NoneIsNoKind DEF PublishCheck
      <4>3. \A q \in Publishers : sending'[q] # None <=> sending[q] # None \/ q = p
        BY <4>1, <4>2
      <4> QED BY <4>2, <4>3 DEF Pending
    <3>3. IsFiniteSet(Pending') /\ Cardinality(Pending') = Cardinality(Pending) + 1
      BY <1>0, <3>2, FS_AddElement
    <3> QED BY <1>0, <1>2, <3>3 DEF PublishCheck
  <2> QED BY <2>1, <2>2
<1>3. ASSUME NEW p \in Publishers, PublishSend(p) PROVE PendLine'
  <2>1. Pending' = Pending \ {p} /\ p \in Pending
    <3>1. /\ \A q \in Publishers : sending'[q] = IF q = p THEN None ELSE sending[q]
          /\ sending[p] # None
      BY <1>0, <1>3 DEF PublishSend
    <3>2. \A q \in Publishers : sending'[q] # None <=> sending[q] # None /\ q # p
      BY <3>1
    <3> QED BY <3>1, <3>2 DEF Pending
  <2>2. IsFiniteSet(Pending') /\ Cardinality(Pending') = Cardinality(Pending) - 1
    BY <1>0, <2>1, FS_RemoveElement
  <2>3. Len(log') <= Len(log) + 1 /\ Len(log') \in Nat
    <3>1. CASE log' = log
      BY <1>0, <3>1
    <3>2. CASE log' = Append(log, sending[p])
      BY <1>0, <1>3, <3>2 DEF PublishSend
    <3> QED BY <1>3, <3>1, <3>2 DEF PublishSend
  <2> QED BY <1>0, <1>3, <2>2, <2>3 DEF PublishSend
<1> QED BY <1>1, <1>2, <1>3
        DEF Next, Run, vars, Subscribe, CancelDelete, CancelClose, Receive, RunRecv,
            RunClosed, RunFanned, RunDone, RunVisit, RunCancel, CloseFlag, CloseRing

-----------------------------------------------------------------------------
(* What a step does to the ring and the log.                               *)

\* A publication adds to both or to neither; only RunRecv takes from the ring.
LEMMA RingMoves ==
  ASSUME BusInv, [Next]_vars
  PROVE  \/ /\ Popped' = Popped /\ Len(log) <= Len(log') /\ ~RunRecv
            /\ \A n \in 1..Len(log) : log'[n] = log[n]
            /\ runner' = "fan" => runner = "fan" /\ UNCHANGED <<current, must>>
            /\ runner' = "fan" => seen \subseteq seen'
         \/ RunRecv /\ Popped' = Popped + 1 /\ log' = log
<1>0. ring \in Seq(Events) /\ log \in Seq(Kinds) /\ Len(ring) <= Len(log)
  BY DEF BusInv, TypeOK, RingLine
<1>1. ASSUME UNCHANGED <<ring, log>>, ~RunRecv,
             runner' = "fan" => /\ runner = "fan" /\ UNCHANGED <<current, must>>
                                /\ seen \subseteq seen'
      PROVE  /\ Popped' = Popped /\ Len(log) <= Len(log') /\ ~RunRecv
             /\ \A n \in 1..Len(log) : log'[n] = log[n]
             /\ runner' = "fan" => runner = "fan" /\ UNCHANGED <<current, must>>
             /\ runner' = "fan" => seen \subseteq seen'
  BY <1>0, <1>1 DEF Popped
<1>2. ASSUME NEW p \in Publishers, PublishSend(p)
      PROVE  /\ Popped' = Popped /\ Len(log) <= Len(log') /\ ~RunRecv
             /\ \A n \in 1..Len(log) : log'[n] = log[n]
             /\ UNCHANGED <<runner, current, must, seen>>
  <2>1. UNCHANGED runner /\ UNCHANGED <<current, must, seen>>
    BY <1>2 DEF PublishSend
  <2>2. ~RunRecv
    BY <2>1 DEF RunRecv
  <2>3. CASE UNCHANGED <<ring, log>>
    BY <1>0, <2>1, <2>2, <2>3 DEF Popped
  <2>4. CASE /\ ring' = Append(ring, Event(Len(log) + 1, sending[p]))
             /\ log' = Append(log, sending[p])
    <3>1. /\ Len(ring') = Len(ring) + 1 /\ Len(log') = Len(log) + 1
          /\ \A n \in 1..Len(log) : log'[n] = log[n]
      BY <1>0, <2>4
    <3> QED BY <1>0, <2>1, <2>2, <3>1 DEF Popped
  <2> QED BY <1>2, <2>3, <2>4 DEF PublishSend
<1>3. ASSUME RunRecv PROVE Popped' = Popped + 1 /\ log' = log
  <2>1. ring # <<>> /\ ring' = Tail(ring) /\ log' = log
    BY <1>3 DEF RunRecv
  <2>2. Len(ring') = Len(ring) - 1 /\ Len(ring) \in Nat /\ Len(log) \in Nat
    BY <1>0, <2>1
  <2> QED BY <2>1, <2>2 DEF Popped
<1>4. ASSUME NEW p \in Publishers, PublishCheck(p)
      PROVE  /\ UNCHANGED <<ring, log>> /\ ~RunRecv /\ UNCHANGED <<runner, current, must>>
             /\ seen \subseteq seen'
  BY <1>4 DEF PublishCheck, RunRecv
<1>5. ASSUME NEW s \in Subs, Subscribe(s) \/ CancelDelete(s) \/ CancelClose(s) \/ Receive(s)
      PROVE  /\ UNCHANGED <<ring, log>> /\ ~RunRecv /\ UNCHANGED <<runner, current, must>>
             /\ seen \subseteq seen'
  BY <1>5 DEF Subscribe, CancelDelete, CancelClose, Receive, RunRecv
<1>6. ASSUME NEW s \in Subs, RunVisit(s) \/ RunCancel(s)
      PROVE  /\ UNCHANGED <<ring, log>> /\ ~RunRecv /\ UNCHANGED <<runner, current, must>>
             /\ seen \subseteq seen'
  BY <1>6 DEF RunVisit, RunCancel, RunRecv
<1>7. ASSUME RunClosed \/ RunFanned \/ RunDone
      PROVE  UNCHANGED <<ring, log>> /\ ~RunRecv /\ runner' # "fan"
  BY <1>7 DEF RunClosed, RunFanned, RunDone, RunRecv
<1>8. ASSUME CloseFlag \/ CloseRing \/ UNCHANGED vars
      PROVE  /\ UNCHANGED <<ring, log>> /\ ~RunRecv /\ UNCHANGED <<runner, current, must>>
             /\ seen \subseteq seen'
  BY <1>8 DEF CloseFlag, CloseRing, RunRecv, vars
<1> QED BY <1>1, <1>2, <1>3, <1>4, <1>5, <1>6, <1>7, <1>8 DEF Next, Run

LEMMA RingStep == ASSUME BusInv, [Next]_vars, TypeOK' PROVE RingLine'
<1> USE DEF RingLine
<1>0. /\ ring \in Seq(Events) /\ log \in Seq(Kinds) /\ ring' \in Seq(Events)
      /\ log' \in Seq(Kinds) /\ RingLine
  BY DEF BusInv, TypeOK
<1>1. ASSUME NEW p \in Publishers, PublishSend(p) PROVE RingLine'
  <2>1. /\ Popped' = Popped /\ UNCHANGED runner /\ UNCHANGED current
        /\ \A n \in 1..Len(log) : log'[n] = log[n]
    BY <1>1, RingMoves DEF PublishSend, RunRecv
  <2>2. runner' = "fan" => Popped' > 0 /\ current' = Event(Popped', log'[Popped'])
    <3>1. runner = "fan" => Popped \in 1..Len(log) /\ current = Event(Popped, log[Popped])
      BY <1>0 DEF Popped
    <3> QED BY <2>1, <3>1
  <2>3. CASE UNCHANGED <<ring, log>>
    BY <1>0, <2>1, <2>2, <2>3
  <2>4. CASE /\ ring' = Append(ring, Event(Len(log) + 1, sending[p]))
             /\ log' = Append(log, sending[p])
    <3>1. /\ Len(ring') = Len(ring) + 1 /\ Len(log') = Len(log) + 1
          /\ ring'[Len(ring) + 1] = Event(Len(log) + 1, sending[p])
          /\ log'[Len(log) + 1] = sending[p]
          /\ \A i \in 1..Len(ring) : ring'[i] = ring[i]
      BY <1>0, <2>4
    <3>2. ASSUME NEW i \in 1..Len(ring)
          PROVE  ring'[i] = Event(Popped + i, log'[Popped + i])
      <4>1. Popped + i \in 1..Len(log)
        BY <1>0 DEF Popped
      <4> QED BY <1>0, <2>1, <3>1, <4>1
    <3>3. Popped + (Len(ring) + 1) = Len(log) + 1
      BY <1>0 DEF Popped
    <3>4. ASSUME NEW i \in 1..Len(ring')
          PROVE  ring'[i] = Event(Popped' + i, log'[Popped' + i])
      BY <1>0, <2>1, <3>1, <3>2, <3>3
    <3> QED BY <1>0, <2>2, <3>1, <3>4
  <2> QED BY <1>1, <2>3, <2>4 DEF PublishSend
<1>2. CASE RunRecv
  <2>1. ring # <<>> /\ ring' = Tail(ring) /\ log' = log /\ current' = Head(ring)
    BY <1>2 DEF RunRecv
  <2>2. /\ Len(ring') = Len(ring) - 1 /\ Len(ring) \in Nat \ {0} /\ current' = ring[1]
        /\ \A i \in 1..Len(ring') : ring'[i] = ring[i + 1]
    BY <1>0, <2>1
  <2>3. Popped' = Popped + 1 /\ Popped \in Nat
    BY <1>0, <2>1, <2>2 DEF Popped
  <2>4. current' = Event(Popped + 1, log[Popped + 1])
    BY <1>0, <2>2
  <2>5. ASSUME NEW i \in 1..Len(ring')
        PROVE  ring'[i] = Event(Popped' + i, log'[Popped' + i])
    <3>1. i + 1 \in 1..Len(ring) /\ Popped + (i + 1) = Popped' + i
      BY <2>2, <2>3
    <3> QED BY <1>0, <2>1, <2>2, <3>1
  <2> QED BY <1>0, <2>1, <2>2, <2>3, <2>4, <2>5
<1>3. ASSUME UNCHANGED <<ring, log>>, runner' = "fan" => runner = "fan" /\ UNCHANGED current
      PROVE  RingLine'
  BY <1>0, <1>3 DEF Popped
<1>4. ASSUME UNCHANGED <<ring, log>>, ~RunRecv PROVE RingLine'
  BY <1>3, <1>4, RingMoves
<1> QED BY <1>1, <1>2, <1>4
        DEF Next, Run, vars, PublishCheck, Subscribe, CancelDelete, CancelClose, Receive,
            RunClosed, RunFanned, RunDone, RunVisit, RunCancel, CloseFlag, CloseRing

\* What is registered is open, and what was not made is empty.
LEMMA SubStep == ASSUME BusInv, [Next]_vars PROVE SubLine'
<1> USE DEF SubLine
<1>0. /\ SubLine /\ ring \in Seq(Events) /\ log \in Seq(Kinds) /\ Len(ring) <= Len(log)
      /\ registered \subseteq Subs /\ canceling \subseteq Subs /\ must \subseteq Subs
      /\ sub \in [Subs -> {"none", "open", "closed"}]
      /\ inbox \in [Subs -> Seq(Events)] /\ got \in [Subs -> Seq(Events)]
      /\ dropped \in [Subs -> Nat] /\ since \in [Subs -> Nat]
  BY DEF BusInv, TypeOK, RingLine
<1>1. Popped \in Nat /\ Popped' \in Nat /\ Popped <= Popped'
  BY <1>0, RingMoves DEF Popped
<1>2. ASSUME UNCHANGED <<registered, canceling, sub, got, inbox, dropped, since>>,
             must' \in {must, registered}
      PROVE  SubLine'
  BY <1>0, <1>1, <1>2
<1>3. ASSUME NEW s \in Subs, Subscribe(s) PROVE SubLine'
  <2>1. Popped' = Popped
    BY <1>3 DEF Subscribe, Popped
  <2> QED BY <1>0, <1>1, <1>3, <2>1 DEF Subscribe
<1>4. ASSUME NEW s \in Subs, CancelDelete(s) PROVE SubLine'
  BY <1>0, <1>1, <1>4 DEF CancelDelete
<1>5. ASSUME NEW s \in Subs, CancelClose(s) PROVE SubLine'
  BY <1>0, <1>1, <1>5 DEF CancelClose
<1>6. ASSUME NEW s \in Subs, Receive(s) PROVE SubLine'
  BY <1>0, <1>1, <1>6 DEF Receive
<1>7. ASSUME NEW s \in Subs, RunVisit(s) PROVE SubLine'
  <2>1. UNCHANGED <<registered, canceling, sub, got, since, must>>
    BY <1>7 DEF RunVisit
  <2>2. ASSUME NEW t \in Subs, sub[t] = "none" PROVE inbox'[t] = inbox[t] /\ dropped'[t] = dropped[t]
    <3>1. CASE t = s
      BY <1>0, <1>7, <2>2, <3>1 DEF RunVisit, TrySend
    <3>2. CASE t # s
      BY <1>0, <1>7, <3>2 DEF RunVisit, TrySend
    <3> QED BY <3>1, <3>2
  <2> QED BY <1>0, <1>1, <2>1, <2>2
<1>8. ASSUME NEW s \in Subs, RunCancel(s) PROVE SubLine'
  BY <1>0, <1>1, <1>8 DEF RunCancel
<1> QED BY <1>2, <1>3, <1>4, <1>5, <1>6, <1>7, <1>8
        DEF Next, Run, vars, PublishCheck, PublishSend, RunRecv, RunClosed, RunFanned,
            RunDone, CloseFlag, CloseRing

-----------------------------------------------------------------------------
(* What a step does to a stream: only a visit of the fan-out adds to it.   *)

Sends(t) == /\ RunVisit(t) /\ Match(filter[t], current.kind)
            /\ sub[t] # "closed" /\ Len(inbox[t]) < InboxSize

LEMMA StreamMoves ==
  ASSUME BusInv, [Next]_vars, NEW t \in Subs
  PROVE  /\ Stream(t) \in Seq(Events)
         /\ \/ Sends(t) /\ Stream(t)' = Append(Stream(t), current) /\ UNCHANGED dropped
            \/ ~Sends(t) /\ Stream(t)' = Stream(t)
<1>0. /\ inbox \in [Subs -> Seq(Events)] /\ got \in [Subs -> Seq(Events)]
      /\ current \in Events
  BY DEF BusInv, TypeOK
<1>1. ASSUME UNCHANGED <<inbox, got>> PROVE Stream(t)' = Stream(t)
  BY <1>1 DEF Stream
<1>2. ASSUME NEW s \in Subs, Receive(s) PROVE Stream(t)' = Stream(t)
  <2>1. CASE s = t
    <3>1. /\ inbox[t] \in Seq(Events) /\ got[t] \in Seq(Events) /\ inbox[t] # <<>>
          /\ inbox'[t] = Tail(inbox[t]) /\ got'[t] = Append(got[t], Head(inbox[t]))
      BY <1>0, <1>2, <2>1 DEF Receive
    <3> QED BY <3>1, StreamRead DEF Stream
  <2>2. CASE s # t
    BY <1>0, <1>2, <2>2 DEF Receive, Stream
  <2> QED BY <2>1, <2>2
<1>3. ASSUME NEW s \in Subs, RunVisit(s), ~Sends(t) PROVE Stream(t)' = Stream(t)
  <2>1. inbox'[t] = inbox[t]
    <3>1. CASE s = t
      BY <1>0, <1>3, <3>1 DEF RunVisit, TrySend, Sends
    <3>2. CASE s # t
      BY <1>0, <1>3, <3>2 DEF RunVisit, TrySend
    <3> QED BY <3>1, <3>2
  <2> QED BY <1>3, <2>1 DEF RunVisit, Stream
<1>4. ASSUME Sends(t)
      PROVE  Stream(t)' = Append(Stream(t), current) /\ UNCHANGED dropped
  <2>1. /\ inbox' = [inbox EXCEPT ![t] = Append(@, current)] /\ UNCHANGED dropped
        /\ UNCHANGED got
    BY <1>4 DEF Sends, RunVisit, TrySend
  <2>2. inbox'[t] = Append(inbox[t], current)
    BY <1>0, <2>1
  <2> QED BY <1>0, <2>1, <2>2, StreamSent DEF Stream
<1>5. ASSUME [Next]_vars, \A s \in Subs : ~Receive(s) /\ ~RunVisit(s)
      PROVE  UNCHANGED <<inbox, got>>
  BY <1>5 DEF Next, Run, vars, PublishCheck, PublishSend, Subscribe, CancelDelete,
              CancelClose, RunRecv, RunClosed, RunFanned, RunDone, RunCancel, CloseFlag,
              CloseRing
<1>6. Stream(t) \in Seq(Events)
  BY <1>0 DEF Stream
<1>7. ASSUME ~Sends(t) PROVE Stream(t)' = Stream(t)
  BY <1>1, <1>2, <1>3, <1>5, <1>7
<1> QED BY <1>4, <1>6, <1>7

LEMMA StreamTyped ==
  ASSUME BusInv
  PROVE  /\ Popped \in 0..Len(log)
         /\ \A t \in Subs : /\ Stream(t) \in Seq(Events)
                            /\ \A i \in 1..Len(Stream(t)) : Stream(t)[i].id \in Nat
                            /\ sub[t] = "none" => Len(Stream(t)) = 0
<1>1. Popped \in 0..Len(log)
  BY DEF BusInv, TypeOK, RingLine, Popped
<1>2. ASSUME NEW t \in Subs
      PROVE  /\ Stream(t) \in Seq(Events)
             /\ \A i \in 1..Len(Stream(t)) : Stream(t)[i].id \in Nat
             /\ sub[t] = "none" => Len(Stream(t)) = 0
  <2>1. Stream(t) \in Seq(Events)
    BY DEF BusInv, TypeOK, Stream
  <2>2. ASSUME NEW i \in 1..Len(Stream(t)) PROVE Stream(t)[i].id \in Nat
    <3>1. Stream(t)[i] \in Events
      BY <2>1
    <3> QED BY <3>1 DEF Events
  <2>3. ASSUME sub[t] = "none" PROVE Len(Stream(t)) = 0
    <3>1. got[t] \in Seq(Events) /\ inbox[t] \in Seq(Events)
      BY DEF BusInv, TypeOK
    <3>2. Len(got[t]) = 0 /\ Len(inbox[t]) = 0
      BY <2>3 DEF BusInv, SubLine
    <3>3. Len(got[t] \o inbox[t]) = Len(got[t]) + Len(inbox[t])
      BY <3>1, ConcatProperties
    <3> QED BY <3>2, <3>3 DEF Stream
  <2> QED BY <2>1, <2>2, <2>3
<1> QED BY <1>1, <1>2

\* What was sent is no later than the event that is fanned out, and not that event
\* before the visit.
LEMMA SentStep == ASSUME BusInv, [Next]_vars PROVE SentLine'
<1> SUFFICES ASSUME NEW t \in Subs, NEW i \in 1..Len(Stream(t)')
             PROVE  /\ since'[t] <= Stream(t)'[i].id /\ Stream(t)'[i].id <= Popped'
                    /\ Stream(t)'[i].id = Popped' /\ runner' = "fan" => t \in seen'
  BY DEF SentLine
<1>0. /\ SentLine /\ SubLine /\ RingLine /\ since \in [Subs -> Nat] /\ current \in Events
      /\ Popped \in Nat /\ Stream(t) \in Seq(Events)
  BY StreamTyped DEF BusInv, TypeOK
<1>1. CASE Sends(t)
  <2>1. /\ runner = "fan" /\ seen' = seen \cup {t} /\ UNCHANGED since
        /\ UNCHANGED <<ring, log>> /\ ~RunRecv
    BY <1>1 DEF Sends, RunVisit, RunRecv
  <2>2. Popped' = Popped /\ current.id = Popped /\ since[t] <= Popped
    BY <1>0, <2>1 DEF Popped, RingLine, Event, SubLine
  <2>3. CASE i = Len(Stream(t)) + 1
    <3>1. Stream(t)'[i] = current
      BY <1>0, <1>1, <2>3, StreamMoves
    <3> QED BY <2>1, <2>2, <3>1, <1>0
  <2>4. CASE i \in 1..Len(Stream(t))
    <3>1. Stream(t)'[i] = Stream(t)[i]
      BY <1>0, <1>1, <2>4, StreamMoves
    <3> QED BY <1>0, <2>1, <2>2, <2>4, <3>1 DEF SentLine
  <2>5. Len(Stream(t)') = Len(Stream(t)) + 1
    BY <1>0, <1>1, StreamMoves
  <2> QED BY <1>0, <2>3, <2>4, <2>5
<1>2. CASE ~Sends(t)
  <2>1. Stream(t)' = Stream(t)
    BY <1>2, StreamMoves
  <2>2. /\ since[t] <= Stream(t)[i].id /\ Stream(t)[i].id <= Popped
        /\ Stream(t)[i].id = Popped /\ runner = "fan" => t \in seen
        /\ Stream(t)[i].id \in Nat
    <3>1. i \in 1..Len(Stream(t))
      BY <2>1
    <3> QED BY <1>0, <3>1, StreamTyped DEF SentLine
  <2>3. since'[t] = since[t]
    <3>1. sub[t] # "none"
      BY <2>1, StreamTyped
    <3> QED BY <1>0, <3>1
        DEF Next, Run, vars, subVars, runVars, Subscribe, PublishCheck, PublishSend,
            CancelDelete, CancelClose, Receive, RunRecv, RunVisit, RunClosed, RunFanned,
            RunDone, RunCancel, CloseFlag, CloseRing
  <2> QED BY <1>0, <2>1, <2>2, <2>3, RingMoves
<1> QED BY <1>1, <1>2

LEMMA OrderStep == ASSUME BusInv, [Next]_vars PROVE OneOrder'
<1> SUFFICES ASSUME NEW t \in Subs, NEW i \in 1..Len(Stream(t)'),
                    NEW j \in 1..Len(Stream(t)'), i < j
             PROVE  Stream(t)'[i].id < Stream(t)'[j].id
  BY DEF OneOrder
<1>0. OneOrder /\ SentLine /\ RingLine /\ Popped \in Nat /\ Stream(t) \in Seq(Events)
  BY StreamTyped DEF BusInv
<1>1. CASE Sends(t)
  <2>1. runner = "fan" /\ t \notin seen /\ current.id = Popped
    BY <1>0, <1>1 DEF Sends, RunVisit, RingLine, Event
  <2>2. /\ Len(Stream(t)') = Len(Stream(t)) + 1
        /\ Stream(t)'[Len(Stream(t)) + 1] = current
        /\ \A k \in 1..Len(Stream(t)) : Stream(t)'[k] = Stream(t)[k]
    BY <1>0, <1>1, StreamMoves
  <2>3. ASSUME NEW k \in 1..Len(Stream(t)) PROVE Stream(t)[k].id < Popped
    <3>1. Stream(t)[k].id \in Nat /\ Stream(t)[k].id <= Popped /\ Stream(t)[k].id # Popped
      BY <1>0, <2>1, StreamTyped DEF SentLine
    <3> QED BY <1>0, <3>1
  <2>4. CASE j = Len(Stream(t)) + 1
    <3>1. i \in 1..Len(Stream(t))
      BY <1>0, <2>2, <2>4
    <3> QED BY <2>1, <2>2, <2>3, <2>4, <3>1
  <2>5. CASE j # Len(Stream(t)) + 1
    <3>1. i \in 1..Len(Stream(t)) /\ j \in 1..Len(Stream(t))
      BY <1>0, <2>2, <2>5
    <3> QED BY <1>0, <2>2, <3>1 DEF OneOrder
  <2> QED BY <2>4, <2>5
<1>2. CASE ~Sends(t)
  BY <1>0, <1>2, StreamMoves DEF OneOrder
<1> QED BY <1>1, <1>2

LEMMA FanStep == ASSUME BusInv, [Next]_vars PROVE FanLine'
<1> SUFFICES ASSUME runner' = "fan", NEW t \in registered' \ must' PROVE since'[t] = Popped'
  BY DEF FanLine
<1>0. /\ FanLine /\ since \in [Subs -> Nat] /\ sub \in [Subs -> {"none", "open", "closed"}]
      /\ registered \subseteq Subs
  BY DEF BusInv, TypeOK
<1>1. CASE RunRecv
  BY <1>1 DEF RunRecv, subVars
<1>2. ASSUME NEW s \in Subs, Subscribe(s), s = t PROVE since'[t] = Popped'
  BY <1>0, <1>2 DEF Subscribe, Popped
<1>3. ASSUME NEW s \in Subs, Subscribe(s), s # t PROVE since'[t] = Popped'
  BY <1>0, <1>3, RingMoves DEF Subscribe, FanLine, RunRecv
<1>4. ASSUME UNCHANGED since, registered' \subseteq registered, ~RunRecv
      PROVE  since'[t] = Popped'
  BY <1>0, <1>4, RingMoves DEF FanLine
<1> QED BY <1>1, <1>2, <1>3, <1>4
        DEF Next, Run, vars, PublishCheck, PublishSend, CancelDelete, CancelClose,
            Receive, RunClosed, RunFanned, RunDone, RunVisit, RunCancel, CloseFlag,
            CloseRing

-----------------------------------------------------------------------------
(* The account of a subscription's losses.                                 *)

Accounted(t) == Delivered(t) \subseteq Due(t) /\ Cardinality(Due(t) \ Delivered(t)) = dropped[t]

\* A new subscription has missed nothing.
LEMMA AccountOpens ==
  ASSUME BusInv, [Next]_vars, NEW t \in Subs, Subscribe(t) PROVE Accounted(t)'
<1>1. /\ Stream(t)' = Stream(t) /\ Len(Stream(t)) = 0 /\ since'[t] = Popped
      /\ Popped' = Popped /\ Popped \in Nat
  BY StreamTyped DEF Subscribe, Stream, Popped, BusInv, TypeOK
<1>2. Delivered(t)' = {}
  BY <1>1 DEF Delivered
<1>3. Due(t)' = {}
  BY <1>1 DEF Due
<1>4. dropped'[t] = 0
  BY DEF Subscribe, BusInv, SubLine
<1> QED BY <1>2, <1>3, <1>4, FS_EmptySet DEF Accounted

\* A visit that finds room delivers the event, one that does not counts it.
LEMMA AccountVisited ==
  ASSUME BusInv, [Next]_vars, NEW t \in registered, RunVisit(t), Accounted(t)
  PROVE  Accounted(t)'
<1> DEFINE P == Popped
<1>0. /\ t \in Subs /\ P \in Nat /\ since[t] \in Nat /\ since[t] <= P /\ sub[t] = "open"
      /\ current = Event(P, log[P]) /\ current.id = P /\ current.kind = log[P]
      /\ runner = "fan" /\ t \notin seen /\ dropped \in [Subs -> Nat]
      /\ InboxSize \in Nat \ {0} /\ inbox \in [Subs -> Seq(Events)]
  <2>1. P \in Nat
    BY StreamTyped
  <2>2. /\ t \in Subs /\ since[t] \in Nat /\ dropped \in [Subs -> Nat]
        /\ inbox \in [Subs -> Seq(Events)]
    BY DEF BusInv, TypeOK
  <2>3. since[t] <= P /\ sub[t] = "open"
    BY <2>2 DEF BusInv, SubLine
  <2>4. runner = "fan" /\ t \notin seen
    BY DEF RunVisit
  <2>5. current = Event(P, log[P]) /\ current.id = P /\ current.kind = log[P]
    BY <2>4 DEF BusInv, RingLine, Event
  <2> QED BY <2>1, <2>2, <2>3, <2>4, <2>5, BusAssumption
<1>1. /\ Popped' = P /\ UNCHANGED <<since, log, filter, runner>> /\ seen' = seen \cup {t}
  BY DEF RunVisit, Popped
<1>2. P \notin Due(t) /\ P \notin Delivered(t)
  BY <1>0 DEF Due, Accounted
<1>3. /\ P \in Due(t)' <=> since[t] < P /\ Match(filter[t], current.kind)
      /\ \A n : n # P => (n \in Due(t)' <=> n \in Due(t))
  <2>1. \A n : n \in Due(t) <=> /\ n \in (since[t] + 1)..P /\ n # P
                                /\ Match(filter[t], log[n])
    BY <1>0 DEF Due
  <2>2. \A n : n \in Due(t)' <=> n \in (since[t] + 1)..P /\ Match(filter[t], log[n])
    BY <1>0, <1>1 DEF Due, Match
  <2> QED BY <1>0, <2>1, <2>2
<1>4. CASE ~Match(filter[t], current.kind)
  <2>1. /\ Stream(t)' = Stream(t) /\ UNCHANGED dropped
    BY <1>4 DEF RunVisit, Stream
  <2>2. Due(t)' = Due(t)
    BY <1>2, <1>3, <1>4
  <2>3. Delivered(t)' = Delivered(t)
    BY <1>1, <2>1 DEF Delivered
  <2> QED BY <2>1, <2>2, <2>3 DEF Accounted
<1>5. CASE Sends(t)
  <2>1. /\ Stream(t) \in Seq(Events) /\ Stream(t)' = Append(Stream(t), current)
        /\ UNCHANGED dropped
    BY <1>0, <1>5, StreamMoves
  <2>2. /\ Len(Stream(t)') = Len(Stream(t)) + 1 /\ Stream(t)'[Len(Stream(t)) + 1] = current
        /\ \A i \in 1..Len(Stream(t)) : Stream(t)'[i] = Stream(t)[i]
        /\ Len(Stream(t)) \in Nat
    BY <1>0, <2>1
  <2>3. {Stream(t)'[i].id : i \in 1..Len(Stream(t)')}
          = {Stream(t)[i].id : i \in 1..Len(Stream(t))} \cup {P}
    <3>1. \A i \in 1..Len(Stream(t)') : i \in 1..Len(Stream(t)) \/ i = Len(Stream(t)) + 1
      BY <2>2
    <3>2. Len(Stream(t)) + 1 \in 1..Len(Stream(t)') /\ 1..Len(Stream(t)) \subseteq 1..Len(Stream(t)')
      BY <2>2
    <3> QED BY <1>0, <2>2, <3>1, <3>2
  <2>4. Delivered(t)' = Delivered(t) \cup ({P} \ 0..since[t])
    BY <1>1, <2>3 DEF Delivered
  <2>5. Due(t)' = Due(t) \cup ({P} \ 0..since[t])
    BY <1>0, <1>2, <1>3, <1>5 DEF Sends
  <2>6. Due(t)' \ Delivered(t)' = Due(t) \ Delivered(t)
    BY <1>2, <2>4, <2>5
  <2> QED BY <2>1, <2>4, <2>5, <2>6 DEF Accounted
<1>6. CASE Match(filter[t], current.kind) /\ ~(Len(inbox[t]) < InboxSize)
  <2>1. /\ UNCHANGED <<inbox, got>> /\ dropped'[t] = dropped[t] + 1
    BY <1>0, <1>6 DEF RunVisit, TrySend
  <2>2. Delivered(t)' = Delivered(t)
    BY <1>1, <2>1 DEF Delivered, Stream
  <2>3. since[t] < P
    <3>1. Len(Stream(t)) \in Nat \ {0}
      <4>1. got[t] \in Seq(Events) /\ inbox[t] \in Seq(Events) /\ Len(inbox[t]) \in Nat \ {0}
        BY <1>0, <1>6 DEF BusInv, TypeOK
      <4>2. Len(got[t] \o inbox[t]) = Len(got[t]) + Len(inbox[t]) /\ Len(got[t]) \in Nat
        BY <4>1, ConcatProperties
      <4>3. \A a \in Nat : \A b \in Nat \ {0} : a + b \in Nat \ {0}
        OBVIOUS
      <4> QED BY <4>1, <4>2, <4>3 DEF Stream
    <3>2. /\ since[t] <= Stream(t)[1].id /\ Stream(t)[1].id <= P /\ Stream(t)[1].id # P
          /\ Stream(t)[1].id \in Nat
      BY <1>0, <3>1, StreamTyped DEF BusInv, SentLine
    <3> QED BY <1>0, <3>2
  <2>4. Due(t)' = Due(t) \cup {P}
    BY <1>3, <1>6, <2>3
  <2>5. IsFiniteSet(Due(t) \ Delivered(t))
    <3>1. IsFiniteSet((since[t] + 1)..P)
      <4>1. since[t] + 1 \in Int /\ P \in Int
        BY <1>0
      <4> QED BY <4>1, FS_Interval
    <3>2. Due(t) \ Delivered(t) \subseteq (since[t] + 1)..P
      BY DEF Due
    <3> QED BY <3>1, <3>2, FS_Subset
  <2>6. Due(t)' \ Delivered(t)' = (Due(t) \ Delivered(t)) \cup {P} /\ P \notin Due(t) \ Delivered(t)
    BY <1>2, <2>2, <2>4
  <2>7. Cardinality(Due(t)' \ Delivered(t)') = Cardinality(Due(t) \ Delivered(t)) + 1
    BY <2>5, <2>6, FS_AddElement
  <2> QED BY <2>1, <2>2, <2>4, <2>7 DEF Accounted
<1> QED BY <1>0, <1>4, <1>5, <1>6 DEF Sends

\* The other steps leave the account as it is: taking an event off the ring makes it
\* due for nobody yet, and the end of its fan-out finds every subscription that was
\* there when it began visited.
LEMMA AccountKept ==
  ASSUME BusInv, [Next]_vars, NEW t \in registered, ~Subscribe(t), ~RunVisit(t), Accounted(t)
  PROVE  Accounted(t)'
<1>0. /\ t \in Subs /\ Popped \in 0..Len(log) /\ since[t] \in Nat /\ since[t] <= Popped
      /\ log \in Seq(Kinds) /\ sub[t] = "open" /\ FanLine /\ Len(log) \in Nat
  BY StreamTyped DEF BusInv, TypeOK, SubLine
<1>1. Stream(t)' = Stream(t)
  BY <1>0, StreamMoves DEF Sends
<1>2. since'[t] = since[t] /\ filter' = filter /\ dropped'[t] = dropped[t]
  <2>1. ASSUME NEW s \in Subs, Subscribe(s) PROVE s # t /\ since'[t] = since[t]
    BY <1>0, <2>1 DEF Subscribe, BusInv, TypeOK
  <2>2. ASSUME NEW s \in Subs, RunVisit(s) PROVE s # t /\ dropped'[t] = dropped[t]
    BY <1>0, <2>2 DEF RunVisit, TrySend, BusInv, TypeOK
  <2>3. ASSUME [Next]_vars PROVE filter' = filter
    BY <2>3 DEF Next, Run, vars, Subscribe, PublishCheck, PublishSend, CancelDelete,
                CancelClose, Receive, RunRecv, RunVisit, RunClosed, RunFanned, RunDone,
                RunCancel, CloseFlag, CloseRing
  <2>4. ASSUME [Next]_vars, \A s \in Subs : ~Subscribe(s) PROVE since' = since
    BY <2>4 DEF Next, Run, vars, PublishCheck, PublishSend, CancelDelete,
                CancelClose, Receive, RunRecv, RunVisit, RunClosed, RunFanned, RunDone,
                RunCancel, CloseFlag, CloseRing
  <2>5. ASSUME [Next]_vars, \A s \in Subs : ~RunVisit(s) PROVE dropped' = dropped
    BY <2>5 DEF Next, Run, vars, Subscribe, PublishCheck, PublishSend, CancelDelete,
                CancelClose, Receive, RunRecv, RunClosed, RunFanned, RunDone,
                RunCancel, CloseFlag, CloseRing
  <2> QED BY <2>1, <2>2, <2>3, <2>4, <2>5
<1>3. Delivered(t)' = Delivered(t)
  BY <1>1, <1>2 DEF Delivered
<1>4. ASSUME Popped' = Popped, \A n \in 1..Len(log) : log'[n] = log[n],
             Popped = since[t] \/ ((runner' = "fan" /\ t \notin seen')
                                     <=> (runner = "fan" /\ t \notin seen))
      PROVE  Due(t)' = Due(t)
  <2>1. \A n : n \in Due(t) <=> /\ n \in (since[t] + 1)..Popped
                                /\ ~(n = Popped /\ runner = "fan" /\ t \notin seen)
                                /\ Match(filter[t], log[n])
    BY DEF Due
  <2>2. \A n : n \in Due(t)' <=> /\ n \in (since[t] + 1)..Popped
                                 /\ ~(n = Popped /\ runner' = "fan" /\ t \notin seen')
                                 /\ Match(filter[t], log'[n])
    BY <1>2, <1>4 DEF Due, Match
  <2>3. \A n \in (since[t] + 1)..Popped : log'[n] = log[n]
    BY <1>0, <1>4
  <2>4. Popped = since[t] => (since[t] + 1)..Popped = {}
    BY <1>0
  <2> QED BY <1>4, <2>1, <2>2, <2>3, <2>4
<1>5. CASE RunRecv
  <2>1. /\ Popped' = Popped + 1 /\ log' = log /\ runner = "recv" /\ runner' = "fan"
        /\ seen' = {}
    BY <1>5, RingMoves DEF RunRecv
  <2>2. \A n : n \in Due(t)' <=> /\ n \in (since[t] + 1)..(Popped + 1) /\ n # Popped + 1
                                 /\ Match(filter[t], log[n])
    BY <1>2, <2>1 DEF Due, Match
  <2>3. \A n : n \in Due(t) <=> n \in (since[t] + 1)..Popped /\ Match(filter[t], log[n])
    BY <2>1 DEF Due
  <2>4. \A n : n \in (since[t] + 1)..Popped <=> n \in (since[t] + 1)..(Popped + 1) /\ n # Popped + 1
    BY <1>0
  <2>5. Due(t)' = Due(t)
    BY <2>2, <2>3, <2>4
  <2> QED BY <1>2, <1>3, <2>5 DEF Accounted
<1>6. CASE RunFanned
  <2>1. t \in seen \/ Popped = since[t]
    BY <1>0, <1>6 DEF RunFanned, FanLine
  <2>2. runner' = "recv" /\ Popped' = Popped /\ log' = log
    BY <1>6 DEF RunFanned, Popped
  <2>3. Due(t)' = Due(t)
    BY <1>4, <2>1, <2>2
  <2> QED BY <1>2, <1>3, <2>3 DEF Accounted
<1>7. CASE ~RunRecv /\ ~RunFanned
  <2>1. Popped' = Popped /\ \A n \in 1..Len(log) : log'[n] = log[n]
    BY <1>7, RingMoves
  <2>2. (runner' = "fan" /\ t \notin seen') <=> (runner = "fan" /\ t \notin seen)
    BY <1>0, <1>7
       DEF Next, Run, vars, Subscribe, PublishCheck, PublishSend, CancelDelete,
           CancelClose, Receive, RunVisit, RunClosed, RunDone, RunCancel, CloseFlag,
           CloseRing
  <2>3. Due(t)' = Due(t)
    BY <1>4, <2>1, <2>2
  <2> QED BY <1>2, <1>3, <2>3 DEF Accounted
<1> QED BY <1>5, <1>6, <1>7

LEMMA LossStep == ASSUME BusInv, [Next]_vars PROVE LossAccounted'
<1> SUFFICES ASSUME NEW t \in registered' PROVE Accounted(t)'
  BY DEF LossAccounted, Accounted
<1>1. t \in Subs
  BY TypeStep DEF TypeOK
<1>2. t \in registered => Accounted(t)
  BY DEF BusInv, LossAccounted, Accounted
<1>3. t \in registered \/ Subscribe(t)
  BY <1>1 DEF Next, Run, vars, Subscribe, PublishCheck, PublishSend, CancelDelete,
              CancelClose, Receive, RunRecv, RunVisit, RunClosed, RunFanned, RunDone,
              RunCancel, CloseFlag, CloseRing
<1> QED BY <1>1, <1>2, <1>3, AccountOpens, AccountVisited, AccountKept

-----------------------------------------------------------------------------
LEMMA InitBus == Init => BusInv
<1> SUFFICES ASSUME Init PROVE BusInv
  OBVIOUS
<1>1. TypeOK
  <2>1. /\ ring \in Seq(Events) /\ log \in Seq(Kinds) /\ Len(ring) = 0 /\ Len(log) = 0
        /\ inbox \in [Subs -> Seq(Events)] /\ got \in [Subs -> Seq(Events)]
        /\ \A s \in Subs : Len(inbox[s]) = 0
    BY EmptySeq DEF Init
  <2>2. current \in Events
    BY DEF Init, Events, Event
  <2>3. sending \in [Publishers -> Kinds \cup {None}] /\ calls \in 0..MaxEvents
    BY BusAssumption DEF Init
  <2>4. ringClosed \in BOOLEAN /\ busClosed \in BOOLEAN /\ panicked \in BOOLEAN
    BY DEF Init
  <2>5. Len(ring) <= RingSize /\ Len(log) <= calls /\ \A s \in Subs : Len(inbox[s]) <= InboxSize
    BY <2>1, BusAssumption DEF Init
  <2> QED BY <2>1, <2>2, <2>3, <2>4, <2>5 DEF Init, TypeOK
<1>2. PendLine
  <2>1. Pending = {} /\ Len(log) = 0 /\ calls = 0
    BY DEF Init, Pending
  <2> QED BY <2>1, FS_EmptySet DEF PendLine
<1>3. RingLine /\ SubLine /\ FanLine /\ Popped = 0
  BY DEF Init, RingLine, SubLine, FanLine, Popped
<1>4. \A s \in Subs : Len(Stream(s)) = 0
  BY DEF Init, Stream
<1>5. SentLine /\ OneOrder
  BY <1>4 DEF SentLine, OneOrder
<1>6. LossAccounted
  BY DEF Init, LossAccounted
<1> QED BY <1>1, <1>2, <1>3, <1>5, <1>6 DEF BusInv

LEMMA BusStep == ASSUME BusInv, [Next]_vars PROVE BusInv'
BY TypeStep, PendStep, RingStep, SubStep, SentStep, OrderStep, FanStep, LossStep DEF BusInv

-----------------------------------------------------------------------------
(* The theorems.                                                           *)

\* The inductive invariant of the bus: the ring is the end of the log, and what a
\* subscription was sent lies between its beginning and the event fanned out.
THEOREM BusInvariant == Spec => []BusInv
<1>1. BusInv /\ [Next]_vars => BusInv'
  BY BusStep
<1> QED BY <1>1, InitBus, PTL DEF Spec

\* Whatever subscribes, cancels, drops and closes meanwhile, all subscribers see the
\* events in the order of the ring, and none twice.
THEOREM EventsInOrder == Spec => []OneOrder
<1>1. BusInv => OneOrder
  BY DEF BusInv
<1> QED BY <1>1, BusInvariant, PTL

\* A registered subscription's drop count is exactly the number of events that match
\* its filter and did not reach it: zero means that nothing is missing.
THEOREM LossesAreCounted == Spec => []LossAccounted
<1>1. BusInv => LossAccounted
  BY DEF BusInv
<1> QED BY <1>1, BusInvariant, PTL

\* A subscription that is closed stays closed, is sent nothing and counts nothing.
THEOREM ClosedStaysSilent == Spec => ClosedSilent
<1>1. ASSUME BusInv, [Next]_vars, NEW s \in Subs, sub[s] = "closed"
      PROVE  sub'[s] = "closed" /\ Stream(s)' = Stream(s) /\ dropped'[s] = dropped[s]
  <2>0. sub \in [Subs -> {"none", "open", "closed"}] /\ dropped \in [Subs -> Nat]
    BY <1>1 DEF BusInv, TypeOK
  <2>1. Stream(s)' = Stream(s)
    BY <1>1, StreamMoves DEF Sends
  <2>2. ASSUME NEW t \in Subs, RunVisit(t) PROVE sub'[s] = "closed" /\ dropped'[s] = dropped[s]
    BY <1>1, <2>0, <2>2 DEF RunVisit, TrySend
  <2>3. ASSUME \A t \in Subs : ~RunVisit(t)
        PROVE  sub'[s] = "closed" /\ dropped'[s] = dropped[s]
    BY <1>1, <2>0, <2>3
       DEF Next, Run, vars, Subscribe, PublishCheck, PublishSend, CancelDelete,
           CancelClose, Receive, RunRecv, RunClosed, RunFanned, RunDone, RunCancel,
           CloseFlag, CloseRing
  <2> QED BY <2>1, <2>2, <2>3
<1>2. BusInv /\ [Next]_vars =>
        [\A s \in Subs : sub[s] = "closed" =>
           /\ sub'[s] = "closed" /\ Stream(s)' = Stream(s) /\ dropped'[s] = dropped[s]]_vars
  BY <1>1
<1> QED BY <1>2, BusInvariant, PTL DEF Spec, ClosedSilent

-----------------------------------------------------------------------------
(* One WebSocket session.                                                  *)

\* The map grows by one below its cap, and otherwise shrinks.
LEMMA SessionCapped ==
  ASSUME Session!Capped, Session!Next PROVE Session!Capped'
<1> USE DEF Session!shared, Session!bus, Session!socket
<1>0. ASSUME NEW S
      PROVE  (Session!IsFiniteSet(S) <=> IsFiniteSet(S)) /\ Session!Cardinality(S) = Cardinality(S)
  BY DEF Session!IsFiniteSet, Session!Cardinality, IsFiniteSet, Cardinality
<1>1. IsFiniteSet(subs) /\ Cardinality(subs) <= MaxSubs /\ MaxSubs \in Nat \ {0}
  BY <1>0, SessionAssumption DEF Session!Capped, Session!SessionAssumption
<1>2. IsFiniteSet(subs') /\ Cardinality(subs') <= MaxSubs => Session!Capped'
  BY <1>0 DEF Session!Capped
<1>3. CASE subs' \subseteq subs
  <2>1. IsFiniteSet(subs') /\ Cardinality(subs') <= Cardinality(subs)
    BY <1>1, <1>3, FS_Subset
  <2>2. Cardinality(subs) \in Nat /\ Cardinality(subs') \in Nat
    BY <1>1, <2>1, FS_CardinalityType
  <2>3. Cardinality(subs') <= MaxSubs
    BY <1>1, <2>1, <2>2
  <2> QED BY <1>2, <2>1, <2>3
<1>4. CASE Cardinality(subs) < MaxSubs /\ subs' = subs \union {reader.id}
  <2>1. /\ IsFiniteSet(subs')
        /\ Cardinality(subs') = IF reader.id \in subs THEN Cardinality(subs)
                                ELSE Cardinality(subs) + 1
    BY <1>1, <1>4, FS_AddElement
  <2>2. Cardinality(subs) \in Nat
    BY <1>1, FS_CardinalityType
  <2>3. Cardinality(subs') <= MaxSubs
    BY <1>1, <1>4, <2>1, <2>2
  <2> QED BY <1>2, <2>1, <2>3
<1>5. ASSUME Session!AddSub
      PROVE  \/ subs' \subseteq subs
             \/ Cardinality(subs) < MaxSubs /\ subs' = subs \union {reader.id}
  <2>1. Cardinality(subs) \in Nat /\ Session!Cardinality(subs) = Cardinality(subs)
    BY <1>0, <1>1, FS_CardinalityType
  <2>2. CASE Session!Cardinality(subs) >= MaxSubs \/ subsNil
    <3>1. subs' = subs
      BY <1>5, <2>2 DEF Session!AddSub
    <3> QED BY <3>1
  <2>3. CASE ~(Session!Cardinality(subs) >= MaxSubs \/ subsNil)
    <3>1. subs' = subs \union {reader.id}
      BY <1>5, <2>3 DEF Session!AddSub
    <3>2. Cardinality(subs) < MaxSubs
      BY <1>1, <2>1, <2>3
    <3> QED BY <3>1, <3>2
  <2> QED BY <2>2, <2>3
<1>6. Session!AddSub \/ subs' \subseteq subs
  <2>1. ASSUME NEW i \in Ids, Session!Unsubscribe(i) PROVE subs' \subseteq subs
    BY <2>1 DEF Session!Unsubscribe
  <2>2. ASSUME NEW c \in Session!Callers, Session!CancelStep(c) PROVE subs' \subseteq subs
    BY <2>2 DEF Session!CancelStep, Session!CancelTake, Session!CancelNext, Session!CancelOver
  <2>3. ASSUME NEW i \in Ids, Session!ForwarderStep(i) PROVE subs' = subs
    BY <2>3 DEF Session!ForwarderStep, Session!ForwardDone, Session!ForwardClosed,
                Session!ForwardRecv, Session!ForwardWrite, Session!ForwarderEnds
  <2>4. ASSUME \/ Session!Call \/ Session!ReplyToPeer \/ Session!ReadError
               \/ \E i \in Ids : Session!Subscribe(i)
               \/ Session!CancelSub \/ Session!ReaderEnds \/ Session!Deliver
               \/ Session!WriteBreaks \/ Session!PeerCloses
        PROVE  subs' = subs
    BY <2>4 DEF Session!Call, Session!ReplyToPeer, Session!ReadError, Session!Subscribe,
                Session!CancelSub, Session!ReaderEnds, Session!Deliver,
                Session!WriteBreaks, Session!PeerCloses
  <2> QED BY <2>1, <2>2, <2>3, <2>4 DEF Session!Next, Session!ReaderStep
<1> QED BY <1>3, <1>4, <1>5, <1>6

LEMMA SessionTypes ==
  ASSUME Session!TypeOK, Session!Next PROVE Session!TypeOK'
<1> USE DEF Session!TypeOK, Session!shared, Session!bus, Session!socket, Session!At,
            Session!NoId, Session!Callers, Session!Reader
<1>0. Ids \subseteq Nat \ {0} /\ ChanSize \in Nat \ {0} /\ Session!Capped'
  BY SessionCapped, SessionAssumption DEF Session!SessionAssumption
<1>1. CASE Session!Call \/ Session!ReplyToPeer \/ Session!ReadError
  <2>1. /\ reader' \in [step : {"read", "reply", "teardown"}, id : {0}]
        /\ UNCHANGED <<subs, subsNil, once, closer, cancels, done, chan, queued, fwd>>
    BY <1>1 DEF Session!Call, Session!ReplyToPeer, Session!ReadError
  <2> QED BY <1>0, <2>1
<1>2. ASSUME NEW i \in Ids, Session!Subscribe(i) PROVE Session!TypeOK'
  BY <1>0, <1>2 DEF Session!Subscribe
<1>3. CASE Session!AddSub
  <2>1. reader.id \in Ids /\ UNCHANGED <<subsNil, once, closer, cancels, done, chan, queued>>
    BY <1>3 DEF Session!AddSub
  <2>2. /\ reader' \in [step : {"cancel", "panicked"}, id : Ids] \union [step : {"reply"}, id : {0}]
        /\ subs' \subseteq Ids
    BY <1>3, <2>1 DEF Session!AddSub
  <2>3. fwd' \in [Ids -> {"none", "select", "write", "teardown", "ended"}]
    BY <1>3, <2>1 DEF Session!AddSub
  <2> QED BY <1>0, <2>1, <2>2, <2>3
<1>4. ASSUME NEW i \in Ids, Session!Unsubscribe(i) PROVE Session!TypeOK'
  BY <1>0, <1>4 DEF Session!Unsubscribe
<1>5. CASE Session!CancelSub
  BY <1>0, <1>5 DEF Session!CancelSub
<1>6. CASE Session!ReaderEnds
  BY <1>0, <1>6 DEF Session!ReaderEnds
<1>7. ASSUME NEW i \in Ids, Session!ForwarderStep(i) PROVE Session!TypeOK'
  <2>1. CASE Session!ForwardRecv(i)
    BY <1>0, <2>1 DEF Session!ForwardRecv
  <2>2. CASE Session!ForwardDone(i) \/ Session!ForwardClosed(i)
    BY <1>0, <2>2 DEF Session!ForwardDone, Session!ForwardClosed
  <2>3. CASE Session!ForwardWrite(i) \/ Session!ForwarderEnds(i)
    BY <1>0, <2>3 DEF Session!ForwardWrite, Session!ForwarderEnds
  <2> QED BY <1>7, <2>1, <2>2, <2>3 DEF Session!ForwarderStep
<1>8. ASSUME NEW c \in Session!Callers, Session!CancelStep(c) PROVE Session!TypeOK'
  BY <1>0, <1>8
     DEF Session!CancelStep, Session!CancelTake, Session!CancelNext, Session!CancelOver
<1>9. CASE Session!Deliver
  BY <1>0, <1>9 DEF Session!Deliver
<1>10. CASE Session!WriteBreaks \/ Session!PeerCloses
  BY <1>0, <1>10 DEF Session!WriteBreaks, Session!PeerCloses
<1> QED BY <1>1, <1>2, <1>3, <1>4, <1>5, <1>6, <1>7, <1>8, <1>9, <1>10
       DEF Session!Next, Session!ReaderStep

\* The cancel functions are taken once, and those taken are what closes the channels.
LEMMA SessionCancels ==
  ASSUME Session!SessionInv, Session!Next
  PROVE  Session!NoOrphan' /\ (once' = "free" => cancels' = {})
<1> USE DEF Session!SessionInv, Session!NoOrphan, Session!TypeOK, Session!shared,
            Session!bus, Session!socket, Session!At, Session!NoId
<1> DEFINE Kept == Session!NoOrphan' /\ (once' = "free" => cancels' = {})
<1>1. CASE Session!Call \/ Session!ReplyToPeer \/ Session!ReadError
  BY <1>1 DEF Session!Call, Session!ReplyToPeer, Session!ReadError
<1>2. ASSUME NEW i \in Ids, Session!Subscribe(i) PROVE Kept
  BY <1>2 DEF Session!Subscribe
<1>3. CASE Session!AddSub
  BY <1>3 DEF Session!AddSub
<1>4. ASSUME NEW i \in Ids, Session!Unsubscribe(i) PROVE Kept
  BY <1>4 DEF Session!Unsubscribe
<1>5. CASE Session!CancelSub \/ Session!ReaderEnds
  BY <1>5 DEF Session!CancelSub, Session!ReaderEnds
<1>6. ASSUME NEW i \in Ids, Session!ForwarderStep(i) PROVE Kept
  BY <1>6 DEF Session!ForwarderStep, Session!ForwardDone, Session!ForwardClosed,
              Session!ForwardRecv, Session!ForwardWrite, Session!ForwarderEnds
<1>7. ASSUME NEW c \in Session!Callers, Session!CancelStep(c) PROVE Kept
  BY <1>7 DEF Session!CancelStep, Session!CancelTake, Session!CancelNext,
              Session!CancelOver
<1>8. CASE Session!Deliver \/ Session!WriteBreaks \/ Session!PeerCloses
  BY <1>8 DEF Session!Deliver, Session!WriteBreaks, Session!PeerCloses
<1> QED BY <1>1, <1>2, <1>3, <1>4, <1>5, <1>6, <1>7, <1>8
       DEF Session!Next, Session!ReaderStep

LEMMA SessionInit == Session!Init => Session!SessionInv
<1>1. Session!IsFiniteSet({}) /\ Session!Cardinality({}) = 0
  BY FS_EmptySet
     DEF Session!IsFiniteSet, Session!Cardinality, IsFiniteSet, Cardinality
<1>2. MaxSubs \in Nat /\ (Session!Init => Session!Capped)
  BY <1>1, SessionAssumption DEF Session!SessionAssumption, Session!Init, Session!Capped
<1> QED BY <1>2, SessionAssumption
       DEF Session!SessionAssumption, Session!Init, Session!SessionInv, Session!TypeOK,
           Session!NoOrphan, Session!At, Session!NoId, Session!Callers, Session!Reader

LEMMA SessionStep ==
  ASSUME Session!SessionInv, Session!Next \/ UNCHANGED sessionVars
  PROVE  Session!SessionInv'
<1>1. CASE Session!Next
  BY <1>1, SessionTypes, SessionCancels DEF Session!SessionInv
<1>2. CASE UNCHANGED sessionVars
  BY <1>2 DEF sessionVars, Session!SessionInv, Session!TypeOK, Session!NoOrphan,
              Session!Callers, Session!Capped
<1> QED BY <1>1, <1>2

\* The inductive invariants of the two parts hold in every state, whichever moves.
THEOREM EventsInvariant == EventsSpec => []Inductive
<1>1. EventsInit => Inductive
  BY InitBus, SessionInit DEF EventsInit, Inductive
<1>2. Inductive /\ [EventsNext]_allVars => Inductive'
  <2> SUFFICES ASSUME Inductive, [EventsNext]_allVars PROVE Inductive'
    OBVIOUS
  <2>1. [Next]_vars /\ (Session!Next \/ UNCHANGED sessionVars)
    BY DEF EventsNext, allVars
  <2> QED BY <2>1, BusStep, SessionStep DEF Inductive
<1> QED BY <1>1, <1>2, PTL DEF EventsSpec

\* Every open channel of a session is in its map, in the read loop's hand, or about
\* to be cancelled, whatever the order of requests, write errors and the end.
THEOREM NoSubscriptionIsOrphaned == EventsSpec => []NoOrphan
<1>1. Inductive => NoOrphan
  BY DEF Inductive, Session!SessionInv, NoOrphan
<1> QED BY <1>1, EventsInvariant, PTL
=============================================================================
