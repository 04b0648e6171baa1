------------------------------ MODULE EventBus ------------------------------
(***************************************************************************)
(* The in-process event bus of HyperGnomon (eventbus/bus.go): publishers   *)
(* put events on a bounded ring without ever waiting, one goroutine fans   *)
(* them out to the subscriptions, consumers read their own channel,        *)
(* cancel their subscription, and the whole bus can be closed while all of *)
(* this goes on.                                                           *)
(*                                                                         *)
(* An event is numbered by its place among those the ring accepted; the    *)
(* number is history, only its kind is visible to the filters.             *)
(***************************************************************************)
EXTENDS Integers, Sequences, FiniteSets

CONSTANTS
  Publishers,  \* goroutines that call Publish (flusher, API calls)
  Subs,        \* subscription ids: b.seq counts them up
  Kinds,       \* what Match sees of an event: [type, scid, speculative]
  Filters,     \* the filters subscribers use: [types, scid, speculative]
  AnyScid,     \* the empty Filter.SCID
  RingSize,    \* capacity of Bus.in
  InboxSize,   \* subChanBuffer
  MaxEvents    \* bound on the number of Publish calls

ASSUME BusAssumption ==
  /\ Subs \subseteq Nat /\ RingSize \in Nat \ {0} /\ InboxSize \in Nat \ {0} /\ MaxEvents \in Nat
  /\ Kinds \subseteq [type : {"install", "invoke", "safe"}, scid : STRING,
                      speculative : BOOLEAN]

VARIABLES
  ring, ringClosed,  \* Bus.in
  busClosed,         \* Bus.closed
  sending,           \* per publisher, the event it is about to put, or None
  calls,             \* number of Publish calls made
  log,               \* history: the kinds of the events the ring took, in order
  panicked,          \* a send on a closed channel happened
  registered,        \* keys of Bus.subs
  sub,               \* subscription: "none", "open" or "closed"
  filter, inbox, dropped,
  canceling,         \* subscriptions between subs.Delete and sub.close
  got,               \* history: what each consumer received
  since,             \* history: events already taken off the ring at Subscribe
  runner,            \* Run: "recv", "fan", "teardown" or "done"
  current,           \* the event being fanned out
  seen, must,        \* Range: visited, and registered when it began
  atClose            \* history: registered when the ring was closed

ringVars == <<ring, ringClosed, busClosed>>
pubVars  == <<sending, calls, log, panicked>>
subVars  == <<registered, sub, filter, inbox, dropped, canceling, got, since>>
runVars  == <<runner, current, seen, must>>
vars     == <<ringVars, pubVars, subVars, runVars, atClose>>

None == [type |-> "none"]
Event(n, kind) == [id |-> n, kind |-> kind]

\* Filter.Match: every field that is set must agree.
Match(f, kind) ==
  /\ kind.speculative => f.speculative
  /\ f.types = {} \/ kind.type \in f.types
  /\ f.scid = AnyScid \/ f.scid = kind.scid

Init ==
  /\ ring = <<>> /\ ringClosed = FALSE /\ busClosed = FALSE
  /\ sending = [p \in Publishers |-> None] /\ calls = 0 /\ log = <<>>
  /\ panicked = FALSE
  /\ registered = {} /\ sub = [s \in Subs |-> "none"]
  /\ filter \in [Subs -> Filters]
  /\ inbox = [s \in Subs |-> <<>>] /\ dropped = [s \in Subs |-> 0]
  /\ canceling = {} /\ got = [s \in Subs |-> <<>>] /\ since = [s \in Subs |-> 0]
  /\ runner = "recv" /\ current = Event(0, None) /\ seen = {} /\ must = {}
  /\ atClose = {}

-----------------------------------------------------------------------------
(* Publish, in the two steps another goroutine can come between.           *)

PublishCheck(p) ==
  /\ sending[p] = None /\ calls < MaxEvents /\ ~panicked
  /\ calls' = calls + 1
  /\ IF busClosed THEN UNCHANGED sending
     ELSE \E kind \in Kinds : sending' = [sending EXCEPT ![p] = kind]
  /\ UNCHANGED <<ringVars, log, panicked, subVars, runVars, atClose>>

\* Mutant: the ring has no limit.
PublishSendUnbounded(p) ==
  /\ sending[p] # None /\ ~panicked
  /\ sending' = [sending EXCEPT ![p] = None]
  /\ IF ringClosed THEN panicked' = TRUE /\ UNCHANGED <<ring, log>>
     ELSE /\ UNCHANGED panicked
          /\ ring' = Append(ring, Event(Len(log) + 1, sending[p]))
          /\ log' = Append(log, sending[p])
  /\ UNCHANGED <<ringClosed, busClosed, calls, subVars, runVars, atClose>>

PublishSend(p) ==
  /\ sending[p] # None /\ ~panicked
  /\ sending' = [sending EXCEPT ![p] = None]
  /\ IF ringClosed THEN panicked' = TRUE /\ UNCHANGED <<ring, log>>
     ELSE /\ UNCHANGED panicked
          /\ IF Len(ring) < RingSize
             THEN /\ ring' = Append(ring, Event(Len(log) + 1, sending[p]))
                  /\ log' = Append(log, sending[p])
             ELSE UNCHANGED <<ring, log>>
  /\ UNCHANGED <<ringClosed, busClosed, calls, subVars, runVars, atClose>>

-----------------------------------------------------------------------------
(* Subscribe, the cancel function, and the consumer.                       *)

Popped == Len(log) - Len(ring)

Subscribe(s) ==
  /\ sub[s] = "none" /\ ~panicked
  /\ \A t \in Subs : t < s => sub[t] # "none"
  /\ sub' = [sub EXCEPT ![s] = "open"]
  /\ registered' = registered \cup {s}
  /\ since' = [since EXCEPT ![s] = Popped]
  /\ UNCHANGED <<ringVars, pubVars, filter, inbox, dropped, canceling, got,
                 runVars, atClose>>

CancelDelete(s) ==
  /\ sub[s] # "none" /\ s \in registered /\ s \notin canceling /\ ~panicked
  /\ registered' = registered \ {s} /\ canceling' = canceling \cup {s}
  /\ UNCHANGED <<ringVars, pubVars, sub, filter, inbox, dropped, got, since,
                 runVars, atClose>>

CancelClose(s) ==
  /\ s \in canceling /\ ~panicked
  /\ canceling' = canceling \ {s}
  /\ sub' = [sub EXCEPT ![s] = "closed"]
  /\ UNCHANGED <<ringVars, pubVars, registered, filter, inbox, dropped, got,
                 since, runVars, atClose>>

\* Receive on the subscription's channel (a closed channel still drains).
Receive(s) ==
  /\ inbox[s] # <<>> /\ ~panicked
  /\ got' = [got EXCEPT ![s] = Append(@, Head(inbox[s]))]
  /\ inbox' = [inbox EXCEPT ![s] = Tail(@)]
  /\ UNCHANGED <<ringVars, pubVars, registered, sub, filter, dropped, canceling,
                 since, runVars, atClose>>

-----------------------------------------------------------------------------
(* Run.  sync.Map.Range visits no key twice and every key present from its *)
(* beginning to its end; one stored or deleted meanwhile may or may not be *)
(* visited.                                                                *)

\* Mutant: the event stays on the ring while it is fanned out.
RunRecvPeeks ==
  /\ runner = "recv" /\ ring # <<>> /\ ~panicked
  /\ current' = Head(ring)
  /\ ring' = IF current = Head(ring) THEN Tail(ring) ELSE ring
  /\ runner' = "fan" /\ seen' = {} /\ must' = registered
  /\ UNCHANGED <<ringClosed, busClosed, pubVars, subVars, atClose>>

RunRecv ==
  /\ runner = "recv" /\ ring # <<>> /\ ~panicked
  /\ current' = Head(ring) /\ ring' = Tail(ring)
  /\ runner' = "fan" /\ seen' = {} /\ must' = registered
  /\ UNCHANGED <<ringClosed, busClosed, pubVars, subVars, atClose>>

\* Mutant: the loop ends as soon as Close was called.
RunClosedEarly ==
  /\ runner = "recv" /\ ringClosed /\ ~panicked
  /\ runner' = "teardown" /\ seen' = {} /\ must' = registered
  /\ UNCHANGED <<ringVars, pubVars, subVars, current, atClose>>

\* Mutant: the loop ends without cancelling the subscriptions.
RunClosedForgets ==
  /\ runner = "recv" /\ ring = <<>> /\ ringClosed /\ ~panicked
  /\ runner' = "done" /\ seen' = {} /\ must' = registered
  /\ UNCHANGED <<ringVars, pubVars, subVars, current, atClose>>

RunClosed ==
  /\ runner = "recv" /\ ring = <<>> /\ ringClosed /\ ~panicked
  /\ runner' = "teardown" /\ seen' = {} /\ must' = registered
  /\ UNCHANGED <<ringVars, pubVars, subVars, current, atClose>>

\* Mutant: the closed flag is not looked at.
TrySendBlind(s, e) ==
  IF Len(inbox[s]) < InboxSize
  THEN inbox' = [inbox EXCEPT ![s] = Append(@, e)] /\ UNCHANGED dropped
  ELSE dropped' = [dropped EXCEPT ![s] = @ + 1] /\ UNCHANGED inbox

\* Mutant: a full inbox makes room by throwing its oldest event away.
TrySendEvicts(s, e) ==
  IF sub[s] = "closed" THEN UNCHANGED <<inbox, dropped>>
  ELSE /\ inbox' = [inbox EXCEPT ![s] =
                      Append(IF Len(@) < InboxSize THEN @ ELSE Tail(@), e)]
       /\ UNCHANGED dropped

\* trySend and close exclude each other (the subscription's RWMutex).
TrySend(s, e) ==
  IF sub[s] = "closed" THEN UNCHANGED <<inbox, dropped>>
  ELSE IF Len(inbox[s]) < InboxSize
  THEN inbox' = [inbox EXCEPT ![s] = Append(@, e)] /\ UNCHANGED dropped
  ELSE dropped' = [dropped EXCEPT ![s] = @ + 1] /\ UNCHANGED inbox

RunVisit(s) ==
  /\ runner = "fan" /\ s \in (must \cup registered) \ seen /\ ~panicked
  /\ seen' = seen \cup {s}
  /\ IF Match(filter[s], current.kind) THEN TrySend(s, current)
     ELSE UNCHANGED <<inbox, dropped>>
  /\ UNCHANGED <<ringVars, pubVars, registered, sub, filter, canceling, got,
                 since, runner, current, must, atClose>>

RunFanned ==
  /\ runner = "fan" /\ must \cap registered \subseteq seen /\ ~panicked
  /\ runner' = "recv"
  /\ UNCHANGED <<ringVars, pubVars, subVars, current, seen, must, atClose>>

RunCancel(s) ==
  /\ runner = "teardown" /\ s \in (must \cup registered) \ seen /\ ~panicked
  /\ seen' = seen \cup {s}
  /\ registered' = registered \ {s}
  /\ sub' = [sub EXCEPT ![s] = "closed"]
  /\ UNCHANGED <<ringVars, pubVars, filter, inbox, dropped, canceling, got,
                 since, runner, current, must, atClose>>

RunDone ==
  /\ runner = "teardown" /\ must \cap registered \subseteq seen /\ ~panicked
  /\ runner' = "done"
  /\ UNCHANGED <<ringVars, pubVars, subVars, current, seen, must, atClose>>

-----------------------------------------------------------------------------
(* Close: the flag is swapped, then the ring is closed.                    *)

CloseFlag ==
  /\ ~busClosed /\ ~panicked
  /\ busClosed' = TRUE
  /\ UNCHANGED <<ring, ringClosed, pubVars, subVars, runVars, atClose>>

CloseRing ==
  /\ busClosed /\ ~ringClosed /\ ~panicked
  /\ ringClosed' = TRUE /\ atClose' = registered
  /\ UNCHANGED <<ring, busClosed, pubVars, subVars, runVars>>

-----------------------------------------------------------------------------
Run == \/ RunRecv \/ RunClosed \/ RunFanned \/ RunDone
       \/ \E s \in Subs : RunVisit(s) \/ RunCancel(s)

Next == \/ \E p \in Publishers : PublishCheck(p) \/ PublishSend(p)
        \/ \E s \in Subs : \/ Subscribe(s) \/ CancelDelete(s) \/ CancelClose(s)
                           \/ Receive(s)
        \/ Run \/ CloseFlag \/ CloseRing

Spec == Init /\ [][Next]_vars

\* The fan-out goroutine is scheduled, and a cancel or Close that began ends.
LiveSpec == /\ Spec /\ WF_vars(Run) /\ WF_vars(CloseRing)
            /\ \A s \in Subs : WF_vars(CancelClose(s))

-----------------------------------------------------------------------------
(* Properties.                                                             *)

Events == [id : Nat, kind : Kinds \cup {None}]

\* Every variable has its type and no channel holds more than its capacity.
TypeOK ==
  /\ ring \in Seq(Events) /\ Len(ring) <= RingSize
  /\ ringClosed \in BOOLEAN /\ busClosed \in BOOLEAN /\ panicked \in BOOLEAN
  /\ sending \in [Publishers -> Kinds \cup {None}]
  /\ calls \in 0..MaxEvents /\ log \in Seq(Kinds) /\ Len(log) <= calls
  /\ registered \subseteq Subs /\ canceling \subseteq Subs
  /\ sub \in [Subs -> {"none", "open", "closed"}]
  /\ filter \in [Subs -> Filters]
  /\ inbox \in [Subs -> Seq(Events)] /\ got \in [Subs -> Seq(Events)]
  /\ \A s \in Subs : Len(inbox[s]) <= InboxSize
  /\ dropped \in [Subs -> Nat] /\ since \in [Subs -> Nat]
  /\ runner \in {"recv", "fan", "teardown", "done"}
  /\ current \in Events /\ seen \subseteq Subs /\ must \subseteq Subs
  /\ atClose \subseteq Subs

\* Everything a subscription was sent, read or not.
Stream(s) == got[s] \o inbox[s]

\* All subscribers see the events in one order, the order of the ring, and none
\* twice, whatever subscribes, cancels and drops in between.
OneOrder ==
  \A s \in Subs : \A i, j \in 1..Len(Stream(s)) :
    i < j => Stream(s)[i].id < Stream(s)[j].id

\* A subscription that is registered has received, or has had counted as
\* dropped, every matching event taken off the ring since it was made: a client
\* that sees a zero drop count has missed nothing.
Delivered(s) == {Stream(s)[i].id : i \in 1..Len(Stream(s))} \ 0..since[s]
Due(s) == {n \in (since[s] + 1)..Popped : /\ n # Popped \/ runner # "fan" \/ s \in seen
                                          /\ Match(filter[s], log[n])}
LossAccounted ==
  \A s \in registered : /\ Delivered(s) \subseteq Due(s)
                         /\ Cardinality(Due(s) \ Delivered(s)) = dropped[s]

\* The inductive invariant behind these, in its parts.

\* The publishers between the two steps of Publish have been counted in calls.
Pending == {p \in Publishers : sending[p] # None}
PendLine == IsFiniteSet(Pending) /\ Len(log) + Cardinality(Pending) <= calls

\* The ring holds the last events of the log; the one that is fanned out comes
\* right before them.
RingLine ==
  /\ Len(ring) <= Len(log)
  /\ \A i \in 1..Len(ring) : ring[i] = Event(Popped + i, log[Popped + i])
  /\ runner = "fan" => Popped > 0 /\ current = Event(Popped, log[Popped])

\* A registered subscription is open, and one that was not made has nothing and
\* is not visited.
SubLine ==
  \A s \in Subs :
    /\ s \in registered => sub[s] = "open" /\ s \notin canceling
    /\ s \in canceling \cup must => sub[s] # "none"
    /\ sub[s] = "none" => got[s] = <<>> /\ inbox[s] = <<>> /\ dropped[s] = 0
    /\ since[s] <= Popped

\* What a subscription was sent lies between its beginning and the event that is
\* fanned out, which it was sent only if the fan-out has visited it.
SentLine ==
  \A s \in Subs : \A i \in 1..Len(Stream(s)) :
    /\ since[s] <= Stream(s)[i].id /\ Stream(s)[i].id <= Popped
    /\ Stream(s)[i].id = Popped /\ runner = "fan" => s \in seen

\* The fan-out may leave out only those that came after it began.
FanLine == runner = "fan" => \A s \in registered \ must : since[s] = Popped

BusInv == /\ TypeOK /\ PendLine /\ RingLine /\ SubLine /\ SentLine /\ FanLine
          /\ OneOrder /\ LossAccounted

\* A subscription that was cancelled or torn down receives nothing more, and
\* nothing is sent to it.
ClosedSilent ==
  [][\A s \in Subs : sub[s] = "closed" =>
       /\ sub'[s] = "closed" /\ Stream(s)' = Stream(s) /\ dropped'[s] = dropped[s]]_vars

\* Every event the ring accepted is taken off it by the fan-out, those still in
\* it when the bus is closed included.
Drains == \A n \in 1..MaxEvents : Len(log) >= n ~> (Popped >= n \/ panicked)

\* Closing the bus closes every subscription that was registered when the ring
\* was closed.
CloseReaches == \A s \in Subs : s \in atClose ~> (sub[s] = "closed" \/ panicked)

\* "After Close, Publish is a no-op."
NoPanic == ~panicked

\* "The channel is closed when the subscription is canceled or the bus is
\* closed": for a subscription made at any time.
EveryChannelCloses ==
  \A s \in Subs : (ringClosed /\ sub[s] = "open") ~> (sub[s] = "closed" \/ panicked)
=============================================================================
