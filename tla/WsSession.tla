----------------------------- MODULE WsSession -----------------------------
(* One connection of HyperGnomon's WebSocket server (api/ws.go): its read  *)
(* loop, the forwarder of each subscription, and the map of subscriptions  *)
(* they share.  The event bus is the channel of each subscription: it      *)
(* appends to an open one while there is room (module EventBus), and its   *)
(* cancel function closes it.                                              *)
EXTENDS Naturals, Sequences, FiniteSets

CONSTANTS
  Ids,        \* subscription ids, given in turn: numbers from 1
  MaxSubs,    \* maxSubsPerConn
  ChanSize,   \* capacity of a subscription's channel
  MaxSent     \* bound on the events published

\* What is assumed of them.
SessionAssumption ==
  Ids \subseteq Nat \ {0} /\ MaxSubs \in Nat \ {0} /\ ChanSize \in Nat \ {0} /\ MaxSent \in Nat

VARIABLES
  reader,     \* the read loop: its step, and the subscription it is about
  subs,       \* connContext.subs
  subsNil,    \* it has been set to nil
  once,       \* closeOnce: "free", "held" while cancelAllSubs runs, "over"
  closer,     \* who runs it
  cancels,    \* cancel functions it has still to call
  done,       \* connContext.done is closed
  chan,       \* channel of a subscription: "none", "open" or "closed"
  queued,     \* events in the channel
  fwd,        \* forwarder of a subscription: its step
  writable,   \* writes succeed
  readable,   \* reads succeed
  sent        \* number of events published

sessionVars == <<reader, subs, subsNil, once, closer, cancels, done, chan, queued, fwd,
                 writable, readable, sent>>
shared == <<subs, subsNil, once, closer, cancels, done>>
bus    == <<chan, queued, sent>>
socket == <<writable, readable>>

At(step, id) == [step |-> step, id |-> id]
NoId == 0
Reader == 0                          \* the read loop, among the callers of cancelAllSubs
Alive == reader.step # "panicked"    \* a panic in the read loop ends the process

Init ==
  /\ reader = At("read", NoId)
  /\ subs = {} /\ subsNil = FALSE /\ once = "free" /\ closer = Reader
  /\ cancels = {} /\ done = FALSE
  /\ chan = [i \in Ids |-> "none"] /\ queued = [i \in Ids |-> 0]
  /\ fwd = [i \in Ids |-> "none"]
  /\ writable = TRUE /\ readable = TRUE /\ sent = 0

-----------------------------------------------------------------------------
(* The read loop (handleConn, dispatch): a request is answered before the   *)
(* next is read.                                                            *)

\* Any method without state.
Call ==
  /\ reader.step = "read" /\ readable
  /\ reader' = At("reply", NoId)
  /\ UNCHANGED <<shared, bus, fwd, socket>>

\* handleSubscribe: Bus.Subscribe gives an id and a channel ...
Subscribe(i) ==
  /\ reader.step = "read" /\ readable
  /\ chan[i] = "none" /\ \A j \in Ids : j < i => chan[j] # "none"
  /\ chan' = [chan EXCEPT ![i] = "open"]
  /\ reader' = At("add", i)
  /\ UNCHANGED <<shared, queued, sent, fwd, socket>>

\* Mutant: over the cap the registration on the bus is left as it is.
AddSubLeaks ==
  /\ reader.step = "add"
  /\ LET i == reader.id IN
       IF Cardinality(subs) >= MaxSubs
       THEN reader' = At("reply", NoId) /\ UNCHANGED <<subs, fwd>>
       ELSE IF subsNil
            THEN reader' = At("panicked", i) /\ UNCHANGED <<subs, fwd>>
            ELSE /\ subs' = subs \union {i}
                 /\ fwd' = [fwd EXCEPT ![i] = "select"]
                 /\ reader' = At("reply", NoId)
  /\ UNCHANGED <<subsNil, once, closer, cancels, done, bus, socket>>

\* ... and addSub keeps its cancel function and starts the forwarder; over the
\* cap the subscription is cancelled again.  A write to the nil map panics.
AddSub ==
  /\ reader.step = "add"
  /\ LET i == reader.id IN
       IF Cardinality(subs) >= MaxSubs
       THEN reader' = At("cancel", i) /\ UNCHANGED <<subs, fwd>>
       ELSE IF subsNil
            THEN reader' = At("panicked", i) /\ UNCHANGED <<subs, fwd>>
            ELSE /\ subs' = subs \union {i}
                 /\ fwd' = [fwd EXCEPT ![i] = "select"]
                 /\ reader' = At("reply", NoId)
  /\ UNCHANGED <<subsNil, once, closer, cancels, done, bus, socket>>

\* handleUnsubscribe: removeSub, and cancel what it found.
Unsubscribe(i) ==
  /\ reader.step = "read" /\ readable
  /\ subs' = subs \ {i}
  /\ reader' = IF i \in subs THEN At("cancel", i) ELSE At("reply", NoId)
  /\ UNCHANGED <<subsNil, once, closer, cancels, done, bus, fwd, socket>>

CancelSub ==
  /\ reader.step = "cancel"
  /\ chan' = [chan EXCEPT ![reader.id] = "closed"]
  /\ reader' = At("reply", NoId)
  /\ UNCHANGED <<shared, queued, sent, fwd, socket>>

\* safeWrite of the response; an error ends the loop.
ReplyToPeer ==
  /\ reader.step = "reply"
  /\ reader' = IF writable THEN At("read", NoId) ELSE At("teardown", NoId)
  /\ UNCHANGED <<shared, bus, fwd, socket>>

ReadError ==
  /\ reader.step = "read" /\ ~readable
  /\ reader' = At("teardown", NoId)
  /\ UNCHANGED <<shared, bus, fwd, socket>>

-----------------------------------------------------------------------------
(* cancelAllSubs, called by the read loop as it ends or by a forwarder;     *)
(* the first caller does it, another waits until it is over.                *)

Calling(c) == IF c = Reader THEN reader.step = "teardown" ELSE fwd[c] = "teardown"
Callers == Ids \union {Reader}

\* Mutant: the map is dropped before the functions are copied.
CancelTakeEmpty(c) ==
  /\ Calling(c) /\ once = "free"
  /\ once' = "held" /\ closer' = c
  /\ cancels' = {} /\ subs' = {} /\ subsNil' = TRUE
  /\ done' = TRUE
  /\ UNCHANGED <<reader, bus, fwd, socket>>

\* Under the lock it takes the functions and drops the map; then closes done.
CancelTake(c) ==
  /\ Calling(c) /\ once = "free"
  /\ once' = "held" /\ closer' = c
  /\ cancels' = subs /\ subs' = {} /\ subsNil' = TRUE
  /\ done' = TRUE
  /\ UNCHANGED <<reader, bus, fwd, socket>>

CancelNext(c) ==
  /\ once = "held" /\ closer = c
  /\ \E i \in cancels :
       cancels' = cancels \ {i} /\ chan' = [chan EXCEPT ![i] = "closed"]
  /\ UNCHANGED <<reader, subs, subsNil, once, closer, done, queued, sent, fwd, socket>>

CancelOver(c) ==
  /\ once = "held" /\ closer = c /\ cancels = {}
  /\ once' = "over"
  /\ UNCHANGED <<reader, subs, subsNil, closer, cancels, done, bus, fwd, socket>>

\* The read loop then closes the connection.
ReaderEnds ==
  /\ reader.step = "teardown" /\ once = "over"
  /\ reader' = At("ended", NoId)
  /\ writable' = FALSE /\ readable' = FALSE
  /\ UNCHANGED <<shared, bus, fwd>>

\* The forwarder only ends.
ForwarderEnds(i) ==
  /\ fwd[i] = "teardown" /\ once = "over"
  /\ fwd' = [fwd EXCEPT ![i] = "ended"]
  /\ UNCHANGED <<reader, shared, bus, socket>>

-----------------------------------------------------------------------------
(* forwardEvents.  A select with more than one case ready takes any.        *)

ForwardDone(i) ==
  /\ fwd[i] = "select" /\ done
  /\ fwd' = [fwd EXCEPT ![i] = "ended"]
  /\ UNCHANGED <<reader, shared, bus, socket>>

ForwardClosed(i) ==
  /\ fwd[i] = "select" /\ chan[i] = "closed" /\ queued[i] = 0
  /\ fwd' = [fwd EXCEPT ![i] = "ended"]
  /\ UNCHANGED <<reader, shared, bus, socket>>

ForwardRecv(i) ==
  /\ fwd[i] = "select" /\ queued[i] > 0
  /\ queued' = [queued EXCEPT ![i] = @ - 1]
  /\ fwd' = [fwd EXCEPT ![i] = "write"]
  /\ UNCHANGED <<reader, shared, chan, sent, socket>>

\* safeWrite of the notification; an error tears the subscriptions down.
ForwardWrite(i) ==
  /\ fwd[i] = "write"
  /\ fwd' = [fwd EXCEPT ![i] = IF writable THEN "select" ELSE "teardown"]
  /\ UNCHANGED <<reader, shared, bus, socket>>

-----------------------------------------------------------------------------
(* The bus and the peer.                                                    *)

Deliver ==
  /\ sent < MaxSent
  /\ sent' = sent + 1
  /\ queued' = [i \in Ids |-> IF chan[i] = "open" /\ queued[i] < ChanSize
                              THEN queued[i] + 1 ELSE queued[i]]
  /\ UNCHANGED <<reader, shared, chan, fwd, socket>>

\* Writes fail from now on; what the peer has sent can still be read.
WriteBreaks == writable /\ writable' = FALSE /\ UNCHANGED <<reader, shared, bus, fwd, readable>>

\* The peer closes the connection.
PeerCloses == readable /\ readable' = FALSE /\ UNCHANGED <<reader, shared, bus, fwd, writable>>

ReaderStep ==
  \/ AddSub \/ CancelSub \/ ReplyToPeer \/ ReadError \/ ReaderEnds

ForwarderStep(i) ==
  ForwardDone(i) \/ ForwardClosed(i) \/ ForwardRecv(i) \/ ForwardWrite(i) \/ ForwarderEnds(i)

CancelStep(c) == CancelTake(c) \/ CancelNext(c) \/ CancelOver(c)

Next ==
  /\ Alive
  /\ \/ Call
     \/ \E i \in Ids : Subscribe(i) \/ Unsubscribe(i)
     \/ ReaderStep
     \/ \E i \in Ids : ForwarderStep(i)
     \/ \E c \in Callers : CancelStep(c)
     \/ Deliver \/ WriteBreaks \/ PeerCloses

\* Go runs every goroutine that can run.  Nothing is owed by the peer.
Fairness ==
  /\ WF_sessionVars(Alive /\ ReaderStep)
  /\ \A i \in Ids : WF_sessionVars(Alive /\ ForwarderStep(i))
  /\ \A c \in Callers : WF_sessionVars(Alive /\ CancelStep(c))

Spec == Init /\ [][Next]_sessionVars
LiveSpec == Spec /\ Fairness

-----------------------------------------------------------------------------
\* The map has no more than its cap ...
Capped == IsFiniteSet(subs) /\ Cardinality(subs) <= MaxSubs

\* ... every variable its type, and no channel more than it holds.
TypeOK ==
  /\ reader \in [step : {"read", "add", "cancel", "reply", "teardown", "ended", "panicked"},
                 id : Ids \union {NoId}]
  /\ reader.step \in {"add", "cancel"} => reader.id \in Ids
  /\ subs \subseteq Ids /\ cancels \subseteq Ids
  /\ Capped
  /\ once \in {"free", "held", "over"} /\ closer \in Callers
  /\ chan \in [Ids -> {"none", "open", "closed"}]
  /\ queued \in [Ids -> 0..ChanSize]
  /\ fwd \in [Ids -> {"none", "select", "write", "teardown", "ended"}]

\* No subscription is left on the bus that nobody can cancel: each open channel
\* is in the map, in the hand of the read loop, or about to be cancelled with
\* the others, whatever the order in which requests, write errors and the end
\* of the connection come.
NoOrphan ==
  \A i \in Ids : chan[i] = "open" =>
    \/ i \in subs \union cancels
    \/ reader.step \in {"add", "cancel", "panicked"} /\ reader.id = i

\* The inductive invariant: cancelAllSubs has functions to call only once it has
\* begun, so that taking those of the map forgets none.
SessionInv == TypeOK /\ NoOrphan /\ (once = "free" => cancels = {})

Freed == \A i \in Ids : chan[i] # "open" /\ fwd[i] \in {"none", "ended"}

\* Once a write has failed in a forwarder, or the read loop has ended, every
\* subscription of the connection is cancelled and every forwarder ends, also
\* when several find the connection broken at once; unless the process is gone.
Released ==
  (reader.step = "teardown" \/ \E i \in Ids : fwd[i] = "teardown") ~> (Freed \/ ~Alive)
=============================================================================
