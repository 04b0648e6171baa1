------------------------------ MODULE MCEvents ------------------------------
(* How events reach a client, in two parts that TLC checks side by side:   *)
(* the event bus, and one WebSocket session that subscribes to it.  The    *)
(* initial state chooses the part that moves; the other stays as it is.    *)
EXTENDS MCEventBus

CONSTANTS Ids, MaxSubs, ChanSize, MaxSent

VARIABLES
  part,       \* "bus" or "session"
  reader, subs, subsNil, once, closer, cancels, done, chan, queued, fwd,
  writable, readable, sent

Session == INSTANCE WsSession

ASSUME SessionAssumption == Session!SessionAssumption

sessionVars == <<reader, subs, subsNil, once, closer, cancels, done, chan, queued, fwd,
                 writable, readable, sent>>
allVars == <<part, vars, sessionVars>>

EventsInit == part \in {"bus", "session"} /\ Init /\ Session!Init

EventsNext ==
  \/ part = "bus"     /\ Next         /\ UNCHANGED <<part, sessionVars>>
  \/ part = "session" /\ Session!Next /\ UNCHANGED <<part, vars>>

\* Each part's own fairness, while it is the part that moves.
BusFairness ==
  /\ WF_vars(part = "bus" /\ Run) /\ WF_vars(part = "bus" /\ CloseRing)
  /\ \A s \in Subs : WF_vars(part = "bus" /\ CancelClose(s))

Running == part = "session" /\ Session!Alive
SessionFairness ==
  /\ WF_sessionVars(Running /\ Session!ReaderStep)
  /\ \A i \in Ids : WF_sessionVars(Running /\ Session!ForwarderStep(i))
  /\ \A c \in Session!Callers : WF_sessionVars(Running /\ Session!CancelStep(c))

EventsSpec == EventsInit /\ [][EventsNext]_allVars /\ BusFairness /\ SessionFairness

-----------------------------------------------------------------------------
\* The inductive invariants of the proofs, with the types of both parts.
Inductive == BusInv /\ Session!SessionInv

\* No subscription stays on the bus that nobody can cancel (WsSession).
NoOrphan == Session!NoOrphan

\* A broken connection gives up all its subscriptions (WsSession).
Released == Session!Released
=============================================================================
