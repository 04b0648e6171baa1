--------------------------------- MODULE Hub ---------------------------------
(***************************************************************************)
(* The dashboard's WebSocket hub (internal/router/hub.go) and what feeds   *)
(* it in main.go: the events of the sync manager, sent by whichever of its *)
(* goroutines has one, and the lines of the LogService, which one          *)
(* goroutine takes from a bounded channel.                                 *)
(*                                                                         *)
(* A client is one connection with its queue, its read pump and its write  *)
(* pump.  Send copies the set of clients under the lock, fills the queues  *)
(* without it, and takes it again to drop those whose queue was full.      *)
(***************************************************************************)
EXTENDS Integers

CONSTANTS
  Clients,    \* connections, each used once
  Syncers,    \* goroutines of the sync manager that send events
  Log,        \* the goroutine that forwards log lines
  SendBuffer, \* capacity of a client's queue
  FeedSize,   \* capacity of the LogService's channel
  MaxSends    \* bound on the messages sent

HubAssumption ==
  /\ Log \notin Syncers
  /\ SendBuffer \in Nat \ {0} /\ FeedSize \in Nat \ {0} /\ MaxSends \in Nat

VARIABLES
  clients,    \* Hub.clients
  socket,     \* per client: its connection
  peer,       \* per client: the browser is there
  sendCh,     \* per client: the messages in its queue
  readPump, writePump,  \* per client: its goroutines
  sender,     \* per sender: the Send in progress
  sends,      \* messages so far
  feed,       \* log lines in the LogService's channel
  missed      \* clients whose queue was full for a message

pumps == <<readPump, writePump>>
sending == <<sender, sends, feed>>
vars == <<clients, socket, peer, sendCh, pumps, sending, missed>>

Senders == Syncers \cup {Log}
NotSending == [at |-> "idle", todo |-> {}, failed |-> {}]

Init ==
  /\ clients = {} /\ socket = [c \in Clients |-> "none"]
  /\ peer = [c \in Clients |-> FALSE] /\ sendCh = [c \in Clients |-> 0]
  /\ readPump = [c \in Clients |-> "none"] /\ writePump = [c \in Clients |-> "none"]
  /\ sender = [s \in Senders |-> NotSending] /\ sends = 0 /\ feed = 0
  /\ missed = {}

-----------------------------------------------------------------------------
(* The feed, and one client's life.                                        *)

\* LogService.Add does not wait: a line that finds the channel full is only kept
\* among the entries.
Logged == IF feed < FeedSize THEN feed + 1 ELSE feed

LogAdd ==
  /\ feed' = Logged /\ feed' # feed
  /\ UNCHANGED <<clients, socket, peer, sendCh, pumps, sender, sends, missed>>

\* Add writes a log line, which the hub itself will send.
ServeWS(c) ==
  /\ socket[c] = "none"
  /\ clients' = clients \cup {c}
  /\ socket' = [socket EXCEPT ![c] = "open"] /\ peer' = [peer EXCEPT ![c] = TRUE]
  /\ readPump' = [readPump EXCEPT ![c] = "run"]
  /\ writePump' = [writePump EXCEPT ![c] = "run"]
  /\ feed' = Logged
  /\ UNCHANGED <<sendCh, sender, sends, missed>>

\* The browser closes the page, or no longer reads or answers.
PeerLeaves(c) ==
  /\ peer[c]
  /\ peer' = [peer EXCEPT ![c] = FALSE]
  /\ UNCHANGED <<clients, socket, sendCh, pumps, sending, missed>>

\* An error of the connection: it is closed here, or its peer is gone.
Broken(c) == socket[c] = "closed" \/ ~peer[c]

ReadFails(c) ==
  /\ readPump[c] = "run" /\ Broken(c)
  /\ readPump' = [readPump EXCEPT ![c] = "remove"]
  /\ UNCHANGED <<clients, socket, peer, sendCh, writePump, sending, missed>>

\* Writes to a peer that is gone succeed for a while.
Write(c) ==
  /\ writePump[c] = "run" /\ sendCh[c] > 0
  /\ sendCh' = [sendCh EXCEPT ![c] = @ - 1]
  /\ \/ socket[c] = "open" /\ UNCHANGED writePump
     \/ Broken(c) /\ writePump' = [writePump EXCEPT ![c] = "remove"]
  /\ UNCHANGED <<clients, socket, peer, readPump, sending, missed>>

\* A ping that succeeds changes nothing.
PingFails(c) ==
  /\ writePump[c] = "run" /\ Broken(c)
  /\ writePump' = [writePump EXCEPT ![c] = "remove"]
  /\ UNCHANGED <<clients, socket, peer, sendCh, readPump, sending, missed>>

\* Hub.Remove takes the client off the map under the lock, and then closes its
\* connection.
ReadRemoves(c) ==
  /\ readPump[c] = "remove"
  /\ clients' = clients \ {c}
  /\ readPump' = [readPump EXCEPT ![c] = "close"]
  /\ UNCHANGED <<socket, peer, sendCh, writePump, sending, missed>>

WriteRemoves(c) ==
  /\ writePump[c] = "remove"
  /\ clients' = clients \ {c}
  /\ writePump' = [writePump EXCEPT ![c] = "close"]
  /\ UNCHANGED <<socket, peer, sendCh, readPump, sending, missed>>

ReadEnds(c) ==
  /\ readPump[c] = "close"
  /\ socket' = [socket EXCEPT ![c] = "closed"]
  /\ readPump' = [readPump EXCEPT ![c] = "done"]
  /\ UNCHANGED <<clients, peer, sendCh, writePump, sending, missed>>

WriteEnds(c) ==
  /\ writePump[c] = "close"
  /\ socket' = [socket EXCEPT ![c] = "closed"]
  /\ writePump' = [writePump EXCEPT ![c] = "done"]
  /\ UNCHANGED <<clients, peer, sendCh, readPump, sending, missed>>

-----------------------------------------------------------------------------
(* Hub.Send.                                                               *)

Snapshot(s) ==
  /\ sender[s] = NotSending /\ sends < MaxSends
  /\ s = Log => feed > 0
  /\ feed' = IF s = Log THEN feed - 1 ELSE feed
  /\ sends' = sends + 1
  /\ sender' = [sender EXCEPT ![s] = [at |-> "send", todo |-> clients, failed |-> {}]]
  /\ UNCHANGED <<clients, socket, peer, sendCh, pumps, missed>>

Enqueue(s, c) ==
  /\ c \in sender[s].todo /\ sendCh[c] < SendBuffer
  /\ sendCh' = [sendCh EXCEPT ![c] = @ + 1]
  /\ sender' = [sender EXCEPT ![s].todo = @ \ {c}]
  /\ UNCHANGED <<clients, socket, peer, pumps, sends, feed, missed>>

Full(s, c) ==
  /\ c \in sender[s].todo /\ sendCh[c] >= SendBuffer
  /\ missed' = missed \cup {c}
  /\ sender' = [sender EXCEPT ![s].todo = @ \ {c}, ![s].failed = @ \cup {c}]
  /\ UNCHANGED <<clients, socket, peer, sendCh, pumps, sends, feed>>

\* Mutant: the connection of a dropped client is left open.
CleanupOpen(s) ==
  /\ sender[s].at = "send" /\ sender[s].todo = {}
  /\ clients' = clients \ sender[s].failed
  /\ sender' = [sender EXCEPT ![s] = NotSending]
  /\ UNCHANGED <<socket, peer, sendCh, pumps, sends, feed, missed>>

\* The clients that were full are dropped, unless a pump was faster.
Cleanup(s) ==
  /\ sender[s].at = "send" /\ sender[s].todo = {}
  /\ LET dropped == sender[s].failed \cap clients IN
       /\ clients' = clients \ dropped
       /\ socket' = [c \in Clients |-> IF c \in dropped THEN "closed" ELSE socket[c]]
  /\ sender' = [sender EXCEPT ![s] = NotSending]
  /\ UNCHANGED <<peer, sendCh, pumps, sends, feed, missed>>

-----------------------------------------------------------------------------
ReadPump(c)  == ReadFails(c) \/ ReadRemoves(c) \/ ReadEnds(c)
WritePump(c) == Write(c) \/ PingFails(c) \/ WriteRemoves(c) \/ WriteEnds(c)
Send(s) == \/ Snapshot(s) \/ Cleanup(s)
           \/ \E c \in Clients : Enqueue(s, c) \/ Full(s, c)

Next ==
  \/ LogAdd
  \/ \E c \in Clients : ServeWS(c) \/ PeerLeaves(c) \/ ReadPump(c) \/ WritePump(c)
  \/ \E s \in Senders : Send(s)

-----------------------------------------------------------------------------
\* Every variable has its type, and no channel more than it holds.
TypeOK ==
  /\ clients \subseteq Clients /\ missed \subseteq Clients
  /\ socket \in [Clients -> {"none", "open", "closed"}]
  /\ peer \in [Clients -> BOOLEAN]
  /\ sendCh \in [Clients -> 0..SendBuffer]
  /\ readPump \in [Clients -> {"none", "run", "remove", "close", "done"}]
  /\ writePump \in [Clients -> {"none", "run", "remove", "close", "done"}]
  /\ sender \in [Senders -> [at : {"idle", "send"},
                             todo : SUBSET Clients, failed : SUBSET Clients]]
  /\ sends \in 0..MaxSends /\ feed \in 0..FeedSize

\* "A full queue means the client is too slow, so drop it": a client on the map has
\* both pumps running or about to take it off, and has missed no message but of a
\* Send that is about to drop it; a client off the map has its connection closed,
\* or about to be, so that each pump that still runs meets an error.
SlowDropped ==
  /\ \A c \in clients :
       /\ {readPump[c], writePump[c]} \subseteq {"run", "remove"}
       /\ c \in missed => \E s \in Senders : c \in sender[s].failed
  /\ \A c \in Clients \ clients :
       socket[c] # "open" \/ "close" \in {readPump[c], writePump[c]}

-----------------------------------------------------------------------------
(* The inductive invariant.                                                *)

\* A connection that was not opened yet is on no list: neither the map, nor a
\* Send's copy of it, nor the clients that missed a message.
Served == \A c \in Clients : socket[c] = "none" =>
            c \notin clients \cup missed /\ \A s \in Senders : c \notin sender[s].todo

HubInv == TypeOK /\ Served /\ SlowDropped
=============================================================================
