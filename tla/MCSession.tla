------------------------------ MODULE MCSession ------------------------------
(* A synchronisation and what it talks to, in four parts that TLC checks   *)
(* side by side: the life of the sessions, the pool of connections to the  *)
(* daemon one of them opens, the following of the daemon's chain, and the  *)
(* hub that its events reach the dashboard by.  The initial state chooses  *)
(* the part that moves.                                                    *)
EXTENDS MCSyncLifecycle

CONSTANTS
  Size, Users, MaxCloses,
  MaxHeight, MaxForks, MaxCrashes, ParallelBlocks, Cap, MaxDepth,
  Clients, Syncers, Log, SendBuffer, FeedSize, MaxSends

VARIABLES
  part,       \* "sync", "pool", "chain" or "hub"
  dial, open, conns, chanClosed, flag, mu, user, held, closer, closes, made, panicked,
  chain, forks, height, next, fetch, queue, stored, cursor, reported, unchecked,
  crashes,
  clients, socket, peer, sendCh, readPump, writePump, sender, sends, feed, missed

Pool == INSTANCE RpcPool
Chain == INSTANCE Reorg
Hub == INSTANCE Hub

ASSUME SessionAssumption == Pool!PoolAssumption /\ Chain!ReorgAssumption /\ Hub!HubAssumption

poolVars == <<dial, open, conns, chanClosed, flag, mu, user, held, closer, closes,
              made, panicked>>
chainVars == <<chain, forks, height, next, fetch, queue, stored, cursor, reported,
               unchecked, crashes>>
hubVars == <<clients, socket, peer, sendCh, readPump, writePump, sender, sends, feed,
             missed>>
allVars == <<part, vars, poolVars, chainVars, hubVars>>

SessionInit ==
  /\ part \in {"sync", "pool", "chain", "hub"}
  /\ Init /\ Pool!Init /\ Chain!Init /\ Hub!Init

SessionNext ==
  \/ part = "sync"  /\ Next       /\ UNCHANGED <<part, poolVars, chainVars, hubVars>>
  \/ part = "pool"  /\ Pool!Next  /\ UNCHANGED <<part, vars, chainVars, hubVars>>
  \/ part = "chain" /\ Chain!Next /\ UNCHANGED <<part, vars, poolVars, hubVars>>
  \/ part = "hub"   /\ Hub!Next   /\ UNCHANGED <<part, vars, poolVars, chainVars>>

\* The fairness of SyncLifecycle, while it is the part that moves.
Syncing == part = "sync"
SyncFairness ==
  /\ WF_vars(Syncing /\ InCall)
  /\ \A g \in Sessions :
       /\ WF_vars(Syncing /\ Setup(g))      /\ WF_vars(Syncing /\ ScanLeaves(g))
       /\ WF_vars(Syncing /\ TickerEnds(g)) /\ WF_vars(Syncing /\ WatcherEnds(g))
       /\ WF_vars(Syncing /\ WaiterEnds(g)) /\ WF_vars(Syncing /\ ApiStarts(g))
       /\ WF_vars(Syncing /\ WsStarts(g))

SessionSpec == SessionInit /\ [][SessionNext]_allVars /\ SyncFairness

-----------------------------------------------------------------------------
\* The inductive invariants of the proofs, with the types of all four parts.
Inductive == LifeInv /\ Pool!PoolInv /\ Chain!ReorgInv /\ Hub!HubInv

\* The pool neither loses a connection nor leaves one open (RpcPool).
PoolAccounted == Pool!PoolAccounted

\* A reorganisation is seen where it can be, and its fork point found (Reorg).
ChainFollowed == Chain!ChainFollowed

\* A dashboard client that misses a message is dropped (Hub).
SlowDropped == Hub!SlowDropped
=============================================================================
