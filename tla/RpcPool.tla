------------------------------- MODULE RpcPool -------------------------------
(***************************************************************************)
(* The pool of RPC connections to the daemon (rpc/pool.go): NewPool, which *)
(* dials every connection at the same time, Get, Put and WithConn, called  *)
(* by any goroutine of the indexer, and Close, called by Indexer.Close and *)
(* by a NewPool that failed.                                               *)
(*                                                                         *)
(* The pool is a buffered channel.  Get receives from it and takes no      *)
(* lock; Put and Close take the mutex.  A connection whose daemon went     *)
(* away goes back into the pool like any other: nothing reconnects it, so  *)
(* that whether a call over it succeeds makes no difference here.          *)
(***************************************************************************)
EXTENDS Integers, Sequences, SequencesExt, FiniteSets

CONSTANTS
  Size,       \* connections in the pool
  Users,      \* goroutines that call WithConn
  MaxCloses   \* bound on the calls of Close

PoolAssumption ==
  /\ Size \in Nat \ {0} /\ MaxCloses \in Nat
  /\ {"free", "close"} \cap Users = {}   \* what else may hold the mutex

VARIABLES
  dial,       \* per connection: NewPool's attempt at it
  open,       \* the connections that are open
  conns,      \* the channel
  chanClosed, \* it was closed
  flag,       \* Pool.closed
  mu,         \* what holds Pool.mu
  user,       \* per caller of WithConn: where it is
  held,       \* per caller: its connection
  closer,     \* where the call of Close in progress is
  closes,     \* the calls of Close so far
  made,       \* NewPool: running, returned a pool, or an error
  panicked    \* a send on the closed channel

channel == <<conns, chanClosed, panicked>>
callers == <<user, held>>
closing == <<closer, closes>>
vars == <<dial, open, channel, flag, mu, callers, closing, made>>

Conns == 1..Size
None == 0
Free == "free"

Init ==
  /\ dial = [c \in Conns |-> "dialing"] /\ open = {}
  /\ conns = <<>> /\ chanClosed = FALSE /\ flag = FALSE /\ mu = Free
  /\ user = [u \in Users |-> "idle"] /\ held = [u \in Users |-> None]
  /\ closer = "idle" /\ closes = 0 /\ made = "running" /\ panicked = FALSE

-----------------------------------------------------------------------------
(* NewPool.                                                                *)

DialOk(c) ==
  /\ dial[c] = "dialing"
  /\ dial' = [dial EXCEPT ![c] = "ok"]
  /\ open' = open \cup {c} /\ conns' = Append(conns, c)
  /\ UNCHANGED <<chanClosed, panicked, flag, mu, callers, closing, made>>

DialErr(c) ==
  /\ dial[c] = "dialing"
  /\ dial' = [dial EXCEPT ![c] = "err"]
  /\ UNCHANGED <<open, channel, flag, mu, callers, closing, made>>

\* All dials have ended: one that failed closes the pool again, with what the
\* others put into it.
NewPool ==
  /\ made = "running" /\ \A c \in Conns : dial[c] # "dialing"
  /\ IF \E c \in Conns : dial[c] = "err"
     THEN made' = "error" /\ closer' = "lock"
     ELSE made' = "pool"  /\ UNCHANGED closer
  /\ UNCHANGED <<dial, open, channel, flag, mu, callers, closes>>

-----------------------------------------------------------------------------
(* WithConn: Get, the call, Put.                                           *)

\* A closed channel still hands out what it holds.
Get(u) ==
  /\ made = "pool" /\ user[u] = "idle" /\ conns # <<>>
  /\ held' = [held EXCEPT ![u] = Head(conns)] /\ conns' = Tail(conns)
  /\ user' = [user EXCEPT ![u] = "call"]
  /\ UNCHANGED <<dial, open, chanClosed, panicked, flag, mu, closing, made>>

\* "pool closed".
GetNil(u) ==
  /\ made = "pool" /\ user[u] = "idle" /\ conns = <<>> /\ chanClosed
  /\ user' = [user EXCEPT ![u] = "refused"]
  /\ UNCHANGED <<dial, open, channel, flag, mu, held, closing, made>>

\* Mutant: Put does not take the lock.
PutLockNot(u) ==
  /\ user[u] = "call"
  /\ user' = [user EXCEPT ![u] = "check"]
  /\ UNCHANGED <<dial, open, channel, flag, mu, held, closing, made>>

PutLock(u) ==
  /\ user[u] = "call" /\ mu = Free
  /\ mu' = u /\ user' = [user EXCEPT ![u] = "check"]
  /\ UNCHANGED <<dial, open, channel, flag, held, closing, made>>

\* The caller is done with the connection and gives up the lock.
PutEnds(u) ==
  /\ held' = [held EXCEPT ![u] = None] /\ user' = [user EXCEPT ![u] = "idle"]
  /\ mu' = IF mu = u THEN Free ELSE mu

PutClosed(u) ==
  /\ user[u] = "check" /\ flag
  /\ open' = open \ {held[u]}
  /\ PutEnds(u)
  /\ UNCHANGED <<dial, channel, flag, closing, made>>

PutCheck(u) ==
  /\ user[u] = "check" /\ ~flag
  /\ user' = [user EXCEPT ![u] = "send"]
  /\ UNCHANGED <<dial, open, channel, flag, mu, held, closing, made>>

PutSend(u) ==
  /\ user[u] = "send" /\ Len(conns) < Size
  /\ IF chanClosed THEN panicked' = TRUE /\ UNCHANGED conns
                   ELSE conns' = Append(conns, held[u]) /\ UNCHANGED panicked
  /\ PutEnds(u)
  /\ UNCHANGED <<dial, open, chanClosed, flag, closing, made>>

-----------------------------------------------------------------------------
(* Close.                                                                  *)

CloseBegin ==
  /\ made = "pool" /\ closer = "idle" /\ closes < MaxCloses
  /\ closer' = "lock" /\ closes' = closes + 1
  /\ UNCHANGED <<dial, open, channel, flag, mu, callers, made>>

\* The second Close finds the flag set.
CloseSwap ==
  /\ closer = "lock" /\ mu = Free
  /\ flag' = TRUE
  /\ IF flag THEN closer' = "idle" /\ UNCHANGED mu
             ELSE closer' = "channel" /\ mu' = "close"
  /\ UNCHANGED <<dial, open, channel, callers, closes, made>>

CloseChannel ==
  /\ closer = "channel"
  /\ chanClosed' = TRUE /\ closer' = "drain"
  /\ UNCHANGED <<dial, open, conns, panicked, flag, mu, callers, closes, made>>

\* One turn of the range over the channel; a Get may be faster.
CloseDrain ==
  /\ closer = "drain" /\ conns # <<>>
  /\ open' = open \ {Head(conns)} /\ conns' = Tail(conns)
  /\ UNCHANGED <<dial, chanClosed, panicked, flag, mu, callers, closing, made>>

CloseReturn ==
  /\ closer = "drain" /\ conns = <<>>
  /\ closer' = "idle" /\ mu' = Free
  /\ UNCHANGED <<dial, open, channel, flag, callers, closes, made>>

-----------------------------------------------------------------------------
WithConn(u) == Get(u) \/ GetNil(u) \/ PutLock(u) \/ PutClosed(u) \/ PutCheck(u)
               \/ PutSend(u)
Close == CloseBegin \/ CloseSwap \/ CloseChannel \/ CloseDrain \/ CloseReturn

Next == \/ \E c \in Conns : DialOk(c) \/ DialErr(c)
        \/ NewPool \/ Close \/ \E u \in Users : WithConn(u)

Spec == Init /\ [][Next]_vars

-----------------------------------------------------------------------------
\* Every variable has its type, and the channel no more than it holds.
TypeOK ==
  /\ dial \in [Conns -> {"dialing", "ok", "err"}] /\ open \subseteq Conns
  /\ conns \in Seq(Conns) /\ Len(conns) <= Size
  /\ chanClosed \in BOOLEAN /\ flag \in BOOLEAN /\ panicked \in BOOLEAN
  /\ mu \in Users \cup {Free, "close"}
  /\ user \in [Users -> {"idle", "call", "check", "send", "refused"}]
  /\ held \in [Users -> Conns \cup {None}]
  /\ closer \in {"idle", "lock", "channel", "drain"} /\ closes \in 0..MaxCloses
  /\ made \in {"running", "pool", "error"}

Holders(c) == {u \in Users : held[u] = c}

\* No Put sends on the channel that Close closed; an open connection is in the
\* channel once or in one caller's hands, and in neither once it is closed; and
\* when a Close has come to its end, or a NewPool has failed and cleaned up, no
\* connection is open but those still in a caller's hands.
PoolAccounted ==
  /\ ~panicked
  /\ IsInjective(conns)
  /\ \A c \in Conns :
       IF c \in open
       THEN Cardinality(Holders(c)) + (IF c \in ToSet(conns) THEN 1 ELSE 0) = 1
       ELSE Holders(c) = {} /\ c \notin ToSet(conns)
  /\ flag /\ closer = "idle" => open \subseteq {held[u] : u \in Users}

-----------------------------------------------------------------------------
(* The inductive invariant behind PoolAccounted.                           *)

\* The mutex is held by the Put that is under it, or by the Close that is.
LockHeld ==
  /\ \A u \in Users : user[u] \in {"check", "send"} <=> mu = u
  /\ closer \in {"channel", "drain"} <=> mu = "close"

\* Where a caller is, what it holds, and which calls a pool that is not there
\* yet, or never will be, has seen.
CallerStates ==
  /\ \A u \in Users : held[u] # None <=> user[u] \in {"call", "check", "send"}
  /\ made # "pool" => \A u \in Users : user[u] = "idle"
  /\ made = "running" => closer = "idle" /\ ~flag
  /\ \A c \in Conns : dial[c] = "dialing" => made = "running" /\ c \notin open

\* Every open connection is in exactly one place.
OnePlace ==
  /\ IsInjective(conns)
  /\ \A u, v \in Users : held[u] = held[v] /\ held[u] # None => u = v
  /\ \A u \in Users : held[u] \notin ToSet(conns)
  /\ \A u \in Users : held[u] # None => held[u] \in open
  /\ ToSet(conns) \subseteq open
  /\ \A c \in open : c \in ToSet(conns) \/ \E u \in Users : held[u] = c

\* The flag goes up before the channel is closed and before anything is
\* drained, under the mutex, so that no Put that has seen it down is still to
\* send.
CloseOrder ==
  /\ ~panicked
  /\ \A u \in Users : user[u] = "send" => ~flag
  /\ flag <=> chanClosed \/ closer = "channel"
  /\ closer = "drain" => flag
  /\ flag /\ closer \in {"idle", "lock"} => conns = <<>>

PoolInv == TypeOK /\ LockHeld /\ CallerStates /\ OnePlace /\ CloseOrder
=============================================================================
