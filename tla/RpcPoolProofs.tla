---------------------------- MODULE RpcPoolProofs ----------------------------
(***************************************************************************)
(* Proofs about RpcPool, for any number of connections, callers and calls  *)
(* of Close: the pool accounts for every connection.                       *)
(***************************************************************************)
EXTENDS RpcPool, FiniteSetTheorems, SequenceTheorems, TLAPS

USE DEF Free, channel, callers, closing

-----------------------------------------------------------------------------
(* The channel as a set.                                                   *)

LEMMA EmptyQueue == ASSUME NEW S PROVE ToSet(<<>>) = {} /\ <<>> \in Seq(S) /\ IsInjective(<<>>)
BY DEF ToSet, IsInjective

\* What is sent on the channel joins what is in it.
LEMMA Sent ==
  ASSUME NEW S, NEW q \in Seq(S), NEW e \in S
  PROVE  /\ Append(q, e) \in Seq(S) /\ Len(Append(q, e)) = Len(q) + 1
         /\ ToSet(Append(q, e)) = ToSet(q) \cup {e}
         /\ IsInjective(q) /\ e \notin ToSet(q) => IsInjective(Append(q, e))
<1>1. /\ Append(q, e) \in Seq(S) /\ Len(Append(q, e)) = Len(q) + 1
      /\ Append(q, e)[Len(q) + 1] = e
      /\ \A i \in 1..Len(q) : Append(q, e)[i] = q[i]
      /\ DOMAIN q = 1..Len(q) /\ DOMAIN Append(q, e) = 1..(Len(q) + 1)
      /\ Len(q) \in Nat
  OBVIOUS
<1>2. ToSet(Append(q, e)) = ToSet(q) \cup {e}
  <2>1. ASSUME NEW i \in 1..(Len(q) + 1) PROVE Append(q, e)[i] \in ToSet(q) \cup {e}
    BY <1>1 DEF ToSet
  <2>2. ASSUME NEW i \in 1..Len(q) PROVE q[i] \in ToSet(Append(q, e))
    <3>1. i \in 1..(Len(q) + 1) /\ Append(q, e)[i] = q[i]
      BY <1>1
    <3> QED BY <1>1, <3>1 DEF ToSet
  <2>3. e \in ToSet(Append(q, e))
    <3>1. Len(q) + 1 \in 1..(Len(q) + 1)
      BY <1>1
    <3> QED BY <1>1, <3>1 DEF ToSet
  <2> QED BY <1>1, <2>1, <2>2, <2>3 DEF ToSet
<1>3. ASSUME IsInjective(q), e \notin ToSet(q) PROVE IsInjective(Append(q, e))
  <2>1. \A i \in 1..Len(q) : q[i] # e
    BY <1>1, <1>3 DEF ToSet
  <2> QED BY <1>1, <1>3, <2>1 DEF IsInjective
<1> QED BY <1>1, <1>2, <1>3

\* What is received from it leaves it, when it held nothing twice.
LEMMA Received ==
  ASSUME NEW S, NEW q \in Seq(S), q # <<>>, IsInjective(q)
  PROVE  /\ Head(q) \in S /\ Head(q) \in ToSet(q)
         /\ Tail(q) \in Seq(S) /\ Len(Tail(q)) = Len(q) - 1
         /\ ToSet(Tail(q)) = ToSet(q) \ {Head(q)}
         /\ IsInjective(Tail(q))
<1>1. /\ Head(q) = q[1] /\ Tail(q) \in Seq(S) /\ Len(Tail(q)) = Len(q) - 1
      /\ \A i \in 1..(Len(q) - 1) : Tail(q)[i] = q[i + 1]
      /\ DOMAIN q = 1..Len(q) /\ DOMAIN Tail(q) = 1..(Len(q) - 1)
      /\ Len(q) \in Nat \ {0} /\ q[1] \in S
  OBVIOUS
<1>2. \A i, j \in 1..Len(q) : q[i] = q[j] => i = j
  BY <1>1 DEF IsInjective
<1>3. \A i \in 1..(Len(q) - 1) : i + 1 \in 1..Len(q) /\ i + 1 # 1
  BY <1>1
<1>4. 1 \in 1..Len(q)
  BY <1>1
<1>5. ASSUME NEW i \in 1..(Len(q) - 1) PROVE Tail(q)[i] \in ToSet(q) \ {Head(q)}
  <2>1. i + 1 \in 1..Len(q) /\ i + 1 # 1 /\ Tail(q)[i] = q[i + 1]
    BY <1>1, <1>3
  <2>2. q[i + 1] # q[1]
    BY <1>2, <1>4, <2>1
  <2> QED BY <1>1, <2>1, <2>2 DEF ToSet
<1>6. ASSUME NEW e \in ToSet(q) \ {Head(q)} PROVE e \in ToSet(Tail(q))
  <2>1. PICK i \in 1..Len(q) : e = q[i] /\ i # 1
    BY <1>1, <1>6 DEF ToSet
  <2>2. i - 1 \in 1..(Len(q) - 1) /\ Tail(q)[i - 1] = q[i]
    BY <1>1, <2>1
  <2> QED BY <1>1, <2>1, <2>2 DEF ToSet
<1>7. IsInjective(Tail(q))
  <2> SUFFICES ASSUME NEW i \in 1..(Len(q) - 1), NEW j \in 1..(Len(q) - 1),
                      Tail(q)[i] = Tail(q)[j]
               PROVE  i = j
    BY <1>1 DEF IsInjective
  <2>1. i + 1 = j + 1
    BY <1>1, <1>2, <1>3
  <2> QED BY <2>1
<1>8. ToSet(Tail(q)) = ToSet(q) \ {Head(q)}
  BY <1>1, <1>5, <1>6 DEF ToSet
<1> QED BY <1>1, <1>4, <1>7, <1>8 DEF ToSet

\* A channel that holds no connection twice is never fuller than the pool.
LEMMA NeverTooFull ==
  ASSUME PoolAssumption, NEW q \in Seq(Conns), IsInjective(q)
  PROVE  Len(q) <= Size
<1>1. Size \in Nat /\ Len(q) \in Nat /\ DOMAIN q = 1..Len(q) /\ q \in [1..Len(q) -> Conns]
  BY LenProperties DEF PoolAssumption
<1>2. IsFiniteSet(Conns) /\ Cardinality(Conns) = Size
      /\ IsFiniteSet(1..Len(q)) /\ Cardinality(1..Len(q)) = Len(q)
  <2>1. ASSUME NEW n \in Nat PROVE IsFiniteSet(1..n) /\ Cardinality(1..n) = n
    BY FS_Interval
  <2> QED BY <1>1, <2>1 DEF Conns
<1>3. CASE Size < Len(q)
  <2>1. \E i, j \in 1..Len(q) : i # j /\ q[i] = q[j]
    BY <1>1, <1>2, <1>3, FS_PigeonHole
  <2> QED BY <1>1, <2>1 DEF IsInjective
<1> QED BY <1>1, <1>3

LEMMA NoneIsNoConn == None \notin Conns
BY DEF None, Conns

-----------------------------------------------------------------------------
(* The inductive invariant, part by part.                                  *)

LEMMA InitHolds == ASSUME PoolAssumption PROVE Init => PoolInv
<1> SUFFICES ASSUME Init PROVE PoolInv
  OBVIOUS
<1>1. TypeOK
  <2>1. conns \in Seq(Conns) /\ Len(conns) <= Size /\ closes \in 0..MaxCloses
    BY EmptySeq DEF Init, PoolAssumption
  <2>2. flag \in BOOLEAN /\ chanClosed \in BOOLEAN /\ panicked \in BOOLEAN
    BY DEF Init
  <2> QED BY <2>1, <2>2 DEF Init, TypeOK
<1>2. LockHeld
  BY DEF Init, LockHeld, PoolAssumption
<1>3. CallerStates
  BY DEF Init, CallerStates
<1>4. OnePlace
  BY EmptyQueue DEF Init, OnePlace
<1>5. CloseOrder
  BY DEF Init, CloseOrder
<1> QED BY <1>1, <1>2, <1>3, <1>4, <1>5 DEF PoolInv

LEMMA TypeStep ==
  ASSUME PoolAssumption, PoolInv, OnePlace', [Next]_vars PROVE TypeOK'
<1> USE DEF TypeOK
<1>0. TypeOK /\ OnePlace /\ Size \in Nat
  BY DEF PoolInv, PoolAssumption
<1>1. CASE UNCHANGED vars
  BY <1>0, <1>1 DEF vars
<1>2. ASSUME NEW c \in Conns, DialOk(c) PROVE TypeOK'
  <2>1. conns' \in Seq(Conns)
    BY <1>0, <1>2, Sent DEF DialOk
  <2>2. Len(conns') <= Size
    BY <2>1, NeverTooFull DEF OnePlace
  <2> QED BY <1>0, <1>2, <2>1, <2>2 DEF DialOk
<1>3. ASSUME NEW c \in Conns, DialErr(c) PROVE TypeOK'
  BY <1>0, <1>3 DEF DialErr
<1>4. CASE NewPool
  BY <1>0, <1>4 DEF NewPool
<1>5. ASSUME NEW u \in Users, Get(u) PROVE TypeOK'
  <2>1. Head(conns) \in Conns /\ conns' \in Seq(Conns) /\ Len(conns') <= Size
    BY <1>0, <1>5, Received DEF Get, OnePlace
  <2> QED BY <1>0, <1>5, <2>1 DEF Get
<1>6. ASSUME NEW u \in Users, GetNil(u) \/ PutLock(u) \/ PutCheck(u) PROVE TypeOK'
  BY <1>0, <1>6 DEF GetNil, PutLock, PutCheck
<1>7. ASSUME NEW u \in Users, PutClosed(u) PROVE TypeOK'
  BY <1>0, <1>7 DEF PutClosed, PutEnds
<1>8. ASSUME NEW u \in Users, PutSend(u) PROVE TypeOK'
  <2>1. held[u] \in Conns
    BY <1>0, <1>8 DEF PutSend, PoolInv, CallerStates
  <2>2. conns' \in Seq(Conns) /\ Len(conns') <= Size
    BY <1>0, <1>8, <2>1, Sent DEF PutSend
  <2> QED BY <1>0, <1>8, <2>2 DEF PutSend, PutEnds
<1>9. CASE CloseBegin
  BY <1>0, <1>9 DEF CloseBegin, PoolAssumption
<1>11. CASE CloseSwap
  BY <1>0, <1>11 DEF CloseSwap
<1>12. CASE CloseChannel \/ CloseReturn
  BY <1>0, <1>12 DEF CloseChannel, CloseReturn
<1>10. CASE CloseDrain
  <2>1. conns' \in Seq(Conns) /\ Len(conns') <= Size
    BY <1>0, <1>10, Received DEF CloseDrain, OnePlace
  <2> QED BY <1>0, <1>10, <2>1 DEF CloseDrain
<1> QED BY <1>1, <1>2, <1>3, <1>4, <1>5, <1>6, <1>7, <1>8, <1>9, <1>10,
           <1>11, <1>12
        DEF Next, WithConn, Close

LEMMA LockStep ==
  ASSUME PoolAssumption, PoolInv, [Next]_vars PROVE LockHeld'
<1> USE DEF LockHeld
<1>0. TypeOK /\ LockHeld /\ "free" \notin Users /\ "close" \notin Users
  BY DEF PoolInv, PoolAssumption
<1>1. CASE UNCHANGED <<user, mu, closer>>
  BY <1>0, <1>1
<1>2. ASSUME NEW c \in Conns, DialOk(c) \/ DialErr(c) PROVE LockHeld'
  BY <1>1, <1>2 DEF DialOk, DialErr
<1>3. CASE NewPool \/ CloseBegin
  BY <1>0, <1>3 DEF NewPool, CloseBegin, PoolInv, CallerStates
<1>4. ASSUME NEW u \in Users, Get(u) \/ GetNil(u) PROVE LockHeld'
  BY <1>0, <1>4 DEF Get, GetNil, TypeOK
<1>5. ASSUME NEW u \in Users, PutLock(u) PROVE LockHeld'
  BY <1>0, <1>5 DEF PutLock, TypeOK
<1>6. ASSUME NEW u \in Users, PutCheck(u) PROVE LockHeld'
  BY <1>0, <1>6 DEF PutCheck, TypeOK
<1>7. ASSUME NEW u \in Users, PutClosed(u) \/ PutSend(u) PROVE LockHeld'
  BY <1>0, <1>7 DEF PutClosed, PutSend, PutEnds, TypeOK
<1>8. CASE CloseSwap \/ CloseChannel \/ CloseDrain \/ CloseReturn
  BY <1>0, <1>8 DEF CloseSwap, CloseChannel, CloseDrain, CloseReturn
<1> QED BY <1>1, <1>2, <1>3, <1>4, <1>5, <1>6, <1>7, <1>8
        DEF Next, WithConn, Close, vars

LEMMA CallerStep ==
  ASSUME PoolAssumption, PoolInv, [Next]_vars PROVE CallerStates'
<1> USE DEF CallerStates
<1>0. TypeOK /\ CallerStates
  BY DEF PoolInv
<1>1. CASE UNCHANGED vars
  BY <1>0, <1>1 DEF vars
<1>2. ASSUME NEW c \in Conns, DialOk(c) \/ DialErr(c) PROVE CallerStates'
  BY <1>0, <1>2 DEF DialOk, DialErr, TypeOK
<1>3. CASE NewPool
  BY <1>0, <1>3 DEF NewPool
<1>4. ASSUME NEW u \in Users, Get(u) PROVE CallerStates'
  <2>1. Head(conns) \in Conns
    BY <1>0, <1>4 DEF Get, TypeOK
  <2> QED BY <1>0, <1>4, <2>1, NoneIsNoConn DEF Get, TypeOK
<1>5. ASSUME NEW u \in Users, GetNil(u) \/ PutLock(u) \/ PutCheck(u) PROVE CallerStates'
  BY <1>0, <1>5 DEF GetNil, PutLock, PutCheck, TypeOK
<1>6. ASSUME NEW u \in Users, PutClosed(u) \/ PutSend(u) PROVE CallerStates'
  BY <1>0, <1>6 DEF PutClosed, PutSend, PutEnds, TypeOK
<1>7. CASE Close
  BY <1>0, <1>7 DEF Close, CloseBegin, CloseSwap, CloseChannel, CloseDrain, CloseReturn
<1> QED BY <1>1, <1>2, <1>3, <1>4, <1>5, <1>6, <1>7 DEF Next, WithConn

LEMMA PlaceStep ==
  ASSUME PoolAssumption, PoolInv, [Next]_vars PROVE OnePlace'
<1> USE DEF OnePlace
<1>0. TypeOK /\ CallerStates /\ OnePlace /\ CloseOrder
  BY DEF PoolInv
<1>1. CASE UNCHANGED <<conns, held, open>>
  BY <1>0, <1>1
<1>2. ASSUME NEW c \in Conns, DialOk(c) PROVE OnePlace'
  <2>1. c \notin open /\ c \notin ToSet(conns)
    BY <1>0, <1>2 DEF DialOk, CallerStates
  <2>2. ToSet(conns') = ToSet(conns) \cup {c} /\ IsInjective(conns')
    BY <1>0, <1>2, <2>1, Sent DEF DialOk, TypeOK
  <2>3. \A u \in Users : held[u] # c
    BY <1>0, <2>1, NoneIsNoConn
  <2> QED BY <1>0, <1>2, <2>2, <2>3 DEF DialOk
<1>3. ASSUME NEW c \in Conns, DialErr(c) PROVE OnePlace'
  BY <1>1, <1>3 DEF DialErr
<1>4. ASSUME NEW u \in Users, Get(u) PROVE OnePlace'
  <2>1. /\ Head(conns) \in Conns /\ Head(conns) \in ToSet(conns)
        /\ ToSet(conns') = ToSet(conns) \ {Head(conns)} /\ IsInjective(conns')
    BY <1>0, <1>4, Received DEF Get, TypeOK
  <2>2. held' = [held EXCEPT ![u] = Head(conns)] /\ open' = open
        /\ held \in [Users -> Conns \cup {None}] /\ held[u] = None
    BY <1>0, <1>4 DEF Get, TypeOK, CallerStates
  <2>3. \A v \in Users : held'[v] = IF v = u THEN Head(conns) ELSE held[v]
    BY <2>2
  <2>4. \A v \in Users : held[v] # Head(conns)
    BY <1>0, <2>1
  <2>5. \A v, w \in Users : held'[v] = held'[w] /\ held'[v] # None => v = w
    BY <1>0, <2>3, <2>4
  <2>6. \A v \in Users : held'[v] \notin ToSet(conns')
    BY <1>0, <2>1, <2>3
  <2>7. \A v \in Users : held'[v] # None => held'[v] \in open'
    BY <1>0, <2>1, <2>2, <2>3
  <2>8. \A c \in open' : c \in ToSet(conns') \/ \E v \in Users : held'[v] = c
    <3> SUFFICES ASSUME NEW c \in open, c \notin ToSet(conns')
                 PROVE  \E v \in Users : held'[v] = c
      BY <2>2
    <3>1. CASE c = Head(conns)
      BY <2>3, <3>1
    <3>2. CASE c # Head(conns)
      <4>1. PICK v \in Users : held[v] = c
        BY <1>0, <2>1, <3>2
      <4>2. v # u
        BY <1>0, <2>2, <4>1, NoneIsNoConn DEF TypeOK
      <4> QED BY <2>3, <4>1, <4>2
    <3> QED BY <3>1, <3>2
  <2> QED BY <1>0, <2>1, <2>2, <2>5, <2>6, <2>7, <2>8
<1>5. ASSUME NEW u \in Users, GetNil(u) \/ PutLock(u) \/ PutCheck(u) PROVE OnePlace'
  BY <1>1, <1>5 DEF GetNil, PutLock, PutCheck
<1>6. ASSUME NEW u \in Users, PutClosed(u) PROVE OnePlace'
  <2>1. /\ held' = [held EXCEPT ![u] = None] /\ open' = open \ {held[u]}
        /\ conns' = conns /\ held \in [Users -> Conns \cup {None}] /\ held[u] # None
    BY <1>0, <1>6 DEF PutClosed, PutEnds, TypeOK, CallerStates
  <2>2. None \notin ToSet(conns)
    BY <1>0, NoneIsNoConn DEF TypeOK
  <2> QED BY <1>0, <2>1, <2>2
<1>7. ASSUME NEW u \in Users, PutSend(u) PROVE OnePlace'
  <2>1. ~chanClosed
    BY <1>0, <1>7 DEF PutSend, CloseOrder
  <2>2. /\ held' = [held EXCEPT ![u] = None] /\ open' = open
        /\ conns' = Append(conns, held[u])
        /\ held \in [Users -> Conns \cup {None}] /\ held[u] # None
    BY <1>0, <1>7, <2>1 DEF PutSend, PutEnds, TypeOK, CallerStates
  <2>3. ToSet(conns') = ToSet(conns) \cup {held[u]} /\ IsInjective(conns')
    BY <1>0, <2>2, Sent DEF TypeOK
  <2>4. None \notin open
    BY <1>0, NoneIsNoConn DEF TypeOK
  <2> QED BY <1>0, <2>2, <2>3, <2>4
<1>8. CASE CloseBegin \/ CloseSwap \/ CloseChannel \/ CloseReturn \/ NewPool
  BY <1>1, <1>8 DEF CloseBegin, CloseSwap, CloseChannel, CloseReturn, NewPool
<1>9. CASE CloseDrain
  <2>1. /\ Head(conns) \in ToSet(conns)
        /\ ToSet(conns') = ToSet(conns) \ {Head(conns)} /\ IsInjective(conns')
    BY <1>0, <1>9, Received DEF CloseDrain, TypeOK
  <2>2. open' = open \ {Head(conns)} /\ held' = held
    BY <1>9 DEF CloseDrain
  <2> QED BY <1>0, <2>1, <2>2
<1> QED BY <1>1, <1>2, <1>3, <1>4, <1>5, <1>6, <1>7, <1>8, <1>9
        DEF Next, WithConn, Close, vars

LEMMA CloseOrderStep ==
  ASSUME PoolAssumption, PoolInv, [Next]_vars PROVE CloseOrder'
<1> USE DEF CloseOrder
<1>0. TypeOK /\ LockHeld /\ CallerStates /\ CloseOrder
  BY DEF PoolInv
<1>1. CASE UNCHANGED vars
  BY <1>0, <1>1 DEF vars
<1>2. ASSUME NEW c \in Conns, DialOk(c) \/ DialErr(c) PROVE CloseOrder'
  BY <1>0, <1>2 DEF DialOk, DialErr, CallerStates
<1>3. CASE NewPool
  BY <1>0, <1>3 DEF NewPool, CallerStates
<1>4. ASSUME NEW u \in Users, Get(u) PROVE CloseOrder'
  BY <1>0, <1>4 DEF Get, TypeOK
<1>5. ASSUME NEW u \in Users, GetNil(u) \/ PutLock(u) \/ PutCheck(u) PROVE CloseOrder'
  BY <1>0, <1>5 DEF GetNil, PutLock, PutCheck, TypeOK
<1>6. ASSUME NEW u \in Users, PutClosed(u) PROVE CloseOrder'
  BY <1>0, <1>6 DEF PutClosed, PutEnds, TypeOK
<1>7. ASSUME NEW u \in Users, PutSend(u) PROVE CloseOrder'
  BY <1>0, <1>7 DEF PutSend, PutEnds, TypeOK
<1>8. CASE CloseBegin \/ CloseChannel \/ CloseReturn \/ CloseDrain
  BY <1>0, <1>8 DEF CloseBegin, CloseChannel, CloseReturn, CloseDrain
<1>9. CASE CloseSwap
  <2>1. \A u \in Users : user[u] # "send"
    BY <1>0, <1>9 DEF CloseSwap, LockHeld, PoolAssumption
  <2> QED BY <1>0, <1>9, <2>1 DEF CloseSwap, TypeOK
<1> QED BY <1>1, <1>2, <1>3, <1>4, <1>5, <1>6, <1>7, <1>8, <1>9
        DEF Next, WithConn, Close

LEMMA PoolStep == ASSUME PoolAssumption, PoolInv, [Next]_vars PROVE PoolInv'
BY TypeStep, LockStep, CallerStep, PlaceStep, CloseOrderStep DEF PoolInv

-----------------------------------------------------------------------------
(* The theorems.                                                           *)

\* An open connection is in one place, a closed one in none.
LEMMA InvAccounts == ASSUME PoolInv PROVE PoolAccounted
<1>1. TypeOK /\ OnePlace /\ CloseOrder /\ CallerStates
  BY DEF PoolInv
<1>2. ASSUME NEW c \in Conns, c \in open
      PROVE  Cardinality(Holders(c)) + (IF c \in ToSet(conns) THEN 1 ELSE 0) = 1
  <2>1. CASE c \in ToSet(conns)
    <3>1. Holders(c) = {}
      BY <1>1, <2>1 DEF OnePlace, Holders
    <3> QED BY <2>1, <3>1, FS_EmptySet
  <2>2. CASE c \notin ToSet(conns)
    <3>1. PICK u \in Users : held[u] = c
      BY <1>1, <1>2, <2>2 DEF OnePlace
    <3>2. Holders(c) = {u}
      BY <1>1, <3>1, NoneIsNoConn DEF OnePlace, Holders
    <3>3. Cardinality(Holders(c)) = 1
      BY <3>2, FS_Singleton
    <3> QED BY <2>2, <3>3
  <2> QED BY <2>1, <2>2
<1>3. ASSUME NEW c \in Conns, c \notin open
      PROVE  Holders(c) = {} /\ c \notin ToSet(conns)
  BY <1>1, <1>3, NoneIsNoConn DEF OnePlace, Holders
<1>4. ASSUME flag, closer = "idle" PROVE open \subseteq {held[u] : u \in Users}
  BY <1>1, <1>4, EmptyQueue DEF OnePlace, CloseOrder
<1>5. ~panicked /\ IsInjective(conns)
  BY <1>1 DEF OnePlace, CloseOrder
<1> QED BY <1>2, <1>3, <1>4, <1>5 DEF PoolAccounted

\* The inductive invariant of the pool.
THEOREM PoolInvariant == ASSUME PoolAssumption PROVE Spec => []PoolInv
<1>1. Init => PoolInv
  BY InitHolds
<1>2. PoolInv /\ [Next]_vars => PoolInv'
  BY PoolStep
<1> QED BY <1>1, <1>2, PTL DEF Spec

\* However many callers and Closes there are, no Put sends on the closed channel,
\* no connection is in two hands, none that is open is lost, and none is left
\* open behind a Close or a failed NewPool but those still in a caller's hands.
THEOREM PoolAccounts == ASSUME PoolAssumption PROVE Spec => []PoolAccounted
<1>1. PoolInv => PoolAccounted
  BY InvAccounts
<1> QED BY <1>1, PoolInvariant, PTL
=============================================================================
