---------------------------- MODULE SessionProofs ----------------------------
(***************************************************************************)
(* Proofs about the four parts of MCSession, for every value of their      *)
(* constants: the goroutines of one sync session have ended before the     *)
(* next is opened, and its store is closed after them; a dashboard client  *)
(* that misses a message is dropped; the pool and the chain take the steps *)
(* that RpcPoolProofs and ReorgProofs are about; and the inductive         *)
(* invariants hold side by side.                                           *)
(***************************************************************************)
EXTENDS MCSession, TLAPS

-----------------------------------------------------------------------------
(* The sync sessions.                                                      *)

USE DEF Sessions, Refs, Nil, NoSnap, Scanning, calls, fields, channels, workers, engine, servers

\* The counter is positive when a goroutine is counted, and only then.
LEMMA CountOf ==
  ASSUME NEW g
  PROVE  /\ Counted(g) \in Nat
         /\ Counted(g) = 0 <=> /\ setup[g] \in {"none", "done"} /\ ~Scanning(g)
                               /\ ticker[g] # "run" /\ watcher[g] # "run"
<1>1. ASSUME NEW b \in BOOLEAN PROVE One(b) \in 0..1 /\ (One(b) = 0 <=> ~b)
  BY <1>1 DEF One
<1>2. /\ One(setup[g] \notin {"none", "done"}) \in 0..1 /\ One(Scanning(g)) \in 0..1
      /\ One(ticker[g] = "run") \in 0..1 /\ One(watcher[g] = "run") \in 0..1
      /\ One(setup[g] \notin {"none", "done"}) = 0 <=> setup[g] \in {"none", "done"}
      /\ One(Scanning(g)) = 0 <=> ~Scanning(g)
      /\ One(ticker[g] = "run") = 0 <=> ticker[g] # "run"
      /\ One(watcher[g] = "run") = 0 <=> watcher[g] # "run"
  BY <1>1 DEF One
<1> QED BY <1>2 DEF Counted

\* Where a start or a stop goes on from the last session, no session is working.
LEMMA Quiet == ASSUME LifeInv, Settled PROVE \A g \in Sessions : ~Busy(g)
<1> SUFFICES ASSUME NEW g \in Sessions PROVE ~Busy(g)
  OBVIOUS
<1>0. opened \in 0..MaxSessions /\ MaxSessions \in Nat /\ Fresh /\ DoneOf(g)
  BY LifecycleAssumption DEF LifeInv, TypeOK, DoneLine
<1>1. CASE g <= opened
  BY <1>0, <1>1 DEF DoneOf
<1>2. CASE g > opened
  BY <1>0, <1>2 DEF Fresh, Busy
<1> QED BY <1>0, <1>1, <1>2

-----------------------------------------------------------------------------
(* The inductive invariant, part by part.                                  *)

\* Each part of the invariant is kept by every action. The types: the WaitGroup
\* counter, decremented by a goroutine that it counts, does not go negative.
LEMMA TypeStep == ASSUME LifeInv, [Next]_vars PROVE TypeOK'
<1> USE DEF TypeOK
<1>0. MaxSessions \in Nat \ {0} /\ MaxStops \in Nat /\ TypeOK /\ Fresh /\ Counts
  BY LifecycleAssumption DEF LifeInv
<1>1. CASE UNCHANGED vars
  BY <1>0, <1>1 DEF vars
<1>2. CASE StartBegin
  BY <1>0, <1>2 DEF StartBegin
<1>3. CASE StartWait
  BY <1>0, <1>3 DEF StartWait
<1>4. CASE StartOpen
  <2>1. opened + 1 \in Sessions /\ opened + 1 \in Refs
    BY <1>0, <1>4 DEF StartOpen, Fresh
  <2> QED BY <1>0, <1>4, <2>1 DEF StartOpen
<1>5. CASE StartWatch
  <2>1. \A h \in Sessions : wg[h] + 1 \in Nat
    BY <1>0
  <2>2. wg' \in [Sessions -> Nat]
    BY <1>0, <1>5, <2>1 DEF StartWatch
  <2> QED BY <1>0, <1>5, <2>2 DEF StartWatch
<1>6. CASE StopBegin
  BY <1>0, <1>6 DEF StopBegin
<1>7. CASE StopCancel
  BY <1>0, <1>7 DEF StopCancel
<1>8. CASE StopServers
  BY <1>0, <1>8 DEF StopServers
<1>9. CASE StopClose
  BY <1>0, <1>9 DEF StopClose
<1>10. CASE StopWait
  BY <1>0, <1>10 DEF StopWait
<1>11. CASE StopIndexer
  BY <1>0, <1>11 DEF StopIndexer
<1>12. ASSUME NEW g \in Sessions, SetupCancelled(g) PROVE TypeOK'
  <2>1. wg[g] = Counted(g) /\ wg[g] - 1 \in Nat
    <3>1. Counted(g) \in Nat \ {0}
      BY <1>0, <1>12, CountOf DEF SetupCancelled, SetupEnds
    <3> QED BY <1>0, <3>1 DEF Counts
  <2>2. wg' \in [Sessions -> Nat]
    BY <1>0, <1>12, <2>1 DEF SetupCancelled, SetupEnds
  <2> QED BY <1>0, <1>12, <2>2 DEF SetupCancelled, SetupEnds
<1>13. ASSUME NEW g \in Sessions, SetupHeight(g) PROVE TypeOK'
  BY <1>0, <1>13 DEF SetupHeight
<1>14. ASSUME NEW g \in Sessions, SetupNewFails(g) PROVE TypeOK'
  <2>1. wg[g] = Counted(g) /\ wg[g] - 1 \in Nat
    <3>1. Counted(g) \in Nat \ {0}
      BY <1>0, <1>14, CountOf DEF SetupNewFails, SetupEnds
    <3> QED BY <1>0, <3>1 DEF Counts
  <2>2. wg' \in [Sessions -> Nat]
    BY <1>0, <1>14, <2>1 DEF SetupNewFails, SetupEnds
  <2> QED BY <1>0, <1>14, <2>2 DEF SetupNewFails, SetupEnds
<1>15. ASSUME NEW g \in Sessions, SetupNew(g) PROVE TypeOK'
  BY <1>0, <1>15 DEF SetupNew
<1>16. ASSUME NEW g \in Sessions, SetupIndexer(g) PROVE TypeOK'
  BY <1>0, <1>16 DEF SetupIndexer
<1>17. ASSUME NEW g \in Sessions, SetupApi(g) PROVE TypeOK'
  BY <1>0, <1>17 DEF SetupApi
<1>18. ASSUME NEW g \in Sessions, SetupWs(g) PROVE TypeOK'
  BY <1>0, <1>18 DEF SetupWs
<1>19. ASSUME NEW g \in Sessions, SetupScan(g) PROVE TypeOK'
  BY <1>0, <1>19 DEF SetupScan
<1>20. ASSUME NEW g \in Sessions, SetupTicker(g) PROVE TypeOK'
  BY <1>0, <1>20 DEF SetupTicker
<1>27. ASSUME NEW g \in Sessions, ScanHangs(g) PROVE TypeOK'
  BY <1>0, <1>27 DEF ScanHangs
<1>21. ASSUME NEW g \in Sessions, ScanEnds(g) PROVE TypeOK'
  <2>1. wg[g] = Counted(g) /\ wg[g] - 1 \in Nat
    <3>1. Counted(g) \in Nat \ {0}
      BY <1>0, <1>21, CountOf DEF ScanEnds
    <3> QED BY <1>0, <3>1 DEF Counts
  <2>2. wg' \in [Sessions -> Nat]
    BY <1>0, <1>21, <2>1 DEF ScanEnds
  <2> QED BY <1>0, <1>21, <2>2 DEF ScanEnds
<1>22. ASSUME NEW g \in Sessions, TickerEnds(g) PROVE TypeOK'
  <2>1. wg[g] = Counted(g) /\ wg[g] - 1 \in Nat
    <3>1. Counted(g) \in Nat \ {0}
      BY <1>0, <1>22, CountOf DEF TickerEnds
    <3> QED BY <1>0, <3>1 DEF Counts
  <2>2. wg' \in [Sessions -> Nat]
    BY <1>0, <1>22, <2>1 DEF TickerEnds
  <2> QED BY <1>0, <1>22, <2>2 DEF TickerEnds
<1>23. ASSUME NEW g \in Sessions, WatcherEnds(g) PROVE TypeOK'
  <2>1. wg[g] = Counted(g) /\ wg[g] - 1 \in Nat
    <3>1. Counted(g) \in Nat \ {0}
      BY <1>0, <1>23, CountOf DEF WatcherEnds
    <3> QED BY <1>0, <3>1 DEF Counts
  <2>2. wg' \in [Sessions -> Nat]
    BY <1>0, <1>23, <2>1 DEF WatcherEnds
  <2> QED BY <1>0, <1>23, <2>2 DEF WatcherEnds
<1>24. ASSUME NEW g \in Sessions, WaiterEnds(g) PROVE TypeOK'
  BY <1>0, <1>24 DEF WaiterEnds
<1>25. ASSUME NEW g \in Sessions, ApiStarts(g) PROVE TypeOK'
  BY <1>0, <1>25 DEF ApiStarts
<1>26. ASSUME NEW g \in Sessions, WsStarts(g) PROVE TypeOK'
  BY <1>0, <1>26 DEF WsStarts
<1> QED BY <1>1, <1>2, <1>3, <1>4, <1>5, <1>6, <1>7, <1>8, <1>9, <1>10, <1>11,
          <1>12, <1>13, <1>14, <1>15, <1>16, <1>17, <1>18, <1>19,
          <1>20, <1>21, <1>22, <1>23, <1>24, <1>25, <1>26, <1>27
        DEF Next, StartSync, StopSync, Worker, Setup

\* What is not opened has nothing.
LEMMA FreshStep == ASSUME LifeInv, [Next]_vars PROVE Fresh'
<1> USE DEF Fresh, TypeOK
<1>0. MaxSessions \in Nat \ {0} /\ MaxStops \in Nat /\ TypeOK /\ Fresh
  BY LifecycleAssumption DEF LifeInv
<1>1. CASE UNCHANGED vars
  BY <1>0, <1>1 DEF vars
<1>2. CASE StartBegin
  BY <1>0, <1>2 DEF StartBegin
<1>3. CASE StartWait
  BY <1>0, <1>3 DEF StartWait
<1>4. CASE StartOpen
  BY <1>0, <1>4 DEF StartOpen
<1>5. CASE StartWatch
  BY <1>0, <1>5 DEF StartWatch
<1>6. CASE StopBegin
  BY <1>0, <1>6 DEF StopBegin
<1>7. CASE StopCancel
  BY <1>0, <1>7 DEF StopCancel
<1>8. CASE StopServers
  BY <1>0, <1>8 DEF StopServers
<1>9. CASE StopClose
  BY <1>0, <1>9 DEF StopClose
<1>10. CASE StopWait
  BY <1>0, <1>10 DEF StopWait
<1>11. CASE StopIndexer
  BY <1>0, <1>11 DEF StopIndexer
<1>12. ASSUME NEW g \in Sessions, SetupCancelled(g) PROVE Fresh'
  BY <1>0, <1>12 DEF SetupCancelled, SetupEnds
<1>13. ASSUME NEW g \in Sessions, SetupHeight(g) PROVE Fresh'
  BY <1>0, <1>13 DEF SetupHeight
<1>14. ASSUME NEW g \in Sessions, SetupNewFails(g) PROVE Fresh'
  BY <1>0, <1>14 DEF SetupNewFails, SetupEnds
<1>15. ASSUME NEW g \in Sessions, SetupNew(g) PROVE Fresh'
  BY <1>0, <1>15 DEF SetupNew
<1>16. ASSUME NEW g \in Sessions, SetupIndexer(g) PROVE Fresh'
  BY <1>0, <1>16 DEF SetupIndexer
<1>17. ASSUME NEW g \in Sessions, SetupApi(g) PROVE Fresh'
  BY <1>0, <1>17 DEF SetupApi
<1>18. ASSUME NEW g \in Sessions, SetupWs(g) PROVE Fresh'
  BY <1>0, <1>18 DEF SetupWs
<1>19. ASSUME NEW g \in Sessions, SetupScan(g) PROVE Fresh'
  BY <1>0, <1>19 DEF SetupScan
<1>20. ASSUME NEW g \in Sessions, SetupTicker(g) PROVE Fresh'
  BY <1>0, <1>20 DEF SetupTicker
<1>27. ASSUME NEW g \in Sessions, ScanHangs(g) PROVE Fresh'
  BY <1>0, <1>27 DEF ScanHangs
<1>21. ASSUME NEW g \in Sessions, ScanEnds(g) PROVE Fresh'
  BY <1>0, <1>21 DEF ScanEnds
<1>22. ASSUME NEW g \in Sessions, TickerEnds(g) PROVE Fresh'
  BY <1>0, <1>22 DEF TickerEnds
<1>23. ASSUME NEW g \in Sessions, WatcherEnds(g) PROVE Fresh'
  BY <1>0, <1>23 DEF WatcherEnds
<1>24. ASSUME NEW g \in Sessions, WaiterEnds(g) PROVE Fresh'
  BY <1>0, <1>24 DEF WaiterEnds
<1>25. ASSUME NEW g \in Sessions, ApiStarts(g) PROVE Fresh'
  BY <1>0, <1>25 DEF ApiStarts
<1>26. ASSUME NEW g \in Sessions, WsStarts(g) PROVE Fresh'
  BY <1>0, <1>26 DEF WsStarts
<1> QED BY <1>1, <1>2, <1>3, <1>4, <1>5, <1>6, <1>7, <1>8, <1>9, <1>10, <1>11,
          <1>12, <1>13, <1>14, <1>15, <1>16, <1>17, <1>18, <1>19,
          <1>20, <1>21, <1>22, <1>23, <1>24, <1>25, <1>26, <1>27
        DEF Next, StartSync, StopSync, Worker, Setup

\* What a goroutine may be doing follows the setup.
LEMMA StagesStep == ASSUME LifeInv, [Next]_vars PROVE Stages'
<1> USE DEF Stages, TypeOK
<1>0. MaxSessions \in Nat \ {0} /\ MaxStops \in Nat /\ TypeOK /\ Fresh /\ Stages
  BY LifecycleAssumption DEF LifeInv
<1>1. CASE UNCHANGED vars
  BY <1>0, <1>1 DEF vars
<1>2. CASE StartBegin
  BY <1>0, <1>2 DEF StartBegin
<1>3. CASE StartWait
  BY <1>0, <1>3 DEF StartWait
<1>4. CASE StartOpen
  <2>1. ASSUME NEW h \in Sessions, h # opened + 1, h <= opened + 1 PROVE h <= opened
    BY <1>0, <2>1
  <2>2. opened' = opened + 1 /\ scan' = scan /\ ticker' = ticker /\ watcher' = watcher
    BY <1>4 DEF StartOpen
  <2>3. \A h \in Sessions : setup'[h] = IF h = opened + 1 THEN "poll" ELSE setup[h]
    BY <1>0, <1>4 DEF StartOpen
  <2> QED BY <1>0, <2>1, <2>2, <2>3 DEF Fresh
<1>5. CASE StartWatch
  BY <1>0, <1>5 DEF StartWatch
<1>6. CASE StopBegin
  BY <1>0, <1>6 DEF StopBegin
<1>7. CASE StopCancel
  BY <1>0, <1>7 DEF StopCancel
<1>8. CASE StopServers
  BY <1>0, <1>8 DEF StopServers
<1>9. CASE StopClose
  BY <1>0, <1>9 DEF StopClose
<1>10. CASE StopWait
  BY <1>0, <1>10 DEF StopWait
<1>11. CASE StopIndexer
  BY <1>0, <1>11 DEF StopIndexer
<1>12. ASSUME NEW g \in Sessions, SetupCancelled(g) PROVE Stages'
  BY <1>0, <1>12 DEF SetupCancelled, SetupEnds
<1>13. ASSUME NEW g \in Sessions, SetupHeight(g) PROVE Stages'
  BY <1>0, <1>13 DEF SetupHeight
<1>14. ASSUME NEW g \in Sessions, SetupNewFails(g) PROVE Stages'
  BY <1>0, <1>14 DEF SetupNewFails, SetupEnds
<1>15. ASSUME NEW g \in Sessions, SetupNew(g) PROVE Stages'
  BY <1>0, <1>15 DEF SetupNew
<1>16. ASSUME NEW g \in Sessions, SetupIndexer(g) PROVE Stages'
  BY <1>0, <1>16 DEF SetupIndexer
<1>17. ASSUME NEW g \in Sessions, SetupApi(g) PROVE Stages'
  BY <1>0, <1>17 DEF SetupApi
<1>18. ASSUME NEW g \in Sessions, SetupWs(g) PROVE Stages'
  BY <1>0, <1>18 DEF SetupWs
<1>19. ASSUME NEW g \in Sessions, SetupScan(g) PROVE Stages'
  BY <1>0, <1>19 DEF SetupScan
<1>20. ASSUME NEW g \in Sessions, SetupTicker(g) PROVE Stages'
  BY <1>0, <1>20 DEF SetupTicker
<1>27. ASSUME NEW g \in Sessions, ScanHangs(g) PROVE Stages'
  BY <1>0, <1>27 DEF ScanHangs
<1>21. ASSUME NEW g \in Sessions, ScanEnds(g) PROVE Stages'
  BY <1>0, <1>21 DEF ScanEnds
<1>22. ASSUME NEW g \in Sessions, TickerEnds(g) PROVE Stages'
  BY <1>0, <1>22 DEF TickerEnds
<1>23. ASSUME NEW g \in Sessions, WatcherEnds(g) PROVE Stages'
  BY <1>0, <1>23 DEF WatcherEnds
<1>24. ASSUME NEW g \in Sessions, WaiterEnds(g) PROVE Stages'
  BY <1>0, <1>24 DEF WaiterEnds
<1>25. ASSUME NEW g \in Sessions, ApiStarts(g) PROVE Stages'
  BY <1>0, <1>25 DEF ApiStarts
<1>26. ASSUME NEW g \in Sessions, WsStarts(g) PROVE Stages'
  BY <1>0, <1>26 DEF WsStarts
<1> QED BY <1>1, <1>2, <1>3, <1>4, <1>5, <1>6, <1>7, <1>8, <1>9, <1>10, <1>11,
          <1>12, <1>13, <1>14, <1>15, <1>16, <1>17, <1>18, <1>19,
          <1>20, <1>21, <1>22, <1>23, <1>24, <1>25, <1>26, <1>27
        DEF Next, StartSync, StopSync, Worker, Setup

\* The counter is the number of goroutines counted.
LEMMA CountsStep == ASSUME LifeInv, [Next]_vars PROVE Counts'
<1> USE DEF Counts, Counted, One
<1>0. /\ MaxSessions \in Nat \ {0} /\ opened \in 0..MaxSessions
      /\ wg \in [Sessions -> Nat]
      /\ setup \in [Sessions -> {"none", "poll", "new", "indexer", "api", "ws",
                                 "scan", "ticker", "done"}]
      /\ scan \in [Sessions -> {"none", "run", "hung", "done"}]
      /\ ticker \in [Sessions -> {"none", "run", "done"}]
      /\ watcher \in [Sessions -> {"none", "run", "done"}]
      /\ Fresh /\ Stages /\ Counts
  BY LifecycleAssumption DEF LifeInv, TypeOK
<1>1. CASE UNCHANGED vars
  BY <1>0, <1>1 DEF vars
<1>2. CASE StartBegin
  BY <1>0, <1>2 DEF StartBegin
<1>3. CASE StartWait
  BY <1>0, <1>3 DEF StartWait
<1>4. CASE StartOpen
  <2>1. ASSUME NEW h \in Sessions, h # opened + 1 PROVE wg'[h] = Counted(h)'
    BY <1>0, <1>4, <2>1 DEF StartOpen
  <2>2. ASSUME NEW h \in Sessions, h = opened + 1 PROVE wg'[h] = Counted(h)'
    BY <1>0, <1>4, <2>2 DEF StartOpen, Fresh
  <2> QED BY <2>1, <2>2
<1>5. CASE StartWatch
  <2>1. ASSUME NEW h \in Sessions, h # opened PROVE wg'[h] = Counted(h)'
    BY <1>0, <1>5, <2>1 DEF StartWatch
  <2>2. ASSUME NEW h \in Sessions, h = opened PROVE wg'[h] = Counted(h)'
    BY <1>0, <1>5, <2>2 DEF StartWatch, Stages
  <2> QED BY <2>1, <2>2
<1>6. CASE StopBegin
  BY <1>0, <1>6 DEF StopBegin
<1>7. CASE StopCancel
  BY <1>0, <1>7 DEF StopCancel
<1>8. CASE StopServers
  BY <1>0, <1>8 DEF StopServers
<1>9. CASE StopClose
  BY <1>0, <1>9 DEF StopClose
<1>10. CASE StopWait
  BY <1>0, <1>10 DEF StopWait
<1>11. CASE StopIndexer
  BY <1>0, <1>11 DEF StopIndexer
<1>12. ASSUME NEW g \in Sessions, SetupCancelled(g) PROVE Counts'
  <2>1. ASSUME NEW h \in Sessions, h # g PROVE wg'[h] = Counted(h)'
    BY <1>0, <1>12, <2>1 DEF SetupCancelled, SetupEnds
  <2>2. wg[g] = Counted(g) /\ wg[g] \in Nat /\ wg'[g] = wg[g] - 1
    BY <1>0, <1>12 DEF SetupCancelled, SetupEnds
  <2>3. Counted(g)' = Counted(g) - 1
    BY <1>0, <1>12 DEF SetupCancelled, SetupEnds
  <2> QED BY <2>1, <2>2, <2>3
<1>13. ASSUME NEW g \in Sessions, SetupHeight(g) PROVE Counts'
  BY <1>0, <1>13 DEF SetupHeight
<1>14. ASSUME NEW g \in Sessions, SetupNewFails(g) PROVE Counts'
  <2>1. ASSUME NEW h \in Sessions, h # g PROVE wg'[h] = Counted(h)'
    BY <1>0, <1>14, <2>1 DEF SetupNewFails, SetupEnds
  <2>2. wg[g] = Counted(g) /\ wg[g] \in Nat /\ wg'[g] = wg[g] - 1
    BY <1>0, <1>14 DEF SetupNewFails, SetupEnds
  <2>3. Counted(g)' = Counted(g) - 1
    BY <1>0, <1>14 DEF SetupNewFails, SetupEnds
  <2> QED BY <2>1, <2>2, <2>3
<1>15. ASSUME NEW g \in Sessions, SetupNew(g) PROVE Counts'
  BY <1>0, <1>15 DEF SetupNew
<1>16. ASSUME NEW g \in Sessions, SetupIndexer(g) PROVE Counts'
  BY <1>0, <1>16 DEF SetupIndexer
<1>17. ASSUME NEW g \in Sessions, SetupApi(g) PROVE Counts'
  BY <1>0, <1>17 DEF SetupApi
<1>18. ASSUME NEW g \in Sessions, SetupWs(g) PROVE Counts'
  BY <1>0, <1>18 DEF SetupWs
<1>19. ASSUME NEW g \in Sessions, SetupScan(g) PROVE Counts'
  <2>1. ASSUME NEW h \in Sessions, h # g PROVE wg'[h] = Counted(h)'
    BY <1>0, <1>19, <2>1 DEF SetupScan
  <2>2. wg[g] = Counted(g) /\ wg[g] \in Nat /\ wg'[g] = wg[g] + 1
    BY <1>0, <1>19 DEF SetupScan
  <2>3. scan[g] = "none" /\ ticker[g] # "run" /\ setup[g] = "scan"
    BY <1>0, <1>19 DEF SetupScan, Stages
  <2>4. /\ scan'[g] = "run" /\ ticker'[g] = ticker[g] /\ setup'[g] = "ticker"
        /\ watcher' = watcher
    BY <1>0, <1>19 DEF SetupScan
  <2>5. Counted(g)' = Counted(g) + 1
    BY <2>3, <2>4
  <2> QED BY <2>1, <2>2, <2>5
<1>20. ASSUME NEW g \in Sessions, SetupTicker(g) PROVE Counts'
  <2>1. ASSUME NEW h \in Sessions, h # g PROVE wg'[h] = Counted(h)'
    BY <1>0, <1>20, <2>1 DEF SetupTicker
  <2>2. wg[g] = Counted(g) /\ wg'[g] = wg[g]
    BY <1>0, <1>20 DEF SetupTicker
  <2>3. scan'[g] = scan[g] /\ ticker[g] = "none" /\ setup[g] = "ticker"
    BY <1>0, <1>20 DEF SetupTicker, Stages
  <2>4. ticker'[g] = "run" /\ setup'[g] = "done" /\ watcher' = watcher
    BY <1>0, <1>20 DEF SetupTicker
  <2>5. Counted(g)' = Counted(g)
    BY <2>3, <2>4
  <2> QED BY <2>1, <2>2, <2>5
<1>27. ASSUME NEW g \in Sessions, ScanHangs(g) PROVE Counts'
  BY <1>0, <1>27 DEF ScanHangs
<1>21. ASSUME NEW g \in Sessions, ScanEnds(g) PROVE Counts'
  <2>1. ASSUME NEW h \in Sessions, h # g PROVE wg'[h] = Counted(h)'
    BY <1>0, <1>21, <2>1 DEF ScanEnds
  <2>2. wg[g] = Counted(g) /\ wg[g] \in Nat /\ wg'[g] = wg[g] - 1
    BY <1>0, <1>21 DEF ScanEnds
  <2>3. Counted(g)' = Counted(g) - 1
    BY <1>0, <1>21 DEF ScanEnds
  <2> QED BY <2>1, <2>2, <2>3
<1>22. ASSUME NEW g \in Sessions, TickerEnds(g) PROVE Counts'
  <2>1. ASSUME NEW h \in Sessions, h # g PROVE wg'[h] = Counted(h)'
    BY <1>0, <1>22, <2>1 DEF TickerEnds
  <2>2. wg[g] = Counted(g) /\ wg[g] \in Nat /\ wg'[g] = wg[g] - 1
    BY <1>0, <1>22 DEF TickerEnds
  <2>3. Counted(g)' = Counted(g) - 1
    BY <1>0, <1>22 DEF TickerEnds
  <2> QED BY <2>1, <2>2, <2>3
<1>23. ASSUME NEW g \in Sessions, WatcherEnds(g) PROVE Counts'
  <2>1. ASSUME NEW h \in Sessions, h # g PROVE wg'[h] = Counted(h)'
    BY <1>0, <1>23, <2>1 DEF WatcherEnds
  <2>2. wg[g] = Counted(g) /\ wg[g] \in Nat /\ wg'[g] = wg[g] - 1
    BY <1>0, <1>23 DEF WatcherEnds
  <2>3. Counted(g)' = Counted(g) - 1
    BY <1>0, <1>23 DEF WatcherEnds
  <2> QED BY <2>1, <2>2, <2>3
<1>24. ASSUME NEW g \in Sessions, WaiterEnds(g) PROVE Counts'
  BY <1>0, <1>24 DEF WaiterEnds
<1>25. ASSUME NEW g \in Sessions, ApiStarts(g) PROVE Counts'
  BY <1>0, <1>25 DEF ApiStarts
<1>26. ASSUME NEW g \in Sessions, WsStarts(g) PROVE Counts'
  BY <1>0, <1>26 DEF WsStarts
<1> QED BY <1>1, <1>2, <1>3, <1>4, <1>5, <1>6, <1>7, <1>8, <1>9, <1>10, <1>11,
          <1>12, <1>13, <1>14, <1>15, <1>16, <1>17, <1>18, <1>19,
          <1>20, <1>21, <1>22, <1>23, <1>24, <1>25, <1>26, <1>27
        DEF Next, StartSync, StopSync, Worker, Setup

\* A session is done when its goroutines have ended.
LEMMA DoneStep == ASSUME LifeInv, [Next]_vars PROVE DoneLine'
<1> USE DEF DoneLine, DoneOf, Busy, Settled, Stopping, TypeOK
<1>0. MaxSessions \in Nat \ {0} /\ MaxStops \in Nat /\ TypeOK /\ Fresh
      /\ Stages /\ Counts /\ DoneLine
  BY LifecycleAssumption DEF LifeInv
<1>1. CASE UNCHANGED vars
  BY <1>0, <1>1 DEF vars
<1>2. CASE StartBegin
  <2>1. /\ call = "free" /\ opened' = opened /\ syncCancel' = syncCancel
        /\ doneClosed' = doneClosed /\ store' = store /\ setup' = setup
        /\ scan' = scan /\ ticker' = ticker /\ syncDone = opened
        /\ syncCancel # Nil => syncDone # Nil
    BY <1>0, <1>2 DEF StartBegin, Fresh
  <2>2. call' \in {"start.wait", "start.open"} /\ (call' = "start.open" => syncCancel = Nil)
    BY <1>0, <1>2, <2>1 DEF StartBegin
  <2> QED BY <1>0, <2>1, <2>2
<1>3. CASE StartWait
  <2>1. opened # 0 => doneClosed[opened]
    BY <1>0, <1>3 DEF StartWait, Fresh
  <2> QED BY <1>0, <1>3, <2>1 DEF StartWait
<1>4. CASE StartOpen
  <2>1. ASSUME NEW h \in Sessions, h <= opened PROVE DoneOf(h)'
    BY <1>0, <1>4, <2>1 DEF StartOpen
  <2>2. ASSUME NEW h \in Sessions, h > opened PROVE DoneOf(h)'
    BY <1>0, <1>4, <2>2 DEF StartOpen, Fresh
  <2>3. call' = "start.watch" /\ opened' # 0 /\ syncCancel' = opened'
    BY <1>0, <1>4 DEF StartOpen
  <2> QED BY <1>0, <2>1, <2>2, <2>3
<1>5. CASE StartWatch
  BY <1>0, <1>5 DEF StartWatch
<1>6. CASE StopBegin
  <2>1. syncCancel' = Nil /\ snap'.done = syncDone /\ syncDone = opened /\ opened' = opened
    BY <1>0, <1>6 DEF StopBegin, Fresh
  <2> QED BY <1>0, <1>6, <2>1 DEF StopBegin
<1>7. CASE StopCancel
  BY <1>0, <1>7 DEF StopCancel
<1>8. CASE StopServers
  BY <1>0, <1>8 DEF StopServers
<1>9. CASE StopClose
  BY <1>0, <1>9 DEF StopClose
<1>10. CASE StopWait
  BY <1>0, <1>10 DEF StopWait
<1>11. CASE StopIndexer
  <2>1. ASSUME NEW h \in Sessions, h <= opened PROVE DoneOf(h)'
    BY <1>0, <1>11, <2>1 DEF StopIndexer
  <2>2. ASSUME NEW h \in Sessions, h > opened PROVE DoneOf(h)'
    BY <1>0, <1>11, <2>2 DEF StopIndexer, Fresh
  <2> QED BY <1>0, <1>11, <2>1, <2>2 DEF StopIndexer
<1>12. ASSUME NEW g \in Sessions, SetupCancelled(g) PROVE DoneLine'
  <2>1. ASSUME NEW h \in Sessions, h # g PROVE DoneOf(h)'
    BY <1>0, <1>12, <2>1 DEF SetupCancelled, SetupEnds
  <2>2. DoneOf(g)'
    BY <1>0, <1>12 DEF SetupCancelled, SetupEnds
  <2> QED BY <1>0, <1>12, <2>1, <2>2 DEF SetupCancelled, SetupEnds
<1>13. ASSUME NEW g \in Sessions, SetupHeight(g) PROVE DoneLine'
  <2>1. ASSUME NEW h \in Sessions, h # g PROVE DoneOf(h)'
    BY <1>0, <1>13, <2>1 DEF SetupHeight
  <2>2. DoneOf(g)'
    BY <1>0, <1>13 DEF SetupHeight
  <2> QED BY <1>0, <1>13, <2>1, <2>2 DEF SetupHeight
<1>14. ASSUME NEW g \in Sessions, SetupNewFails(g) PROVE DoneLine'
  <2>1. ASSUME NEW h \in Sessions, h # g PROVE DoneOf(h)'
    BY <1>0, <1>14, <2>1 DEF SetupNewFails, SetupEnds
  <2>2. DoneOf(g)'
    BY <1>0, <1>14 DEF SetupNewFails, SetupEnds
  <2> QED BY <1>0, <1>14, <2>1, <2>2 DEF SetupNewFails, SetupEnds
<1>15. ASSUME NEW g \in Sessions, SetupNew(g) PROVE DoneLine'
  <2>1. ASSUME NEW h \in Sessions, h # g PROVE DoneOf(h)'
    BY <1>0, <1>15, <2>1 DEF SetupNew
  <2>2. DoneOf(g)'
    BY <1>0, <1>15 DEF SetupNew
  <2> QED BY <1>0, <1>15, <2>1, <2>2 DEF SetupNew
<1>16. ASSUME NEW g \in Sessions, SetupIndexer(g) PROVE DoneLine'
  <2>1. ASSUME NEW h \in Sessions, h # g PROVE DoneOf(h)'
    BY <1>0, <1>16, <2>1 DEF SetupIndexer
  <2>2. DoneOf(g)'
    BY <1>0, <1>16 DEF SetupIndexer
  <2> QED BY <1>0, <1>16, <2>1, <2>2 DEF SetupIndexer
<1>17. ASSUME NEW g \in Sessions, SetupApi(g) PROVE DoneLine'
  <2>1. ASSUME NEW h \in Sessions, h # g PROVE DoneOf(h)'
    BY <1>0, <1>17, <2>1 DEF SetupApi
  <2>2. DoneOf(g)'
    BY <1>0, <1>17 DEF SetupApi
  <2> QED BY <1>0, <1>17, <2>1, <2>2 DEF SetupApi
<1>18. ASSUME NEW g \in Sessions, SetupWs(g) PROVE DoneLine'
  <2>1. ASSUME NEW h \in Sessions, h # g PROVE DoneOf(h)'
    BY <1>0, <1>18, <2>1 DEF SetupWs
  <2>2. DoneOf(g)'
    BY <1>0, <1>18 DEF SetupWs
  <2> QED BY <1>0, <1>18, <2>1, <2>2 DEF SetupWs
<1>19. ASSUME NEW g \in Sessions, SetupScan(g) PROVE DoneLine'
  <2>1. ASSUME NEW h \in Sessions, h # g PROVE DoneOf(h)'
    BY <1>0, <1>19, <2>1 DEF SetupScan
  <2>2. DoneOf(g)'
    BY <1>0, <1>19 DEF SetupScan
  <2> QED BY <1>0, <1>19, <2>1, <2>2 DEF SetupScan
<1>20. ASSUME NEW g \in Sessions, SetupTicker(g) PROVE DoneLine'
  <2>1. ASSUME NEW h \in Sessions, h # g PROVE DoneOf(h)'
    BY <1>0, <1>20, <2>1 DEF SetupTicker
  <2>2. DoneOf(g)'
    BY <1>0, <1>20 DEF SetupTicker
  <2> QED BY <1>0, <1>20, <2>1, <2>2 DEF SetupTicker
<1>27. ASSUME NEW g \in Sessions, ScanHangs(g) PROVE DoneLine'
  BY <1>0, <1>27 DEF ScanHangs
<1>21. ASSUME NEW g \in Sessions, ScanEnds(g) PROVE DoneLine'
  <2>1. ASSUME NEW h \in Sessions, h # g PROVE DoneOf(h)'
    BY <1>0, <1>21, <2>1 DEF ScanEnds
  <2>2. DoneOf(g)'
    BY <1>0, <1>21 DEF ScanEnds
  <2> QED BY <1>0, <1>21, <2>1, <2>2 DEF ScanEnds
<1>22. ASSUME NEW g \in Sessions, TickerEnds(g) PROVE DoneLine'
  <2>1. ASSUME NEW h \in Sessions, h # g PROVE DoneOf(h)'
    BY <1>0, <1>22, <2>1 DEF TickerEnds
  <2>2. DoneOf(g)'
    BY <1>0, <1>22 DEF TickerEnds
  <2> QED BY <1>0, <1>22, <2>1, <2>2 DEF TickerEnds
<1>23. ASSUME NEW g \in Sessions, WatcherEnds(g) PROVE DoneLine'
  <2>1. ASSUME NEW h \in Sessions, h # g PROVE DoneOf(h)'
    BY <1>0, <1>23, <2>1 DEF WatcherEnds
  <2>2. DoneOf(g)'
    BY <1>0, <1>23 DEF WatcherEnds
  <2> QED BY <1>0, <1>23, <2>1, <2>2 DEF WatcherEnds
<1>24. ASSUME NEW g \in Sessions, WaiterEnds(g) PROVE DoneLine'
  <2>1. ASSUME NEW h \in Sessions, h # g PROVE DoneOf(h)'
    BY <1>0, <1>24, <2>1 DEF WaiterEnds
  <2>2. ~Busy(g)
    BY <1>0, <1>24, CountOf DEF WaiterEnds, Counts
  <2>3. Busy(g)' = Busy(g) /\ doneClosed'[g]
    BY <1>0, <1>24 DEF WaiterEnds
  <2> QED BY <1>0, <1>24, <2>1, <2>2, <2>3 DEF WaiterEnds
<1>25. ASSUME NEW g \in Sessions, ApiStarts(g) PROVE DoneLine'
  <2>1. ASSUME NEW h \in Sessions, h # g PROVE DoneOf(h)'
    BY <1>0, <1>25, <2>1 DEF ApiStarts
  <2>2. DoneOf(g)'
    BY <1>0, <1>25 DEF ApiStarts
  <2> QED BY <1>0, <1>25, <2>1, <2>2 DEF ApiStarts
<1>26. ASSUME NEW g \in Sessions, WsStarts(g) PROVE DoneLine'
  <2>1. ASSUME NEW h \in Sessions, h # g PROVE DoneOf(h)'
    BY <1>0, <1>26, <2>1 DEF WsStarts
  <2>2. DoneOf(g)'
    BY <1>0, <1>26 DEF WsStarts
  <2> QED BY <1>0, <1>26, <2>1, <2>2 DEF WsStarts
<1> QED BY <1>1, <1>2, <1>3, <1>4, <1>5, <1>6, <1>7, <1>8, <1>9, <1>10, <1>11,
          <1>12, <1>13, <1>14, <1>15, <1>16, <1>17, <1>18, <1>19,
          <1>20, <1>21, <1>22, <1>23, <1>24, <1>25, <1>26, <1>27
        DEF Next, StartSync, StopSync, Worker, Setup

\* At most one store is open, and the field refers to its indexer.
LEMMA StoreStep == ASSUME LifeInv, [Next]_vars PROVE StoreLine'
<1> USE DEF StoreLine, TypeOK
<1>0. MaxSessions \in Nat \ {0} /\ MaxStops \in Nat /\ TypeOK /\ Fresh
      /\ Stages /\ DoneLine /\ StoreLine
  BY LifecycleAssumption DEF LifeInv
<1>1. CASE UNCHANGED vars
  BY <1>0, <1>1 DEF vars
<1>2. CASE StartBegin
  BY <1>0, <1>2 DEF StartBegin
<1>3. CASE StartWait
  BY <1>0, <1>3 DEF StartWait
<1>4. CASE StartOpen
  <2>1. ASSUME NEW g \in Sessions
        PROVE  /\ store[g] = "open" => indexer = g \/ setup'[g] = "indexer"
               /\ setup'[g] = "indexer" => store[g] = "open"
    <3>1. CASE g = opened + 1
      BY <1>0, <1>4, <3>1 DEF StartOpen, Fresh
    <3>2. CASE g # opened + 1
      BY <1>0, <1>4, <3>2 DEF StartOpen
    <3> QED BY <3>1, <3>2
  <2> QED BY <1>0, <1>4, <2>1 DEF StartOpen
<1>5. CASE StartWatch
  BY <1>0, <1>5 DEF StartWatch
<1>6. CASE StopBegin
  BY <1>0, <1>6 DEF StopBegin
<1>7. CASE StopCancel
  BY <1>0, <1>7 DEF StopCancel
<1>8. CASE StopServers
  BY <1>0, <1>8 DEF StopServers
<1>9. CASE StopClose
  BY <1>0, <1>9 DEF StopClose
<1>10. CASE StopWait
  BY <1>0, <1>10 DEF StopWait
<1>11. CASE StopIndexer
  <2>1. \A g \in Sessions : ~Busy(g)
    BY <1>11, Quiet DEF StopIndexer, Settled
  <2>2. \A g \in Sessions : store'[g] # "open" /\ setup[g] # "indexer"
    BY <1>0, <1>11, <2>1 DEF StopIndexer, Busy
  <2> QED BY <1>0, <1>11, <2>2 DEF StopIndexer
<1>12. ASSUME NEW g \in Sessions, SetupCancelled(g) PROVE StoreLine'
  BY <1>0, <1>12 DEF SetupCancelled, SetupEnds
<1>13. ASSUME NEW g \in Sessions, SetupHeight(g) PROVE StoreLine'
  BY <1>0, <1>13 DEF SetupHeight
<1>14. ASSUME NEW g \in Sessions, SetupNewFails(g) PROVE StoreLine'
  BY <1>0, <1>14 DEF SetupNewFails, SetupEnds
<1>15. ASSUME NEW g \in Sessions, SetupNew(g) PROVE StoreLine'
  BY <1>0, <1>15 DEF SetupNew
<1>16. ASSUME NEW g \in Sessions, SetupIndexer(g) PROVE StoreLine'
  BY <1>0, <1>16 DEF SetupIndexer
<1>17. ASSUME NEW g \in Sessions, SetupApi(g) PROVE StoreLine'
  BY <1>0, <1>17 DEF SetupApi
<1>18. ASSUME NEW g \in Sessions, SetupWs(g) PROVE StoreLine'
  BY <1>0, <1>18 DEF SetupWs
<1>19. ASSUME NEW g \in Sessions, SetupScan(g) PROVE StoreLine'
  BY <1>0, <1>19 DEF SetupScan
<1>20. ASSUME NEW g \in Sessions, SetupTicker(g) PROVE StoreLine'
  BY <1>0, <1>20 DEF SetupTicker
<1>27. ASSUME NEW g \in Sessions, ScanHangs(g) PROVE StoreLine'
  BY <1>0, <1>27 DEF ScanHangs
<1>21. ASSUME NEW g \in Sessions, ScanEnds(g) PROVE StoreLine'
  BY <1>0, <1>21 DEF ScanEnds
<1>22. ASSUME NEW g \in Sessions, TickerEnds(g) PROVE StoreLine'
  BY <1>0, <1>22 DEF TickerEnds
<1>23. ASSUME NEW g \in Sessions, WatcherEnds(g) PROVE StoreLine'
  BY <1>0, <1>23 DEF WatcherEnds
<1>24. ASSUME NEW g \in Sessions, WaiterEnds(g) PROVE StoreLine'
  BY <1>0, <1>24 DEF WaiterEnds
<1>25. ASSUME NEW g \in Sessions, ApiStarts(g) PROVE StoreLine'
  BY <1>0, <1>25 DEF ApiStarts
<1>26. ASSUME NEW g \in Sessions, WsStarts(g) PROVE StoreLine'
  BY <1>0, <1>26 DEF WsStarts
<1> QED BY <1>1, <1>2, <1>3, <1>4, <1>5, <1>6, <1>7, <1>8, <1>9, <1>10, <1>11,
          <1>12, <1>13, <1>14, <1>15, <1>16, <1>17, <1>18, <1>19,
          <1>20, <1>21, <1>22, <1>23, <1>24, <1>25, <1>26, <1>27
        DEF Next, StartSync, StopSync, Worker, Setup

\* No store is open after a stop.
LEMMA StopStep == ASSUME LifeInv, [Next]_vars PROVE StopClosesStore'
<1> USE DEF StopClosesStore
<1>0. MaxSessions \in Nat \ {0} /\ MaxStops \in Nat /\ TypeOK /\ Fresh
      /\ DoneLine /\ StoreLine /\ StopClosesStore
  BY LifecycleAssumption DEF LifeInv
<1>1. CASE UNCHANGED vars
  BY <1>0, <1>1 DEF vars
<1>2. CASE StartBegin
  BY <1>0, <1>2 DEF StartBegin
<1>3. CASE StartWait
  BY <1>0, <1>3 DEF StartWait
<1>4. CASE StartOpen
  BY <1>0, <1>4 DEF StartOpen
<1>5. CASE StartWatch
  <2>1. syncCancel' # Nil
    BY <1>0, <1>5 DEF StartWatch, DoneLine
  <2> QED BY <2>1
<1>6. CASE StopBegin
  BY <1>0, <1>6 DEF StopBegin
<1>7. CASE StopCancel
  BY <1>0, <1>7 DEF StopCancel
<1>8. CASE StopServers
  BY <1>0, <1>8 DEF StopServers
<1>9. CASE StopClose
  BY <1>0, <1>9 DEF StopClose
<1>10. CASE StopWait
  BY <1>0, <1>10 DEF StopWait
<1>11. CASE StopIndexer
  <2>1. \A g \in Sessions : ~Busy(g)
    BY <1>11, Quiet DEF StopIndexer, Settled
  <2>2. \A g \in Sessions : store'[g] # "open"
    BY <1>0, <1>11, <2>1 DEF StopIndexer, Busy, StoreLine, TypeOK
  <2> QED BY <2>2
<1>12. ASSUME NEW g \in Sessions, SetupCancelled(g) PROVE StopClosesStore'
  BY <1>0, <1>12 DEF SetupCancelled, SetupEnds
<1>13. ASSUME NEW g \in Sessions, SetupHeight(g) PROVE StopClosesStore'
  BY <1>0, <1>13 DEF SetupHeight
<1>14. ASSUME NEW g \in Sessions, SetupNewFails(g) PROVE StopClosesStore'
  BY <1>0, <1>14 DEF SetupNewFails, SetupEnds
<1>15. ASSUME NEW g \in Sessions, SetupNew(g) PROVE StopClosesStore'
  <2>1. Busy(g)
    BY <1>15 DEF SetupNew, Busy
  <2>2. ~Settled
    BY <2>1, Quiet
  <2> QED BY <1>15, <2>2 DEF SetupNew, Settled
<1>16. ASSUME NEW g \in Sessions, SetupIndexer(g) PROVE StopClosesStore'
  BY <1>0, <1>16 DEF SetupIndexer
<1>17. ASSUME NEW g \in Sessions, SetupApi(g) PROVE StopClosesStore'
  BY <1>0, <1>17 DEF SetupApi
<1>18. ASSUME NEW g \in Sessions, SetupWs(g) PROVE StopClosesStore'
  BY <1>0, <1>18 DEF SetupWs
<1>19. ASSUME NEW g \in Sessions, SetupScan(g) PROVE StopClosesStore'
  BY <1>0, <1>19 DEF SetupScan
<1>20. ASSUME NEW g \in Sessions, SetupTicker(g) PROVE StopClosesStore'
  BY <1>0, <1>20 DEF SetupTicker
<1>27. ASSUME NEW g \in Sessions, ScanHangs(g) PROVE StopClosesStore'
  BY <1>0, <1>27 DEF ScanHangs
<1>21. ASSUME NEW g \in Sessions, ScanEnds(g) PROVE StopClosesStore'
  BY <1>0, <1>21 DEF ScanEnds
<1>22. ASSUME NEW g \in Sessions, TickerEnds(g) PROVE StopClosesStore'
  BY <1>0, <1>22 DEF TickerEnds
<1>23. ASSUME NEW g \in Sessions, WatcherEnds(g) PROVE StopClosesStore'
  BY <1>0, <1>23 DEF WatcherEnds
<1>24. ASSUME NEW g \in Sessions, WaiterEnds(g) PROVE StopClosesStore'
  BY <1>0, <1>24 DEF WaiterEnds
<1>25. ASSUME NEW g \in Sessions, ApiStarts(g) PROVE StopClosesStore'
  BY <1>0, <1>25 DEF ApiStarts
<1>26. ASSUME NEW g \in Sessions, WsStarts(g) PROVE StopClosesStore'
  BY <1>0, <1>26 DEF WsStarts
<1> QED BY <1>1, <1>2, <1>3, <1>4, <1>5, <1>6, <1>7, <1>8, <1>9, <1>10, <1>11,
          <1>12, <1>13, <1>14, <1>15, <1>16, <1>17, <1>18, <1>19,
          <1>20, <1>21, <1>22, <1>23, <1>24, <1>25, <1>26, <1>27
        DEF Next, StartSync, StopSync, Worker, Setup

LEMMA InitLife == Init => LifeInv
<1> SUFFICES ASSUME Init PROVE LifeInv
  OBVIOUS
<1>0. MaxSessions \in Nat \ {0} /\ MaxStops \in Nat
  BY LifecycleAssumption
<1>1. TypeOK
  BY <1>0 DEF Init, TypeOK
<1>2. Fresh /\ Stages
  BY <1>0 DEF Init, Fresh, Stages
<1>3. Counts
  BY <1>0 DEF Init, Counts, Counted, One
<1>4. DoneLine
  BY <1>0 DEF Init, DoneLine, DoneOf, Busy, Settled, Stopping
<1>5. StoreLine /\ StopClosesStore
  BY <1>0 DEF Init, StoreLine, StopClosesStore
<1> QED BY <1>1, <1>2, <1>3, <1>4, <1>5 DEF LifeInv

LEMMA LifeStep == ASSUME LifeInv, [Next]_vars PROVE LifeInv'
BY TypeStep, FreshStep, StagesStep, CountsStep, DoneStep, StoreStep, StopStep DEF LifeInv

LEMMA InvLife == ASSUME LifeInv PROVE OneSession /\ StoreOutlivesWorkers
<1>0. opened \in 0..MaxSessions /\ MaxSessions \in Nat /\ Fresh
      /\ \A g \in Sessions : DoneOf(g)
  BY LifecycleAssumption DEF LifeInv, TypeOK, DoneLine
<1>1. ASSUME NEW g \in Sessions, Busy(g) PROVE g = opened
  <2>1. CASE g < opened
    BY <1>0, <1>1, <2>1 DEF DoneOf
  <2>2. CASE g > opened
    BY <1>0, <1>1, <2>2 DEF Fresh, Busy
  <2> QED BY <1>0, <2>1, <2>2
<1>2. OneSession
  BY <1>1 DEF OneSession
<1>3. StoreOutlivesWorkers
  BY <1>0 DEF StoreOutlivesWorkers, DoneOf
<1> QED BY <1>2, <1>3

-----------------------------------------------------------------------------
(* The theorems.                                                           *)

\* The inductive invariant of the sessions: the WaitGroup's counter is the number
\* of goroutines it waits for, and done is closed when they have ended.
THEOREM LifeInvariant == Spec => []LifeInv
<1>1. LifeInv /\ [Next]_vars => LifeInv'
  BY LifeStep
<1> QED BY <1>1, InitLife, PTL DEF Spec

\* However StartSync and StopSync follow one another, the goroutines of one session
\* have ended before those of the next are started.
THEOREM SessionsDoNotOverlap == Spec => []OneSession
<1>1. LifeInv => OneSession
  BY InvLife
<1> QED BY <1>1, LifeInvariant, PTL

\* No goroutine that writes to a session's store outlives the store or the close of
\* done, the late join of the health watcher included.
THEOREM StoreClosesLast == Spec => []StoreOutlivesWorkers
<1>1. LifeInv => StoreOutlivesWorkers
  BY InvLife
<1> QED BY <1>1, LifeInvariant, PTL

\* When the last call was a StopSync that has returned, every store is closed: the
\* field StopIndexer closes refers to the one that was open, if there was one.
THEOREM StopFreesStore == Spec => []StopClosesStore
<1>1. LifeInv => StopClosesStore
  BY DEF LifeInv
<1> QED BY <1>1, LifeInvariant, PTL

HIDE DEF Sessions, Refs, Nil, NoSnap, calls, fields, channels, workers, engine, servers

-----------------------------------------------------------------------------
(* The hub.                                                                *)

LEMMA HubTypes ==
  ASSUME Hub!HubAssumption, Hub!TypeOK, Hub!Next PROVE Hub!TypeOK'
<1> USE DEF Hub!TypeOK, Hub!HubAssumption, Hub!Senders, Hub!sending, Hub!pumps
<1>1. CASE Hub!LogAdd
  BY <1>1 DEF Hub!LogAdd, Hub!Logged
<1>2. ASSUME NEW c \in Clients, Hub!ServeWS(c) PROVE Hub!TypeOK'
  BY <1>2 DEF Hub!ServeWS, Hub!Logged
<1>3. ASSUME NEW c \in Clients, Hub!PeerLeaves(c) PROVE Hub!TypeOK'
  BY <1>3 DEF Hub!PeerLeaves
<1>4. ASSUME NEW c \in Clients, Hub!ReadPump(c) PROVE Hub!TypeOK'
  BY <1>4 DEF Hub!ReadPump, Hub!ReadFails, Hub!ReadRemoves, Hub!ReadEnds
<1>5. ASSUME NEW c \in Clients, Hub!WritePump(c) PROVE Hub!TypeOK'
  <2>1. CASE Hub!Write(c)
    BY <2>1 DEF Hub!Write
  <2>2. CASE Hub!PingFails(c)
    BY <2>2 DEF Hub!PingFails
  <2>3. CASE Hub!WriteRemoves(c) \/ Hub!WriteEnds(c)
    BY <2>3 DEF Hub!WriteRemoves, Hub!WriteEnds
  <2> QED BY <1>5, <2>1, <2>2, <2>3 DEF Hub!WritePump
<1>6. ASSUME NEW s \in Hub!Senders, Hub!Snapshot(s) PROVE Hub!TypeOK'
  BY <1>6 DEF Hub!Snapshot
<1>7. ASSUME NEW s \in Hub!Senders, NEW c \in Clients, Hub!Enqueue(s, c)
      PROVE  Hub!TypeOK'
  BY <1>7 DEF Hub!Enqueue
<1>8. ASSUME NEW s \in Hub!Senders, NEW c \in Clients, Hub!Full(s, c)
      PROVE  Hub!TypeOK'
  BY <1>8 DEF Hub!Full
<1>9. ASSUME NEW s \in Hub!Senders, Hub!Cleanup(s) PROVE Hub!TypeOK'
  BY <1>9 DEF Hub!Cleanup, Hub!NotSending
<1> QED BY <1>1, <1>2, <1>3, <1>4, <1>5, <1>6, <1>7, <1>8, <1>9 DEF Hub!Next, Hub!Send

LEMMA HubServed ==
  ASSUME Hub!HubAssumption, Hub!TypeOK, Hub!Served, Hub!Next PROVE Hub!Served'
<1> USE DEF Hub!TypeOK, Hub!Served, Hub!sending, Hub!pumps
<1>1. CASE Hub!LogAdd
  BY <1>1 DEF Hub!LogAdd
<1>2. ASSUME NEW c \in Clients, Hub!ServeWS(c) PROVE Hub!Served'
  BY <1>2 DEF Hub!ServeWS
<1>3. ASSUME NEW c \in Clients, Hub!PeerLeaves(c) PROVE Hub!Served'
  BY <1>3 DEF Hub!PeerLeaves
<1>4. ASSUME NEW c \in Clients, Hub!ReadPump(c) PROVE Hub!Served'
  BY <1>4 DEF Hub!ReadPump, Hub!ReadFails, Hub!ReadRemoves, Hub!ReadEnds
<1>5. ASSUME NEW c \in Clients, Hub!WritePump(c) PROVE Hub!Served'
  BY <1>5 DEF Hub!WritePump, Hub!Write, Hub!PingFails, Hub!WriteRemoves, Hub!WriteEnds
<1>6. ASSUME NEW s \in Hub!Senders, Hub!Snapshot(s) PROVE Hub!Served'
  BY <1>6 DEF Hub!Snapshot
<1>7. ASSUME NEW s \in Hub!Senders, NEW c \in Clients, Hub!Enqueue(s, c)
      PROVE  Hub!Served'
  BY <1>7 DEF Hub!Enqueue
<1>8. ASSUME NEW s \in Hub!Senders, NEW c \in Clients, Hub!Full(s, c)
      PROVE  Hub!Served'
  BY <1>8 DEF Hub!Full
<1>9. ASSUME NEW s \in Hub!Senders, Hub!Cleanup(s) PROVE Hub!Served'
  BY <1>9 DEF Hub!Cleanup, Hub!NotSending
<1> QED BY <1>1, <1>2, <1>3, <1>4, <1>5, <1>6, <1>7, <1>8, <1>9 DEF Hub!Next, Hub!Send

LEMMA HubDrops ==
  ASSUME Hub!HubAssumption, Hub!TypeOK, Hub!Served, Hub!SlowDropped, Hub!Next
  PROVE  Hub!SlowDropped'
<1> USE DEF Hub!TypeOK, Hub!SlowDropped, Hub!sending, Hub!pumps
<1>1. CASE Hub!LogAdd
  BY <1>1 DEF Hub!LogAdd
<1>2. ASSUME NEW c \in Clients, Hub!ServeWS(c) PROVE Hub!SlowDropped'
  BY <1>2 DEF Hub!ServeWS, Hub!Served
<1>3. ASSUME NEW c \in Clients, Hub!PeerLeaves(c) PROVE Hub!SlowDropped'
  BY <1>3 DEF Hub!PeerLeaves
<1>4. ASSUME NEW c \in Clients, Hub!ReadPump(c) PROVE Hub!SlowDropped'
  BY <1>4 DEF Hub!ReadPump, Hub!ReadFails, Hub!ReadRemoves, Hub!ReadEnds
<1>5. ASSUME NEW c \in Clients, Hub!WritePump(c) PROVE Hub!SlowDropped'
  BY <1>5 DEF Hub!WritePump, Hub!Write, Hub!PingFails, Hub!WriteRemoves, Hub!WriteEnds
<1>6. ASSUME NEW s \in Hub!Senders, Hub!Snapshot(s) PROVE Hub!SlowDropped'
  BY <1>6 DEF Hub!Snapshot, Hub!NotSending
<1>7. ASSUME NEW s \in Hub!Senders, NEW c \in Clients, Hub!Enqueue(s, c)
      PROVE  Hub!SlowDropped'
  BY <1>7 DEF Hub!Enqueue
<1>8. ASSUME NEW s \in Hub!Senders, NEW c \in Clients, Hub!Full(s, c)
      PROVE  Hub!SlowDropped'
  BY <1>8 DEF Hub!Full
<1>9. ASSUME NEW s \in Hub!Senders, Hub!Cleanup(s) PROVE Hub!SlowDropped'
  BY <1>9 DEF Hub!Cleanup, Hub!NotSending
<1> QED BY <1>1, <1>2, <1>3, <1>4, <1>5, <1>6, <1>7, <1>8, <1>9 DEF Hub!Next, Hub!Send

LEMMA HubInit == ASSUME Hub!HubAssumption, Hub!Init PROVE Hub!HubInv
BY DEF Hub!HubAssumption, Hub!Init, Hub!HubInv, Hub!TypeOK, Hub!Served, Hub!SlowDropped,
       Hub!NotSending

LEMMA HubStep ==
  ASSUME Hub!HubAssumption, Hub!HubInv, Hub!Next \/ UNCHANGED hubVars PROVE Hub!HubInv'
<1>1. CASE Hub!Next
  BY <1>1, HubTypes, HubServed, HubDrops DEF Hub!HubInv
<1>2. CASE UNCHANGED hubVars
  BY <1>2 DEF hubVars, Hub!HubInv, Hub!TypeOK, Hub!Served, Hub!SlowDropped
<1> QED BY <1>1, <1>2

\* A client whose buffer was full is no longer registered once the send that found it
\* full is over: no client stays that has silently missed a message.
THEOREM SlowClientsAreDropped == SessionSpec => []SlowDropped
<1>1. SessionInit => Hub!HubInv
  BY SessionAssumption, HubInit DEF SessionInit
<1>2. Hub!HubInv /\ [SessionNext]_allVars => Hub!HubInv'
  BY SessionAssumption, HubStep DEF SessionNext, allVars
<1>3. Hub!HubInv => SlowDropped
  BY DEF Hub!HubInv, SlowDropped
<1> QED BY <1>1, <1>2, <1>3, PTL DEF SessionSpec

-----------------------------------------------------------------------------
(* The pool: its proofs are about the same steps.                          *)

PoolProofs == INSTANCE RpcPoolProofs

LEMMA PoolInit == Pool!Init => PoolProofs!Init
BY DEF Pool!Init, PoolProofs!Init, Pool!Conns, PoolProofs!Conns, Pool!Free,
       PoolProofs!Free, Pool!None, PoolProofs!None

LEMMA PoolNext == [Pool!Next]_poolVars => [PoolProofs!Next]_(PoolProofs!vars)
<1>1. Pool!Next => PoolProofs!Next
  BY DEF Pool!Next, PoolProofs!Next, Pool!Free, PoolProofs!Free, Pool!None,
         PoolProofs!None, Pool!Conns, PoolProofs!Conns, Pool!channel,
         PoolProofs!channel, Pool!callers, PoolProofs!callers, Pool!closing,
         PoolProofs!closing, Pool!DialOk, PoolProofs!DialOk, Pool!DialErr,
         PoolProofs!DialErr, Pool!NewPool, PoolProofs!NewPool, Pool!Get, PoolProofs!Get,
         Pool!GetNil, PoolProofs!GetNil, Pool!PutLock, PoolProofs!PutLock, Pool!PutEnds,
         PoolProofs!PutEnds, Pool!PutClosed, PoolProofs!PutClosed, Pool!PutCheck,
         PoolProofs!PutCheck, Pool!PutSend, PoolProofs!PutSend, Pool!CloseBegin,
         PoolProofs!CloseBegin, Pool!CloseSwap, PoolProofs!CloseSwap, Pool!CloseChannel,
         PoolProofs!CloseChannel, Pool!CloseDrain, PoolProofs!CloseDrain,
         Pool!CloseReturn, PoolProofs!CloseReturn, Pool!WithConn, PoolProofs!WithConn,
         Pool!Close, PoolProofs!Close
<1>2. UNCHANGED poolVars => UNCHANGED PoolProofs!vars
  BY DEF poolVars, PoolProofs!vars, PoolProofs!channel, PoolProofs!callers, PoolProofs!closing
<1> QED BY <1>1, <1>2

LEMMA PoolMoves == SessionSpec => PoolProofs!Spec
<1>1. SessionInit => PoolProofs!Init
  BY PoolInit DEF SessionInit
<1>2. [SessionNext]_allVars => [PoolProofs!Next]_(PoolProofs!vars)
  BY PoolNext DEF SessionNext, allVars
<1> QED BY <1>1, <1>2, PTL DEF SessionSpec, PoolProofs!Spec

LEMMA PoolAssumed == PoolProofs!PoolAssumption
BY SessionAssumption DEF Pool!PoolAssumption, PoolProofs!PoolAssumption

\* No connection is lost, none is left open once the pool is closed, and none is held
\* twice, whenever Close comes between Get and Put.
THEOREM PoolIsAccounted == SessionSpec => []PoolAccounted
<1>1. PoolProofs!Spec => []PoolProofs!PoolAccounted
  BY PoolAssumed, PoolProofs!PoolAccounts
<1>2. PoolProofs!PoolAccounted => PoolAccounted
  BY DEF PoolAccounted, Pool!PoolAccounted, PoolProofs!PoolAccounted, Pool!Holders,
         PoolProofs!Holders, Pool!Conns, PoolProofs!Conns, Pool!ToSet, PoolProofs!ToSet,
         Pool!IsInjective, PoolProofs!IsInjective, Pool!Cardinality,
         PoolProofs!Cardinality
<1> QED BY <1>1, <1>2, PoolMoves, PTL

-----------------------------------------------------------------------------
(* The chain, in the same way.                                             *)

ChainProofs == INSTANCE ReorgProofs

LEMMA ChainInit == Chain!Init => ChainProofs!Init
BY DEF Chain!Init, ChainProofs!Init, Chain!Hole, ChainProofs!Hole, Chain!Idle,
       ChainProofs!Idle

LEMMA ChainNext == [Chain!Next]_chainVars => [ChainProofs!Next]_(ChainProofs!vars)
<1> USE DEF Chain!daemon, ChainProofs!daemon, Chain!fetcher, ChainProofs!fetcher,
            Chain!disk, ChainProofs!disk, Chain!Hole, ChainProofs!Hole, Chain!Idle,
            ChainProofs!Idle, Chain!At, ChainProofs!At, Chain!Heights,
            ChainProofs!Heights, Chain!Min, ChainProofs!Min, Chain!CheckReorgAt,
            ChainProofs!CheckReorgAt
<1>1. Chain!Next => ChainProofs!Next
  BY DEF Chain!Next, ChainProofs!Next, Chain!ChainGrows, ChainProofs!ChainGrows,
         Chain!ChainForks, ChainProofs!ChainForks, Chain!MonitorPoll,
         ChainProofs!MonitorPoll, Chain!Ask, ChainProofs!Ask, Chain!Answer,
         ChainProofs!Answer, Chain!AskFails, ChainProofs!AskFails, Chain!FetchSingle,
         ChainProofs!FetchSingle, Chain!Parse, ChainProofs!Parse, Chain!Send,
         ChainProofs!Send, Chain!Flush, ChainProofs!Flush, Chain!Crash,
         ChainProofs!Crash
<1>2. UNCHANGED chainVars => UNCHANGED ChainProofs!vars
  BY DEF chainVars, ChainProofs!vars
<1> QED BY <1>1, <1>2

LEMMA ChainMoves == SessionSpec => ChainProofs!Spec
<1>1. SessionInit => ChainProofs!Init
  BY ChainInit DEF SessionInit
<1>2. [SessionNext]_allVars => [ChainProofs!Next]_(ChainProofs!vars)
  BY ChainNext DEF SessionNext, allVars
<1> QED BY <1>1, <1>2, PTL DEF SessionSpec, ChainProofs!Spec

LEMMA ChainAssumed == ChainProofs!ReorgAssumption
BY SessionAssumption DEF Chain!ReorgAssumption, ChainProofs!ReorgAssumption

\* A reorganisation is seen wherever the two chains can be compared, and the fork point
\* the rollback starts from is one the store and the daemon agree on.
THEOREM ReorgsAreFollowed == SessionSpec => []ChainFollowed
<1>1. ChainProofs!Spec => []ChainProofs!ChainFollowed
  BY ChainAssumed, ChainProofs!ForksAreFound
<1>2. ChainProofs!ChainFollowed => ChainFollowed
  BY DEF ChainFollowed, Chain!ChainFollowed, ChainProofs!ChainFollowed, Chain!SplitsSeen,
         ChainProofs!SplitsSeen, Chain!ForkSound, ChainProofs!ForkSound, Chain!Split,
         ChainProofs!Split, Chain!Known, ChainProofs!Known, Chain!OnChain,
         ChainProofs!OnChain, Chain!Agrees, ChainProofs!Agrees, Chain!FindForkPoint,
         ChainProofs!FindForkPoint, Chain!Floor, ChainProofs!Floor, Chain!Max,
         ChainProofs!Max, Chain!None, ChainProofs!None, Chain!At, ChainProofs!At,
         Chain!Hole, ChainProofs!Hole, Chain!Heights, ChainProofs!Heights
<1> QED BY <1>1, <1>2, ChainMoves, PTL

-----------------------------------------------------------------------------
(* All four.                                                               *)

LEMMA PoolSame == PoolProofs!PoolInv => Pool!PoolInv
BY DEF Pool!PoolInv, PoolProofs!PoolInv, Pool!TypeOK, PoolProofs!TypeOK, Pool!LockHeld,
       PoolProofs!LockHeld, Pool!CallerStates, PoolProofs!CallerStates, Pool!OnePlace,
       PoolProofs!OnePlace, Pool!CloseOrder, PoolProofs!CloseOrder, Pool!Conns,
       PoolProofs!Conns, Pool!None, PoolProofs!None, Pool!Free, PoolProofs!Free,
       Pool!ToSet, PoolProofs!ToSet, Pool!IsInjective, PoolProofs!IsInjective

LEMMA ChainSame == ChainProofs!ReorgInv => Chain!ReorgInv
<1> USE DEF Chain!Heights, ChainProofs!Heights, Chain!Hashes, ChainProofs!Hashes,
            Chain!Block, ChainProofs!Block, Chain!Branches, ChainProofs!Branches,
            Chain!Hole, ChainProofs!Hole, Chain!Idle, ChainProofs!Idle, Chain!Last,
            ChainProofs!Last, Chain!Batch, ChainProofs!Batch, Chain!Fetched,
            ChainProofs!Fetched
<1>1. ChainProofs!TypeOK => Chain!TypeOK
  BY DEF Chain!TypeOK, ChainProofs!TypeOK
<1>2. ChainProofs!QueueLine => Chain!QueueLine
  BY DEF Chain!QueueLine, ChainProofs!QueueLine
<1>3. ChainProofs!StoredLine => Chain!StoredLine
  BY DEF Chain!StoredLine, ChainProofs!StoredLine
<1>4. ChainProofs!ComparedLine => Chain!ComparedLine
  BY DEF Chain!ComparedLine, ChainProofs!ComparedLine, Chain!ComparedIn,
         ChainProofs!ComparedIn, Chain!Compared, ChainProofs!Compared
<1>5. ChainProofs!CopyLine => Chain!CopyLine
  BY DEF Chain!CopyLine, ChainProofs!CopyLine, Chain!Linked, ChainProofs!Linked,
         Chain!CopiesIn, ChainProofs!CopiesIn, Chain!Copy, ChainProofs!Copy,
         Chain!Tip, ChainProofs!Tip
<1> QED BY <1>1, <1>2, <1>3, <1>4, <1>5 DEF Chain!ReorgInv, ChainProofs!ReorgInv

\* The inductive invariants of the four parts hold in every state, whichever moves.
THEOREM SessionInvariant == SessionSpec => []Inductive
<1>1. SessionSpec => []LifeInv
  <2>1. SessionInit => LifeInv
    BY InitLife DEF SessionInit
  <2>2. LifeInv /\ [SessionNext]_allVars => LifeInv'
    <3>1. [SessionNext]_allVars => [Next]_vars
      BY DEF SessionNext, allVars
    <3> QED BY <3>1, LifeStep
  <2> QED BY <2>1, <2>2, PTL DEF SessionSpec
<1>2. SessionSpec => []Pool!PoolInv
  <2>1. PoolProofs!Spec => []PoolProofs!PoolInv
    BY PoolAssumed, PoolProofs!PoolInvariant
  <2> QED BY <2>1, PoolMoves, PoolSame, PTL
<1>3. SessionSpec => []Chain!ReorgInv
  <2>1. ChainProofs!Spec => []ChainProofs!ReorgInv
    BY ChainAssumed, ChainProofs!ReorgInvariant
  <2> QED BY <2>1, ChainMoves, ChainSame, PTL
<1>4. SessionSpec => []Hub!HubInv
  <2>1. SessionInit => Hub!HubInv
    BY SessionAssumption, HubInit DEF SessionInit
  <2>2. Hub!HubInv /\ [SessionNext]_allVars => Hub!HubInv'
    BY SessionAssumption, HubStep DEF SessionNext, allVars
  <2> QED BY <2>1, <2>2, PTL DEF SessionSpec
<1>5. LifeInv /\ Pool!PoolInv /\ Chain!ReorgInv /\ Hub!HubInv => Inductive
  BY DEF Inductive
<1> QED BY <1>1, <1>2, <1>3, <1>4, <1>5, PTL
=============================================================================
