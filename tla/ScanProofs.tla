----------------------------- MODULE ScanProofs -----------------------------
(***************************************************************************)
(* What holds of the scan pipeline for every value of the constants: type  *)
(* correctness, group of variables by group of variables, the blocks in    *)
(* flight, the inductive invariant IInv (no IndexSingleSCID call beside    *)
(* the scan), the safety properties that follow from it, what is left of   *)
(* them with such calls, and that the pipeline implements IndexProgress.   *)
(***************************************************************************)
EXTENDS MCScanPipeline, TLAPS

USE DEF Heights, NoCall, ChanCap
USE DEF atomics, fetcher, fetchQ, processor, flushQ, flusher, store, history,
        FetcherRest, ProcessorRest, FlusherRest

-----------------------------------------------------------------------------
(* Lemmas about the helpers.                                               *)

\* The adaptive batch size stays a natural number.
LEMMA AdaptType ==
  ASSUME NEW size \in Nat, NEW pace \in {"fast", "even", "slow"}
  PROVE  NextAdaptiveBatchSize(pace, size) \in Nat
BY BatchAssumption DEF NextAdaptiveBatchSize, Smaller, Larger

\* What arrives of a span lies within it.
LEMMA ArrivalsWithin ==
  ASSUME NEW S, NEW got \in Arrivals(S) PROVE got \subseteq S
BY DEF Arrivals

\* A fetch holds blocks of the span it asked for, and gives up on the rest.
LEMMA FetchHolds ==
  ASSUME NEW first \in Nat, NEW count \in Nat, Fetch(first, count)
  PROVE  \E got \in SUBSET (first..(first + count - 1)) :
           /\ fb' = Fetched(first, count, got)
           /\ lost' = lost \cup (first..(first + count - 1) \ got)
<1>1. PICK got \in Arrivals(first..(first + count - 1)) :
        /\ fb' = Fetched(first, count, got)
        /\ lost' = lost \cup (first..(first + count - 1) \ got)
  BY DEF Fetch
<1>2. got \subseteq first..(first + count - 1)
  BY ArrivalsWithin
<1> QED BY <1>1, <1>2

\* A batch fetch asks for at least one and at most all of the heights left, the
\* speculative one for the next height.
LEMMA FetchAsks ==
  ASSUME TypeOK, FetcherBatch \/ FetcherSpecHit
  PROVE  \E count \in Nat \ {0} :
           /\ nextHeight + count <= MaxHeight /\ nextHeight' = nextHeight
           /\ Fetch(nextHeight + 1, count)
<1>1. CASE FetcherBatch
  <2> DEFINE count == Smaller(ParallelBlocks, chainHeight - nextHeight)
  <2>1. count \in Nat \ {0} /\ nextHeight + count <= MaxHeight
    BY <1>1, HeightAssumption, BatchAssumption
    DEF TypeOK, SharedTypes, FetcherTypes, FetcherBatch, Smaller
  <2>2. Fetch(nextHeight + 1, count) /\ nextHeight' = nextHeight
    BY <1>1 DEF FetcherBatch
  <2> HIDE DEF count
  <2> QED BY <2>1, <2>2
<1>2. CASE FetcherSpecHit
  BY <1>2, HeightAssumption DEF TypeOK, SharedTypes, FetcherTypes, FetcherSpecHit
<1> QED BY <1>1, <1>2

\* The scan starts at one height, at or above the reported one, with every
\* stage; what lies between is waived.
LEMMA ScanStart ==
  ASSUME TypeOK, StartScan, ~(fpc' = "done")
  PROVE  \E start \in Nat :
           /\ start >= lastIndexed /\ lastIndexed' = start
           /\ start <= chainHeight \/ start = lastIndexed
           /\ RecentBlocks = 0 => start = lastIndexed
           /\ nextHeight' = start /\ runningHeight' = start
           /\ fb' = Fetched(start + 1, 0, {}) /\ pb' = Processed(start, 0, {})
           /\ waived' = waived \cup (lastIndexed + 1)..start
           /\ fpc' = "top" /\ ppc' = "recv" /\ wpc' = "recv"
<1> DEFINE start == IF RecentBlocks > 0 THEN Larger(chainHeight - RecentBlocks, lastIndexed)
                                        ELSE lastIndexed
<1>1. /\ start \in Nat /\ start >= lastIndexed
      /\ start <= chainHeight \/ start = lastIndexed
      /\ RecentBlocks = 0 => start = lastIndexed
  BY HeightAssumption DEF TypeOK, SharedTypes, Larger
<1>2. /\ lastIndexed' = start /\ nextHeight' = start /\ runningHeight' = start
      /\ fb' = Fetched(start + 1, 0, {}) /\ pb' = Processed(start, 0, {})
      /\ waived' = waived \cup (lastIndexed + 1)..start
      /\ fpc' = "top" /\ ppc' = "recv" /\ wpc' = "recv"
  BY DEF StartScan
<1> HIDE DEF start
<1> QED BY <1>1, <1>2

\* A scan that finds the indexer closed starts no stage.
LEMMA NoScanStart ==
  ASSUME StartScan, fpc' = "done"
  PROVE  /\ ppc' = "done" /\ wpc' = "done"
         /\ UNCHANGED <<lastIndexed, nextHeight, runningHeight, fb, pb, waived>>
BY DEF StartScan

-----------------------------------------------------------------------------
(* Type correctness.                                                       *)

LEMMA InitTypes == Init => TypeOK
<1> SUFFICES ASSUME Init PROVE TypeOK
  OBVIOUS
<1>1. SharedTypes
  BY HeightAssumption, BatchAssumption DEF Init, SharedTypes
<1>2. FlagTypes
  BY Zenon DEF Init, FlagTypes
<1>3. FetcherTypes
  BY HeightAssumption DEF Init, FetcherTypes, Fetched, Fetches
<1>4. FetchQTypes /\ FlushQTypes
  BY DEF Init, FetchQTypes, FlushQTypes
<1>5. ProcessorTypes
  BY DEF Init, ProcessorTypes, EmptyBatch
<1>6. FlusherTypes
  BY DEF Init, FlusherTypes, Processed, Batches
<1>7. StoreTypes
  BY DEF Init, StoreTypes
<1> QED BY <1>1, <1>2, <1>3, <1>4, <1>5, <1>6, <1>7 DEF TypeOK

LEMMA SharedStep == ASSUME TypeOK, [Next]_vars PROVE SharedTypes'
<1>1. ASSUME UNCHANGED <<chain, chainHeight, lastIndexed, safeHeight, batchSize, adding>>
      PROVE  SharedTypes'
  BY <1>1 DEF TypeOK, SharedTypes
<1>2. CASE UNCHANGED vars \/ Stop \/ CloseStore
  BY <1>1, <1>2 DEF vars, Stop, CloseStore
<1>3. CASE Fetcher
  BY <1>1, <1>3 DEF Fetcher, FetcherExit, FetcherAtTip, FetcherBatch,
                    FetcherSpecHit, FetcherSpecMiss, FetcherSend
<1>4. CASE Processor
  BY <1>1, <1>4 DEF Processor, ProcessorBreak, ProcessorSentinel, ProcessorBlocks,
                    ProcessorSend, ProcessorSendSentinel, ProcessorClose
<1>5. CASE ChainGrows
  BY <1>5, HeightAssumption DEF ChainGrows, TypeOK, SharedTypes
<1>6. CASE MonitorPoll
  BY <1>6 DEF MonitorPoll, TypeOK, SharedTypes
<1>7. CASE StartScan
  BY <1>7, HeightAssumption DEF StartScan, TypeOK, SharedTypes, Larger
<1>8. CASE Restart
  <2>1. chain' = chain /\ chainHeight' = 0 /\ lastIndexed' = durable
        /\ safeHeight' = Larger(durable - FinalityDepth, 0)
        /\ batchSize' = BatchSize /\ adding' = NoCall
    BY <1>8 DEF Restart
  <2> QED BY <2>1, HeightAssumption, BatchAssumption
          DEF TypeOK, SharedTypes, StoreTypes, Larger
<1>9. CASE FlusherExit \/ FlusherRecv \/ FlusherDrain
  BY <1>1, <1>9 DEF FlusherExit, FlusherRecv, FlusherDrain
<1>10. ASSUME Adapt PROVE batchSize' \in Nat
  BY <1>10, AdaptType DEF Adapt, TypeOK, SharedTypes
<1>11. CASE FlusherFlush
  BY <1>11, <1>10 DEF FlusherFlush, TypeOK, SharedTypes
<1>12. CASE FlusherAdvance
  BY <1>12 DEF FlusherAdvance, TypeOK, SharedTypes, FlusherTypes, Batches
<1>13. CASE FlusherPublish
  BY <1>13, <1>10, HeightAssumption
  DEF FlusherPublish, TypeOK, SharedTypes, FlusherTypes, Batches, Larger
<1>14. CASE SingleSCIDBegin \/ SingleSCIDCommit
  BY <1>14 DEF SingleSCIDBegin, SingleSCIDCommit, TypeOK, SharedTypes
<1> QED BY <1>2, <1>3, <1>4, <1>5, <1>6, <1>7, <1>8, <1>9, <1>11, <1>12, <1>13, <1>14
        DEF Next, Flusher

LEMMA FlagStep == ASSUME TypeOK, [Next]_vars PROVE FlagTypes'
<1> USE DEF FlagTypes
<1>0. FlagTypes
  BY Zenon DEF TypeOK
<1>1. CASE UNCHANGED vars
  BY Zenon, <1>0, <1>1 DEF vars
<1>2. CASE ChainGrows \/ MonitorPoll
  BY Zenon, <1>0, <1>2 DEF ChainGrows, MonitorPoll
<1>3. CASE Stop \/ CloseStore
  BY Zenon, <1>0, <1>3 DEF Stop, CloseStore
<1>4. CASE StartScan
  BY Zenon, <1>0, <1>4 DEF StartScan
<1>5. CASE Restart
  BY Zenon, <1>5 DEF Restart
<1>6. CASE FetcherExit \/ FetcherAtTip \/ FetcherBatch
  BY Zenon, <1>0, <1>6 DEF FetcherExit, FetcherAtTip, FetcherBatch
<1>7. CASE FetcherSpecHit \/ FetcherSpecMiss \/ FetcherSend
  BY Zenon, <1>0, <1>7 DEF FetcherSpecHit, FetcherSpecMiss, FetcherSend
<1>8. CASE ProcessorBreak \/ ProcessorSentinel \/ ProcessorBlocks
  BY Zenon, <1>0, <1>8 DEF ProcessorBreak, ProcessorSentinel, ProcessorBlocks
<1>9. CASE ProcessorSend \/ ProcessorSendSentinel \/ ProcessorClose
  BY Zenon, <1>0, <1>9 DEF ProcessorSend, ProcessorSendSentinel, ProcessorClose
<1>10. CASE FlusherExit \/ FlusherRecv \/ FlusherFlush
  BY Zenon, <1>0, <1>10 DEF FlusherExit, FlusherRecv, FlusherFlush
<1>11. CASE FlusherDrain \/ FlusherAdvance \/ FlusherPublish
  BY Zenon, <1>0, <1>11 DEF FlusherDrain, FlusherAdvance, FlusherPublish
<1>12. CASE SingleSCIDBegin \/ SingleSCIDCommit
  BY Zenon, <1>0, <1>12 DEF SingleSCIDBegin, SingleSCIDCommit
<1> QED BY <1>1, <1>2, <1>3, <1>4, <1>5, <1>6, <1>7, <1>8, <1>9, <1>10, <1>11, <1>12
        DEF Next, Fetcher, Processor, Flusher

LEMMA FetcherStep == ASSUME TypeOK, [Next]_vars PROVE FetcherTypes'
<1>1. ASSUME UNCHANGED <<fpc, nextHeight, fb>> PROVE FetcherTypes'
  BY <1>1 DEF TypeOK, FetcherTypes
<1>2. CASE UNCHANGED vars \/ ChainGrows \/ MonitorPoll \/ Stop \/ CloseStore
           \/ SingleSCIDBegin \/ SingleSCIDCommit
  BY <1>1, <1>2 DEF vars, ChainGrows, MonitorPoll, Stop, CloseStore,
                    SingleSCIDBegin, SingleSCIDCommit
<1>3. CASE Processor
  BY <1>1, <1>3 DEF Processor, ProcessorBreak, ProcessorSentinel, ProcessorBlocks,
                    ProcessorSend, ProcessorSendSentinel, ProcessorClose
<1>4. CASE Flusher
  BY <1>1, <1>4 DEF Flusher, FlusherExit, FlusherRecv, FlusherFlush, FlusherDrain,
                    FlusherAdvance, FlusherPublish
<1>5. CASE StartScan
  <2>1. CASE fpc' = "done"
    BY <1>5, <2>1, NoScanStart DEF StartScan, TypeOK, FetcherTypes
  <2>2. CASE fpc' # "done"
    BY <1>5, <2>2, ScanStart DEF StartScan, TypeOK, FetcherTypes, Fetched, Fetches
  <2> QED BY <2>1, <2>2
<1>6. CASE Restart
  <2>1. fpc' = "boot" /\ nextHeight' = durable /\ fb' = Fetched(durable + 1, 0, {})
    BY <1>6 DEF Restart
  <2> QED BY <2>1 DEF TypeOK, StoreTypes, FetcherTypes, Fetched, Fetches
<1>7. CASE FetcherExit \/ FetcherAtTip \/ FetcherSpecMiss
  BY <1>7 DEF FetcherExit, FetcherAtTip, FetcherSpecMiss, TypeOK, FetcherTypes,
              Fetched, Fetches
<1>8. CASE FetcherBatch \/ FetcherSpecHit
  <2>1. PICK count \in Nat \ {0} :
          /\ nextHeight + count <= MaxHeight /\ nextHeight' = nextHeight
          /\ Fetch(nextHeight + 1, count)
    BY <1>8, FetchAsks
  <2>2. nextHeight \in Nat
    BY DEF TypeOK, FetcherTypes
  <2>3. PICK got \in SUBSET ((nextHeight + 1)..(nextHeight + 1 + count - 1)) :
          fb' = Fetched(nextHeight + 1, count, got)
    BY <2>1, <2>2, FetchHolds
  <2>4. got \subseteq Heights
    BY <2>1, <2>2, <2>3, HeightAssumption
  <2>5. fb' \in Fetches
    BY <2>2, <2>3, <2>4 DEF Fetched, Fetches
  <2> QED BY <1>8, <2>1, <2>2, <2>5 DEF FetcherBatch, FetcherSpecHit, FetcherTypes
<1>9. CASE FetcherSend
  BY <1>9 DEF FetcherSend, TypeOK, FetcherTypes, Fetches
<1> QED BY <1>2, <1>3, <1>4, <1>5, <1>6, <1>7, <1>8, <1>9 DEF Next, Fetcher

LEMMA FetchQStep == ASSUME TypeOK, [Next]_vars PROVE FetchQTypes'
<1>1. ASSUME UNCHANGED fetchChan PROVE FetchQTypes'
  BY <1>1 DEF TypeOK, FetchQTypes
<1>2. CASE UNCHANGED vars \/ ChainGrows \/ MonitorPoll \/ StartScan \/ Stop \/ CloseStore
           \/ SingleSCIDBegin \/ SingleSCIDCommit
  BY <1>1, <1>2 DEF vars, ChainGrows, MonitorPoll, StartScan, Stop, CloseStore,
                    SingleSCIDBegin, SingleSCIDCommit
<1>3. CASE FetcherExit \/ FetcherAtTip \/ FetcherBatch \/ FetcherSpecHit \/ FetcherSpecMiss
  BY <1>1, <1>3 DEF FetcherExit, FetcherAtTip, FetcherBatch, FetcherSpecHit, FetcherSpecMiss
<1>4. CASE Flusher
  BY <1>1, <1>4 DEF Flusher, FlusherExit, FlusherRecv, FlusherFlush, FlusherDrain,
                    FlusherAdvance, FlusherPublish
<1>5. CASE Restart
  <2>1. fetchChan' = <<>>
    BY <1>5 DEF Restart
  <2> QED BY <2>1 DEF FetchQTypes
<1>6. CASE FetcherSend
  BY <1>6 DEF FetcherSend, TypeOK, FetcherTypes, FetchQTypes
<1>7. CASE ProcessorBreak \/ ProcessorSentinel \/ ProcessorBlocks
  BY <1>7 DEF ProcessorBreak, ProcessorSentinel, ProcessorBlocks, TypeOK, FetchQTypes
<1>8. CASE ProcessorSend \/ ProcessorSendSentinel \/ ProcessorClose
  BY <1>1, <1>8 DEF ProcessorSend, ProcessorSendSentinel, ProcessorClose
<1> QED BY <1>2, <1>3, <1>4, <1>5, <1>6, <1>7, <1>8 DEF Next, Fetcher, Processor

LEMMA ProcessorStep == ASSUME TypeOK, [Next]_vars PROVE ProcessorTypes'
<1>1. ASSUME UNCHANGED <<ppc, batch, blocksInBatch, runningHeight>> PROVE ProcessorTypes'
  BY <1>1 DEF TypeOK, ProcessorTypes
<1>2. CASE UNCHANGED vars \/ ChainGrows \/ MonitorPoll \/ Stop \/ CloseStore
           \/ SingleSCIDBegin \/ SingleSCIDCommit
  BY <1>1, <1>2 DEF vars, ChainGrows, MonitorPoll, Stop, CloseStore,
                    SingleSCIDBegin, SingleSCIDCommit
<1>3. CASE Fetcher
  BY <1>1, <1>3 DEF Fetcher, FetcherExit, FetcherAtTip, FetcherBatch,
                    FetcherSpecHit, FetcherSpecMiss, FetcherSend
<1>4. CASE Flusher
  BY <1>1, <1>4 DEF Flusher, FlusherExit, FlusherRecv, FlusherFlush, FlusherDrain,
                    FlusherAdvance, FlusherPublish
<1>5. CASE StartScan
  <2>1. CASE fpc' = "done"
    BY <1>5, <2>1, NoScanStart DEF StartScan, TypeOK, ProcessorTypes
  <2>2. CASE fpc' # "done"
    BY <1>5, <2>2, ScanStart DEF StartScan, TypeOK, ProcessorTypes
  <2> QED BY <2>1, <2>2
<1>6. CASE Restart
  <2>1. ppc' = "boot" /\ batch' = EmptyBatch /\ blocksInBatch' = 0
        /\ runningHeight' = durable
    BY <1>6 DEF Restart
  <2> QED BY <2>1 DEF TypeOK, StoreTypes, ProcessorTypes, EmptyBatch
<1>7. CASE ProcessorBreak \/ ProcessorSentinel \/ ProcessorClose
  BY <1>7 DEF ProcessorBreak, ProcessorSentinel, ProcessorClose, TypeOK, ProcessorTypes
<1>8. CASE ProcessorBlocks
  <2>1. Head(fetchChan) \in Fetches
    BY <1>8 DEF ProcessorBlocks, TypeOK, FetchQTypes
  <2> QED BY <1>8, <2>1 DEF ProcessorBlocks, TypeOK, ProcessorTypes, Fetches
<1>9. CASE ProcessorSend \/ ProcessorSendSentinel
  BY <1>9 DEF ProcessorSend, ProcessorSendSentinel, TypeOK, ProcessorTypes, EmptyBatch
<1> QED BY <1>2, <1>3, <1>4, <1>5, <1>6, <1>7, <1>8, <1>9 DEF Next, Processor

LEMMA FlushQStep == ASSUME TypeOK, [Next]_vars PROVE FlushQTypes'
<1>1. ASSUME UNCHANGED flushChan PROVE FlushQTypes'
  BY <1>1 DEF TypeOK, FlushQTypes
<1>2. CASE UNCHANGED vars \/ ChainGrows \/ MonitorPoll \/ StartScan \/ Stop \/ CloseStore
           \/ SingleSCIDBegin \/ SingleSCIDCommit
  BY <1>1, <1>2 DEF vars, ChainGrows, MonitorPoll, StartScan, Stop, CloseStore,
                    SingleSCIDBegin, SingleSCIDCommit
<1>3. CASE Fetcher
  BY <1>1, <1>3 DEF Fetcher, FetcherExit, FetcherAtTip, FetcherBatch,
                    FetcherSpecHit, FetcherSpecMiss, FetcherSend
<1>4. CASE FlusherExit \/ FlusherFlush \/ FlusherDrain \/ FlusherAdvance \/ FlusherPublish
  BY <1>1, <1>4 DEF FlusherExit, FlusherFlush, FlusherDrain, FlusherAdvance, FlusherPublish
<1>5. CASE FlusherRecv
  BY <1>5 DEF FlusherRecv, TypeOK, FlushQTypes
<1>6. CASE Restart
  <2>1. flushChan' = <<>>
    BY <1>6 DEF Restart
  <2> QED BY <2>1 DEF FlushQTypes
<1>7. CASE ProcessorBreak \/ ProcessorSentinel \/ ProcessorBlocks \/ ProcessorClose
  BY <1>1, <1>7 DEF ProcessorBreak, ProcessorSentinel, ProcessorBlocks, ProcessorClose
<1>8. CASE ProcessorSend \/ ProcessorSendSentinel
  <2>1. Processed(batch.last, blocksInBatch, batch.blocks) \in Batches
        /\ Processed(runningHeight, 0, {}) \in Batches
    BY DEF TypeOK, ProcessorTypes, Processed, Batches
  <2> QED BY <1>8, <2>1 DEF ProcessorSend, ProcessorSendSentinel, TypeOK, FlushQTypes
<1> QED BY <1>2, <1>3, <1>4, <1>5, <1>6, <1>7, <1>8 DEF Next, Processor, Flusher

LEMMA FlusherStep == ASSUME TypeOK, [Next]_vars PROVE FlusherTypes'
<1>1. ASSUME UNCHANGED <<wpc, pb>> PROVE FlusherTypes'
  BY <1>1 DEF TypeOK, FlusherTypes
<1>2. CASE UNCHANGED vars \/ ChainGrows \/ MonitorPoll \/ Stop \/ CloseStore
           \/ SingleSCIDBegin \/ SingleSCIDCommit
  BY <1>1, <1>2 DEF vars, ChainGrows, MonitorPoll, Stop, CloseStore,
                    SingleSCIDBegin, SingleSCIDCommit
<1>3. CASE Fetcher
  BY <1>1, <1>3 DEF Fetcher, FetcherExit, FetcherAtTip, FetcherBatch,
                    FetcherSpecHit, FetcherSpecMiss, FetcherSend
<1>4. CASE Processor
  BY <1>1, <1>4 DEF Processor, ProcessorBreak, ProcessorSentinel, ProcessorBlocks,
                    ProcessorSend, ProcessorSendSentinel, ProcessorClose
<1>5. CASE StartScan
  <2>1. CASE fpc' = "done"
    BY <1>5, <2>1, NoScanStart DEF StartScan, TypeOK, FlusherTypes
  <2>2. CASE fpc' # "done"
    BY <1>5, <2>2, ScanStart DEF StartScan, TypeOK, FlusherTypes, Processed, Batches
  <2> QED BY <2>1, <2>2
<1>6. CASE Restart
  <2>1. wpc' = "boot" /\ pb' = Processed(durable, 0, {})
    BY <1>6 DEF Restart
  <2> QED BY <2>1 DEF TypeOK, StoreTypes, FlusherTypes, Processed, Batches
<1>7. CASE FlusherExit \/ FlusherFlush \/ FlusherDrain \/ FlusherAdvance \/ FlusherPublish
  BY <1>7 DEF FlusherExit, FlusherFlush, FlusherDrain, FlusherAdvance, FlusherPublish,
              TypeOK, FlusherTypes
<1>8. CASE FlusherRecv
  <2>1. Head(flushChan) \in Batches
    BY <1>8 DEF FlusherRecv, TypeOK, FlushQTypes
  <2> QED BY <1>8, <2>1 DEF FlusherRecv, FlusherTypes
<1> QED BY <1>2, <1>3, <1>4, <1>5, <1>6, <1>7, <1>8 DEF Next, Flusher

LEMMA StoreStep == ASSUME TypeOK, [Next]_vars PROVE StoreTypes'
<1>1. ASSUME UNCHANGED <<durable, commits, published, lost, waived, restarts>>
      PROVE  StoreTypes'
  BY <1>1 DEF TypeOK, StoreTypes
<1>2. CASE UNCHANGED vars \/ ChainGrows \/ MonitorPoll \/ Stop \/ CloseStore
           \/ SingleSCIDBegin
  BY <1>1, <1>2 DEF vars, ChainGrows, MonitorPoll, Stop, CloseStore, SingleSCIDBegin
<1>3. CASE FetcherExit \/ FetcherAtTip \/ FetcherSpecMiss \/ FetcherSend
  BY <1>1, <1>3 DEF FetcherExit, FetcherAtTip, FetcherSpecMiss, FetcherSend
<1>12. CASE FetcherBatch \/ FetcherSpecHit
  <2>1. PICK count \in Nat \ {0} : Fetch(nextHeight + 1, count)
    BY <1>12, FetchAsks
  <2>2. nextHeight \in Nat
    BY DEF TypeOK, FetcherTypes
  <2>3. PICK got :
          lost' = lost \cup ((nextHeight + 1)..(nextHeight + 1 + count - 1) \ got)
    BY <2>1, <2>2, FetchHolds
  <2>4. lost' \subseteq Int
    <3>1. (nextHeight + 1)..(nextHeight + 1 + count - 1) \subseteq Int /\ lost \subseteq Int
      BY <2>2 DEF TypeOK, StoreTypes
    <3> QED BY <2>3, <3>1
  <2>5. UNCHANGED <<durable, commits, published, waived, restarts>>
    BY <1>12 DEF FetcherBatch, FetcherSpecHit
  <2> QED BY <2>4, <2>5 DEF TypeOK, StoreTypes
<1>4. CASE Processor
  BY <1>1, <1>4 DEF Processor, ProcessorBreak, ProcessorSentinel, ProcessorBlocks,
                    ProcessorSend, ProcessorSendSentinel, ProcessorClose
<1>5. CASE StartScan
  <2>1. CASE fpc' = "done"
    BY <1>5, <2>1, NoScanStart DEF StartScan, TypeOK, StoreTypes
  <2>2. CASE fpc' # "done"
    <3>1. PICK start \in Nat : waived' = waived \cup (lastIndexed + 1)..start
      BY <1>5, <2>2, ScanStart
    <3>2. waived' \subseteq Int
      BY <3>1 DEF TypeOK, StoreTypes, SharedTypes
    <3> QED BY <1>5, <3>2 DEF StartScan, TypeOK, StoreTypes
  <2> QED BY <2>1, <2>2
<1>6. CASE Restart
  <2>1. /\ UNCHANGED <<durable, commits, published>> /\ restarts' = restarts + 1
        /\ lost' \subseteq lost /\ waived' \subseteq waived
    BY <1>6 DEF Restart
  <2> QED BY <2>1 DEF TypeOK, StoreTypes
<1>7. CASE FlusherExit \/ FlusherRecv \/ FlusherAdvance
  BY <1>1, <1>7 DEF FlusherExit, FlusherRecv, FlusherAdvance
<1>8. ASSUME FlushBatch(pb) \/ FlushError(pb)
      PROVE  /\ commits' \in [Heights -> Nat] /\ durable' \in Nat /\ lost' \subseteq Int
  <2>1. Span(pb) \subseteq Int
    BY DEF Span, TypeOK, FlusherTypes, Batches
  <2>2. lost' \subseteq Int
    BY <1>8, <2>1 DEF FlushBatch, FlushError, TypeOK, StoreTypes
  <2>3. durable' \in Nat
    BY <1>8 DEF FlushBatch, FlushError, TypeOK, StoreTypes, FlusherTypes, Batches
  <2>4. commits' \in [Heights -> Nat]
    BY <1>8 DEF FlushBatch, FlushError, TypeOK, StoreTypes
  <2> QED BY <2>2, <2>3, <2>4
<1>9. CASE FlusherFlush \/ FlusherDrain
  BY <1>8, <1>9 DEF FlusherFlush, FlusherDrain, TypeOK, StoreTypes
<1>10. CASE FlusherPublish
  BY <1>10 DEF FlusherPublish, TypeOK, StoreTypes, FlusherTypes, Batches
<1>11. CASE SingleSCIDCommit
  BY <1>11 DEF SingleSCIDCommit, TypeOK, SharedTypes, StoreTypes
<1> QED BY <1>2, <1>3, <1>4, <1>5, <1>6, <1>7, <1>9, <1>10, <1>11, <1>12
        DEF Next, Fetcher, Flusher

\* Every reachable state is well typed, and neither channel ever holds more
\* than its capacity.
THEOREM TypeCorrect == Spec => []TypeOK
<1>1. TypeOK /\ [Next]_vars => TypeOK'
  BY SharedStep, FlagStep, FetcherStep, FetchQStep, ProcessorStep, FlushQStep,
     FlusherStep, StoreStep DEF TypeOK
<1> QED BY InitTypes, <1>1, PTL DEF Spec

-----------------------------------------------------------------------------
(* That a step preserves the lines of blocks between the stages and what   *)
(* the stages hold, whatever the stored cursor does.                       *)

LEMMA FlushLineStep == ASSUME TypeOK, InFlight, Idle, [Next]_vars PROVE FlushLine'
<1>1. ASSUME UNCHANGED <<flushChan, pb, runningHeight, blocksInBatch>> PROVE FlushLine'
  BY <1>1 DEF InFlight, FlushLine
<1>2. CASE UNCHANGED vars \/ ChainGrows \/ MonitorPoll \/ Stop \/ CloseStore
           \/ SingleSCIDBegin \/ SingleSCIDCommit
  BY <1>1, <1>2 DEF vars, ChainGrows, MonitorPoll, Stop, CloseStore,
                    SingleSCIDBegin, SingleSCIDCommit
<1>3. CASE Fetcher
  BY <1>1, <1>3 DEF Fetcher, FetcherExit, FetcherAtTip, FetcherBatch,
                    FetcherSpecHit, FetcherSpecMiss, FetcherSend
<1>4. CASE FlusherExit \/ FlusherFlush \/ FlusherDrain \/ FlusherAdvance \/ FlusherPublish
  BY <1>1, <1>4 DEF FlusherExit, FlusherFlush, FlusherDrain, FlusherAdvance, FlusherPublish
<1>5. CASE ProcessorBreak \/ ProcessorSentinel \/ ProcessorClose
  BY <1>1, <1>5 DEF ProcessorBreak, ProcessorSentinel, ProcessorClose
<1>6. CASE StartScan
  <2>1. CASE fpc' = "done"
    BY <1>1, <1>6, <2>1, NoScanStart DEF StartScan
  <2>2. CASE fpc' # "done"
    <3>1. flushChan' = <<>> /\ blocksInBatch' = 0
      BY <1>6 DEF StartScan, Idle
    <3>2. PICK start \in Nat : runningHeight' = start /\ pb' = Processed(start, 0, {})
      BY <1>6, <2>2, ScanStart
    <3> QED BY <3>1, <3>2 DEF FlushLine, Processed
  <2> QED BY <2>1, <2>2
<1>7. CASE Restart
  <2>1. flushChan' = <<>> /\ blocksInBatch' = 0 /\ runningHeight' = durable
        /\ pb' = Processed(durable, 0, {})
    BY <1>7 DEF Restart
  <2> QED BY <2>1 DEF FlushLine, Processed, TypeOK, StoreTypes
<1>8. CASE ProcessorBlocks
  <2>0. Head(fetchChan) \in Fetches
    BY <1>8 DEF ProcessorBlocks, TypeOK, FetchQTypes
  <2>1. Head(fetchChan).count \in Nat
    BY <2>0 DEF Fetches
  <2>2. /\ UNCHANGED <<flushChan, pb>>
        /\ runningHeight' - blocksInBatch' = runningHeight - blocksInBatch
    BY <1>8, <2>1 DEF ProcessorBlocks, TypeOK, ProcessorTypes
  <2> QED BY <2>2 DEF InFlight, FlushLine
<1>9. ASSUME NEW b \in Batches, flushChan' = Append(flushChan, b),
             b.last = runningHeight, b.count = blocksInBatch,
             runningHeight' = runningHeight, blocksInBatch' = 0, pb' = pb
      PROVE  FlushLine'
  <2>1. flushChan \in Seq(Batches) /\ runningHeight \in Nat /\ blocksInBatch \in Nat
    BY DEF TypeOK, FlushQTypes, ProcessorTypes
  <2>2. Len(flushChan') = Len(flushChan) + 1 /\ flushChan'[Len(flushChan) + 1] = b
        /\ \A i \in 1..Len(flushChan) : flushChan'[i] = flushChan[i]
    BY <1>9, <2>1
  <2> QED BY <1>9, <2>1, <2>2 DEF InFlight, FlushLine
<1>10. CASE ProcessorSend
  <2>1. Processed(batch.last, blocksInBatch, batch.blocks) \in Batches
    BY DEF TypeOK, ProcessorTypes, Processed, Batches
  <2>2. batch.last = runningHeight
    BY <1>10 DEF ProcessorSend, InFlight, Contents
  <2> QED BY <1>9, <1>10, <2>1, <2>2 DEF ProcessorSend, Processed
<1>11. CASE ProcessorSendSentinel
  <2>1. Processed(runningHeight, 0, {}) \in Batches
    BY DEF TypeOK, ProcessorTypes, Processed, Batches
  <2>2. blocksInBatch = 0
    BY <1>11 DEF ProcessorSendSentinel, InFlight, Contents
  <2> QED BY <1>9, <1>11, <2>1, <2>2 DEF ProcessorSendSentinel, Processed
<1>12. CASE FlusherRecv
  <2>1. flushChan \in Seq(Batches) /\ flushChan # <<>>
        /\ pb' = flushChan[1] /\ flushChan' = Tail(flushChan)
    BY <1>12 DEF FlusherRecv, TypeOK, FlushQTypes
  <2>2. Len(flushChan') = Len(flushChan) - 1
        /\ \A i \in 1..Len(flushChan') : flushChan'[i] = flushChan[i + 1]
    BY <2>1
  <2>3. UNCHANGED <<runningHeight, blocksInBatch>>
    BY <1>12 DEF FlusherRecv
  <2>4. ASSUME NEW i \in 1..Len(flushChan')
        PROVE  flushChan'[i].last - flushChan'[i].count =
                 IF i = 1 THEN pb'.last ELSE flushChan'[i - 1].last
    <3>1. i + 1 \in 1..Len(flushChan) /\ i + 1 # 1 /\ (i + 1) - 1 = i
      BY <2>1, <2>2
    <3>2. flushChan[i + 1].last - flushChan[i + 1].count = flushChan[i].last
      BY <3>1 DEF InFlight, FlushLine
    <3>3. i # 1 => i - 1 \in 1..Len(flushChan') /\ (i - 1) + 1 = i
      OBVIOUS
    <3>4. flushChan[i].last = IF i = 1 THEN pb'.last ELSE flushChan'[i - 1].last
      BY <2>1, <2>2, <3>3
    <3> QED BY <2>2, <3>2, <3>4
  <2>5. runningHeight' - blocksInBatch' =
          IF flushChan' = <<>> THEN pb'.last ELSE flushChan'[Len(flushChan')].last
    <3>1. flushChan[Len(flushChan)].last = runningHeight - blocksInBatch
      BY <2>1 DEF InFlight, FlushLine
    <3>2. CASE Len(flushChan) = 1
      BY <2>1, <2>2, <2>3, <3>1, <3>2
    <3>3. CASE Len(flushChan) # 1
      <4>0. Len(flushChan) \in Nat \ {0, 1}
        BY <2>1, <3>3
      <4>1. Len(flushChan') \in 1..Len(flushChan') /\ Len(flushChan') + 1 = Len(flushChan)
            /\ flushChan' # <<>>
        BY <2>2, <4>0
      <4>2. flushChan'[Len(flushChan')] = flushChan[Len(flushChan)]
        BY <2>2, <4>1
      <4> QED BY <2>3, <3>1, <4>1, <4>2
    <3> QED BY <3>2, <3>3
  <2> QED BY <2>4, <2>5 DEF FlushLine
<1> QED BY <1>2, <1>3, <1>4, <1>5, <1>6, <1>7, <1>8, <1>10, <1>11, <1>12
        DEF Next, Processor, Flusher

LEMMA FetchLineStep == ASSUME TypeOK, InFlight, Idle, [Next]_vars PROVE FetchLine'
<1> DEFINE loop == ppc \notin {"sendFinal", "close", "done"}
<1>1. ASSUME UNCHANGED <<fetchChan, runningHeight, nextHeight>>, loop' => loop
      PROVE  FetchLine'
  BY <1>1 DEF InFlight, FetchLine
<1>2. CASE UNCHANGED vars \/ ChainGrows \/ MonitorPoll \/ Stop \/ CloseStore
           \/ SingleSCIDBegin \/ SingleSCIDCommit
  BY <1>1, <1>2 DEF vars, ChainGrows, MonitorPoll, Stop, CloseStore,
                    SingleSCIDBegin, SingleSCIDCommit
<1>3. CASE FetcherExit \/ FetcherAtTip \/ FetcherBatch \/ FetcherSpecHit \/ FetcherSpecMiss
  BY <1>1, <1>3 DEF FetcherExit, FetcherAtTip, FetcherBatch, FetcherSpecHit, FetcherSpecMiss
<1>4. CASE Flusher
  BY <1>1, <1>4 DEF Flusher, FlusherExit, FlusherRecv, FlusherFlush, FlusherDrain,
                    FlusherAdvance, FlusherPublish
<1>5. CASE ProcessorSend \/ ProcessorSendSentinel \/ ProcessorClose
  BY <1>1, <1>5 DEF ProcessorSend, ProcessorSendSentinel, ProcessorClose
<1>6. CASE ProcessorBreak
  BY <1>6 DEF ProcessorBreak, FetchLine
<1>7. CASE StartScan
  <2>1. CASE fpc' = "done"
    BY <1>7, <2>1, NoScanStart DEF FetchLine
  <2>2. CASE fpc' # "done"
    <3>1. fetchChan' = <<>>
      BY <1>7 DEF StartScan, Idle
    <3>2. PICK start \in Nat : runningHeight' = start /\ nextHeight' = start
      BY <1>7, <2>2, ScanStart
    <3> QED BY <3>1, <3>2 DEF FetchLine
  <2> QED BY <2>1, <2>2
<1>8. CASE Restart
  <2>1. fetchChan' = <<>> /\ runningHeight' = durable /\ nextHeight' = durable
    BY <1>8 DEF Restart
  <2> QED BY <2>1 DEF FetchLine
<1>9. CASE FetcherSend
  <2>1. fb.first = nextHeight + 1
    BY <1>9 DEF FetcherSend, InFlight, Contents
  <2>2. fetchChan \in Seq(Fetches) /\ fb \in Fetches /\ nextHeight \in Nat
    BY DEF TypeOK, FetchQTypes, FetcherTypes
  <2>3. fb.count \in Nat
    BY <2>2 DEF Fetches
  <2>4. Len(fetchChan') = Len(fetchChan) + 1 /\ fetchChan'[Len(fetchChan) + 1] = fb
        /\ \A i \in 1..Len(fetchChan) : fetchChan'[i] = fetchChan[i]
    BY <1>9, <2>2 DEF FetcherSend
  <2>5. nextHeight' = nextHeight + fb.count /\ UNCHANGED <<ppc, runningHeight>>
    BY <1>9 DEF FetcherSend
  <2> SUFFICES ASSUME loop PROVE FetchLine'
    BY <2>5 DEF FetchLine
  <2>6. ASSUME NEW i \in 1..Len(fetchChan')
        PROVE  fetchChan'[i].first =
                 IF i = 1 THEN runningHeight' + 1
                 ELSE fetchChan'[i - 1].first + fetchChan'[i - 1].count
    <3>1. CASE i \in 1..Len(fetchChan)
      BY <2>4, <2>5, <3>1 DEF InFlight, FetchLine
    <3>2. CASE i = Len(fetchChan) + 1
      BY <2>1, <2>2, <2>4, <2>5, <3>2 DEF InFlight, FetchLine
    <3> QED BY <2>2, <2>4, <3>1, <3>2
  <2>7. nextHeight' + 1 = fetchChan'[Len(fetchChan')].first + fetchChan'[Len(fetchChan')].count
        /\ fetchChan' # <<>>
    BY <2>1, <2>2, <2>3, <2>4, <2>5
  <2> QED BY <2>6, <2>7 DEF FetchLine
<1>10. CASE ProcessorSentinel \/ ProcessorBlocks
  <2>1. fetchChan \in Seq(Fetches) /\ fetchChan # <<>> /\ fetchChan' = Tail(fetchChan)
    BY <1>10 DEF ProcessorSentinel, ProcessorBlocks, TypeOK, FetchQTypes
  <2>2. Len(fetchChan') = Len(fetchChan) - 1
        /\ \A i \in 1..Len(fetchChan') : fetchChan'[i] = fetchChan[i + 1]
    BY <2>1
  <2>3. fetchChan[1] \in Fetches /\ Head(fetchChan) = fetchChan[1]
    BY <2>1
  <2>4. fetchChan[1].count \in Nat /\ fetchChan[1].first \in Nat /\ runningHeight \in Nat
    BY <2>3 DEF Fetches, TypeOK, ProcessorTypes
  <2>5. runningHeight' = runningHeight + fetchChan[1].count /\ nextHeight' = nextHeight
        /\ loop
    BY <1>10, <2>3, <2>4 DEF ProcessorSentinel, ProcessorBlocks
  <2>6. fetchChan[1].first = runningHeight + 1
    BY <2>1, <2>5 DEF InFlight, FetchLine
  <2>7. ASSUME NEW i \in 1..Len(fetchChan')
        PROVE  fetchChan'[i].first =
                 IF i = 1 THEN runningHeight' + 1
                 ELSE fetchChan'[i - 1].first + fetchChan'[i - 1].count
    <3>1. i + 1 \in 1..Len(fetchChan) /\ i + 1 # 1 /\ (i + 1) - 1 = i
      BY <2>1, <2>2
    <3>2. fetchChan[i + 1].first = fetchChan[i].first + fetchChan[i].count
      BY <2>5, <3>1 DEF InFlight, FetchLine
    <3>3. CASE i = 1
      <4>1. fetchChan'[1] = fetchChan[2]
        BY <2>2, <3>3
      <4>2. fetchChan[2].first = fetchChan[1].first + fetchChan[1].count
        BY <3>2, <3>3
      <4>3. runningHeight' + 1 = fetchChan[1].first + fetchChan[1].count
        BY <2>4, <2>5, <2>6
      <4> QED BY <3>3, <4>1, <4>2, <4>3
    <3>4. CASE i # 1
      <4>1. i - 1 \in 1..Len(fetchChan') /\ (i - 1) + 1 = i
        BY <3>4
      <4> QED BY <2>2, <3>2, <3>4, <4>1
    <3> QED BY <3>3, <3>4
  <2>8. nextHeight' + 1 =
          IF fetchChan' = <<>> THEN runningHeight' + 1
          ELSE fetchChan'[Len(fetchChan')].first + fetchChan'[Len(fetchChan')].count
    <3>1. nextHeight + 1 = fetchChan[Len(fetchChan)].first + fetchChan[Len(fetchChan)].count
      BY <2>1, <2>5 DEF InFlight, FetchLine
    <3>2. CASE Len(fetchChan) = 1
      <4>1. fetchChan' = <<>>
        BY <2>1, <3>2
      <4>2. nextHeight' + 1 = fetchChan[1].first + fetchChan[1].count
        BY <2>5, <3>1, <3>2
      <4> QED BY <2>4, <2>5, <2>6, <4>1, <4>2
    <3>3. CASE Len(fetchChan) # 1
      <4>0. Len(fetchChan) \in Nat \ {0, 1}
        BY <2>1, <3>3
      <4>1. Len(fetchChan') \in 1..Len(fetchChan') /\ Len(fetchChan') + 1 = Len(fetchChan)
            /\ fetchChan' # <<>>
        BY <2>2, <4>0
      <4>2. fetchChan'[Len(fetchChan')] = fetchChan[Len(fetchChan)]
        BY <2>2, <4>1
      <4> QED BY <2>5, <3>1, <4>1, <4>2
    <3> QED BY <3>2, <3>3
  <2> QED BY <2>7, <2>8 DEF FetchLine
<1> QED BY <1>2, <1>3, <1>4, <1>5, <1>6, <1>7, <1>8, <1>9, <1>10
        DEF Next, Fetcher, Processor

-----------------------------------------------------------------------------
(* Contents, split into what each stage holds.                             *)

FetcherContents ==
  /\ fpc \in {"send", "sendSentinel"} => fb.first = nextHeight + 1
  /\ Carries(fb.blocks, FetchSpan(fb))

FetchQContents ==
  \A i \in 1..Len(fetchChan) : Carries(fetchChan[i].blocks, FetchSpan(fetchChan[i]))

ProcessorContents ==
  /\ Carries(batch.blocks, (runningHeight - blocksInBatch + 1)..runningHeight)
  /\ batch.last = IF blocksInBatch > 0 THEN runningHeight ELSE 0
  /\ ppc \in {"sendFull", "sendPartial", "sendFinal"} => blocksInBatch > 0
  /\ ppc \in {"sendSentinel", "close", "done"} => blocksInBatch = 0

FlushQContents ==
  \A i \in 1..Len(flushChan) : Carries(flushChan[i].blocks, Span(flushChan[i]))

FlusherContents == Carries(pb.blocks, Span(pb))

LEMMA ContentsParts ==
  Contents <=> /\ FetcherContents /\ FetchQContents /\ ProcessorContents
               /\ FlushQContents /\ FlusherContents
BY DEF Contents, FetcherContents, FetchQContents, ProcessorContents,
       FlushQContents, FlusherContents

\* What was given up on is remembered until the process dies.
LEMMA LostGrows == ASSUME TypeOK, [Next]_vars PROVE Restart \/ lost \subseteq lost'
<1>1. CASE UNCHANGED vars \/ ChainGrows \/ MonitorPoll \/ Stop \/ CloseStore \/ StartScan
           \/ SingleSCIDBegin \/ SingleSCIDCommit
  BY <1>1 DEF vars, ChainGrows, MonitorPoll, Stop, CloseStore, StartScan,
              SingleSCIDBegin, SingleSCIDCommit
<1>2. CASE FetcherExit \/ FetcherAtTip \/ FetcherSpecMiss \/ FetcherSend
  BY <1>2 DEF FetcherExit, FetcherAtTip, FetcherSpecMiss, FetcherSend
<1>3. CASE FetcherBatch \/ FetcherSpecHit
  BY <1>3 DEF FetcherBatch, FetcherSpecHit, Fetch
<1>4. CASE Processor
  BY <1>4 DEF Processor, ProcessorBreak, ProcessorSentinel, ProcessorBlocks,
              ProcessorSend, ProcessorSendSentinel, ProcessorClose
<1>5. CASE Flusher
  BY <1>5 DEF Flusher, FlusherExit, FlusherRecv, FlusherFlush, FlusherDrain,
              FlusherAdvance, FlusherPublish, FlushBatch, FlushError
<1> QED BY <1>1, <1>2, <1>3, <1>4, <1>5 DEF Next, Fetcher

\* An emptied batch carries its empty span.
LEMMA EmptyCarries ==
  ASSUME NEW running \in Nat, NEW inBatch, inBatch = 0
  PROVE  (running - inBatch + 1)..running = {}
OBVIOUS

LEMMA FetcherContentsStep ==
  ASSUME TypeOK, FetcherContents, [Next]_vars PROVE FetcherContents'
<1> USE DEF FetcherContents
<1>0. Restart \/ lost \subseteq lost'
  BY LostGrows
<1>11. CASE Restart
  <2>1. fpc' = "boot" /\ fb' = Fetched(durable + 1, 0, {}) /\ durable \in Nat
    BY <1>11 DEF Restart, TypeOK, StoreTypes
  <2> QED BY <2>1 DEF Fetched, FetchSpan, Carries
<1>1. ASSUME UNCHANGED <<nextHeight, fb>>, fpc' = fpc \/ fpc' \notin {"send", "sendSentinel"}
      PROVE  FetcherContents'
  BY <1>0, <1>1, <1>11 DEF Carries, FetchSpan
<1>2. CASE UNCHANGED vars \/ ChainGrows \/ MonitorPoll \/ Stop \/ CloseStore
           \/ SingleSCIDBegin \/ SingleSCIDCommit
  BY <1>1, <1>2 DEF vars, ChainGrows, MonitorPoll, Stop, CloseStore,
                    SingleSCIDBegin, SingleSCIDCommit
<1>3. CASE Processor
  BY <1>1, <1>3 DEF Processor, ProcessorBreak, ProcessorSentinel, ProcessorBlocks,
                    ProcessorSend, ProcessorSendSentinel, ProcessorClose
<1>4. CASE Flusher
  BY <1>1, <1>4 DEF Flusher, FlusherExit, FlusherRecv, FlusherFlush, FlusherDrain,
                    FlusherAdvance, FlusherPublish
<1>5. CASE FetcherExit \/ FetcherSpecMiss
  BY <1>1, <1>5 DEF FetcherExit, FetcherSpecMiss
<1>6. CASE FetcherAtTip
  <2>1. UNCHANGED nextHeight /\ nextHeight \in Nat
        /\ ((UNCHANGED fb /\ fpc' = "spec") \/ fb' = Fetched(nextHeight + 1, 0, {}))
    BY <1>6 DEF FetcherAtTip, TypeOK, FetcherTypes
  <2>2. CASE fb' = Fetched(nextHeight + 1, 0, {})
    BY <2>1, <2>2 DEF Fetched, FetchSpan, Carries
  <2> QED BY <1>1, <2>1, <2>2
<1>7. CASE FetcherBatch \/ FetcherSpecHit
  <2>1. PICK count \in Nat \ {0} :
          Fetch(nextHeight + 1, count) /\ nextHeight' = nextHeight
    BY <1>7, FetchAsks
  <2>2. nextHeight \in Nat
    BY DEF TypeOK, FetcherTypes
  <2>3. PICK got \in SUBSET ((nextHeight + 1)..(nextHeight + 1 + count - 1)) :
          /\ fb' = Fetched(nextHeight + 1, count, got)
          /\ lost' = lost \cup ((nextHeight + 1)..(nextHeight + 1 + count - 1) \ got)
    BY <2>1, <2>2, FetchHolds
  <2> QED BY <2>1, <2>3 DEF Fetched, Carries, FetchSpan
<1>9. CASE FetcherSend
  BY <1>0, <1>9, <1>11 DEF FetcherSend, Carries, FetchSpan
<1>10. CASE StartScan
  <2>1. CASE fpc' = "done"
    BY <1>1, <1>10, <2>1, NoScanStart
  <2>2. CASE fpc' # "done"
    <3>1. PICK start \in Nat : fb' = Fetched(start + 1, 0, {}) /\ fpc' = "top"
      BY <1>10, <2>2, ScanStart
    <3> QED BY <3>1 DEF Fetched, FetchSpan, Carries
  <2> QED BY <2>1, <2>2
<1> QED BY <1>2, <1>3, <1>4, <1>5, <1>6, <1>7, <1>9, <1>10, <1>11 DEF Next, Fetcher

LEMMA FetchQContentsStep ==
  ASSUME TypeOK, FetcherContents, FetchQContents, [Next]_vars PROVE FetchQContents'
<1>0. Restart \/ lost \subseteq lost'
  BY LostGrows
<1>6. CASE Restart
  <2>1. fetchChan' = <<>>
    BY <1>6 DEF Restart
  <2> QED BY <2>1 DEF FetchQContents
<1>1. ASSUME UNCHANGED fetchChan PROVE FetchQContents'
  BY <1>0, <1>1, <1>6 DEF FetchQContents, Carries, FetchSpan
<1>2. CASE UNCHANGED vars \/ ChainGrows \/ MonitorPoll \/ StartScan \/ Stop \/ CloseStore
           \/ SingleSCIDBegin \/ SingleSCIDCommit
  BY <1>1, <1>2 DEF vars, ChainGrows, MonitorPoll, StartScan, Stop, CloseStore,
                    SingleSCIDBegin, SingleSCIDCommit
<1>3. CASE FetcherExit \/ FetcherAtTip \/ FetcherBatch \/ FetcherSpecHit \/ FetcherSpecMiss
  BY <1>1, <1>3 DEF FetcherExit, FetcherAtTip, FetcherBatch, FetcherSpecHit, FetcherSpecMiss
<1>4. CASE Flusher
  BY <1>1, <1>4 DEF Flusher, FlusherExit, FlusherRecv, FlusherFlush, FlusherDrain,
                    FlusherAdvance, FlusherPublish
<1>5. CASE ProcessorSend \/ ProcessorSendSentinel \/ ProcessorClose
  BY <1>1, <1>5 DEF ProcessorSend, ProcessorSendSentinel, ProcessorClose
<1>7. CASE FetcherSend
  <2>1. fetchChan \in Seq(Fetches) /\ fb \in Fetches /\ fetchChan' = Append(fetchChan, fb)
    BY <1>7 DEF FetcherSend, TypeOK, FetchQTypes, FetcherTypes
  <2>2. Len(fetchChan') = Len(fetchChan) + 1 /\ fetchChan'[Len(fetchChan) + 1] = fb
        /\ \A i \in 1..Len(fetchChan) : fetchChan'[i] = fetchChan[i]
    BY <2>1
  <2>3. CASE lost \subseteq lost'
    <3>1. ASSUME NEW i \in 1..Len(fetchChan)
          PROVE  Carries(fetchChan[i].blocks, FetchSpan(fetchChan[i]))'
      BY <2>2, <2>3, <3>1 DEF FetchQContents, Carries, FetchSpan
    <3>2. Carries(fb.blocks, FetchSpan(fb)) /\ lost \subseteq lost'
      BY <2>3 DEF FetcherContents
    <3>3. fetchChan'[Len(fetchChan')] = fb
      BY <2>2
    <3>4. Carries(fetchChan[Len(fetchChan)].blocks, FetchSpan(fetchChan[Len(fetchChan)]))'
      BY <3>2, <3>3 DEF Carries, FetchSpan
    <3>5. \A i \in 1..Len(fetchChan') : i \in 1..Len(fetchChan) \/ i = Len(fetchChan')
      BY <2>1, <2>2
    <3> QED BY <3>1, <3>4, <3>5 DEF FetchQContents
  <2> QED BY <1>0, <1>6, <2>3
<1>8. CASE ProcessorBreak \/ ProcessorSentinel \/ ProcessorBlocks
  <2>1. CASE UNCHANGED fetchChan
    BY <1>1, <2>1
  <2>2. CASE fetchChan # <<>> /\ fetchChan' = Tail(fetchChan)
    <3>1. Len(fetchChan') = Len(fetchChan) - 1
          /\ \A i \in 1..Len(fetchChan') : fetchChan'[i] = fetchChan[i + 1]
      BY <2>2 DEF TypeOK, FetchQTypes
    <3>2. CASE lost \subseteq lost'
      <4>1. ASSUME NEW i \in 1..Len(fetchChan')
            PROVE  Carries(fetchChan[i].blocks, FetchSpan(fetchChan[i]))'
        <5>1. i + 1 \in 1..Len(fetchChan) /\ fetchChan'[i] = fetchChan[i + 1]
          BY <2>2, <3>1 DEF TypeOK, FetchQTypes
        <5> QED BY <3>2, <5>1 DEF FetchQContents, Carries, FetchSpan
      <4> QED BY <4>1 DEF FetchQContents
    <3> QED BY <1>0, <1>6, <3>2
  <2> QED BY <1>8, <2>1, <2>2 DEF ProcessorBreak, ProcessorSentinel, ProcessorBlocks
<1> QED BY <1>2, <1>3, <1>4, <1>5, <1>6, <1>7, <1>8 DEF Next, Fetcher, Processor

LEMMA ProcessorContentsStep ==
  ASSUME TypeOK, InFlight, Idle, [Next]_vars PROVE ProcessorContents'
<1> USE DEF ProcessorContents
<1>0. ProcessorContents /\ FetchQContents /\ FetchLine /\ Idle
  BY ContentsParts DEF InFlight
<1>00. Restart \/ lost \subseteq lost'
  BY LostGrows
<1>6. CASE Restart
  <2>1. ppc' = "boot" /\ batch' = EmptyBatch /\ blocksInBatch' = 0
        /\ runningHeight' = durable /\ durable \in Nat
    BY <1>6 DEF Restart, TypeOK, StoreTypes
  <2> QED BY <2>1 DEF EmptyBatch, Carries
<1>1. ASSUME UNCHANGED <<ppc, batch, blocksInBatch, runningHeight>> PROVE ProcessorContents'
  BY <1>0, <1>00, <1>1, <1>6 DEF Carries
<1>2. CASE UNCHANGED vars \/ ChainGrows \/ MonitorPoll \/ Stop \/ CloseStore
           \/ SingleSCIDBegin \/ SingleSCIDCommit
  BY <1>1, <1>2 DEF vars, ChainGrows, MonitorPoll, Stop, CloseStore,
                    SingleSCIDBegin, SingleSCIDCommit
<1>3. CASE Fetcher
  BY <1>1, <1>3 DEF Fetcher, FetcherExit, FetcherAtTip, FetcherBatch,
                    FetcherSpecHit, FetcherSpecMiss, FetcherSend
<1>4. CASE Flusher
  BY <1>1, <1>4 DEF Flusher, FlusherExit, FlusherRecv, FlusherFlush, FlusherDrain,
                    FlusherAdvance, FlusherPublish
<1>5. CASE StartScan
  <2>1. batch' = EmptyBatch /\ blocksInBatch' = 0
    BY <1>0, <1>5 DEF StartScan, Idle
  <2>2. ppc' \in {"done", "recv"}
    BY <1>5 DEF StartScan
  <2>3. runningHeight' \in Nat
    BY ProcessorStep DEF TypeOK, ProcessorTypes
  <2>4. batch'.blocks = {} /\ batch'.last = 0
    BY <2>1 DEF EmptyBatch
  <2>5. (runningHeight' - blocksInBatch' + 1)..runningHeight' = {}
    BY <2>1, <2>3, EmptyCarries
  <2> QED BY <2>1, <2>2, <2>4, <2>5 DEF Carries
<1>7. CASE ProcessorBreak
  <2>1. UNCHANGED <<batch, blocksInBatch, runningHeight>>
        /\ ppc' = IF blocksInBatch > 0 /\ batch.last > 0 THEN "sendFinal" ELSE "close"
    BY <1>7 DEF ProcessorBreak
  <2>2. runningHeight \in Nat /\ blocksInBatch \in Nat
    BY DEF TypeOK, ProcessorTypes
  <2>3. runningHeight - blocksInBatch \in Nat
    <3>1. flushChan # <<>> => flushChan[Len(flushChan)] \in Batches
      BY DEF TypeOK, FlushQTypes
    <3> QED BY <3>1 DEF InFlight, FlushLine, TypeOK, FlusherTypes, Batches
  <2>4. blocksInBatch > 0 => batch.last > 0
    BY <1>0, <2>2, <2>3
  <2> QED BY <1>0, <1>00, <1>6, <2>1, <2>2, <2>4 DEF Carries
<1>8. CASE ProcessorSentinel
  <2>1. UNCHANGED <<batch, blocksInBatch, runningHeight>> /\ blocksInBatch \in Nat
        /\ ppc' = IF blocksInBatch > 0 THEN "sendPartial"
                  ELSE IF ~syncSignaled THEN "sendSentinel" ELSE "recv"
    BY <1>8 DEF ProcessorSentinel, TypeOK, ProcessorTypes
  <2> QED BY <1>0, <1>00, <1>6, <2>1 DEF Carries
<1>9. CASE ProcessorBlocks
  <2> DEFINE got == fetchChan[1]
  <2>1. fetchChan \in Seq(Fetches) /\ fetchChan # <<>> /\ Head(fetchChan) = got
    BY <1>9 DEF ProcessorBlocks, TypeOK, FetchQTypes
  <2>2. /\ ppc = "recv" /\ got.count > 0
        /\ runningHeight' = runningHeight + got.count
        /\ batch' = [last |-> runningHeight + got.count,
                     blocks |-> batch.blocks \cup got.blocks]
        /\ blocksInBatch' = blocksInBatch + got.count
        /\ ppc' \in {"sendFull", "recv"}
    BY <1>9, <2>1 DEF ProcessorBlocks
  <2>0. 1 \in 1..Len(fetchChan) /\ got \in Fetches
    BY <2>1
  <2>3. 1 \in 1..Len(fetchChan) /\ got.count \in Nat /\ got.first \in Nat
        /\ runningHeight \in Nat /\ blocksInBatch \in Nat
    BY <2>0 DEF Fetches, TypeOK, ProcessorTypes
  <2>4. got.first = runningHeight + 1
    BY <1>0, <2>2, <2>3 DEF FetchLine
  <2>5. Carries(got.blocks, (runningHeight + 1)..(runningHeight + got.count))
    <3>1. FetchSpan(got) = (runningHeight + 1)..(runningHeight + got.count)
      BY <2>3, <2>4 DEF FetchSpan
    <3> QED BY <1>0, <2>3, <3>1 DEF FetchQContents
  <2>6. lost' = lost
    BY <1>9 DEF ProcessorBlocks
  <2>7. Carries(batch.blocks, (runningHeight - blocksInBatch + 1)..runningHeight)'
    <3>1. (runningHeight' - blocksInBatch' + 1)..runningHeight' =
            ((runningHeight - blocksInBatch + 1)..runningHeight)
              \cup ((runningHeight + 1)..(runningHeight + got.count))
      <4>1. /\ runningHeight' = runningHeight + got.count
            /\ runningHeight' - blocksInBatch' = runningHeight - blocksInBatch
        BY <2>2, <2>3
      <4> QED BY <2>3, <4>1
    <3>2. batch'.blocks = batch.blocks \cup got.blocks
      BY <2>2
    <3> QED BY <1>0, <2>5, <2>6, <3>1, <3>2 DEF Carries
  <2> QED BY <2>2, <2>3, <2>7
<1>10. CASE ProcessorSend
  <2>1. batch' = EmptyBatch /\ blocksInBatch' = 0 /\ runningHeight' \in Nat
        /\ ppc' \notin {"sendFull", "sendPartial", "sendFinal"}
    BY <1>10 DEF ProcessorSend, TypeOK, ProcessorTypes
  <2>2. batch'.blocks = {} /\ batch'.last = 0
    BY <2>1 DEF EmptyBatch
  <2>3. (runningHeight' - blocksInBatch' + 1)..runningHeight' = {}
    BY <2>1, EmptyCarries
  <2>4. blocksInBatch' = 0 /\ ppc' \notin {"sendFull", "sendPartial", "sendFinal"}
    BY <2>1
  <2> QED BY <2>2, <2>3, <2>4 DEF Carries
<1>11. CASE ProcessorSendSentinel
  BY <1>0, <1>11 DEF ProcessorSendSentinel, Carries
<1>12. CASE ProcessorClose
  BY <1>0, <1>12 DEF ProcessorClose, Carries
<1> QED BY <1>2, <1>3, <1>4, <1>5, <1>6, <1>7, <1>8, <1>9, <1>10, <1>11, <1>12
        DEF Next, Processor

LEMMA FlushQContentsStep ==
  ASSUME TypeOK, InFlight, Idle, [Next]_vars PROVE FlushQContents'
<1>0. ProcessorContents /\ FlushQContents
  BY ContentsParts DEF InFlight
<1>00. Restart \/ lost \subseteq lost'
  BY LostGrows
<1>6. CASE Restart
  <2>1. flushChan' = <<>>
    BY <1>6 DEF Restart
  <2> QED BY <2>1 DEF FlushQContents
<1>1. ASSUME UNCHANGED flushChan PROVE FlushQContents'
  BY <1>0, <1>00, <1>1, <1>6 DEF FlushQContents, Carries, Span
<1>2. CASE UNCHANGED vars \/ ChainGrows \/ MonitorPoll \/ StartScan \/ Stop \/ CloseStore
           \/ SingleSCIDBegin \/ SingleSCIDCommit
  BY <1>1, <1>2 DEF vars, ChainGrows, MonitorPoll, StartScan, Stop, CloseStore,
                    SingleSCIDBegin, SingleSCIDCommit
<1>3. CASE Fetcher
  BY <1>1, <1>3 DEF Fetcher, FetcherExit, FetcherAtTip, FetcherBatch,
                    FetcherSpecHit, FetcherSpecMiss, FetcherSend
<1>4. CASE FlusherExit \/ FlusherFlush \/ FlusherDrain \/ FlusherAdvance \/ FlusherPublish
  BY <1>1, <1>4 DEF FlusherExit, FlusherFlush, FlusherDrain, FlusherAdvance, FlusherPublish
<1>5. CASE ProcessorBreak \/ ProcessorSentinel \/ ProcessorBlocks \/ ProcessorClose
  BY <1>1, <1>5 DEF ProcessorBreak, ProcessorSentinel, ProcessorBlocks, ProcessorClose
<1>7. CASE FlusherRecv
  <2>1. flushChan \in Seq(Batches) /\ flushChan # <<>> /\ flushChan' = Tail(flushChan)
    BY <1>7 DEF FlusherRecv, TypeOK, FlushQTypes
  <2>2. Len(flushChan') = Len(flushChan) - 1
        /\ \A i \in 1..Len(flushChan') : flushChan'[i] = flushChan[i + 1]
    BY <2>1
  <2>3. CASE lost \subseteq lost'
    <3>1. ASSUME NEW i \in 1..Len(flushChan')
          PROVE  Carries(flushChan[i].blocks, Span(flushChan[i]))'
      <4>1. i + 1 \in 1..Len(flushChan) /\ flushChan'[i] = flushChan[i + 1]
        BY <2>1, <2>2
      <4> QED BY <1>0, <2>3, <4>1 DEF FlushQContents, Carries, Span
    <3> QED BY <3>1 DEF FlushQContents
  <2> QED BY <1>00, <1>6, <2>3
<1>8. ASSUME NEW b \in Batches, flushChan' = Append(flushChan, b), Carries(b.blocks, Span(b))
      PROVE  FlushQContents'
  <2>1. Len(flushChan') = Len(flushChan) + 1 /\ flushChan'[Len(flushChan) + 1] = b
        /\ \A i \in 1..Len(flushChan) : flushChan'[i] = flushChan[i]
    BY <1>8 DEF TypeOK, FlushQTypes
  <2>2. flushChan \in Seq(Batches)
    BY DEF TypeOK, FlushQTypes
  <2>3. CASE lost \subseteq lost'
    <3>1. ASSUME NEW i \in 1..Len(flushChan)
          PROVE  Carries(flushChan[i].blocks, Span(flushChan[i]))'
      BY <1>0, <2>1, <2>3, <3>1 DEF FlushQContents, Carries, Span
    <3>2. flushChan'[Len(flushChan')] = b
      BY <2>1
    <3>3. Carries(flushChan[Len(flushChan)].blocks, Span(flushChan[Len(flushChan)]))'
      BY <1>8, <2>3, <3>2 DEF Carries, Span
    <3>4. \A i \in 1..Len(flushChan') : i \in 1..Len(flushChan) \/ i = Len(flushChan')
      BY <2>1, <2>2
    <3> QED BY <3>1, <3>3, <3>4 DEF FlushQContents
  <2> QED BY <1>00, <1>6, <2>3
<1>9. CASE ProcessorSend
  <2> DEFINE b == Processed(batch.last, blocksInBatch, batch.blocks)
  <2>1. b \in Batches /\ flushChan' = Append(flushChan, b)
    BY <1>9 DEF ProcessorSend, TypeOK, ProcessorTypes, Processed, Batches
  <2>2. batch.last = runningHeight
    BY <1>0, <1>9 DEF ProcessorSend, ProcessorContents
  <2>3. Carries(b.blocks, Span(b))
    BY <1>0, <2>2 DEF ProcessorContents, Processed, Span
  <2> QED BY <1>8, <2>1, <2>3
<1>10. CASE ProcessorSendSentinel
  <2> DEFINE b == Processed(runningHeight, 0, {})
  <2>1. b \in Batches /\ flushChan' = Append(flushChan, b)
    BY <1>10 DEF ProcessorSendSentinel, TypeOK, ProcessorTypes, Processed, Batches
  <2>2. Carries(b.blocks, Span(b))
    BY DEF Processed, Span, Carries, TypeOK, ProcessorTypes
  <2> QED BY <1>8, <2>1, <2>2
<1> QED BY <1>2, <1>3, <1>4, <1>5, <1>6, <1>7, <1>9, <1>10 DEF Next, Processor, Flusher

LEMMA FlusherContentsStep ==
  ASSUME TypeOK, FlushQContents, FlusherContents, [Next]_vars PROVE FlusherContents'
<1>0. Restart \/ lost \subseteq lost'
  BY LostGrows
<1>8. CASE Restart
  <2>1. pb' = Processed(durable, 0, {}) /\ durable \in Nat
    BY <1>8 DEF Restart, TypeOK, StoreTypes
  <2> QED BY <2>1 DEF FlusherContents, Processed, Carries, Span
<1>1. ASSUME UNCHANGED pb PROVE FlusherContents'
  BY <1>0, <1>1, <1>8 DEF FlusherContents, Carries, Span
<1>2. CASE UNCHANGED vars \/ ChainGrows \/ MonitorPoll \/ Stop \/ CloseStore
           \/ SingleSCIDBegin \/ SingleSCIDCommit
  BY <1>1, <1>2 DEF vars, ChainGrows, MonitorPoll, Stop, CloseStore,
                    SingleSCIDBegin, SingleSCIDCommit
<1>3. CASE Fetcher
  BY <1>1, <1>3 DEF Fetcher, FetcherExit, FetcherAtTip, FetcherBatch,
                    FetcherSpecHit, FetcherSpecMiss, FetcherSend
<1>4. CASE Processor
  BY <1>1, <1>4 DEF Processor, ProcessorBreak, ProcessorSentinel, ProcessorBlocks,
                    ProcessorSend, ProcessorSendSentinel, ProcessorClose
<1>5. CASE FlusherExit \/ FlusherFlush \/ FlusherDrain \/ FlusherAdvance \/ FlusherPublish
  BY <1>1, <1>5 DEF FlusherExit, FlusherFlush, FlusherDrain, FlusherAdvance, FlusherPublish
<1>6. CASE FlusherRecv
  <2>1. pb' = flushChan[1] /\ 1 \in 1..Len(flushChan)
    BY <1>6 DEF FlusherRecv, TypeOK, FlushQTypes
  <2>2. lost' = lost /\ Carries(flushChan[1].blocks, Span(flushChan[1]))
    BY <1>6, <2>1 DEF FlusherRecv, FlushQContents
  <2> QED BY <2>1, <2>2 DEF FlusherContents, Carries, Span
<1>7. CASE StartScan
  <2>1. CASE fpc' = "done"
    BY <1>1, <1>7, <2>1, NoScanStart
  <2>2. CASE fpc' # "done"
    <3>1. PICK start \in Nat : pb' = Processed(start, 0, {})
      BY <1>7, <2>2, ScanStart
    <3> QED BY <3>1 DEF FlusherContents, Processed, Carries, Span
  <2> QED BY <2>1, <2>2
<1> QED BY <1>2, <1>3, <1>4, <1>5, <1>6, <1>7, <1>8 DEF Next, Flusher

LEMMA IdleStep == ASSUME TypeOK, Idle, [Next]_vars PROVE Idle'
<1> USE DEF Idle
<1>1. CASE UNCHANGED vars \/ ChainGrows \/ MonitorPoll \/ Stop \/ CloseStore
           \/ SingleSCIDBegin \/ SingleSCIDCommit
  BY <1>1 DEF vars, ChainGrows, MonitorPoll, Stop, CloseStore, SingleSCIDBegin,
              SingleSCIDCommit
<1>2. CASE StartScan
  BY <1>2 DEF StartScan
<1>3. CASE Restart
  BY <1>3 DEF Restart, EmptyBatch
<1>4. CASE Fetcher
  BY <1>4 DEF Fetcher, FetcherExit, FetcherAtTip, FetcherBatch,
              FetcherSpecHit, FetcherSpecMiss, FetcherSend
<1>5. CASE Processor
  BY <1>5 DEF Processor, ProcessorBreak, ProcessorSentinel, ProcessorBlocks,
              ProcessorSend, ProcessorSendSentinel, ProcessorClose
<1>6. CASE Flusher
  BY <1>6 DEF Flusher, FlusherExit, FlusherRecv, FlusherFlush, FlusherDrain,
              FlusherAdvance, FlusherPublish
<1> QED BY <1>1, <1>2, <1>3, <1>4, <1>5, <1>6 DEF Next

LEMMA InFlightInit == Init => InFlight /\ Idle
<1> SUFFICES ASSUME Init PROVE InFlight /\ Idle
  OBVIOUS
<1>1. /\ flushChan = <<>> /\ fetchChan = <<>> /\ pb = Processed(0, 0, {})
      /\ fb = Fetched(1, 0, {}) /\ batch = EmptyBatch /\ blocksInBatch = 0
      /\ runningHeight = 0 /\ nextHeight = 0
      /\ fpc = "boot" /\ ppc = "boot" /\ wpc = "boot"
  BY DEF Init
<1>2. InFlight
  BY <1>1 DEF InFlight, FlushLine, FetchLine, Contents, Processed, Fetched, EmptyBatch,
              Carries, FetchSpan, Span
<1> QED BY <1>1, <1>2 DEF Idle

LEMMA InFlightStep == ASSUME TypeOK, InFlight, Idle, [Next]_vars PROVE InFlight' /\ Idle'
<1>1. Contents'
  <2>1. FetcherContents /\ FetchQContents /\ FlushQContents /\ FlusherContents
    BY ContentsParts DEF InFlight
  <2> QED BY <2>1, FetcherContentsStep, FetchQContentsStep, ProcessorContentsStep,
             FlushQContentsStep, FlusherContentsStep, ContentsParts
          DEF Contents, FetcherContents, FetchQContents, ProcessorContents,
              FlushQContents, FlusherContents
<1> QED BY <1>1, FlushLineStep, FetchLineStep, IdleStep DEF InFlight

\* From the fetcher's cursor to the last block the flusher dealt with, the
\* blocks in flight follow each other without a gap, a repetition or a swap,
\* each under its own height, whatever runs beside the scan, stops or dies.
THEOREM BlocksStayInLine == Spec => []InFlight
<1>1. TypeOK /\ InFlight /\ Idle /\ [Next]_vars => InFlight' /\ Idle'
  BY InFlightStep
<1> QED BY <1>1, InFlightInit, TypeCorrect, PTL DEF Spec

-----------------------------------------------------------------------------
(* The store and the reported heights.                                     *)

\* The properties of the store line, gathered.
StoreInv == StoreLine /\ CountedOnce /\ ClaimsPersisted /\ SafeBehindIndexed

LEMMA AtBootStep == ASSUME TypeOK, IInv, [Next]_vars PROVE AtBoot'
<1>1. Idle'
  BY IdleStep DEF IInv, AtBoot
<1>2. AtBoot /\ adding = NoCall
  BY DEF IInv, StoreLine
<1>3. ASSUME fpc' = fpc, UNCHANGED <<pb, durable, lastIndexed>> PROVE AtBoot'
  BY <1>1, <1>2, <1>3 DEF AtBoot
<1>4. CASE UNCHANGED vars \/ ChainGrows \/ MonitorPoll \/ Stop \/ CloseStore
           \/ SingleSCIDBegin
  BY <1>3, <1>4 DEF vars, ChainGrows, MonitorPoll, Stop, CloseStore, SingleSCIDBegin
<1>5. CASE SingleSCIDCommit
  BY <1>2, <1>5 DEF SingleSCIDCommit
<1>6. CASE StartScan \/ Fetcher
  BY <1>1, <1>2, <1>6 DEF StartScan, Fetcher, FetcherExit, FetcherAtTip, FetcherBatch,
                          FetcherSpecHit, FetcherSpecMiss, FetcherSend, AtBoot
<1>7. CASE Restart
  <2>1. pb' = Processed(durable, 0, {}) /\ lastIndexed' = durable /\ durable' = durable
    BY <1>7 DEF Restart
  <2> QED BY <1>1, <2>1 DEF Processed, AtBoot
<1>8. CASE Processor
  BY <1>3, <1>8 DEF Processor, ProcessorBreak, ProcessorSentinel, ProcessorBlocks,
                    ProcessorSend, ProcessorSendSentinel, ProcessorClose
<1>9. CASE Flusher
  BY <1>1, <1>2, <1>9 DEF Flusher, FlusherExit, FlusherRecv, FlusherFlush, FlusherDrain,
                          FlusherAdvance, FlusherPublish, AtBoot, Idle
<1> QED BY <1>4, <1>5, <1>6, <1>7, <1>8, <1>9 DEF Next

\* A FlushBatch that commits, or fails, settles the whole span of the batch.
LEMMA FlushSettles ==
  ASSUME TypeOK, IInv, wpc \in {"flush", "drain"}, FlushBatch(pb) \/ FlushError(pb),
         UNCHANGED waived
  PROVE  /\ durable' <= pb.last /\ durable <= durable'
         /\ FlushBatch(pb) => durable' = pb.last
         /\ Front <= pb.last
         /\ \A h \in 1..pb.last : h \in Accounted'
         /\ \A h \in Heights : h > durable' => commits'[h] = 0
         /\ \A h \in Heights : commits'[h] <= 1
<1>1. /\ pb.last \in Nat /\ pb.count \in Nat \ {0} /\ pb.blocks \subseteq Heights
      /\ Front = pb.last - pb.count /\ durable \in Nat /\ durable <= Front
      /\ commits \in [Heights -> Nat]
  BY DEF TypeOK, FlusherTypes, StoreTypes, Batches, IInv, StoreLine, Front
<1>2. pb.last > 0 /\ durable <= pb.last /\ Front <= pb.last
  BY <1>1
<1>3. /\ pb.blocks \subseteq Span(pb) /\ Span(pb) \subseteq pb.blocks \cup lost
      /\ Span(pb) = (Front + 1)..pb.last
  BY <1>1 DEF IInv, InFlight, Contents, Span, Carries
<1>4. /\ \A h \in 1..Front : h \in Accounted
      /\ \A h \in Heights : h > durable => commits[h] = 0
      /\ \A h \in Heights : commits[h] <= 1
  BY DEF IInv, StoreLine, CountedOnce
<1>5. CASE FlushBatch(pb)
  <2>1. /\ durable' = pb.last
        /\ commits' = [h \in Heights |-> commits[h] + IF h \in pb.blocks THEN 1 ELSE 0]
        /\ lost' = lost
    BY <1>2, <1>5 DEF FlushBatch
  <2>2. ASSUME NEW h \in Heights
        PROVE  /\ commits'[h] \in Nat /\ commits'[h] >= commits[h] /\ commits'[h] <= 1
               /\ h \in pb.blocks => commits'[h] > 0
               /\ h > pb.last => commits'[h] = 0
    <3>1. h \in pb.blocks => h > durable /\ h <= pb.last
      BY <1>1, <1>3
    <3>2. commits[h] \in Nat
      BY <1>1
    <3> QED BY <1>1, <1>2, <1>4, <2>1, <3>1, <3>2
  <2>3. ASSUME NEW h \in 1..pb.last PROVE h \in Accounted'
    <3>1. CASE h \in 1..Front
      <4>1. h \in Indexed \/ h \in lost \/ h \in waived
        BY <1>4, <3>1 DEF Accounted
      <4>2. h \in Indexed => h \in Indexed'
        BY <1>1, <2>2 DEF Indexed
      <4> QED BY <2>1, <4>1, <4>2 DEF Accounted
    <3>2. CASE h \in Span(pb)
      <4>1. CASE h \in pb.blocks
        BY <1>1, <2>2, <4>1 DEF Accounted, Indexed
      <4>2. CASE h \notin pb.blocks
        BY <1>3, <2>1, <3>2, <4>2 DEF Accounted
      <4> QED BY <4>1, <4>2
    <3> QED BY <1>1, <1>3, <3>1, <3>2
  <2>4. \A h \in Heights : h > durable' => commits'[h] = 0
    BY <2>1, <2>2
  <2>5. \A h \in Heights : commits'[h] <= 1
    BY <2>2
  <2>6. durable' <= pb.last /\ durable <= durable' /\ Front <= pb.last
    BY <1>1, <1>2, <2>1
  <2>7. /\ \A h \in 1..pb.last : h \in Accounted'
        /\ \A h \in Heights : h > durable' => commits'[h] = 0
        /\ \A h \in Heights : commits'[h] <= 1
    BY <2>3, <2>4, <2>5
  <2> HIDE DEF Heights
  <2> QED BY <2>1, <2>6, <2>7
<1>6. CASE FlushError(pb) /\ ~FlushBatch(pb)
  <2>1. UNCHANGED <<durable, commits>> /\ lost' = lost \cup Span(pb)
    BY <1>6 DEF FlushError
  <2>2. ASSUME NEW h \in 1..pb.last PROVE h \in Accounted'
    <3>1. CASE h \in 1..Front
      BY <1>4, <2>1, <3>1 DEF Accounted, Indexed
    <3>2. CASE h \in Span(pb)
      BY <2>1, <3>2 DEF Accounted
    <3> QED BY <1>1, <1>3, <3>1, <3>2
  <2> QED BY <1>1, <1>2, <1>4, <1>6, <2>1, <2>2
<1> QED BY <1>5, <1>6

LEMMA StoreInvStep ==
  ASSUME SingleSCIDs = FALSE, TypeOK, IInv, [Next]_vars PROVE StoreInv'
<1> USE DEF StoreInv
<1>0. StoreLine /\ CountedOnce /\ ClaimsPersisted /\ SafeBehindIndexed /\ AtBoot
  BY DEF IInv
<1>1. ASSUME UNCHANGED <<wpc, pb, durable, commits, lastIndexed, safeHeight,
                         waived, adding>>,
             lost \subseteq lost'
      PROVE  StoreInv'
  BY <1>0, <1>1 DEF StoreLine, CountedOnce, ClaimsPersisted, SafeBehindIndexed,
                    Front, Accounted, Indexed
<1>2. CASE UNCHANGED vars \/ ChainGrows \/ MonitorPoll \/ Stop \/ CloseStore
  BY <1>1, <1>2 DEF vars, ChainGrows, MonitorPoll, Stop, CloseStore
<1>3. CASE SingleSCIDBegin \/ SingleSCIDCommit
  BY <1>0, <1>3 DEF SingleSCIDBegin, SingleSCIDCommit, StoreLine
<1>4. CASE Fetcher
  <2>1. lost \subseteq lost'
    BY <1>4 DEF Fetcher, FetcherExit, FetcherAtTip, FetcherBatch,
                FetcherSpecHit, FetcherSpecMiss, FetcherSend, Fetch
  <2> QED BY <1>1, <1>4, <2>1
          DEF Fetcher, FetcherExit, FetcherAtTip, FetcherBatch,
              FetcherSpecHit, FetcherSpecMiss, FetcherSend
<1>5. CASE Processor
  BY <1>1, <1>5 DEF Processor, ProcessorBreak, ProcessorSentinel, ProcessorBlocks,
                    ProcessorSend, ProcessorSendSentinel, ProcessorClose
<1>6. CASE StartScan
  <2>1. wpc = "boot" /\ pb.last = durable /\ lastIndexed = durable /\ Front = durable
    BY <1>0, <1>6 DEF StartScan, AtBoot, Idle, Front
  <2>2. UNCHANGED <<durable, commits, safeHeight, lost, adding>>
    BY <1>6 DEF StartScan
  <2>3. CASE fpc' = "done"
    <3>1. wpc' = "done" /\ UNCHANGED <<lastIndexed, pb, waived>>
      BY <1>6, <2>3, NoScanStart
    <3> QED BY <1>0, <2>1, <2>2, <3>1
            DEF StoreLine, CountedOnce, ClaimsPersisted, SafeBehindIndexed, Front,
                Accounted, Indexed
  <2>4. CASE fpc' # "done"
    <3>1. PICK start \in Nat :
            /\ start >= lastIndexed /\ lastIndexed' = start
            /\ pb' = Processed(start, 0, {}) /\ wpc' = "recv"
            /\ waived' = waived \cup (lastIndexed + 1)..start
      BY <1>6, <2>4, ScanStart
    <3>2. Front' = start /\ durable \in Nat
      BY <3>1 DEF Front, Processed, TypeOK, StoreTypes
    <3>3. StoreLine'
      BY <1>0, <2>1, <2>2, <3>1, <3>2 DEF StoreLine, Accounted, Indexed
    <3>4. ClaimsPersisted'
      BY <2>1, <2>2, <3>1, <3>2 DEF ClaimsPersisted
    <3>5. SafeBehindIndexed'
      BY <1>0, <2>1, <2>2, <3>1, <3>2, HeightAssumption
      DEF SafeBehindIndexed, Larger, TypeOK, SharedTypes
    <3> QED BY <1>0, <2>2, <3>3, <3>4, <3>5 DEF CountedOnce
  <2> QED BY <2>3, <2>4
<1>7. CASE Restart
  <2>1. /\ wpc' = "boot" /\ pb' = Processed(durable, 0, {}) /\ lastIndexed' = durable
        /\ UNCHANGED <<durable, commits>> /\ adding' = NoCall
        /\ safeHeight' = Larger(durable - FinalityDepth, 0)
        /\ lost' = {h \in lost : h <= durable} /\ waived' = {h \in waived : h <= durable}
    BY <1>7 DEF Restart
  <2>2. Front' = durable /\ durable \in Nat /\ Front \in Int /\ durable <= Front
    BY <1>0, <2>1 DEF Front, Processed, TypeOK, StoreTypes, FlusherTypes, Batches, StoreLine
  <2>3. \A h \in 1..durable : h \in Accounted'
    BY <1>0, <2>1, <2>2 DEF StoreLine, Accounted, Indexed
  <2> QED BY <1>0, <2>1, <2>2, <2>3, HeightAssumption
          DEF StoreLine, CountedOnce, ClaimsPersisted, SafeBehindIndexed, Larger
<1>8. CASE FlusherExit
  BY <1>0, <1>8 DEF FlusherExit, StoreLine, CountedOnce, ClaimsPersisted,
                    SafeBehindIndexed, Front, Accounted, Indexed
<1>9. CASE FlusherRecv
  <2>1. /\ pb' = flushChan[1] /\ flushChan # <<>> /\ wpc = "recv"
        /\ wpc' = IF pb'.count = 0 THEN "recv" ELSE IF closing THEN "drain" ELSE "flush"
        /\ UNCHANGED <<durable, commits, lastIndexed, safeHeight, lost, waived, adding>>
    BY <1>9 DEF FlusherRecv, TypeOK, FlushQTypes
  <2>2. pb' \in Batches /\ 1 \in 1..Len(flushChan)
    BY <2>1 DEF TypeOK, FlushQTypes
  <2>3. pb'.last - pb'.count = pb.last /\ pb'.count \in Nat /\ pb'.last \in Nat
    BY <2>1, <2>2 DEF IInv, InFlight, FlushLine, Batches
  <2>4. Front' = Front /\ (wpc' \in {"flush", "drain"} => pb'.count > 0)
        /\ wpc' \notin {"advance", "publish"}
    BY <2>1, <2>3 DEF Front
  <2> QED BY <1>0, <2>1, <2>4 DEF StoreLine, CountedOnce, ClaimsPersisted,
                                  SafeBehindIndexed, Accounted, Indexed
<1>10. CASE FlusherFlush \/ FlusherDrain
  <2>1. /\ wpc \in {"flush", "drain"}
        /\ FlushBatch(pb) \/ FlushError(pb)
        /\ UNCHANGED <<pb, lastIndexed, safeHeight, waived, adding>>
        /\ \/ wpc' = "advance" /\ FlushBatch(pb)
           \/ wpc' = "recv"
    BY <1>10 DEF FlusherFlush, FlusherDrain
  <2>2. Front' = pb.last
    BY <2>1 DEF Front
  <2>3. /\ durable' <= pb.last /\ durable <= durable'
        /\ FlushBatch(pb) => durable' = pb.last
        /\ Front <= pb.last
        /\ \A h \in 1..pb.last : h \in Accounted'
        /\ \A h \in Heights : h > durable' => commits'[h] = 0
        /\ \A h \in Heights : commits'[h] <= 1
    BY <2>1, FlushSettles
  <2>4. Front \in Int /\ lastIndexed \in Nat /\ pb.last \in Nat /\ durable \in Nat
        /\ durable' \in Nat
    BY <2>1, StoreStep DEF Front, TypeOK, FlusherTypes, Batches, SharedTypes, StoreTypes
  <2>5. StoreLine'
    BY <1>0, <2>1, <2>2, <2>3, <2>4 DEF StoreLine
  <2>6. ClaimsPersisted'
    BY <1>0, <2>1, <2>3, <2>4 DEF ClaimsPersisted
  <2>7. SafeBehindIndexed'
    BY <1>0, <2>1 DEF SafeBehindIndexed
  <2> QED BY <2>3, <2>5, <2>6, <2>7 DEF CountedOnce
<1>11. CASE FlusherAdvance
  <2>1. /\ wpc = "advance" /\ wpc' = "publish" /\ lastIndexed' = pb.last
        /\ UNCHANGED <<pb, durable, commits, safeHeight, lost, waived, adding>>
    BY <1>11 DEF FlusherAdvance
  <2>2. Front = pb.last /\ Front' = pb.last /\ durable = pb.last /\ lastIndexed <= pb.last
    BY <1>0, <2>1 DEF Front, StoreLine
  <2>3. SafeBehindIndexed'
    BY <1>0, <2>1, <2>2, HeightAssumption
    DEF SafeBehindIndexed, Larger, TypeOK, SharedTypes, FlusherTypes, Batches
  <2> QED BY <1>0, <2>1, <2>2, <2>3
          DEF StoreLine, CountedOnce, ClaimsPersisted, Accounted, Indexed, TypeOK,
              FlusherTypes, Batches
<1>12. CASE FlusherPublish
  <2>1. /\ wpc = "publish" /\ wpc' = "recv" /\ safeHeight' = Larger(pb.last - FinalityDepth, 0)
        /\ UNCHANGED <<pb, durable, commits, lastIndexed, lost, waived, adding>>
    BY <1>12 DEF FlusherPublish
  <2>2. lastIndexed = pb.last /\ Front' = Front
    BY <1>0, <2>1 DEF StoreLine, Front
  <2>3. SafeBehindIndexed'
    BY <2>1, <2>2, HeightAssumption
    DEF SafeBehindIndexed, Larger, TypeOK, FlusherTypes, Batches
  <2> QED BY <1>0, <2>1, <2>2, <2>3
          DEF StoreLine, CountedOnce, ClaimsPersisted, Accounted, Indexed
<1> QED BY <1>2, <1>3, <1>4, <1>5, <1>6, <1>7, <1>8, <1>9, <1>10, <1>11, <1>12
        DEF Next, Flusher

-----------------------------------------------------------------------------
(* The lines between the store and the abstract progress.                  *)

LEMMA ChainLineStep == ASSUME TypeOK, IInv, [Next]_vars PROVE ChainLine'
<1>0. ChainLine
  BY DEF IInv, ProgressLine
<1>1. ASSUME UNCHANGED <<nextHeight, runningHeight, pb, fb, fetchChan, flushChan>>
      PROVE  ChainLine'
  BY <1>0, <1>1 DEF ChainLine
<1>2. CASE UNCHANGED vars \/ ChainGrows \/ MonitorPoll \/ Stop \/ CloseStore
           \/ SingleSCIDBegin \/ SingleSCIDCommit
  BY <1>1, <1>2 DEF vars, ChainGrows, MonitorPoll, Stop, CloseStore,
                    SingleSCIDBegin, SingleSCIDCommit
<1>3. CASE FetcherExit \/ FetcherSpecMiss \/ ProcessorClose
  BY <1>1, <1>3 DEF FetcherExit, FetcherSpecMiss, ProcessorClose
<1>12. CASE FlusherExit \/ FlusherFlush \/ FlusherDrain \/ FlusherAdvance \/ FlusherPublish
  BY <1>1, <1>12 DEF FlusherExit, FlusherFlush, FlusherDrain, FlusherAdvance, FlusherPublish
<1>4. CASE FetcherAtTip
  <2>1. /\ UNCHANGED <<nextHeight, runningHeight, pb, fetchChan, flushChan>>
        /\ fb' = fb \/ fb' = Fetched(nextHeight + 1, 0, {})
    BY <1>4 DEF FetcherAtTip
  <2>2. fb'.first + fb'.count <= MaxHeight + 1
    BY <1>0, <2>1, HeightAssumption DEF ChainLine, Fetched, TypeOK, FetcherTypes
  <2> QED BY <1>0, <2>1, <2>2 DEF ChainLine
<1>5. CASE FetcherBatch \/ FetcherSpecHit
  <2>1. PICK count \in Nat \ {0} :
          /\ nextHeight + count <= MaxHeight /\ nextHeight' = nextHeight
          /\ Fetch(nextHeight + 1, count)
    BY <1>5, FetchAsks
  <2>2. nextHeight \in Nat
    BY DEF TypeOK, FetcherTypes
  <2>3. PICK got : fb' = Fetched(nextHeight + 1, count, got)
    BY <2>1, <2>2, FetchHolds
  <2>4. UNCHANGED <<nextHeight, runningHeight, pb, fetchChan, flushChan>>
    BY <1>5 DEF FetcherBatch, FetcherSpecHit
  <2>5. fb'.first + fb'.count <= MaxHeight + 1
    BY <2>1, <2>2, <2>3, HeightAssumption DEF Fetched
  <2> QED BY <1>0, <2>4, <2>5 DEF ChainLine
<1>6. CASE FetcherSend
  <2>1. fb.first = nextHeight + 1 /\ fb \in Fetches /\ nextHeight \in Nat
        /\ fetchChan \in Seq(Fetches)
    BY <1>6 DEF FetcherSend, IInv, InFlight, Contents, TypeOK, FetcherTypes, FetchQTypes
  <2>2. fetchChan' = Append(fetchChan, fb) /\ nextHeight' = nextHeight + fb.count
        /\ UNCHANGED <<runningHeight, pb, fb, flushChan>>
    BY <1>6 DEF FetcherSend
  <2>3. nextHeight' <= MaxHeight
    BY <1>0, <2>1, <2>2, HeightAssumption DEF ChainLine, Fetches
  <2>4. \A i \in 1..Len(fetchChan') : fetchChan'[i] = fb \/ 
          (i \in 1..Len(fetchChan) /\ fetchChan'[i] = fetchChan[i])
    BY <2>1, <2>2
  <2> QED BY <1>0, <2>2, <2>3, <2>4 DEF ChainLine
<1>7. CASE ProcessorBreak \/ ProcessorSentinel \/ ProcessorBlocks
  <2>1. UNCHANGED <<nextHeight, pb, fb, flushChan>>
    BY <1>7 DEF ProcessorBreak, ProcessorSentinel, ProcessorBlocks
  <2>2. fetchChan \in Seq(Fetches) /\ runningHeight \in Nat
    BY DEF TypeOK, FetchQTypes, ProcessorTypes
  <2>3. fetchChan' = fetchChan \/ (fetchChan # <<>> /\ fetchChan' = Tail(fetchChan))
    BY <1>7 DEF ProcessorBreak, ProcessorSentinel, ProcessorBlocks
  <2>4. \A i \in 1..Len(fetchChan') :
          \E j \in 1..Len(fetchChan) : fetchChan'[i] = fetchChan[j]
    <3>1. CASE fetchChan # <<>> /\ fetchChan' = Tail(fetchChan)
      <4>1. \A i \in 1..Len(fetchChan') :
              i + 1 \in 1..Len(fetchChan) /\ fetchChan'[i] = fetchChan[i + 1]
        BY <2>2, <3>1
      <4> QED BY <4>1
    <3> QED BY <2>3, <3>1
  <2>5. \A i \in 1..Len(fetchChan') : fetchChan'[i].first + fetchChan'[i].count <= MaxHeight + 1
    BY <1>0, <2>4 DEF ChainLine
  <2>6. runningHeight' <= MaxHeight
    <3>1. CASE ProcessorBreak \/ ProcessorSentinel
      BY <1>0, <3>1 DEF ProcessorBreak, ProcessorSentinel, ChainLine
    <3>2. CASE ProcessorBlocks
      <4>1. 1 \in 1..Len(fetchChan) /\ Head(fetchChan) = fetchChan[1]
            /\ fetchChan[1] \in Fetches
        BY <2>2, <3>2 DEF ProcessorBlocks
      <4>2. fetchChan[1].first = runningHeight + 1
        BY <3>2, <4>1 DEF ProcessorBlocks, IInv, InFlight, FetchLine
      <4>3. runningHeight' = runningHeight + fetchChan[1].count
        BY <3>2, <4>1 DEF ProcessorBlocks
      <4>4. fetchChan[1].first + fetchChan[1].count <= MaxHeight + 1
        BY <1>0, <4>1 DEF ChainLine
      <4> QED BY <2>2, <4>1, <4>2, <4>3, <4>4, HeightAssumption DEF Fetches
    <3> QED BY <1>7, <3>1, <3>2
  <2> QED BY <1>0, <2>1, <2>5, <2>6 DEF ChainLine
<1>8. CASE ProcessorSend \/ ProcessorSendSentinel
  <2>1. UNCHANGED <<nextHeight, runningHeight, pb, fb, fetchChan>>
    BY <1>8 DEF ProcessorSend, ProcessorSendSentinel
  <2>2. batch.last = 0 \/ batch.last = runningHeight
    BY DEF IInv, InFlight, Contents
  <2>3. PICK b : flushChan' = Append(flushChan, b) /\ b.last \in {0, runningHeight}
    BY <1>8, <2>2 DEF ProcessorSend, ProcessorSendSentinel, Processed
  <2>4. \A i \in 1..Len(flushChan') : flushChan'[i] = b \/
          (i \in 1..Len(flushChan) /\ flushChan'[i] = flushChan[i])
    BY <2>3 DEF TypeOK, FlushQTypes
  <2>5. b.last <= MaxHeight
    BY <1>0, <2>3, HeightAssumption DEF ChainLine
  <2>6. \A i \in 1..Len(flushChan') : flushChan'[i].last <= MaxHeight
    BY <1>0, <2>4, <2>5 DEF ChainLine
  <2> QED BY <1>0, <2>1, <2>6 DEF ChainLine
<1>9. CASE FlusherRecv
  <2>1. UNCHANGED <<nextHeight, runningHeight, fb, fetchChan>>
    BY <1>9 DEF FlusherRecv
  <2>2. flushChan \in Seq(Batches) /\ flushChan # <<>>
        /\ pb' = flushChan[1] /\ flushChan' = Tail(flushChan)
    BY <1>9 DEF FlusherRecv, TypeOK, FlushQTypes
  <2>3. \A i \in 1..Len(flushChan') :
          i + 1 \in 1..Len(flushChan) /\ flushChan'[i] = flushChan[i + 1]
    BY <2>2
  <2>4. 1 \in 1..Len(flushChan)
    BY <2>2
  <2> QED BY <1>0, <2>1, <2>2, <2>3, <2>4 DEF ChainLine
<1>10. CASE StartScan
  <2>1. CASE fpc' = "done"
    BY <1>1, <1>10, <2>1, NoScanStart DEF StartScan
  <2>2. CASE fpc' # "done"
    <3>1. fetchChan' = <<>> /\ flushChan' = <<>> /\ pb.last = lastIndexed
      BY <1>10 DEF StartScan, IInv, AtBoot, Idle
    <3>2. PICK start \in Nat :
            /\ start <= chainHeight \/ start = lastIndexed
            /\ nextHeight' = start /\ runningHeight' = start
            /\ fb' = Fetched(start + 1, 0, {}) /\ pb' = Processed(start, 0, {})
      BY <1>10, <2>2, ScanStart
    <3>3. start <= MaxHeight
      BY <1>0, <3>1, <3>2, HeightAssumption DEF ChainLine, TypeOK, SharedTypes
    <3> QED BY <3>1, <3>2, <3>3, HeightAssumption DEF ChainLine, Fetched, Processed
  <2> QED BY <2>1, <2>2
<1>11. CASE Restart
  <2>1. /\ nextHeight' = durable /\ runningHeight' = durable
        /\ fb' = Fetched(durable + 1, 0, {}) /\ pb' = Processed(durable, 0, {})
        /\ fetchChan' = <<>> /\ flushChan' = <<>>
    BY <1>11 DEF Restart
  <2>2. durable \in Nat /\ durable <= MaxHeight
    BY <1>0, HeightAssumption
    DEF IInv, StoreLine, Front, ChainLine, TypeOK, StoreTypes, FlusherTypes, Batches
  <2> QED BY <2>1, <2>2, HeightAssumption DEF ChainLine, Fetched, Processed
<1> QED BY <1>2, <1>3, <1>4, <1>5, <1>6, <1>7, <1>8, <1>9, <1>10, <1>11, <1>12
        DEF Next, Fetcher, Processor, Flusher

\* What is in the store stays there.
LEMMA IndexedGrows == ASSUME TypeOK, [Next]_vars PROVE Indexed \subseteq Indexed'
<1>1. commits \in [Heights -> Nat]
  BY DEF TypeOK, StoreTypes
<1>2. commits' = commits
      \/ commits' = [h \in Heights |-> commits[h] + IF h \in pb.blocks THEN 1 ELSE 0]
  <2>1. CASE UNCHANGED vars \/ ChainGrows \/ MonitorPoll \/ Stop \/ CloseStore
             \/ SingleSCIDBegin \/ SingleSCIDCommit \/ StartScan \/ Restart
    BY <2>1 DEF vars, ChainGrows, MonitorPoll, Stop, CloseStore,
                SingleSCIDBegin, SingleSCIDCommit, StartScan, Restart
  <2>2. CASE Fetcher
    BY <2>2 DEF Fetcher, FetcherExit, FetcherAtTip, FetcherBatch,
                FetcherSpecHit, FetcherSpecMiss, FetcherSend
  <2>3. CASE Processor
    BY <2>3 DEF Processor, ProcessorBreak, ProcessorSentinel, ProcessorBlocks,
                ProcessorSend, ProcessorSendSentinel, ProcessorClose
  <2>4. CASE Flusher
    BY <2>4 DEF Flusher, FlusherExit, FlusherRecv, FlusherFlush, FlusherDrain,
                FlusherAdvance, FlusherPublish, FlushBatch, FlushError
  <2> QED BY <2>1, <2>2, <2>3, <2>4 DEF Next
<1>3. ASSUME NEW h \in Heights, commits[h] > 0 PROVE commits'[h] > 0
  <2>1. commits[h] \in Nat
    BY <1>1
  <2>2. CASE commits' = commits
    BY <1>3, <2>2
  <2>3. CASE commits' = [k \in Heights |-> commits[k] + IF k \in pb.blocks THEN 1 ELSE 0]
    <3>1. commits'[h] = commits[h] + IF h \in pb.blocks THEN 1 ELSE 0
      BY <2>3
    <3> QED BY <1>3, <2>1, <3>1
  <2> QED BY <1>2, <2>2, <2>3
<1> QED BY <1>3 DEF Indexed

LEMMA EventLineStep == ASSUME TypeOK, EventLine, [Next]_vars PROVE EventLine'
<1>0. Indexed \subseteq Indexed'
  BY IndexedGrows
<1>1. ASSUME UNCHANGED <<published, pb>>, wpc' \in {"advance", "publish"} => wpc' = wpc
      PROVE  EventLine'
  BY <1>0, <1>1 DEF EventLine, PublishedCommitted
<1>2. CASE UNCHANGED vars \/ ChainGrows \/ MonitorPoll \/ Stop \/ CloseStore
           \/ SingleSCIDBegin \/ SingleSCIDCommit
  BY <1>1, <1>2 DEF vars, ChainGrows, MonitorPoll, Stop, CloseStore,
                    SingleSCIDBegin, SingleSCIDCommit
<1>3. CASE Fetcher
  BY <1>1, <1>3 DEF Fetcher, FetcherExit, FetcherAtTip, FetcherBatch,
                    FetcherSpecHit, FetcherSpecMiss, FetcherSend
<1>4. CASE Processor
  BY <1>1, <1>4 DEF Processor, ProcessorBreak, ProcessorSentinel, ProcessorBlocks,
                    ProcessorSend, ProcessorSendSentinel, ProcessorClose
<1>5. CASE StartScan \/ Restart \/ FlusherExit \/ FlusherRecv \/ FlusherDrain
  <2>1. published' = published /\ wpc' \notin {"advance", "publish"}
    BY <1>5 DEF StartScan, Restart, FlusherExit, FlusherRecv, FlusherDrain
  <2> QED BY <1>0, <2>1 DEF EventLine, PublishedCommitted
<1>6. CASE FlusherFlush
  <2>1. CASE FlushBatch(pb) /\ wpc' = "advance"
    <3>1. commits \in [Heights -> Nat] /\ pb.blocks \subseteq Heights
      BY DEF TypeOK, StoreTypes, FlusherTypes, Batches
    <3>2. commits' = [h \in Heights |-> commits[h] + IF h \in pb.blocks THEN 1 ELSE 0]
      BY <2>1 DEF FlushBatch
    <3>3. pb.blocks \subseteq Indexed'
      BY <3>1, <3>2 DEF Indexed
    <3>4. UNCHANGED <<published, pb>>
      BY <1>6 DEF FlusherFlush
    <3> QED BY <1>0, <3>3, <3>4 DEF EventLine, PublishedCommitted
  <2>2. CASE wpc' = "recv"
    BY <1>1, <1>6, <2>2 DEF FlusherFlush
  <2> QED BY <1>6, <2>1, <2>2 DEF FlusherFlush
<1>7. CASE FlusherAdvance
  BY <1>0, <1>7 DEF FlusherAdvance, EventLine, PublishedCommitted
<1>8. CASE FlusherPublish
  <2>1. published' = published \cup pb.blocks /\ wpc = "publish" /\ wpc' = "recv"
    BY <1>8 DEF FlusherPublish
  <2> QED BY <1>0, <2>1 DEF EventLine, PublishedCommitted
<1> QED BY <1>2, <1>3, <1>4, <1>5, <1>6, <1>7, <1>8 DEF Next, Flusher

\* Receiving a batch does not move the front: it is still to be dealt with.
LEMMA FrontKept ==
  ASSUME TypeOK, IInv, FlusherRecv PROVE Front' = Front
<1>1. /\ pb' = flushChan[1] /\ flushChan # <<>> /\ wpc = "recv"
      /\ wpc' = IF pb'.count = 0 THEN "recv" ELSE IF closing THEN "drain" ELSE "flush"
  BY DEF FlusherRecv, TypeOK, FlushQTypes
<1>2. pb' \in Batches /\ 1 \in 1..Len(flushChan)
  BY <1>1 DEF TypeOK, FlushQTypes
<1>3. pb'.last - pb'.count = pb.last /\ pb'.count \in Nat /\ pb'.last \in Nat
  BY <1>1, <1>2 DEF IInv, InFlight, FlushLine, Batches
<1> QED BY <1>1, <1>3 DEF Front

LEMMA FrontType == ASSUME TypeOK, IInv PROVE Front \in Int /\ durable \in Nat /\ durable <= Front
BY DEF TypeOK, FlusherTypes, StoreTypes, Batches, Front, IInv, StoreLine

\* At boot everything stands at the stored cursor.
LEMMA BootFront ==
  ASSUME TypeOK, IInv, StartScan PROVE Front = durable /\ lastIndexed = durable
BY DEF StartScan, IInv, AtBoot, Idle, Front

LEMMA JumpLineStep == ASSUME TypeOK, IInv, [Next]_vars PROVE JumpLine'
<1>0. JumpLine /\ Front \in Int /\ durable \in Nat /\ durable <= Front /\ lastIndexed \in Nat
      /\ adding = NoCall /\ waived \subseteq Int
  BY FrontType DEF IInv, ProgressLine, StoreLine, TypeOK, SharedTypes, StoreTypes
<1>1. ASSUME UNCHANGED <<durable, waived, lastIndexed>>, Front' = Front
      PROVE  JumpLine'
  BY <1>0, <1>1 DEF JumpLine, Claims
<1>2. CASE UNCHANGED vars \/ ChainGrows \/ MonitorPoll \/ Stop \/ CloseStore
           \/ SingleSCIDBegin
  BY <1>1, <1>2 DEF vars, ChainGrows, MonitorPoll, Stop, CloseStore, SingleSCIDBegin, Front
<1>3. CASE SingleSCIDCommit
  BY <1>0, <1>3 DEF SingleSCIDCommit
<1>4. CASE Fetcher
  BY <1>1, <1>4 DEF Fetcher, FetcherExit, FetcherAtTip, FetcherBatch,
                    FetcherSpecHit, FetcherSpecMiss, FetcherSend, Front
<1>5. CASE Processor
  BY <1>1, <1>5 DEF Processor, ProcessorBreak, ProcessorSentinel, ProcessorBlocks,
                    ProcessorSend, ProcessorSendSentinel, ProcessorClose, Front
<1>6. CASE FlusherExit \/ FlusherPublish
  BY <1>1, <1>6 DEF FlusherExit, FlusherPublish, Front
<1>7. CASE FlusherRecv
  BY <1>1, <1>7, FrontKept DEF FlusherRecv
<1>8. CASE FlusherFlush \/ FlusherDrain
  <2>1. /\ wpc \in {"flush", "drain"}
        /\ FlushBatch(pb) \/ FlushError(pb)
        /\ UNCHANGED <<pb, waived, lastIndexed>> /\ wpc' \in {"advance", "recv"}
    BY <1>8 DEF FlusherFlush, FlusherDrain
  <2>2. Front = pb.last - pb.count /\ Front' = pb.last /\ pb.last \in Nat
        /\ pb.count \in Nat \ {0}
    BY <2>1 DEF Front, IInv, StoreLine, TypeOK, FlusherTypes, Batches
  <2>3. pb.last \notin waived
    BY <1>0, <2>2 DEF JumpLine
  <2>4. durable' \in {durable, pb.last}
    BY <2>1 DEF FlushBatch, FlushError
  <2>5. \A h \in waived : 0 < h /\ h <= Front'
    <3> SUFFICES ASSUME NEW h \in waived PROVE 0 < h /\ h <= Front'
      OBVIOUS
    <3>1. h \in Int /\ 0 < h /\ h <= Front
      BY <1>0 DEF JumpLine, TypeOK, StoreTypes
    <3> QED BY <2>2, <3>1
  <2> QED BY <1>0, <2>1, <2>3, <2>4, <2>5 DEF JumpLine, Claims
<1>9. CASE FlusherAdvance
  <2>1. /\ wpc = "advance" /\ lastIndexed' = pb.last /\ wpc' = "publish"
        /\ UNCHANGED <<pb, waived, durable>>
    BY <1>9 DEF FlusherAdvance
  <2>2. pb.last = durable /\ Front' = Front
    BY <2>1 DEF IInv, StoreLine, Front
  <2>3. lastIndexed' \in 0..lastIndexed' /\ Claims(lastIndexed)'
    BY <1>0, <2>1, <2>2 DEF Claims, JumpLine
  <2> QED BY <1>0, <2>1, <2>2, <2>3 DEF JumpLine
<1>10. CASE StartScan
  <2>1. Front = durable /\ lastIndexed = durable /\ UNCHANGED durable
    BY <1>10, BootFront DEF StartScan
  <2>2. CASE fpc' = "done"
    <3>1. UNCHANGED <<lastIndexed, pb, waived>> /\ wpc' = "done" /\ wpc = "boot"
      BY <1>10, <2>2, NoScanStart DEF StartScan, IInv, AtBoot, Idle
    <3> QED BY <1>1, <2>1, <3>1 DEF Front
  <2>3. CASE fpc' # "done"
    <3>1. PICK start \in Nat :
            /\ start >= lastIndexed /\ lastIndexed' = start
            /\ pb' = Processed(start, 0, {}) /\ wpc' = "recv"
            /\ waived' = waived \cup (lastIndexed + 1)..start
      BY <1>10, <2>3, ScanStart
    <3>2. Front' = start
      BY <3>1 DEF Front, Processed
    <3>3. durable' \notin waived'
      BY <1>0, <2>1, <3>1 DEF JumpLine
    <3>4. durable \in 0..lastIndexed' /\ Claims(durable)'
      BY <1>0, <2>1, <3>1, <3>3 DEF Claims
    <3>5. \A h \in waived' : 0 < h /\ h <= Front'
      <4> SUFFICES ASSUME NEW h \in waived' PROVE 0 < h /\ h <= Front'
        OBVIOUS
      <4>1. CASE h \in waived
        <5>1. h \in Int /\ 0 < h /\ h <= Front
          BY <1>0, <4>1 DEF JumpLine
        <5> QED BY <1>0, <2>1, <3>1, <3>2, <5>1
      <4>2. CASE h \in (lastIndexed + 1)..start
        BY <1>0, <3>2, <4>2
      <4> QED BY <3>1, <4>1, <4>2
    <3> QED BY <2>1, <3>3, <3>4, <3>5 DEF JumpLine, Claims
  <2> QED BY <2>2, <2>3
<1>11. CASE Restart
  <2>1. /\ lastIndexed' = durable /\ durable' = durable
        /\ waived' = {h \in waived : h <= durable}
        /\ pb' = Processed(durable, 0, {}) /\ wpc' = "boot"
    BY <1>11 DEF Restart
  <2>2. Front' = durable
    BY <2>1 DEF Front, Processed
  <2>3. durable' \in 0..lastIndexed' /\ Claims(durable)' /\ durable' \notin waived'
    BY <1>0, <2>1 DEF Claims, JumpLine
  <2> QED BY <1>0, <2>1, <2>2, <2>3 DEF JumpLine
<1> QED BY <1>2, <1>3, <1>4, <1>5, <1>6, <1>7, <1>8, <1>9, <1>10, <1>11
        DEF Next, Flusher

LEMMA LossLineStep == ASSUME TypeOK, IInv, [Next]_vars PROVE LossLine'
<1> SUFFICES ASSUME ~Lossy
             PROVE  /\ waived' = {}
                    /\ \A h \in lost' : h > durable'
                    /\ storeOpen' => lost' = {} /\ Front' = durable'
  BY DEF LossLine, Lossy
<1>0. /\ waived = {} /\ \A h \in lost : h > durable
      /\ storeOpen => lost = {} /\ Front = durable
      /\ Front \in Int /\ durable \in Nat /\ durable <= Front /\ adding = NoCall
      /\ lost \subseteq Int /\ storeOpen \in BOOLEAN
  BY FrontType DEF IInv, ProgressLine, LossLine, StoreLine, TypeOK, StoreTypes, FlagTypes
<1>00. MayLoseBlocks = FALSE /\ MayFailFlush = FALSE /\ RecentBlocks = 0
  BY SwitchAssumption, HeightAssumption DEF Lossy
<1>1. ASSUME UNCHANGED <<durable, waived, lost>>, storeOpen' => storeOpen, Front' = Front
      PROVE  /\ waived' = {}
             /\ \A h \in lost' : h > durable'
             /\ storeOpen' => lost' = {} /\ Front' = durable'
  BY <1>0, <1>1
<1>2. CASE UNCHANGED vars \/ ChainGrows \/ MonitorPoll \/ Stop \/ CloseStore
           \/ SingleSCIDBegin
  BY <1>1, <1>2 DEF vars, ChainGrows, MonitorPoll, Stop, CloseStore, SingleSCIDBegin, Front
<1>3. CASE SingleSCIDCommit
  BY <1>0, <1>3 DEF SingleSCIDCommit
<1>4. CASE FetcherExit \/ FetcherAtTip \/ FetcherSpecMiss \/ FetcherSend
  BY <1>1, <1>4 DEF FetcherExit, FetcherAtTip, FetcherSpecMiss, FetcherSend, Front
<1>5. CASE FetcherBatch \/ FetcherSpecHit
  <2>1. UNCHANGED <<durable, waived, storeOpen, wpc, pb>>
    BY <1>5 DEF FetcherBatch, FetcherSpecHit
  <2>2. PICK count \in Nat \ {0} : Fetch(nextHeight + 1, count)
    BY <1>5, FetchAsks
  <2>3. lost' = lost
    BY <1>00, <2>2 DEF Fetch, Arrivals
  <2> QED BY <1>1, <2>1, <2>3 DEF Front
<1>6. CASE Processor
  BY <1>1, <1>6 DEF Processor, ProcessorBreak, ProcessorSentinel, ProcessorBlocks,
                    ProcessorSend, ProcessorSendSentinel, ProcessorClose, Front
<1>7. CASE FlusherExit \/ FlusherPublish
  BY <1>1, <1>7 DEF FlusherExit, FlusherPublish, Front
<1>13. CASE FlusherAdvance
  BY <1>1, <1>13 DEF FlusherAdvance, Front
<1>8. CASE FlusherRecv
  BY <1>1, <1>8, FrontKept DEF FlusherRecv
<1>9. CASE FlusherFlush \/ FlusherDrain
  <2>1. /\ wpc \in {"flush", "drain"}
        /\ FlushBatch(pb) \/ FlushError(pb)
        /\ UNCHANGED <<pb, waived, storeOpen>> /\ wpc' \in {"advance", "recv"}
    BY <1>9 DEF FlusherFlush, FlusherDrain
  <2>2. Front = pb.last - pb.count /\ Front' = pb.last /\ pb.last \in Nat
        /\ pb.count \in Nat \ {0}
    BY <2>1 DEF Front, IInv, StoreLine, TypeOK, FlusherTypes, Batches
  <2>3. CASE FlushBatch(pb)
    <3>1. storeOpen /\ durable' = pb.last /\ lost' = lost
      BY <1>0, <2>2, <2>3 DEF FlushBatch
    <3> QED BY <1>0, <2>1, <2>2, <3>1
  <2>4. CASE FlushError(pb)
    <3>1. ~storeOpen /\ durable' = durable /\ lost' = lost \cup Span(pb)
      BY <1>00, <2>4 DEF FlushError
    <3>2. \A h \in Span(pb) : h > durable
      BY <1>0, <2>2 DEF Span
    <3> QED BY <1>0, <2>1, <3>1, <3>2
  <2> QED BY <2>1, <2>3, <2>4
<1>10. CASE StartScan
  <2>1. Front = durable /\ lastIndexed = durable /\ UNCHANGED <<durable, lost, storeOpen>>
    BY <1>10, BootFront DEF StartScan
  <2>2. CASE fpc' = "done"
    <3>1. UNCHANGED <<lastIndexed, pb, waived>> /\ wpc' = "done" /\ wpc = "boot"
      BY <1>10, <2>2, NoScanStart DEF StartScan, IInv, AtBoot, Idle
    <3> QED BY <1>1, <2>1, <3>1 DEF Front
  <2>3. CASE fpc' # "done"
    <3>1. /\ pb' = Processed(lastIndexed, 0, {}) /\ wpc' = "recv"
          /\ waived' = waived \cup (lastIndexed + 1)..lastIndexed
      BY <1>00, <1>10, <2>3, ScanStart
    <3>2. Front' = durable
      BY <2>1, <3>1 DEF Front, Processed
    <3> QED BY <1>0, <2>1, <3>1, <3>2
  <2> QED BY <2>2, <2>3
<1>11. CASE Restart
  <2>1. /\ durable' = durable /\ waived' = {h \in waived : h <= durable}
        /\ lost' = {h \in lost : h <= durable}
        /\ pb' = Processed(durable, 0, {}) /\ wpc' = "boot"
    BY <1>11 DEF Restart
  <2>2. Front' = durable
    BY <2>1 DEF Front, Processed
  <2>3. \A h \in lost : ~(h <= durable)
    BY <1>0
  <2>4. lost' = {}
    BY <2>1, <2>3
  <2> QED BY <1>0, <2>1, <2>2, <2>4
<1> QED BY <1>2, <1>3, <1>4, <1>5, <1>6, <1>7, <1>8, <1>9, <1>10, <1>11, <1>13
        DEF Next, Fetcher, Flusher

LEMMA ProgressLineStep == ASSUME TypeOK, IInv, [Next]_vars PROVE ProgressLine'
BY EventLineStep, ChainLineStep, JumpLineStep, LossLineStep DEF ProgressLine, IInv

-----------------------------------------------------------------------------
(* The theorems.                                                           *)

LEMMA InitInv == ASSUME SingleSCIDs = FALSE PROVE Init => IInv
<1> SUFFICES ASSUME Init PROVE IInv
  OBVIOUS
<1>1. /\ flushChan = <<>> /\ fetchChan = <<>> /\ pb = Processed(0, 0, {})
      /\ fb = Fetched(1, 0, {}) /\ runningHeight = 0 /\ nextHeight = 0
      /\ durable = 0 /\ lastIndexed = 0
      /\ safeHeight = 0 /\ adding = NoCall /\ commits = [h \in Heights |-> 0]
      /\ fpc = "boot" /\ ppc = "boot" /\ wpc = "boot"
  BY DEF Init
<1>2. InFlight /\ Idle
  BY InFlightInit
<1>3. AtBoot
  BY <1>1, <1>2 DEF AtBoot, Processed
<1>4. StoreLine /\ CountedOnce
  BY <1>1 DEF StoreLine, CountedOnce, Front, Processed, Accounted
<1>5. ClaimsPersisted /\ SafeBehindIndexed
  BY <1>1, HeightAssumption DEF ClaimsPersisted, SafeBehindIndexed, Larger
<1>6. published = {} /\ lost = {} /\ waived = {} /\ Front = 0
  BY <1>1 DEF Init, Front, Processed
<1>7. EventLine /\ LossLine
  BY <1>1, <1>6 DEF EventLine, PublishedCommitted, LossLine
<1>8. ChainLine /\ JumpLine
  BY <1>1, <1>6, HeightAssumption
  DEF ChainLine, JumpLine, Claims, Processed, Fetched
<1> QED BY <1>2, <1>3, <1>4, <1>5, <1>7, <1>8 DEF IInv, ProgressLine

LEMMA InvStep ==
  ASSUME SingleSCIDs = FALSE, TypeOK, IInv, [Next]_vars PROVE IInv'
<1>1. InFlight'
  BY InFlightStep DEF IInv, AtBoot
<1>2. AtBoot'
  BY AtBootStep
<1>3. StoreInv' /\ ProgressLine'
  BY StoreInvStep, ProgressLineStep
<1> QED BY <1>1, <1>2, <1>3 DEF IInv, StoreInv

\* The inductive invariant holds in every reachable state when no
\* IndexSingleSCID call runs beside the scan.
THEOREM Invariant == ASSUME SingleSCIDs = FALSE PROVE Spec => []IInv
<1>1. Init => IInv
  BY InitInv
<1>2. TypeOK /\ IInv /\ [Next]_vars => IInv'
  BY InvStep
<1> QED BY <1>1, <1>2, TypeCorrect, PTL DEF Spec

\* The stored cursor passes over no block unnoticed, whatever the sizes of the
\* batches, the losses, the shutdowns and the crashes.
THEOREM CursorHasNoGaps == ASSUME SingleSCIDs = FALSE PROVE Spec => []GapFree
<1>1. TypeOK /\ IInv => GapFree
  <2> SUFFICES ASSUME TypeOK, IInv PROVE GapFree
    OBVIOUS
  <2>1. durable \in Nat /\ Front \in Int /\ durable <= Front
    BY DEF TypeOK, StoreTypes, FlusherTypes, Batches, IInv, StoreLine, Front
  <2> QED BY <2>1 DEF IInv, StoreLine, GapFree
<1> QED BY <1>1, Invariant, TypeCorrect, PTL

\* No block's data is committed twice, so no transaction is counted twice.
THEOREM NoDoubleCount == ASSUME SingleSCIDs = FALSE PROVE Spec => []CountedOnce
<1>1. IInv => CountedOnce
  BY DEF IInv
<1> QED BY <1>1, Invariant, PTL

\* The height reported to clients is persisted, or is where the scan started.
THEOREM ClaimsArePersisted == ASSUME SingleSCIDs = FALSE PROVE Spec => []ClaimsPersisted
<1>1. IInv => ClaimsPersisted
  BY DEF IInv
<1> QED BY <1>1, Invariant, PTL

\* The safe height never comes closer than the finality depth to the indexed
\* height.
THEOREM SafeHeightTrails == ASSUME SingleSCIDs = FALSE PROVE Spec => []SafeBehindIndexed
<1>1. IInv => SafeBehindIndexed
  BY DEF IInv
<1> QED BY <1>1, Invariant, PTL

\* What the events announced is committed: on the bus are only blocks whose
\* transaction went through, whatever is called, stopped or restarted meanwhile.
THEOREM EventsAreCommitted == Spec => []PublishedCommitted
<1>1. Init => EventLine
  BY DEF Init, EventLine, PublishedCommitted
<1>2. TypeOK /\ EventLine /\ [Next]_vars => EventLine'
  BY EventLineStep
<1>3. EventLine => PublishedCommitted
  BY DEF EventLine
<1> QED BY <1>1, <1>2, <1>3, TypeCorrect, PTL DEF Spec

\* fsync is turned on, and the refresher started, by a sentinel that has no block
\* before it in flight: all up to it has been through FlushBatch.
THEOREM SentinelIsLast == ASSUME SingleSCIDs = FALSE PROVE Spec => SyncAfterData
<1>1. ASSUME TypeOK, IInv, [Next]_vars
      PROVE  [(~synced /\ synced') => \A h \in 1..pb'.last : h \in Accounted]_vars
  <2> SUFFICES ASSUME Next, ~synced, synced'
               PROVE  \A h \in 1..pb'.last : h \in Accounted
    BY <1>1
  <2>1. CASE FlusherRecv
    <3>1. pb'.count = 0
      BY Zenon, <2>1 DEF FlusherRecv
    <3>2. Front' = pb'.last
      BY <2>1, <3>1 DEF FlusherRecv, Front
    <3>3. Front = pb'.last
      BY <1>1, <2>1, <3>2, FrontKept
    <3> QED BY <1>1, <3>3 DEF IInv, StoreLine
  <2>2. CASE ~FlusherRecv
    <3>1. synced' = synced \/ synced' = FALSE
      <4>1. CASE ChainGrows \/ MonitorPoll \/ Stop \/ CloseStore \/ StartScan
                 \/ SingleSCIDBegin \/ SingleSCIDCommit \/ Restart
        BY Zenon, <4>1 DEF ChainGrows, MonitorPoll, Stop, CloseStore, StartScan,
                    SingleSCIDBegin, SingleSCIDCommit, Restart
      <4>2. CASE Fetcher
        BY Zenon, <4>2 DEF Fetcher, FetcherExit, FetcherAtTip, FetcherBatch,
                    FetcherSpecHit, FetcherSpecMiss, FetcherSend
      <4>3. CASE Processor
        BY Zenon, <4>3 DEF Processor, ProcessorBreak, ProcessorSentinel, ProcessorBlocks,
                    ProcessorSend, ProcessorSendSentinel, ProcessorClose
      <4>4. CASE FlusherExit \/ FlusherFlush \/ FlusherDrain \/ FlusherAdvance
                 \/ FlusherPublish
        BY Zenon, <4>4 DEF FlusherExit, FlusherFlush, FlusherDrain, FlusherAdvance,
                    FlusherPublish
      <4> QED BY <2>2, <4>1, <4>2, <4>3, <4>4 DEF Next, Flusher
    <3> QED BY <3>1
  <2> QED BY <2>1, <2>2
<1> QED BY <1>1, Invariant, TypeCorrect, PTL DEF Spec, SyncAfterData

-----------------------------------------------------------------------------
(* The refinement of IndexProgress.                                        *)

\* There is one height to claim: below it nothing waived is left out, above it
\* everything is waived.
LEMMA OneClaim ==
  ASSUME NEW top \in Nat, NEW jumped, NEW h \in 0..top,
         h \notin jumped, (h + 1)..top \subseteq jumped
  PROVE  (CHOOSE k \in 0..top : k \notin jumped /\ (k + 1)..top \subseteq jumped) = h
<1>1. ASSUME NEW k \in 0..top, k \notin jumped, (k + 1)..top \subseteq jumped PROVE k = h
  <2>1. ~(k < h)
    <3> SUFFICES ASSUME k < h PROVE FALSE
      OBVIOUS
    <3>1. h \in (k + 1)..top
      OBVIOUS
    <3> QED BY <1>1, <3>1
  <2>2. ~(h < k)
    <3> SUFFICES ASSUME h < k PROVE FALSE
      OBVIOUS
    <3>1. k \in (h + 1)..top
      OBVIOUS
    <3> QED BY <1>1, <3>1
  <2> QED BY <2>1, <2>2
<1> DEFINE Is(k) == k \notin jumped /\ (k + 1)..top \subseteq jumped
<1>2. Is(h) /\ \A k \in 0..top : Is(k) => k = h
  BY <1>1
<1> HIDE DEF Is
<1>3. (CHOOSE k \in 0..top : Is(k)) = h
  BY <1>2
<1> QED BY <1>3 DEF Is

\* What is claimed is the reported height, unless that was jumped to.
LEMMA ClaimReported ==
  ASSUME TypeOK, lastIndexed \notin waived PROVE Claimed = lastIndexed
<1>1. lastIndexed \in Nat /\ lastIndexed \in 0..lastIndexed
      /\ (lastIndexed + 1)..lastIndexed \subseteq waived
  BY DEF TypeOK, SharedTypes
<1> QED BY <1>1, OneClaim DEF Claimed, Claims

\* A commit of the flusher is a Commit of the abstract index.
LEMMA FlushCommits ==
  ASSUME TypeOK, IInv, wpc \in {"flush", "drain"}, FlushBatch(pb),
         UNCHANGED <<lastIndexed, waived>>
  PROVE  Abstract!Commit
<1>1. /\ pb.last \in Nat /\ pb.count \in Nat \ {0} /\ pb.blocks \subseteq Heights
      /\ Front = pb.last - pb.count /\ durable \in Nat /\ durable <= Front
      /\ commits \in [Heights -> Nat] /\ pb.last <= MaxHeight
  BY DEF TypeOK, FlusherTypes, StoreTypes, Batches, IInv, StoreLine, Front,
         ProgressLine, ChainLine
<1>2. /\ durable' = pb.last
      /\ commits' = [h \in Heights |-> commits[h] + IF h \in pb.blocks THEN 1 ELSE 0]
      /\ storeOpen
  BY <1>1 DEF FlushBatch
<1>3. pb.last \in (durable + 1)..MaxHeight
  BY <1>1, HeightAssumption
<1>4. Span(pb) = (Front + 1)..pb.last /\ pb.blocks \subseteq Span(pb)
      /\ Span(pb) \subseteq pb.blocks \cup lost
  BY <1>1 DEF IInv, InFlight, Contents, Carries, Span
<1>5. pb.blocks \in SUBSET ((durable + 1)..pb.last)
  BY <1>1, <1>4
<1>6. Lossy \/ pb.blocks = (durable + 1)..pb.last
  <2> SUFFICES ASSUME ~Lossy PROVE pb.blocks = (durable + 1)..pb.last
    OBVIOUS
  <2>1. lost = {} /\ Front = durable
    BY <1>2 DEF IInv, ProgressLine, LossLine
  <2> QED BY <1>4, <2>1
<1>7. Indexed' = Indexed \cup pb.blocks
  <2>1. ASSUME NEW h \in Heights
        PROVE  commits'[h] > 0 <=> (commits[h] > 0 \/ h \in pb.blocks)
    <3>1. commits[h] \in Nat /\ commits'[h] = commits[h] + IF h \in pb.blocks THEN 1 ELSE 0
      BY <1>1, <1>2
    <3> QED BY <3>1
  <2> QED BY <1>1, <2>1 DEF Indexed
<1>8. UNCHANGED Claimed
  BY DEF Claimed, Claims
<1> QED BY <1>2, <1>3, <1>5, <1>6, <1>7, <1>8 DEF Abstract!Commit

LEMMA AbstractInit == Init => Abstract!Start
<1> SUFFICES ASSUME Init PROVE Abstract!Start
  OBVIOUS
<1>1. durable = 0 /\ commits = [h \in Heights |-> 0] /\ lastIndexed = 0 /\ waived = {}
  BY DEF Init
<1>2. Indexed = {}
  BY <1>1 DEF Indexed
<1>3. Claimed = 0
  BY <1>1, OneClaim DEF Claimed, Claims
<1> QED BY <1>1, <1>2, <1>3 DEF Abstract!Start

LEMMA AbstractStep ==
  ASSUME TypeOK, TypeOK', IInv, IInv', [Next]_vars
  PROVE  [Abstract!Commit \/ Abstract!Report]_(Abstract!progressVars)
<1> USE DEF Abstract!progressVars
<1>1. ASSUME UNCHANGED <<durable, commits, lastIndexed, waived>>
      PROVE  UNCHANGED Abstract!progressVars
  BY <1>1 DEF Indexed, Claimed, Claims
<1>2. CASE UNCHANGED vars \/ ChainGrows \/ MonitorPoll \/ Stop \/ CloseStore
           \/ SingleSCIDBegin
  BY <1>1, <1>2 DEF vars, ChainGrows, MonitorPoll, Stop, CloseStore, SingleSCIDBegin
<1>3. CASE SingleSCIDCommit
  BY <1>3 DEF SingleSCIDCommit, IInv, StoreLine
<1>4. CASE Fetcher
  BY <1>1, <1>4 DEF Fetcher, FetcherExit, FetcherAtTip, FetcherBatch,
                    FetcherSpecHit, FetcherSpecMiss, FetcherSend
<1>5. CASE Processor
  BY <1>1, <1>5 DEF Processor, ProcessorBreak, ProcessorSentinel, ProcessorBlocks,
                    ProcessorSend, ProcessorSendSentinel, ProcessorClose
<1>6. CASE FlusherExit \/ FlusherRecv \/ FlusherPublish
  BY <1>1, <1>6 DEF FlusherExit, FlusherRecv, FlusherPublish
<1>7. CASE FlusherFlush \/ FlusherDrain
  <2>1. /\ wpc \in {"flush", "drain"}
        /\ FlushBatch(pb) \/ FlushError(pb)
        /\ UNCHANGED <<lastIndexed, waived>>
    BY <1>7 DEF FlusherFlush, FlusherDrain
  <2>2. CASE FlushBatch(pb)
    BY <2>1, <2>2, FlushCommits
  <2>3. CASE FlushError(pb)
    BY <1>1, <2>1, <2>3 DEF FlushError
  <2> QED BY <2>1, <2>2, <2>3
<1>8. ASSUME lastIndexed' = durable, UNCHANGED <<durable, commits>>
      PROVE  Abstract!Report
  <2>1. durable' \notin waived'
    BY DEF IInv, ProgressLine, JumpLine
  <2>2. durable \in 0..lastIndexed' /\ durable \notin waived' /\ lastIndexed' \in Nat
        /\ (durable + 1)..lastIndexed' \subseteq waived'
    BY <1>8, <2>1 DEF TypeOK, SharedTypes
  <2>3. Claimed' = durable
    BY <2>2, OneClaim DEF Claimed, Claims
  <2> QED BY <1>8, <2>3 DEF Abstract!Report, Indexed
<1>9. CASE FlusherAdvance
  <2>1. pb.last = durable
    BY <1>9 DEF FlusherAdvance, IInv, StoreLine
  <2> QED BY <1>8, <1>9, <2>1 DEF FlusherAdvance
<1>10. CASE Restart
  BY <1>8, <1>10 DEF Restart
<1>11. CASE StartScan
  <2>1. lastIndexed = durable /\ UNCHANGED <<durable, commits>>
    BY <1>11, BootFront DEF StartScan
  <2>2. CASE fpc' = "done"
    BY <1>1, <1>11, <2>1, <2>2, NoScanStart
  <2>3. CASE fpc' # "done"
    <3>1. PICK start \in Nat :
            /\ start >= lastIndexed /\ lastIndexed' = start
            /\ waived' = waived \cup (lastIndexed + 1)..start
      BY <1>11, <2>3, ScanStart
    <3>2. durable \in Nat /\ durable \notin waived /\ durable \notin waived'
      BY <2>1 DEF IInv, ProgressLine, JumpLine, TypeOK, StoreTypes
    <3>3. Claimed = durable
      BY <2>1, <3>2, ClaimReported
    <3>4. durable \in 0..lastIndexed' /\ (durable + 1)..lastIndexed' \subseteq waived'
          /\ lastIndexed' \in Nat
      BY <2>1, <3>1, <3>2
    <3>5. Claimed' = durable
      BY <3>2, <3>4, OneClaim DEF Claimed, Claims
    <3> QED BY <2>1, <3>3, <3>5 DEF Indexed
  <2> QED BY <2>2, <2>3
<1> QED BY <1>2, <1>3, <1>4, <1>5, <1>6, <1>7, <1>9, <1>10, <1>11
        DEF Next, Flusher

\* The safe height falls only where a crash undoes a jump.
LEMMA SafeStep ==
  ASSUME TypeOK, IInv, [Next]_vars PROVE [SafeKept]_vars
<1>0. lastIndexed \in Nat /\ safeHeight \in Nat /\ durable \in Nat /\ pb.last \in Nat
      /\ safeHeight <= Larger(lastIndexed - FinalityDepth, 0)
  BY DEF TypeOK, SharedTypes, StoreTypes, FlusherTypes, Batches, IInv, SafeBehindIndexed
<1>1. ASSUME UNCHANGED safeHeight PROVE SafeKept
  BY <1>0, <1>1 DEF SafeKept
<1>2. CASE ChainGrows \/ MonitorPoll \/ Stop \/ CloseStore \/ StartScan
           \/ SingleSCIDBegin \/ SingleSCIDCommit
  BY <1>1, <1>2 DEF ChainGrows, MonitorPoll, Stop, CloseStore, StartScan,
                    SingleSCIDBegin, SingleSCIDCommit
<1>3. CASE Fetcher
  BY <1>1, <1>3 DEF Fetcher, FetcherExit, FetcherAtTip, FetcherBatch,
                    FetcherSpecHit, FetcherSpecMiss, FetcherSend
<1>4. CASE Processor
  BY <1>1, <1>4 DEF Processor, ProcessorBreak, ProcessorSentinel, ProcessorBlocks,
                    ProcessorSend, ProcessorSendSentinel, ProcessorClose
<1>5. CASE FlusherExit \/ FlusherRecv \/ FlusherFlush \/ FlusherDrain \/ FlusherAdvance
  BY <1>1, <1>5 DEF FlusherExit, FlusherRecv, FlusherFlush, FlusherDrain, FlusherAdvance
<1>6. CASE FlusherPublish
  <2>1. safeHeight' = Larger(pb.last - FinalityDepth, 0) /\ lastIndexed = pb.last
    BY <1>6 DEF FlusherPublish, IInv, StoreLine
  <2> QED BY <1>0, <2>1, HeightAssumption DEF SafeKept, Larger
<1>7. CASE Restart
  <2>1. safeHeight' = Larger(durable - FinalityDepth, 0)
    BY <1>7 DEF Restart
  <2>2. lastIndexed \in waived \/ lastIndexed <= durable
    BY DEF IInv, ClaimsPersisted
  <2> QED BY <1>0, <2>1, <2>2, HeightAssumption DEF SafeKept, Larger
<1> QED BY <1>2, <1>3, <1>4, <1>5, <1>6, <1>7 DEF Next, Flusher

\* The pipeline implements IndexProgress: every step of its goroutines, and every
\* crash and restart, is a commit, a report, or nothing the store and the clients
\* can see.
THEOREM Implements == ASSUME SingleSCIDs = FALSE PROVE Spec => ImplementsProgress
<1>1. Init => Abstract!Start
  BY AbstractInit
<1>2. TypeOK /\ TypeOK' /\ IInv /\ IInv' /\ [Next]_vars
      => [Abstract!Commit \/ Abstract!Report]_(Abstract!progressVars)
  BY AbstractStep
<1>3. TypeOK /\ IInv /\ [Next]_vars => [SafeKept]_vars
  BY SafeStep
<1>4. Spec => Abstract!Progress
  BY <1>1, <1>2, Invariant, TypeCorrect, PTL DEF Spec, Abstract!Progress
<1>5. Spec => [][SafeKept]_vars
  BY <1>3, Invariant, TypeCorrect, PTL DEF Spec
<1> QED BY <1>4, <1>5 DEF ImplementsProgress
=============================================================================
