---------------------------- MODULE ScanPipeline ----------------------------
(***************************************************************************)
(* The three-stage scan pipeline of the HyperGnomon indexer                *)
(* (internal/fork/hypergnomon/indexer/indexer.go), with the goroutines     *)
(* that share its atomics: the chain-height monitor, the one-shot indexing *)
(* of a single contract, the shutdown calls, and a process that may die    *)
(* and start again between any two steps.                                  *)
(*                                                                         *)
(*    fetcher -- fetchChan (2) --> processor -- flushChan (2) --> flusher  *)
(*                                                                         *)
(* A block is its height.  What the index holds of a block (hash, counts,  *)
(* contract rows) is one datum, present when FlushBatch committed it.      *)
(***************************************************************************)
EXTENDS Integers, Sequences

CONSTANTS
  MaxHeight,      \* bound on the height the daemon's chain reaches
  InitChain,      \* height of the daemon's chain when the node is started
  ParallelBlocks, \* idx.ParallelBlocks, blocks asked for per batch call
  BatchSize,      \* idx.BatchSize, blocks per storage transaction
  AdaptBatchSize, \* idx.AdaptBatchSize
  MinBatch,       \* minAdaptiveBatchSize
  MaxBatch,       \* maxAdaptiveBatchSize
  FinalityDepth,  \* idx.FinalityDepth
  RecentBlocks,   \* idx.RecentBlocks, 0 turns the quick scan off
  MayLoseBlocks,  \* the daemon may answer without a block or its transactions
  MayFailFlush,   \* a storage transaction may fail
  SingleSCIDs,    \* IndexSingleSCID is called while the scan runs
  MaxRestarts     \* bound on the number of times the process dies

ASSUME HeightAssumption ==
  /\ MaxHeight \in Nat /\ InitChain \in 0..MaxHeight
  /\ FinalityDepth \in Nat \ {0} /\ RecentBlocks \in Nat
ASSUME BatchAssumption ==
  /\ ParallelBlocks \in Nat \ {0} /\ BatchSize \in Nat \ {0}
  /\ MinBatch \in Nat \ {0} /\ MaxBatch \in Nat \ {0}
ASSUME SwitchAssumption ==
  /\ AdaptBatchSize \in BOOLEAN /\ MayLoseBlocks \in BOOLEAN
  /\ MayFailFlush \in BOOLEAN /\ SingleSCIDs \in BOOLEAN /\ MaxRestarts \in Nat

VARIABLES
  chain,          \* the daemon's top height
  chainHeight,    \* idx.ChainHeight
  closing,        \* idx.Closing
  storeOpen,      \* the storage handle is open
  lastIndexed,    \* idx.LastIndexedHeight
  safeHeight,     \* idx.SafeHeight
  batchSize,      \* idx.adaptiveBatchSize
  fpc, nextHeight, caughtUp, fb,                  \* fetcherLoop's locals
  fetchChan, fetchClosed,
  ppc, batch, blocksInBatch, syncSignaled, runningHeight, \* processorLoop's
  flushChan, flushClosed,
  wpc, pb,                                        \* flusherLoop's
  synced,         \* idx.syncedOnce: EnableSync ran, the refresher is started
  adding,         \* height IndexSingleSCID will write, or NoCall
  durable,        \* "lastindexedheight" in the store
  commits,        \* per block, how many committed transactions carried it
  published,      \* blocks whose events went to the bus
  lost,           \* history: blocks a fetch came back without, or a flush failed on
  waived,         \* history: blocks the quick scan jumped over
  restarts

atomics   == <<chainHeight, closing, storeOpen, lastIndexed, safeHeight, batchSize>>
fetcher   == <<fpc, nextHeight, caughtUp, fb>>
fetchQ    == <<fetchChan, fetchClosed>>
processor == <<ppc, batch, blocksInBatch, syncSignaled, runningHeight>>
flushQ    == <<flushChan, flushClosed>>
flusher   == <<wpc, pb, synced>>
store     == <<durable, commits>>
history   == <<lost, waived, restarts>>
vars == <<chain, atomics, fetcher, fetchQ, processor, flushQ, flusher,
          adding, store, published, history>>

Heights == 1..MaxHeight
NoCall  == -1
ChanCap == 2      \* make(chan ..., 2), both channels

Larger(a, b)  == IF a > b THEN a ELSE b
Smaller(a, b) == IF a < b THEN a ELSE b

\* fetchedBatch: `count` heights from `first` on, of which `blocks` carry
\* their data.  The caught-up sentinel has count 0 (its `first`, unset in the
\* code and never read, is kept at the cursor).
Fetched(first, count, blocks) == [first |-> first, count |-> count, blocks |-> blocks]
\* processedBatch: `count` heights up to `last`; the sentinel has count 0.
Processed(last, count, blocks) == [last |-> last, count |-> count, blocks |-> blocks]
EmptyBatch == [last |-> 0, blocks |-> {}]

\* The heights a processed batch stands for.
Span(b) == (b.last - b.count + 1)..b.last

\* The blocks of a span that arrive whole: a nil or unparsable block, or a
\* failed GetTransaction, is logged and skipped.
Arrivals(S) == IF MayLoseBlocks THEN SUBSET S ELSE {S}

NextAdaptiveBatchSize(pace, size) ==
  IF pace = "fast" /\ size < MaxBatch THEN Smaller(size * 2, MaxBatch)
  ELSE IF pace = "slow" /\ size > MinBatch THEN Larger(size \div 2, MinBatch)
  ELSE size

CurrentBatchSize == IF AdaptBatchSize THEN batchSize ELSE BatchSize

-----------------------------------------------------------------------------
(* New: a fresh indexer restores its heights from the store.               *)

Init ==
  /\ chain = InitChain
  /\ chainHeight = 0 /\ closing = FALSE /\ storeOpen = TRUE
  /\ lastIndexed = 0
  /\ safeHeight = 0
  /\ batchSize = BatchSize
  /\ fpc = "boot" /\ nextHeight = 0 /\ caughtUp = FALSE
  /\ fb = Fetched(1, 0, {})
  /\ fetchChan = <<>> /\ fetchClosed = FALSE
  /\ ppc = "boot" /\ batch = EmptyBatch /\ blocksInBatch = 0
  /\ syncSignaled = FALSE /\ runningHeight = 0
  /\ flushChan = <<>> /\ flushClosed = FALSE
  /\ wpc = "boot" /\ pb = Processed(0, 0, {}) /\ synced = FALSE
  /\ adding = NoCall
  /\ durable = 0 /\ commits = [h \in Heights |-> 0]
  /\ published = {} /\ lost = {} /\ waived = {} /\ restarts = 0

\* The process dies, at any point, and is started again: all that is left is
\* the store.  Blocks above the stored cursor will be scanned again.
Restart ==
  /\ restarts < MaxRestarts
  /\ restarts' = restarts + 1
  /\ UNCHANGED <<chain, store, published>>
  /\ chainHeight' = 0 /\ closing' = FALSE /\ storeOpen' = TRUE
  /\ lastIndexed' = durable
  /\ safeHeight' = Larger(durable - FinalityDepth, 0)
  /\ batchSize' = BatchSize
  /\ fpc' = "boot" /\ nextHeight' = durable /\ caughtUp' = FALSE
  /\ fb' = Fetched(durable + 1, 0, {})
  /\ fetchChan' = <<>> /\ fetchClosed' = FALSE
  /\ ppc' = "boot" /\ batch' = EmptyBatch /\ blocksInBatch' = 0
  /\ syncSignaled' = FALSE /\ runningHeight' = durable
  /\ flushChan' = <<>> /\ flushClosed' = FALSE
  /\ wpc' = "boot" /\ pb' = Processed(durable, 0, {}) /\ synced' = FALSE
  /\ adding' = NoCall
  /\ lost' = {h \in lost : h <= durable}
  /\ waived' = {h \in waived : h <= durable}

-----------------------------------------------------------------------------
(* The daemon, the monitor and the calls that stop the indexer.            *)

ChainGrows ==
  /\ chain < MaxHeight
  /\ chain' = chain + 1
  /\ UNCHANGED <<atomics, fetcher, fetchQ, processor, flushQ, flusher,
                 adding, store, published, history>>

\* monitorChainHeight: one successful poll.
MonitorPoll ==
  /\ ~closing
  /\ chainHeight # chain
  /\ chainHeight' = chain
  /\ UNCHANGED <<chain, closing, storeOpen, lastIndexed, safeHeight, batchSize,
                 fetcher, fetchQ, processor, flushQ, flusher, adding, store,
                 published, history>>

\* StopSync and Close: the first thing they do is raise Closing.
Stop ==
  /\ ~closing
  /\ closing' = TRUE
  /\ UNCHANGED <<chain, chainHeight, storeOpen, lastIndexed, safeHeight,
                 batchSize, fetcher, fetchQ, processor, flushQ, flusher,
                 adding, store, published, history>>

\* Close goes on to close the store without waiting for the pipeline.
CloseStore ==
  /\ closing /\ storeOpen
  /\ storeOpen' = FALSE
  /\ UNCHANGED <<chain, chainHeight, closing, lastIndexed, safeHeight,
                 batchSize, fetcher, fetchQ, processor, flushQ, flusher,
                 adding, store, published, history>>

\* StartDaemonMode: wait for the first height, jump to the recent blocks when
\* the quick scan is on, then start the three goroutines.
StartScan ==
  /\ fpc = "boot"
  /\ \/ /\ chainHeight = 0 /\ closing
        /\ fpc' = "done" /\ ppc' = "done" /\ wpc' = "done"
        /\ UNCHANGED <<lastIndexed, nextHeight, runningHeight, fb, pb, waived>>
     \/ /\ chainHeight # 0
        /\ fpc' = "top" /\ ppc' = "recv" /\ wpc' = "recv"
        /\ LET skipTo == chainHeight - RecentBlocks
               start  == IF RecentBlocks > 0 THEN Larger(skipTo, lastIndexed)
                                             ELSE lastIndexed
           IN  /\ lastIndexed' = start
               /\ nextHeight' = start /\ runningHeight' = start
               /\ fb' = Fetched(start + 1, 0, {})
               /\ pb' = Processed(start, 0, {})
               /\ waived' = waived \cup (lastIndexed + 1)..start
  /\ UNCHANGED <<chain, chainHeight, closing, storeOpen, safeHeight, batchSize,
                 caughtUp, fetchQ, batch, blocksInBatch, syncSignaled, flushQ,
                 synced, adding, store, published, lost, restarts>>

-----------------------------------------------------------------------------
(* fetcherLoop.  An RPC error sleeps and retries: it changes nothing.      *)

FetcherRest == UNCHANGED <<chain, atomics, processor, flushQ, flusher, adding,
                           store, published, waived, restarts>>

\* The blocks of `count` heights from `first` on are fetched; those that did not
\* arrive whole are given up on.
Fetch(first, count) ==
  \E got \in Arrivals(first..(first + count - 1)) :
    /\ fb' = Fetched(first, count, got)
    /\ lost' = lost \cup (first..(first + count - 1) \ got)

\* The loop condition: Closing ends the loop and closes fetchChan.
FetcherExit ==
  /\ fpc = "top" /\ closing
  /\ fpc' = "done" /\ fetchClosed' = TRUE
  /\ UNCHANGED <<nextHeight, caughtUp, fb, fetchChan, lost>> /\ FetcherRest

\* At the tip: the first time, a sentinel goes downstream before the
\* speculative fetch of the next block.
FetcherAtTip ==
  /\ fpc = "top" /\ ~closing /\ nextHeight >= chainHeight
  /\ caughtUp' = TRUE
  /\ IF caughtUp THEN fpc' = "spec" /\ fb' = fb
     ELSE fpc' = "sendSentinel" /\ fb' = Fetched(nextHeight + 1, 0, {})
  /\ UNCHANGED <<nextHeight, fetchQ, lost>> /\ FetcherRest

\* Below the tip: one batch of blocks, then their transactions.
FetcherBatch ==
  /\ fpc = "top" /\ ~closing /\ nextHeight < chainHeight
  /\ Fetch(nextHeight + 1, Smaller(ParallelBlocks, chainHeight - nextHeight))
  /\ caughtUp' = FALSE /\ fpc' = "send"
  /\ UNCHANGED <<nextHeight, fetchQ>> /\ FetcherRest

\* The speculative fetch finds a block (Closing is not read again here) ...
FetcherSpecHit ==
  /\ fpc = "spec" /\ chain > nextHeight
  /\ Fetch(nextHeight + 1, 1)
  /\ caughtUp' = FALSE /\ fpc' = "send"
  /\ UNCHANGED <<nextHeight, fetchQ>> /\ FetcherRest

\* ... or fails, or finds one that does not parse.
FetcherSpecMiss ==
  /\ fpc = "spec"
  /\ fpc' = "top"
  /\ UNCHANGED <<nextHeight, caughtUp, fb, fetchQ, lost>> /\ FetcherRest

\* Mutant: a send that does not wait for room in the channel.
FetcherSendNoWait ==
  /\ fpc \in {"sendSentinel", "send"}
  /\ fetchChan' = Append(fetchChan, fb)
  /\ fpc' = IF fpc = "send" THEN "top" ELSE "spec"
  /\ nextHeight' = nextHeight + fb.count
  /\ UNCHANGED <<caughtUp, fb, fetchClosed, lost>> /\ FetcherRest

\* Mutant: the cursor moves one block too far after a fetch.
FetcherSendSkipsOne ==
  /\ fpc \in {"sendSentinel", "send"} /\ Len(fetchChan) < ChanCap
  /\ fetchChan' = Append(fetchChan, fb)
  /\ fpc' = IF fpc = "send" THEN "top" ELSE "spec"
  /\ nextHeight' = nextHeight + fb.count + (IF fpc = "send" THEN 1 ELSE 0)
  /\ UNCHANGED <<caughtUp, fb, fetchClosed, lost>> /\ FetcherRest

\* The send on fetchChan, of the sentinel or of blocks, waits for room.
FetcherSend ==
  /\ fpc \in {"sendSentinel", "send"} /\ Len(fetchChan) < ChanCap
  /\ fetchChan' = Append(fetchChan, fb)
  /\ fpc' = IF fpc = "send" THEN "top" ELSE "spec"
  /\ nextHeight' = nextHeight + fb.count
  /\ UNCHANGED <<caughtUp, fb, fetchClosed, lost>> /\ FetcherRest

Fetcher == \/ FetcherExit \/ FetcherAtTip \/ FetcherBatch
           \/ FetcherSpecHit \/ FetcherSpecMiss \/ FetcherSend

-----------------------------------------------------------------------------
(* processorLoop.                                                          *)

ProcessorRest == UNCHANGED <<chain, atomics, fetcher, fetchClosed, flusher,
                             adding, store, published, history>>

\* Channel closed, or something received while Closing is set: out of the
\* loop; what was received is dropped.
ProcessorBreak ==
  /\ ppc = "recv"
  /\ \/ fetchChan = <<>> /\ fetchClosed /\ UNCHANGED fetchChan
     \/ fetchChan # <<>> /\ closing /\ fetchChan' = Tail(fetchChan)
  /\ ppc' = IF blocksInBatch > 0 /\ batch.last > 0 THEN "sendFinal" ELSE "close"
  /\ UNCHANGED <<batch, blocksInBatch, syncSignaled, runningHeight, flushQ>>
  /\ ProcessorRest

\* Mutant: the sentinel overtakes the partial batch.
ProcessorSentinelFirst ==
  /\ ppc = "recv" /\ fetchChan # <<>> /\ ~closing
  /\ Head(fetchChan).count = 0
  /\ fetchChan' = Tail(fetchChan)
  /\ ppc' = IF ~syncSignaled THEN "sendSentinel" ELSE "recv"
  /\ UNCHANGED <<batch, blocksInBatch, syncSignaled, runningHeight, flushQ>>
  /\ ProcessorRest

\* The caught-up sentinel: a partial batch goes out first, then a sentinel
\* unless one was already sent since the last block.
ProcessorSentinel ==
  /\ ppc = "recv" /\ fetchChan # <<>> /\ ~closing
  /\ Head(fetchChan).count = 0
  /\ fetchChan' = Tail(fetchChan)
  /\ ppc' = IF blocksInBatch > 0 THEN "sendPartial"
            ELSE IF ~syncSignaled THEN "sendSentinel" ELSE "recv"
  /\ UNCHANGED <<batch, blocksInBatch, syncSignaled, runningHeight, flushQ>>
  /\ ProcessorRest

\* Blocks: add them to the batch and send it when it is large enough.
ProcessorBlocks ==
  /\ ppc = "recv" /\ fetchChan # <<>> /\ ~closing
  /\ LET got == Head(fetchChan) IN
       /\ got.count > 0
       /\ fetchChan' = Tail(fetchChan)
       /\ syncSignaled' = FALSE
       /\ runningHeight' = runningHeight + got.count
       /\ batch' = [last |-> runningHeight + got.count,
                    blocks |-> batch.blocks \cup got.blocks]
       /\ blocksInBatch' = blocksInBatch + got.count
  /\ ppc' = IF blocksInBatch' >= CurrentBatchSize THEN "sendFull" ELSE "recv"
  /\ UNCHANGED flushQ /\ ProcessorRest

\* Mutant: the batch that was sent is kept and filled on.
ProcessorSendKeepsBatch ==
  /\ ppc \in {"sendFull", "sendPartial", "sendFinal"} /\ Len(flushChan) < ChanCap
  /\ flushChan' = Append(flushChan, Processed(batch.last, blocksInBatch, batch.blocks))
  /\ UNCHANGED batch /\ blocksInBatch' = 0
  /\ ppc' = IF ppc = "sendFull" THEN "recv"
            ELSE IF ppc = "sendFinal" THEN "close"
            ELSE IF ~syncSignaled THEN "sendSentinel" ELSE "recv"
  /\ UNCHANGED <<fetchChan, syncSignaled, runningHeight, flushClosed>>
  /\ ProcessorRest

\* The three sites that send the batch under construction.
ProcessorSend ==
  /\ ppc \in {"sendFull", "sendPartial", "sendFinal"} /\ Len(flushChan) < ChanCap
  /\ flushChan' = Append(flushChan, Processed(batch.last, blocksInBatch, batch.blocks))
  /\ batch' = EmptyBatch /\ blocksInBatch' = 0
  /\ ppc' = IF ppc = "sendFull" THEN "recv"
            ELSE IF ppc = "sendFinal" THEN "close"
            ELSE IF ~syncSignaled THEN "sendSentinel" ELSE "recv"
  /\ UNCHANGED <<fetchChan, syncSignaled, runningHeight, flushClosed>>
  /\ ProcessorRest

ProcessorSendSentinel ==
  /\ ppc = "sendSentinel" /\ Len(flushChan) < ChanCap
  /\ flushChan' = Append(flushChan, Processed(runningHeight, 0, {}))
  /\ syncSignaled' = TRUE /\ ppc' = "recv"
  /\ UNCHANGED <<fetchChan, batch, blocksInBatch, runningHeight, flushClosed>>
  /\ ProcessorRest

\* Mutant: the processor ends without closing flushChan.
ProcessorCloseForgets ==
  /\ ppc = "close"
  /\ ppc' = "done" /\ UNCHANGED flushClosed
  /\ UNCHANGED <<fetchChan, batch, blocksInBatch, syncSignaled, runningHeight, flushChan>>
  /\ ProcessorRest

\* Out of the loop and drained: the flusher is told by closing its channel.
ProcessorClose ==
  /\ ppc = "close"
  /\ ppc' = "done" /\ flushClosed' = TRUE
  /\ UNCHANGED <<fetchChan, batch, blocksInBatch, syncSignaled, runningHeight, flushChan>>
  /\ ProcessorRest

Processor == \/ ProcessorBreak \/ ProcessorSentinel \/ ProcessorBlocks
             \/ ProcessorSend \/ ProcessorSendSentinel \/ ProcessorClose

-----------------------------------------------------------------------------
(* flusherLoop.                                                            *)

FlusherRest == UNCHANGED <<chain, chainHeight, closing, storeOpen, fetcher,
                           fetchQ, processor, flushClosed, adding, waived, restarts>>

FlusherExit ==
  /\ wpc = "recv" /\ flushChan = <<>> /\ flushClosed
  /\ wpc' = "done"
  /\ UNCHANGED <<pb, synced, flushChan, lastIndexed, safeHeight, batchSize, store, published, lost>>
  /\ FlusherRest

\* Closing chooses the drain path; a sentinel is consumed on the spot, and
\* the first one turns fsync on and starts the TELA refresher.
FlusherRecv ==
  /\ wpc = "recv" /\ flushChan # <<>>
  /\ pb' = Head(flushChan) /\ flushChan' = Tail(flushChan)
  /\ wpc' = IF pb'.count = 0 THEN "recv" ELSE IF closing THEN "drain" ELSE "flush"
  /\ synced' = (synced \/ (pb'.count = 0 /\ ~closing))
  /\ UNCHANGED <<lastIndexed, safeHeight, batchSize, store, published, lost>>
  /\ FlusherRest

\* FlushBatch: one transaction carries the rows and the cursor.
FlushBatch(b) ==
  /\ storeOpen
  /\ commits' = [h \in Heights |-> commits[h] + IF h \in b.blocks THEN 1 ELSE 0]
  /\ durable' = IF b.last > 0 THEN b.last ELSE durable
  /\ UNCHANGED lost

\* The transaction fails: the batch is logged and recycled, not retried.
FlushError(b) ==
  /\ MayFailFlush \/ ~storeOpen
  /\ lost' = lost \cup Span(b)
  /\ UNCHANGED store

Adapt == \E pace \in {"fast", "even", "slow"} :
  batchSize' = IF AdaptBatchSize THEN NextAdaptiveBatchSize(pace, batchSize) ELSE batchSize

\* Mutant: a failed transaction is announced like a committed one.
FlusherFlushIgnoresError ==
  /\ wpc = "flush"
  /\ FlushBatch(pb) \/ FlushError(pb)
  /\ wpc' = "advance" /\ UNCHANGED batchSize
  /\ UNCHANGED <<pb, synced, flushChan, lastIndexed, safeHeight, published>> /\ FlusherRest

\* The transaction, and what follows its failure.
FlusherFlush ==
  /\ wpc = "flush"
  /\ \/ FlushBatch(pb) /\ wpc' = "advance" /\ UNCHANGED batchSize
     \/ FlushError(pb) /\ wpc' = "recv" /\ Adapt
  /\ UNCHANGED <<pb, synced, flushChan, lastIndexed, safeHeight, published>> /\ FlusherRest

FlusherDrain ==
  /\ wpc = "drain"
  /\ FlushBatch(pb) \/ FlushError(pb)
  /\ wpc' = "recv"
  /\ UNCHANGED <<pb, synced, flushChan, lastIndexed, safeHeight, batchSize, published>>
  /\ FlusherRest

\* Only after the commit: the indexed height, then the safe height, then the
\* events of the batch.
FlusherAdvance ==
  /\ wpc = "advance"
  /\ lastIndexed' = pb.last
  /\ wpc' = "publish"
  /\ UNCHANGED <<pb, synced, flushChan, safeHeight, batchSize, store, published, lost>>
  /\ FlusherRest

\* Mutant: the safe height is the indexed height.
FlusherPublishNoDepth ==
  /\ wpc = "publish"
  /\ safeHeight' = pb.last
  /\ published' = published \cup pb.blocks
  /\ Adapt /\ wpc' = "recv"
  /\ UNCHANGED <<pb, synced, flushChan, lastIndexed, store, lost>> /\ FlusherRest

FlusherPublish ==
  /\ wpc = "publish"
  /\ safeHeight' = Larger(pb.last - FinalityDepth, 0)
  /\ published' = published \cup pb.blocks
  /\ Adapt /\ wpc' = "recv"
  /\ UNCHANGED <<pb, synced, flushChan, lastIndexed, store, lost>> /\ FlusherRest

Flusher == \/ FlusherExit \/ FlusherRecv \/ FlusherFlush \/ FlusherDrain
           \/ FlusherAdvance \/ FlusherPublish

-----------------------------------------------------------------------------
(* IndexSingleSCID, called by the API while the scan runs: it reads the    *)
(* tip, talks to the daemon, and commits a batch labelled with that height.*)

SingleSCIDBegin ==
  /\ SingleSCIDs /\ adding = NoCall
  /\ adding' = IF chainHeight > 0 THEN chainHeight ELSE lastIndexed
  /\ UNCHANGED <<chain, atomics, fetcher, fetchQ, processor, flushQ, flusher,
                 store, published, history>>

SingleSCIDCommit ==
  /\ adding # NoCall
  /\ adding' = NoCall
  /\ \/ storeOpen /\ durable' = IF adding > 0 THEN adding ELSE durable
     \/ (MayFailFlush \/ ~storeOpen) /\ UNCHANGED durable
  /\ UNCHANGED <<chain, atomics, fetcher, fetchQ, processor, flushQ, flusher,
                 commits, published, history>>

-----------------------------------------------------------------------------
Next == \/ ChainGrows \/ MonitorPoll \/ StartScan \/ Fetcher \/ Processor
        \/ Flusher \/ SingleSCIDBegin \/ SingleSCIDCommit
        \/ Stop \/ CloseStore \/ Restart

Spec == Init /\ [][Next]_vars

\* Goroutines are scheduled, and the daemon eventually answers: a blocked
\* stage stays blocked, an enabled one moves.
Fairness == /\ WF_vars(MonitorPoll) /\ WF_vars(StartScan) /\ WF_vars(Fetcher)
            /\ WF_vars(Processor) /\ WF_vars(Flusher)
LiveSpec == Spec /\ Fairness

-----------------------------------------------------------------------------
(* Properties.                                                             *)

Batches == [last : Nat, count : Nat, blocks : SUBSET Heights]
Fetches == [first : Nat, count : Nat, blocks : SUBSET Heights]

SharedTypes ==
  /\ chain \in 0..MaxHeight /\ chainHeight \in 0..MaxHeight
  /\ lastIndexed \in Nat /\ safeHeight \in Nat /\ batchSize \in Nat
  /\ adding \in Nat \cup {NoCall}
FlagTypes ==
  /\ closing \in BOOLEAN /\ storeOpen \in BOOLEAN /\ caughtUp \in BOOLEAN
  /\ fetchClosed \in BOOLEAN /\ flushClosed \in BOOLEAN
  /\ syncSignaled \in BOOLEAN /\ synced \in BOOLEAN
FetcherTypes ==
  /\ fpc \in {"boot", "top", "sendSentinel", "spec", "send", "done"}
  /\ nextHeight \in Nat /\ fb \in Fetches
FetchQTypes == fetchChan \in Seq(Fetches) /\ Len(fetchChan) <= ChanCap
ProcessorTypes ==
  /\ ppc \in {"boot", "recv", "sendFull", "sendPartial", "sendSentinel",
              "sendFinal", "close", "done"}
  /\ batch \in [last : Nat, blocks : SUBSET Heights]
  /\ blocksInBatch \in Nat /\ runningHeight \in Nat
FlushQTypes == flushChan \in Seq(Batches) /\ Len(flushChan) <= ChanCap
FlusherTypes ==
  /\ wpc \in {"boot", "recv", "flush", "drain", "advance", "publish", "done"}
  /\ pb \in Batches
StoreTypes ==
  /\ durable \in Nat /\ commits \in [Heights -> Nat]
  /\ published \subseteq Heights /\ lost \subseteq Int /\ waived \subseteq Int
  /\ restarts \in Nat

\* Every variable has its type, and the two channels respect their capacity.
TypeOK == /\ SharedTypes /\ FlagTypes /\ FetcherTypes /\ FetchQTypes
          /\ ProcessorTypes /\ FlushQTypes /\ FlusherTypes /\ StoreTypes

Indexed   == {h \in Heights : commits[h] > 0}
Accounted == Indexed \cup lost \cup waived

\* The stored cursor never passes over a block unnoticed: every height up to
\* it was committed, or was given up on by a fetch or flush that failed, or
\* was jumped over by the quick scan.  (The cursor and the rows are written by
\* different arithmetic in three goroutines: nextHeight, runningHeight and
\* blocksInBatch must agree for this to hold.)
GapFree == \A h \in 1..durable : h \in Accounted

\* No block is committed twice, whatever crashes and restarts happen: the
\* stored transaction counts are additive, so a second commit of a block would
\* count its transactions twice.
CountedOnce == \A h \in Heights : commits[h] <= 1

\* What LastIndexedHeight reports is in the store, once the scan has committed
\* anything ("we never claim progress we haven't persisted"); before that it is
\* where the scan started.
ClaimsPersisted == lastIndexed <= durable \/ lastIndexed \in waived

\* The safe height stays a finality depth behind the indexed height.
SafeBehindIndexed == safeHeight <= Larger(lastIndexed - FinalityDepth, 0)

\* Events are published only for blocks whose transaction committed.
PublishedCommitted == published \subseteq Indexed

\* The store is switched to fsync, and the refresher started, only after every
\* block fetched before the tip was reached has been through FlushBatch.
SyncAfterData ==
  [][(~synced /\ synced') => \A h \in 1..pb'.last : h \in Accounted]_vars

\* The store has every block of the daemon's chain, the partial batch at the tip
\* included, unless the indexer is stopped.
TipReached == durable >= chain \/ closing

\* After Closing is raised, the processor and the flusher finish: everything
\* they hold is drained.
DrainEnds == closing ~> (fpc = "boot" \/ (ppc = "done" /\ wpc = "done") \/ ~closing)

\* Closing makes every stage of the pipeline finish, as the comment on Close
\* says; StopSync waits for it.
ShutdownEnds == closing ~> (fpc = "done" \/ ~closing)

\* What a failed FlushBatch held is not passed over by the cursor.
FlushErrorNotSkipped == lost \cap 1..durable = {}

-----------------------------------------------------------------------------
(* The inductive invariant behind the safety properties (no concurrent     *)
(* IndexSingleSCID call: it moves the stored cursor on its own).           *)

\* The flusher is done with every block up to here.
Front == IF wpc \in {"flush", "drain"} THEN pb.last - pb.count ELSE pb.last

\* From the flusher's batch to the processor's, spans follow each other.
FlushLine ==
  /\ \A i \in 1..Len(flushChan) :
       flushChan[i].last - flushChan[i].count =
         IF i = 1 THEN pb.last ELSE flushChan[i - 1].last
  /\ runningHeight - blocksInBatch =
       IF flushChan = <<>> THEN pb.last ELSE flushChan[Len(flushChan)].last

\* From the processor's height to the fetcher's, fetches follow each other,
\* as long as the processor is in its loop.
FetchLine ==
  ppc \notin {"sendFinal", "close", "done"} =>
    /\ \A i \in 1..Len(fetchChan) :
         fetchChan[i].first =
           IF i = 1 THEN runningHeight + 1
           ELSE fetchChan[i - 1].first + fetchChan[i - 1].count
    /\ nextHeight + 1 =
         IF fetchChan = <<>> THEN runningHeight + 1
         ELSE fetchChan[Len(fetchChan)].first + fetchChan[Len(fetchChan)].count

\* The blocks are those of the span, but for the ones given up on.
Carries(blocks, span) == blocks \subseteq span /\ span \subseteq blocks \cup lost
FetchSpan(f) == f.first..(f.first + f.count - 1)

\* What a stage holds is what the span it announces promises.
Contents ==
  /\ fpc \in {"send", "sendSentinel"} => fb.first = nextHeight + 1
  /\ Carries(fb.blocks, FetchSpan(fb))
  /\ \A i \in 1..Len(fetchChan) : Carries(fetchChan[i].blocks, FetchSpan(fetchChan[i]))
  /\ Carries(batch.blocks, (runningHeight - blocksInBatch + 1)..runningHeight)
  /\ batch.last = IF blocksInBatch > 0 THEN runningHeight ELSE 0
  /\ ppc \in {"sendFull", "sendPartial", "sendFinal"} => blocksInBatch > 0
  /\ ppc \in {"sendSentinel", "close", "done"} => blocksInBatch = 0
  /\ \A i \in 1..Len(flushChan) : Carries(flushChan[i].blocks, Span(flushChan[i]))
  /\ Carries(pb.blocks, Span(pb))

\* The blocks in flight form one contiguous run, from the last one the flusher
\* dealt with to the fetcher's cursor: none is skipped, repeated or reordered
\* between the stages, none is dropped that was fetched, and each travels under
\* its own height.
InFlight == FlushLine /\ FetchLine /\ Contents

\* Before the scan starts the stages hold nothing.
Idle ==
  /\ fpc = "boot" =>
       /\ ppc = "boot" /\ wpc = "boot"
       /\ fetchChan = <<>> /\ flushChan = <<>> /\ batch = EmptyBatch
       /\ blocksInBatch = 0
  /\ fpc # "boot" => ppc # "boot" /\ wpc # "boot"

\* And everything stands at the stored cursor.
AtBoot == Idle /\ (fpc = "boot" => pb.last = durable /\ lastIndexed = durable)

\* Where the store and the reported height stand relative to the flusher.
StoreLine ==
  /\ durable <= Front /\ lastIndexed <= Front
  /\ \A h \in 1..Front : h \in Accounted
  /\ \A h \in Heights : h > durable => commits[h] = 0
  /\ wpc \in {"flush", "drain"} => pb.count > 0
  /\ wpc \in {"advance", "publish"} => durable = pb.last
  /\ wpc = "publish" => lastIndexed = pb.last
  /\ adding = NoCall

\* Events go out for what a commit stored: the flusher's batch is in the store
\* before they are published.
EventLine ==
  /\ PublishedCommitted
  /\ wpc \in {"advance", "publish"} => pb.blocks \subseteq Indexed

\* No stage works above the chain.
ChainLine ==
  /\ nextHeight <= MaxHeight /\ runningHeight <= MaxHeight /\ pb.last <= MaxHeight
  /\ fb.first + fb.count <= MaxHeight + 1
  /\ \A i \in 1..Len(fetchChan) : fetchChan[i].first + fetchChan[i].count <= MaxHeight + 1
  /\ \A i \in 1..Len(flushChan) : flushChan[i].last <= MaxHeight

\* The quick scan reports a height nothing was committed for; what is claimed
\* then is the height it jumped from.
Claims(h) == h \notin waived /\ (h + 1)..lastIndexed \subseteq waived
Claimed == CHOOSE h \in 0..lastIndexed : Claims(h)

\* The quick scan never jumps over what the cursor stands on, and there always
\* is a height to claim.
JumpLine ==
  /\ durable \notin waived
  /\ \A h \in waived : 0 < h /\ h <= Front
  /\ \E h \in 0..lastIndexed : Claims(h)

Lossy == MayLoseBlocks \/ MayFailFlush \/ RecentBlocks > 0

\* When nothing can fail and nothing is jumped over, all that is ever lost is
\* what was in flight when the store closed, and the cursor keeps up with the
\* flusher until then.
LossLine ==
  ~Lossy => /\ waived = {}
            /\ \A h \in lost : h > durable
            /\ storeOpen => lost = {} /\ Front = durable

ProgressLine == EventLine /\ ChainLine /\ JumpLine /\ LossLine

IInv == /\ InFlight /\ AtBoot /\ StoreLine /\ ProgressLine
        /\ CountedOnce /\ ClaimsPersisted /\ SafeBehindIndexed

-----------------------------------------------------------------------------
(* The pipeline implements IndexProgress: a successful FlushBatch is a     *)
(* Commit, FlusherAdvance and Restart are Reports, every other step        *)
(* stutters.                                                               *)

Abstract == INSTANCE IndexProgress
  WITH cursor <- durable, indexed <- Indexed, claimed <- Claimed

SafeKept == lastIndexed \in waived \/ safeHeight' >= safeHeight

\* The scan pipeline, with its goroutines, crashes and shutdowns, does what the
\* abstract progress specification allows: no block twice, none out of order,
\* none missing below the cursor unless it was jumped over or a fetch or flush
\* failed, and neither the cursor nor what is claimed ever back; nor the safe
\* height, restarts included, unless it comes from a jump that a crash undoes.
ImplementsProgress ==
  Abstract!Progress /\ [][SafeKept]_vars
=============================================================================
