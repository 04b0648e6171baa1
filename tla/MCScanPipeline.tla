--------------------------- MODULE MCScanPipeline ---------------------------
(* ScanPipeline on small instances; the .cfg files choose the constants.   *)
EXTENDS ScanPipeline

\* Where no IndexSingleSCID call moves the stored cursor, the store catches up
\* with the daemon's chain again and again, over a crash too, so that a block of
\* the chain is stored in the end, those of the last partial batch included.
ScanReachesTip == [](adding = NoCall) => []<>TipReached
=============================================================================
