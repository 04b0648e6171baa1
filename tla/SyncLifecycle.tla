--------------------------- MODULE SyncLifecycle ---------------------------
(***************************************************************************)
(* The life of a synchronisation in HyperWolf (internal/indexer/sync.go):  *)
(* StartSync and StopSync, called from the dashboard, the tray and the     *)
(* quit coordinator and serialised by lifecycleMu, against the goroutines  *)
(* a start leaves behind: the setup, the WaitGroup's waiter, the health    *)
(* watcher, the daemon-mode scan, the progress ticker and the two servers. *)
(*                                                                         *)
(* Every StartSync that gets past its wait opens a session with its own    *)
(* channels, WaitGroup, indexer and servers; sessions are numbered.        *)
(***************************************************************************)
EXTENDS Integers

CONSTANTS
  MaxSessions,  \* bound on the sessions opened
  MaxStops      \* bound on the StopSync calls

ASSUME LifecycleAssumption == MaxSessions \in Nat \ {0} /\ MaxStops \in Nat

VARIABLES
  call,        \* what holds lifecycleMu, and where in it
  snap,        \* StopSync's local copies
  stops,       \* StopSync calls made
  opened,      \* sessions opened
  syncCancel, syncDone, indexer, apiServer, gnomonWS,  \* SyncManager's fields
  cancelled, doneClosed, wg, waiting,   \* per session: its channels, its WaitGroup
  setup, scan, ticker, watcher,         \* per session: its goroutines
  closing, store,                       \* per session: its indexer
  api, ws                               \* per session: its servers

calls    == <<call, snap, stops>>
fields   == <<syncCancel, syncDone, indexer, apiServer, gnomonWS>>
channels == <<cancelled, doneClosed, wg, waiting>>
workers  == <<setup, scan, ticker, watcher>>
engine   == <<closing, store>>
servers  == <<api, ws>>
vars == <<calls, opened, fields, channels, workers, engine, servers>>

Sessions == 1..MaxSessions
Nil == 0        \* a nil field: no session
NoSnap == [cancel |-> Nil, done |-> Nil, ws |-> Nil, api |-> Nil, idx |-> Nil]

Init ==
  /\ call = "free" /\ snap = NoSnap /\ stops = 0 /\ opened = 0
  /\ syncCancel = Nil /\ syncDone = Nil /\ indexer = Nil
  /\ apiServer = Nil /\ gnomonWS = Nil
  /\ cancelled = [g \in Sessions |-> FALSE]
  /\ doneClosed = [g \in Sessions |-> FALSE]
  /\ wg = [g \in Sessions |-> 0] /\ waiting = [g \in Sessions |-> FALSE]
  /\ setup = [g \in Sessions |-> "none"] /\ scan = [g \in Sessions |-> "none"]
  /\ ticker = [g \in Sessions |-> "none"] /\ watcher = [g \in Sessions |-> "none"]
  /\ closing = [g \in Sessions |-> FALSE] /\ store = [g \in Sessions |-> "none"]
  /\ api = [g \in Sessions |-> "none"] /\ ws = [g \in Sessions |-> "none"]

-----------------------------------------------------------------------------
(* StartSync.                                                              *)

\* The lock, and the cancel of a previous session that was not stopped.
StartBegin ==
  /\ call = "free" /\ opened < MaxSessions
  /\ IF syncCancel = Nil
     THEN call' = "start.open" /\ UNCHANGED cancelled
     ELSE /\ cancelled' = [cancelled EXCEPT ![syncCancel] = TRUE]
          /\ call' = IF syncDone = Nil THEN "start.open" ELSE "start.wait"
  /\ UNCHANGED <<snap, stops, opened, fields, doneClosed, wg, waiting, workers,
                 engine, servers>>

StartWait ==
  /\ call = "start.wait" /\ doneClosed[syncDone]
  /\ call' = "start.open"
  /\ UNCHANGED <<snap, stops, opened, fields, channels, workers, engine, servers>>

\* A new session: its channels, the setup goroutine and the waiter.
StartOpen ==
  /\ call = "start.open"
  /\ LET g == opened + 1 IN
       /\ opened' = g /\ syncCancel' = g /\ syncDone' = g
       /\ wg' = [wg EXCEPT ![g] = 1]
       /\ setup' = [setup EXCEPT ![g] = "poll"]
       /\ waiting' = [waiting EXCEPT ![g] = TRUE]
  /\ call' = "start.watch"
  /\ UNCHANGED <<snap, stops, indexer, apiServer, gnomonWS, cancelled, doneClosed,
                 scan, ticker, watcher, engine, servers>>

\* The health watcher joins the WaitGroup after the waiter was started.
StartWatch ==
  /\ call = "start.watch"
  /\ wg' = [wg EXCEPT ![opened] = @ + 1]
  /\ watcher' = [watcher EXCEPT ![opened] = "run"]
  /\ call' = "free"
  /\ UNCHANGED <<snap, stops, opened, fields, cancelled, doneClosed, waiting,
                 setup, scan, ticker, engine, servers>>

-----------------------------------------------------------------------------
(* StopSync and StopIndexer.                                               *)

StopBegin ==
  /\ call = "free" /\ stops < MaxStops
  /\ stops' = stops + 1
  /\ snap' = [cancel |-> syncCancel, done |-> syncDone, ws |-> gnomonWS,
              api |-> apiServer, idx |-> indexer]
  /\ syncCancel' = Nil /\ gnomonWS' = Nil /\ apiServer' = Nil
  /\ call' = "stop.cancel"
  /\ UNCHANGED <<opened, syncDone, indexer, channels, workers, engine, servers>>

StopCancel ==
  /\ call = "stop.cancel"
  /\ cancelled' = [g \in Sessions |-> cancelled[g] \/ g = snap.cancel]
  /\ call' = "stop.servers"
  /\ UNCHANGED <<snap, stops, opened, fields, doneClosed, wg, waiting, workers,
                 engine, servers>>

\* The API server may be stopped before it was started and then refuses to
\* start; the WebSocket server's Stop does nothing before its Start.
StopServers ==
  /\ call = "stop.servers"
  /\ ws' = [g \in Sessions |-> IF g = snap.ws /\ ws[g] = "up" THEN "stopped" ELSE ws[g]]
  /\ api' = [g \in Sessions |-> IF g = snap.api THEN "stopped" ELSE api[g]]
  /\ call' = "stop.close"
  /\ UNCHANGED <<snap, stops, opened, fields, channels, workers, engine>>

\* Mutant: the indexer is not told to close.
StopCloseForgets ==
  /\ call = "stop.close"
  /\ UNCHANGED closing
  /\ call' = "stop.wait"
  /\ UNCHANGED <<snap, stops, opened, fields, channels, workers, store, servers>>

StopClose ==
  /\ call = "stop.close"
  /\ closing' = [g \in Sessions |-> closing[g] \/ g = snap.idx]
  /\ call' = "stop.wait"
  /\ UNCHANGED <<snap, stops, opened, fields, channels, workers, store, servers>>

\* Mutant: the store is closed without waiting for the session's goroutines.
StopWaitSkips ==
  /\ call = "stop.wait"
  /\ call' = "stop.indexer"
  /\ UNCHANGED <<snap, stops, opened, fields, channels, workers, engine, servers>>

StopWait ==
  /\ call = "stop.wait"
  /\ snap.done # Nil => doneClosed[snap.done]
  /\ call' = "stop.indexer"
  /\ UNCHANGED <<snap, stops, opened, fields, channels, workers, engine, servers>>

\* Mutant: the session's store is left open.
StopIndexerKeepsStore ==
  /\ call = "stop.indexer"
  /\ UNCHANGED store
  /\ closing' = [g \in Sessions |-> closing[g] \/ g = indexer]
  /\ indexer' = Nil
  /\ call' = "free" /\ snap' = NoSnap
  /\ UNCHANGED <<stops, opened, syncCancel, syncDone, apiServer, gnomonWS,
                 channels, workers, servers>>

\* StopIndexer closes the indexer the field holds, which need not be the one
\* that was copied.
StopIndexer ==
  /\ call = "stop.indexer"
  /\ store' = [g \in Sessions |-> IF g = indexer THEN "closed" ELSE store[g]]
  /\ closing' = [g \in Sessions |-> closing[g] \/ g = indexer]
  /\ indexer' = Nil
  /\ call' = "free" /\ snap' = NoSnap
  /\ UNCHANGED <<stops, opened, syncCancel, syncDone, apiServer, gnomonWS,
                 channels, workers, servers>>

-----------------------------------------------------------------------------
(* runSyncSetup, one goroutine per session.                                *)

\* Return: the goroutine leaves the WaitGroup.
SetupEnds(g) ==
  /\ setup' = [setup EXCEPT ![g] = "done"]
  /\ wg' = [wg EXCEPT ![g] = @ - 1]

\* The poll for the daemon's height is the only place that looks at cancel.
SetupCancelled(g) ==
  /\ setup[g] = "poll" /\ cancelled[g]
  /\ SetupEnds(g)
  /\ UNCHANGED <<calls, opened, fields, cancelled, doneClosed, waiting, scan,
                 ticker, watcher, engine, servers>>

SetupHeight(g) ==
  /\ setup[g] = "poll"
  /\ setup' = [setup EXCEPT ![g] = "new"]
  /\ UNCHANGED <<calls, opened, fields, channels, scan, ticker, watcher, engine,
                 servers>>

SetupNewFails(g) ==
  /\ setup[g] = "new"
  /\ SetupEnds(g)
  /\ UNCHANGED <<calls, opened, fields, cancelled, doneClosed, waiting, scan,
                 ticker, watcher, engine, servers>>

\* New waits for the database file's lock, without a limit.
SetupNew(g) ==
  /\ setup[g] = "new" /\ \A h \in Sessions : store[h] # "open"
  /\ store' = [store EXCEPT ![g] = "open"]
  /\ setup' = [setup EXCEPT ![g] = "indexer"]
  /\ UNCHANGED <<calls, opened, fields, channels, scan, ticker, watcher, closing,
                 servers>>

SetupIndexer(g) ==
  /\ setup[g] = "indexer"
  /\ indexer' = g
  /\ setup' = [setup EXCEPT ![g] = "api"]
  /\ UNCHANGED <<calls, opened, syncCancel, syncDone, apiServer, gnomonWS, channels,
                 scan, ticker, watcher, engine, servers>>

SetupApi(g) ==
  /\ setup[g] = "api"
  /\ apiServer' = g /\ api' = [api EXCEPT ![g] = "made"]
  /\ setup' = [setup EXCEPT ![g] = "ws"]
  /\ UNCHANGED <<calls, opened, syncCancel, syncDone, indexer, gnomonWS, channels,
                 scan, ticker, watcher, engine, ws>>

SetupWs(g) ==
  /\ setup[g] = "ws"
  /\ gnomonWS' = g /\ ws' = [ws EXCEPT ![g] = "made"]
  /\ setup' = [setup EXCEPT ![g] = "scan"]
  /\ UNCHANGED <<calls, opened, syncCancel, syncDone, indexer, apiServer, channels,
                 scan, ticker, watcher, engine, api>>

\* Mutant: the scan is not counted in the WaitGroup.
SetupScanUntracked(g) ==
  /\ setup[g] = "scan"
  /\ UNCHANGED wg
  /\ scan' = [scan EXCEPT ![g] = "run"]
  /\ setup' = [setup EXCEPT ![g] = "ticker"]
  /\ UNCHANGED <<calls, opened, fields, cancelled, doneClosed, waiting, ticker,
                 watcher, engine, servers>>

SetupScan(g) ==
  /\ setup[g] = "scan"
  /\ wg' = [wg EXCEPT ![g] = @ + 1]
  /\ scan' = [scan EXCEPT ![g] = "run"]
  /\ setup' = [setup EXCEPT ![g] = "ticker"]
  /\ UNCHANGED <<calls, opened, fields, cancelled, doneClosed, waiting, ticker,
                 watcher, engine, servers>>

\* The ticker is added and the setup returns.
SetupTicker(g) ==
  /\ setup[g] = "ticker"
  /\ ticker' = [ticker EXCEPT ![g] = "run"]
  /\ setup' = [setup EXCEPT ![g] = "done"]
  /\ UNCHANGED <<calls, opened, fields, channels, scan, watcher, engine, servers>>

Setup(g) == \/ SetupCancelled(g) \/ SetupHeight(g) \/ SetupNewFails(g)
            \/ SetupNew(g) \/ SetupIndexer(g) \/ SetupApi(g) \/ SetupWs(g)
            \/ SetupScan(g) \/ SetupTicker(g)

-----------------------------------------------------------------------------
(* The goroutines that run on, and the ends of theirs.                     *)

\* FastSync and StartDaemonMode return once Closing is set ...
ScanEnds(g) ==
  /\ scan[g] = "run" /\ closing[g]
  /\ scan' = [scan EXCEPT ![g] = "done"]
  /\ wg' = [wg EXCEPT ![g] = @ - 1]
  /\ UNCHANGED <<calls, opened, fields, cancelled, doneClosed, waiting, setup,
                 ticker, watcher, engine, servers>>

\* ... but for a scan whose processor has left the fetcher at a full channel:
\* that one never returns (ScanPipeline's ShutdownEnds).
ScanHangs(g) ==
  /\ scan[g] = "run" /\ closing[g]
  /\ scan' = [scan EXCEPT ![g] = "hung"]
  /\ UNCHANGED <<calls, opened, fields, channels, setup, ticker, watcher, engine,
                 servers>>

TickerEnds(g) ==
  /\ ticker[g] = "run" /\ cancelled[g]
  /\ ticker' = [ticker EXCEPT ![g] = "done"]
  /\ wg' = [wg EXCEPT ![g] = @ - 1]
  /\ UNCHANGED <<calls, opened, fields, cancelled, doneClosed, waiting, setup,
                 scan, watcher, engine, servers>>

WatcherEnds(g) ==
  /\ watcher[g] = "run" /\ cancelled[g]
  /\ watcher' = [watcher EXCEPT ![g] = "done"]
  /\ wg' = [wg EXCEPT ![g] = @ - 1]
  /\ UNCHANGED <<calls, opened, fields, cancelled, doneClosed, waiting, setup,
                 scan, ticker, engine, servers>>

\* wg.Wait returns and done is closed.
WaiterEnds(g) ==
  /\ waiting[g] /\ wg[g] = 0
  /\ waiting' = [waiting EXCEPT ![g] = FALSE]
  /\ doneClosed' = [doneClosed EXCEPT ![g] = TRUE]
  /\ UNCHANGED <<calls, opened, fields, cancelled, wg, workers, engine, servers>>

\* The goroutine that serves: it fails when another session's server still
\* holds the port.
ApiStarts(g) ==
  /\ api[g] = "made"
  /\ api' = [api EXCEPT ![g] =
               IF \E h \in Sessions : api[h] = "up" THEN "failed" ELSE "up"]
  /\ UNCHANGED <<calls, opened, fields, channels, workers, engine, ws>>

WsStarts(g) ==
  /\ ws[g] = "made"
  /\ ws' = [ws EXCEPT ![g] =
              IF \E h \in Sessions : ws[h] = "up" THEN "failed" ELSE "up"]
  /\ UNCHANGED <<calls, opened, fields, channels, workers, engine, api>>

-----------------------------------------------------------------------------
StartSync == StartBegin \/ StartWait \/ StartOpen \/ StartWatch
StopSync  == \/ StopBegin \/ StopCancel \/ StopServers \/ StopClose
             \/ StopWait \/ StopIndexer
Worker(g) == \/ Setup(g) \/ ScanEnds(g) \/ ScanHangs(g) \/ TickerEnds(g)
             \/ WatcherEnds(g) \/ WaiterEnds(g) \/ ApiStarts(g) \/ WsStarts(g)

Next == StartSync \/ StopSync \/ \E g \in Sessions : Worker(g)

Spec == Init /\ [][Next]_vars

\* A call that began, and every goroutine, is scheduled while it can move; a scan
\* that is told to close ends or hangs.
ScanLeaves(g) == ScanEnds(g) \/ ScanHangs(g)
InCall == call # "free" /\ (StartSync \/ StopSync)
LiveSpec ==
  /\ Spec /\ WF_vars(InCall)
  /\ \A g \in Sessions :
       /\ WF_vars(Setup(g)) /\ WF_vars(ScanLeaves(g)) /\ WF_vars(TickerEnds(g))
       /\ WF_vars(WatcherEnds(g)) /\ WF_vars(WaiterEnds(g))
       /\ WF_vars(ApiStarts(g)) /\ WF_vars(WsStarts(g))

-----------------------------------------------------------------------------
(* Properties.                                                             *)

Refs == 0..MaxSessions

\* Every variable has its type; the WaitGroup counter never goes negative,
\* which would panic.
TypeOK ==
  /\ call \in {"free", "start.wait", "start.open", "start.watch", "stop.cancel",
               "stop.servers", "stop.close", "stop.wait", "stop.indexer"}
  /\ snap \in [cancel : Refs, done : Refs, ws : Refs, api : Refs, idx : Refs]
  /\ stops \in 0..MaxStops /\ opened \in Refs
  /\ syncCancel \in Refs /\ syncDone \in Refs /\ indexer \in Refs
  /\ apiServer \in Refs /\ gnomonWS \in Refs
  /\ cancelled \in [Sessions -> BOOLEAN] /\ doneClosed \in [Sessions -> BOOLEAN]
  /\ wg \in [Sessions -> Nat] /\ waiting \in [Sessions -> BOOLEAN]
  /\ setup \in [Sessions -> {"none", "poll", "new", "indexer", "api", "ws",
                             "scan", "ticker", "done"}]
  /\ scan \in [Sessions -> {"none", "run", "hung", "done"}]
  /\ ticker \in [Sessions -> {"none", "run", "done"}]
  /\ watcher \in [Sessions -> {"none", "run", "done"}]
  /\ closing \in [Sessions -> BOOLEAN]
  /\ store \in [Sessions -> {"none", "open", "closed"}]
  /\ api \in [Sessions -> {"none", "made", "up", "failed", "stopped"}]
  /\ ws \in [Sessions -> {"none", "made", "up", "failed", "stopped"}]

\* The goroutines the WaitGroup counts that use the session's store.
Scanning(g) == scan[g] \in {"run", "hung"}
Busy(g) == \/ setup[g] \notin {"none", "done"} \/ Scanning(g) \/ ticker[g] = "run"

\* The inductive invariant behind the properties below, in its parts.

\* A session not opened yet has nothing, no field refers to one, and a start that
\* goes on has one left to open.
Fresh ==
  /\ syncDone = opened /\ syncCancel <= opened /\ indexer <= opened
  /\ snap.cancel <= opened /\ snap.done <= opened
  /\ call \in {"start.wait", "start.open"} => opened < MaxSessions
  /\ \A g \in Sessions : g > opened =>
       /\ ~waiting[g] /\ ~doneClosed[g] /\ store[g] = "none"
       /\ setup[g] = "none" /\ scan[g] = "none"
       /\ ticker[g] = "none" /\ watcher[g] = "none"

\* What each goroutine may be doing while the setup is where it is.
Stages ==
  \A g \in Sessions :
    /\ g <= opened => setup[g] # "none"
    /\ scan[g] # "none" => setup[g] \in {"ticker", "done"}
    /\ ticker[g] # "none" => setup[g] = "done"
    /\ call = "start.watch" /\ g = opened => watcher[g] = "none"

\* The counter of the WaitGroup is the number of goroutines it has to wait for;
\* the ticker takes over the setup's count.
One(b) == IF b THEN 1 ELSE 0
Counted(g) == One(setup[g] \notin {"none", "done"}) + One(Scanning(g))
                + One(ticker[g] = "run") + One(watcher[g] = "run")
Counts == \A g \in Sessions : wg[g] = Counted(g)

\* done is closed when the goroutines have ended; the sessions before the last
\* one are done, and so is the last one where a start or a stop goes on from it.
Settled == \/ call \in {"start.open", "stop.indexer"}
           \/ call = "free" /\ syncCancel = Nil
Stopping == call \in {"stop.cancel", "stop.servers", "stop.close", "stop.wait"}
DoneOf(g) == /\ doneClosed[g] => ~Busy(g)
             /\ store[g] = "closed" => doneClosed[g]
             /\ g < opened => doneClosed[g]
             /\ g = opened /\ Settled => doneClosed[g]
DoneLine ==
  /\ \A g \in Sessions : DoneOf(g)
  /\ Stopping => syncCancel = Nil /\ snap.done = opened
  /\ call = "stop.indexer" => syncCancel = Nil
  /\ call = "start.watch" => opened # 0 /\ syncCancel = opened

\* At most one store is open, and the field refers to its indexer once the setup
\* has set it.
StoreLine ==
  /\ \A g, h \in Sessions : store[g] = "open" /\ store[h] = "open" => g = h
  /\ \A g \in Sessions : /\ store[g] = "open" => indexer = g \/ setup[g] = "indexer"
                         /\ setup[g] = "indexer" => store[g] = "open"

\* Two sessions never work at the same time: the goroutines of one have ended
\* before the next is opened ("prevents double-FastSync").
OneSession == \A g, h \in Sessions : Busy(g) /\ Busy(h) => g = h

\* "StopIndexer closes the RPC pool and store only after all workers exit": the
\* setup, the scan and the ticker have ended when done is closed, and when the
\* store is.
StoreOutlivesWorkers ==
  \A g \in Sessions : doneClosed[g] \/ store[g] = "closed" => ~Busy(g)

\* Between calls, when the last one was a StopSync, no store is open: the next
\* session's New finds the database file free.
StopClosesStore ==
  call = "free" /\ syncCancel = Nil => \A g \in Sessions : store[g] # "open"

LifeInv == /\ TypeOK /\ Fresh /\ Stages /\ Counts /\ DoneLine /\ StoreLine
           /\ StopClosesStore

Hung == \E g \in Sessions : scan[g] = "hung"

\* A StopSync that finds the session's indexer in place comes to its end, where
\* the scan of that session does.
StopReturns == (call = "stop.cancel" /\ snap.idx # Nil) ~> (call = "free" \/ Hung)

\* Every StartSync and StopSync comes to its end: "Cancel previous sync and wait
\* for all goroutines to exit."  A scan that hangs is not held against it.
CallsReturn == call # "free" ~> (call = "free" \/ Hung)

\* "Stop the long-lived servers explicitly (they are NOT in the waitgroup)": when
\* StopSync has returned, none of the session's servers is left serving.
ServersStopped ==
  call = "free" /\ syncCancel = Nil =>
    \A g \in Sessions : api[g] # "up" /\ ws[g] # "up"
=============================================================================
