------------------------------ MODULE Discovery ------------------------------
(***************************************************************************)
(* The first start of an indexer (indexer/fastsync.go): FastSync fetches   *)
(* the GnomonSC registry, launches the discovery of known classes, and     *)
(* fills and flushes the registry while the probe runs; then the daemon    *)
(* scan begins.  Discovery uses the local cache (tela_cache.bin), a seed   *)
(* file of another database (classify_seed_cache.go) or a full probe of    *)
(* every contract's code.  A session ends by Close or a crash, and the     *)
(* next one starts with what is on disk.                                   *)
(*                                                                         *)
(* One contract stands for a code batch.  Owners, names and timings are    *)
(* left out; a set of registered contracts is its own hash.                *)
(***************************************************************************)
EXTENDS Integers, Sequences, FiniteSets, Functions, FiniteSetsExt, SequencesExt

CONSTANTS
  Registry,     \* the contracts GnomonSC will have registered
  HeightOf,     \* the height each is registered at
  ClassOf,      \* the class its code has: "INDEX", "DOC", another, or "none"
  Persisted,    \* classes whose code shouldPersistCode keeps
  WorkCap,      \* capacity of the work and varWork channels
  VarBatch,     \* varBatchSize
  EarlyExit,    \* contracts without a find that end a delta probe
  KeepSeeds,    \* classifySeedCacheKeepCount
  FreshSpan,    \* blocks a cache stays fresh
  MaxTip,       \* bound on the chain's height
  MaxFaults,    \* bound on failing calls and flushes
  MaxSessions   \* bound on starts of the process

\* What is assumed of them.
DiscoveryAssumption ==
  /\ IsFiniteSet(Registry)
  /\ HeightOf \in [Registry -> Nat \ {0}]
  /\ {WorkCap, VarBatch, KeepSeeds} \subseteq Nat \ {0}
  /\ {EarlyExit, FreshSpan, MaxTip, MaxFaults, MaxSessions} \subseteq Nat

VARIABLES
  db,          \* the store: owners, classes, vars, codes, last
  cache,       \* tela_cache.bin, or NoCache
  seeds,       \* the seed directory
  tip,         \* the daemon's topological height
  sync,        \* FastSync: pc, chainHeight, candidates, position, batch
  probe,       \* probeTELA
  indexed,     \* Indexer.LastIndexedHeight
  settled,     \* TELAProbeSettled
  quitting,    \* Indexer.Closing
  faults,      \* faults so far
  session,     \* sessions so far
  degraded,    \* history: this session met a fault, Close or an early exit
  origin,      \* history: the height at which the store's scan takes over
  skipped,     \* history: contracts up to there known not to be imported
  excused,     \* history: contracts that a cache has let go
  unflushed    \* history: contracts the cache lists and whose flush failed

disk == <<db, cache, seeds>>
lost == <<excused, unflushed>>
jumped == <<origin, skipped>>
hist == <<degraded, jumped, lost>>
vars == <<disk, tip, sync, probe, indexed, settled, quitting, faults, session, hist>>

Tela    == {s \in Registry : ClassOf[s] \in {"INDEX", "DOC"}}
Known   == {s \in Registry : ClassOf[s] # "none"}
OfClass(S, c) == {s \in S : ClassOf[s] = c}

\* The registry at a height.
Registered(h) == {s \in Registry : HeightOf[s] <= h}

Candidates == Range(sync.cands)

\* Mutant: the candidates above the height are not left out.
RegistryAtAll(h) == Candidates

\* classifySeedRegistryHash: the candidates up to a height.
RegistryAt(h) == {s \in Candidates : HeightOf[s] <= h}

NoCache == [version |-> 0]
EmptyStore == [owners |-> {}, classes |-> {}, vars |-> {}, codes |-> {}, last |-> 0]
NoSync  == [pc |-> "off", height |-> 0, cands |-> <<>>, pos |-> 1, batch |-> {}]
NoProbe == [pc |-> "off", kind |-> "none", todo |-> {}, hand |-> {},
            work |-> <<>>, varWork |-> <<>>, pend |-> {}, found |-> {},
            since |-> 0, complete |-> FALSE, codes |-> {}, classes |-> {},
            vars |-> {}, bad |-> {}, rpcErrs |-> 0, flushed |-> TRUE]

\* A call or a flush that fails, of the bounded number that do; after Close the
\* pool and the store are closed and any may fail.
Fault ==
  /\ quitting \/ faults < MaxFaults
  /\ faults' = IF quitting THEN faults ELSE faults + 1
  /\ degraded' = TRUE
NoFault == UNCHANGED <<faults, degraded>>

\* The daemon answers, a GetInfo or a GetSC at its latest height, which has
\* grown, or not, since it was asked last.
GetInfo == tip' \in tip .. MaxTip

-----------------------------------------------------------------------------
(* The caches.                                                             *)

CachedIndexes(c) == c.scids \cap OfClass(Registry, "INDEX")

\* cachedScvarsLookReadable: six in ten of the INDEX contracts (the code samples
\* five) have a snapshot at the cache's height; without any there is no doubt.
CachedScvarsLookReadable(c) ==
  LET index == CachedIndexes(c)
  IN  Cardinality({s \in index : <<s, c.height>> \in db.vars}) * 10
        >= Cardinality(index) * 6

\* Mutant: the variables of the cached contracts are not read.
CacheUsableBlind == cache # NoCache /\ cache.version = "current"

CurrentCache == cache # NoCache /\ cache.version = "current"
CacheUsable == CurrentCache /\ CachedScvarsLookReadable(cache)

\* A session that goes by the cache lets go what no check of it can find.
Trusted ==
  excused' = excused \cup (IF CachedScvarsLookReadable(cache) THEN unflushed ELSE {})

\* loadMatchingClassifySeedCache: the highest seed whose registry is this one's.
MatchingSeeds == {sd \in seeds : sd.registry = RegistryAt(sd.height)}
BestSeed == CHOOSE sd \in MatchingSeeds : \A x \in MatchingSeeds : x.height <= sd.height

Saved(height, scids) == [version |-> "current", height |-> height, scids |-> scids]

\* saveClassifySeedCache: one file per height and registry, then the prune.
SeedsWith(seed) ==
  LET all == {sd \in seeds : <<sd.height, sd.registry>> # <<seed.height, seed.registry>>}
             \cup {seed}
  IN  {sd \in all : Cardinality({x \in all : x.height > sd.height}) < KeepSeeds}

Started(kind, todo) ==
  [NoProbe EXCEPT !.pc = "sort", !.kind = kind, !.todo = todo]

DeltaSince(h) == {s \in Candidates : HeightOf[s] > h}

\* A delta probe, or nothing to probe and discovery is settled.
LaunchDelta(h) ==
  IF DeltaSince(h) = {} THEN settled' = TRUE /\ UNCHANGED probe
  ELSE probe' = Started("delta", DeltaSince(h)) /\ UNCHANGED settled

-----------------------------------------------------------------------------
(* FastSync.                                                               *)

Step(pc) == sync' = [sync EXCEPT !.pc = pc]

\* The process starts; with progress on disk FastSync is skipped, without any
\* the scan of the store is still to find where it begins.
Start ==
  /\ sync.pc = "off" /\ indexed' = db.last
  /\ UNCHANGED <<disk, tip, probe, settled, quitting, faults, session, degraded, lost>>
  /\ \/ db.last > 0 /\ sync' = [NoSync EXCEPT !.pc = "daemon"] /\ UNCHANGED jumped
     \/ /\ db.last = 0 /\ sync' = [NoSync EXCEPT !.pc = "cache"]
        /\ origin' = 0 /\ skipped' = {}

\* A fresh cache makes the registry and the probe unnecessary: the scan begins
\* at the tip, behind which nothing is imported.  The height that was read for a
\* cache that is not fresh, or not readable, stays FastSync's chain height.
CheckCache ==
  /\ sync.pc = "cache"
  /\ UNCHANGED <<disk, probe, quitting, session, unflushed>>
  /\ \/ /\ GetInfo /\ CacheUsable /\ tip' - cache.height < FreshSpan
        /\ NoFault /\ Step("daemon") /\ indexed' = tip' /\ settled' = TRUE /\ Trusted
        /\ origin' = tip' /\ skipped' = Registered(tip') \ db.owners
     \/ /\ GetInfo /\ CurrentCache /\ ~(CacheUsable /\ tip' - cache.height < FreshSpan)
        /\ NoFault /\ sync' = [sync EXCEPT !.pc = "registry", !.height = tip']
        /\ UNCHANGED <<indexed, settled, excused, jumped>>
     \/ /\ IF CurrentCache THEN Fault ELSE NoFault
        /\ Step("info") /\ UNCHANGED <<tip, indexed, settled, excused, jumped>>

\* The height to resume the scan at.  The caller logs an error of FastSync and
\* starts the daemon scan all the same.
GetHeight ==
  /\ sync.pc = "info"
  /\ UNCHANGED <<disk, probe, indexed, settled, quitting, session, jumped, lost>>
  /\ \/ Fault /\ Step("daemon") /\ UNCHANGED tip
     \/ GetInfo /\ NoFault /\ sync' = [sync EXCEPT !.pc = "registry", !.height = tip']

\* The registry, a call later: the candidates, in the order of a map, may be of
\* blocks above the chain height that was read.
FetchRegistry ==
  /\ sync.pc = "registry"
  /\ UNCHANGED <<cache, seeds, probe, indexed, quitting, session, skipped, lost>>
  /\ \/ Fault /\ Step("daemon") /\ UNCHANGED <<db, tip, settled, origin>>
     \/ /\ GetInfo /\ Registered(tip') = {} /\ Step("daemon") /\ settled' = TRUE
        /\ \/ NoFault /\ db' = [db EXCEPT !.last = sync.height] /\ origin' = sync.height
           \/ Fault /\ UNCHANGED <<db, origin>>
     \/ /\ GetInfo /\ Registered(tip') # {} /\ NoFault
        /\ \E q \in SetToSeqs(Registered(tip')) :
             sync' = [sync EXCEPT !.pc = "launch", !.cands = q]
        /\ UNCHANGED <<db, settled, origin>>

\* Only a missing file is a miss: a cache that was rejected is to be healed.
TrueCacheMiss == cache = NoCache

SeedApplied(sd) ==
  [db EXCEPT !.classes = @ \cup sd.classes, !.vars = @ \cup sd.vars,
             !.codes = @ \cup {s \in sd.codes : ClassOf[s] \in Persisted}]

\* launchTELADiscovery, before the fill.
Launch ==
  /\ sync.pc = "launch" /\ Step("fill")
  /\ UNCHANGED <<seeds, tip, indexed, quitting, session, jumped>>
  /\ \/ /\ CacheUsable /\ LaunchDelta(cache.height) /\ NoFault /\ Trusted
        /\ UNCHANGED <<db, cache, unflushed>>
     \/ /\ ~CacheUsable /\ TrueCacheMiss /\ MatchingSeeds # {} /\ NoFault
        /\ db' = SeedApplied(BestSeed)
        /\ cache' = Saved(BestSeed.height, BestSeed.scids)
        /\ LaunchDelta(BestSeed.height) /\ unflushed' = {} /\ UNCHANGED excused
     \/ /\ ~CacheUsable
        /\ IF TrueCacheMiss /\ MatchingSeeds # {} THEN Fault ELSE NoFault
        /\ probe' = Started("full", Candidates) /\ UNCHANGED <<db, cache, settled, lost>>

\* One candidate of the slice; the probe may be sorting it.
Fill ==
  /\ sync.pc = "fill" /\ sync.pos <= Len(sync.cands)
  /\ sync' = [sync EXCEPT !.batch = @ \cup {sync.cands[sync.pos]}, !.pos = @ + 1]
  /\ UNCHANGED <<disk, tip, probe, indexed, settled, quitting, faults, session, hist>>

\* Mutant: the last candidate is left out.
FilledEarly == sync.pos >= Len(sync.cands)

Filled == sync.pos > Len(sync.cands)

\* Progress is claimed with the rows, and only when they are committed.
FlushRegistry ==
  /\ sync.pc = "fill" /\ Filled /\ Step("daemon")
  /\ UNCHANGED <<cache, seeds, tip, probe, settled, quitting, session, skipped, lost>>
  /\ \/ /\ NoFault /\ indexed' = sync.height /\ origin' = sync.height
        /\ db' = [db EXCEPT !.owners = @ \cup sync.batch, !.last = sync.height]
     \/ Fault /\ UNCHANGED <<db, indexed, origin>>

\* StartDaemonMode: the scan commits at the tip, the monitor raises the cache's
\* height and writes it with the current version.
ScanCommit ==
  /\ sync.pc = "daemon" /\ ~quitting /\ GetInfo /\ db.last < tip'
  /\ db' = [db EXCEPT !.last = tip'] /\ indexed' = tip'
  /\ UNCHANGED <<cache, seeds, sync, probe, settled, quitting, faults, session, hist>>

BumpCache ==
  /\ sync.pc = "daemon" /\ ~quitting /\ cache # NoCache
  /\ GetInfo /\ cache.height < tip'
  /\ cache' = Saved(tip', cache.scids)
  /\ excused' = excused \cup (Registered(tip') \ cache.scids)
  /\ UNCHANGED <<db, seeds, sync, probe, indexed, settled, quitting, faults,
                 session, degraded, jumped, unflushed>>

-----------------------------------------------------------------------------
(* probeTELA.                                                              *)

\* What a step of the probe leaves alone.
ProbeOnly == UNCHANGED <<disk, tip, indexed, settled, quitting, session, lost>>

\* sort.Slice, an exchange at a time: a full probe sorts FastSync's own slice,
\* and may move a candidate to behind where the fill reads.
SortSwap ==
  /\ probe.pc = "sort" /\ probe.kind = "full"
  /\ \E i \in 1 .. Len(sync.cands) - 1 :
       /\ HeightOf[sync.cands[i]] < HeightOf[sync.cands[i + 1]]
       /\ sync' = [sync EXCEPT !.cands = [@ EXCEPT ![i] = sync.cands[i + 1],
                                                   ![i + 1] = sync.cands[i]]]
       /\ skipped' = skipped \cup (IF sync.pc = "fill" /\ sync.pos = i + 1
                                  THEN {sync.cands[i + 1]} ELSE {})
  /\ ProbeOnly /\ NoFault /\ UNCHANGED <<probe, origin>>

Sorted(q) == \A i \in 1 .. Len(q) - 1 : HeightOf[q[i]] >= HeightOf[q[i + 1]]

SortDone ==
  /\ probe.pc = "sort" /\ (probe.kind = "full" => Sorted(sync.cands))
  /\ probe' = [probe EXCEPT !.pc = "feed"]
  /\ ProbeOnly /\ NoFault /\ UNCHANGED <<sync, jumped>>

\* The feeder looks at Closing, takes the latest registered, in any order among
\* those of one height, then sends, and blocks when the channel is full.
Feed ==
  /\ probe.pc = "feed" /\ probe.hand = {}
  /\ \/ /\ probe.todo = {} \/ quitting \/ probe.complete
        /\ probe' = [probe EXCEPT !.pc = "phase1"]
     \/ /\ ~quitting /\ ~probe.complete
        /\ \E s \in probe.todo :
             /\ \A t \in probe.todo : HeightOf[t] <= HeightOf[s]
             /\ probe' = [probe EXCEPT !.hand = {s}, !.todo = @ \ {s}]
  /\ ProbeOnly /\ NoFault /\ UNCHANGED <<sync, jumped>>

Send ==
  /\ probe.pc = "feed" /\ Len(probe.work) < WorkCap
  /\ \E s \in probe.hand : probe' = [probe EXCEPT !.work = Append(@, s), !.hand = {}]
  /\ ProbeOnly /\ NoFault /\ UNCHANGED <<sync, jumped>>

\* Mutant: the workers return when the indexer is closing.
DropsReturning(p) == FALSE

\* A worker that has nothing more to do still takes what the feeder sends.
Drops(p) == quitting \/ p.complete

\* A match joins its class's chunk; a full chunk goes to phase 2 at once.
Matched(p, s) ==
  LET class == OfClass(p.pend \cup {s}, ClassOf[s])
      full  == s \in Tela /\ Cardinality(class) >= VarBatch
  IN  [p EXCEPT !.found = @ \cup {s},
                !.pend = IF s \notin Tela THEN @ ELSE IF full THEN @ \ class ELSE @ \cup {s},
                !.varWork = IF full /\ ~quitting THEN Append(@, class) ELSE @,
                !.codes = IF ClassOf[s] \in Persisted THEN @ \cup {s} ELSE @]

\* Only a delta probe may stop early.
ExitsEarly(p) == p.kind = "delta" /\ p.since > EarlyExit /\ p.found # {}

ProbeCode ==
  /\ probe.work # <<>> /\ Len(probe.varWork) < WorkCap
  /\ LET s == Head(probe.work)
         p == [probe EXCEPT !.work = Tail(@)]
         after == [(IF s \in Known THEN Matched(p, s) ELSE p)
                      EXCEPT !.since = IF s \in Known THEN 1 ELSE @ + 1]
     IN  \/ /\ Drops(probe) /\ probe' = p /\ NoFault
         \/ /\ ~quitting /\ ~probe.complete
            /\ probe' = [after EXCEPT !.complete = ExitsEarly(after)]
            /\ faults' = faults /\ degraded' = (degraded \/ ExitsEarly(after))
         \/ /\ ~quitting /\ ~probe.complete /\ Fault
            /\ \/ probe' = [p EXCEPT !.rpcErrs = @ + 1]
               \/ probe' = [p EXCEPT !.bad = @ \cup {s}, !.since = @ + 1]
  /\ ProbeOnly /\ UNCHANGED <<sync, jumped>>

\* Phase 2: variables and metadata of a chunk, but for what does not decode.
ProbeVars ==
  /\ probe.varWork # <<>>
  /\ LET p == [probe EXCEPT !.varWork = Tail(@)]
         chunk == Head(probe.varWork)
         read(good) == [p EXCEPT !.classes = @ \cup good,
                                 !.vars = @ \cup (good \X {sync.height}),
                                 !.bad = @ \cup (chunk \ good)]
     IN  \/ quitting /\ probe' = p /\ NoFault
         \/ ~quitting /\ probe' = read(chunk) /\ NoFault
         \/ /\ ~quitting /\ Fault
            /\ \/ probe' = [p EXCEPT !.rpcErrs = @ + 1]
               \/ \E good \in SUBSET chunk \ {chunk} : probe' = read(good)
  /\ ProbeOnly /\ UNCHANGED <<sync, jumped>>

Chunk(scids) == IF scids = {} THEN <<>> ELSE <<scids>>

\* Phase 1 is over: nothing was found, or the code snapshots are flushed and
\* what waits for a full chunk is sent.
EndPhase1 ==
  /\ probe.pc = "phase1" /\ probe.work = <<>>
  /\ Len(probe.varWork) + 2 <= WorkCap + 1
  /\ UNCHANGED <<cache, seeds, tip, sync, indexed, quitting, session, jumped, lost>>
  /\ \/ /\ probe.found = {} /\ NoFault
        /\ probe' = NoProbe /\ settled' = TRUE /\ UNCHANGED db
     \/ /\ probe.found # {} /\ UNCHANGED settled
        /\ probe' = [probe EXCEPT !.pc = "phase2", !.pend = {},
             !.varWork = IF quitting THEN @
                         ELSE @ \o Chunk(OfClass(probe.pend, "INDEX"))
                                \o Chunk(OfClass(probe.pend, "DOC")),
             !.classes = @ \cup (probe.found \ Tela)]
        /\ \/ NoFault /\ db' = [db EXCEPT !.codes = @ \cup probe.codes]
           \/ Fault /\ UNCHANGED db

FlushVars ==
  /\ probe.pc = "phase2" /\ probe.varWork = <<>>
  /\ UNCHANGED <<cache, seeds, tip, sync, indexed, settled, quitting, session, jumped, lost>>
  /\ \/ /\ NoFault /\ probe' = [probe EXCEPT !.pc = "save"]
        /\ db' = [db EXCEPT !.classes = @ \cup probe.classes, !.vars = @ \cup probe.vars]
     \/ /\ Fault /\ probe' = [probe EXCEPT !.pc = "save", !.flushed = FALSE]
        /\ UNCHANGED db

LocalCacheClean(p) == ~quitting /\ p.rpcErrs = 0

\* Mutant: decode errors are tolerated, as in the local cache.
ShouldSaveSeedTolerant(p) == ~quitting /\ p.kind = "full" /\ p.flushed /\ p.rpcErrs = 0

ShouldSaveSeedCache(p) ==
  ~quitting /\ p.kind = "full" /\ p.flushed /\ p.rpcErrs = 0 /\ p.bad = {}

\* The end of the probe: the caches, then settled.
SaveCaches ==
  /\ probe.pc = "save"
  /\ IF probe.kind = "full" /\ LocalCacheClean(probe)
     THEN /\ cache' = Saved(sync.height, probe.found)
          /\ excused' = excused \cup probe.bad
          /\ unflushed' = IF probe.flushed THEN {} ELSE probe.found \ db.classes
     ELSE UNCHANGED <<cache, lost>>
  /\ seeds' = IF ShouldSaveSeedCache(probe)
              THEN SeedsWith([height |-> sync.height, registry |-> RegistryAt(sync.height),
                              scids |-> probe.found, classes |-> probe.classes,
                              vars |-> probe.vars, codes |-> probe.codes])
              ELSE seeds
  /\ probe' = NoProbe /\ settled' = TRUE
  /\ UNCHANGED <<db, tip, sync, indexed, quitting, faults, session, degraded, jumped>>

-----------------------------------------------------------------------------
Init ==
  /\ db = EmptyStore /\ seeds = {} /\ tip = 1 /\ indexed = 0
  /\ cache \in {NoCache, [version |-> "old", height |-> 1, scids |-> {}]}
  /\ sync = NoSync /\ probe = NoProbe
  /\ settled = FALSE /\ quitting = FALSE /\ faults = 0 /\ session = 1
  /\ degraded = FALSE /\ origin = 0 /\ skipped = {} /\ excused = {} /\ unflushed = {}

\* Indexer.Close.
Close ==
  /\ sync.pc # "off" /\ ~quitting /\ quitting' = TRUE /\ degraded' = TRUE
  /\ UNCHANGED <<disk, tip, sync, probe, indexed, settled, faults, session, jumped, lost>>

\* The process ends at any point and starts again, on its database or, after
\* the user has removed the directory, on an empty one.
Restart ==
  /\ sync.pc # "off" /\ session < MaxSessions /\ session' = session + 1
  /\ sync' = NoSync /\ probe' = NoProbe /\ settled' = FALSE /\ quitting' = FALSE
  /\ degraded' = FALSE /\ indexed' = 0
  /\ \/ UNCHANGED <<db, cache, jumped, lost>>
     \/ /\ db' = EmptyStore /\ cache' = NoCache /\ excused' = {} /\ unflushed' = {}
        /\ origin' = 0 /\ skipped' = {}
  /\ UNCHANGED <<seeds, tip, faults>>

FastSync ==
  \/ Start \/ CheckCache \/ GetHeight \/ FetchRegistry
  \/ Launch \/ Fill \/ FlushRegistry

ProbeTELA ==
  \/ SortSwap \/ SortDone \/ Feed \/ Send \/ ProbeCode \/ ProbeVars
  \/ EndPhase1 \/ FlushVars \/ SaveCaches

Next ==
  \/ FastSync \/ ProbeTELA \/ ScanCommit \/ BumpCache
  \/ Close \/ Restart

\* While a goroutine of the probe can run, one of them does; calls return within
\* their timeouts.
DiscoveryFairness == WF_vars(ProbeTELA)

Spec == Init /\ [][Next]_vars
LiveSpec == Spec /\ DiscoveryFairness

-----------------------------------------------------------------------------
(* Properties.                                                             *)

TypeOK ==
  /\ db.owners \cup db.classes \cup db.codes \subseteq Registry
  /\ db.vars \subseteq Registry \X (1 .. MaxTip) /\ db.last \in 0 .. tip
  /\ indexed \in 0 .. tip /\ Len(probe.work) <= WorkCap
  /\ Len(probe.varWork) <= WorkCap + 1 /\ Cardinality(seeds) <= KeepSeeds

\* A local cache makes the next start skip the probe, so it lists every known
\* contract of its height but those a decode error hid (fastsync.go:904-913).
CacheComplete ==
  (cache # NoCache /\ cache.version = "current") =>
     Known \cap Registered(cache.height) \subseteq cache.scids \cup excused

\* A seed asserts completeness for its registry on any machine: every known
\* contract, with variables for each application (fastsync.go:950-973).
SeedComplete ==
  \A sd \in seeds :
    /\ Known \cap sd.registry \subseteq sd.scids /\ sd.scids \subseteq sd.classes
    /\ \A s \in sd.scids \cap Tela : \E h \in 1 .. sd.height : <<s, h>> \in sd.vars

\* What discovery saves for other starts to go by is complete.
CachesComplete == CacheComplete /\ SeedComplete

\* TELAProbeSettled promises durable results (globals.go:71): once it is set and
\* the session met no fault, every known contract of the registry it fetched,
\* or of the cache it trusted, is in the class bucket, whichever way discovery
\* went, but for the contracts an earlier session's cache has let go.
SettledDurable ==
  settled /\ ~degraded =>
    /\ probe = NoProbe
    /\ Known \cap (IF sync.cands # <<>> THEN Candidates
                   ELSE IF cache = NoCache THEN {} ELSE Registered(cache.height))
         \subseteq db.classes \cup excused

\* FastSync runs on a store without progress only (fastsync.go:248, indexer.go
\* reads LastIndexedHeight at the start), so what it leaves out no later start
\* imports.  Where the progress in the store was not scanned but set, by the
\* flush of the registry or from a fresh cache, every contract registered up to
\* there is in the store, whatever failed, closed or crashed in between and in
\* every later session, but for the contracts that the sort moved past the fill
\* and those that were missing when the scan began at a fresh cache.  A FastSync
\* that fails sets nothing, so nothing is said of it: its error is logged, the
\* scan begins RecentBlocks below the tip, and the registry is not imported.
ProgressImported == db.last > 0 => Registered(origin) \subseteq db.owners \cup skipped

\* A launched discovery settles or the process ends, also when the indexer
\* closes while the feeder waits for a full channel: again and again no probe runs.
Settles == []<>(probe = NoProbe)

-----------------------------------------------------------------------------
(* The inductive invariant.                                                *)

Versions == Registry \X (1 .. MaxTip)

Stores == [owners : SUBSET Registry, classes : SUBSET Registry,
           vars : SUBSET Versions, codes : SUBSET Registry, last : Nat]
Caches == [version : {"old", "current"}, height : Nat, scids : SUBSET Registry]
Seeds  == [height : 1 .. MaxTip, registry : SUBSET Registry, scids : SUBSET Registry,
           classes : SUBSET Registry, vars : SUBSET Versions, codes : SUBSET Registry]
Syncs  == [pc : {"off", "cache", "info", "registry", "launch", "fill", "daemon"},
           height : 0 .. MaxTip, cands : Seq(Registry), pos : Nat \ {0},
           batch : SUBSET Registry]
Probes == [pc : {"off", "sort", "feed", "phase1", "phase2", "save"},
           kind : {"none", "full", "delta"}, todo : SUBSET Registry,
           hand : SUBSET Registry, work : Seq(Registry), varWork : Seq(SUBSET Registry),
           pend : SUBSET Registry, found : SUBSET Registry, since : Nat,
           complete : BOOLEAN, codes : SUBSET Registry, classes : SUBSET Registry,
           vars : SUBSET Versions, bad : SUBSET Registry, rpcErrs : Nat,
           flushed : BOOLEAN]

Types ==
  /\ db \in Stores /\ cache \in Caches \cup {NoCache} /\ seeds \subseteq Seeds
  /\ sync \in Syncs /\ probe \in Probes
  /\ tip \in Nat \ {0} /\ indexed \in Nat /\ faults \in Nat /\ session \in Nat
  /\ settled \in BOOLEAN /\ quitting \in BOOLEAN
  /\ degraded \in BOOLEAN /\ origin \in Nat /\ skipped \subseteq Registry
  /\ excused \subseteq Registry /\ unflushed \subseteq Registry

\* Nothing is ahead of the daemon, and no channel holds more than it can.
Bounds ==
  /\ db.last <= tip /\ indexed <= tip /\ sync.height <= tip
  /\ cache # NoCache => cache.height <= tip
  /\ Len(probe.work) <= WorkCap /\ Len(probe.varWork) <= WorkCap + 1
  /\ IsFiniteSet(seeds) /\ Cardinality(seeds) <= KeepSeeds

\* What was fetched: the registry at FastSync's chain height, and maybe more.
Fetched == Registered(sync.height) \subseteq Candidates /\ Candidates \subseteq Registered(tip)

\* A probe runs beside the fill and the scan, on the registry that was fetched.
Phases ==
  /\ sync.pc \in {"off", "cache", "info", "registry"} => sync.cands = <<>>
  /\ sync.pc \in {"launch", "fill"} => sync.cands # <<>>
  /\ sync.pc = "registry" \/ sync.cands # <<>> => sync.height > 0
  /\ sync.cands # <<>> => Fetched
  /\ sync.pc \notin {"fill", "daemon"} => probe.pc = "off" /\ ~settled
  /\ IF probe.pc = "off" THEN probe = NoProbe
     ELSE sync.cands # <<>> /\ ~settled /\ probe.kind # "none"

\* What makes a session one that results are not promised of.
Degraded ==
  /\ quitting => degraded
  /\ probe.complete => degraded /\ probe.kind = "delta"
  /\ probe.rpcErrs > 0 \/ probe.bad # {} \/ ~probe.flushed => degraded

\* What each phase of the probe leaves behind.
Stages ==
  /\ probe.pc # "feed" => probe.hand = {}
  /\ \A s, t \in probe.hand : s = t
  /\ probe.pc = "sort" => probe.work = <<>>
  /\ probe.pc \in {"phase1", "phase2", "save"} =>
       probe.todo = {} \/ quitting \/ probe.complete
  /\ probe.pc \in {"phase2", "save"} =>
       probe.work = <<>> /\ probe.pend = {} /\ probe.found \ Tela \subseteq probe.classes
  /\ probe.pc = "save" =>
       probe.varWork = <<>> /\ (probe.flushed => probe.classes \subseteq db.classes)

\* A candidate on its way through phase 1, or through it and found.
InPhase1 == probe.todo \cup probe.hand \cup Range(probe.work)

\* No candidate is lost: a full probe accounts for all of them, a delta probe
\* for those above what the cache or the seed it started from has.
Covered ==
  probe.pc # "off" =>
    /\ InPhase1 \cup probe.found \subseteq Candidates
    /\ probe.kind = "full" /\ ~quitting /\ probe.rpcErrs = 0 =>
         Known \cap Candidates \subseteq InPhase1 \cup probe.found \cup probe.bad
    /\ ~degraded => Known \cap Candidates
                      \subseteq InPhase1 \cup probe.found \cup db.classes \cup excused

InChunks == UNION Range(probe.varWork)

\* Nor is an application between its chunk and the class batch.
Chunked ==
  /\ ~quitting /\ probe.rpcErrs = 0 =>
       probe.found \cap Tela
         \subseteq probe.pend \cup InChunks \cup probe.classes \cup probe.bad
  /\ \A s \in probe.classes \cap Tela : <<s, sync.height>> \in probe.vars

\* What the cache lists is registered, maybe above its height, and in the store,
\* but for what was let go or not flushed.
Cached ==
  cache # NoCache => /\ cache.scids \subseteq Registered(tip)
                     /\ cache.scids \subseteq db.classes \cup excused \cup unflushed

\* A seed is of the registry of its height, the only one of that height.
Seeded ==
  \A sd \in seeds : /\ sd.height <= tip /\ sd.registry = Registered(sd.height)
                    /\ sd.scids \subseteq Registered(tip)
                    /\ \A x \in seeds : x.height = sd.height => x = sd

\* What SettledDurable says, apart for a session that fetched a registry and
\* for one that did not, in which the monitor may still raise the cache's height.
SettledLine ==
  settled /\ ~degraded =>
    IF sync.cands # <<>> THEN Known \cap Candidates \subseteq db.classes \cup excused
    ELSE cache # NoCache => /\ Known \cap Registered(cache.height) \subseteq cache.scids \cup excused
                            /\ cache.scids \subseteq db.classes \cup excused

\* The fill has read what is behind it, but for what the sort has moved there;
\* where the scan takes over is known only once the registry is in the store.
Imported ==
  /\ sync.pc \notin {"fill", "daemon"} => sync.pos = 1
  /\ sync.pc = "fill" =>
       /\ sync.pos <= Len(sync.cands) + 1
       /\ \A i \in 1 .. sync.pos - 1 : sync.cands[i] \in sync.batch \cup skipped
  /\ Registered(origin) \subseteq db.owners \cup skipped

DiscoveryInv ==
  /\ Types /\ Bounds /\ Phases /\ Degraded /\ Stages /\ Covered /\ Chunked
  /\ CacheComplete /\ Cached /\ SeedComplete /\ Seeded /\ SettledLine /\ Imported
=============================================================================
