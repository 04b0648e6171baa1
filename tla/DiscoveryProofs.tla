--------------------------- MODULE DiscoveryProofs ---------------------------
(***************************************************************************)
(* Proofs about Discovery, for any registry, any number of faults, Closes, *)
(* crashes and starts: what the caches and the seeds stand for, what       *)
(* TELAProbeSettled promises, and what stored progress means.              *)
(***************************************************************************)
EXTENDS Discovery, FiniteSetTheorems, WellFoundedInduction, TLAPS

USE DEF disk, lost, jumped, hist

-----------------------------------------------------------------------------
(* Sequences and what they list.                                           *)

LEMMA RangeEmpty == Range(<<>>) = {}
BY DEF Range

LEMMA RangeAppend ==
  ASSUME NEW S, NEW q \in Seq(S), NEW s \in S
  PROVE  Append(q, s) \in Seq(S) /\ Range(Append(q, s)) = Range(q) \cup {s}
<1>1. /\ Append(q, s) \in Seq(S) /\ DOMAIN Append(q, s) = DOMAIN q \cup {Len(q) + 1}
      /\ \A i \in DOMAIN q : Append(q, s)[i] = q[i] /\ Append(q, s)[Len(q) + 1] = s
      /\ Append(q, s)[Len(q) + 1] = s
  OBVIOUS
<1> QED BY <1>1 DEF Range

LEMMA RangeTail ==
  ASSUME NEW S, NEW q \in Seq(S), q # <<>>
  PROVE  /\ Tail(q) \in Seq(S) /\ Head(q) \in S /\ Len(Tail(q)) = Len(q) - 1
         /\ Range(q) = {Head(q)} \cup Range(Tail(q))
<1>1. /\ Tail(q) \in Seq(S) /\ Head(q) = q[1] /\ Head(q) \in S
      /\ Len(q) \in Nat \ {0} /\ Len(Tail(q)) = Len(q) - 1
      /\ DOMAIN q = 1 .. Len(q) /\ DOMAIN Tail(q) = 1 .. Len(q) - 1
      /\ \A i \in 1 .. Len(q) - 1 : Tail(q)[i] = q[i + 1]
  OBVIOUS
<1>2. ASSUME NEW x \in Range(q) PROVE x \in {Head(q)} \cup Range(Tail(q))
  <2>1. PICK i \in 1 .. Len(q) : x = q[i]
    BY <1>1, <1>2 DEF Range
  <2>2. i = 1 \/ (i - 1 \in 1 .. Len(q) - 1 /\ Tail(q)[i - 1] = q[i])
    BY <1>1
  <2> QED BY <1>1, <2>1, <2>2 DEF Range
<1>3. ASSUME NEW x \in Range(Tail(q)) PROVE x \in Range(q)
  <2>1. PICK i \in 1 .. Len(q) - 1 : x = q[i + 1]
    BY <1>1, <1>3 DEF Range
  <2> QED BY <1>1, <2>1 DEF Range
<1>4. Head(q) \in Range(q)
  BY <1>1 DEF Range
<1> QED BY <1>1, <1>2, <1>3, <1>4

LEMMA RangeChunk ==
  ASSUME NEW q \in Seq(SUBSET Registry), NEW c \in SUBSET Registry,
         NEW r, r = q \o Chunk(c)
  PROVE  /\ r \in Seq(SUBSET Registry) /\ Len(r) <= Len(q) + 1
         /\ UNION Range(r) = (UNION Range(q)) \cup c
<1>1. CASE c = {}
  <2>1. r = q
    BY <1>1 DEF Chunk
  <2>2. Len(q) \in Nat /\ (UNION Range(q)) \cup c = UNION Range(q)
    BY <1>1
  <2> QED BY <2>1, <2>2
<1>2. CASE c # {}
  <2>1. r = Append(q, c)
    BY <1>2 DEF Chunk
  <2>2. Range(Append(q, c)) = Range(q) \cup {c} /\ Append(q, c) \in Seq(SUBSET Registry)
    BY RangeAppend
  <2>3. Len(Append(q, c)) = Len(q) + 1
    OBVIOUS
  <2> QED BY <2>1, <2>2, <2>3
<1> QED BY <1>1, <1>2

\* An exchange of two neighbours leaves what is listed as it is.
LEMMA RangeSwap ==
  ASSUME NEW S, NEW q \in Seq(S), NEW i \in 1 .. Len(q) - 1, NEW r,
         r = [q EXCEPT ![i] = q[i + 1], ![i + 1] = q[i]]
  PROVE  /\ r \in Seq(S) /\ Len(r) = Len(q) /\ Range(r) = Range(q)
         /\ \A j \in 1 .. Len(q) : j # i /\ j # i + 1 => r[j] = q[j]
         /\ r[i] = q[i + 1] /\ r[i + 1] = q[i]
<1>1. /\ Len(q) \in Nat /\ i \in 1 .. Len(q) /\ i + 1 \in 1 .. Len(q)
      /\ DOMAIN q = 1 .. Len(q) /\ i # i + 1
  OBVIOUS
<1>2. /\ DOMAIN r = 1 .. Len(q) /\ r[i] = q[i + 1] /\ r[i + 1] = q[i]
      /\ \A j \in 1 .. Len(q) : j # i /\ j # i + 1 => r[j] = q[j]
  BY <1>1
<1>3. r \in [1 .. Len(q) -> S]
  BY <1>1
<1>4. r \in Seq(S) /\ Len(r) = Len(q)
  BY <1>1, <1>3
<1>5. Range(r) = Range(q)
  BY <1>1, <1>2 DEF Range
<1> QED BY <1>2, <1>4, <1>5

LEMMA ListsAll ==
  ASSUME NEW S, IsFiniteSet(S), NEW q \in SetToSeqs(S)
  PROVE  q \in Seq(S) /\ Range(q) = S
<1> DEFINE D == 1 .. Cardinality(S)
<1>1. Cardinality(S) \in Nat
  BY FS_CardinalityType
<1>2. q \in [D -> S] /\ \A i, j \in D : i # j => q[i] # q[j]
  BY DEF SetToSeqs
<1>3. q \in Injection(D, S)
  BY <1>2 DEF Injection, IsInjective
<1>4. IsFiniteSet(D) /\ Cardinality(D) = Cardinality(S)
  BY <1>1, FS_Interval
<1>5. q \in Surjection(D, S)
  <2> HIDE DEF D
  <2> QED BY <1>3, <1>4, FS_Injection
<1>6. q \in Seq(S)
  BY <1>1, <1>2
<1> QED BY <1>2, <1>5, <1>6 DEF Surjection, Range

-----------------------------------------------------------------------------
(* Types.                                                                  *)

LEMMA Constants ==
  ASSUME DiscoveryAssumption
  PROVE  /\ IsFiniteSet(Registry) /\ HeightOf \in [Registry -> Nat \ {0}]
         /\ MaxTip \in Nat /\ WorkCap \in Nat \ {0} /\ KeepSeeds \in Nat \ {0}
BY DEF DiscoveryAssumption

\* What a step leaves of FastSync's and of the probe's state.
LEMMA SyncSteps ==
  ASSUME sync \in Syncs, NEW pc, Step(pc)
  PROVE  /\ sync'.pc = pc /\ sync'.height = sync.height /\ sync'.cands = sync.cands
         /\ sync'.pos = sync.pos /\ sync'.batch = sync.batch
         /\ pc \in {"info", "registry", "launch", "fill", "daemon"} => sync' \in Syncs
BY DEF Step, Syncs

LEMMA NoProbeIs == NoProbe \in Probes
BY DEF NoProbe, Probes

LEMMA StartedIs ==
  ASSUME NEW kind \in {"full", "delta"}, NEW todo \in SUBSET Registry,
         NEW p, p = Started(kind, todo)
  PROVE  /\ p \in Probes /\ p.pc = "sort" /\ p.kind = kind /\ p.todo = todo
         /\ p.hand = {} /\ p.work = <<>> /\ p.varWork = <<>> /\ p.pend = {}
         /\ p.found = {} /\ p.bad = {} /\ p.classes = {} /\ p.rpcErrs = 0
         /\ p.flushed /\ ~p.complete
<1>1. /\ NoProbe.hand = {} /\ NoProbe.work = <<>> /\ NoProbe.varWork = <<>>
      /\ NoProbe.pend = {} /\ NoProbe.found = {} /\ NoProbe.bad = {}
      /\ NoProbe.classes = {} /\ NoProbe.rpcErrs = 0
  BY DEF NoProbe
<1>2. NoProbe.flushed /\ ~NoProbe.complete
  BY DEF NoProbe
<1>3. /\ p \in Probes /\ p.pc = "sort" /\ p.kind = kind /\ p.todo = todo
      /\ p.hand = NoProbe.hand /\ p.work = NoProbe.work
      /\ p.varWork = NoProbe.varWork /\ p.pend = NoProbe.pend
      /\ p.found = NoProbe.found /\ p.bad = NoProbe.bad
      /\ p.classes = NoProbe.classes /\ p.rpcErrs = NoProbe.rpcErrs
  BY NoProbeIs DEF Started, Probes
<1>4. p.flushed = NoProbe.flushed /\ p.complete = NoProbe.complete
  BY NoProbeIs DEF Started, Probes
<1> QED BY <1>1, <1>2, <1>3, <1>4

LEMMA GetInfoGrows ==
  ASSUME MaxTip \in Nat, tip \in Nat \ {0}, GetInfo
  PROVE  tip' \in Nat \ {0} /\ tip' \in 1 .. MaxTip /\ tip <= tip'
BY DEF GetInfo

\* The registry only grows with the height.
LEMMA RegisteredGrows ==
  ASSUME DiscoveryAssumption, NEW g \in Int, NEW h \in Int, g <= h
  PROVE  Registered(g) \subseteq Registered(h)
BY Constants DEF Registered

LEMMA FaultTypes ==
  ASSUME faults \in Nat, degraded \in BOOLEAN, Fault \/ NoFault
  PROVE  faults' \in Nat /\ degraded' \in BOOLEAN
<1>1. CASE Fault
  <2>1. faults' \in Nat
    BY <1>1 DEF Fault
  <2>2. degraded' \in BOOLEAN
    BY <1>1 DEF Fault
  <2> QED BY <2>1, <2>2
<1>2. CASE NoFault
  BY <1>2 DEF NoFault
<1> QED BY <1>1, <1>2

LEMMA Least ==
  ASSUME NEW S \in SUBSET Nat, S # {}
  PROVE  \E x \in S : \A y \in S : x <= y
<1> DEFINE R == OpToRel(<, Nat)
<1>1. \A x, y \in Nat : <<x, y>> \in R <=> x < y
  BY DEF OpToRel
<1>2. IsWellFoundedOn(R, Nat)
  BY NatLessThanWellFounded
<1> HIDE DEF R
<1>3. \E x \in S : \A y \in S : <<y, x>> \notin R
  BY <1>2, WFMin
<1>4. PICK x \in S : \A y \in S : <<y, x>> \notin R
  BY <1>3
<1>5. ASSUME NEW y \in S PROVE x <= y
  <2>1. ~(y < x)
    BY <1>1, <1>4
  <2> QED BY <2>1
<1> QED BY <1>5

\* The greatest of a set of numbers that is bounded.
LEMMA Greatest ==
  ASSUME NEW n \in Nat, NEW S \in SUBSET (0 .. n), S # {}
  PROVE  \E x \in S : \A y \in S : y <= x
<1> DEFINE T == {n - x : x \in S}
<1>1. T \in SUBSET Nat
  <2> SUFFICES ASSUME NEW x \in S PROVE n - x \in Nat
    OBVIOUS
  <2> QED OBVIOUS
<1>2. T # {}
  OBVIOUS
<1>3. \E z \in T : \A y \in T : z <= y
  <2> HIDE DEF T
  <2> QED BY <1>1, <1>2, Least
<1>4. PICK x \in S : \A y \in T : n - x <= y
  BY <1>3
<1>5. ASSUME NEW y \in S PROVE y <= x
  <2>1. n - x <= n - y
    BY <1>4, <1>5
  <2> QED BY <2>1
<1> QED BY <1>5

LEMMA BestSeedMatches ==
  ASSUME DiscoveryAssumption, seeds \subseteq Seeds, MatchingSeeds # {}
  PROVE  BestSeed \in seeds /\ BestSeed \in Seeds
<1> DEFINE H == {sd.height : sd \in MatchingSeeds}
<1>1. MatchingSeeds \subseteq seeds
  BY DEF MatchingSeeds
<1>2. H \in SUBSET (0 .. MaxTip) /\ H # {}
  BY <1>1, Constants DEF Seeds
<1>3. \E x \in H : \A y \in H : y <= x
  <2> HIDE DEF H
  <2> QED BY <1>2, Greatest, Constants
<1>4. \E sd \in MatchingSeeds : \A x \in MatchingSeeds : x.height <= sd.height
  BY <1>3
<1>5. BestSeed \in MatchingSeeds
  <2> DEFINE best(sd) == \A x \in MatchingSeeds : x.height <= sd.height
  <2>1. \E sd \in MatchingSeeds : best(sd)
    BY <1>4
  <2>2. BestSeed = CHOOSE sd \in MatchingSeeds : best(sd)
    BY DEF BestSeed
  <2> HIDE DEF best
  <2> QED BY <2>1, <2>2
<1> QED BY <1>1, <1>5

LEMMA TypesInit == ASSUME DiscoveryAssumption, Init PROVE Types
<1>1. NoSync \in Syncs
  BY Constants DEF NoSync, Syncs
<1>2. NoProbe \in Probes
  BY NoProbeIs
<1>3. EmptyStore \in Stores
  BY DEF EmptyStore, Stores
<1>4. cache \in Caches \cup {NoCache}
  BY DEF Init, Caches
<1>5. settled \in BOOLEAN /\ quitting \in BOOLEAN /\ degraded \in BOOLEAN
      /\ origin \in Nat /\ skipped \subseteq Registry
  BY DEF Init
<1>6. tip \in Nat \ {0} /\ indexed \in Nat /\ faults \in Nat /\ session \in Nat
  BY DEF Init
<1> QED BY <1>1, <1>2, <1>3, <1>4, <1>5, <1>6 DEF Init, Types

LEMMA FastSyncTypes ==
  ASSUME DiscoveryAssumption, Types, FastSync \/ ScanCommit \/ BumpCache
  PROVE  Types'
<1> USE Constants
<1>d. db \in Stores /\ cache \in Caches \cup {NoCache} /\ seeds \subseteq Seeds
  BY DEF Types
<1>s. sync \in Syncs
  BY DEF Types
<1>n. tip \in Nat \ {0} /\ indexed \in Nat /\ faults \in Nat /\ session \in Nat
  BY DEF Types
<1>b. settled \in BOOLEAN /\ degraded \in BOOLEAN
  BY DEF Types
<1>e. excused \subseteq Registry /\ unflushed \subseteq Registry
  BY DEF Types
<1>j. origin \in Nat /\ skipped \subseteq Registry
  BY DEF Types
<1>f. Fault \/ NoFault => faults' \in Nat /\ degraded' \in BOOLEAN
  BY <1>n, <1>b, FaultTypes
<1>g. GetInfo => tip' \in Nat \ {0} /\ tip' \in 0 .. MaxTip
  BY <1>n, GetInfoGrows
<1>h. \A pc \in {"info", "registry", "launch", "fill", "daemon"} : Step(pc) => sync' \in Syncs
  BY <1>s, SyncSteps
<1>1. CASE Start
  <2>1. NoSync \in Syncs
    BY Constants DEF NoSync, Syncs
  <2>2. sync' \in Syncs
    BY <1>1, <2>1 DEF Start, Syncs
  <2>3. indexed' \in Nat
    BY <1>1, <1>d DEF Start, Stores
  <2>4. origin' \in Nat /\ skipped' \subseteq Registry
    BY <1>1, <1>j DEF Start
  <2> QED BY <1>1, <2>2, <2>3, <2>4 DEF Start, Types
<1>2. CASE CheckCache
  <2>1. sync' \in Syncs
    <3>1. ASSUME GetInfo, sync' = [sync EXCEPT !.pc = "registry", !.height = tip']
          PROVE  sync' \in Syncs
      BY <3>1, <1>g, <1>s DEF Syncs
    <3> QED BY <1>2, <1>h, <3>1 DEF CheckCache
  <2>2. tip' \in Nat \ {0} /\ indexed' \in Nat
    BY <1>2, <1>g, <1>n DEF CheckCache
  <2>3. excused' \subseteq Registry
    BY <1>2, <1>e DEF CheckCache, Trusted
  <2>4. faults' \in Nat /\ degraded' \in BOOLEAN
    BY <1>2, <1>f DEF CheckCache
  <2>5. settled' \in BOOLEAN
    BY <1>2, <1>b DEF CheckCache
  <2>6. origin' \in Nat /\ skipped' \subseteq Registry
    BY <1>2, <1>j, <2>2 DEF CheckCache, Registered
  <2> QED BY <1>2, <2>1, <2>2, <2>3, <2>4, <2>5, <2>6 DEF CheckCache, Types
<1>9. CASE GetHeight
  <2>1. sync' \in Syncs
    <3>1. ASSUME GetInfo, sync' = [sync EXCEPT !.pc = "registry", !.height = tip']
          PROVE  sync' \in Syncs
      BY <3>1, <1>g, <1>s DEF Syncs
    <3> QED BY <1>9, <1>h, <3>1 DEF GetHeight
  <2>2. tip' \in Nat \ {0}
    BY <1>9, <1>g, <1>n DEF GetHeight
  <2>3. faults' \in Nat /\ degraded' \in BOOLEAN
    BY <1>9, <1>f DEF GetHeight
  <2> QED BY <1>9, <2>1, <2>2, <2>3 DEF GetHeight, Types
<1>3. CASE FetchRegistry
  <2>1. tip' \in Nat \ {0}
    BY <1>3, <1>g, <1>n DEF FetchRegistry
  <2>2. sync' \in Syncs
    <3>1. CASE Step("daemon")
      BY <3>1, <1>h
    <3>2. ASSUME GetInfo, NEW q \in SetToSeqs(Registered(tip')),
                 sync' = [sync EXCEPT !.pc = "launch", !.cands = q]
          PROVE  sync' \in Syncs
      <4>1. IsFiniteSet(Registered(tip')) /\ Registered(tip') \subseteq Registry
        BY FS_Subset DEF Registered
      <4>2. q \in Seq(Registered(tip'))
        BY <4>1, ListsAll
      <4>3. q \in Seq(Registry)
        BY <4>1, <4>2
      <4> QED BY <3>2, <4>3, <1>g, <1>s DEF Syncs
    <3> QED BY <1>3, <3>1, <3>2 DEF FetchRegistry
  <2>6. sync.height \in Nat
    BY <1>s DEF Syncs
  <2>3. db' \in Stores /\ origin' \in Nat
    BY <1>3, <1>d, <1>j, <2>6 DEF FetchRegistry, Stores
  <2>4. faults' \in Nat /\ degraded' \in BOOLEAN
    BY <1>3, <1>f DEF FetchRegistry
  <2>5. settled' \in BOOLEAN
    BY <1>3, <1>b DEF FetchRegistry
  <2> QED BY <1>3, <2>1, <2>2, <2>3, <2>4, <2>5 DEF FetchRegistry, Types
<1>4. CASE Launch
  <2>1. sync' \in Syncs
    BY <1>4, <1>h DEF Launch
  <2>2. Candidates \subseteq Registry
    BY <1>s DEF Candidates, Syncs, Range
  <2>3. probe' \in Probes
    <3>1. ASSUME NEW h, LaunchDelta(h) PROVE probe' \in Probes
      <4>1. DeltaSince(h) \in SUBSET Registry
        BY <2>2 DEF DeltaSince
      <4> QED BY <3>1, <4>1, StartedIs DEF LaunchDelta, Types
    <3>2. ASSUME probe' = Started("full", Candidates) PROVE probe' \in Probes
      BY <2>2, <3>2, StartedIs
    <3> QED BY <1>4, <3>1, <3>2 DEF Launch
  <2>4. db' \in Stores /\ cache' \in Caches \cup {NoCache}
    <3>1. ASSUME MatchingSeeds # {}
          PROVE  SeedApplied(BestSeed) \in Stores /\ Saved(BestSeed.height, BestSeed.scids) \in Caches
      <4>1. BestSeed \in Seeds
        BY <3>1, <1>d, BestSeedMatches
      <4>2. SeedApplied(BestSeed) \in Stores
        BY <4>1, <1>d DEF Seeds, Stores, SeedApplied
      <4>3. Saved(BestSeed.height, BestSeed.scids) \in Caches
        BY <4>1 DEF Seeds, Caches, Saved
      <4> QED BY <4>2, <4>3
    <3> QED BY <1>4, <1>d, <3>1 DEF Launch
  <2>5. excused' \subseteq Registry /\ unflushed' \subseteq Registry
    BY <1>4, <1>e DEF Launch, Trusted
  <2>6. faults' \in Nat /\ degraded' \in BOOLEAN
    BY <1>4, <1>f DEF Launch
  <2>7. settled' \in BOOLEAN
    BY <1>4, <1>b DEF Launch, LaunchDelta
  <2> QED BY <1>4, <2>1, <2>3, <2>4, <2>5, <2>6, <2>7 DEF Launch, Types
<1>5. CASE Fill
  <2>1. sync.cands[sync.pos] \in Registry
    BY <1>5, <1>s DEF Fill, Syncs
  <2>2. sync' \in Syncs
    <3> DEFINE t == sync.cands[sync.pos]
    <3>1. t \in Registry /\ sync' = [sync EXCEPT !.batch = @ \cup {t}, !.pos = @ + 1]
      BY <1>5, <2>1 DEF Fill
    <3>2. sync.pos + 1 \in Nat \ {0} /\ sync.batch \cup {t} \in SUBSET Registry
      BY <1>s, <3>1 DEF Syncs
    <3> HIDE DEF t
    <3> QED BY <1>s, <3>1, <3>2 DEF Syncs
  <2> QED BY <1>5, <2>2 DEF Fill, Types
<1>6. CASE FlushRegistry
  <2>1. sync' \in Syncs
    BY <1>6, <1>h DEF FlushRegistry
  <2>2. db' \in Stores /\ indexed' \in Nat /\ origin' \in Nat
    <3>1. sync.height \in Nat /\ sync.batch \in SUBSET Registry
      BY <1>s DEF Syncs
    <3>2. db.owners \cup sync.batch \in SUBSET Registry
      BY <1>d, <3>1 DEF Stores
    <3> QED BY <1>6, <1>d, <1>j, <1>n, <3>1, <3>2 DEF FlushRegistry, Stores
  <2>3. faults' \in Nat /\ degraded' \in BOOLEAN
    BY <1>6, <1>f DEF FlushRegistry
  <2> QED BY <1>6, <2>1, <2>2, <2>3 DEF FlushRegistry, Types
<1>7. CASE ScanCommit
  <2>1. db' \in Stores /\ tip' \in Nat \ {0} /\ indexed' \in Nat
    BY <1>7, <1>d, <1>g DEF ScanCommit, Stores
  <2> QED BY <1>7, <2>1 DEF ScanCommit, Types
<1>8. CASE BumpCache
  <2>1. tip' \in Nat \ {0} /\ cache \in Caches
    BY <1>8, <1>d, <1>g DEF BumpCache
  <2>2. cache' \in Caches
    BY <1>8, <2>1 DEF BumpCache, Saved, Caches
  <2>3. excused' \subseteq Registry
    BY <1>8, <1>e DEF BumpCache, Registered
  <2> QED BY <1>8, <2>1, <2>2, <2>3 DEF BumpCache, Types
<1> QED BY <1>1, <1>2, <1>3, <1>4, <1>5, <1>6, <1>7, <1>8, <1>9 DEF FastSync

-----------------------------------------------------------------------------
(* What the steps of the probe do, and that they keep its type.            *)

LEMMA FeedStep ==
  ASSUME probe \in Probes, Feed
  PROVE  /\ probe' \in Probes /\ probe.pc = "feed" /\ probe.hand = {}
         /\ \/ /\ probe' = [probe EXCEPT !.pc = "phase1"]
               /\ probe.todo = {} \/ quitting \/ probe.complete
            \/ \E s \in probe.todo :
                 probe' = [probe EXCEPT !.hand = {s}, !.todo = @ \ {s}]
<1>1. ASSUME probe' = [probe EXCEPT !.pc = "phase1"] PROVE probe' \in Probes
  BY <1>1 DEF Probes
<1>2. ASSUME NEW s \in probe.todo, probe' = [probe EXCEPT !.hand = {s}, !.todo = @ \ {s}]
      PROVE  probe' \in Probes
  <2>1. {s} \in SUBSET Registry /\ probe.todo \ {s} \in SUBSET Registry
    BY DEF Probes
  <2> QED BY <1>2, <2>1 DEF Probes
<1> QED BY <1>1, <1>2 DEF Feed

LEMMA SendStep ==
  ASSUME DiscoveryAssumption, probe \in Probes, Send
  PROVE  /\ probe' \in Probes /\ probe.pc = "feed" /\ Len(probe'.work) <= WorkCap
         /\ \E s \in probe.hand :
              /\ probe' = [probe EXCEPT !.work = probe'.work, !.hand = {}]
              /\ Range(probe'.work) = Range(probe.work) \cup {s}
<1>1. PICK s \in probe.hand : probe' = [probe EXCEPT !.work = Append(@, s), !.hand = {}]
  BY DEF Send
<1>2. s \in Registry /\ probe.work \in Seq(Registry)
  BY DEF Probes
<1>3. Append(probe.work, s) \in Seq(Registry)
      /\ Range(Append(probe.work, s)) = Range(probe.work) \cup {s}
  BY <1>2, RangeAppend
<1>4. probe'.work = Append(probe.work, s) /\ probe' \in Probes
  BY <1>1, <1>3 DEF Probes
<1>5. Len(probe'.work) <= WorkCap
  BY <1>2, <1>4, Constants DEF Send
<1> QED BY <1>1, <1>3, <1>4, <1>5 DEF Send

\* A match is found, and waits for its variables if it is an application.
LEMMA MatchedStep ==
  ASSUME DiscoveryAssumption, NEW p \in Probes, NEW s \in Registry, Len(p.varWork) < WorkCap,
         NEW q, q = Matched(p, s)
  PROVE  /\ q \in Probes /\ q.found = p.found \cup {s} /\ Len(q.varWork) <= WorkCap
         /\ q = [p EXCEPT !.found = q.found, !.pend = q.pend, !.varWork = q.varWork,
                          !.codes = q.codes]
         /\ ~quitting => ({s} \cap Tela) \cup p.pend \cup UNION Range(p.varWork)
                           \subseteq q.pend \cup UNION Range(q.varWork)
<1> DEFINE class == OfClass(p.pend \cup {s}, ClassOf[s])
           full == s \in Tela /\ Cardinality(class) >= VarBatch
           pend == IF s \notin Tela THEN p.pend
                   ELSE IF full THEN p.pend \ class ELSE p.pend \cup {s}
           varWork == IF full /\ ~quitting THEN Append(p.varWork, class) ELSE p.varWork
           codes == IF ClassOf[s] \in Persisted THEN p.codes \cup {s} ELSE p.codes
<1>1. q = [p EXCEPT !.found = p.found \cup {s}, !.pend = pend, !.varWork = varWork,
                    !.codes = codes]
  BY DEF Matched
<1>2. p.pend \subseteq Registry /\ p.codes \subseteq Registry /\ p.found \subseteq Registry
      /\ p.varWork \in Seq(SUBSET Registry)
  BY DEF Probes
<1>3. class \in SUBSET Registry /\ class \subseteq p.pend \cup {s} /\ s \in class
  BY <1>2 DEF OfClass
<1>4. Append(p.varWork, class) \in Seq(SUBSET Registry)
      /\ Range(Append(p.varWork, class)) = Range(p.varWork) \cup {class}
      /\ Len(Append(p.varWork, class)) <= WorkCap
  <2> HIDE DEF class
  <2>1. Len(Append(p.varWork, class)) = Len(p.varWork) + 1 /\ Len(p.varWork) \in Nat
    BY <1>2
  <2> QED BY <1>2, <1>3, <2>1, RangeAppend, Constants
<1>5. varWork \in Seq(SUBSET Registry) /\ Len(varWork) <= WorkCap
  <2> HIDE DEF class, full
  <2>1. Len(p.varWork) <= WorkCap
    BY <1>2, Constants
  <2> QED BY <1>2, <1>4, <2>1
<1>6. pend \in SUBSET Registry /\ codes \in SUBSET Registry
      /\ p.found \cup {s} \in SUBSET Registry
  BY <1>2
<1>7. q \in Probes /\ q.found = p.found \cup {s} /\ q.pend = pend /\ q.varWork = varWork
      /\ q.codes = codes
  <2> HIDE DEF class, full, pend, varWork, codes
  <2> QED BY <1>1, <1>5, <1>6 DEF Probes
<1>8. ASSUME ~quitting
      PROVE  ({s} \cap Tela) \cup p.pend \cup UNION Range(p.varWork)
               \subseteq pend \cup UNION Range(varWork)
  <2> HIDE DEF class
  <2>1. CASE full
    <3>1. varWork = Append(p.varWork, class) /\ pend = p.pend \ class
      BY <1>8, <2>1
    <3> QED BY <1>3, <1>4, <3>1
  <2>2. CASE ~full
    BY <2>2
  <2> QED BY <2>1, <2>2
<1>9. q = [p EXCEPT !.found = q.found, !.pend = q.pend, !.varWork = q.varWork,
                    !.codes = q.codes]
  <2> HIDE DEF class, full, pend, varWork, codes
  <2> QED BY <1>1, <1>7
<1>10. Len(q.varWork) <= WorkCap
  BY <1>5, <1>7
<1>11. ~quitting => ({s} \cap Tela) \cup p.pend \cup UNION Range(p.varWork)
                      \subseteq q.pend \cup UNION Range(q.varWork)
  BY <1>7, <1>8
<1> QED BY <1>7, <1>9, <1>10, <1>11

\* The contract a phase-1 worker takes is found, unknown, or its answer is lost
\* with a fault, Close or the end of a delta probe to show for it.
LEMMA CodeStep ==
  ASSUME DiscoveryAssumption, probe \in Probes, degraded \in BOOLEAN, ProbeCode
  PROVE  /\ probe' \in Probes /\ Len(probe'.work) < Len(probe.work)
         /\ Len(probe'.varWork) <= WorkCap
         /\ probe'.pc = probe.pc /\ probe'.kind = probe.kind /\ probe'.todo = probe.todo
         /\ probe'.hand = probe.hand /\ probe'.classes = probe.classes
         /\ probe'.vars = probe.vars /\ probe'.flushed = probe.flushed
         /\ probe.found \subseteq probe'.found /\ probe.bad \subseteq probe'.bad
         /\ probe.rpcErrs <= probe'.rpcErrs
         /\ (probe'.bad # probe.bad \/ probe'.rpcErrs # probe.rpcErrs) => degraded'
         /\ degraded => degraded'
         /\ probe'.complete => probe.complete \/ (probe.kind = "delta" /\ degraded')
         /\ probe.complete => probe'.complete
         /\ ~quitting => ((probe'.found \ probe.found) \cap Tela) \cup probe.pend \cup InChunks
                           \subseteq probe'.pend \cup InChunks'
         /\ \E s \in Registry :
              /\ Range(probe.work) = {s} \cup Range(probe'.work)
              /\ probe'.found \subseteq probe.found \cup {s}
              /\ s \in Known => \/ s \in probe'.found \cup probe'.bad
                                \/ quitting \/ probe.complete
                                \/ probe'.rpcErrs > 0 /\ degraded'
<1> DEFINE s == Head(probe.work)
           p == [probe EXCEPT !.work = Tail(@)]
           matched == IF s \in Known THEN Matched(p, s) ELSE p
<1>1. /\ Tail(probe.work) \in Seq(Registry) /\ s \in Registry
      /\ Len(Tail(probe.work)) = Len(probe.work) - 1 /\ Len(probe.work) \in Nat
      /\ Range(probe.work) = {s} \cup Range(Tail(probe.work))
  BY RangeTail DEF ProbeCode, Probes
<1>t. Len(Tail(probe.work)) < Len(probe.work)
  BY <1>1
<1>2. p \in Probes /\ p.work = Tail(probe.work)
  <2> HIDE DEF s
  <2> QED BY <1>1 DEF Probes
<1>3. /\ p.varWork = probe.varWork /\ p.pend = probe.pend /\ p.found = probe.found
      /\ p.bad = probe.bad /\ p.rpcErrs = probe.rpcErrs /\ p.pc = probe.pc
      /\ p.kind = probe.kind /\ p.todo = probe.todo /\ p.hand = probe.hand
      /\ p.classes = probe.classes /\ p.vars = probe.vars
  BY DEF Probes
<1>4. p.flushed = probe.flushed /\ p.complete = probe.complete
  BY DEF Probes
<1> HIDE DEF p, s
<1>5. Len(p.varWork) < WorkCap /\ Len(p.varWork) <= WorkCap
  BY <1>2, <1>3, Constants DEF ProbeCode, Probes
<1>m. /\ matched \in Probes /\ matched.found = IF s \in Known THEN p.found \cup {s} ELSE p.found
      /\ Len(matched.varWork) <= WorkCap
      /\ matched = [p EXCEPT !.found = matched.found, !.pend = matched.pend,
                             !.varWork = matched.varWork, !.codes = matched.codes]
      /\ ~quitting => ((matched.found \ p.found) \cap Tela) \cup p.pend \cup UNION Range(p.varWork)
                        \subseteq matched.pend \cup UNION Range(matched.varWork)
  <2>1. CASE s \in Known
    <3> DEFINE q == Matched(p, s)
    <3>1. /\ q \in Probes /\ q.found = p.found \cup {s} /\ Len(q.varWork) <= WorkCap
          /\ q = [p EXCEPT !.found = q.found, !.pend = q.pend, !.varWork = q.varWork,
                           !.codes = q.codes]
          /\ ~quitting => ({s} \cap Tela) \cup p.pend \cup UNION Range(p.varWork)
                            \subseteq q.pend \cup UNION Range(q.varWork)
      BY <1>1, <1>2, <1>5, MatchedStep
    <3>2. matched = q
      BY <2>1
    <3> HIDE DEF q
    <3> QED BY <2>1, <3>1, <3>2
  <2>2. CASE s \notin Known
    <3>1. matched = p
      BY <2>2
    <3>2. p = [p EXCEPT !.found = p.found, !.pend = p.pend, !.varWork = p.varWork,
                        !.codes = p.codes]
      BY <1>2 DEF Probes
    <3> QED BY <1>2, <1>5, <2>2, <3>1, <3>2
  <2> QED BY <2>1, <2>2
<1> DEFINE since == IF s \in Known THEN 1 ELSE matched.since + 1
           after == [matched EXCEPT !.since = since]
<1> HIDE DEF matched
<1>6. \/ Drops(probe) /\ probe' = p /\ NoFault
      \/ /\ ~quitting /\ ~probe.complete /\ faults' = faults
         /\ probe' = [after EXCEPT !.complete = ExitsEarly(after)]
         /\ degraded' = (degraded \/ ExitsEarly(after))
      \/ /\ ~quitting /\ ~probe.complete /\ Fault
         /\ \/ probe' = [p EXCEPT !.rpcErrs = @ + 1]
            \/ probe' = [p EXCEPT !.bad = @ \cup {s}, !.since = @ + 1]
  BY DEF ProbeCode, p, s, matched
<1> HIDE DEF since, after
<1>7. CASE Drops(probe) /\ probe' = p /\ NoFault
  <2>1. degraded => degraded'
    BY <1>7 DEF NoFault
  <2>2. quitting \/ probe.complete
    BY <1>7 DEF Drops
  <2>3. probe'.complete = probe.complete
    BY <1>4, <1>7
  <2>4. InChunks' = InChunks
    BY <1>3, <1>7 DEF InChunks
  <2>5. probe'.flushed = probe.flushed
    BY <1>4, <1>7
  <2>6. /\ probe'.pc = probe.pc /\ probe'.kind = probe.kind /\ probe'.todo = probe.todo
        /\ probe'.hand = probe.hand /\ probe'.classes = probe.classes
        /\ probe'.vars = probe.vars /\ probe'.bad = probe.bad /\ probe'.found = probe.found
        /\ probe'.rpcErrs = probe.rpcErrs /\ probe'.work = Tail(probe.work)
        /\ probe'.pend = probe.pend /\ probe.rpcErrs <= probe'.rpcErrs
        /\ Len(probe'.varWork) <= WorkCap
    BY <1>2, <1>3, <1>5, <1>7 DEF Probes
  <2>7. probe' \in Probes /\ Len(probe'.work) < Len(probe.work)
    <3>1. Len(Tail(probe.work)) < Len(probe.work)
      BY <1>1
    <3> QED BY <1>2, <1>7, <2>6, <3>1
  <2>8. ((probe'.found \ probe.found) \cap Tela) \cup probe.pend \cup InChunks
          \subseteq probe'.pend \cup InChunks'
    BY <2>4, <2>6
  <2>9. \E t \in Registry :
              /\ Range(probe.work) = {t} \cup Range(probe'.work)
              /\ probe'.found \subseteq probe.found \cup {t}
              /\ quitting \/ probe.complete
    BY <1>1, <2>2, <2>6
  <2> QED BY <2>1, <2>3, <2>5, <2>6, <2>7, <2>8, <2>9
<1>8. CASE /\ ~quitting /\ ~probe.complete /\ faults' = faults
           /\ probe' = [after EXCEPT !.complete = ExitsEarly(after)]
           /\ degraded' = (degraded \/ ExitsEarly(after))
  <2>1. since \in Nat
    BY <1>m DEF since, Probes
  <2>2. after \in Probes /\ after.kind = probe.kind
    <3>1. after \in Probes /\ after.kind = matched.kind
      BY <1>m, <2>1 DEF after, Probes
    <3>2. matched.kind = p.kind
      BY <1>2, <1>m DEF Probes
    <3> QED BY <1>3, <3>1, <3>2
  <2>3. ExitsEarly(after) \in BOOLEAN /\ (ExitsEarly(after) => probe.kind = "delta")
    BY <2>2 DEF ExitsEarly
  <2>4. probe' \in Probes /\ probe'.complete = ExitsEarly(after)
    BY <1>8, <2>2, <2>3 DEF Probes
  <2>5. /\ probe'.found = matched.found /\ probe'.pend = matched.pend
        /\ probe'.varWork = matched.varWork /\ probe'.work = matched.work
        /\ probe'.bad = matched.bad /\ probe'.rpcErrs = matched.rpcErrs
        /\ probe'.pc = matched.pc /\ probe'.kind = matched.kind
        /\ probe'.todo = matched.todo /\ probe'.hand = matched.hand
        /\ probe'.classes = matched.classes /\ probe'.vars = matched.vars
        /\ probe'.flushed = matched.flushed
    BY <1>8, <1>m DEF after, Probes
  <2>6. /\ matched.work = p.work /\ matched.bad = p.bad /\ matched.rpcErrs = p.rpcErrs
        /\ matched.pc = p.pc /\ matched.kind = p.kind /\ matched.todo = p.todo
        /\ matched.hand = p.hand /\ matched.classes = p.classes /\ matched.vars = p.vars
        /\ matched.flushed = p.flushed
    BY <1>2, <1>m DEF Probes
  <2>7. degraded => degraded'
    BY <1>8
  <2>8. probe'.complete => probe.kind = "delta" /\ degraded'
    BY <1>8, <2>3, <2>4
  <2>9. probe'.flushed = probe.flushed
    BY <1>4, <2>5, <2>6
  <2>10. /\ probe'.pc = probe.pc /\ probe'.kind = probe.kind /\ probe'.todo = probe.todo
         /\ probe'.hand = probe.hand /\ probe'.classes = probe.classes
         /\ probe'.vars = probe.vars /\ probe'.bad = probe.bad
         /\ probe'.rpcErrs = probe.rpcErrs /\ probe'.work = Tail(probe.work)
         /\ probe.rpcErrs <= probe'.rpcErrs
    BY <1>2, <1>3, <2>5, <2>6 DEF Probes
  <2>11. ((probe'.found \ probe.found) \cap Tela) \cup probe.pend \cup InChunks
           \subseteq probe'.pend \cup InChunks'
    BY <1>3, <1>8, <1>m, <2>5 DEF InChunks
  <2>12. probe'.found = IF s \in Known THEN probe.found \cup {s} ELSE probe.found
    BY <1>3, <1>m, <2>5
  <2>13. Len(probe'.work) < Len(probe.work) /\ Len(probe'.varWork) <= WorkCap
    BY <1>1, <1>m, <2>5, <2>10
  <2>14. \E t \in Registry :
              /\ Range(probe.work) = {t} \cup Range(probe'.work)
              /\ probe'.found \subseteq probe.found \cup {t}
              /\ t \in Known => t \in probe'.found
    BY <1>1, <2>10, <2>12
  <2> QED BY <1>8, <2>4, <2>7, <2>8, <2>9, <2>10, <2>11, <2>12, <2>13, <2>14
<1>9. CASE ~quitting /\ ~probe.complete /\ Fault /\ probe' = [p EXCEPT !.rpcErrs = @ + 1]
  <2>1. p.rpcErrs + 1 \in Nat /\ p.rpcErrs + 1 > 0 /\ p.rpcErrs <= p.rpcErrs + 1
    BY <1>2 DEF Probes
  <2>2. probe' \in Probes
    BY <1>2, <1>9, <2>1 DEF Probes
  <2>3. /\ probe'.pc = p.pc /\ probe'.kind = p.kind /\ probe'.todo = p.todo
        /\ probe'.hand = p.hand /\ probe'.classes = p.classes
        /\ probe'.vars = p.vars /\ probe'.bad = p.bad /\ probe'.found = p.found
        /\ probe'.pend = p.pend /\ probe'.varWork = p.varWork
        /\ probe'.work = p.work /\ probe'.rpcErrs = p.rpcErrs + 1
    BY <1>2, <1>9 DEF Probes
  <2>4. probe'.flushed = p.flushed /\ probe'.complete = p.complete
    BY <1>2, <1>9 DEF Probes
  <2>5. degraded'
    BY <1>9 DEF Fault
  <2>6. InChunks' = InChunks
    BY <1>3, <2>3 DEF InChunks
  <2>7. probe'.flushed = probe.flushed /\ (probe'.complete => probe.complete)
    BY <1>4, <2>4
  <2>8. ((probe'.found \ probe.found) \cap Tela) \cup probe.pend \cup InChunks
          \subseteq probe'.pend \cup InChunks'
    BY <1>3, <2>3, <2>6
  <2>9. \E t \in Registry :
              /\ Range(probe.work) = {t} \cup Range(probe'.work)
              /\ probe'.found \subseteq probe.found \cup {t}
              /\ t \in Known => \/ t \in probe'.found \cup probe'.bad
                                \/ quitting \/ probe.complete
                                \/ probe'.rpcErrs > 0 /\ degraded'
    BY <1>1, <1>2, <1>3, <2>1, <2>3, <2>5
  <2>10. /\ probe'.pc = probe.pc /\ probe'.kind = probe.kind /\ probe'.todo = probe.todo
         /\ probe'.hand = probe.hand /\ probe'.classes = probe.classes
         /\ probe'.vars = probe.vars /\ probe'.found = probe.found
         /\ probe.bad \subseteq probe'.bad /\ probe.rpcErrs <= probe'.rpcErrs
         /\ probe'.work = Tail(probe.work) /\ Len(probe'.varWork) <= WorkCap
    BY <1>2, <1>3, <1>5, <2>1, <2>3 DEF Probes
  <2>11. Len(probe'.work) < Len(probe.work)
    BY <1>t, <2>10
  <2> QED BY <1>9, <2>2, <2>5, <2>7, <2>8, <2>9, <2>10, <2>11
<1>10. CASE ~quitting /\ ~probe.complete /\ Fault
            /\ probe' = [p EXCEPT !.bad = @ \cup {s}, !.since = @ + 1]
  <2>1. p.bad \cup {s} \in SUBSET Registry /\ p.since + 1 \in Nat
    BY <1>1, <1>2 DEF Probes
  <2>2. probe' \in Probes
    BY <1>2, <1>10, <2>1 DEF Probes
  <2>3. /\ probe'.pc = p.pc /\ probe'.kind = p.kind /\ probe'.todo = p.todo
        /\ probe'.hand = p.hand /\ probe'.classes = p.classes
        /\ probe'.vars = p.vars /\ probe'.bad = p.bad \cup {s} /\ probe'.found = p.found
        /\ probe'.pend = p.pend /\ probe'.varWork = p.varWork
        /\ probe'.work = p.work /\ probe'.rpcErrs = p.rpcErrs
    BY <1>2, <1>10 DEF Probes
  <2>4. probe'.flushed = p.flushed /\ probe'.complete = p.complete
    BY <1>2, <1>10 DEF Probes
  <2>5. degraded'
    BY <1>10 DEF Fault
  <2>6. InChunks' = InChunks
    BY <1>3, <2>3 DEF InChunks
  <2>7. probe'.flushed = probe.flushed /\ (probe'.complete => probe.complete)
    BY <1>4, <2>4
  <2>8. ((probe'.found \ probe.found) \cap Tela) \cup probe.pend \cup InChunks
          \subseteq probe'.pend \cup InChunks'
    BY <1>3, <2>3, <2>6
  <2>9. \E t \in Registry :
              /\ Range(probe.work) = {t} \cup Range(probe'.work)
              /\ probe'.found \subseteq probe.found \cup {t}
              /\ t \in Known => \/ t \in probe'.found \cup probe'.bad
                                \/ quitting \/ probe.complete
                                \/ probe'.rpcErrs > 0 /\ degraded'
    BY <1>1, <1>2, <1>3, <2>3, <2>5
  <2>10. /\ probe'.pc = probe.pc /\ probe'.kind = probe.kind /\ probe'.todo = probe.todo
         /\ probe'.hand = probe.hand /\ probe'.classes = probe.classes
         /\ probe'.vars = probe.vars /\ probe'.found = probe.found
         /\ probe.bad \subseteq probe'.bad /\ probe.rpcErrs <= probe'.rpcErrs
         /\ probe'.work = Tail(probe.work) /\ Len(probe'.varWork) <= WorkCap
    BY <1>2, <1>3, <1>5, <2>3 DEF Probes
  <2>11. Len(probe'.work) < Len(probe.work)
    BY <1>t, <2>10
  <2> QED BY <1>10, <2>2, <2>5, <2>7, <2>8, <2>9, <2>10, <2>11
<1> QED BY <1>6, <1>7, <1>8, <1>9, <1>10

\* A chunk is read, or its variables are lost with a fault or Close to show for it.
LEMMA VarsStep ==
  ASSUME DiscoveryAssumption, probe \in Probes, sync.height \in 1 .. MaxTip,
         degraded \in BOOLEAN, ProbeVars
  PROVE  /\ probe' \in Probes /\ Len(probe'.varWork) < Len(probe.varWork)
         /\ probe' = [probe EXCEPT !.varWork = probe'.varWork, !.classes = probe'.classes,
                        !.vars = probe'.vars, !.bad = probe'.bad, !.rpcErrs = probe'.rpcErrs]
         /\ probe.classes \subseteq probe'.classes /\ probe.vars \subseteq probe'.vars
         /\ probe.bad \subseteq probe'.bad /\ probe.rpcErrs <= probe'.rpcErrs
         /\ (probe'.bad # probe.bad \/ probe'.rpcErrs # probe.rpcErrs) => degraded'
         /\ degraded => degraded'
         /\ ~quitting /\ probe'.rpcErrs = 0 =>
              InChunks \subseteq InChunks' \cup probe'.classes \cup probe'.bad
         /\ \A s \in probe'.classes \ probe.classes : <<s, sync.height>> \in probe'.vars
<1> DEFINE chunk == Head(probe.varWork)
           p == [probe EXCEPT !.varWork = Tail(@)]
           read(good) == [p EXCEPT !.classes = @ \cup good,
                                   !.vars = @ \cup (good \X {sync.height}),
                                   !.bad = @ \cup (chunk \ good)]
<1>1. /\ Tail(probe.varWork) \in Seq(SUBSET Registry) /\ chunk \in SUBSET Registry
      /\ Len(Tail(probe.varWork)) = Len(probe.varWork) - 1 /\ Len(probe.varWork) \in Nat
      /\ Range(probe.varWork) = {chunk} \cup Range(Tail(probe.varWork))
  <2>1. probe.varWork \in Seq(SUBSET Registry) /\ probe.varWork # <<>>
    BY DEF ProbeVars, Probes
  <2> QED BY <2>1, RangeTail
<1>t. Len(Tail(probe.varWork)) < Len(probe.varWork)
  BY <1>1
<1>2. p \in Probes /\ p.varWork = Tail(probe.varWork)
  <2> HIDE DEF chunk
  <2> QED BY <1>1 DEF Probes
<1>3. /\ p.classes = probe.classes /\ p.vars = probe.vars /\ p.bad = probe.bad
      /\ p.rpcErrs = probe.rpcErrs /\ probe.rpcErrs \in Nat
  BY DEF Probes
<1>p. p = [probe EXCEPT !.varWork = p.varWork, !.classes = p.classes, !.vars = p.vars,
                        !.bad = p.bad, !.rpcErrs = p.rpcErrs]
  BY DEF Probes
<1>4. \/ probe' = p /\ NoFault /\ quitting
      \/ probe' = [p EXCEPT !.rpcErrs = @ + 1] /\ Fault
      \/ \E good \in SUBSET chunk : probe' = read(good) /\ (Fault \/ (NoFault /\ good = chunk))
  <2>1. \/ quitting /\ probe' = p /\ NoFault
        \/ ~quitting /\ probe' = read(chunk) /\ NoFault
        \/ ~quitting /\ Fault /\ probe' = [p EXCEPT !.rpcErrs = @ + 1]
        \/ \E good \in SUBSET chunk \ {chunk} : ~quitting /\ Fault /\ probe' = read(good)
    BY DEF ProbeVars
  <2> HIDE DEF p, chunk, read
  <2> QED BY <2>1
<1> HIDE DEF p, chunk
<1>5. CASE probe' = p /\ NoFault /\ quitting
  <2>1. degraded => degraded'
    BY <1>5 DEF NoFault
  <2>2. /\ probe' \in Probes /\ probe'.classes = probe.classes /\ probe'.vars = probe.vars
        /\ probe'.bad = probe.bad /\ probe'.rpcErrs = probe.rpcErrs
        /\ probe.rpcErrs <= probe'.rpcErrs
    BY <1>2, <1>3, <1>5
  <2>4. Len(probe'.varWork) < Len(probe.varWork)
    BY <1>2, <1>5, <1>t
  <2>3. probe' = [probe EXCEPT !.varWork = probe'.varWork, !.classes = probe'.classes,
                        !.vars = probe'.vars, !.bad = probe'.bad, !.rpcErrs = probe'.rpcErrs]
    BY <1>p, <1>5
  <2> QED BY <1>5, <2>1, <2>2, <2>3, <2>4
<1>6. CASE probe' = [p EXCEPT !.rpcErrs = @ + 1] /\ Fault
  <2>1. degraded'
    BY <1>6 DEF Fault
  <2>2. p.rpcErrs + 1 \in Nat /\ p.rpcErrs + 1 # 0 /\ p.rpcErrs <= p.rpcErrs + 1
    BY <1>3
  <2>3. /\ probe' \in Probes /\ probe'.varWork = p.varWork /\ probe'.classes = p.classes
        /\ probe'.vars = p.vars /\ probe'.bad = p.bad /\ probe'.rpcErrs = p.rpcErrs + 1
    BY <1>2, <1>6, <2>2 DEF Probes
  <2>4. probe' = [probe EXCEPT !.varWork = probe'.varWork, !.classes = probe'.classes,
                        !.vars = probe'.vars, !.bad = probe'.bad, !.rpcErrs = probe'.rpcErrs]
    BY <1>6, <1>p, <2>3
  <2> QED BY <1>1, <1>2, <1>3, <2>1, <2>2, <2>3, <2>4
<1>7. ASSUME NEW good \in SUBSET chunk, probe' = read(good), Fault \/ (NoFault /\ good = chunk)
      PROVE  /\ probe' \in Probes /\ probe'.varWork = p.varWork
             /\ probe'.classes = p.classes \cup good
             /\ probe'.vars = p.vars \cup (good \X {sync.height})
             /\ probe'.bad = p.bad \cup (chunk \ good) /\ probe'.rpcErrs = p.rpcErrs
             /\ probe' = [probe EXCEPT !.varWork = probe'.varWork, !.classes = probe'.classes,
                        !.vars = probe'.vars, !.bad = probe'.bad, !.rpcErrs = probe'.rpcErrs]
             /\ (degraded => degraded') /\ (good = chunk \/ degraded')
  <2>1. good \X {sync.height} \in SUBSET Versions /\ good \in SUBSET Registry
        /\ chunk \ good \in SUBSET Registry
    BY <1>1 DEF Versions
  <2>2. /\ probe' \in Probes /\ probe'.varWork = p.varWork
        /\ probe'.classes = p.classes \cup good
        /\ probe'.vars = p.vars \cup (good \X {sync.height})
        /\ probe'.bad = p.bad \cup (chunk \ good) /\ probe'.rpcErrs = p.rpcErrs
    BY <1>2, <1>7, <2>1 DEF Probes
  <2>3. probe' = [probe EXCEPT !.varWork = probe'.varWork, !.classes = probe'.classes,
                        !.vars = probe'.vars, !.bad = probe'.bad, !.rpcErrs = probe'.rpcErrs]
    BY <1>7, <1>p, <2>2
  <2>4. (degraded => degraded') /\ (good = chunk \/ degraded')
    BY <1>7 DEF Fault, NoFault
  <2> QED BY <2>2, <2>3, <2>4
<1>8. ASSUME NEW good \in SUBSET chunk, probe' = read(good), Fault \/ (NoFault /\ good = chunk)
      PROVE  /\ Len(probe'.varWork) < Len(probe.varWork)
             /\ probe.classes \subseteq probe'.classes /\ probe.vars \subseteq probe'.vars
             /\ probe.bad \subseteq probe'.bad /\ probe.rpcErrs <= probe'.rpcErrs
             /\ (probe'.bad # probe.bad \/ probe'.rpcErrs # probe.rpcErrs) => degraded'
             /\ InChunks \subseteq InChunks' \cup probe'.classes \cup probe'.bad
             /\ \A s \in probe'.classes \ probe.classes : <<s, sync.height>> \in probe'.vars
  <2>g. /\ probe'.varWork = p.varWork /\ probe'.classes = p.classes \cup good
        /\ probe'.vars = p.vars \cup (good \X {sync.height})
        /\ probe'.bad = p.bad \cup (chunk \ good) /\ probe'.rpcErrs = p.rpcErrs
        /\ good = chunk \/ degraded'
    BY <1>7, <1>8
  <2> HIDE DEF read
  <2>1. InChunks' = UNION Range(Tail(probe.varWork)) /\ InChunks = UNION Range(probe.varWork)
    BY <1>2, <2>g DEF InChunks
  <2>2. chunk \subseteq probe'.classes \cup probe'.bad
    BY <2>g
  <2>3. probe'.bad # probe.bad => degraded'
    BY <1>3, <2>g
  <2>4. Len(probe'.varWork) < Len(probe.varWork)
    BY <1>2, <1>t, <2>g
  <2>5. InChunks \subseteq InChunks' \cup probe'.classes \cup probe'.bad
    BY <1>1, <2>1, <2>2
  <2>6. /\ probe.classes \subseteq probe'.classes /\ probe.vars \subseteq probe'.vars
        /\ probe.bad \subseteq probe'.bad /\ probe.rpcErrs <= probe'.rpcErrs
        /\ probe'.rpcErrs = probe.rpcErrs
        /\ \A s \in probe'.classes \ probe.classes : <<s, sync.height>> \in probe'.vars
    BY <1>3, <2>g
  <2> QED BY <2>3, <2>4, <2>5, <2>6
<1> QED BY <1>4, <1>5, <1>6, <1>7, <1>8

\* What phase 1 leaves to phase 2.
LEMMA Phase1Step ==
  ASSUME DiscoveryAssumption, probe \in Probes, degraded \in BOOLEAN, EndPhase1, probe.found # {}
  PROVE  /\ probe' \in Probes /\ Len(probe'.varWork) <= WorkCap + 1
         /\ probe' = [probe EXCEPT !.pc = "phase2", !.pend = {}, !.varWork = probe'.varWork,
                                   !.classes = @ \cup (probe.found \ Tela)]
         /\ ~quitting => (probe.pend \cap Tela) \cup InChunks \subseteq InChunks'
         /\ settled' = settled /\ (degraded => degraded')
<1> DEFINE index == OfClass(probe.pend, "INDEX")
           doc == OfClass(probe.pend, "DOC")
           q1 == probe.varWork \o Chunk(index)
           q2 == q1 \o Chunk(doc)
           q  == IF quitting THEN probe.varWork ELSE q2
<1>1. /\ probe' = [probe EXCEPT !.pc = "phase2", !.pend = {}, !.varWork = q,
                                !.classes = @ \cup (probe.found \ Tela)]
      /\ settled' = settled /\ (Fault \/ NoFault)
  BY DEF EndPhase1
<1>2. /\ probe.varWork \in Seq(SUBSET Registry) /\ probe.pend \in SUBSET Registry
      /\ probe.classes \cup (probe.found \ Tela) \in SUBSET Registry
      /\ Len(probe.varWork) \in Nat /\ Len(probe.varWork) + 2 <= WorkCap + 1
  BY DEF Probes, EndPhase1
<1>3. index \in SUBSET Registry /\ doc \in SUBSET Registry /\ probe.pend \cap Tela = index \cup doc
  BY <1>2 DEF OfClass, Tela
<1> HIDE DEF index, doc
<1>4. /\ q1 \in Seq(SUBSET Registry) /\ Len(q1) <= Len(probe.varWork) + 1
      /\ UNION Range(q1) = (UNION Range(probe.varWork)) \cup index
  <2> DEFINE w == probe.varWork
  <2>1. q1 = w \o Chunk(index) /\ w \in Seq(SUBSET Registry)
    BY <1>2
  <2> HIDE DEF q1, w
  <2>2. /\ q1 \in Seq(SUBSET Registry) /\ Len(q1) <= Len(w) + 1
        /\ UNION Range(q1) = (UNION Range(w)) \cup index
    BY <1>3, <2>1, RangeChunk
  <2> QED BY <2>2 DEF w
<1>5. /\ q2 \in Seq(SUBSET Registry) /\ Len(q2) <= Len(q1) + 1
      /\ UNION Range(q2) = (UNION Range(q1)) \cup doc
  <2> HIDE DEF q1
  <2> QED BY <1>3, <1>4, RangeChunk
<1> HIDE DEF q1, q2
<1>6. q \in Seq(SUBSET Registry) /\ Len(q) <= WorkCap + 1
  <2>1. Len(q1) \in Nat /\ Len(q2) \in Nat
    BY <1>4, <1>5
  <2> QED BY <1>2, <1>4, <1>5, <2>1, Constants
<1>7. ASSUME ~quitting
      PROVE  (probe.pend \cap Tela) \cup UNION Range(probe.varWork) \subseteq UNION Range(q)
  BY <1>3, <1>4, <1>5, <1>7
<1> HIDE DEF q
<1>8. probe' \in Probes /\ probe'.varWork = q
  BY <1>1, <1>2, <1>6 DEF Probes
<1>9. degraded => degraded'
  BY <1>1 DEF Fault, NoFault
<1>10. ~quitting => (probe.pend \cap Tela) \cup InChunks \subseteq InChunks'
  BY <1>7, <1>8 DEF InChunks
<1> QED BY <1>1, <1>6, <1>8, <1>9, <1>10

\* The types that Next's steps read, one by one.
LEMMA TypesAre ==
  ASSUME Types
  PROVE  /\ db \in Stores /\ cache \in Caches \cup {NoCache} /\ seeds \subseteq Seeds
         /\ sync \in Syncs /\ probe \in Probes
         /\ tip \in Nat \ {0} /\ indexed \in Nat /\ faults \in Nat /\ session \in Nat
         /\ settled \in BOOLEAN /\ quitting \in BOOLEAN
         /\ degraded \in BOOLEAN /\ origin \in Nat /\ skipped \subseteq Registry
         /\ excused \subseteq Registry /\ unflushed \subseteq Registry
BY DEF Types

\* A probe that runs has a registry to run on.
LEMMA Running ==
  ASSUME DiscoveryAssumption, Types, Phases, probe # NoProbe
  PROVE  /\ probe.pc # "off" /\ sync.cands # <<>> /\ ~settled /\ sync.height \in 1 .. MaxTip
         /\ Fetched /\ sync.pc \in {"fill", "daemon"}
         /\ probe.kind \in {"full", "delta"}
<1>1. probe.pc # "off"
  BY DEF Phases
<1>2. sync.cands # <<>> /\ ~settled /\ probe.kind # "none"
  BY <1>1 DEF Phases
<1>3. sync.height > 0 /\ Fetched
  BY <1>2 DEF Phases
<1>4. sync.pc \in {"fill", "daemon"}
  BY <1>1 DEF Phases
<1>5. sync.height \in 0 .. MaxTip /\ probe.kind \in {"none", "full", "delta"}
  BY TypesAre DEF Syncs, Probes
<1> QED BY <1>1, <1>2, <1>3, <1>4, <1>5, Constants

LEMMA NoProbeFields ==
  /\ NoProbe.pc = "off" /\ NoProbe.work = <<>> /\ NoProbe.varWork = <<>>
  /\ NoProbe.hand = {} /\ NoProbe.found = {} /\ NoProbe.classes = {}
  /\ NoProbe.bad = {} /\ NoProbe.rpcErrs = 0 /\ ~NoProbe.complete /\ NoProbe.flushed
BY DEF NoProbe

\* A seed that is saved, and what the prune keeps, are seeds.
LEMMA SeedsWithAre ==
  ASSUME NEW seed PROVE SeedsWith(seed) \subseteq seeds \cup {seed}
BY DEF SeedsWith

LEMMA ProbeTypes ==
  ASSUME DiscoveryAssumption, Types, Phases, ProbeTELA
  PROVE  Types'
<1> USE Constants
<1>d. db \in Stores /\ cache \in Caches \cup {NoCache} /\ seeds \subseteq Seeds
  BY DEF Types
<1>p. sync \in Syncs /\ probe \in Probes
  BY DEF Types
<1>b. faults \in Nat /\ degraded \in BOOLEAN /\ skipped \subseteq Registry
  BY DEF Types
<1>e. excused \subseteq Registry /\ unflushed \subseteq Registry
  BY DEF Types
<1>f. Fault \/ NoFault => faults' \in Nat /\ degraded' \in BOOLEAN
  BY <1>b, FaultTypes
<1>o. ASSUME ProbeOnly, sync' \in Syncs, probe' \in Probes, faults' \in Nat,
             degraded' \in BOOLEAN, origin' = origin, skipped' \subseteq Registry
      PROVE  Types'
  BY <1>o DEF Types, ProbeOnly
<1>1. CASE SortSwap
  <2>1. PICK i \in 1 .. Len(sync.cands) - 1 :
          /\ sync' = [sync EXCEPT !.cands = [@ EXCEPT ![i] = sync.cands[i + 1],
                                                     ![i + 1] = sync.cands[i]]]
          /\ skipped' = skipped \cup (IF sync.pc = "fill" /\ sync.pos = i + 1
                                    THEN {sync.cands[i + 1]} ELSE {})
    BY <1>1 DEF SortSwap
  <2> DEFINE r == [sync.cands EXCEPT ![i] = sync.cands[i + 1], ![i + 1] = sync.cands[i]]
  <2>2. sync.cands \in Seq(Registry)
    BY <1>p DEF Syncs
  <2>3. r \in Seq(Registry)
    BY <2>2, RangeSwap
  <2>4. sync' = [sync EXCEPT !.cands = r]
    BY <2>1
  <2> HIDE DEF r
  <2>5. sync' \in Syncs
    BY <1>p, <2>3, <2>4 DEF Syncs
  <2>6. skipped' \subseteq Registry
    BY <1>b, <2>1, <2>2
  <2> QED BY <1>1, <1>f, <1>o, <1>p, <2>5, <2>6 DEF SortSwap
<1>2. CASE SortDone
  <2>1. probe' \in Probes
    BY <1>2, <1>p DEF SortDone, Probes
  <2> QED BY <1>2, <1>b, <1>f, <1>o, <1>p, <2>1 DEF SortDone
<1>3. CASE Feed
  BY <1>3, <1>b, <1>f, <1>o, <1>p, FeedStep DEF Feed
<1>4. CASE Send
  BY <1>4, <1>b, <1>f, <1>o, <1>p, SendStep DEF Send
<1>5. CASE ProbeCode
  <2>1. probe' \in Probes
    BY <1>5, <1>b, <1>p, CodeStep
  <2>2. faults' \in Nat /\ degraded' \in BOOLEAN
    <3>1. \/ Fault \/ NoFault
          \/ faults' = faults /\ (degraded' = TRUE \/ degraded' = FALSE)
      BY <1>5 DEF ProbeCode
    <3> QED BY <1>b, <1>f, <3>1
  <2> QED BY <1>5, <1>b, <1>o, <1>p, <2>1, <2>2 DEF ProbeCode
<1>6. CASE ProbeVars
  <2>1. sync.height \in 1 .. MaxTip
    BY <1>6, Running, NoProbeFields DEF ProbeVars
  <2>2. probe' \in Probes
    BY <1>6, <1>b, <1>p, <2>1, VarsStep
  <2>3. Fault \/ NoFault
    BY <1>6 DEF ProbeVars
  <2> QED BY <1>6, <1>b, <1>f, <1>o, <1>p, <2>2, <2>3 DEF ProbeVars
<1>7. CASE EndPhase1
  <2>1. probe' \in Probes
    BY <1>7, <1>b, <1>p, NoProbeIs, Phase1Step DEF EndPhase1
  <2>2. db' \in Stores
    <3>1. probe.codes \in SUBSET Registry
      BY <1>p DEF Probes
    <3>2. db.codes \cup probe.codes \in SUBSET Registry
      BY <1>d, <3>1 DEF Stores
    <3>3. db' = db \/ db' = [db EXCEPT !.codes = db.codes \cup probe.codes]
      BY <1>7 DEF EndPhase1
    <3> QED BY <1>d, <3>2, <3>3 DEF Stores
  <2>3. faults' \in Nat /\ degraded' \in BOOLEAN
    BY <1>7, <1>f DEF EndPhase1
  <2>4. settled' \in BOOLEAN
    BY <1>7, TypesAre DEF EndPhase1
  <2> QED BY <1>7, <2>1, <2>2, <2>3, <2>4 DEF EndPhase1, Types
<1>8. CASE FlushVars
  <2>1. probe' \in Probes
    <3> DEFINE saved == [probe EXCEPT !.pc = "save"]
    <3>1. saved \in Probes
      BY <1>p DEF Probes
    <3>2. \A b \in BOOLEAN : [saved EXCEPT !.flushed = b] \in Probes
      <4> HIDE DEF saved
      <4> QED BY <3>1 DEF Probes
    <3>3. probe' = saved \/ probe' = [saved EXCEPT !.flushed = FALSE]
      BY <1>8 DEF FlushVars
    <3> HIDE DEF saved
    <3> QED BY <3>1, <3>2, <3>3
  <2>2. db' \in Stores
    <3>1. probe.classes \in SUBSET Registry /\ probe.vars \in SUBSET Versions
      BY <1>p DEF Probes
    <3>2. db.classes \cup probe.classes \in SUBSET Registry
          /\ db.vars \cup probe.vars \in SUBSET Versions
      BY <1>d, <3>1 DEF Stores
    <3>3. \/ db' = db
          \/ db' = [db EXCEPT !.classes = db.classes \cup probe.classes,
                              !.vars = db.vars \cup probe.vars]
      BY <1>8 DEF FlushVars
    <3> QED BY <1>d, <3>2, <3>3 DEF Stores
  <2>3. faults' \in Nat /\ degraded' \in BOOLEAN
    BY <1>8, <1>f DEF FlushVars
  <2> QED BY <1>8, <2>1, <2>2, <2>3 DEF FlushVars, Types
<1>9. CASE SaveCaches
  <2> DEFINE seed == [height |-> sync.height, registry |-> RegistryAt(sync.height),
                      scids |-> probe.found, classes |-> probe.classes,
                      vars |-> probe.vars, codes |-> probe.codes]
  <2>1. sync.height \in 1 .. MaxTip
    BY <1>9, Running, NoProbeFields DEF SaveCaches
  <2>2. /\ probe.found \in SUBSET Registry /\ probe.classes \in SUBSET Registry
        /\ probe.vars \in SUBSET Versions /\ probe.codes \in SUBSET Registry
        /\ probe.bad \in SUBSET Registry
    BY <1>p DEF Probes
  <2>3. RegistryAt(sync.height) \in SUBSET Registry
    BY <1>p DEF RegistryAt, Candidates, Syncs, Range
  <2>4. seed \in Seeds
    BY <2>1, <2>2, <2>3 DEF Seeds
  <2>5. seeds' = seeds \/ seeds' = SeedsWith(seed)
    BY <1>9 DEF SaveCaches
  <2>6. seeds' \subseteq Seeds
    <3> HIDE DEF seed
    <3> QED BY <1>d, <2>4, <2>5, SeedsWithAre
  <2>7. Saved(sync.height, probe.found) \in Caches
    BY <2>1, <2>2 DEF Saved, Caches
  <2>8. cache' \in Caches \cup {NoCache}
    BY <1>9, <1>d, <2>7 DEF SaveCaches
  <2>9. excused' \subseteq Registry /\ unflushed' \subseteq Registry
    BY <1>9, <1>e, <2>2 DEF SaveCaches
  <2> QED BY <1>9, <2>6, <2>8, <2>9, NoProbeIs DEF SaveCaches, Types
<1> QED BY <1>1, <1>2, <1>3, <1>4, <1>5, <1>6, <1>7, <1>8, <1>9 DEF ProbeTELA

LEMMA TypesStep ==
  ASSUME DiscoveryAssumption, Types, Phases, [Next]_vars PROVE Types'
<1>1. CASE FastSync \/ ScanCommit \/ BumpCache
  BY <1>1, FastSyncTypes
<1>2. CASE ProbeTELA
  BY <1>2, ProbeTypes
<1>3. CASE Close
  BY <1>3 DEF Close, Types
<1>4. CASE Restart
  <2>1. NoSync \in Syncs
    BY Constants DEF NoSync, Syncs
  <2>2. EmptyStore \in Stores
    BY DEF EmptyStore, Stores
  <2>3. db' \in Stores /\ cache' \in Caches \cup {NoCache}
        /\ excused' \subseteq Registry /\ unflushed' \subseteq Registry
        /\ origin' \in Nat /\ skipped' \subseteq Registry
    BY <1>4, <2>2, TypesAre DEF Restart
  <2>4. session' \in Nat
    BY <1>4, TypesAre DEF Restart
  <2> QED BY <1>4, <2>1, <2>3, <2>4, NoProbeIs DEF Restart, Types
<1>5. CASE UNCHANGED vars
  BY <1>5 DEF vars, Types
<1> QED BY <1>1, <1>2, <1>3, <1>4, <1>5 DEF Next

-----------------------------------------------------------------------------
(* What most steps leave alone.                                            *)

\* The steps of a probe that goes on, and those that end it.
Probing ==
  \/ SortSwap \/ SortDone \/ Feed \/ Send \/ ProbeCode \/ ProbeVars \/ FlushVars
  \/ EndPhase1 /\ probe.found # {}

Finishing == SaveCaches \/ (EndPhase1 /\ probe.found = {})

Moves == FastSync \/ ScanCommit \/ BumpCache \/ Close

LEMMA NextSplits ==
  ASSUME [Next]_vars
  PROVE  Moves \/ Probing \/ Finishing \/ Restart \/ UNCHANGED vars
BY DEF Next, ProbeTELA, Probing, Finishing, Moves

LEMMA FaultDegrades == ASSUME Fault \/ NoFault PROVE degraded => degraded'
BY DEF Fault, NoFault

LEMMA ProbingFrame ==
  ASSUME DiscoveryAssumption, Types, Phases, Probing
  PROVE  /\ probe.pc # "off" /\ probe'.pc # "off" /\ probe'.kind = probe.kind
         /\ sync'.pc = sync.pc /\ sync'.height = sync.height
         /\ sync'.pos = sync.pos /\ sync'.batch = sync.batch
         /\ Candidates' = Candidates /\ Len(sync'.cands) = Len(sync.cands)
         /\ sync'.cands # <<>>
         /\ cache' = cache /\ seeds' = seeds /\ tip' = tip /\ indexed' = indexed
         /\ settled' = settled /\ quitting' = quitting
         /\ excused' = excused /\ unflushed' = unflushed
         /\ db.classes \subseteq db'.classes /\ db'.owners = db.owners /\ db'.last = db.last
         /\ degraded => degraded'
<1>p. sync \in Syncs /\ probe \in Probes /\ degraded \in BOOLEAN /\ db \in Stores
  BY TypesAre
<1>0. probe.pc # "off" /\ sync.cands # <<>>
  <2>1. probe # NoProbe
    <3>1. probe.pc # "off" \/ probe.work # <<>> \/ probe.varWork # <<>>
      BY DEF Probing, SortSwap, SortDone, Feed, Send, ProbeCode, ProbeVars, FlushVars, EndPhase1
    <3> QED BY <3>1, NoProbeFields
  <2> QED BY <2>1, Running
<1>o. ASSUME ProbeOnly
      PROVE  /\ cache' = cache /\ seeds' = seeds /\ tip' = tip /\ indexed' = indexed
             /\ settled' = settled /\ quitting' = quitting
             /\ excused' = excused /\ unflushed' = unflushed /\ db' = db
  BY <1>o DEF ProbeOnly
<1>s. ASSUME sync' = sync
      PROVE  /\ sync'.pc = sync.pc /\ sync'.height = sync.height
             /\ sync'.pos = sync.pos /\ sync'.batch = sync.batch
             /\ Candidates' = Candidates /\ Len(sync'.cands) = Len(sync.cands)
             /\ sync'.cands # <<>>
  BY <1>0, <1>s DEF Candidates
<1>1. CASE SortSwap
  <2>1. PICK i \in 1 .. Len(sync.cands) - 1 :
          sync' = [sync EXCEPT !.cands = [@ EXCEPT ![i] = sync.cands[i + 1],
                                                  ![i + 1] = sync.cands[i]]]
    BY <1>1 DEF SortSwap
  <2> DEFINE q == sync.cands
             r == [q EXCEPT ![i] = q[i + 1], ![i + 1] = q[i]]
  <2>2. q \in Seq(Registry) /\ i \in 1 .. Len(q) - 1
    BY <1>p DEF Syncs
  <2>3. sync' = [sync EXCEPT !.cands = r]
    BY <2>1
  <2> HIDE DEF q
  <2>4. r \in Seq(Registry) /\ Len(r) = Len(q) /\ Range(r) = Range(q)
    BY <2>2, RangeSwap
  <2> HIDE DEF r
  <2>5. /\ sync'.pc = sync.pc /\ sync'.height = sync.height
        /\ sync'.pos = sync.pos /\ sync'.batch = sync.batch /\ sync'.cands = r
    BY <1>p, <2>3 DEF Syncs
  <2>6. Candidates' = Candidates
    BY <2>4, <2>5 DEF Candidates, q
  <2>7. Len(sync'.cands) = Len(sync.cands)
    BY <2>4, <2>5 DEF q
  <2>8. sync'.cands # <<>>
    <3>1. Len(q) \in Nat /\ Len(q) # 0
      BY <2>2
    <3> QED BY <2>4, <2>5, <3>1
  <2> QED BY <1>0, <1>1, <1>o, <2>5, <2>6, <2>7, <2>8, FaultDegrades DEF SortSwap
<1>2. CASE SortDone
  <2>1. probe'.pc = "feed" /\ probe'.kind = probe.kind
    BY <1>2, <1>p DEF SortDone, Probes
  <2> QED BY <1>0, <1>2, <1>o, <1>s, <2>1, FaultDegrades DEF SortDone
<1>3. CASE Feed
  <2>1. probe'.pc \in {"feed", "phase1"} /\ probe'.kind = probe.kind
    BY <1>3, <1>p, FeedStep DEF Probes
  <2> QED BY <1>0, <1>3, <1>o, <1>s, <2>1, FaultDegrades DEF Feed
<1>4. CASE Send
  <2>1. probe'.pc = probe.pc /\ probe'.kind = probe.kind
    BY <1>4, <1>p, SendStep DEF Probes
  <2> QED BY <1>0, <1>4, <1>o, <1>s, <2>1, FaultDegrades DEF Send
<1>5. CASE ProbeCode
  <2>1. probe'.pc = probe.pc /\ probe'.kind = probe.kind /\ (degraded => degraded')
    BY <1>5, <1>p, CodeStep
  <2> QED BY <1>0, <1>5, <1>o, <1>s, <2>1 DEF ProbeCode
<1>6. CASE ProbeVars
  <2>1. sync.height \in 1 .. MaxTip
    BY <1>6, Running, NoProbeFields DEF ProbeVars
  <2>2. probe'.pc = probe.pc /\ probe'.kind = probe.kind /\ (degraded => degraded')
    BY <1>6, <1>p, <2>1, VarsStep DEF Probes
  <2> QED BY <1>0, <1>6, <1>o, <1>s, <2>2 DEF ProbeVars
<1>7. CASE FlushVars
  <2>1. probe'.pc = "save" /\ probe'.kind = probe.kind
    BY <1>7, <1>p DEF FlushVars, Probes
  <2>2. db.classes \subseteq db'.classes /\ db'.owners = db.owners /\ db'.last = db.last
    BY <1>7, <1>p DEF FlushVars, Stores
  <2>3. degraded => degraded'
    BY <1>7, FaultDegrades DEF FlushVars
  <2> QED BY <1>0, <1>7, <1>s, <2>1, <2>2, <2>3 DEF FlushVars
<1>8. CASE EndPhase1 /\ probe.found # {}
  <2>1. probe'.pc = "phase2" /\ probe'.kind = probe.kind /\ settled' = settled
        /\ (degraded => degraded')
    BY <1>8, <1>p, Phase1Step DEF Probes
  <2>2. db.classes \subseteq db'.classes /\ db'.owners = db.owners /\ db'.last = db.last
    BY <1>8, <1>p DEF EndPhase1, Stores
  <2> QED BY <1>0, <1>8, <1>s, <2>1, <2>2 DEF EndPhase1
<1> QED BY <1>1, <1>2, <1>3, <1>4, <1>5, <1>6, <1>7, <1>8 DEF Probing

LEMMA FinishingFrame ==
  ASSUME DiscoveryAssumption, Types, Phases, Finishing
  PROVE  /\ probe # NoProbe /\ probe' = NoProbe /\ settled' = TRUE /\ sync' = sync
         /\ tip' = tip /\ indexed' = indexed /\ quitting' = quitting /\ db' = db
         /\ degraded' = degraded
<1>1. CASE SaveCaches
  BY <1>1, NoProbeFields DEF SaveCaches
<1>2. CASE EndPhase1 /\ probe.found = {}
  BY <1>2, NoProbeFields DEF EndPhase1, NoFault
<1> QED BY <1>1, <1>2 DEF Finishing

LEMMA LaunchedIs ==
  ASSUME Launch, sync \in Syncs
  PROVE  \/ settled' = TRUE /\ probe' = probe
         \/ /\ settled' = settled
            /\ \E kind \in {"full", "delta"}, todo \in SUBSET Candidates :
                 probe' = Started(kind, todo)
<1>1. ASSUME NEW h, LaunchDelta(h)
      PROVE  \/ settled' = TRUE /\ probe' = probe
             \/ /\ settled' = settled
                /\ \E kind \in {"full", "delta"}, todo \in SUBSET Candidates :
                     probe' = Started(kind, todo)
  <2>1. DeltaSince(h) \in SUBSET Candidates
    BY DEF DeltaSince
  <2> QED BY <1>1, <2>1 DEF LaunchDelta
<1> QED BY <1>1 DEF Launch

LEMMA MovesFrame ==
  ASSUME DiscoveryAssumption, Types, Moves
  PROVE  /\ tip' \in Nat \ {0} /\ tip <= tip' /\ seeds' = seeds
         /\ db.classes \subseteq db'.classes /\ excused \subseteq excused'
         /\ degraded => degraded'
         /\ (quitting' = quitting \/ (quitting' /\ degraded'))
         /\ probe' = probe \/ Launch
<1> USE Constants
<1>p. sync \in Syncs /\ degraded \in BOOLEAN /\ db \in Stores /\ tip \in Nat \ {0}
  BY TypesAre
<1>g. GetInfo => tip' \in Nat \ {0} /\ tip <= tip'
  BY <1>p, GetInfoGrows
<1>t. tip' = tip => tip' \in Nat \ {0} /\ tip <= tip'
  BY <1>p
<1>1. CASE Start
  BY <1>1, <1>t DEF Start
<1>2. CASE CheckCache
  BY <1>2, <1>g, <1>t, FaultDegrades DEF CheckCache, Trusted
<1>10. CASE GetHeight
  BY <1>10, <1>g, <1>t, FaultDegrades DEF GetHeight
<1>3. CASE FetchRegistry
  <2>1. db.classes \subseteq db'.classes
    BY <1>3, <1>p DEF FetchRegistry, Stores
  <2> QED BY <1>3, <1>g, <1>t, <2>1, FaultDegrades DEF FetchRegistry
<1>4. CASE Launch
  <2>1. db.classes \subseteq db'.classes
    BY <1>4, <1>p DEF Launch, SeedApplied, Stores
  <2>2. excused \subseteq excused'
    BY <1>4 DEF Launch, Trusted
  <2>3. degraded => degraded'
    BY <1>4, FaultDegrades DEF Launch
  <2> QED BY <1>4, <1>t, <2>1, <2>2, <2>3 DEF Launch
<1>5. CASE Fill
  BY <1>5, <1>t DEF Fill
<1>6. CASE FlushRegistry
  <2>1. db.classes \subseteq db'.classes
    BY <1>6, <1>p DEF FlushRegistry, Stores
  <2> QED BY <1>6, <1>t, <2>1, FaultDegrades DEF FlushRegistry
<1>7. CASE ScanCommit
  <2>1. db.classes \subseteq db'.classes
    BY <1>7, <1>p DEF ScanCommit, Stores
  <2> QED BY <1>7, <1>g, <2>1 DEF ScanCommit
<1>8. CASE BumpCache
  BY <1>8, <1>g DEF BumpCache
<1>9. CASE Close
  BY <1>9, <1>t DEF Close
<1> QED BY <1>1, <1>2, <1>3, <1>4, <1>5, <1>6, <1>7, <1>8, <1>9, <1>10 DEF Moves, FastSync

-----------------------------------------------------------------------------
(* Phases.                                                                 *)

LEMMA PhasesStep ==
  ASSUME DiscoveryAssumption, Types, Bounds, Phases, [Next]_vars PROVE Phases'
<1> USE Constants
<1>p. sync \in Syncs /\ probe \in Probes
  BY TypesAre
<1>o. sync.pc \notin {"fill", "daemon"} => probe = NoProbe /\ ~settled
  BY DEF Phases
<1>k. ASSUME sync'.cands = sync.cands, sync'.height = sync.height,
             sync'.pc \in {"fill", "daemon"}, sync'.pc = "fill" => sync.cands # <<>>,
             probe' = probe, settled' = settled, Fetched => Fetched'
      PROVE  Phases'
  BY <1>k DEF Phases
<1>f. Candidates' = Candidates /\ sync'.height = sync.height /\ tip <= tip' =>
        (Fetched => Fetched')
  <2> SUFFICES ASSUME Candidates' = Candidates, sync'.height = sync.height, tip <= tip', Fetched
               PROVE  Fetched'
    OBVIOUS
  <2>1. Registered(sync.height)' = Registered(sync.height) /\ Registered(tip)' = Registered(tip')
    BY DEF Registered
  <2>2. tip \in Int /\ tip' \in Int
    <3>1. Types'
      BY TypesStep
    <3> QED BY <3>1 DEF Types
  <2>3. Registered(tip) \subseteq Registered(tip')
    BY <2>2, RegisteredGrows
  <2> QED BY <2>1, <2>3 DEF Fetched
<1>t. Moves => tip <= tip'
  BY MovesFrame
<1>1. CASE Start
  <2>1. /\ sync'.pc \in {"daemon", "cache"} /\ sync'.cands = <<>>
        /\ probe' = probe /\ settled' = settled
    BY <1>1 DEF Start, NoSync
  <2>2. probe = NoProbe /\ ~settled
    BY <1>1, <1>o DEF Start
  <2> QED BY <2>1, <2>2, NoProbeFields DEF Phases
<1>2. CASE CheckCache
  <2>1. sync.cands = <<>> /\ probe' = NoProbe
    BY <1>2, <1>o DEF CheckCache, Phases
  <2>2. ASSUME GetInfo, sync' = [sync EXCEPT !.pc = "registry", !.height = tip']
        PROVE  sync'.pc = "registry" /\ sync'.cands = sync.cands /\ sync'.height > 0
    BY <1>p, <2>2, GetInfoGrows, TypesAre DEF Syncs
  <2>3. /\ sync'.pc \in {"daemon", "info", "registry"} /\ sync'.cands = <<>>
        /\ sync'.pc = "registry" => sync'.height > 0
        /\ sync'.pc # "daemon" => ~settled'
    BY <1>2, <1>o, <1>p, <2>1, <2>2, SyncSteps DEF CheckCache
  <2> QED BY <2>1, <2>3, NoProbeFields DEF Phases
<1>12. CASE GetHeight
  <2>1. sync.cands = <<>> /\ probe' = NoProbe /\ ~settled /\ settled' = settled
    BY <1>12, <1>o DEF GetHeight, Phases
  <2>2. ASSUME GetInfo, sync' = [sync EXCEPT !.pc = "registry", !.height = tip']
        PROVE  sync'.pc = "registry" /\ sync'.cands = sync.cands /\ sync'.height > 0
    BY <1>p, <2>2, GetInfoGrows, TypesAre DEF Syncs
  <2>3. /\ sync'.pc \in {"daemon", "registry"} /\ sync'.cands = <<>>
        /\ sync'.pc = "registry" => sync'.height > 0
    BY <1>12, <1>p, <2>1, <2>2, SyncSteps DEF GetHeight
  <2> QED BY <2>1, <2>3, NoProbeFields DEF Phases
<1>3. CASE FetchRegistry
  <2>1. sync.cands = <<>> /\ probe' = NoProbe /\ ~settled
    BY <1>3, <1>o DEF FetchRegistry, Phases
  <2>2. CASE Step("daemon")
    <3>1. sync'.pc = "daemon" /\ sync'.cands = <<>>
      BY <1>p, <2>1, <2>2, SyncSteps
    <3> QED BY <2>1, <3>1, NoProbeFields DEF Phases
  <2>3. ASSUME GetInfo, Registered(tip') # {}, settled' = settled,
               NEW q \in SetToSeqs(Registered(tip')),
               sync' = [sync EXCEPT !.pc = "launch", !.cands = q]
        PROVE  Phases'
    <3>1. IsFiniteSet(Registered(tip')) /\ Registered(tip') \subseteq Registry
      BY FS_Subset DEF Registered
    <3>2. Range(q) = Registered(tip')
      BY <3>1, ListsAll
    <3>3. q # <<>>
      BY <2>3, <3>2, RangeEmpty
    <3>4. sync'.pc = "launch" /\ sync'.height = sync.height /\ sync'.cands = q
      BY <1>p, <2>3 DEF Syncs
    <3>5. sync.height > 0 /\ sync.height \in Int /\ tip' \in Int /\ sync.height <= tip'
      <4>1. sync.height > 0 /\ sync.height <= tip
        BY <1>3 DEF FetchRegistry, Phases, Bounds
      <4>2. sync.height \in Int
        BY <1>p DEF Syncs
      <4>3. tip \in Nat /\ tip' \in Nat /\ tip <= tip'
        BY <2>3, GetInfoGrows, TypesAre
      <4> QED BY <4>1, <4>2, <4>3
    <3>6. /\ Candidates' = Range(q) /\ Registered(tip)' = Registered(tip')
          /\ Registered(sync.height)' = Registered(sync.height)
      BY <3>4 DEF Candidates, Registered
    <3>7. Fetched'
      BY <3>2, <3>5, <3>6, RegisteredGrows DEF Fetched
    <3> QED BY <2>1, <2>3, <3>3, <3>4, <3>5, <3>7, NoProbeFields DEF Phases
  <2> QED BY <1>3, <2>2, <2>3 DEF FetchRegistry
<1>4. CASE Launch
  <2>1. sync.cands # <<>> /\ probe = NoProbe /\ ~settled
    BY <1>4, <1>o DEF Launch, Phases
  <2>2. sync'.pc = "fill" /\ sync'.height = sync.height /\ sync'.cands = sync.cands
    BY <1>4, <1>p, SyncSteps DEF Launch
  <2>6. Candidates' = Candidates
    BY <2>2 DEF Candidates
  <2>3. sync'.height > 0 /\ Fetched'
    BY <1>4, <1>f, <1>t, <2>1, <2>2, <2>6 DEF Phases, Moves, FastSync
  <2>4. CASE settled' = TRUE /\ probe' = probe
    BY <2>1, <2>2, <2>3, <2>4, NoProbeFields DEF Phases
  <2>5. ASSUME settled' = settled, NEW kind \in {"full", "delta"},
               NEW todo \in SUBSET Candidates, probe' = Started(kind, todo)
        PROVE  Phases'
    <3>1. Candidates \subseteq Registry
      BY <1>p DEF Candidates, Syncs, Range
    <3>2. probe'.pc = "sort" /\ probe'.kind = kind
      BY <2>5, <3>1, StartedIs
    <3> QED BY <2>1, <2>2, <2>3, <2>5, <3>2 DEF Phases
  <2> QED BY <1>4, <1>p, <2>4, <2>5, LaunchedIs
<1>5. CASE Fill
  <2>1. sync'.cands = sync.cands /\ sync'.height = sync.height /\ sync'.pc = sync.pc
    BY <1>5, <1>p DEF Fill, Syncs
  <2>2. Fetched => Fetched'
    BY <1>5, <1>f, <1>t, <2>1 DEF Moves, FastSync, Candidates
  <2> QED BY <1>5, <1>k, <2>1, <2>2 DEF Fill, Phases
<1>6. CASE FlushRegistry
  <2>1. sync'.cands = sync.cands /\ sync'.height = sync.height /\ sync'.pc = "daemon"
    BY <1>6, <1>p, SyncSteps DEF FlushRegistry
  <2>2. Fetched => Fetched'
    BY <1>6, <1>f, <1>t, <2>1 DEF Moves, FastSync, Candidates
  <2> QED BY <1>6, <1>k, <2>1, <2>2 DEF FlushRegistry
<1>7. CASE ScanCommit \/ BumpCache
  <2>1. sync' = sync
    BY <1>7 DEF ScanCommit, BumpCache
  <2>2. Fetched => Fetched'
    BY <1>7, <1>f, <1>t, <2>1 DEF Moves, Candidates
  <2> QED BY <1>7, <1>k, <2>1, <2>2 DEF ScanCommit, BumpCache, Phases
<1>8. CASE Close \/ UNCHANGED vars
  BY <1>8 DEF Close, vars, Phases, Fetched, Candidates, Registered
<1>9. CASE Probing
  <2>1. /\ probe.pc # "off" /\ probe'.pc # "off" /\ probe'.kind = probe.kind
        /\ sync'.pc = sync.pc /\ sync'.height = sync.height /\ sync'.cands # <<>>
        /\ Candidates' = Candidates /\ settled' = settled
    BY <1>9, ProbingFrame
  <2>2. probe # NoProbe
    BY <2>1, NoProbeFields
  <2>3. /\ ~settled /\ sync.height \in 1 .. MaxTip /\ sync.pc \in {"fill", "daemon"}
        /\ Fetched /\ probe.kind \in {"full", "delta"}
    BY <2>2, Running
  <2>5. tip' = tip
    BY <1>9, ProbingFrame
  <2>4. Fetched'
    BY <2>1, <2>3, <2>5 DEF Fetched, Registered
  <2> QED BY <2>1, <2>3, <2>4 DEF Phases
<1>10. CASE Finishing
  <2>1. /\ probe' = NoProbe /\ sync' = sync /\ tip' = tip
        /\ sync.pc \in {"fill", "daemon"} /\ sync.cands # <<>>
    BY <1>10, FinishingFrame, Running
  <2> QED BY <2>1, NoProbeFields DEF Phases, Fetched, Candidates, Registered
<1>11. CASE Restart
  <2>1. sync'.pc = "off" /\ sync'.cands = <<>> /\ probe' = NoProbe /\ ~settled'
    BY <1>11 DEF Restart, NoSync
  <2> QED BY <2>1, NoProbeFields DEF Phases
<1> QED BY <1>1, <1>2, <1>3, <1>4, <1>5, <1>6, <1>7, <1>8, <1>9, <1>10, <1>11,
           <1>12, NextSplits DEF Moves, FastSync

-----------------------------------------------------------------------------
(* The probe, part by part.                                                *)

\* What the steps that only move the probe's phase leave of it.
LEMMA PhaseSteps ==
  ASSUME probe \in Probes, SortDone \/ Feed \/ Send
  PROVE  /\ probe'.pend = probe.pend /\ probe'.found = probe.found
         /\ probe'.varWork = probe.varWork /\ probe'.classes = probe.classes
         /\ probe'.vars = probe.vars /\ probe'.bad = probe.bad
         /\ probe'.rpcErrs = probe.rpcErrs /\ probe'.flushed = probe.flushed
         /\ probe'.complete = probe.complete /\ probe'.kind = probe.kind
<1>1. CASE SortDone
  <2>1. probe' = [probe EXCEPT !.pc = "feed"]
    BY <1>1 DEF SortDone
  <2>2. probe'.flushed = probe.flushed /\ probe'.complete = probe.complete
    BY <2>1 DEF Probes
  <2> QED BY <2>1, <2>2 DEF Probes
<1>2. CASE Feed
  <2>1. \/ probe' = [probe EXCEPT !.pc = "phase1"]
        \/ \E s \in probe.todo : probe' = [probe EXCEPT !.hand = {s}, !.todo = @ \ {s}]
    BY <1>2 DEF Feed
  <2>2. probe'.flushed = probe.flushed /\ probe'.complete = probe.complete
    BY <2>1 DEF Probes
  <2> QED BY <2>1, <2>2 DEF Probes
<1>3. CASE Send
  <2>1. \E s \in probe.hand : probe' = [probe EXCEPT !.work = Append(@, s), !.hand = {}]
    BY <1>3 DEF Send
  <2>2. probe'.flushed = probe.flushed /\ probe'.complete = probe.complete
    BY <2>1 DEF Probes
  <2> QED BY <2>1, <2>2 DEF Probes
<1> QED BY <1>1, <1>2, <1>3

\* And those of its last phases.
LEMMA LateSteps ==
  ASSUME DiscoveryAssumption, Types, Phases,
         ProbeVars \/ FlushVars \/ (EndPhase1 /\ probe.found # {})
  PROVE  /\ probe'.todo = probe.todo /\ probe'.hand = probe.hand
         /\ probe'.work = probe.work /\ probe'.found = probe.found
         /\ probe'.complete = probe.complete /\ probe'.kind = probe.kind
         /\ ~FlushVars => probe'.flushed = probe.flushed
         /\ ~ProbeVars => probe'.bad = probe.bad /\ probe'.rpcErrs = probe.rpcErrs
<1>p. probe \in Probes /\ degraded \in BOOLEAN
  BY TypesAre
<1>1. CASE ProbeVars
  <2>1. sync.height \in 1 .. MaxTip
    BY <1>1, Running, NoProbeFields DEF ProbeVars
  <2>2. probe' = [probe EXCEPT !.varWork = probe'.varWork, !.classes = probe'.classes,
                        !.vars = probe'.vars, !.bad = probe'.bad, !.rpcErrs = probe'.rpcErrs]
    BY <1>1, <1>p, <2>1, VarsStep
  <2>3. probe'.complete = probe.complete /\ probe'.flushed = probe.flushed
    BY <1>p, <2>2 DEF Probes
  <2> QED BY <1>1, <1>p, <2>2, <2>3 DEF Probes
<1>2. CASE FlushVars
  <2>1. \/ probe' = [probe EXCEPT !.pc = "save"]
        \/ probe' = [probe EXCEPT !.pc = "save", !.flushed = FALSE]
    BY <1>2 DEF FlushVars
  <2>2. probe'.complete = probe.complete
    BY <1>p, <2>1 DEF Probes
  <2> QED BY <1>2, <1>p, <2>1, <2>2 DEF Probes
<1>3. CASE EndPhase1 /\ probe.found # {}
  <2>1. probe' = [probe EXCEPT !.pc = "phase2", !.pend = {}, !.varWork = probe'.varWork,
                               !.classes = @ \cup (probe.found \ Tela)]
    BY <1>3, <1>p, Phase1Step
  <2>2. probe'.complete = probe.complete /\ probe'.flushed = probe.flushed
    BY <1>p, <2>1 DEF Probes
  <2> QED BY <1>p, <2>1, <2>2 DEF Probes
<1> QED BY <1>1, <1>2, <1>3

LEMMA DegradedStep ==
  ASSUME DiscoveryAssumption, Types, Phases, Degraded, [Next]_vars PROVE Degraded'
<1>p. probe \in Probes /\ sync \in Syncs /\ degraded \in BOOLEAN
  BY TypesAre
<1>o. probe' = NoProbe => /\ ~probe'.complete /\ probe'.flushed
                          /\ probe'.rpcErrs = 0 /\ probe'.bad = {}
  BY NoProbeFields
<1>q. (probe'.rpcErrs > 0 => probe'.rpcErrs # 0)
  OBVIOUS
<1>1. CASE Moves
  <2>1. (degraded => degraded') /\ (quitting' = quitting \/ (quitting' /\ degraded'))
    BY <1>1, MovesFrame
  <2>2. CASE probe' = probe
    BY <2>1, <2>2 DEF Degraded
  <2>3. CASE Launch
    <3>1. probe' = probe \/ (~probe'.complete /\ probe'.flushed /\ probe'.rpcErrs = 0 /\ probe'.bad = {})
      <4>1. Candidates \subseteq Registry
        BY <1>p DEF Candidates, Syncs, Range
      <4>2. ASSUME NEW kind \in {"full", "delta"}, NEW todo \in SUBSET Candidates,
                   probe' = Started(kind, todo)
            PROVE  /\ ~probe'.complete /\ probe'.flushed
                   /\ probe'.rpcErrs = 0 /\ probe'.bad = {}
        BY <4>1, <4>2, StartedIs
      <4> QED BY <1>p, <2>3, <4>2, LaunchedIs
    <3> QED BY <1>q, <2>1, <3>1 DEF Degraded
  <2> QED BY <1>1, <2>2, <2>3, MovesFrame
<1>2. CASE Probing
  <2>1. (degraded => degraded') /\ quitting' = quitting /\ probe'.kind = probe.kind
    BY <1>2, ProbingFrame
  <2>2. CASE SortSwap
    BY <2>1, <2>2 DEF Degraded, SortSwap
  <2>3. CASE SortDone \/ Feed \/ Send
    BY <1>p, <2>1, <2>3, PhaseSteps DEF Degraded
  <2>4. CASE ProbeCode
    <3>1. /\ probe'.flushed = probe.flushed /\ probe.rpcErrs \in Nat
          /\ (probe'.bad # probe.bad \/ probe'.rpcErrs # probe.rpcErrs) => degraded'
          /\ probe'.complete => probe.complete \/ (probe.kind = "delta" /\ degraded')
      BY <1>p, <2>4, CodeStep DEF Probes
    <3> QED BY <2>1, <3>1 DEF Degraded
  <2>5. CASE ProbeVars
    <3>1. sync.height \in 1 .. MaxTip
      BY <2>5, Running, NoProbeFields DEF ProbeVars
    <3>2. (probe'.bad # probe.bad \/ probe'.rpcErrs # probe.rpcErrs) => degraded'
      BY <1>p, <2>5, <3>1, VarsStep
    <3>3. probe'.complete = probe.complete /\ (~FlushVars => probe'.flushed = probe.flushed)
      BY <2>5, LateSteps
    <3>4. ~FlushVars
      BY <2>5 DEF FlushVars, ProbeVars
    <3> QED BY <2>1, <3>2, <3>3, <3>4 DEF Degraded
  <2>6. CASE FlushVars
    <3>1. ~ProbeVars
      BY <2>6 DEF FlushVars, ProbeVars
    <3>2. /\ probe'.complete = probe.complete /\ probe'.bad = probe.bad
          /\ probe'.rpcErrs = probe.rpcErrs
      BY <2>6, <3>1, LateSteps
    <3>3. probe'.flushed = probe.flushed \/ degraded'
      <4>1. probe' = [probe EXCEPT !.pc = "save"] \/ Fault
        BY <2>6 DEF FlushVars
      <4> QED BY <1>p, <4>1 DEF Fault, Probes
    <3> QED BY <2>1, <3>2, <3>3 DEF Degraded
  <2>7. CASE EndPhase1 /\ probe.found # {}
    <3>1. ~FlushVars
      BY <2>7 DEF FlushVars, EndPhase1
    <3>2. probe'.bad = probe.bad /\ probe'.rpcErrs = probe.rpcErrs
      <4>1. probe' = [probe EXCEPT !.pc = "phase2", !.pend = {}, !.varWork = probe'.varWork,
                                   !.classes = @ \cup (probe.found \ Tela)]
        BY <1>p, <2>7, Phase1Step
      <4> QED BY <1>p, <4>1 DEF Probes
    <3> QED BY <2>1, <2>7, <3>1, <3>2, LateSteps DEF Degraded
  <2> QED BY <1>2, <2>2, <2>3, <2>4, <2>5, <2>6, <2>7 DEF Probing
<1>3. CASE Finishing
  <2>1. probe' = NoProbe /\ quitting' = quitting /\ degraded' = degraded
    BY <1>3, FinishingFrame
  <2> QED BY <1>o, <2>1 DEF Degraded
<1>4. CASE Restart
  <2>1. probe' = NoProbe /\ ~quitting'
    BY <1>4 DEF Restart
  <2> QED BY <1>o, <2>1 DEF Degraded
<1>5. CASE UNCHANGED vars
  BY <1>5 DEF vars, Degraded
<1> QED BY <1>1, <1>2, <1>3, <1>4, <1>5, NextSplits

LEMMA StagesStep ==
  ASSUME DiscoveryAssumption, Types, Phases, Stages, [Next]_vars PROVE Stages'
<1>p. probe \in Probes /\ sync \in Syncs /\ degraded \in BOOLEAN /\ quitting \in BOOLEAN
  BY TypesAre
<1>k. ASSUME probe' = probe, quitting => quitting', db.classes \subseteq db'.classes
      PROVE  Stages'
  BY <1>k DEF Stages
<1>o. ASSUME probe' = NoProbe PROVE Stages'
  <2>1. probe'.pc = "off" /\ probe'.hand = {}
    BY <1>o, NoProbeFields
  <2> QED BY <2>1 DEF Stages
<1>1. CASE Moves
  <2>1. db.classes \subseteq db'.classes /\ (quitting => quitting')
    BY <1>1, MovesFrame
  <2>2. CASE probe' = probe
    BY <1>k, <2>1, <2>2
  <2>3. ASSUME NEW kind \in {"full", "delta"}, NEW todo \in SUBSET Candidates,
               probe' = Started(kind, todo)
        PROVE  Stages'
    <3>1. Candidates \subseteq Registry
      BY <1>p DEF Candidates, Syncs, Range
    <3>2. probe'.pc = "sort" /\ probe'.hand = {} /\ probe'.work = <<>>
      BY <2>3, <3>1, StartedIs
    <3> QED BY <3>2 DEF Stages
  <2> QED BY <1>1, <1>p, <2>2, <2>3, LaunchedIs, MovesFrame
<1>2. CASE Probing
  <2>1. db.classes \subseteq db'.classes /\ quitting' = quitting
    BY <1>2, ProbingFrame
  <2>2. CASE SortSwap
    BY <1>k, <2>1, <2>2 DEF SortSwap
  <2>3. CASE SortDone
    <3>1. probe'.pc = "feed" /\ probe'.hand = probe.hand /\ probe.pc = "sort"
      BY <1>p, <2>3 DEF SortDone, Probes
    <3> QED BY <3>1 DEF Stages
  <2>4. CASE Feed
    <3>1. probe.hand = {} /\ probe.pc = "feed"
      BY <1>p, <2>4, FeedStep
    <3>2. CASE /\ probe' = [probe EXCEPT !.pc = "phase1"]
               /\ probe.todo = {} \/ quitting \/ probe.complete
      <4>1. probe'.pc = "phase1" /\ probe'.hand = {} /\ probe'.todo = probe.todo
        BY <1>p, <3>1, <3>2 DEF Probes
      <4>2. probe'.complete = probe.complete
        BY <2>4, <1>p, PhaseSteps
      <4> QED BY <2>1, <3>2, <4>1, <4>2 DEF Stages
    <3>3. ASSUME NEW s \in probe.todo, probe' = [probe EXCEPT !.hand = {s}, !.todo = @ \ {s}]
          PROVE  Stages'
      <4>1. probe'.pc = "feed" /\ probe'.hand = {s}
        BY <1>p, <3>1, <3>3 DEF Probes
      <4> QED BY <4>1 DEF Stages
    <3> QED BY <1>p, <2>4, <3>2, <3>3, FeedStep
  <2>5. CASE Send
    <3>1. probe'.pc = "feed" /\ probe'.hand = {}
      BY <1>p, <2>5, SendStep DEF Probes
    <3> QED BY <3>1 DEF Stages
  <2>6. CASE ProbeCode
    <3>1. probe.work # <<>>
      BY <2>6 DEF ProbeCode
    <3>2. /\ probe'.pc = probe.pc /\ probe'.hand = probe.hand /\ probe'.todo = probe.todo
          /\ probe.complete => probe'.complete
      BY <1>p, <2>6, CodeStep
    <3>3. probe.pc \notin {"sort", "phase2", "save"}
      BY <3>1 DEF Stages
    <3> QED BY <2>1, <3>2, <3>3 DEF Stages
  <2>7. CASE ProbeVars
    <3>1. sync.height \in 1 .. MaxTip
      BY <2>7, Running, NoProbeFields DEF ProbeVars
    <3>2. probe' = [probe EXCEPT !.varWork = probe'.varWork, !.classes = probe'.classes,
                          !.vars = probe'.vars, !.bad = probe'.bad, !.rpcErrs = probe'.rpcErrs]
          /\ probe.classes \subseteq probe'.classes
      BY <1>p, <2>7, <3>1, VarsStep
    <3>3. probe'.pc = probe.pc /\ probe'.pend = probe.pend
      BY <1>p, <3>2 DEF Probes
    <3>4. probe.pc # "save"
      BY <2>7 DEF ProbeVars, Stages
    <3>5. /\ probe'.todo = probe.todo /\ probe'.hand = probe.hand
          /\ probe'.work = probe.work /\ probe'.found = probe.found
          /\ probe'.complete = probe.complete
      BY <2>7, LateSteps
    <3> QED BY <2>1, <3>2, <3>3, <3>4, <3>5 DEF Stages
  <2>8. CASE EndPhase1 /\ probe.found # {}
    <3>1. probe.pc = "phase1" /\ probe.work = <<>>
      BY <2>8 DEF EndPhase1
    <3>2. probe' = [probe EXCEPT !.pc = "phase2", !.pend = {}, !.varWork = probe'.varWork,
                                 !.classes = @ \cup (probe.found \ Tela)]
      BY <1>p, <2>8, Phase1Step
    <3>3. /\ probe'.pc = "phase2" /\ probe'.pend = {}
          /\ probe'.classes = probe.classes \cup (probe.found \ Tela)
      BY <1>p, <3>2 DEF Probes
    <3>4. /\ probe'.todo = probe.todo /\ probe'.hand = probe.hand
          /\ probe'.work = probe.work /\ probe'.found = probe.found
          /\ probe'.complete = probe.complete
      BY <2>8, LateSteps
    <3> QED BY <2>1, <3>1, <3>3, <3>4 DEF Stages
  <2>9. CASE FlushVars
    <3>1. probe.pc = "phase2" /\ probe.varWork = <<>>
      BY <2>9 DEF FlushVars
    <3>2. \/ /\ probe' = [probe EXCEPT !.pc = "save"]
             /\ db' = [db EXCEPT !.classes = @ \cup probe.classes, !.vars = @ \cup probe.vars]
          \/ probe' = [probe EXCEPT !.pc = "save", !.flushed = FALSE]
      BY <2>9 DEF FlushVars
    <3>3. /\ probe'.pc = "save" /\ probe'.pend = probe.pend /\ probe'.varWork = probe.varWork
          /\ probe'.classes = probe.classes
      BY <1>p, <3>2 DEF Probes
    <3>4. /\ probe'.todo = probe.todo /\ probe'.hand = probe.hand
          /\ probe'.work = probe.work /\ probe'.found = probe.found
          /\ probe'.complete = probe.complete
      BY <2>9, LateSteps
    <3>5. probe'.flushed => probe.classes \subseteq db'.classes
      <4>1. ASSUME probe' = [probe EXCEPT !.pc = "save", !.flushed = FALSE]
            PROVE  ~probe'.flushed
        BY <1>p, <4>1 DEF Probes
      <4>2. ASSUME db' = [db EXCEPT !.classes = @ \cup probe.classes, !.vars = @ \cup probe.vars]
            PROVE  probe.classes \subseteq db'.classes
        BY <4>2, TypesAre DEF Stores
      <4> QED BY <3>2, <4>1, <4>2
    <3> QED BY <2>1, <3>1, <3>3, <3>4, <3>5 DEF Stages
  <2> QED BY <1>2, <2>2, <2>3, <2>4, <2>5, <2>6, <2>7, <2>8, <2>9 DEF Probing
<1>3. CASE Finishing
  BY <1>3, <1>o, FinishingFrame
<1>4. CASE Restart
  BY <1>4, <1>o DEF Restart
<1>5. CASE UNCHANGED vars
  BY <1>5 DEF vars, Stages
<1> QED BY <1>1, <1>2, <1>3, <1>4, <1>5, NextSplits

\* What a discovery starts from: the probe gets every known contract that the
\* cache or the seed does not have, and what they have is in the store.
LEMMA LaunchCovers ==
  ASSUME DiscoveryAssumption, Types, Phases, CacheComplete, Cached, SeedComplete, Seeded, Launch
  PROVE  \/ /\ settled' = TRUE /\ probe' = probe
            /\ Known \cap Candidates \subseteq db'.classes \cup excused'
         \/ \E kind \in {"full", "delta"}, todo \in SUBSET Candidates :
              /\ probe' = Started(kind, todo) /\ settled' = settled
              /\ kind = "full" => todo = Candidates
              /\ Known \cap Candidates \subseteq todo \cup db'.classes \cup excused'
<1>p. sync \in Syncs /\ db \in Stores /\ seeds \subseteq Seeds
  BY TypesAre
<1>c. Candidates \subseteq Registry /\ HeightOf \in [Registry -> Nat \ {0}]
  BY <1>p, Constants DEF Candidates, Syncs, Range
<1>d. ASSUME NEW h \in Nat, LaunchDelta(h),
             Known \cap {s \in Candidates : HeightOf[s] <= h} \subseteq db'.classes \cup excused'
      PROVE  \/ /\ settled' = TRUE /\ probe' = probe
                /\ Known \cap Candidates \subseteq db'.classes \cup excused'
             \/ \E kind \in {"full", "delta"}, todo \in SUBSET Candidates :
                  /\ probe' = Started(kind, todo) /\ settled' = settled
                  /\ kind = "full" => todo = Candidates
                  /\ Known \cap Candidates \subseteq todo \cup db'.classes \cup excused'
  <2>1. ASSUME NEW s \in Known \cap Candidates
        PROVE  s \in DeltaSince(h) \cup db'.classes \cup excused'
    <3>1. HeightOf[s] \in Nat
      BY <1>c
    <3>2. HeightOf[s] <= h \/ HeightOf[s] > h
      BY <3>1
    <3>3. ASSUME HeightOf[s] > h PROVE s \in DeltaSince(h)
      BY <3>3 DEF DeltaSince
    <3> QED BY <1>d, <3>2, <3>3
  <2>2. DeltaSince(h) \in SUBSET Candidates
    BY DEF DeltaSince
  <2>3. CASE DeltaSince(h) = {}
    BY <1>d, <2>1, <2>3 DEF LaunchDelta
  <2>4. CASE DeltaSince(h) # {}
    <3>1. probe' = Started("delta", DeltaSince(h)) /\ settled' = settled
      BY <1>d, <2>4 DEF LaunchDelta
    <3> QED BY <2>1, <2>2, <3>1
  <2> QED BY <2>3, <2>4
<1>1. CASE CacheUsable /\ LaunchDelta(cache.height) /\ Trusted /\ UNCHANGED db
  <2>1. cache # NoCache /\ cache.version = "current" /\ CachedScvarsLookReadable(cache)
    BY <1>1 DEF CacheUsable, CurrentCache
  <2>2. cache.height \in Nat
    BY <2>1, TypesAre DEF Caches
  <2>3. Known \cap Registered(cache.height) \subseteq cache.scids \cup excused
    BY <2>1 DEF CacheComplete
  <2>4. cache.scids \subseteq db.classes \cup excused \cup unflushed
    BY <2>1 DEF Cached
  <2>5. excused' = excused \cup unflushed
    BY <1>1, <2>1 DEF Trusted
  <2>6. {s \in Candidates : HeightOf[s] <= cache.height} \subseteq Registered(cache.height)
    BY <1>c DEF Registered
  <2>7. Known \cap {s \in Candidates : HeightOf[s] <= cache.height} \subseteq db'.classes \cup excused'
    BY <1>1, <2>3, <2>4, <2>5, <2>6
  <2> QED BY <1>1, <1>d, <2>2, <2>7
<1>2. CASE /\ MatchingSeeds # {} /\ db' = SeedApplied(BestSeed) /\ LaunchDelta(BestSeed.height)
  <2>1. BestSeed \in seeds /\ BestSeed \in Seeds
    BY <1>2, <1>p, BestSeedMatches
  <2>2. BestSeed.height \in Nat
    BY <2>1 DEF Seeds
  <2>3. Known \cap BestSeed.registry \subseteq BestSeed.classes
    BY <2>1 DEF SeedComplete
  <2>4. BestSeed.classes \subseteq db'.classes
    BY <1>2, <1>p DEF SeedApplied, Stores
  <2>5. {s \in Candidates : HeightOf[s] <= BestSeed.height} \subseteq BestSeed.registry
    BY <1>c, <2>1 DEF Seeded, Registered
  <2> QED BY <1>2, <1>d, <2>2, <2>3, <2>4, <2>5
<1>3. CASE probe' = Started("full", Candidates) /\ settled' = settled
  <2>1. Candidates \in SUBSET Candidates
    OBVIOUS
  <2> QED BY <1>3, <2>1
<1> QED BY <1>1, <1>2, <1>3 DEF Launch

LEMMA CoveredStep ==
  ASSUME DiscoveryAssumption, Types, Phases, Degraded, Stages, Covered, CacheComplete, Cached,
         SeedComplete, Seeded, [Next]_vars
  PROVE  Covered'
<1>p. probe \in Probes /\ sync \in Syncs /\ degraded \in BOOLEAN /\ quitting \in BOOLEAN
  BY TypesAre
<1>o. ASSUME probe' = NoProbe PROVE Covered'
  BY <1>o, NoProbeFields DEF Covered
\* What a step that takes no candidate out of phase 1 has to keep.
<1>k. ASSUME probe.pc # "off", Candidates' = Candidates, probe'.kind = probe.kind,
             InPhase1' = InPhase1, probe'.found = probe.found, probe.bad \subseteq probe'.bad,
             quitting => quitting', probe'.rpcErrs = 0 => probe.rpcErrs = 0,
             degraded => degraded', db.classes \subseteq db'.classes, excused \subseteq excused'
      PROVE  Covered'
  BY <1>k DEF Covered
<1>1. CASE Moves
  <2>1. /\ db.classes \subseteq db'.classes /\ excused \subseteq excused'
        /\ (degraded => degraded') /\ (quitting => quitting')
    BY <1>1, MovesFrame
  <2>2. CASE probe' = probe /\ probe.pc # "off"
    <3>1. sync.pc \in {"fill", "daemon"}
      BY <2>2, NoProbeFields, Running
    <3>2. sync'.cands = sync.cands
      <4>1. CASE Fill
        BY <1>p, <4>1 DEF Fill, Syncs
      <4>2. CASE FlushRegistry
        BY <1>p, <4>2, SyncSteps DEF FlushRegistry
      <4>3. CASE ScanCommit \/ BumpCache \/ Close
        BY <4>3 DEF ScanCommit, BumpCache, Close
      <4> QED BY <1>1, <3>1, <4>1, <4>2, <4>3
               DEF Moves, FastSync, Start, CheckCache, GetHeight, FetchRegistry, Launch
    <3> QED BY <1>k, <2>1, <2>2, <3>2 DEF Candidates, InPhase1
  <2>3. CASE probe' = probe /\ probe.pc = "off"
    BY <2>3 DEF Covered
  <2>4. ASSUME Launch, NEW kind \in {"full", "delta"}, NEW todo \in SUBSET Candidates,
               probe' = Started(kind, todo), kind = "full" => todo = Candidates,
               Known \cap Candidates \subseteq todo \cup db'.classes \cup excused'
        PROVE  Covered'
    <3>1. Candidates \subseteq Registry
      BY <1>p DEF Candidates, Syncs, Range
    <3>2. Candidates' = Candidates
      BY <1>p, <2>4, SyncSteps DEF Launch, Candidates
    <3>3. /\ probe'.pc = "sort" /\ probe'.kind = kind /\ probe'.todo = todo
          /\ probe'.hand = {} /\ probe'.work = <<>> /\ probe'.found = {}
      BY <2>4, <3>1, StartedIs
    <3>4. InPhase1' = todo
      BY <3>3, RangeEmpty DEF InPhase1
    <3> QED BY <2>4, <3>2, <3>3, <3>4 DEF Covered
  <2> QED BY <1>1, <2>2, <2>3, <2>4, LaunchCovers, MovesFrame
<1>2. CASE Probing
  <2>1. /\ probe.pc # "off" /\ Candidates' = Candidates /\ probe'.kind = probe.kind
        /\ quitting' = quitting /\ (degraded => degraded')
        /\ db.classes \subseteq db'.classes /\ excused' = excused
    BY <1>2, ProbingFrame
  <2>2. CASE SortSwap
    BY <1>k, <2>1, <2>2 DEF SortSwap, InPhase1
  <2>3. CASE SortDone \/ Feed \/ Send
    <3>1. InPhase1' = InPhase1
      <4>1. CASE SortDone
        <5>1. probe'.todo = probe.todo /\ probe'.hand = probe.hand /\ probe'.work = probe.work
          BY <1>p, <4>1 DEF SortDone, Probes
        <5> QED BY <5>1 DEF InPhase1
      <4>2. CASE Feed
        <5>1. probe.hand = {}
          BY <1>p, <4>2, FeedStep
        <5>2. ASSUME probe' = [probe EXCEPT !.pc = "phase1"] PROVE InPhase1' = InPhase1
          <6>1. probe'.todo = probe.todo /\ probe'.hand = probe.hand /\ probe'.work = probe.work
            BY <1>p, <5>2 DEF Probes
          <6> QED BY <6>1 DEF InPhase1
        <5>3. ASSUME NEW s \in probe.todo,
                     probe' = [probe EXCEPT !.hand = {s}, !.todo = @ \ {s}]
              PROVE  InPhase1' = InPhase1
          <6>1. probe'.todo = probe.todo \ {s} /\ probe'.hand = {s} /\ probe'.work = probe.work
            BY <1>p, <5>3 DEF Probes
          <6> QED BY <5>1, <6>1 DEF InPhase1
        <5> QED BY <1>p, <4>2, <5>2, <5>3, FeedStep
      <4>3. CASE Send
        <5>1. PICK s \in probe.hand :
                /\ probe' = [probe EXCEPT !.work = probe'.work, !.hand = {}]
                /\ Range(probe'.work) = Range(probe.work) \cup {s}
          BY <1>p, <4>3, SendStep
        <5>2. probe'.todo = probe.todo /\ probe'.hand = {}
          BY <1>p, <5>1 DEF Probes
        <5>3. probe.hand = {s}
          BY DEF Stages
        <5> QED BY <5>1, <5>2, <5>3 DEF InPhase1
      <4> QED BY <2>3, <4>1, <4>2, <4>3
    <3> QED BY <1>k, <1>p, <2>1, <2>3, <3>1, PhaseSteps
  <2>4. CASE ProbeCode
    <3>1. PICK s \in Registry :
              /\ Range(probe.work) = {s} \cup Range(probe'.work)
              /\ probe'.found \subseteq probe.found \cup {s}
              /\ s \in Known => \/ s \in probe'.found \cup probe'.bad
                                \/ quitting \/ probe.complete
                                \/ probe'.rpcErrs > 0 /\ degraded'
      BY <1>p, <2>4, CodeStep
    <3>2. /\ probe'.todo = probe.todo /\ probe'.hand = probe.hand
          /\ probe.found \subseteq probe'.found /\ probe.bad \subseteq probe'.bad
          /\ probe.rpcErrs <= probe'.rpcErrs
          /\ (probe'.bad # probe.bad \/ probe'.rpcErrs # probe.rpcErrs) => degraded'
      BY <1>p, <2>4, CodeStep
    <3>3. InPhase1 = InPhase1' \cup {s}
      BY <3>1, <3>2 DEF InPhase1
    <3>4. probe.rpcErrs \in Nat /\ probe'.rpcErrs \in Nat
      BY <1>p, <2>4, CodeStep DEF Probes
    <3>5. InPhase1' \cup probe'.found \subseteq Candidates'
      BY <2>1, <3>1, <3>3 DEF Covered
    <3>6. ASSUME probe'.kind = "full", ~quitting', probe'.rpcErrs = 0
          PROVE  Known \cap Candidates' \subseteq InPhase1' \cup probe'.found \cup probe'.bad
      <4>1. probe.rpcErrs = 0 /\ ~quitting /\ probe.kind = "full"
        BY <2>1, <3>2, <3>4, <3>6
      <4>2. ~probe.complete
        BY <4>1 DEF Degraded
      <4>3. s \in Known => s \in probe'.found \cup probe'.bad
        BY <3>1, <3>6, <4>1, <4>2
      <4>4. Known \cap Candidates \subseteq InPhase1 \cup probe.found \cup probe.bad
        BY <2>1, <4>1 DEF Covered
      <4> QED BY <2>1, <3>2, <3>3, <4>3, <4>4
    <3>7. ASSUME ~degraded'
          PROVE  Known \cap Candidates'
                   \subseteq InPhase1' \cup probe'.found \cup db'.classes \cup excused'
      <4>1. ~degraded /\ ~quitting /\ ~probe.complete /\ probe.bad = {}
        BY <2>1, <3>7 DEF Degraded
      <4>2. probe'.bad = {}
        BY <3>2, <3>7, <4>1
      <4>3. s \in Known => s \in probe'.found
        BY <3>1, <3>7, <4>1, <4>2
      <4>4. Known \cap Candidates \subseteq InPhase1 \cup probe.found \cup db.classes \cup excused
        BY <2>1, <4>1 DEF Covered
      <4> QED BY <2>1, <3>2, <3>3, <4>3, <4>4
    <3> QED BY <3>5, <3>6, <3>7 DEF Covered
  <2>5. CASE ProbeVars \/ FlushVars \/ (EndPhase1 /\ probe.found # {})
    <3>1. /\ probe'.todo = probe.todo /\ probe'.hand = probe.hand
          /\ probe'.work = probe.work /\ probe'.found = probe.found
          /\ ~ProbeVars => probe'.bad = probe.bad /\ probe'.rpcErrs = probe.rpcErrs
      BY <2>5, LateSteps
    <3>2. ProbeVars => probe.bad \subseteq probe'.bad /\ probe.rpcErrs <= probe'.rpcErrs
      <4>1. ProbeVars => sync.height \in 1 .. MaxTip
        BY Running, NoProbeFields DEF ProbeVars
      <4> QED BY <1>p, <4>1, VarsStep
    <3>3. probe.rpcErrs \in Nat
      BY <1>p DEF Probes
    <3>4. probe.bad \subseteq probe'.bad /\ (probe'.rpcErrs = 0 => probe.rpcErrs = 0)
      BY <3>1, <3>2, <3>3
    <3>5. InPhase1' = InPhase1
      BY <3>1 DEF InPhase1
    <3> QED BY <1>k, <2>1, <3>1, <3>4, <3>5
  <2> QED BY <1>2, <2>2, <2>3, <2>4, <2>5 DEF Probing
<1>3. CASE Finishing
  BY <1>3, <1>o, FinishingFrame
<1>4. CASE Restart
  BY <1>4, <1>o DEF Restart
<1>5. CASE UNCHANGED vars
  BY <1>5 DEF vars, Covered, InPhase1, Candidates
<1> QED BY <1>1, <1>2, <1>3, <1>4, <1>5, NextSplits

LEMMA ChunkedStep ==
  ASSUME DiscoveryAssumption, Types, Phases, Stages, Chunked, [Next]_vars
  PROVE  Chunked'
<1>p. /\ probe \in Probes /\ sync \in Syncs /\ degraded \in BOOLEAN
      /\ quitting \in BOOLEAN /\ probe.rpcErrs \in Nat
  BY TypesAre DEF Probes
<1>o. ASSUME probe'.found = {}, probe'.classes = {} PROVE Chunked'
  BY <1>o DEF Chunked
<1>n. ASSUME probe' = NoProbe PROVE Chunked'
  BY <1>n, <1>o, NoProbeFields
\* What is found stays on its way, and what joins the classes has variables.
<1>k. ASSUME sync'.height = sync.height, quitting' = quitting,
             probe'.rpcErrs = 0 => probe.rpcErrs = 0,
             ~quitting' /\ probe'.rpcErrs = 0 =>
               (((probe'.found \ probe.found) \cap Tela) \cup (probe.pend \cap Tela) \cup InChunks
                  \subseteq probe'.pend \cup InChunks' \cup probe'.classes \cup probe'.bad),
             probe.classes \subseteq probe'.classes, probe.bad \subseteq probe'.bad,
             probe.vars \subseteq probe'.vars,
             \A s \in probe'.classes \ probe.classes :
               s \in Tela => <<s, sync.height>> \in probe'.vars
      PROVE  Chunked'
  <2>1. ASSUME ~quitting', probe'.rpcErrs = 0
        PROVE  probe'.found \cap Tela
                 \subseteq probe'.pend \cup InChunks' \cup probe'.classes \cup probe'.bad
    <3>1. probe.found \cap Tela \subseteq probe.pend \cup InChunks \cup probe.classes \cup probe.bad
      BY <1>k, <2>1 DEF Chunked
    <3>2. (((probe'.found \ probe.found) \cap Tela) \cup (probe.pend \cap Tela) \cup InChunks)
            \subseteq probe'.pend \cup InChunks' \cup probe'.classes \cup probe'.bad
      BY <1>k, <2>1
    <3> QED BY <1>k, <3>1, <3>2
  <2>2. \A s \in probe'.classes \cap Tela : <<s, sync'.height>> \in probe'.vars
    BY <1>k DEF Chunked
  <2> QED BY <2>1, <2>2 DEF Chunked
<1>1. CASE Moves
  <2>1. quitting => quitting'
    BY <1>1, MovesFrame
  <2>2. CASE probe' = probe /\ probe # NoProbe
    <3>1. sync.pc \in {"fill", "daemon"}
      BY <2>2, Running
    <3>2. sync'.height = sync.height
      <4>1. CASE Fill
        BY <1>p, <4>1 DEF Fill, Syncs
      <4>2. CASE FlushRegistry
        BY <1>p, <4>2, SyncSteps DEF FlushRegistry
      <4>3. CASE ScanCommit \/ BumpCache \/ Close
        BY <4>3 DEF ScanCommit, BumpCache, Close
      <4> QED BY <1>1, <3>1, <4>1, <4>2, <4>3
               DEF Moves, FastSync, Start, CheckCache, GetHeight, FetchRegistry, Launch
    <3> QED BY <2>1, <2>2, <3>2 DEF Chunked, InChunks
  <2>3. CASE probe' = probe /\ probe = NoProbe
    BY <1>n, <2>3
  <2>4. ASSUME NEW kind \in {"full", "delta"}, NEW todo \in SUBSET Candidates,
               probe' = Started(kind, todo)
        PROVE  Chunked'
    <3>1. Candidates \subseteq Registry
      BY <1>p DEF Candidates, Syncs, Range
    <3> QED BY <1>o, <2>4, <3>1, StartedIs
  <2> QED BY <1>1, <1>p, <2>2, <2>3, <2>4, LaunchedIs, MovesFrame
<1>2. CASE Probing
  <2>1. sync'.height = sync.height /\ quitting' = quitting
    BY <1>2, ProbingFrame
  <2>2. CASE SortSwap
    BY <2>1, <2>2 DEF SortSwap, Chunked, InChunks
  <2>3. CASE SortDone \/ Feed \/ Send
    <3>1. /\ probe'.pend = probe.pend /\ probe'.found = probe.found
          /\ probe'.varWork = probe.varWork /\ probe'.classes = probe.classes
          /\ probe'.vars = probe.vars /\ probe'.bad = probe.bad
          /\ probe'.rpcErrs = probe.rpcErrs
      BY <1>p, <2>3, PhaseSteps
    <3> QED BY <2>1, <3>1 DEF Chunked, InChunks
  <2>4. CASE ProbeCode
    <3>1. /\ probe'.classes = probe.classes /\ probe'.vars = probe.vars
          /\ probe.bad \subseteq probe'.bad /\ probe.rpcErrs <= probe'.rpcErrs
          /\ probe' \in Probes
          /\ ~quitting => ((probe'.found \ probe.found) \cap Tela) \cup probe.pend \cup InChunks
                            \subseteq probe'.pend \cup InChunks'
      BY <1>p, <2>4, CodeStep
    <3>2. probe'.rpcErrs = 0 => probe.rpcErrs = 0
      BY <1>p, <3>1 DEF Probes
    <3> QED BY <1>k, <2>1, <3>1, <3>2
  <2>5. CASE ProbeVars
    <3>1. sync.height \in 1 .. MaxTip
      BY <2>5, Running, NoProbeFields DEF ProbeVars
    <3>2. /\ probe' = [probe EXCEPT !.varWork = probe'.varWork, !.classes = probe'.classes,
                        !.vars = probe'.vars, !.bad = probe'.bad, !.rpcErrs = probe'.rpcErrs]
          /\ probe.classes \subseteq probe'.classes /\ probe.vars \subseteq probe'.vars
          /\ probe.bad \subseteq probe'.bad /\ probe.rpcErrs <= probe'.rpcErrs
          /\ probe' \in Probes
          /\ ~quitting /\ probe'.rpcErrs = 0 =>
               InChunks \subseteq InChunks' \cup probe'.classes \cup probe'.bad
          /\ \A s \in probe'.classes \ probe.classes : <<s, sync.height>> \in probe'.vars
      BY <1>p, <2>5, <3>1, VarsStep
    <3>3. probe'.pend = probe.pend /\ probe'.found = probe.found
      BY <1>p, <3>2 DEF Probes
    <3>4. probe'.rpcErrs = 0 => probe.rpcErrs = 0
      BY <1>p, <3>2 DEF Probes
    <3>5. ~quitting' /\ probe'.rpcErrs = 0 =>
               (((probe'.found \ probe.found) \cap Tela) \cup (probe.pend \cap Tela) \cup InChunks
                  \subseteq probe'.pend \cup InChunks' \cup probe'.classes \cup probe'.bad)
      BY <2>1, <3>2, <3>3
    <3> QED BY <1>k, <2>1, <3>2, <3>4, <3>5
  <2>6. CASE EndPhase1 /\ probe.found # {}
    <3>1. /\ probe' = [probe EXCEPT !.pc = "phase2", !.pend = {}, !.varWork = probe'.varWork,
                                    !.classes = @ \cup (probe.found \ Tela)]
          /\ ~quitting => (probe.pend \cap Tela) \cup InChunks \subseteq InChunks'
      BY <1>p, <2>6, Phase1Step
    <3>2. /\ probe'.classes = probe.classes \cup (probe.found \ Tela)
          /\ probe'.found = probe.found /\ probe'.vars = probe.vars
          /\ probe'.bad = probe.bad /\ probe'.rpcErrs = probe.rpcErrs
      BY <1>p, <3>1 DEF Probes
    <3> QED BY <1>k, <2>1, <3>1, <3>2
  <2>7. CASE FlushVars
    <3>1. \/ probe' = [probe EXCEPT !.pc = "save"]
          \/ probe' = [probe EXCEPT !.pc = "save", !.flushed = FALSE]
      BY <2>7 DEF FlushVars
    <3>2. /\ probe'.pend = probe.pend /\ probe'.found = probe.found
          /\ probe'.varWork = probe.varWork /\ probe'.classes = probe.classes
          /\ probe'.vars = probe.vars /\ probe'.bad = probe.bad
          /\ probe'.rpcErrs = probe.rpcErrs
      BY <1>p, <3>1 DEF Probes
    <3> QED BY <2>1, <3>2 DEF Chunked, InChunks
  <2> QED BY <1>2, <2>2, <2>3, <2>4, <2>5, <2>6, <2>7 DEF Probing
<1>3. CASE Finishing
  BY <1>3, <1>n, FinishingFrame
<1>4. CASE Restart
  BY <1>4, <1>n DEF Restart
<1>5. CASE UNCHANGED vars
  BY <1>5 DEF vars, Chunked, InChunks
<1> QED BY <1>1, <1>2, <1>3, <1>4, <1>5, NextSplits

-----------------------------------------------------------------------------
(* The caches and the seeds.                                               *)

\* A probe that has come to its end has nothing left in phase 1, and, if no
\* call failed, all it has found is in its class batch or did not decode.
LEMMA AtTheEnd ==
  ASSUME DiscoveryAssumption, Types, Phases, Degraded, Stages, Covered, Chunked, probe # NoProbe,
         probe.pc = "save" \/ (probe.pc = "phase1" /\ probe.work = <<>>)
  PROVE  /\ probe.found \subseteq Registered(tip)
         /\ probe.kind = "full" /\ ~quitting /\ probe.rpcErrs = 0 =>
              Known \cap Registered(sync.height) \subseteq probe.found \cup probe.bad
         /\ ~degraded => Known \cap Candidates \subseteq probe.found \cup db.classes \cup excused
         /\ probe.pc = "save" /\ ~quitting /\ probe.rpcErrs = 0 =>
              probe.found \subseteq probe.classes \cup probe.bad
<1>1. /\ Registered(sync.height) \subseteq Candidates /\ Candidates \subseteq Registered(tip)
      /\ probe.pc # "off"
  BY Running DEF Fetched
<1>2. probe.todo = {} \/ quitting \/ probe.complete
  BY DEF Stages
<1>3. probe.hand = {} /\ probe.work = <<>>
  BY DEF Stages
<1>4. Range(probe.work) = {}
  BY <1>3, RangeEmpty
<1>5. probe.todo = {} => InPhase1 = {}
  BY <1>3, <1>4 DEF InPhase1
<1>6. probe.found \subseteq Registered(tip)
  BY <1>1 DEF Covered
<1>7. ASSUME probe.kind = "full", ~quitting, probe.rpcErrs = 0
      PROVE  Known \cap Registered(sync.height) \subseteq probe.found \cup probe.bad
  <2>1. InPhase1 = {}
    BY <1>2, <1>5, <1>7 DEF Degraded
  <2> QED BY <1>1, <1>7, <2>1 DEF Covered
<1>8. ASSUME ~degraded
      PROVE  Known \cap Candidates \subseteq probe.found \cup db.classes \cup excused
  <2>1. InPhase1 = {}
    BY <1>2, <1>5, <1>8 DEF Degraded
  <2> QED BY <1>1, <1>8, <2>1 DEF Covered
<1>9. ASSUME probe.pc = "save", ~quitting, probe.rpcErrs = 0
      PROVE  probe.found \subseteq probe.classes \cup probe.bad
  <2>1. probe.varWork = <<>> /\ probe.pend = {} /\ probe.found \ Tela \subseteq probe.classes
    BY <1>9 DEF Stages
  <2>2. InChunks = {}
    BY <2>1, RangeEmpty DEF InChunks
  <2>3. probe.found \cap Tela \subseteq probe.classes \cup probe.bad
    BY <1>9, <2>1, <2>2 DEF Chunked
  <2> QED BY <2>1, <2>3
<1> QED BY <1>6, <1>7, <1>8, <1>9

\* The steps that write the cache; all others keep what it stands for.
CacheKept ==
  /\ cache' = cache /\ unflushed' = unflushed
  /\ excused \subseteq excused' /\ db.classes \subseteq db'.classes

LEMMA CacheWrites ==
  ASSUME DiscoveryAssumption, Types, Phases, [Next]_vars
  PROVE  \/ CacheKept \/ BumpCache \/ Restart
         \/ Launch /\ MatchingSeeds # {} /\ db' = SeedApplied(BestSeed)
            /\ cache' = Saved(BestSeed.height, BestSeed.scids) /\ unflushed' = {}
         \/ SaveCaches /\ probe.kind = "full" /\ LocalCacheClean(probe)
<1>1. CASE Moves
  <2>1. excused \subseteq excused' /\ db.classes \subseteq db'.classes
    BY <1>1, MovesFrame
  <2>2. CASE Start \/ CheckCache \/ GetHeight \/ FetchRegistry \/ Fill \/ FlushRegistry
    BY <2>1, <2>2 DEF CacheKept, Start, CheckCache, GetHeight, FetchRegistry, Fill, FlushRegistry
  <2>4. CASE ScanCommit \/ Close
    BY <2>1, <2>4 DEF CacheKept, ScanCommit, Close
  <2>3. CASE Launch
    BY <2>1, <2>3 DEF CacheKept, Launch
  <2> QED BY <1>1, <2>2, <2>3, <2>4 DEF Moves, FastSync
<1>2. CASE Probing
  BY <1>2, ProbingFrame DEF CacheKept
<1>3. CASE Finishing
  <2>1. db' = db
    BY <1>3, FinishingFrame
  <2>2. CASE SaveCaches
    BY <2>1, <2>2 DEF SaveCaches, CacheKept
  <2>3. CASE EndPhase1 /\ probe.found = {}
    BY <2>1, <2>3 DEF EndPhase1, CacheKept
  <2> QED BY <1>3, <2>2, <2>3 DEF Finishing
<1>4. CASE UNCHANGED vars
  BY <1>4 DEF vars, CacheKept
<1> QED BY <1>1, <1>2, <1>3, <1>4, NextSplits

\* The daemon's height only grows, and with it the registry.
LEMMA TipGrows ==
  ASSUME DiscoveryAssumption, Types, Phases, [Next]_vars
  PROVE  /\ tip' \in Nat /\ tip <= tip' /\ Registered(tip) \subseteq Registered(tip')
         /\ ~SaveCaches => seeds' = seeds
<1>t. tip \in Nat
  BY TypesAre
<1>k. ASSUME tip' \in Nat, tip <= tip', ~SaveCaches => seeds' = seeds
      PROVE  /\ tip' \in Nat /\ tip <= tip' /\ Registered(tip) \subseteq Registered(tip')
             /\ ~SaveCaches => seeds' = seeds
  BY <1>k, <1>t, RegisteredGrows
<1>1. CASE Moves
  BY <1>1, <1>k, MovesFrame
<1>2. CASE Probing
  BY <1>2, <1>k, <1>t, ProbingFrame
<1>3. CASE Finishing
  BY <1>3, <1>k, <1>t DEF Finishing, EndPhase1, SaveCaches
<1>4. CASE Restart
  BY <1>4, <1>k, <1>t DEF Restart
<1>5. CASE UNCHANGED vars
  BY <1>5, <1>k, <1>t DEF vars
<1> QED BY <1>1, <1>2, <1>3, <1>4, <1>5, NextSplits

LEMMA CachesStep ==
  ASSUME DiscoveryAssumption, Types, Phases, Degraded, Stages, Covered, Chunked,
         CacheComplete, Cached, SeedComplete, Seeded, [Next]_vars
  PROVE  CacheComplete' /\ Cached'
<1>h. Registered(tip) \subseteq Registered(tip')
  BY TipGrows
<1>t. Registered(tip)' = Registered(tip')
  BY DEF Registered
<1>s. ASSUME NEW height, NEW scids, cache' = Saved(height, scids),
             Known \cap Registered(height) \subseteq scids \cup excused',
             scids \subseteq Registered(tip'),
             scids \subseteq db'.classes \cup excused' \cup unflushed'
      PROVE  CacheComplete' /\ Cached'
  <2>1. cache'.height = height /\ cache'.scids = scids
    BY <1>s DEF Saved
  <2>2. Registered(cache.height)' = Registered(height)
    BY <2>1 DEF Registered
  <2> QED BY <1>s, <1>t, <2>1, <2>2 DEF CacheComplete, Cached
<1>1. CASE CacheKept
  <2>1. Registered(cache.height)' = Registered(cache.height)
    BY <1>1 DEF CacheKept, Registered
  <2>2. cache' # NoCache => cache'.scids \subseteq Registered(tip')
    BY <1>1, <1>h DEF CacheKept, Cached
  <2> QED BY <1>1, <1>t, <2>1, <2>2 DEF CacheKept, CacheComplete, Cached
<1>2. CASE BumpCache
  <2>1. /\ cache # NoCache /\ cache.height < tip' /\ cache' = Saved(tip', cache.scids)
        /\ excused' = excused \cup (Registered(tip') \ cache.scids)
        /\ db' = db /\ unflushed' = unflushed /\ GetInfo
    BY <1>2 DEF BumpCache
  <2>4. cache.scids \subseteq Registered(tip')
    BY <1>h, <2>1 DEF Cached
  <2>5. cache.scids \subseteq db'.classes \cup excused' \cup unflushed'
    BY <2>1 DEF Cached
  <2> QED BY <1>s, <2>1, <2>4, <2>5
<1>3. CASE Restart
  <2>1. CASE UNCHANGED <<db, cache, lost>>
    <3>1. Registered(cache.height)' = Registered(cache.height)
      BY <2>1 DEF Registered
    <3>2. cache' # NoCache => cache'.scids \subseteq Registered(tip')
      BY <1>h, <2>1 DEF Cached
    <3> QED BY <1>t, <2>1, <3>1, <3>2 DEF CacheComplete, Cached
  <2>2. CASE cache' = NoCache
    BY <2>2 DEF CacheComplete, Cached
  <2> QED BY <1>3, <2>1, <2>2 DEF Restart
<1>4. CASE Launch /\ MatchingSeeds # {} /\ db' = SeedApplied(BestSeed)
           /\ cache' = Saved(BestSeed.height, BestSeed.scids) /\ unflushed' = {}
  <2>1. BestSeed \in seeds
    BY <1>4, BestSeedMatches, TypesAre
  <2>2. BestSeed.registry = Registered(BestSeed.height)
    BY <2>1 DEF Seeded
  <2>3. /\ Known \cap Registered(BestSeed.height) \subseteq BestSeed.scids
        /\ BestSeed.scids \subseteq BestSeed.classes
    BY <2>1, <2>2 DEF SeedComplete
  <2>4. BestSeed.scids \subseteq Registered(tip')
    BY <1>h, <2>1 DEF Seeded
  <2>5. BestSeed.classes \subseteq db'.classes
    BY <1>4, TypesAre DEF SeedApplied, Stores
  <2> QED BY <1>4, <1>s, <2>3, <2>4, <2>5
<1>5. CASE SaveCaches /\ probe.kind = "full" /\ LocalCacheClean(probe)
  <2>1. /\ cache' = Saved(sync.height, probe.found) /\ excused' = excused \cup probe.bad
        /\ unflushed' = IF probe.flushed THEN {} ELSE probe.found \ db.classes
        /\ db' = db /\ probe.pc = "save"
    BY <1>5 DEF SaveCaches
  <2>2. ~quitting /\ probe.rpcErrs = 0 /\ probe # NoProbe
    BY <1>5, <2>1, NoProbeFields DEF LocalCacheClean
  <2>3. /\ probe.found \subseteq Registered(tip)
        /\ Known \cap Registered(sync.height) \subseteq probe.found \cup probe.bad
        /\ probe.found \subseteq probe.classes \cup probe.bad
    BY <1>5, <2>1, <2>2, AtTheEnd
  <2>4. probe.flushed => probe.classes \subseteq db.classes
    BY <2>1 DEF Stages
  <2>5. probe.found \subseteq db'.classes \cup excused' \cup unflushed'
    BY <2>1, <2>3, <2>4
  <2>6. Known \cap Registered(sync.height) \subseteq probe.found \cup excused'
    BY <2>1, <2>3
  <2> QED BY <1>h, <1>s, <2>1, <2>3, <2>5, <2>6
<1> QED BY <1>1, <1>2, <1>3, <1>4, <1>5, CacheWrites

LEMMA SeedsStep ==
  ASSUME DiscoveryAssumption, Types, Bounds, Phases, Degraded, Stages, Covered, Chunked,
         SeedComplete, Seeded, [Next]_vars
  PROVE  SeedComplete' /\ Seeded'
<1>1. CASE ~SaveCaches
  <2>1. /\ seeds' = seeds /\ tip' \in Nat /\ tip <= tip' /\ tip \in Nat
        /\ Registered(tip) \subseteq Registered(tip')
    BY <1>1, TipGrows, TypesAre
  <2>2. \A sd \in seeds : sd.height \in Nat
    BY TypesAre DEF Seeds
  <2>3. SeedComplete'
    BY <2>1 DEF SeedComplete
  <2>4. ASSUME NEW sd \in seeds
        PROVE  /\ sd.height <= tip' /\ sd.registry = Registered(sd.height)
               /\ sd.scids \subseteq Registered(tip')
               /\ \A x \in seeds : x.height = sd.height => x = sd
    BY <2>1, <2>2 DEF Seeded
  <2>5. Seeded'
    BY <2>1, <2>4 DEF Seeded, Registered
  <2> QED BY <2>3, <2>5
<1>2. CASE SaveCaches /\ ~ShouldSaveSeedCache(probe)
  BY <1>2 DEF SaveCaches, SeedComplete, Seeded, Registered
<1>3. CASE SaveCaches /\ ShouldSaveSeedCache(probe)
  <2> DEFINE seed == [height |-> sync.height, registry |-> RegistryAt(sync.height),
                      scids |-> probe.found, classes |-> probe.classes,
                      vars |-> probe.vars, codes |-> probe.codes]
  <2>1. /\ seeds' = SeedsWith(seed) /\ tip' = tip /\ probe.pc = "save"
        /\ ~quitting /\ probe.kind = "full" /\ probe.rpcErrs = 0 /\ probe.bad = {}
    BY <1>3 DEF SaveCaches, ShouldSaveSeedCache
  <2>2. probe # NoProbe
    BY <2>1, NoProbeFields
  <2>3. /\ probe.found \subseteq Registered(tip)
        /\ Known \cap Registered(sync.height) \subseteq probe.found
        /\ probe.found \subseteq probe.classes
    BY <2>1, <2>2, AtTheEnd
  <2>4. sync.height \in 1 .. sync.height
    BY <2>2, Running, Constants
  <2>5. \A s \in probe.found \cap Tela : \E h \in 1 .. sync.height : <<s, h>> \in probe.vars
    BY <2>3, <2>4 DEF Chunked
  <2>a. RegistryAt(sync.height) = Registered(sync.height)
    <3>1. Registered(sync.height) \subseteq Candidates /\ Candidates \subseteq Registry
      BY <2>2, Running DEF Fetched, Registered
    <3> QED BY <3>1 DEF RegistryAt, Registered
  <2>6. /\ seed.height = sync.height /\ seed.registry = Registered(sync.height)
        /\ seed.scids = probe.found /\ seed.classes = probe.classes /\ seed.vars = probe.vars
    BY <2>a
  <2> HIDE DEF seed
  <2>7. SeedComplete'
    <3>1. \A sd \in seeds \cup {seed} :
            /\ Known \cap sd.registry \subseteq sd.scids /\ sd.scids \subseteq sd.classes
            /\ \A s \in sd.scids \cap Tela : \E h \in 1 .. sd.height : <<s, h>> \in sd.vars
      BY <2>3, <2>5, <2>6 DEF SeedComplete
    <3> QED BY <2>1, <3>1, SeedsWithAre DEF SeedComplete
  <2>8. ASSUME NEW sd \in seeds'
        PROVE  /\ sd.height <= tip /\ sd.registry = Registered(sd.height)
               /\ sd.scids \subseteq Registered(tip)
    <3>1. sd \in seeds \cup {seed}
      BY <2>1, SeedsWithAre
    <3> QED BY <2>3, <2>6, <3>1 DEF Seeded, Bounds
  <2>9. ASSUME NEW sd \in seeds', NEW x \in seeds', x.height = sd.height PROVE x = sd
    <3>1. \A y \in seeds' : y = seed \/ (y \in seeds /\ <<y.height, y.registry>> # <<seed.height, seed.registry>>)
      BY <2>1 DEF SeedsWith
    <3>2. \A y \in seeds : y.registry = Registered(y.height)
      BY DEF Seeded
    <3>3. \A y \in seeds' : y.height = seed.height => y = seed
      BY <2>6, <3>1, <3>2
    <3>4. sd \in seeds /\ x \in seeds => x = sd
      BY <2>9 DEF Seeded
    <3> QED BY <2>9, <3>1, <3>3, <3>4
  <2> QED BY <2>1, <2>7, <2>8, <2>9 DEF Seeded, Registered
<1> QED BY <1>1, <1>2, <1>3

\* The prune leaves as many seeds as it keeps: of those left, all but the lowest
\* are above the lowest, and fewer than that many may be.
LEMMA PruneBounds ==
  ASSUME DiscoveryAssumption, NEW seed, IsFiniteSet(seeds),
         \A sd \in seeds \cup {seed} : sd.height \in Nat,
         \A sd, x \in SeedsWith(seed) : x.height = sd.height => x = sd
  PROVE  IsFiniteSet(SeedsWith(seed)) /\ Cardinality(SeedsWith(seed)) <= KeepSeeds
<1> DEFINE all == {sd \in seeds : <<sd.height, sd.registry>> # <<seed.height, seed.registry>>}
                    \cup {seed}
           above(sd) == {x \in all : x.height > sd.height}
           T == SeedsWith(seed)
           H == {sd.height : sd \in T}
<1>1. T = {sd \in all : Cardinality(above(sd)) < KeepSeeds}
  BY DEF SeedsWith
<1>2. IsFiniteSet(all)
  <2>1. IsFiniteSet({sd \in seeds : <<sd.height, sd.registry>> # <<seed.height, seed.registry>>})
    BY FS_Subset
  <2> QED BY <2>1, FS_AddElement
<1>3. T \subseteq all
  BY <1>1
<1>4. \A sd \in all : sd.height \in Nat
  OBVIOUS
<1>5. \A sd, x \in T : x.height = sd.height => x = sd
  OBVIOUS
<1> HIDE DEF all, T
<1>6. IsFiniteSet(T)
  BY <1>2, <1>3, FS_Subset
<1>7. CASE T = {}
  <2>1. Cardinality(T) = 0
    BY <1>7, FS_EmptySet
  <2>2. 0 <= KeepSeeds
    BY Constants
  <2> QED BY <1>6, <2>1, <2>2 DEF T
<1>8. CASE T # {}
  <2>1. H \in SUBSET Nat /\ H # {}
    BY <1>3, <1>4, <1>8
  <2>2. \E h \in H : \A y \in H : h <= y
    <3> HIDE DEF H
    <3> QED BY <2>1, Least
  <2>3. PICK m \in T : \A x \in T : m.height <= x.height
    BY <2>2
  <2>4. T \ {m} \subseteq above(m)
    <3> SUFFICES ASSUME NEW x \in T, x # m PROVE x \in above(m)
      OBVIOUS
    <3>1. x.height \in Nat /\ m.height \in Nat /\ x \in all
      BY <1>3, <1>4
    <3>2. m.height <= x.height /\ m.height # x.height
      BY <1>5, <2>3
    <3> QED BY <3>1, <3>2
  <2>5. IsFiniteSet(above(m))
    BY <1>2, FS_Subset
  <2>6. Cardinality(above(m)) < KeepSeeds
    BY <1>1, <2>3
  <2>7. Cardinality(T \ {m}) = Cardinality(T) - 1
    BY <1>6, <2>3, FS_RemoveElement
  <2> HIDE DEF above
  <2>8. Cardinality(T \ {m}) <= Cardinality(above(m))
    BY <2>4, <2>5, FS_Subset
  <2>9. Cardinality(T) \in Nat /\ Cardinality(above(m)) \in Nat
    BY <1>6, <2>5, FS_CardinalityType
  <2>10. Cardinality(T) <= KeepSeeds
    BY <2>6, <2>7, <2>8, <2>9, Constants
  <2> QED BY <1>6, <2>10 DEF T
<1> QED BY <1>7, <1>8

LEMMA SeedBounds ==
  ASSUME DiscoveryAssumption, Types, Bounds, Phases, Seeded', Types', [Next]_vars
  PROVE  IsFiniteSet(seeds') /\ Cardinality(seeds') <= KeepSeeds
<1>1. CASE seeds' = seeds
  BY <1>1 DEF Bounds
<1>2. CASE SaveCaches /\ seeds' # seeds
  <2> DEFINE seed == [height |-> sync.height, registry |-> RegistryAt(sync.height),
                      scids |-> probe.found, classes |-> probe.classes,
                      vars |-> probe.vars, codes |-> probe.codes]
  <2>1. seeds' = SeedsWith(seed)
    BY <1>2 DEF SaveCaches
  <2>2. seed.height \in Nat
    BY TypesAre DEF Syncs
  <2>3. \A sd \in seeds : sd.height \in Nat
    BY TypesAre DEF Seeds
  <2>4. \A sd, x \in seeds' : x.height = sd.height => x = sd
    BY DEF Seeded
  <2>5. IsFiniteSet(seeds)
    BY DEF Bounds
  <2> HIDE DEF seed
  <2> QED BY <2>1, <2>2, <2>3, <2>4, <2>5, PruneBounds
<1> QED BY <1>1, <1>2, TipGrows

-----------------------------------------------------------------------------
(* Bounds.                                                                 *)

LEMMA ChannelBounds ==
  ASSUME DiscoveryAssumption, Types, Bounds, Phases, [Next]_vars
  PROVE  Len(probe'.work) <= WorkCap /\ Len(probe'.varWork) <= WorkCap + 1
<1>p. probe \in Probes /\ sync \in Syncs /\ degraded \in BOOLEAN
  BY TypesAre
<1>c. WorkCap \in Nat \ {0} /\ Len(<<>>) = 0
  BY Constants
<1>b. Len(probe.work) <= WorkCap /\ Len(probe.varWork) <= WorkCap + 1
  BY DEF Bounds
<1>l. Len(probe.work) \in Nat /\ Len(probe.varWork) \in Nat
  BY <1>p DEF Probes
<1>e. ASSUME probe'.work = <<>>, probe'.varWork = <<>>
      PROVE  Len(probe'.work) <= WorkCap /\ Len(probe'.varWork) <= WorkCap + 1
  BY <1>c, <1>e
<1>1. CASE Moves
  <2>1. ASSUME NEW kind \in {"full", "delta"}, NEW todo \in SUBSET Candidates,
               probe' = Started(kind, todo)
        PROVE  probe'.work = <<>> /\ probe'.varWork = <<>>
    <3>1. Candidates \subseteq Registry
      BY <1>p DEF Candidates, Syncs, Range
    <3> QED BY <2>1, <3>1, StartedIs
  <2> QED BY <1>1, <1>b, <1>e, <1>p, <2>1, LaunchedIs, MovesFrame
<1>2. CASE Probing
  <2>1. CASE SortSwap
    BY <1>b, <2>1 DEF SortSwap
  <2>2. CASE SortDone \/ Feed
    <3>1. probe'.work = probe.work
      <4>1. \/ probe' = [probe EXCEPT !.pc = "feed"]
            \/ probe' = [probe EXCEPT !.pc = "phase1"]
            \/ \E s \in probe.todo : probe' = [probe EXCEPT !.hand = {s}, !.todo = @ \ {s}]
        BY <2>2 DEF SortDone, Feed
      <4> QED BY <1>p, <4>1 DEF Probes
    <3> QED BY <1>b, <1>p, <2>2, <3>1, PhaseSteps
  <2>3. CASE Send
    BY <1>b, <1>p, <2>3, PhaseSteps, SendStep
  <2>4. CASE ProbeCode
    <3>1. /\ Len(probe'.work) < Len(probe.work) /\ Len(probe'.varWork) <= WorkCap
          /\ Len(probe'.work) \in Nat /\ Len(probe'.varWork) \in Nat
      BY <1>p, <2>4, CodeStep DEF Probes
    <3> QED BY <1>b, <1>c, <1>l, <3>1
  <2>5. CASE ProbeVars
    <3>1. sync.height \in 1 .. MaxTip
      BY <2>5, Running, NoProbeFields DEF ProbeVars
    <3>2. Len(probe'.varWork) < Len(probe.varWork) /\ Len(probe'.varWork) \in Nat
      BY <1>p, <2>5, <3>1, VarsStep DEF Probes
    <3> QED BY <1>b, <1>c, <1>l, <2>5, <3>2, LateSteps
  <2>6. CASE EndPhase1 /\ probe.found # {}
    BY <1>b, <1>p, <2>6, LateSteps, Phase1Step
  <2>7. CASE FlushVars
    <3>1. \/ probe' = [probe EXCEPT !.pc = "save"]
          \/ probe' = [probe EXCEPT !.pc = "save", !.flushed = FALSE]
      BY <2>7 DEF FlushVars
    <3>2. probe'.work = probe.work /\ probe'.varWork = probe.varWork
      BY <1>p, <3>1 DEF Probes
    <3> QED BY <1>b, <3>2
  <2> QED BY <1>2, <2>1, <2>2, <2>3, <2>4, <2>5, <2>6, <2>7 DEF Probing
<1>3. CASE Finishing
  BY <1>3, <1>e, FinishingFrame, NoProbeFields
<1>4. CASE Restart
  BY <1>4, <1>e, NoProbeFields DEF Restart
<1>5. CASE UNCHANGED vars
  BY <1>5, <1>b DEF vars
<1> QED BY <1>1, <1>2, <1>3, <1>4, <1>5, NextSplits

LEMMA HeightBounds ==
  ASSUME DiscoveryAssumption, Types, Bounds, Phases, Seeded, [Next]_vars
  PROVE  /\ db'.last <= tip' /\ indexed' <= tip' /\ sync'.height <= tip'
         /\ cache' # NoCache => cache'.height <= tip'
<1>p. /\ probe \in Probes /\ sync \in Syncs /\ db \in Stores
      /\ cache \in Caches \cup {NoCache} /\ tip \in Nat \ {0}
  BY TypesAre
<1>n. /\ db.last \in Nat /\ indexed \in Nat /\ sync.height \in Nat
      /\ cache # NoCache => cache.height \in Nat
  BY <1>p, TypesAre, Constants DEF Stores, Syncs, Caches
<1>b. /\ db.last <= tip /\ indexed <= tip /\ sync.height <= tip
      /\ cache # NoCache => cache.height <= tip
  BY DEF Bounds
<1>g. GetInfo => tip' \in Nat \ {0} /\ tip <= tip'
  BY <1>p, Constants, GetInfoGrows
<1>z. 0 <= tip
  BY <1>p
\* A step that takes each of the heights from where it was, or from the tip.
<1>k. ASSUME tip' \in Nat, tip <= tip',
             db'.last \in {db.last, sync.height, tip', 0},
             indexed' \in {indexed, db.last, sync.height, tip', 0},
             sync'.height \in {sync.height, tip', 0},
             \/ cache' = cache \/ cache' = NoCache
             \/ cache'.height \in {sync.height, tip'}
      PROVE  /\ db'.last <= tip' /\ indexed' <= tip' /\ sync'.height <= tip'
             /\ cache' # NoCache => cache'.height <= tip'
  <2>1. db'.last <= tip' /\ indexed' <= tip' /\ sync'.height <= tip'
    BY <1>k, <1>n, <1>b, <1>p
  <2>2. cache' # NoCache => cache'.height <= tip'
    BY <1>k, <1>n, <1>b, <1>p
  <2> QED BY <2>1, <2>2
<1>1. CASE Start
  BY <1>1, <1>k, <1>p DEF Start, NoSync
<1>2. CASE CheckCache
  <2>1. sync'.height \in {sync.height, tip'}
    BY <1>2, <1>p, SyncSteps DEF CheckCache, Syncs
  <2> QED BY <1>2, <1>g, <1>k, <1>p, <2>1 DEF CheckCache
<1>13. CASE GetHeight
  <2>1. sync'.height \in {sync.height, tip'}
    BY <1>13, <1>p, SyncSteps DEF GetHeight, Syncs
  <2> QED BY <1>13, <1>g, <1>k, <1>p, <2>1 DEF GetHeight
<1>3. CASE FetchRegistry
  <2>1. db'.last \in {db.last, sync.height}
    BY <1>3, <1>p DEF FetchRegistry, Stores
  <2>2. sync'.height = sync.height
    BY <1>3, <1>p, SyncSteps DEF FetchRegistry, Syncs
  <2>3. cache' = cache /\ indexed' = indexed /\ (GetInfo \/ tip' = tip)
    BY <1>3, Zenon DEF FetchRegistry
  <2>4. tip' \in Nat /\ tip <= tip'
    BY <1>g, <1>p, <2>3
  <2> QED BY <1>k, <2>1, <2>2, <2>3, <2>4
<1>4. CASE Launch
  <2>1. sync'.height = sync.height /\ db'.last = db.last
    BY <1>4, <1>p, SyncSteps DEF Launch, SeedApplied, Stores
  <2>2. cache' # NoCache => cache'.height <= tip
    <3>1. ASSUME MatchingSeeds # {} PROVE BestSeed.height <= tip
      BY <3>1, BestSeedMatches, TypesAre DEF Seeded
    <3> QED BY <1>4, <1>b, <3>1 DEF Launch, Saved
  <2> QED BY <1>4, <1>b, <2>1, <2>2 DEF Launch
<1>5. CASE Fill
  <2>1. sync'.height = sync.height
    BY <1>5, <1>p DEF Fill, Syncs
  <2> QED BY <1>5, <1>k, <1>p, <2>1 DEF Fill
<1>6. CASE FlushRegistry
  <2>1. sync'.height = sync.height /\ db'.last \in {db.last, sync.height}
    BY <1>6, <1>p, SyncSteps DEF FlushRegistry, Stores
  <2> QED BY <1>6, <1>k, <1>p, <2>1 DEF FlushRegistry
<1>7. CASE ScanCommit
  BY <1>7, <1>g, <1>k, <1>p DEF ScanCommit, Stores
<1>8. CASE BumpCache
  BY <1>8, <1>g, <1>k, <1>p DEF BumpCache, Saved
<1>9. CASE Close \/ UNCHANGED vars
  BY <1>9, <1>k, <1>p DEF Close, vars
<1>10. CASE Probing
  BY <1>10, <1>k, <1>p, ProbingFrame
<1>11. CASE Finishing
  <2>1. cache' = cache \/ cache'.height = sync.height
    BY <1>11 DEF Finishing, SaveCaches, EndPhase1, Saved
  <2> QED BY <1>11, <1>k, <1>p, <2>1, FinishingFrame
<1>12. CASE Restart
  <2>1. db'.last \in {db.last, 0} /\ sync'.height = 0
    BY <1>12 DEF Restart, EmptyStore, NoSync
  <2> QED BY <1>12, <1>k, <1>p, <2>1 DEF Restart
<1> QED BY <1>1, <1>2, <1>3, <1>4, <1>5, <1>6, <1>7, <1>8, <1>9, <1>10, <1>11, <1>12,
           <1>13, NextSplits DEF Moves, FastSync

LEMMA BoundsStep ==
  ASSUME DiscoveryAssumption, Types, Bounds, Phases, Seeded, Types', Seeded', [Next]_vars
  PROVE  Bounds'
BY ChannelBounds, HeightBounds, SeedBounds DEF Bounds

-----------------------------------------------------------------------------
(* What settled and stored progress mean.                                  *)

LEMMA SettledStep ==
  ASSUME DiscoveryAssumption, Types, Bounds, Phases, Degraded, Stages, Covered, Chunked,
         CacheComplete, Cached, SeedComplete, Seeded, SettledLine, [Next]_vars
  PROVE  SettledLine'
<1>p. sync \in Syncs /\ probe \in Probes /\ db \in Stores
  BY TypesAre
<1>o. sync.pc \notin {"fill", "daemon"} => ~settled
  BY DEF Phases
<1>n. ASSUME ~settled' \/ degraded' PROVE SettledLine'
  BY <1>n DEF SettledLine
\* A step that keeps what the line is about.
<1>k. ASSUME settled' = settled, degraded => degraded', sync'.cands = sync.cands,
             cache' = cache, db.classes \subseteq db'.classes, excused \subseteq excused'
      PROVE  SettledLine'
  <2>1. Candidates' = Candidates /\ Registered(cache.height)' = Registered(cache.height)
    BY <1>k DEF Candidates, Registered
  <2> QED BY <1>k, <2>1 DEF SettledLine
<1>1. CASE Start
  BY <1>1, <1>n, <1>o DEF Start
<1>2. CASE CheckCache
  <2>1. sync.cands = <<>> /\ ~settled
    BY <1>2, <1>o DEF CheckCache, Phases
  <2>2. CASE /\ CacheUsable /\ Step("daemon") /\ Trusted
    <3>1. cache # NoCache /\ cache.version = "current" /\ CachedScvarsLookReadable(cache)
      BY <2>2 DEF CacheUsable, CurrentCache
    <3>2. sync'.cands = <<>> /\ cache' = cache /\ db' = db
      BY <1>2, <1>p, <2>1, <2>2, SyncSteps DEF CheckCache
    <3>3. excused' = excused \cup unflushed
      BY <2>2, <3>1 DEF Trusted
    <3>4. Known \cap Registered(cache.height) \subseteq cache.scids \cup excused'
      BY <3>1, <3>3 DEF CacheComplete
    <3>5. cache.scids \subseteq db'.classes \cup excused'
      BY <3>1, <3>2, <3>3 DEF Cached
    <3>6. Registered(cache.height)' = Registered(cache.height)
      BY <3>2 DEF Registered
    <3> QED BY <3>2, <3>4, <3>5, <3>6 DEF SettledLine
  <2> QED BY <1>2, <1>n, <2>1, <2>2 DEF CheckCache
<1>12. CASE GetHeight
  <2>1. ~settled /\ settled' = settled
    BY <1>12, <1>o DEF GetHeight
  <2> QED BY <1>n, <2>1
<1>3. CASE FetchRegistry
  <2>1. sync.cands = <<>> /\ ~settled
    BY <1>3, <1>o DEF FetchRegistry, Phases
  <2>2. CASE GetInfo /\ Registered(tip') = {} /\ Step("daemon")
    <3>1. sync'.cands = <<>> /\ cache' = cache
      BY <1>3, <1>p, <2>1, <2>2, SyncSteps DEF FetchRegistry
    <3>2. ASSUME cache # NoCache PROVE Registered(cache.height) = {} /\ cache.scids = {}
      <4>5. cache.height \in Nat /\ tip \in Nat
        BY <3>2, TypesAre DEF Caches
      <4>1. cache.height \in Nat /\ cache.height <= tip /\ tip \in Nat
        BY <3>2, <4>5 DEF Bounds
      <4>2. tip' \in Nat /\ tip <= tip' /\ Registered(tip) \subseteq Registered(tip')
        BY TipGrows
      <4>4. cache.height \in Int /\ tip' \in Int /\ cache.height <= tip'
        BY <4>1, <4>2
      <4>3. Registered(cache.height) \subseteq Registered(tip')
        BY <4>4, RegisteredGrows
      <4> QED BY <2>2, <3>2, <4>2, <4>3 DEF Cached
    <3>3. Registered(cache.height)' = Registered(cache.height)
      BY <3>1 DEF Registered
    <3> QED BY <3>1, <3>2, <3>3 DEF SettledLine
  <2>3. settled' = settled \/ (GetInfo /\ Registered(tip') = {} /\ Step("daemon"))
    BY <1>3, Zenon DEF FetchRegistry
  <2> QED BY <1>n, <2>1, <2>2, <2>3
<1>4. CASE Launch
  <2>1. sync.cands # <<>> /\ ~settled
    BY <1>4, <1>o DEF Launch, Phases
  <2>2. sync'.cands = sync.cands
    BY <1>4, <1>p, SyncSteps DEF Launch
  <2>3. Candidates' = Candidates
    BY <2>2 DEF Candidates
  <2>4. Known \cap Candidates \subseteq db'.classes \cup excused' \/ ~settled'
    BY <1>4, <2>1, LaunchCovers
  <2> QED BY <2>1, <2>2, <2>3, <2>4 DEF SettledLine
<1>5. CASE Fill \/ FlushRegistry \/ ScanCommit
  <2>1. sync'.cands = sync.cands
    <3>1. CASE Fill
      BY <1>p, <3>1 DEF Fill, Syncs
    <3>2. CASE FlushRegistry
      BY <1>p, <3>2, SyncSteps DEF FlushRegistry
    <3>3. CASE ScanCommit
      BY <3>3 DEF ScanCommit
    <3> QED BY <1>5, <3>1, <3>2, <3>3
  <2>2. settled' = settled /\ cache' = cache
    BY <1>5 DEF Fill, FlushRegistry, ScanCommit
  <2>3. /\ db.classes \subseteq db'.classes /\ excused \subseteq excused'
        /\ degraded => degraded'
    BY <1>5, MovesFrame DEF Moves, FastSync
  <2> QED BY <1>k, <2>1, <2>2, <2>3
<1>6. CASE BumpCache
  <2>1. /\ settled' = settled /\ degraded' = degraded /\ sync' = sync /\ db' = db
        /\ cache' = Saved(tip', cache.scids) /\ cache # NoCache
        /\ excused' = excused \cup (Registered(tip') \ cache.scids)
    BY <1>6 DEF BumpCache
  <2>2. cache'.height = tip' /\ cache'.scids = cache.scids
    BY <2>1 DEF Saved
  <2>3. Candidates' = Candidates /\ Registered(cache.height)' = Registered(tip')
    BY <2>1, <2>2 DEF Candidates, Registered
  <2> QED BY <2>1, <2>2, <2>3 DEF SettledLine
<1>7. CASE Close
  BY <1>7, <1>n DEF Close
<1>8. CASE Probing
  <2>1. probe # NoProbe /\ settled' = settled
    BY <1>8, ProbingFrame, NoProbeFields
  <2> QED BY <1>n, <2>1, Running
<1>9. CASE Finishing
  <2>1. /\ probe # NoProbe /\ sync' = sync /\ db' = db /\ degraded' = degraded
    BY <1>9, FinishingFrame
  <2>2. sync.cands # <<>> /\ Candidates' = Candidates
    BY <2>1, Running DEF Candidates
  <2>3. excused \subseteq excused'
    BY <1>9 DEF Finishing, SaveCaches, EndPhase1
  <2>4. ASSUME ~degraded PROVE Known \cap Candidates \subseteq db.classes \cup excused
    <3>1. probe.pc = "save" \/ (probe.pc = "phase1" /\ probe.work = <<>> /\ probe.found = {})
      BY <1>9 DEF Finishing, SaveCaches, EndPhase1
    <3>2. Known \cap Candidates \subseteq probe.found \cup db.classes \cup excused
      BY <2>1, <2>4, <3>1, AtTheEnd
    <3>3. ASSUME probe.pc = "save" PROVE probe.found \subseteq db.classes
      <4>1. ~quitting /\ probe.bad = {} /\ probe.flushed /\ ~(probe.rpcErrs > 0)
        BY <2>4 DEF Degraded
      <4>2. probe.rpcErrs = 0
        BY <1>p, <4>1 DEF Probes
      <4>3. probe.found \subseteq probe.classes
        BY <2>1, <3>3, <4>1, <4>2, AtTheEnd
      <4> QED BY <3>3, <4>1, <4>3 DEF Stages
    <3> QED BY <3>1, <3>2, <3>3
  <2> QED BY <2>1, <2>2, <2>3, <2>4 DEF SettledLine
<1>10. CASE Restart
  BY <1>10, <1>n DEF Restart
<1>11. CASE UNCHANGED vars
  BY <1>11, <1>k DEF vars
<1> QED BY <1>1, <1>2, <1>3, <1>4, <1>5, <1>6, <1>7, <1>8, <1>9, <1>10, <1>11,
           <1>12, NextSplits DEF Moves, FastSync

\* No contract is registered at height 0, where the scan of an empty store begins.
LEMMA NoneAtZero == ASSUME DiscoveryAssumption PROVE Registered(0) = {}
BY Constants DEF Registered

\* Where a step leaves the scan's start, and what is known to be missing there.
LEMMA JumpedStep ==
  ASSUME DiscoveryAssumption, Types, Bounds, Phases, Imported, [Next]_vars
  PROVE  Registered(origin') \subseteq db'.owners \cup skipped'
<1>p. /\ sync \in Syncs /\ probe \in Probes /\ db \in Stores /\ tip \in Nat \ {0}
      /\ skipped \subseteq Registry
  BY TypesAre DEF Types
<1>q. /\ sync.cands \in Seq(Registry) /\ Len(sync.cands) \in Nat /\ sync.pos \in Nat \ {0}
      /\ DOMAIN sync.cands = 1 .. Len(sync.cands) /\ sync.height \in Nat
  BY <1>p DEF Syncs
<1>r. Registered(origin) \subseteq db.owners \cup skipped
  BY DEF Imported
<1>k. ASSUME origin' = origin, skipped \subseteq skipped', db.owners \subseteq db'.owners
      PROVE  Registered(origin') \subseteq db'.owners \cup skipped'
  BY <1>k, <1>r
<1>z. ASSUME origin' = 0
      PROVE  Registered(origin') \subseteq db'.owners \cup skipped'
  BY <1>z, NoneAtZero
<1>1. CASE Start
  BY <1>1, <1>k, <1>z DEF Start
<1>2. CASE CheckCache
  BY <1>2, <1>k DEF CheckCache
<1>3. CASE FetchRegistry
  <2>1. db'.owners = db.owners /\ skipped' = skipped
    BY <1>3, <1>p DEF FetchRegistry, Stores
  <2>2. CASE origin' = origin
    BY <1>k, <2>1, <2>2
  <2>3. CASE origin' = sync.height /\ GetInfo /\ Registered(tip') = {}
    <3>1. tip' \in Nat /\ sync.height <= tip'
      BY <1>p, <1>q, <2>3, Constants, GetInfoGrows DEF Bounds
    <3>2. Registered(sync.height) \subseteq Registered(tip')
      BY <1>q, <3>1, RegisteredGrows
    <3> QED BY <2>3, <3>2
  <2> QED BY <1>3, <2>2, <2>3 DEF FetchRegistry
<1>4. CASE FlushRegistry
  <2>1. CASE origin' = origin /\ db' = db
    BY <1>4, <1>k, <2>1 DEF FlushRegistry
  <2>2. CASE /\ origin' = sync.height
             /\ db' = [db EXCEPT !.owners = @ \cup sync.batch, !.last = sync.height]
    <3>1. db'.owners = db.owners \cup sync.batch /\ skipped' = skipped
      BY <1>4, <1>p, <2>2 DEF FlushRegistry, Stores
    <3>2. sync.pc = "fill" /\ sync.pos > Len(sync.cands)
      BY <1>4 DEF FlushRegistry, Filled
    <3>3. ASSUME NEW i \in 1 .. Len(sync.cands)
          PROVE  sync.cands[i] \in sync.batch \cup skipped
      <4>1. i \in 1 .. sync.pos - 1
        BY <1>q, <3>2
      <4> QED BY <3>2, <4>1 DEF Imported
    <3>4. Candidates \subseteq sync.batch \cup skipped
      BY <1>q, <3>3 DEF Candidates, Range
    <3>5. Registered(sync.height) \subseteq Candidates
      BY <3>2 DEF Phases, Fetched
    <3> QED BY <2>2, <3>1, <3>4, <3>5
  <2> QED BY <1>4, <2>1, <2>2 DEF FlushRegistry
<1>5. CASE GetHeight \/ Launch \/ Fill \/ ScanCommit \/ BumpCache \/ Close
  <2>1. db'.owners = db.owners
    <3>1. CASE Launch
      BY <3>1, <1>p DEF Launch, SeedApplied, Stores
    <3> QED BY <1>5, <1>p, <3>1 DEF GetHeight, Fill, ScanCommit, BumpCache, Close, Stores
  <2>2. origin' = origin /\ skipped' = skipped
    BY <1>5 DEF GetHeight, Launch, Fill, ScanCommit, BumpCache, Close
  <2> QED BY <1>k, <2>1, <2>2
<1>6. CASE SortSwap
  <2>1. origin' = origin /\ skipped \subseteq skipped' /\ db' = db
    BY <1>6 DEF SortSwap, ProbeOnly
  <2> QED BY <1>k, <2>1
<1>7. CASE Probing /\ ~SortSwap
  <2>1. origin' = origin /\ skipped' = skipped
    BY <1>7 DEF Probing, SortDone, Feed, Send, ProbeCode, ProbeVars, FlushVars, EndPhase1
  <2> QED BY <1>7, <1>k, <2>1, ProbingFrame
<1>8. CASE Finishing
  <2>1. origin' = origin /\ skipped' = skipped
    BY <1>8 DEF Finishing, SaveCaches, EndPhase1
  <2> QED BY <1>8, <1>k, <2>1, FinishingFrame
<1>9. CASE Restart
  BY <1>9, <1>k, <1>z DEF Restart
<1>10. CASE UNCHANGED vars
  BY <1>10, <1>k DEF vars
<1> QED BY <1>1, <1>2, <1>3, <1>4, <1>5, <1>6, <1>7, <1>8, <1>9, <1>10,
           NextSplits DEF Moves, FastSync

LEMMA ImportedStep ==
  ASSUME DiscoveryAssumption, Types, Bounds, Phases, Imported, [Next]_vars
  PROVE  Imported'
<1>p. sync \in Syncs /\ probe \in Probes
  BY TypesAre
<1>q. /\ sync.cands \in Seq(Registry) /\ Len(sync.cands) \in Nat /\ sync.pos \in Nat \ {0}
      /\ DOMAIN sync.cands = 1 .. Len(sync.cands)
  BY <1>p DEF Syncs
<1>j. Registered(origin)' \subseteq db'.owners \cup skipped'
  <2>1. Registered(origin') \subseteq db'.owners \cup skipped'
    BY JumpedStep
  <2> QED BY <2>1 DEF Registered
<1>k. ASSUME sync' = sync, skipped \subseteq skipped' PROVE Imported'
  BY <1>j, <1>k DEF Imported
\* A step to where nothing is filled.
<1>n. ASSUME sync'.pc # "fill", sync'.pc # "daemon" => sync'.pos = 1 PROVE Imported'
  BY <1>j, <1>n DEF Imported
<1>1. CASE Start
  <2>1. sync'.pc \in {"daemon", "cache"} /\ sync'.pos = 1
    BY <1>1 DEF Start, NoSync
  <2> QED BY <1>n, <2>1
<1>2. CASE CheckCache
  <2>1. sync'.pc \in {"daemon", "info", "registry"} /\ sync'.pos = sync.pos
    BY <1>2, <1>p, SyncSteps DEF CheckCache, Syncs
  <2>2. sync.pos = 1
    BY <1>2 DEF CheckCache, Imported
  <2> QED BY <1>n, <2>1, <2>2
<1>3. CASE GetHeight
  <2>1. sync'.pc \in {"daemon", "registry"} /\ sync'.pos = sync.pos
    BY <1>3, <1>p, SyncSteps DEF GetHeight, Syncs
  <2>2. sync.pos = 1
    BY <1>3 DEF GetHeight, Imported
  <2> QED BY <1>n, <2>1, <2>2
<1>4. CASE FetchRegistry
  <2>1. sync'.pc \in {"daemon", "launch"} /\ sync'.pos = sync.pos
    BY <1>4, <1>p, SyncSteps DEF FetchRegistry, Syncs
  <2>2. sync.pos = 1
    BY <1>4 DEF FetchRegistry, Imported
  <2> QED BY <1>n, <2>1, <2>2
<1>5. CASE Launch
  <2>1. sync'.pc = "fill" /\ sync'.pos = 1 /\ sync'.cands = sync.cands
    BY <1>5, <1>p, SyncSteps DEF Launch, Imported
  <2> QED BY <1>j, <1>q, <2>1 DEF Imported
<1>6. CASE Fill
  <2> DEFINE s == sync.cands[sync.pos]
  <2>1. /\ sync.pc = "fill" /\ sync.pos <= Len(sync.cands) /\ skipped' = skipped
        /\ sync' = [sync EXCEPT !.batch = @ \cup {s}, !.pos = @ + 1]
    BY <1>6 DEF Fill
  <2> HIDE DEF s
  <2>2. /\ sync'.pc = "fill" /\ sync'.cands = sync.cands /\ sync'.pos = sync.pos + 1
        /\ sync'.batch = sync.batch \cup {s}
    BY <1>p, <2>1 DEF Syncs
  <2>3. sync'.pos <= Len(sync'.cands) + 1
    BY <1>q, <2>1, <2>2
  <2>4. ASSUME NEW i \in 1 .. sync'.pos - 1
        PROVE  sync'.cands[i] \in sync'.batch \cup skipped'
    <3>1. i \in 1 .. sync.pos - 1 \/ i = sync.pos
      BY <1>q, <2>2
    <3>2. i \in 1 .. sync.pos - 1 => sync.cands[i] \in sync.batch \cup skipped
      BY <2>1 DEF Imported
    <3> QED BY <2>1, <2>2, <3>1, <3>2 DEF s
  <2> QED BY <1>j, <2>2, <2>3, <2>4 DEF Imported
<1>7. CASE FlushRegistry
  <2>1. sync'.pc = "daemon"
    BY <1>7, <1>p, SyncSteps DEF FlushRegistry
  <2> QED BY <1>n, <2>1
<1>8. CASE ScanCommit \/ BumpCache \/ Close
  BY <1>8, <1>k DEF ScanCommit, BumpCache, Close
<1>9. CASE SortSwap
  <2>1. PICK i \in 1 .. Len(sync.cands) - 1 :
          /\ sync' = [sync EXCEPT !.cands = [@ EXCEPT ![i] = sync.cands[i + 1],
                                                     ![i + 1] = sync.cands[i]]]
          /\ skipped' = skipped \cup (IF sync.pc = "fill" /\ sync.pos = i + 1
                                      THEN {sync.cands[i + 1]} ELSE {})
    BY <1>9 DEF SortSwap
  <2> DEFINE q == sync.cands
             r == [q EXCEPT ![i] = q[i + 1], ![i + 1] = q[i]]
  <2>2. q \in Seq(Registry) /\ i \in 1 .. Len(q) - 1
    BY <1>q
  <2>3. sync' = [sync EXCEPT !.cands = r]
    BY <2>1
  <2>8. skipped \subseteq skipped' /\ (sync.pc = "fill" /\ sync.pos = i + 1 => q[i + 1] \in skipped')
    BY <2>1
  <2> HIDE DEF q
  <2>4. /\ Len(r) = Len(q) /\ \A j \in 1 .. Len(q) : j # i /\ j # i + 1 => r[j] = q[j]
        /\ r[i] = q[i + 1] /\ r[i + 1] = q[i]
    BY <2>2, RangeSwap
  <2> HIDE DEF r
  <2>5. /\ sync'.pc = sync.pc /\ sync'.pos = sync.pos /\ sync'.batch = sync.batch
        /\ sync'.cands = r
    BY <1>p, <2>3 DEF Syncs
  <2>6. ASSUME sync.pc = "fill"
        PROVE  /\ sync'.pos <= Len(sync'.cands) + 1
               /\ \A j \in 1 .. sync'.pos - 1 : sync'.cands[j] \in sync'.batch \cup skipped'
    <3>2. /\ sync.pos <= Len(q) + 1
          /\ \A j \in 1 .. sync.pos - 1 : q[j] \in sync.batch \cup skipped'
      BY <2>6, <2>8 DEF Imported, q
    <3>3. ASSUME NEW j \in 1 .. sync.pos - 1 PROVE r[j] \in sync.batch \cup skipped'
      <4>1. j \in 1 .. Len(q) /\ i \in Nat
        BY <1>q, <2>2, <3>2 DEF q
      <4>2. CASE j # i /\ j # i + 1
        BY <2>4, <3>2, <4>1, <4>2
      <4>3. CASE j = i
        <5>1. i + 1 \in 1 .. sync.pos - 1 \/ sync.pos = i + 1
          BY <1>q, <4>1, <4>3
        <5> QED BY <2>4, <2>6, <2>8, <3>2, <4>3, <5>1
      <4>4. CASE j = i + 1
        <5>1. i \in 1 .. sync.pos - 1
          BY <1>q, <2>2, <4>1, <4>4
        <5> QED BY <2>4, <3>2, <4>4, <5>1
      <4> QED BY <4>2, <4>3, <4>4
    <3> QED BY <2>4, <2>5, <3>2, <3>3
  <2>7. sync.pc \notin {"fill", "daemon"} => sync.pos = 1
    BY DEF Imported
  <2> QED BY <1>j, <2>5, <2>6, <2>7 DEF Imported
<1>10. CASE Probing /\ ~SortSwap
  <2>1. sync' = sync /\ skipped' = skipped
    BY <1>10 DEF Probing, SortDone, Feed, Send, ProbeCode, ProbeVars, FlushVars, EndPhase1
  <2> QED BY <1>k, <2>1
<1>11. CASE Finishing
  <2>1. skipped' = skipped
    BY <1>11 DEF Finishing, SaveCaches, EndPhase1
  <2> QED BY <1>11, <1>k, <2>1, FinishingFrame
<1>12. CASE Restart
  <2>1. sync'.pc = "off" /\ sync'.pos = 1
    BY <1>12 DEF Restart, NoSync
  <2> QED BY <1>n, <2>1
<1>13. CASE UNCHANGED vars
  BY <1>13, <1>k DEF vars
<1> QED BY <1>1, <1>2, <1>3, <1>4, <1>5, <1>6, <1>7, <1>8, <1>9, <1>10, <1>11, <1>12,
           <1>13, NextSplits DEF Moves, FastSync

-----------------------------------------------------------------------------
(* The invariant.                                                          *)

LEMMA InvInit == ASSUME DiscoveryAssumption, Init PROVE DiscoveryInv
<1> USE Constants
<1>1. Types
  BY TypesInit
<1>2. /\ NoSync.pc = "off" /\ NoSync.cands = <<>> /\ NoSync.height = 0 /\ NoSync.pos = 1
      /\ EmptyStore.last = 0 /\ EmptyStore.classes = {}
  BY DEF NoSync, EmptyStore
<1>3. /\ sync = NoSync /\ probe = NoProbe /\ db = EmptyStore /\ seeds = {} /\ tip = 1
      /\ indexed = 0 /\ ~settled /\ ~quitting /\ ~degraded
  BY DEF Init
<1>4. Bounds
  <2>1. cache # NoCache => cache.height <= tip
    BY <1>3 DEF Init
  <2>2. IsFiniteSet(seeds) /\ Cardinality(seeds) = 0
    BY <1>3, FS_EmptySet
  <2>3. Len(probe.work) = 0 /\ Len(probe.varWork) = 0
    BY <1>3, NoProbeFields
  <2> QED BY <1>2, <1>3, <2>1, <2>2, <2>3 DEF Bounds
<1>5. Phases /\ Stages /\ Covered
  BY <1>2, <1>3, NoProbeFields DEF Phases, Stages, Covered
<1>6. Degraded
  BY <1>3, NoProbeFields DEF Degraded
<1>7. Chunked
  BY <1>3, NoProbeFields DEF Chunked
<1>8. CacheComplete /\ Cached
  BY DEF Init, CacheComplete, Cached
<1>9. SeedComplete /\ Seeded /\ SettledLine
  BY <1>3 DEF SeedComplete, Seeded, SettledLine
<1>10. Imported
  <2>1. origin = 0
    BY DEF Init
  <2> QED BY <1>2, <1>3, <2>1, NoneAtZero DEF Imported
<1> QED BY <1>1, <1>4, <1>5, <1>6, <1>7, <1>8, <1>9, <1>10 DEF DiscoveryInv

LEMMA InvStep == ASSUME DiscoveryAssumption, DiscoveryInv, [Next]_vars PROVE DiscoveryInv'
<1>1. /\ Types /\ Bounds /\ Phases /\ Degraded /\ Stages /\ Covered /\ Chunked
      /\ CacheComplete /\ Cached /\ SeedComplete /\ Seeded /\ SettledLine /\ Imported
  BY DEF DiscoveryInv
<1>2. Types' /\ SeedComplete' /\ Seeded'
  BY <1>1, TypesStep, SeedsStep
<1>3. Bounds' /\ Phases' /\ Degraded' /\ Stages'
  BY <1>1, <1>2, BoundsStep, PhasesStep, DegradedStep, StagesStep
<1>4. Covered' /\ Chunked' /\ CacheComplete' /\ Cached'
  BY <1>1, CoveredStep, ChunkedStep, CachesStep
<1>5. SettledLine' /\ Imported'
  BY <1>1, SettledStep, ImportedStep
<1> QED BY <1>2, <1>3, <1>4, <1>5 DEF DiscoveryInv

\* What the invariant says of a session that has settled.
LEMMA InvSettles == ASSUME DiscoveryAssumption, DiscoveryInv PROVE SettledDurable
<1>1. ASSUME settled, ~degraded PROVE probe = NoProbe
  BY <1>1 DEF DiscoveryInv, Phases
<1>2. ASSUME settled, ~degraded, sync.cands # <<>>
      PROVE  Known \cap Candidates \subseteq db.classes \cup excused
  BY <1>2 DEF DiscoveryInv, SettledLine
<1>3. ASSUME settled, ~degraded, sync.cands = <<>>, cache # NoCache
      PROVE  Known \cap Registered(cache.height) \subseteq db.classes \cup excused
  BY <1>3 DEF DiscoveryInv, SettledLine
<1> QED BY <1>1, <1>2, <1>3 DEF SettledDurable

\* The candidates, the chunks, the caches and the seeds of discovery stay what
\* the fastsync code takes them for, through faults, Closes and crashes.
THEOREM DiscoveryIsSound == ASSUME DiscoveryAssumption PROVE Spec => []DiscoveryInv
<1>1. Init => DiscoveryInv
  BY InvInit
<1>2. DiscoveryInv /\ [Next]_vars => DiscoveryInv'
  BY InvStep
<1> QED BY <1>1, <1>2, PTL DEF Spec

\* A current cache lists every contract of a known class up to its height but
\* those it has let go, and a seed every one of its registry with the variables
\* of the applications: what a later start, or another machine, skips its probe on.
THEOREM CachesAreComplete ==
  ASSUME DiscoveryAssumption PROVE Spec => []CachesComplete
<1>1. DiscoveryInv => CachesComplete
  BY DEF DiscoveryInv, CachesComplete
<1> QED BY <1>1, DiscoveryIsSound, PTL

\* TELAProbeSettled means durable results, in every session that met no fault
\* and whatever the sessions before it left behind.
THEOREM SettledIsDurable ==
  ASSUME DiscoveryAssumption PROVE Spec => []SettledDurable
<1>1. DiscoveryInv => SettledDurable
  BY InvSettles
<1> QED BY <1>1, DiscoveryIsSound, PTL

\* What lies below the height at which the scan takes over is in the store, in
\* this session and in every later one, but for what is known to be missing.
THEOREM ProgressIsImported ==
  ASSUME DiscoveryAssumption PROVE Spec => []ProgressImported
<1>1. DiscoveryInv => ProgressImported
  BY DEF DiscoveryInv, Imported, ProgressImported
<1> QED BY <1>1, DiscoveryIsSound, PTL

=============================================================================
