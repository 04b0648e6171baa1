----------------------------- MODULE IndexStore -----------------------------
(***************************************************************************)
(* What HyperGnomon keeps about the chain (storage/bbolt.go, storage.go,   *)
(* truncate.go) and how it gets there: the processor turns the             *)
(* transactions of a block into rows of a WriteBatch (indexer.go), batches *)
(* wait in a channel, the flusher commits each in one transaction, the     *)
(* class refresher commits beside it (tela_refresher.go), and offline the  *)
(* store is cut back to a height or reset.                                 *)
(*                                                                         *)
(* A bucket is a function from its keys to its values, or the set of its   *)
(* keys when the value repeats them.  A contract's code is named by the    *)
(* class the pattern rules give it, its variables by a number, 0 for none. *)
(***************************************************************************)
EXTENDS Integers, Sequences, FiniteSets, Functions, FiniteSetsExt, SequencesExt

CONSTANTS
  Scids, Addrs,
  NoAddr,       \* the sender of a transaction whose ring is not of size 2
  Blocks,       \* the blocks a chain may consist of: sequences of transactions
  Codes,        \* classes the rules know; "UNKNOWN" is the class of any other code
  Excluded,     \* SCIDExclusions
  Filter,       \* codes that match SearchFilter; {} when there is no filter
  CodePolicy,   \* "all", "none" or "tela"
  Refreshed,    \* the class RefreshClassVars is called for
  MaxHeight,    \* bound on the length of the chain
  MaxQueue,     \* capacity of the channel to the flusher
  MaxForks,     \* bound on truncations and resets
  MaxRefresh    \* bound on calls of RefreshClassVars

NoCode == ""

ASSUME StoreAssumption ==
  /\ NoAddr \notin Addrs /\ "UNKNOWN" \notin Codes \cup {Refreshed}
  /\ NoCode \notin Codes
  /\ IsFiniteSet(Scids)
  /\ MaxHeight \in Nat /\ MaxQueue \in Nat \ {0} /\ MaxForks \in Nat

VARIABLES
  turbo,       \* Indexer.TurboMode
  db,          \* the buckets
  batch,       \* the WriteBatch the processor fills
  queue,       \* batches on their way to the flusher
  validated,   \* Indexer.ValidatedSCs
  refresh,     \* the contracts RefreshClassVars has listed and not yet committed
  chain,       \* history: the blocks processed, as they were processed
  forks,       \* number of truncations and resets
  refreshes,   \* number of refreshes
  extra,       \* history: variable rows not written by the scan
  drift,       \* history: contracts whose edges a truncation may not have restored
  raced,       \* history: an invoke was processed while its install was queued
  wasReset     \* history: the index was reset

history == <<drift, raced, wasReset>>
vars == <<turbo, db, batch, queue, validated, refresh, chain, forks,
          refreshes, extra, history>>

Empty == [k \in {} |-> 0]
Least(a, b) == IF a < b THEN a ELSE b
Most(a, b)  == IF a < b THEN b ELSE a

\* Put and Delete of a bucket; g ++ f puts every entry of g into f.
g ++ f == [k \in DOMAIN g \cup DOMAIN f |-> IF k \in DOMAIN g THEN g[k] ELSE f[k]]
Put(f, k, v)  == [x \in {k} |-> v] ++ f
Without(f, S) == Restrict(f, DOMAIN f \ S)
Get(f, k, default) == IF k \in DOMAIN f THEN f[k] ELSE default

EmptyDB ==
  [owners |-> Empty, ownerScids |-> {}, invokes |-> {}, scvars |-> Empty,
   latest |-> Empty, heights |-> Empty, normTx |-> {}, invalid |-> {},
   counts |-> [reg |-> 0, burn |-> 0, norm |-> 0], scCount |-> -1,
   hashes |-> Empty, installs |-> Empty, classIdx |-> Empty,
   classRows |-> Empty, codes |-> Empty, addrScids |-> Empty,
   last |-> 0]

\* WriteBatch after Reset.
EmptyBatch ==
  [owners |-> Empty, ownerScids |-> {}, invokes |-> {}, scvars |-> Empty,
   heights |-> Empty, normTx |-> {}, invalid |-> {},
   counts |-> [reg |-> 0, burn |-> 0, norm |-> 0],
   hashes |-> Empty, installs |-> Empty, classes |-> Empty, codes |-> Empty,
   addrScids |-> Empty, last |-> 0]

-----------------------------------------------------------------------------
(* WriteBatch: what one event adds to a batch.                             *)

AddOwner(b, s, owner) ==
  [b EXCEPT !.owners = Put(@, s, owner),
            !.ownerScids = IF owner = NoAddr THEN @ ELSE @ \cup {<<owner, s>>}]

AddInvocation(b, s, sender, txid, h) ==
  [b EXCEPT !.invokes = @ \cup {[scid |-> s, sender |-> sender, txid |-> txid, h |-> h]}]

AddVariables(b, s, h, v) == [b EXCEPT !.scvars = Put(@, <<s, h>>, v)]

AddInteractionHeight(b, s, h) ==
  [b EXCEPT !.heights = Put(@, <<s, h>>, Get(@, <<s, h>>, 0) + 1)]

AddBlockHash(b, h, hash)  == [b EXCEPT !.hashes = Put(@, h, hash)]
AddInstall(b, s, h, owner) == [b EXCEPT !.installs = Put(@, <<h, s>>, owner)]
AddClass(b, s, meta)      == [b EXCEPT !.classes = Put(@, s, meta)]

AddSCCode(b, s, h, code) ==
  [b EXCEPT !.codes = IF code = NoCode THEN @ ELSE Put(@, s, [code |-> code, h |-> h])]

Touches(h, n) == [first |-> h, last |-> h, count |-> n]
Merged(e, f) == [first |-> Least(e.first, f.first), last |-> Most(e.last, f.last),
                 count |-> e.count + f.count]

\* AddAddrSCID, mergeAddrTouch and the merge in FlushBatch: min, max, sum.
MergeInto(f, g) ==
  [k \in DOMAIN g |-> IF k \in DOMAIN f THEN Merged(f[k], g[k]) ELSE g[k]] ++ f

Touched(f, k, h) == MergeInto(f, [x \in {k} |-> Touches(h, 1)])

\* Mutant: an unknown sender leaves an edge too.
AddAddrSCIDAny(b, a, s, h) ==
  [b EXCEPT !.addrScids = Touched(@, <<a, s>>, h)]

AddAddrSCID(b, a, s, h) ==
  IF a = NoAddr THEN b
  ELSE [b EXCEPT !.addrScids = Touched(@, <<a, s>>, h)]

-----------------------------------------------------------------------------
(* The processor: the rows one transaction becomes.                        *)

None == [class |-> "none"]
IsTELA(class) == class \in {"TELA-INDEX-1", "TELA-DOC-1", "TELA-MOD-1"}
ShouldPersistCode(class) == CodePolicy = "all" \/ (CodePolicy # "none" /\ IsTELA(class))
MatchesFilter(code) == Filter = {} \/ code \in Filter

\* ClassifySC of a contract's code; without code nothing matches.
ClassOf(code) == IF code \in Codes THEN code ELSE "UNKNOWN"

\* extractClassVars: the fields only a TELA class takes from its variables.
Meta(class, vs, install, h) ==
  [class |-> class, version |-> IF IsTELA(class) THEN vs ELSE 0,
   install |-> install, last |-> h]

\* The rows every SC transaction leaves, whatever its kind.
Recorded(b, tx, txid, h) ==
  AddAddrSCID(AddInteractionHeight(AddInvocation(b, tx.scid, tx.sender, txid, h),
                                   tx.scid, h), tx.sender, tx.scid, h)

Installed(b, tx, txid, h, vs) ==
  LET class == ClassOf(tx.code)
      b1 == AddInstall(AddOwner(Recorded(b, tx, txid, h), tx.scid, tx.sender),
                       tx.scid, h, tx.sender)
      b2 == AddClass(b1, tx.scid, Meta(class, vs, h, h))
  IN  IF ShouldPersistCode(class) THEN AddSCCode(b2, tx.scid, h, tx.code) ELSE b2

HandleInstallSC(b, tx, txid, h) ==
  IF ~MatchesFilter(tx.code) THEN b
  ELSE IF tx.vars = 0 THEN [b EXCEPT !.invalid = @ \cup {tx.scid}]
  ELSE AddVariables(Installed(b, tx, txid, h, tx.vars), tx.scid, h, tx.vars)

\* Mutant: the metadata is rebuilt without the class known before.
RefreshClassMetaForgets(b, d, tx, h) ==
  AddClass(b, tx.scid, Meta(ClassOf(NoCode), tx.vars, h, h))

\* The class an invoke finds: of this batch, else of the store.
RefreshClassMetaOnInvoke(b, d, tx, h) ==
  LET prior == Get(b.classes, tx.scid, Get(d.classIdx, tx.scid, None))
  IN  AddClass(b, tx.scid,
               IF prior = None THEN Meta(ClassOf(NoCode), tx.vars, h, h)
               ELSE Meta(prior.class, tx.vars, prior.install, h))

HandleInvokeSC(b, d, tx, txid, h, known) ==
  IF ~known /\ tx.vars = 0 THEN b
  ELSE LET b1 == Recorded(b, tx, txid, h)
       IN  IF tx.vars = 0 THEN b1
           ELSE RefreshClassMetaOnInvoke(AddVariables(b1, tx.scid, h, tx.vars), d, tx, h)

ProcessSCTx(b, d, tx, txid, h, known) ==
  IF tx.scid \notin Scids \ Excluded THEN b
  ELSE CASE tx.kind = "install" /\ turbo  -> Installed(b, tx, txid, h, 0)
         [] tx.kind = "install" /\ ~turbo -> HandleInstallSC(b, tx, txid, h)
         [] tx.kind = "invoke" /\ turbo   -> Recorded(b, tx, txid, h)
         [] tx.kind = "invoke" /\ ~turbo  -> HandleInvokeSC(b, d, tx, txid, h, known)

\* Which contracts the transaction adds to ValidatedSCs.
Validates(tx) ==
  IF tx.scid \in Scids \ Excluded /\
     (turbo \/ (tx.vars # 0 /\ (tx.kind = "invoke" \/ MatchesFilter(tx.code))))
  THEN {tx.scid} ELSE {}

\* Every ring member of every payload of a contract's asset.
ProcessNormalTx(b, tx, txid, h) ==
  LET payloads(k) ==
        {i \in DOMAIN tx.payloads : tx.payloads[i].scid = k[2] /\ k[1] \in tx.payloads[i].ring}
      edges == {k \in Addrs \X Scids : payloads(k) # {}}
  IN  [b EXCEPT
        !.normTx = @ \cup {[addr |-> k[1], h |-> h, txid |-> txid, scid |-> k[2]] : k \in edges},
        !.addrScids = MergeInto(@, [k \in edges |-> Touches(h, Cardinality(payloads(k)))])]

IsSC(tx) == tx.kind \in {"install", "invoke"}

\* Senders and ring members are addresses.
ASSUME BlockAssumption ==
  \A c \in Blocks :
    /\ c.txs \in Seq(Range(c.txs))
    /\ \A tx \in Range(c.txs) :
         /\ IsSC(tx) => tx.sender \in Addrs \cup {NoAddr}
         /\ tx.kind = "normal" => /\ tx.payloads \in Seq(Range(tx.payloads))
                                  /\ \A p \in Range(tx.payloads) : p.ring \subseteq Addrs

\* Registrations and burns are only counted; a normal transaction is counted and recorded.
CountTx(b, kind) ==
  LET plus(n, k) == n + (IF kind = k THEN 1 ELSE 0)
  IN  [b EXCEPT !.counts = [reg  |-> plus(b.counts.reg, "registration"),
                            burn |-> plus(b.counts.burn, "burn"),
                            norm |-> plus(b.counts.norm, "normal")]]

ProcessTx(st, tx, d, txid, h) ==
  LET counted == CountTx(st.b, tx.kind)
  IN  IF IsSC(tx)
      THEN [b |-> ProcessSCTx(st.b, d, tx, txid, h, tx.scid \in st.known),
            known |-> st.known \cup Validates(tx)]
      ELSE [st EXCEPT !.b = IF tx.kind = "normal" THEN ProcessNormalTx(counted, tx, txid, h)
                            ELSE counted]

\* One block: its hash, its transactions in order, the batch's new height.
Processed(b, d, h, block) ==
  LET start == [b |-> IF block.parsed THEN AddBlockHash(b, h, block.hash) ELSE b,
                known |-> block.known]
      after[i \in 0 .. Len(block.txs)] ==
        IF i = 0 THEN start ELSE ProcessTx(after[i - 1], block.txs[i], d, <<h, i>>, h)
  IN  [after[Len(block.txs)] EXCEPT !.b.last = h]

-----------------------------------------------------------------------------
(* FlushBatch: the buckets after one batch, all in one transaction.        *)

NewOwners(d, b) == DOMAIN b.owners \ DOMAIN d.owners

\* addSCIDCountStat: the first count is taken from the owners themselves.
SCCountAfter(d, b) ==
  IF NewOwners(d, b) = {} THEN d.scCount
  ELSE IF d.scCount = -1 THEN Cardinality(DOMAIN d.owners \cup DOMAIN b.owners)
  ELSE d.scCount + Cardinality(NewOwners(d, b))

\* putLatestSCVarsHeight: the latest snapshot's height only moves up.
LatestAfter(d, b) ==
  LET new == {k[1] : k \in DOMAIN b.scvars}
  IN  [s \in new |-> Most(Get(d.latest, s, 0),
                          Max({k[2] : k \in {x \in DOMAIN b.scvars : x[1] = s}}))]
      ++ d.latest

HeightsAfter(d, b) ==
  [k \in DOMAIN b.heights |-> b.heights[k] + Get(d.heights, k, 0)] ++ d.heights

RowOf(s, meta) == <<meta.class, meta.install, s>>

\* Mutant: the row of the class stored before stays.
ClassRowsAfterStale(d, b) ==
  [r \in {RowOf(s, b.classes[s]) : s \in DOMAIN b.classes} |-> b.classes[r[3]]]
  ++ d.classRows

\* The row under the class and height stored before goes, if either changed.
ClassRowsAfter(d, b) ==
  LET moved == {s \in DOMAIN b.classes \cap DOMAIN d.classIdx :
                  RowOf(s, d.classIdx[s]) # RowOf(s, b.classes[s])}
  IN  [r \in {RowOf(s, b.classes[s]) : s \in DOMAIN b.classes} |-> b.classes[r[3]]]
      ++ Without(d.classRows, {RowOf(s, d.classIdx[s]) : s \in moved})

\* Mutant: the rows of the batch replace those of the store.
AddrScidsAfterReplace(d, b) == b.addrScids ++ d.addrScids

AddrScidsAfter(d, b) == MergeInto(d.addrScids, b.addrScids)

Flushed(d, b) ==
  [owners |-> b.owners ++ d.owners,
   ownerScids |-> d.ownerScids \cup b.ownerScids,
   invokes |-> d.invokes \cup b.invokes,
   scvars |-> b.scvars ++ d.scvars,
   latest |-> LatestAfter(d, b),
   heights |-> HeightsAfter(d, b),
   normTx |-> d.normTx \cup b.normTx,
   invalid |-> d.invalid \cup b.invalid,
   counts |-> [k \in {"reg", "burn", "norm"} |-> d.counts[k] + b.counts[k]],
   scCount |-> SCCountAfter(d, b),
   hashes |-> b.hashes ++ d.hashes,
   installs |-> b.installs ++ d.installs,
   classIdx |-> b.classes ++ d.classIdx,
   classRows |-> ClassRowsAfter(d, b),
   codes |-> b.codes ++ d.codes,
   addrScids |-> AddrScidsAfter(d, b),
   last |-> IF b.last > 0 THEN b.last ELSE d.last]

-----------------------------------------------------------------------------
(* TruncateToHeight: every row above h goes, what was summed up over       *)
(* heights is recomputed from the rows that stay.                          *)

InstalledAbove(d, h) == {k[2] : k \in {x \in DOMAIN d.installs : x[1] > h}}

\* The contracts whose rows are looked at; also those of refreshed variables.
Affected(d, h) ==
  {k[1] : k \in {x \in DOMAIN d.heights : x[2] > h}}
  \cup {k[1] : k \in {x \in DOMAIN d.scvars : x[2] > h}}
  \cup InstalledAbove(d, h)

\* One touch per surviving invocation and normal-transaction row of an edge; that
\* of a surviving install only where these left nothing.
Survivors(d, h, k) ==
  LET calls == {r \in d.invokes : r.sender = k[1] /\ r.scid = k[2] /\ r.h <= h}
      rings == {r \in d.normTx : r.addr = k[1] /\ r.scid = k[2] /\ r.h <= h}
      deploys == {x \in DOMAIN d.installs : d.installs[x] = k[1] /\ x[2] = k[2] /\ x[1] <= h}
  IN  IF calls = {} /\ rings = {}
      THEN [heights |-> {x[1] : x \in deploys}, count |-> Cardinality(deploys)]
      ELSE [heights |-> {r.h : r \in calls} \cup {r.h : r \in rings},
            count |-> Cardinality(calls) + Cardinality(rings)]

\* applyAddrSCIDRollback: replaced or deleted, and never added.
AddrScidsCut(d, h) ==
  LET keep == {k \in DOMAIN d.addrScids :
                 k[2] \in Affected(d, h) => Survivors(d, h, k).heights # {}}
  IN  [k \in keep |->
         IF k[2] \notin Affected(d, h) THEN d.addrScids[k]
         ELSE LET left == Survivors(d, h, k)
              IN  [first |-> Min(left.heights), last |-> Max(left.heights),
                   count |-> left.count]]

KeptVars(d, h) == {k \in DOMAIN d.scvars : k[2] <= h}

\* maxSurvivingScVarsHeight, 0 when nothing survives.
LatestCut(d, h) ==
  LET left(s) == {k[2] : k \in {x \in KeptVars(d, h) : x[1] = s}}
      lost == {s \in Affected(d, h) : left(s) = {}}
  IN  [s \in DOMAIN d.latest \ lost |->
         IF s \in Affected(d, h) THEN Max(left(s)) ELSE d.latest[s]]
      ++ [s \in {x \in Affected(d, h) : left(x) # {}} |-> Max(left(s))]

\* The contracts first installed above h leave every bucket keyed by contract.
Cut(d, h) ==
  LET gone == InstalledAbove(d, h)
      lostOwners == gone \cap DOMAIN d.owners
  IN  [d EXCEPT
        !.owners = Without(@, gone),
        !.ownerScids = {k \in @ : k[2] \notin gone},
        !.invokes = {r \in @ : r.scid \in Affected(d, h) => r.h <= h},
        !.scvars = Restrict(@, KeptVars(d, h)),
        !.latest = LatestCut(d, h),
        !.heights = RestrictDomain(@, LAMBDA k : k[1] \in Affected(d, h) => k[2] <= h),
        !.normTx = {r \in @ : r.h <= h},
        !.invalid = @ \ gone,
        !.scCount = IF @ = -1 \/ lostOwners = {} THEN @
                    ELSE Most(@ - Cardinality(lostOwners), 0),
        !.hashes = RestrictDomain(@, LAMBDA k : k <= h),
        !.installs = RestrictDomain(@, LAMBDA k : k[1] <= h),
        !.classIdx = Without(@, gone),
        !.classRows = Without(@, {RowOf(s, d.classIdx[s]) : s \in gone \cap DOMAIN d.classIdx}),
        !.codes = Without(@, gone),
        !.addrScids = AddrScidsCut(d, h),
        !.last = Least(@, h)]

\* ResetIndex drops the listed buckets: not the block hashes, and not the
\* buckets named after a contract, which hold its invocations.
ResetDB(d) == [EmptyDB EXCEPT !.hashes = d.hashes, !.invokes = d.invokes]

-----------------------------------------------------------------------------
(* Queries.                                                                *)

GetSCIDCount(d) == IF d.scCount = -1 THEN Cardinality(DOMAIN d.owners) ELSE d.scCount

GetSCIDsByOwner(d, a) == {k[2] : k \in {x \in d.ownerScids : x[1] = a}}

\* One row per contract, the highest; their order is that of ReadAPI.
GetClassInstalls(d, class) ==
  LET rows == {r \in DOMAIN d.classRows : r[1] = class}
  IN  {r \in rows : \A q \in rows \ {r} : q[3] = r[3] => q[2] < r[2]}

\* Installs with height in [from, to).
GetInstallsInRange(d, from, to) ==
  {k \in DOMAIN d.installs : from <= k[1] /\ k[1] < to}

GetAddressSCIDs(d, a) ==
  [s \in {k[2] : k \in {x \in DOMAIN d.addrScids : x[1] = a}} |-> d.addrScids[<<a, s>>]]

\* latestSCVarsHeightTx: the pointer, or the highest snapshot without one.
LatestSCVarsHeight(d, s) ==
  IF s \in DOMAIN d.latest THEN d.latest[s]
  ELSE Max({0} \cup {k[2] : k \in {x \in DOMAIN d.scvars : x[1] = s}})

\* The ratings are read from the snapshot at the height asked for, or the latest.
GetRatings(d, s, h) ==
  LET at == IF h > 0 THEN h ELSE LatestSCVarsHeight(d, s)
  IN  [height |-> at, likes |-> Get(d.scvars, <<s, at>>, 0)]

\* GetInvokeDetailsBySCID, GetNormalTxWithSCIDByAddr, GetSCIDInteractionHeights.
GetInvokeDetails(d, s)  == {r \in d.invokes : r.scid = s}
GetNormalTxs(d, a)      == {r \in d.normTx : r.addr = a}
GetHeights(d, s) == [h \in {k[2] : k \in {x \in DOMAIN d.heights : x[1] = s}} |-> d.heights[<<s, h>>]]

-----------------------------------------------------------------------------
Init ==
  /\ turbo \in BOOLEAN
  /\ db = EmptyDB /\ batch = EmptyBatch /\ queue = <<>> /\ validated = {}
  /\ refresh = None /\ chain = <<>> /\ forks = 0 /\ refreshes = 0 /\ extra = {}
  /\ drift = {} /\ raced = FALSE /\ wasReset = FALSE

Mentioned(txs) == {txs[i].scid : i \in {j \in DOMAIN txs : IsSC(txs[j])}}
Invoked(txs)   == {txs[i].scid : i \in {j \in DOMAIN txs : txs[j].kind = "invoke"}}

\* A contract is installed before it is used, or before the scan began.
CanFollow(txs) ==
  \A i \in DOMAIN txs : txs[i].kind = "install" =>
     /\ \A h \in DOMAIN chain : txs[i].scid \notin Mentioned(chain[h].txs)
     /\ txs[i].scid \notin Mentioned(SubSeq(txs, 1, i - 1))

\* processorLoop takes the next block.
ProcessBlock ==
  /\ Len(chain) < MaxHeight
  /\ \E c \in {x \in Blocks : CanFollow(x.txs)} :
       LET h == Len(chain) + 1
           block == [txs |-> c.txs, parsed |-> c.parsed, hash |-> <<h, forks>>,
                     known |-> validated]
           end == Processed(batch, db, h, block)
       IN  /\ batch' = end.b /\ validated' = end.known
           /\ chain' = Append(chain, block)
           /\ raced' = (raced \/ (~turbo /\ \E i \in DOMAIN queue :
                          DOMAIN queue[i].classes \cap Invoked(c.txs) # {}))
  /\ UNCHANGED <<turbo, db, queue, refresh, forks, refreshes, extra, drift, wasReset>>

\* The batch has reached its size, or the tip is reached.
SendBatch ==
  /\ batch.last > 0 /\ Len(queue) < MaxQueue
  /\ queue' = Append(queue, batch) /\ batch' = EmptyBatch
  /\ UNCHANGED <<turbo, db, validated, refresh, chain, forks, refreshes, extra, history>>

FlushBatch ==
  /\ queue # <<>>
  /\ db' = Flushed(db, Head(queue)) /\ queue' = Tail(queue)
  /\ UNCHANGED <<turbo, batch, validated, refresh, chain, forks, refreshes, extra, history>>

\* RefreshClassVars lists the class and asks the daemon ...
RefreshBegin ==
  /\ refresh = None /\ refreshes < MaxRefresh
  /\ GetClassInstalls(db, Refreshed) # {}
  /\ \E tip \in Most(Len(chain), 1) .. MaxHeight :
       refresh' = [scids |-> {r[3] : r \in GetClassInstalls(db, Refreshed)},
                   height |-> tip]
  /\ refreshes' = refreshes + 1
  /\ UNCHANGED <<turbo, db, batch, queue, validated, chain, forks, extra, history>>

RefreshBatch(scids, h, vs) ==
  [EmptyBatch EXCEPT !.scvars = [k \in scids \X {h} |-> vs],
                     !.classes = [s \in scids |-> Meta(Refreshed, vs, h, h)]]

\* ... and commits what was answered, while the scan goes on.
RefreshCommit ==
  /\ refresh # None
  /\ \E answered \in SUBSET refresh.scids :
       /\ db' = Flushed(db, RefreshBatch(answered, refresh.height, 2))
       /\ extra' = extra \cup {<<s, refresh.height>> : s \in answered}
  /\ refresh' = None
  /\ UNCHANGED <<turbo, batch, queue, validated, chain, forks, refreshes, history>>

\* The process ends; what was not committed is lost, and the scan resumes
\* above the stored height.
Restart(d) ==
  /\ db' = d /\ batch' = EmptyBatch /\ queue' = <<>> /\ validated' = {}
  /\ refresh' = None /\ chain' = SubSeq(chain, 1, d.last)
  /\ UNCHANGED <<turbo, refreshes, raced>>

Crash == chain # <<>> /\ Restart(db) /\ UNCHANGED <<forks, extra, drift, wasReset>>

TruncateToHeight ==
  /\ forks < MaxForks /\ forks' = forks + 1
  /\ \E h \in 0 .. MaxHeight :
       /\ Restart(Cut(db, h))
       /\ extra' = {k \in extra : k[2] <= h}
  /\ drift' = drift \cup {r.scid : r \in db.normTx}
                    \cup (IF wasReset THEN {r.scid : r \in db.invokes} ELSE {})
  /\ UNCHANGED wasReset

ResetIndex ==
  /\ forks < MaxForks /\ forks' = forks + 1
  /\ Restart(ResetDB(db)) /\ extra' = {} /\ drift' = {} /\ wasReset' = TRUE

Next ==
  \/ ProcessBlock \/ SendBatch \/ FlushBatch
  \/ RefreshBegin \/ RefreshCommit
  \/ Crash \/ TruncateToHeight \/ ResetIndex

Spec == Init /\ [][Next]_vars

-----------------------------------------------------------------------------
(* Properties.                                                             *)

\* The buckets hold rows of the program's types.
TypeOK ==
  /\ DOMAIN db.owners \subseteq Scids /\ db.ownerScids \subseteq Addrs \X Scids
  /\ DOMAIN db.scvars \subseteq Scids \X (1 .. MaxHeight)
  /\ DOMAIN db.addrScids \subseteq Addrs \X Scids
  /\ db.scCount \in -1 .. Cardinality(Scids) /\ db.last \in 0 .. Len(chain)
  /\ Len(queue) <= MaxQueue /\ batch.last \in 0 .. Len(chain)

\* The store a scan builds that commits every block by itself.
Fresh(blocks) ==
  LET block(d, h) == Flushed(d, Processed(EmptyBatch, d, h, blocks[h]).b)
      after[h \in 0 .. Len(blocks)] == IF h = 0 THEN EmptyDB ELSE block(after[h - 1], h)
  IN  after[Len(blocks)]

\* No row of the scan is ahead of the resume height, where a second scan of
\* the same block would count it twice; only refreshed variables are.
NothingAhead ==
  /\ \A k \in DOMAIN db.heights : k[2] <= db.last
  /\ \A r \in db.normTx : r.h <= db.last
  /\ \A k \in DOMAIN db.installs : k[1] <= db.last
  /\ \A k \in DOMAIN db.scvars \ extra : k[2] <= db.last
  /\ ~wasReset => /\ \A r \in db.invokes : r.h <= db.last
                  /\ \A h \in DOMAIN db.hashes : h <= db.last

\* How the batches were cut, crashes, and truncation with replay leave no
\* trace: the store is the one a block-by-block scan of its prefix of the
\* chain builds, but for what TruncateToHeight's contract leaves to the replay
\* (the transaction counts, failed deploys, metadata) and what ResetIndex keeps
\* (hashes, invocations); and nothing of the blocks above is in it.
PrefixConsistent ==
  LET fresh == Fresh(SubSeq(chain, 1, db.last))
      scan(d) == Without(d.scvars, extra)
      clean(d) == RestrictDomain(d.addrScids, LAMBDA k : k[2] \notin drift)
  IN  /\ NothingAhead
      /\ db.owners = fresh.owners /\ db.ownerScids = fresh.ownerScids
      /\ db.heights = fresh.heights /\ db.normTx = fresh.normTx
      /\ db.installs = fresh.installs /\ db.codes = fresh.codes
      /\ GetSCIDCount(db) = GetSCIDCount(fresh)
      /\ scan(db) = scan(fresh) /\ fresh.invalid \subseteq db.invalid
      /\ forks = 0 => db.counts = fresh.counts
      /\ clean(db) = clean(fresh)
      /\ IF wasReset THEN fresh.invokes \subseteq db.invokes
         ELSE db.invokes = fresh.invokes /\ db.hashes = fresh.hashes

\* What an address is said to have touched is what its rows say: every
\* invocation is inside its [first, last].
EdgesCoverRows ==
  ~wasReset => \A r \in {x \in db.invokes : x.sender # NoAddr} :
    LET e == GetAddressSCIDs(db, r.sender)
    IN  r.scid \in DOMAIN e /\ e[r.scid].first <= r.h /\ r.h <= e[r.scid].last

\* The ordered listing of classes has the row of each contract's class, and no other.
ClassRowsAgree ==
  /\ DOMAIN db.classRows = {RowOf(s, db.classIdx[s]) : s \in DOMAIN db.classIdx}
  /\ \A s \in DOMAIN db.classIdx : db.classRows[RowOf(s, db.classIdx[s])] = db.classIdx[s]

\* The derived indexes answer what a scan of the primary rows would: one class
\* row per contract, the owner's list, the counter, the latest snapshot, and
\* the span of heights in which an address touched a contract.
QueriesAgree ==
  /\ EdgesCoverRows
  /\ ClassRowsAgree
  /\ \A c \in {r[1] : r \in DOMAIN db.classRows} :
       {r[3] : r \in GetClassInstalls(db, c)}
         = {s \in DOMAIN db.classIdx : db.classIdx[s].class = c}
  /\ \A a \in Addrs : GetSCIDsByOwner(db, a)
                      = {s \in DOMAIN db.owners : db.owners[s] = a}
  /\ GetSCIDCount(db) = Cardinality(DOMAIN db.owners)
  /\ \A s \in Scids :
       LET hs == {k[2] : k \in {x \in DOMAIN db.scvars : x[1] = s}}
       IN  /\ LatestSCVarsHeight(db, s) = Max({0} \cup hs)
           /\ hs # {} => GetRatings(db, s, 0) = GetRatings(db, s, Max(hs))

\* The code a contract was installed with, in the blocks the store has.
InstalledCode(s) ==
  {tx.code : tx \in {x \in UNION {Range(chain[h].txs) : h \in 1 .. db.last} :
                      x.kind = "install" /\ x.scid = s}}

\* The class a contract got from its code at its install survives every later
\* invoke, refresh, crash and truncation, unless an invoke was processed while
\* the install was still in a queued batch.
ClassKept ==
  ~raced => \A s \in DOMAIN db.owners : InstalledCode(s) \cap Codes # {} =>
              db.classIdx[s].class \in InstalledCode(s)
-----------------------------------------------------------------------------
(* The inductive invariant of these properties.  d is the store or a batch, *)
(* c the chain its rows come from, top the height they go up to.            *)

\* Transaction i of block h installs contract s.
Installs(c, h, i, s) ==
  /\ h \in DOMAIN c /\ i \in DOMAIN c[h].txs
  /\ c[h].txs[i].kind = "install" /\ c[h].txs[i].scid = s

\* A contract is installed once.
OneInstall(c) ==
  \A g, h \in DOMAIN c : \A i \in DOMAIN c[g].txs, j \in DOMAIN c[h].txs :
    /\ c[g].txs[i].kind = "install" /\ c[h].txs[j].kind = "install"
    /\ c[g].txs[i].scid = c[h].txs[j].scid
    => g = h /\ i = j

RowTypes(d) ==
  /\ DOMAIN d.owners \subseteq Scids /\ d.ownerScids \subseteq Addrs \X Scids
  /\ DOMAIN d.scvars \subseteq Scids \X (1 .. MaxHeight)
  /\ DOMAIN d.heights \subseteq Scids \X (1 .. MaxHeight)
  /\ DOMAIN d.installs \subseteq (1 .. MaxHeight) \X Scids
  /\ DOMAIN d.addrScids \subseteq Addrs \X Scids
  /\ \A k \in DOMAIN d.addrScids : d.addrScids[k].first \in Nat /\ d.addrScids[k].last \in Nat
  /\ \A r \in d.invokes \cup d.normTx : r.h \in 1 .. MaxHeight
  /\ DOMAIN d.hashes \subseteq 1 .. MaxHeight

RowsUpTo(d, top) ==
  /\ \A k \in DOMAIN d.heights : k[2] <= top
  /\ \A k \in DOMAIN d.installs : k[1] <= top
  /\ \A r \in d.normTx : r.h <= top

OwnersAgree(d) ==
  \A a \in Addrs, s \in Scids :
    <<a, s>> \in d.ownerScids <=> s \in DOMAIN d.owners /\ d.owners[s] = a

\* An owner is who sent the install that is recorded.
OwnersInstalled(d, c) ==
  /\ \A k \in DOMAIN d.installs : \E i \in DOMAIN c[k[1]].txs :
       Installs(c, k[1], i, k[2]) /\ d.installs[k] = c[k[1]].txs[i].sender
  /\ \A s \in DOMAIN d.owners : \E k \in DOMAIN d.installs :
       k[2] = s /\ d.installs[k] = d.owners[s]

\* An invocation has its edge and its height.
InvokesCovered(d) ==
  \A r \in d.invokes :
    /\ <<r.scid, r.h>> \in DOMAIN d.heights
    /\ r.sender # NoAddr =>
         /\ <<r.sender, r.scid>> \in DOMAIN d.addrScids
         /\ d.addrScids[<<r.sender, r.scid>>].first <= r.h
         /\ r.h <= d.addrScids[<<r.sender, r.scid>>].last

BatchFits(b, c, top) ==
  /\ DOMAIN b = DOMAIN EmptyBatch
  /\ RowTypes(b) /\ RowsUpTo(b, top) /\ OwnersAgree(b) /\ OwnersInstalled(b, c)
  /\ InvokesCovered(b)
  /\ \A k \in DOMAIN b.scvars : k[2] <= top
  /\ \A r \in b.invokes : r.h <= top
  /\ \A h \in DOMAIN b.hashes : h <= top
  /\ DOMAIN b.classes \subseteq Scids

\* The pointer to the latest snapshot is to the highest there is.
LatestLine ==
  /\ \A k \in DOMAIN db.scvars : k[1] \in DOMAIN db.latest /\ k[2] <= db.latest[k[1]]
  /\ \A s \in DOMAIN db.latest : <<s, db.latest[s]>> \in DOMAIN db.scvars

StoreLine ==
  /\ DOMAIN db = DOMAIN EmptyDB
  /\ RowTypes(db) /\ OwnersAgree(db) /\ OwnersInstalled(db, chain)
  /\ ~wasReset => InvokesCovered(db)
  /\ DOMAIN db.classIdx \subseteq Scids
  /\ GetSCIDCount(db) = Cardinality(DOMAIN db.owners)
  /\ NothingAhead /\ LatestLine /\ ClassRowsAgree

\* The batches on their way, one after the other.
QueueLine ==
  /\ queue \in Seq(Range(queue))
  /\ \A i \in DOMAIN queue :
       /\ queue[i].last \in 1 .. Len(chain) /\ db.last <= queue[i].last
       /\ BatchFits(queue[i], chain, queue[i].last)
  /\ \A i, j \in DOMAIN queue : i < j => queue[i].last <= queue[j].last
  /\ batch.last \in {0, Len(chain)} /\ BatchFits(batch, chain, batch.last)

\* The blocks a chain has.
Taken == [txs : {c.txs : c \in Blocks}, parsed : {c.parsed : c \in Blocks},
          hash : Nat \X Nat, known : SUBSET Scids]

ChainLine ==
  /\ chain \in Seq(Taken)
  /\ Len(chain) <= MaxHeight /\ OneInstall(chain)
  /\ validated \subseteq Scids /\ forks \in Nat
  /\ refresh # None => refresh.scids \subseteq Scids /\ refresh.height \in 1 .. MaxHeight

\* The class its code gave a contract is in the store and in the batches, and the
\* contracts whose install is not known are of no class.
Named(c, s, class) ==
  \A h \in DOMAIN c : \A i \in DOMAIN c[h].txs :
    Installs(c, h, i, s) /\ c[h].txs[i].code \in Codes => class = c[h].txs[i].code

ClassesFit(b, c) ==
  /\ DOMAIN b.owners \subseteq DOMAIN b.classes
  /\ \A s \in DOMAIN b.classes :
       /\ \E h \in DOMAIN c : s \in Mentioned(c[h].txs)
       /\ IF s \in DOMAIN b.owners \cup DOMAIN db.owners
          THEN Named(c, s, b.classes[s].class)
          ELSE b.classes[s].class = "UNKNOWN"

ClassLine ==
  /\ DOMAIN db.owners \subseteq DOMAIN db.classIdx
  /\ \A s \in DOMAIN db.classIdx :
       IF s \in DOMAIN db.owners THEN Named(chain, s, db.classIdx[s].class)
       ELSE db.classIdx[s].class = "UNKNOWN"
  /\ \A i \in DOMAIN queue :
       /\ ClassesFit(queue[i], chain)
       /\ DOMAIN queue[i].classes \cap DOMAIN batch.classes = {}
       /\ \A j \in DOMAIN queue : i # j =>
            DOMAIN queue[i].classes \cap DOMAIN queue[j].classes = {}
  /\ ClassesFit(batch, chain)
  /\ refresh # None => \A s \in refresh.scids :
       s \in DOMAIN db.owners /\ Named(chain, s, Refreshed)

StoreInv ==
  TypeOK /\ StoreLine /\ QueueLine /\ ChainLine /\ (~raced => ClassLine)
=============================================================================
