---------------------------- MODULE ContentCache ----------------------------
(* The two caches of TELA bodies (api/tela_content.go): an LRU in memory   *)
(* with an index by contract, and a bucket of the store that survives a    *)
(* restart.  Requests fill them, on goroutines of their own; the           *)
(* invalidator empties them when the bus tells of a contract's change.     *)
(* A key is a contract and a path in it; a body is the version of the      *)
(* contract's variables it was made from.                                  *)
EXTENDS Naturals, Sequences, FiniteSets, FiniteSetsExt, SequencesExt

CONSTANTS
  Keys,         \* the keys of bodies: records [scid, path]
  Requests,     \* HTTP requests
  MaxBytes,     \* capacity of the LRU
  InboxSize,    \* capacity of the invalidator's channel
  MaxVersion,   \* bound on the changes of a contract
  MaxCrashes    \* bound on restarts

\* What is assumed of them.
CacheAssumption ==
  /\ MaxBytes \in Nat \ {0} /\ InboxSize \in Nat \ {0}
  /\ MaxVersion \in Nat /\ MaxCrashes \in Nat

Docs == {k.scid : k \in Keys}
KeysOf(s) == {k \in Keys : k.scid = s}

\* The size of a body: a later version is larger, up to more than the capacity.
Bytes(version) == version + 1

VARIABLES
  stored,      \* version of a contract's variables in the index
  toPublish,   \* contracts whose change has committed and is not yet published
  inbox,       \* the invalidator's channel
  lost,        \* history: contracts with a change the invalidator was not told of
  inv,         \* the invalidator: its step and the contract it drops
  ring,        \* the LRU, most recently used first
  items,       \* the entries: for a key in the ring, the version of its body
  size,        \* telaContentCache.size
  byScid,      \* keys in the cache of a contract that has any
  disk,        \* the bucket
  req,         \* requests: step, key, and the version in hand
  missed,      \* history: keys whose last invalidation missed them: a request was
               \* filling them, or the bucket could not be emptied
  crashes      \* number of restarts

cacheVars == <<stored, toPublish, inbox, lost, inv, ring, items, size, byScid,
               disk, req, missed, crashes>>
lru == <<ring, items, size, byScid>>

Put(f, k, v) == [x \in DOMAIN f \union {k} |-> IF x = k THEN v ELSE f[x]]
Without(f, S) == [x \in DOMAIN f \ S |-> f[x]]

Init ==
  /\ stored = [s \in Docs |-> 0]
  /\ toPublish = {} /\ inbox = <<>> /\ lost = {}
  /\ inv = [step |-> "recv", scid |-> "none"]
  /\ ring = <<>> /\ items = <<>> /\ size = 0 /\ byScid = <<>>
  /\ disk = <<>>
  /\ req = [r \in Requests |-> [step |-> "idle"]]
  /\ missed = {} /\ crashes = 0

-----------------------------------------------------------------------------
(* The cache proper.  Every operation holds its mutex.                      *)

\* indexRemoveLocked, for each of some keys: a contract without keys has no entry.
IndexRemove(b, S) == [s \in {t \in DOMAIN b : b[t] \ S # {}} |-> b[s] \ S]

\* The bytes of some of a cache's entries.
Weight(entries, S) == MapThenSumSet(LAMBDA k : Bytes(entries[k]), S)

\* evictLocked: what is left of the cache [ring, items, size, byScid] when
\* entries are dropped from its end until the size fits.
Beyond(c, n) == {c.ring[i] : i \in (n + 1)..Len(c.ring)}
Kept(c) ==
  Max({n \in 0..Len(c.ring) : n = 0 \/ c.size - Weight(c.items, Beyond(c, n)) <= MaxBytes})

Evicted(c) ==
  LET gone == Beyond(c, Kept(c))
  IN [ring   |-> SubSeq(c.ring, 1, Kept(c)),
      items  |-> Without(c.items, gone),
      size   |-> c.size - Weight(c.items, gone),
      byScid |-> IndexRemove(c.byScid, gone)]

\* unlinkLocked, of some entries: the others keep their places.
RingWithout(S) ==
  LET rest[n \in 0..Len(ring)] ==
        IF n = 0 THEN <<>>
        ELSE IF ring[n] \in S THEN rest[n - 1] ELSE Append(rest[n - 1], ring[n])
  IN  rest[Len(ring)]
ToFront(k) == <<k>> \o RingWithout({k})

\* Mutant: an entry that is replaced keeps its share of the size.
LruPutForgets(k, v) ==
  Evicted([ring   |-> ToFront(k),
           items  |-> Put(items, k, v),
           size   |-> size + Bytes(v),
           byScid |-> Put(byScid, k.scid,
                          {k} \union (IF k.scid \in DOMAIN byScid THEN byScid[k.scid] ELSE {}))])

\* Put.
LruPut(k, v) ==
  LET old == IF k \in DOMAIN items THEN Bytes(items[k]) ELSE 0
  IN Evicted([ring   |-> ToFront(k),
              items  |-> Put(items, k, v),
              size   |-> size - old + Bytes(v),
              byScid |-> Put(byScid, k.scid,
                             {k} \union (IF k.scid \in DOMAIN byScid THEN byScid[k.scid] ELSE {}))])

\* InvalidatePrefix.
LruDrop(s) ==
  LET gone == IF s \in DOMAIN byScid THEN byScid[s] \intersect DOMAIN items ELSE {}
  IN [ring   |-> RingWithout(gone),
      items  |-> Without(items, gone),
      size   |-> size - Weight(items, gone),
      byScid |-> Without(byScid, {s})]

SetLru(c) == ring' = c.ring /\ items' = c.items /\ size' = c.size /\ byScid' = c.byScid

-----------------------------------------------------------------------------
(* The indexer: a batch with the contract's variables commits, and then its *)
(* events are published; a full channel drops them.                         *)

CommitChange(s) ==
  /\ stored[s] < MaxVersion
  /\ s \notin toPublish
  /\ stored' = [stored EXCEPT ![s] = @ + 1]
  /\ toPublish' = toPublish \union {s}
  /\ UNCHANGED <<inbox, lost, inv, lru, disk, req, missed, crashes>>

Publish(s) ==
  /\ s \in toPublish
  /\ toPublish' = toPublish \ {s}
  /\ IF Len(inbox) < InboxSize
     THEN inbox' = Append(inbox, s) /\ UNCHANGED lost
     ELSE lost' = lost \union {s} /\ UNCHANGED inbox
  /\ UNCHANGED <<stored, inv, lru, disk, req, missed, crashes>>

\* A request has a version of s in hand that it has not yet put away.
Filling(s) == {k \in KeysOf(s) : \E r \in Requests : req[r].step \in {"save", "put"} /\ req[r].key = k}

\* runTELAInvalidator receives an event and drops the bodies in memory ...
InvalidateMemory ==
  /\ inv.step = "recv" /\ inbox # <<>>
  /\ LET s == Head(inbox) IN
       /\ inbox' = Tail(inbox)
       /\ inv' = [step |-> "disk", scid |-> s]
       /\ SetLru(LruDrop(s))
       /\ lost' = lost \ {s}
       /\ missed' = (missed \ KeysOf(s)) \union Filling(s)
  /\ UNCHANGED <<stored, toPublish, disk, req, crashes>>

\* Mutant: only the memory is cleared.
InvalidateDiskNot ==
  /\ inv.step = "disk"
  /\ inv' = [step |-> "recv", scid |-> "none"]
  /\ missed' = missed \union Filling(inv.scid)
  /\ UNCHANGED <<stored, toPublish, inbox, lost, lru, disk, req, crashes>>

\* ... and then those in the bucket; an error of the store is logged, and they stay.
InvalidateDisk ==
  /\ inv.step = "disk"
  /\ inv' = [step |-> "recv", scid |-> "none"]
  /\ \/ /\ disk' = Without(disk, KeysOf(inv.scid))
        /\ missed' = missed \union Filling(inv.scid)
     \/ /\ missed' = missed \union Filling(inv.scid) \union (KeysOf(inv.scid) \intersect DOMAIN disk)
        /\ UNCHANGED disk
  /\ UNCHANGED <<stored, toPublish, inbox, lost, lru, req, crashes>>

-----------------------------------------------------------------------------
(* handleGetTELAContent.  The route is resolved before, from the index.     *)

\* Tier 1: a hit moves the entry to the front.
AskMemory(r, k) ==
  /\ req[r].step = "idle"
  /\ IF k \in DOMAIN items
     THEN ring' = ToFront(k) /\ UNCHANGED req
     ELSE req' = [req EXCEPT ![r] = [step |-> "disk", key |-> k]] /\ UNCHANGED ring
  /\ UNCHANGED <<stored, toPublish, inbox, lost, inv, items, size, byScid, disk, missed, crashes>>

\* Tier 2: a body in the bucket goes to memory.
AskDisk(r) ==
  /\ req[r].step = "disk"
  /\ LET k == req[r].key IN
       IF k \in DOMAIN disk
       THEN /\ req' = [req EXCEPT ![r] = [step |-> "put", key |-> k, version |-> disk[k]]]
            /\ missed' = IF inv.step = "disk" /\ inv.scid = k.scid THEN missed \union {k} ELSE missed
       ELSE /\ req' = [req EXCEPT ![r] = [step |-> "load", key |-> k]]
            /\ UNCHANGED missed
  /\ UNCHANGED <<stored, toPublish, inbox, lost, inv, lru, disk, crashes>>

\* loadTELAContent: the body is made from what the index holds, or cannot be.
Load(r) ==
  /\ req[r].step = "load"
  /\ LET k == req[r].key IN
       \/ req' = [req EXCEPT ![r] = [step |-> "save", key |-> k, version |-> stored[k.scid]]]
       \/ req' = [req EXCEPT ![r] = [step |-> "idle"]]
  /\ UNCHANGED <<stored, toPublish, inbox, lost, inv, lru, disk, missed, crashes>>

\* PutTELAContent; an error is dropped.
SaveDisk(r) ==
  /\ req[r].step = "save"
  /\ \/ disk' = Put(disk, req[r].key, req[r].version)
     \/ UNCHANGED disk
  /\ req' = [req EXCEPT ![r].step = "put"]
  /\ UNCHANGED <<stored, toPublish, inbox, lost, inv, lru, missed, crashes>>

SaveMemory(r) ==
  /\ req[r].step = "put"
  /\ SetLru(LruPut(req[r].key, req[r].version))
  /\ req' = [req EXCEPT ![r] = [step |-> "idle"]]
  /\ UNCHANGED <<stored, toPublish, inbox, lost, inv, disk, missed, crashes>>

\* The process restarts: the memory, the requests and the events are gone.
Crash ==
  /\ crashes < MaxCrashes
  /\ crashes' = crashes + 1
  /\ SetLru([ring |-> <<>>, items |-> <<>>, size |-> 0, byScid |-> <<>>])
  /\ lost' = lost \union toPublish \union ToSet(inbox) \union ({inv.scid} \intersect Docs)
  /\ toPublish' = {} /\ inbox' = <<>>
  /\ inv' = [step |-> "recv", scid |-> "none"]
  /\ req' = [r \in Requests |-> [step |-> "idle"]]
  /\ UNCHANGED <<stored, disk, missed>>

Next ==
  \/ \E s \in Docs : CommitChange(s) \/ Publish(s)
  \/ InvalidateMemory \/ InvalidateDisk
  \/ \E r \in Requests : (\E k \in Keys : AskMemory(r, k)) \/ AskDisk(r) \/ Load(r) \/ SaveDisk(r) \/ SaveMemory(r)
  \/ Crash

Spec == Init /\ [][Next]_cacheVars

-----------------------------------------------------------------------------
Request ==
  [step : {"idle"}] \union [step : {"disk", "load"}, key : Keys]
    \union [step : {"save", "put"}, key : Keys, version : 0..MaxVersion]

\* What a cache holds.
Bodies(c) == DOMAIN c \subseteq Keys /\ \A k \in DOMAIN c : c[k] \in 0..MaxVersion

TypeOK ==
  /\ stored \in [Docs -> 0..MaxVersion]
  /\ toPublish \subseteq Docs /\ lost \subseteq Docs
  /\ inbox \in Seq(Docs) /\ Len(inbox) <= InboxSize
  /\ inv \in [step : {"recv"}, scid : {"none"}] \union [step : {"disk"}, scid : Docs]
  /\ Bodies(items) /\ Bodies(disk)
  /\ req \in [Requests -> Request]
  /\ missed \subseteq Keys /\ crashes \in 0..MaxCrashes

\* The index by contract has exactly the keys of the entries: one that is missing
\* would never be invalidated.
IndexAgrees ==
  \A s \in Docs :
    LET keys == KeysOf(s) \intersect DOMAIN items
    IN  IF keys = {} THEN s \notin DOMAIN byScid ELSE s \in DOMAIN byScid /\ byScid[s] = keys

\* The structures of the cache agree: the ring holds each entry once, the index
\* its keys, and the bytes counted are those held, within the capacity.
CacheAccounted ==
  /\ ToSet(ring) = DOMAIN items /\ Len(ring) = Cardinality(DOMAIN items)
  /\ IndexAgrees
  /\ size = Weight(items, DOMAIN items)
  /\ size <= MaxBytes

\* The invalidator has not been told of a change, and may never be.
Untold(s) == s \in toPublish \union ToSet(inbox) \union lost

\* Or it is at it.
Pending(s) == Untold(s) \/ inv = [step |-> "disk", scid |-> s]

Outdated(k, version) == version < stored[k.scid]

\* A body of an outdated version is in a cache only while the invalidation of
\* its contract is on the way, when the bus or a crash lost the event, when a
\* request filled the cache while the contract was being invalidated, or when
\* the store failed to empty the bucket and nothing has invalidated it since.
StaleExcused ==
  \A c \in {items, disk} : \A k \in DOMAIN c :
    Outdated(k, c[k]) => Pending(k.scid) \/ k \in missed

-----------------------------------------------------------------------------
(* The inductive invariant of StaleExcused.  The bucket is emptied last, so *)
(* what is in memory or in a request's hands has no excuse in an            *)
(* invalidation that is under way.                                          *)

MemoryLine ==
  \A k \in DOMAIN items : Outdated(k, items[k]) => Untold(k.scid) \/ k \in missed

RequestLine ==
  \A r \in Requests :
    LET k == req[r].key IN
      req[r].step \in {"save", "put"} /\ Outdated(k, req[r].version) =>
        Untold(k.scid) \/ k \in missed

DiskLine ==
  \A k \in DOMAIN disk : Outdated(k, disk[k]) => Pending(k.scid) \/ k \in missed

CacheInv == TypeOK /\ IndexAgrees /\ MemoryLine /\ RequestLine /\ DiskLine
=============================================================================
