-------------------------- MODULE IndexStoreProofs --------------------------
(***************************************************************************)
(* Proofs about IndexStore, for any blocks, classes and bounds: the store, *)
(* the batches on their way and the chain stay in line, so that the        *)
(* derived indexes answer what the rows would and a contract keeps its     *)
(* class, through every commit, refresh, truncation, reset and crash.      *)
(***************************************************************************)
EXTENDS IndexStore, FiniteSetTheorems, WellFoundedInduction, TLAPS

-----------------------------------------------------------------------------
\* A statement about every number is proved by way of a least counterexample.
LEMMA LeastNumber ==
  ASSUME NEW S \in SUBSET Nat, S # {}
  PROVE  \E x \in S : \A y \in S : x <= y
<1> DEFINE R == OpToRel(<, Nat)
<1>1. \A x, y \in Nat : <<x, y>> \in R <=> x < y
  BY DEF OpToRel
<1>2. IsWellFoundedOn(R, Nat)
  BY NatLessThanWellFounded
<1> HIDE DEF R
<1>3. PICK x \in S : \A y \in S : <<y, x>> \notin R
  BY <1>2, WFMin
<1>4. ASSUME NEW y \in S PROVE x <= y
  <2>1. ~(y < x)
    BY <1>1, <1>3
  <2> QED BY <2>1
<1> QED BY <1>4

-----------------------------------------------------------------------------
(* The listing of classes.                                                 *)

\* The rows and the metadata, whatever holds them.
RowsAgree(rows, idx) ==
  /\ DOMAIN rows = {RowOf(s, idx[s]) : s \in DOMAIN idx}
  /\ \A s \in DOMAIN idx : rows[RowOf(s, idx[s])] = idx[s]

LEMMA RowsAreOfOne ==
  ASSUME NEW s, NEW t, NEW m, NEW n
  PROVE  RowOf(s, m)[3] = s /\ (RowOf(s, m) = RowOf(t, n) => s = t)
BY DEF RowOf

\* A batch, whatever is in it.
LEMMA RowsFlushed ==
  ASSUME NEW d, NEW b, RowsAgree(d.classRows, d.classIdx)
  PROVE  RowsAgree(Flushed(d, b).classRows, Flushed(d, b).classIdx)
<1> DEFINE idx  == b.classes ++ d.classIdx
           new  == [r \in {RowOf(s, b.classes[s]) : s \in DOMAIN b.classes} |-> b.classes[r[3]]]
           moved == {s \in DOMAIN b.classes \cap DOMAIN d.classIdx :
                       RowOf(s, d.classIdx[s]) # RowOf(s, b.classes[s])}
           gone == {RowOf(s, d.classIdx[s]) : s \in moved}
           kept == Without(d.classRows, gone)
           rows == new ++ kept
<1>1. Flushed(d, b).classRows = rows /\ Flushed(d, b).classIdx = idx
  BY DEF Flushed, ClassRowsAfter
<1>2. /\ DOMAIN idx = DOMAIN b.classes \union DOMAIN d.classIdx
      /\ \A s \in DOMAIN b.classes : idx[s] = b.classes[s]
      /\ \A s \in DOMAIN d.classIdx \ DOMAIN b.classes : idx[s] = d.classIdx[s]
  BY DEF ++
<1>3. /\ DOMAIN new = {RowOf(s, b.classes[s]) : s \in DOMAIN b.classes}
      /\ \A s \in DOMAIN b.classes : new[RowOf(s, b.classes[s])] = b.classes[s]
  BY RowsAreOfOne
<1>4. /\ DOMAIN kept = DOMAIN d.classRows \ gone
      /\ \A r \in DOMAIN kept : kept[r] = d.classRows[r]
  <2> HIDE DEF gone
  <2> QED BY DEF Without, Restrict
<1>5. ASSUME NEW s \in DOMAIN d.classIdx \ DOMAIN b.classes
      PROVE  /\ RowOf(s, d.classIdx[s]) \notin DOMAIN new
             /\ RowOf(s, d.classIdx[s]) \in DOMAIN kept
             /\ kept[RowOf(s, d.classIdx[s])] = d.classIdx[s]
  <2>1. RowOf(s, d.classIdx[s]) \notin DOMAIN new /\ RowOf(s, d.classIdx[s]) \notin gone
    BY <1>3, <1>5, RowsAreOfOne
  <2> QED BY <1>4, <2>1 DEF RowsAgree
<1>6. ASSUME NEW r \in DOMAIN kept, r \notin DOMAIN new
      PROVE  \E s \in DOMAIN d.classIdx \ DOMAIN b.classes : r = RowOf(s, d.classIdx[s])
  <2>1. PICK s \in DOMAIN d.classIdx : r = RowOf(s, d.classIdx[s])
    BY <1>4 DEF RowsAgree
  <2>2. s \notin DOMAIN b.classes
    BY <1>3, <1>4, <1>6, <2>1
  <2> QED BY <2>1, <2>2
<1>7. /\ DOMAIN rows = DOMAIN new \union DOMAIN kept
      /\ \A r \in DOMAIN rows : rows[r] = IF r \in DOMAIN new THEN new[r] ELSE kept[r]
  <2> HIDE DEF new, kept
  <2> QED BY DEF ++
<1> HIDE DEF idx, new, moved, gone, kept, rows
<1>8. DOMAIN rows = {RowOf(s, idx[s]) : s \in DOMAIN idx}
  <2>1. ASSUME NEW r \in DOMAIN rows
        PROVE  r \in {RowOf(s, idx[s]) : s \in DOMAIN idx}
    BY <1>2, <1>3, <1>6, <1>7
  <2>2. ASSUME NEW s \in DOMAIN idx
        PROVE  RowOf(s, idx[s]) \in DOMAIN rows
    BY <1>2, <1>3, <1>5, <1>7
  <2> QED BY <2>1, <2>2
<1>9. ASSUME NEW s \in DOMAIN idx PROVE rows[RowOf(s, idx[s])] = idx[s]
  BY <1>2, <1>3, <1>5, <1>7
<1> QED BY <1>1, <1>8, <1>9 DEF RowsAgree

\* A truncation: the rows of the contracts that go, go with them.
LEMMA RowsCut ==
  ASSUME NEW rows, NEW idx, RowsAgree(rows, idx), NEW gone
  PROVE  RowsAgree(Without(rows, {RowOf(s, idx[s]) : s \in gone \cap DOMAIN idx}),
                   Without(idx, gone))
<1> DEFINE cut == {RowOf(s, idx[s]) : s \in gone \cap DOMAIN idx}
           left == Without(rows, cut)
           rest == Without(idx, gone)
<1>1. /\ DOMAIN left = DOMAIN rows \ cut /\ DOMAIN rest = DOMAIN idx \ gone
      /\ \A r \in DOMAIN left : left[r] = rows[r]
      /\ \A s \in DOMAIN rest : rest[s] = idx[s]
  <2> HIDE DEF cut
  <2> QED BY DEF Without, Restrict
<1>2. \A s \in DOMAIN idx : RowOf(s, idx[s]) \in cut <=> s \in gone
  BY RowsAreOfOne
<1> HIDE DEF cut, left, rest
<1>3. RowsAgree(left, rest)
  BY <1>1, <1>2 DEF RowsAgree
<1> QED BY <1>3 DEF cut, left, rest

LEMMA CutShape ==
  ASSUME NEW d, {"classIdx", "classRows"} \subseteq DOMAIN d, NEW h
  PROVE  /\ DOMAIN Cut(d, h) = DOMAIN d
         /\ \E gone :
              /\ Cut(d, h).classIdx = Without(d.classIdx, gone)
              /\ Cut(d, h).classRows = Without(d.classRows,
                   {RowOf(s, d.classIdx[s]) : s \in gone \cap DOMAIN d.classIdx})
BY DEF Cut

ListingInv == {"classIdx", "classRows"} \subseteq DOMAIN db /\ RowsAgree(db.classRows, db.classIdx)

LEMMA ListingStep ==
  ASSUME ListingInv, [Next]_vars PROVE ListingInv'
<1>1. ASSUME NEW b, db' = Flushed(db, b) PROVE ListingInv'
  <2>1. RowsAgree(Flushed(db, b).classRows, Flushed(db, b).classIdx)
    BY RowsFlushed DEF ListingInv
  <2>2. {"classIdx", "classRows"} \subseteq DOMAIN Flushed(db, b)
    BY DEF Flushed
  <2> QED BY <1>1, <2>1, <2>2 DEF ListingInv
<1>2. ASSUME NEW h, db' = Cut(db, h) PROVE ListingInv'
  <2>1. PICK gone :
          /\ Cut(db, h).classIdx = Without(db.classIdx, gone)
          /\ Cut(db, h).classRows = Without(db.classRows,
               {RowOf(s, db.classIdx[s]) : s \in gone \cap DOMAIN db.classIdx})
    BY CutShape DEF ListingInv
  <2>2. DOMAIN Cut(db, h) = DOMAIN db
    BY CutShape DEF ListingInv
  <2>3. RowsAgree(Cut(db, h).classRows, Cut(db, h).classIdx)
    BY <2>1, RowsCut DEF ListingInv
  <2> QED BY <1>2, <2>2, <2>3 DEF ListingInv
<1>3. ASSUME db' = ResetDB(db) PROVE ListingInv'
  BY <1>3 DEF ResetDB, EmptyDB, Empty, ListingInv, RowsAgree
<1>4. ASSUME UNCHANGED db PROVE ListingInv'
  BY <1>4 DEF ListingInv
<1>5. CASE FlushBatch
  BY <1>1, <1>5 DEF FlushBatch
<1>6. CASE RefreshCommit
  BY <1>1, <1>6 DEF RefreshCommit
<1>7. CASE TruncateToHeight
  BY <1>2, <1>7 DEF TruncateToHeight, Restart
<1>8. CASE ResetIndex
  BY <1>3, <1>8 DEF ResetIndex, Restart
<1>9. CASE ProcessBlock
  BY <1>4, <1>9 DEF ProcessBlock
<1>10. CASE SendBatch \/ RefreshBegin \/ Crash \/ UNCHANGED vars
  BY <1>4, <1>10 DEF SendBatch, RefreshBegin, Crash, Restart, vars
<1> QED BY <1>5, <1>6, <1>7, <1>8, <1>9, <1>10 DEF Next

\* The ordered listing of classes is the metadata, for whatever blocks and
\* batches: no commit, refresh, truncation, reset or restart leaves a row of a
\* class a contract no longer has, or a contract without its row (FlushBatch,
\* TruncateToHeight, ResetIndex).
THEOREM ClassRowsFollow == Spec => []ClassRowsAgree
<1>1. Init => ListingInv
  BY DEF Init, EmptyDB, Empty, ListingInv, RowsAgree
<1>2. ListingInv => ClassRowsAgree
  BY DEF ListingInv, RowsAgree, ClassRowsAgree
<1> QED BY <1>1, <1>2, ListingStep, PTL DEF Spec

-----------------------------------------------------------------------------
(* The rows of a batch.                                                    *)

\* p is g, and f where g has no entry.
JoinTo(p, g, f) ==
  /\ DOMAIN p = DOMAIN g \cup DOMAIN f
  /\ \A k \in DOMAIN g : p[k] = g[k]
  /\ \A k \in DOMAIN f \ DOMAIN g : p[k] = f[k]

LEMMA JoinIs ==
  ASSUME NEW g, NEW f
  PROVE  JoinTo(g ++ f, g, f)
BY DEF ++, JoinTo

LEMMA JoinDomain ==
  ASSUME NEW g, NEW f
  PROVE  DOMAIN (g ++ f) = DOMAIN g \cup DOMAIN f
BY JoinIs DEF JoinTo

\* p is f with k at v.
PutTo(p, f, k, v) ==
  /\ DOMAIN p = DOMAIN f \cup {k} /\ p[k] = v
  /\ \A x \in DOMAIN f : x # k => p[x] = f[x]

LEMMA PutIs ==
  ASSUME NEW f, NEW k, NEW v
  PROVE  PutTo(Put(f, k, v), f, k, v)
<1> DEFINE g == [x \in {k} |-> v]
<1>1. DOMAIN g = {k} /\ g[k] = v /\ Put(f, k, v) = g ++ f
  BY DEF Put
<1> HIDE DEF g
<1>2. JoinTo(Put(f, k, v), g, f)
  BY <1>1, JoinIs
<1> QED BY <1>1, <1>2 DEF JoinTo, PutTo

LEMMA PutDomain ==
  ASSUME NEW f, NEW k, NEW v
  PROVE  DOMAIN Put(f, k, v) = DOMAIN f \cup {k}
BY PutIs DEF PutTo

LEMMA MergeIs ==
  ASSUME NEW f, NEW g
  PROVE  /\ DOMAIN MergeInto(f, g) = DOMAIN f \cup DOMAIN g
         /\ \A k \in DOMAIN g : MergeInto(f, g)[k] =
              IF k \in DOMAIN f THEN Merged(f[k], g[k]) ELSE g[k]
         /\ \A k \in DOMAIN f \ DOMAIN g : MergeInto(f, g)[k] = f[k]
<1> DEFINE m == [k \in DOMAIN g |-> IF k \in DOMAIN f THEN Merged(f[k], g[k]) ELSE g[k]]
<1>1. MergeInto(f, g) = m ++ f
  BY DEF MergeInto
<1>2. DOMAIN m = DOMAIN g
  OBVIOUS
<1> HIDE DEF m
<1>3. JoinTo(MergeInto(f, g), m, f)
  BY <1>1, JoinIs
<1>4. \A k \in DOMAIN g : m[k] = IF k \in DOMAIN f THEN Merged(f[k], g[k]) ELSE g[k]
  BY DEF m
<1> QED BY <1>2, <1>3, <1>4 DEF JoinTo

LEMMA MergeDomain ==
  ASSUME NEW f, NEW g
  PROVE  DOMAIN MergeInto(f, g) = DOMAIN f \cup DOMAIN g
BY MergeIs

\* The edges of an address and a contract, with the heights they span.
Edges(f) == \A k \in DOMAIN f : f[k].first \in Nat /\ f[k].last \in Nat

Spans(f, k, h) == k \in DOMAIN f /\ f[k].first <= h /\ h <= f[k].last

\* A merge keeps what either side spans.
LEMMA MergeSpans ==
  ASSUME NEW f, NEW g, Edges(f), Edges(g)
  PROVE  /\ Edges(MergeInto(f, g))
         /\ \A k, h : h \in Nat /\ (Spans(f, k, h) \/ Spans(g, k, h)) =>
              Spans(MergeInto(f, g), k, h)
<1> DEFINE m == MergeInto(f, g)
<1>1. /\ DOMAIN m = DOMAIN f \cup DOMAIN g
      /\ \A k \in DOMAIN g : m[k] = IF k \in DOMAIN f THEN Merged(f[k], g[k]) ELSE g[k]
      /\ \A k \in DOMAIN f \ DOMAIN g : m[k] = f[k]
  BY MergeIs
<1> HIDE DEF m
<1>2. \A k \in DOMAIN g \cap DOMAIN f :
        /\ m[k].first = Least(f[k].first, g[k].first)
        /\ m[k].last = Most(f[k].last, g[k].last)
  BY <1>1 DEF Merged
<1>3. Edges(m)
  BY <1>1, <1>2 DEF Edges, Least, Most
<1>4. ASSUME NEW k, NEW h \in Nat, Spans(f, k, h) \/ Spans(g, k, h) PROVE Spans(m, k, h)
  <2>1. CASE k \in DOMAIN g \cap DOMAIN f
    BY <1>1, <1>2, <1>4, <2>1 DEF Edges, Spans, Least, Most
  <2>2. CASE k \in DOMAIN g \ DOMAIN f
    BY <1>1, <1>4, <2>2 DEF Spans
  <2>3. CASE k \in DOMAIN f \ DOMAIN g
    BY <1>1, <1>4, <2>3 DEF Spans
  <2> QED BY <1>4, <2>1, <2>2, <2>3 DEF Spans
<1> QED BY <1>3, <1>4 DEF m

LEMMA TouchedSpans ==
  ASSUME NEW f, Edges(f), NEW e, NEW n \in Nat
  PROVE  /\ DOMAIN Touched(f, e, n) = DOMAIN f \cup {e} /\ Edges(Touched(f, e, n))
         /\ Spans(Touched(f, e, n), e, n)
         /\ \A k, h : h \in Nat /\ Spans(f, k, h) => Spans(Touched(f, e, n), k, h)
<1> DEFINE g == [x \in {e} |-> Touches(n, 1)]
<1>1. Edges(g) /\ Spans(g, e, n) /\ DOMAIN g = {e}
  BY DEF Edges, Spans, Touches
<1>2. Touched(f, e, n) = MergeInto(f, g)
  BY DEF Touched
<1> HIDE DEF g
<1>3. /\ Edges(MergeInto(f, g))
      /\ \A k, h : h \in Nat /\ (Spans(f, k, h) \/ Spans(g, k, h)) =>
           Spans(MergeInto(f, g), k, h)
  BY <1>1, MergeSpans
<1>4. DOMAIN MergeInto(f, g) = DOMAIN f \cup {e}
  BY <1>1, MergeIs
<1> QED BY <1>1, <1>2, <1>3, <1>4

\* The parts of BatchFits.
LEMMA FitsParts ==
  ASSUME NEW b
  PROVE  /\ RowTypes(b) =>
              /\ Edges(b.addrScids) /\ DOMAIN b.addrScids \subseteq Addrs \X Scids
              /\ \A r \in b.invokes : r.h \in Nat
         /\ InvokesCovered(b) <=> \A r \in b.invokes :
              /\ <<r.scid, r.h>> \in DOMAIN b.heights
              /\ r.sender # NoAddr => Spans(b.addrScids, <<r.sender, r.scid>>, r.h)
BY DEF RowTypes, Edges, InvokesCovered, Spans

LEMMA BatchFields ==
  DOMAIN EmptyBatch =
    {"owners", "ownerScids", "invokes", "scvars", "heights", "normTx", "invalid", "counts",
     "hashes", "installs", "classes", "codes", "addrScids", "last"}
BY DEF EmptyBatch

\* Who owns a contract depends on these two fields alone.
InstalledBy(owners, installs, c) ==
  /\ \A k \in DOMAIN installs : \E i \in DOMAIN c[k[1]].txs :
       Installs(c, k[1], i, k[2]) /\ installs[k] = c[k[1]].txs[i].sender
  /\ \A s \in DOMAIN owners : \E k \in DOMAIN installs :
       k[2] = s /\ installs[k] = owners[s]

LEMMA OwnersSame ==
  ASSUME NEW b, NEW c, OwnersInstalled(b, c), NEW x,
         x.owners = b.owners, x.installs = b.installs
  PROVE  OwnersInstalled(x, c)
<1>1. InstalledBy(b.owners, b.installs, c)
  BY DEF OwnersInstalled, InstalledBy
<1>2. InstalledBy(x.owners, x.installs, c)
  BY <1>1
<1> QED BY <1>2 DEF OwnersInstalled, InstalledBy

\* What the operations of WriteBatch do to its fields.
LEMMA RecordedIs ==
  ASSUME NEW b, DOMAIN b = DOMAIN EmptyBatch, NEW tx, NEW txid, NEW h,
         NEW r, r = Recorded(b, tx, txid, h)
  PROVE  /\ DOMAIN r = DOMAIN EmptyBatch
         /\ r.owners = b.owners /\ r.ownerScids = b.ownerScids /\ r.scvars = b.scvars
         /\ r.normTx = b.normTx /\ r.hashes = b.hashes /\ r.installs = b.installs
         /\ r.classes = b.classes
         /\ r.invokes = b.invokes \cup
              {[scid |-> tx.scid, sender |-> tx.sender, txid |-> txid, h |-> h]}
         /\ DOMAIN r.heights = DOMAIN b.heights \cup {<<tx.scid, h>>}
         /\ r.addrScids = IF tx.sender = NoAddr THEN b.addrScids
                          ELSE Touched(b.addrScids, <<tx.sender, tx.scid>>, h)
<1> DEFINE e == [scid |-> tx.scid, sender |-> tx.sender, txid |-> txid, h |-> h]
           n == Get(b.heights, <<tx.scid, h>>, 0) + 1
           b1 == [b EXCEPT !.invokes = @ \cup {e}]
           b2 == [b1 EXCEPT !.heights = Put(@, <<tx.scid, h>>, n)]
           b3 == [b2 EXCEPT !.addrScids = Touched(@, <<tx.sender, tx.scid>>, h)]
<1>1. b1 = AddInvocation(b, tx.scid, tx.sender, txid, h)
  BY DEF AddInvocation
<1>2. /\ DOMAIN b1 = DOMAIN EmptyBatch /\ b1.invokes = b.invokes \cup {e}
      /\ b1.owners = b.owners /\ b1.ownerScids = b.ownerScids /\ b1.scvars = b.scvars
      /\ b1.normTx = b.normTx /\ b1.hashes = b.hashes /\ b1.installs = b.installs
      /\ b1.classes = b.classes /\ b1.heights = b.heights /\ b1.addrScids = b.addrScids
  BY BatchFields
<1> HIDE DEF b1, e
<1>3. b2 = AddInteractionHeight(b1, tx.scid, h)
  BY <1>2 DEF AddInteractionHeight
<1>4. /\ DOMAIN b2 = DOMAIN EmptyBatch /\ b2.invokes = b.invokes \cup {e}
      /\ b2.owners = b.owners /\ b2.ownerScids = b.ownerScids /\ b2.scvars = b.scvars
      /\ b2.normTx = b.normTx /\ b2.hashes = b.hashes /\ b2.installs = b.installs
      /\ b2.classes = b.classes /\ b2.heights = Put(b.heights, <<tx.scid, h>>, n)
      /\ b2.addrScids = b.addrScids
  BY <1>2, BatchFields
<1>5. DOMAIN Put(b.heights, <<tx.scid, h>>, n) = DOMAIN b.heights \cup {<<tx.scid, h>>}
  BY PutDomain
<1> HIDE DEF b2, n
<1>6. /\ DOMAIN b3 = DOMAIN EmptyBatch /\ b3.invokes = b.invokes \cup {e}
      /\ b3.owners = b.owners /\ b3.ownerScids = b.ownerScids /\ b3.scvars = b.scvars
      /\ b3.normTx = b.normTx /\ b3.hashes = b.hashes /\ b3.installs = b.installs
      /\ b3.classes = b.classes /\ b3.heights = b2.heights
      /\ b3.addrScids = Touched(b.addrScids, <<tx.sender, tx.scid>>, h)
  BY <1>4, BatchFields
<1>7. r = IF tx.sender = NoAddr THEN b2 ELSE b3
  BY <1>1, <1>3 DEF Recorded, AddAddrSCID
<1> HIDE DEF b3
<1>8. r.invokes = b.invokes \cup {e}
  BY <1>4, <1>6, <1>7
<1> QED BY <1>4, <1>5, <1>6, <1>7, <1>8 DEF e

LEMMA RecordedFits ==
  ASSUME NEW b, NEW c, NEW top, BatchFits(b, c, top), NEW tx, tx.scid \in Scids,
         tx.sender \in Addrs \cup {NoAddr}, NEW txid, NEW h \in 1 .. MaxHeight, h <= top
  PROVE  BatchFits(Recorded(b, tx, txid, h), c, top)
<1> DEFINE r == Recorded(b, tx, txid, h)
           e == [scid |-> tx.scid, sender |-> tx.sender, txid |-> txid, h |-> h]
           a == Touched(b.addrScids, <<tx.sender, tx.scid>>, h)
<1>1. /\ DOMAIN b = DOMAIN EmptyBatch /\ RowTypes(b) /\ RowsUpTo(b, top) /\ OwnersAgree(b)
      /\ OwnersInstalled(b, c) /\ InvokesCovered(b) /\ DOMAIN b.classes \subseteq Scids
      /\ \A k \in DOMAIN b.scvars : k[2] <= top
      /\ \A x \in b.invokes : x.h <= top
      /\ \A g \in DOMAIN b.hashes : g <= top
  BY DEF BatchFits
<1>2. /\ DOMAIN r = DOMAIN EmptyBatch
      /\ r.owners = b.owners /\ r.ownerScids = b.ownerScids /\ r.scvars = b.scvars
      /\ r.normTx = b.normTx /\ r.hashes = b.hashes /\ r.installs = b.installs
      /\ r.classes = b.classes /\ r.invokes = b.invokes \cup {e}
      /\ DOMAIN r.heights = DOMAIN b.heights \cup {<<tx.scid, h>>}
      /\ r.addrScids = IF tx.sender = NoAddr THEN b.addrScids ELSE a
  BY <1>1, RecordedIs
<1>3. e.scid = tx.scid /\ e.sender = tx.sender /\ e.h = h
  OBVIOUS
<1> HIDE DEF r, e
<1>4. h \in Nat
  OBVIOUS
<1>5. /\ DOMAIN r.addrScids \subseteq DOMAIN b.addrScids \cup (Addrs \X Scids) /\ Edges(r.addrScids)
      /\ tx.sender # NoAddr => Spans(r.addrScids, <<tx.sender, tx.scid>>, h)
      /\ \A k, g : g \in Nat /\ Spans(b.addrScids, k, g) => Spans(r.addrScids, k, g)
  <2>1. Edges(b.addrScids)
    BY <1>1, FitsParts
  <2>2. /\ DOMAIN a = DOMAIN b.addrScids \cup {<<tx.sender, tx.scid>>} /\ Edges(a)
        /\ Spans(a, <<tx.sender, tx.scid>>, h)
        /\ \A k, g : g \in Nat /\ Spans(b.addrScids, k, g) => Spans(a, k, g)
    BY <1>4, <2>1, TouchedSpans
  <2> HIDE DEF a
  <2>3. CASE tx.sender = NoAddr
    BY <1>2, <2>1, <2>3
  <2>4. CASE tx.sender # NoAddr
    BY <1>2, <2>2, <2>4
  <2> QED BY <2>3, <2>4
<1> HIDE DEF a
<1>6. RowTypes(r)
  BY <1>1, <1>2, <1>3, <1>5 DEF RowTypes, Edges
<1>7. RowsUpTo(r, top)
  BY <1>1, <1>2 DEF RowsUpTo
<1>8. OwnersAgree(r)
  <2>1. OwnersAgree(b) /\ r.owners = b.owners /\ r.ownerScids = b.ownerScids
    BY <1>1, <1>2
  <2> QED BY <2>1, Zenon DEF OwnersAgree
<1>9. OwnersInstalled(r, c)
  <2>1. OwnersInstalled(b, c) /\ r.owners = b.owners /\ r.installs = b.installs
    BY <1>1, <1>2
  <2> QED BY <2>1, OwnersSame
<1>10. InvokesCovered(r)
  <2>1. \A x \in b.invokes :
          /\ <<x.scid, x.h>> \in DOMAIN b.heights /\ x.h \in Nat
          /\ x.sender # NoAddr => Spans(b.addrScids, <<x.sender, x.scid>>, x.h)
    BY <1>1, FitsParts
  <2>2. \A x \in r.invokes :
          /\ <<x.scid, x.h>> \in DOMAIN r.heights
          /\ x.sender # NoAddr => Spans(r.addrScids, <<x.sender, x.scid>>, x.h)
    BY <1>2, <1>3, <1>5, <2>1
  <2> QED BY <2>2, FitsParts
<1> QED BY <1>1, <1>2, <1>3, <1>6, <1>7, <1>8, <1>9, <1>10 DEF BatchFits, r

\* The fields that tie a batch together, and those that stand alone.
SameRows(x, b) ==
  /\ x.owners = b.owners /\ x.ownerScids = b.ownerScids /\ x.invokes = b.invokes
  /\ x.heights = b.heights /\ x.normTx = b.normTx /\ x.installs = b.installs
  /\ x.addrScids = b.addrScids

LEMMA FitsSame ==
  ASSUME NEW b, NEW c, NEW top, BatchFits(b, c, top), NEW h \in 1 .. MaxHeight, h <= top,
         NEW x, DOMAIN x = DOMAIN EmptyBatch, SameRows(x, b),
         DOMAIN x.scvars \subseteq DOMAIN b.scvars \cup (Scids \X {h}),
         DOMAIN x.hashes \subseteq DOMAIN b.hashes \cup {h},
         DOMAIN x.classes \subseteq Scids
  PROVE  BatchFits(x, c, top)
<1>1. /\ RowTypes(b) /\ RowsUpTo(b, top) /\ OwnersAgree(b)
      /\ OwnersInstalled(b, c) /\ InvokesCovered(b)
      /\ \A k \in DOMAIN b.scvars : k[2] <= top
      /\ \A y \in b.invokes : y.h <= top
      /\ \A g \in DOMAIN b.hashes : g <= top
  BY DEF BatchFits
<1>2. RowTypes(x)
  BY <1>1 DEF RowTypes, SameRows
<1>3. RowsUpTo(x, top)
  BY <1>1 DEF RowsUpTo, SameRows
<1>4. OwnersAgree(x)
  BY <1>1, Zenon DEF OwnersAgree, SameRows
<1>5. OwnersInstalled(x, c)
  BY <1>1, OwnersSame DEF SameRows
<1>6. InvokesCovered(x)
  BY <1>1, Zenon DEF InvokesCovered, SameRows
<1>7. /\ \A k \in DOMAIN x.scvars : k[2] <= top
      /\ \A y \in x.invokes : y.h <= top
      /\ \A g \in DOMAIN x.hashes : g <= top
  BY <1>1 DEF SameRows
<1> QED BY <1>2, <1>3, <1>4, <1>5, <1>6, <1>7 DEF BatchFits

\* The operations that add such a field.
LEMMA AddedFits ==
  ASSUME NEW b, NEW c, NEW top, BatchFits(b, c, top), NEW h \in 1 .. MaxHeight, h <= top,
         NEW s \in Scids, NEW v
  PROVE  /\ BatchFits(AddVariables(b, s, h, v), c, top)
         /\ BatchFits(AddClass(b, s, v), c, top)
         /\ BatchFits(AddSCCode(b, s, h, v), c, top)
         /\ BatchFits([b EXCEPT !.invalid = @ \cup {s}], c, top)
<1>1. DOMAIN b = DOMAIN EmptyBatch /\ DOMAIN b.classes \subseteq Scids
  BY DEF BatchFits
<1>2. BatchFits(AddVariables(b, s, h, v), c, top)
  <2> DEFINE x == AddVariables(b, s, h, v)
  <2>1. /\ DOMAIN x = DOMAIN EmptyBatch /\ SameRows(x, b) /\ x.hashes = b.hashes
        /\ x.classes = b.classes /\ x.scvars = Put(b.scvars, <<s, h>>, v)
    BY <1>1, BatchFields DEF AddVariables, SameRows
  <2>2. DOMAIN Put(b.scvars, <<s, h>>, v) = DOMAIN b.scvars \cup {<<s, h>>}
    BY PutDomain
  <2>3. DOMAIN x.scvars \subseteq DOMAIN b.scvars \cup (Scids \X {h})
    BY <2>1, <2>2
  <2>4. DOMAIN x.hashes \subseteq DOMAIN b.hashes \cup {h} /\ DOMAIN x.classes \subseteq Scids
    BY <1>1, <2>1
  <2> HIDE DEF x
  <2>5. BatchFits(x, c, top)
    BY <2>1, <2>3, <2>4, FitsSame
  <2> QED BY <2>5 DEF x
<1>3. BatchFits(AddClass(b, s, v), c, top)
  <2> DEFINE x == AddClass(b, s, v)
  <2>1. /\ DOMAIN x = DOMAIN EmptyBatch /\ SameRows(x, b) /\ x.hashes = b.hashes
        /\ x.scvars = b.scvars /\ x.classes = Put(b.classes, s, v)
    BY <1>1, BatchFields DEF AddClass, SameRows
  <2>2. DOMAIN Put(b.classes, s, v) = DOMAIN b.classes \cup {s}
    BY PutDomain
  <2>3. DOMAIN x.classes \subseteq Scids /\ DOMAIN x.hashes \subseteq DOMAIN b.hashes \cup {h}
        /\ DOMAIN x.scvars \subseteq DOMAIN b.scvars \cup (Scids \X {h})
    BY <1>1, <2>1, <2>2
  <2> HIDE DEF x
  <2>4. BatchFits(x, c, top)
    BY <2>1, <2>3, FitsSame
  <2> QED BY <2>4 DEF x
<1>4. BatchFits(AddSCCode(b, s, h, v), c, top)
  <2> DEFINE x == AddSCCode(b, s, h, v)
  <2>1. /\ DOMAIN x = DOMAIN EmptyBatch /\ SameRows(x, b) /\ x.hashes = b.hashes
        /\ x.scvars = b.scvars /\ x.classes = b.classes
    BY <1>1, BatchFields DEF AddSCCode, SameRows
  <2>2. DOMAIN x.classes \subseteq Scids /\ DOMAIN x.hashes \subseteq DOMAIN b.hashes \cup {h}
        /\ DOMAIN x.scvars \subseteq DOMAIN b.scvars \cup (Scids \X {h})
    BY <1>1, <2>1
  <2> HIDE DEF x
  <2>3. BatchFits(x, c, top)
    BY <2>1, <2>2, FitsSame
  <2> QED BY <2>3 DEF x
<1>5. BatchFits([b EXCEPT !.invalid = @ \cup {s}], c, top)
  <2> DEFINE x == [b EXCEPT !.invalid = @ \cup {s}]
  <2>1. /\ DOMAIN x = DOMAIN EmptyBatch /\ SameRows(x, b) /\ x.hashes = b.hashes
        /\ x.scvars = b.scvars /\ x.classes = b.classes
    BY <1>1, BatchFields DEF SameRows
  <2>2. DOMAIN x.classes \subseteq Scids /\ DOMAIN x.hashes \subseteq DOMAIN b.hashes \cup {h}
        /\ DOMAIN x.scvars \subseteq DOMAIN b.scvars \cup (Scids \X {h})
    BY <1>1, <2>1
  <2> HIDE DEF x
  <2>3. BatchFits(x, c, top)
    BY <2>1, <2>2, FitsSame
  <2> QED BY <2>3 DEF x
<1> QED BY <1>2, <1>3, <1>4, <1>5

LEMMA HashFits ==
  ASSUME NEW b, NEW c, NEW top, BatchFits(b, c, top), NEW h \in 1 .. MaxHeight, h <= top,
         NEW hash
  PROVE  BatchFits(AddBlockHash(b, h, hash), c, top)
<1>1. DOMAIN b = DOMAIN EmptyBatch /\ DOMAIN b.classes \subseteq Scids
  BY DEF BatchFits
<1> DEFINE x == AddBlockHash(b, h, hash)
<1>2. /\ DOMAIN x = DOMAIN EmptyBatch /\ SameRows(x, b) /\ x.hashes = Put(b.hashes, h, hash)
      /\ x.scvars = b.scvars /\ x.classes = b.classes
  BY <1>1, BatchFields DEF AddBlockHash, SameRows
<1>3. DOMAIN Put(b.hashes, h, hash) = DOMAIN b.hashes \cup {h}
  BY PutDomain
<1>4. DOMAIN x.classes \subseteq Scids /\ DOMAIN x.hashes \subseteq DOMAIN b.hashes \cup {h}
      /\ DOMAIN x.scvars \subseteq DOMAIN b.scvars \cup (Scids \X {h})
  BY <1>1, <1>2, <1>3
<1> HIDE DEF x
<1>5. BatchFits(x, c, top)
  BY <1>2, <1>4, FitsSame
<1> QED BY <1>5 DEF x

\* The install of a contract the chain installs once.
LEMMA OwnedFits ==
  ASSUME NEW b, NEW c, NEW top, BatchFits(b, c, top), OneInstall(c),
         NEW h \in 1 .. MaxHeight, h <= top, NEW s \in Scids, NEW i, Installs(c, h, i, s),
         NEW a \in Addrs \cup {NoAddr}, a = c[h].txs[i].sender
  PROVE  BatchFits(AddInstall(AddOwner(b, s, a), s, h, a), c, top)
<1> DEFINE x == AddInstall(AddOwner(b, s, a), s, h, a)
<1>1. /\ DOMAIN b = DOMAIN EmptyBatch /\ RowTypes(b) /\ RowsUpTo(b, top)
      /\ OwnersInstalled(b, c) /\ InvokesCovered(b) /\ DOMAIN b.classes \subseteq Scids
      /\ \A k \in DOMAIN b.scvars : k[2] <= top
      /\ \A y \in b.invokes : y.h <= top
      /\ \A g \in DOMAIN b.hashes : g <= top
  BY DEF BatchFits
<1>2. OwnersAgree(b)
  BY DEF BatchFits
<1>3. /\ DOMAIN x = DOMAIN EmptyBatch
      /\ x.owners = Put(b.owners, s, a) /\ x.installs = Put(b.installs, <<h, s>>, a)
      /\ x.invokes = b.invokes /\ x.heights = b.heights /\ x.normTx = b.normTx
      /\ x.addrScids = b.addrScids /\ x.scvars = b.scvars /\ x.hashes = b.hashes
      /\ x.classes = b.classes
  BY <1>1, BatchFields DEF AddInstall, AddOwner
<1>4. x.ownerScids = IF a = NoAddr THEN b.ownerScids ELSE b.ownerScids \cup {<<a, s>>}
  BY <1>1, BatchFields DEF AddInstall, AddOwner
<1> HIDE DEF x
<1>5. /\ DOMAIN x.owners = DOMAIN b.owners \cup {s} /\ x.owners[s] = a
      /\ \A t \in DOMAIN b.owners : t # s => x.owners[t] = b.owners[t]
      /\ DOMAIN x.installs = DOMAIN b.installs \cup {<<h, s>>} /\ x.installs[<<h, s>>] = a
      /\ \A k \in DOMAIN b.installs : k # <<h, s>> => x.installs[k] = b.installs[k]
  <2> DEFINE f == b.owners
             g == b.installs
             q == <<h, s>>
  <2> HIDE DEF f, g, q
  <2>1. PutTo(x.owners, f, s, a) /\ PutTo(x.installs, g, q, a)
    BY <1>3, PutIs DEF f, g, q
  <2> QED BY <2>1 DEF PutTo, f, g, q
<1>6. \A k \in DOMAIN b.installs : k[2] = s => k = <<h, s>> /\ b.installs[k] = a
  <2> SUFFICES ASSUME NEW k \in DOMAIN b.installs, k[2] = s
               PROVE  k = <<h, s>> /\ b.installs[k] = a
    OBVIOUS
  <2>1. PICK j \in DOMAIN c[k[1]].txs :
          Installs(c, k[1], j, s) /\ b.installs[k] = c[k[1]].txs[j].sender
    BY <1>1 DEF OwnersInstalled
  <2>2. k[1] = h /\ j = i
    BY <2>1 DEF OneInstall, Installs
  <2>3. k = <<k[1], k[2]>>
    BY <1>1 DEF RowTypes
  <2> QED BY <2>1, <2>2, <2>3
<1>7. s \in DOMAIN b.owners => b.owners[s] = a
  BY <1>1, <1>6 DEF OwnersInstalled
<1>8. OwnersInstalled(x, c)
  <2>1. ASSUME NEW k \in DOMAIN x.installs
        PROVE  \E j \in DOMAIN c[k[1]].txs :
                 Installs(c, k[1], j, k[2]) /\ x.installs[k] = c[k[1]].txs[j].sender
    <3>1. CASE k = <<h, s>>
      <4>1. k[1] = h /\ k[2] = s /\ i \in DOMAIN c[h].txs
        BY <3>1 DEF Installs
      <4> QED BY <1>5, <3>1, <4>1
    <3>2. CASE k # <<h, s>>
      BY <1>1, <1>5, <3>2 DEF OwnersInstalled
    <3> QED BY <3>1, <3>2
  <2>2. ASSUME NEW t \in DOMAIN x.owners
        PROVE  \E k \in DOMAIN x.installs : k[2] = t /\ x.installs[k] = x.owners[t]
    <3>1. CASE t = s
      <4>1. <<h, s>>[2] = s
        OBVIOUS
      <4> QED BY <1>5, <3>1, <4>1
    <3>2. CASE t # s
      <4>1. PICK k \in DOMAIN b.installs : k[2] = t /\ b.installs[k] = b.owners[t]
        BY <1>1, <1>5, <3>2 DEF OwnersInstalled
      <4>2. k # <<h, s>>
        BY <3>2, <4>1
      <4> QED BY <1>5, <3>2, <4>1, <4>2
    <3> QED BY <3>1, <3>2
  <2> QED BY <2>1, <2>2 DEF OwnersInstalled
<1>9. OwnersAgree(x)
  <2> SUFFICES ASSUME NEW e \in Addrs, NEW t \in Scids
               PROVE  <<e, t>> \in x.ownerScids <=> t \in DOMAIN x.owners /\ x.owners[t] = e
    BY DEF OwnersAgree
  <2>1. <<e, t>> \in b.ownerScids <=> t \in DOMAIN b.owners /\ b.owners[t] = e
    BY <1>2 DEF OwnersAgree
  <2>2. <<e, t>> \in x.ownerScids <=> <<e, t>> \in b.ownerScids \/ (e = a /\ t = s)
    BY <1>4, StoreAssumption
  <2>3. CASE t = s
    BY <1>5, <1>7, <2>1, <2>2, <2>3
  <2>4. CASE t # s
    BY <1>5, <2>1, <2>2, <2>4
  <2> QED BY <2>3, <2>4
<1>10. RowTypes(x)
  <2>1. x.ownerScids \subseteq Addrs \X Scids /\ DOMAIN x.owners \subseteq Scids
        /\ DOMAIN x.installs \subseteq (1 .. MaxHeight) \X Scids
    BY <1>1, <1>4, <1>5 DEF RowTypes
  <2> QED BY <1>1, <1>3, <2>1 DEF RowTypes
<1>11. RowsUpTo(x, top)
  <2>1. \A k \in DOMAIN x.installs : k[1] <= top
    BY <1>1, <1>5 DEF RowsUpTo
  <2> QED BY <1>1, <1>3, <2>1 DEF RowsUpTo
<1>12. InvokesCovered(x)
  BY <1>1, <1>3, Zenon DEF InvokesCovered
<1> QED BY <1>1, <1>3, <1>8, <1>9, <1>10, <1>11, <1>12 DEF BatchFits, x

\* A normal transaction.
LEMMA NormalFits ==
  ASSUME NEW b, NEW c, NEW top, BatchFits(b, c, top), NEW h \in 1 .. MaxHeight, h <= top,
         NEW tx, NEW txid
  PROVE  BatchFits(ProcessNormalTx(b, tx, txid, h), c, top)
<1> DEFINE x == ProcessNormalTx(b, tx, txid, h)
           payloads(k) ==
             {i \in DOMAIN tx.payloads : tx.payloads[i].scid = k[2] /\ k[1] \in tx.payloads[i].ring}
           edges == {k \in Addrs \X Scids : payloads(k) # {}}
           rows == {[addr |-> k[1], h |-> h, txid |-> txid, scid |-> k[2]] : k \in edges}
           touches == [k \in edges |-> Touches(h, Cardinality(payloads(k)))]
<1>1. /\ DOMAIN b = DOMAIN EmptyBatch /\ RowTypes(b) /\ RowsUpTo(b, top)
      /\ OwnersInstalled(b, c) /\ InvokesCovered(b) /\ DOMAIN b.classes \subseteq Scids
      /\ \A k \in DOMAIN b.scvars : k[2] <= top
      /\ \A y \in b.invokes : y.h <= top
      /\ \A g \in DOMAIN b.hashes : g <= top
  BY DEF BatchFits
<1>2. OwnersAgree(b)
  BY DEF BatchFits
<1>3. x = [b EXCEPT !.normTx = @ \cup rows, !.addrScids = MergeInto(@, touches)]
  BY DEF ProcessNormalTx
<1>4. /\ DOMAIN touches \subseteq Addrs \X Scids /\ Edges(touches)
      /\ \A r \in rows : r.h = h
  <2> HIDE DEF payloads
  <2> QED BY DEF Touches, Edges
<1> HIDE DEF x, rows, touches
<1>5. /\ DOMAIN x = DOMAIN EmptyBatch
      /\ x.owners = b.owners /\ x.ownerScids = b.ownerScids /\ x.installs = b.installs
      /\ x.invokes = b.invokes /\ x.heights = b.heights /\ x.normTx = b.normTx \cup rows
      /\ x.addrScids = MergeInto(b.addrScids, touches) /\ x.scvars = b.scvars
      /\ x.hashes = b.hashes /\ x.classes = b.classes
  BY <1>1, <1>3, BatchFields
<1>6. /\ DOMAIN x.addrScids = DOMAIN b.addrScids \cup DOMAIN touches /\ Edges(x.addrScids)
      /\ \A k, g : g \in Nat /\ Spans(b.addrScids, k, g) => Spans(x.addrScids, k, g)
  <2>1. Edges(b.addrScids)
    BY <1>1, FitsParts
  <2>2. /\ Edges(MergeInto(b.addrScids, touches))
        /\ \A k, g : g \in Nat /\ (Spans(b.addrScids, k, g) \/ Spans(touches, k, g)) =>
             Spans(MergeInto(b.addrScids, touches), k, g)
    BY <1>4, <2>1, MergeSpans
  <2>3. DOMAIN MergeInto(b.addrScids, touches) = DOMAIN b.addrScids \cup DOMAIN touches
    BY MergeIs
  <2> QED BY <1>5, <2>2, <2>3
<1>7. RowTypes(x)
  <2>1. /\ DOMAIN x.addrScids \subseteq Addrs \X Scids
        /\ \A r \in x.invokes \cup x.normTx : r.h \in 1 .. MaxHeight
    BY <1>1, <1>4, <1>5, <1>6 DEF RowTypes
  <2> QED BY <1>1, <1>5, <1>6, <2>1 DEF RowTypes, Edges
<1>8. RowsUpTo(x, top)
  <2>1. \A r \in x.normTx : r.h <= top
    BY <1>1, <1>4, <1>5 DEF RowsUpTo
  <2> QED BY <1>1, <1>5, <2>1 DEF RowsUpTo
<1>9. OwnersAgree(x)
  <2>1. x.owners = b.owners /\ x.ownerScids = b.ownerScids
    BY <1>5
  <2> QED BY <1>2, <2>1 DEF OwnersAgree
<1>10. OwnersInstalled(x, c)
  BY <1>1, <1>5, OwnersSame
<1>11. InvokesCovered(x)
  <2>1. \A y \in b.invokes :
          /\ <<y.scid, y.h>> \in DOMAIN b.heights /\ y.h \in Nat
          /\ y.sender # NoAddr => Spans(b.addrScids, <<y.sender, y.scid>>, y.h)
    BY <1>1, FitsParts
  <2>2. \A y \in x.invokes :
          /\ <<y.scid, y.h>> \in DOMAIN x.heights
          /\ y.sender # NoAddr => Spans(x.addrScids, <<y.sender, y.scid>>, y.h)
    BY <1>5, <1>6, <2>1
  <2> QED BY <2>2, FitsParts
<1> QED BY <1>1, <1>5, <1>7, <1>8, <1>9, <1>10, <1>11 DEF BatchFits, x

LEMMA InstalledFits ==
  ASSUME NEW b, NEW c, NEW top, BatchFits(b, c, top), OneInstall(c),
         NEW h \in 1 .. MaxHeight, h <= top, NEW i, NEW tx, tx = c[h].txs[i],
         tx.scid \in Scids, tx.sender \in Addrs \cup {NoAddr}, Installs(c, h, i, tx.scid),
         NEW txid, NEW vs
  PROVE  BatchFits(Installed(b, tx, txid, h, vs), c, top)
<1> DEFINE class == ClassOf(tx.code)
           b0 == Recorded(b, tx, txid, h)
           b1 == AddInstall(AddOwner(b0, tx.scid, tx.sender), tx.scid, h, tx.sender)
           b2 == AddClass(b1, tx.scid, Meta(class, vs, h, h))
           b3 == AddSCCode(b2, tx.scid, h, tx.code)
<1>1. Installed(b, tx, txid, h, vs) = IF ShouldPersistCode(class) THEN b3 ELSE b2
  BY DEF Installed
<1>2. BatchFits(b0, c, top)
  BY RecordedFits
<1> HIDE DEF b0
<1>3. BatchFits(b1, c, top)
  BY <1>2, OwnedFits
<1> HIDE DEF b1
<1>4. BatchFits(b2, c, top)
  BY <1>3, AddedFits
<1> HIDE DEF b2
<1>5. BatchFits(b3, c, top)
  BY <1>4, AddedFits
<1> HIDE DEF b3, class
<1> QED BY <1>1, <1>4, <1>5

\* A state of the block's loop.
StateFits(st, c, h) ==
  DOMAIN st = {"b", "known"} /\ BatchFits(st.b, c, h) /\ st.known \subseteq Scids

LEMMA TxFits ==
  ASSUME NEW c, OneInstall(c), NEW h \in DOMAIN c, h \in 1 .. MaxHeight,
         NEW i \in DOMAIN c[h].txs, NEW tx, tx = c[h].txs[i],
         IsSC(tx) => tx.sender \in Addrs \cup {NoAddr},
         NEW st, StateFits(st, c, h), NEW d, NEW txid
  PROVE  StateFits(ProcessTx(st, tx, d, txid, h), c, h)
<1> DEFINE b == st.b
           next == ProcessTx(st, tx, d, txid, h)
<1>1. BatchFits(b, c, h) /\ h \in Nat /\ h <= h
  BY DEF StateFits
<1>2. ASSUME IsSC(tx) PROVE BatchFits(ProcessSCTx(b, d, tx, txid, h, tx.scid \in st.known), c, h)
  <2> DEFINE known == tx.scid \in st.known
  <2>1. CASE tx.scid \notin Scids \ Excluded
    <3>1. ProcessSCTx(b, d, tx, txid, h, known) = b
      BY <2>1 DEF ProcessSCTx
    <3> QED BY <1>1, <3>1
  <2> SUFFICES ASSUME tx.scid \in Scids \ Excluded
               PROVE  BatchFits(ProcessSCTx(b, d, tx, txid, h, known), c, h)
    BY <2>1
  <2>2. tx.scid \in Scids /\ tx.sender \in Addrs \cup {NoAddr}
    BY <1>2
  <2>3. BatchFits(Recorded(b, tx, txid, h), c, h)
    BY <1>1, <2>2, RecordedFits
  <2>4. CASE tx.kind = "install"
    <3>1. Installs(c, h, i, tx.scid)
      BY <2>4 DEF Installs
    <3>2. \A vs : BatchFits(Installed(b, tx, txid, h, vs), c, h)
      BY <1>1, <2>2, <3>1, InstalledFits
    <3>3. BatchFits([b EXCEPT !.invalid = @ \cup {tx.scid}], c, h)
      BY <1>1, <2>2, AddedFits
    <3> DEFINE y == Installed(b, tx, txid, h, tx.vars)
    <3>4. BatchFits(y, c, h)
      BY <3>2
    <3> HIDE DEF y
    <3>5. BatchFits(AddVariables(y, tx.scid, h, tx.vars), c, h)
      BY <1>1, <2>2, <3>4, AddedFits
    <3>6. BatchFits(HandleInstallSC(b, tx, txid, h), c, h)
      BY <1>1, <3>3, <3>5 DEF HandleInstallSC, y
    <3>7. ProcessSCTx(b, d, tx, txid, h, known)
            = IF turbo THEN Installed(b, tx, txid, h, 0) ELSE HandleInstallSC(b, tx, txid, h)
      BY <2>4 DEF ProcessSCTx
    <3> QED BY <3>2, <3>6, <3>7
  <2>5. CASE tx.kind = "invoke"
    <3> DEFINE b1 == Recorded(b, tx, txid, h)
               b2 == AddVariables(b1, tx.scid, h, tx.vars)
               b3 == RefreshClassMetaOnInvoke(b2, d, tx, h)
    <3>1. BatchFits(b1, c, h)
      BY <2>3
    <3> HIDE DEF b1
    <3>2. BatchFits(b2, c, h)
      BY <1>1, <2>2, <3>1, AddedFits
    <3> HIDE DEF b2
    <3>3. \A v : BatchFits(AddClass(b2, tx.scid, v), c, h)
      BY <1>1, <2>2, <3>2, AddedFits
    <3>4. BatchFits(b3, c, h)
      BY <3>3 DEF RefreshClassMetaOnInvoke
    <3> HIDE DEF b3
    <3>5. HandleInvokeSC(b, d, tx, txid, h, known)
            = IF ~known /\ tx.vars = 0 THEN b ELSE IF tx.vars = 0 THEN b1 ELSE b3
      BY DEF HandleInvokeSC, b1, b2, b3
    <3>6. BatchFits(HandleInvokeSC(b, d, tx, txid, h, known), c, h)
      BY <1>1, <3>1, <3>4, <3>5
    <3>7. ProcessSCTx(b, d, tx, txid, h, known)
            = IF turbo THEN b1 ELSE HandleInvokeSC(b, d, tx, txid, h, known)
      BY <2>5 DEF ProcessSCTx, b1
    <3> HIDE DEF b
    <3> QED BY <3>1, <3>6, <3>7
  <2> QED BY <1>2, <2>4, <2>5 DEF IsSC
<1>3. Validates(tx) \subseteq Scids
  BY DEF Validates
<1>4. CASE IsSC(tx)
  <2>1. next = [b |-> ProcessSCTx(b, d, tx, txid, h, tx.scid \in st.known),
                known |-> st.known \cup Validates(tx)]
    BY <1>4 DEF ProcessTx
  <2> QED BY <1>2, <1>3, <1>4, <2>1 DEF StateFits
<1>5. CASE ~IsSC(tx)
  <2> DEFINE counted == CountTx(b, tx.kind)
  <2>1. next = [st EXCEPT !.b = IF tx.kind = "normal" THEN ProcessNormalTx(counted, tx, txid, h)
                                ELSE counted]
    BY <1>5 DEF ProcessTx
  <2>2. /\ DOMAIN counted = DOMAIN EmptyBatch /\ SameRows(counted, b)
        /\ counted.hashes = b.hashes /\ counted.classes = b.classes /\ counted.scvars = b.scvars
    <3>1. DOMAIN b = DOMAIN EmptyBatch
      BY <1>1 DEF BatchFits
    <3> HIDE DEF b
    <3> QED BY <3>1, BatchFields DEF SameRows, CountTx
  <2>3. DOMAIN b.classes \subseteq Scids
    BY <1>1 DEF BatchFits
  <2> HIDE DEF counted
  <2>4. /\ DOMAIN counted.scvars \subseteq DOMAIN b.scvars \cup (Scids \X {h})
        /\ DOMAIN counted.hashes \subseteq DOMAIN b.hashes \cup {h}
        /\ DOMAIN counted.classes \subseteq Scids
    BY <2>2, <2>3
  <2> HIDE DEF b
  <2>5. BatchFits(counted, c, h)
    BY <1>1, <2>2, <2>4, FitsSame
  <2>6. BatchFits(ProcessNormalTx(counted, tx, txid, h), c, h)
    BY <1>1, <2>5, NormalFits
  <2>7. DOMAIN next = {"b", "known"} /\ BatchFits(next.b, c, h) /\ next.known = st.known
    BY <2>1, <2>5, <2>6 DEF StateFits
  <2> QED BY <2>7 DEF StateFits
<1> QED BY <1>4, <1>5

\* The loop over the transactions of a block, state by state.
Start(b, h, block) ==
  [b |-> IF block.parsed THEN AddBlockHash(b, h, block.hash) ELSE b, known |-> block.known]

Loop(after, n, b, d, h, block) ==
  /\ after[0] = Start(b, h, block)
  /\ \A i \in 1 .. n : after[i] = ProcessTx(after[i - 1], block.txs[i], d, <<h, i>>, h)

LEMMA LoopRuns ==
  ASSUME NEW b, NEW d, NEW h, NEW block, NEW n \in Nat
  PROVE  \E after : DOMAIN after = 0 .. n /\ Loop(after, n, b, d, h, block)
<1> DEFINE Runs(after, m) == DOMAIN after = 0 .. m /\ Loop(after, m, b, d, h, block)
           C == {m \in 0 .. n : ~\E after : Runs(after, m)}
<1>1. ASSUME C # {} PROVE FALSE
  <2>1. PICK m \in C : \A l \in C : m <= l
    <3>1. C \in SUBSET Nat
      OBVIOUS
    <3> HIDE DEF C
    <3> QED BY <1>1, <3>1, LeastNumber
  <2>2. CASE m = 0
    <3> DEFINE f == [i \in 0 .. 0 |-> Start(b, h, block)]
    <3>1. Runs(f, 0)
      BY DEF Loop
    <3> QED BY <2>2, <3>1
  <2>3. CASE m # 0
    <3>1. m \in Nat /\ m - 1 \in 0 .. n /\ m \in 1 .. n /\ ~(m <= m - 1)
      BY <2>3
    <3>2. PICK f : Runs(f, m - 1)
      BY <2>1, <3>1
    <3> DEFINE last == ProcessTx(f[m - 1], block.txs[m], d, <<h, m>>, h)
               g == [i \in 0 .. m |-> IF i = m THEN last ELSE f[i]]
    <3>3. DOMAIN g = 0 .. m /\ g[m] = last /\ \A i \in 0 .. (m - 1) : g[i] = f[i]
      BY <3>1
    <3>4. g[0] = Start(b, h, block)
      <4>1. 0 \in 0 .. (m - 1)
        BY <2>3, <3>1
      <4> QED BY <3>2, <3>3, <4>1 DEF Loop
    <3>5. ASSUME NEW i \in 1 .. m
          PROVE  g[i] = ProcessTx(g[i - 1], block.txs[i], d, <<h, i>>, h)
      <4>1. i - 1 \in 0 .. (m - 1)
        BY <3>1
      <4>2. g[i - 1] = f[i - 1]
        BY <3>3, <4>1
      <4>3. CASE i = m
        BY <3>3, <4>2, <4>3
      <4>4. CASE i # m
        <5>1. i \in 1 .. (m - 1) /\ i \in 0 .. (m - 1)
          BY <3>1, <4>4
        <5>2. f[i] = ProcessTx(f[i - 1], block.txs[i], d, <<h, i>>, h)
          BY <3>2, <5>1 DEF Loop
        <5>3. g[i] = f[i]
          BY <3>3, <5>1
        <5> QED BY <4>2, <5>2, <5>3
      <4> QED BY <4>3, <4>4
    <3> HIDE DEF g, last
    <3>6. Runs(g, m)
      BY <3>3, <3>4, <3>5 DEF Loop
    <3> QED BY <3>6
  <2> QED BY <2>2, <2>3
<1> HIDE DEF Runs
<1>2. n \in 0 .. n
  OBVIOUS
<1>3. \E after : Runs(after, n)
  BY <1>1, <1>2
<1> QED BY <1>3 DEF Runs

LEMMA ProcessedSteps ==
  ASSUME NEW b, NEW d, NEW h, NEW block, Len(block.txs) \in Nat
  PROVE  \E after : /\ Loop(after, Len(block.txs), b, d, h, block)
                    /\ Processed(b, d, h, block) = [after[Len(block.txs)] EXCEPT !.b.last = h]
<1> DEFINE n == Len(block.txs)
           IsLoop(f) == f = [i \in 0 .. n |->
                IF i = 0 THEN Start(b, h, block)
                ELSE ProcessTx(f[i - 1], block.txs[i], d, <<h, i>>, h)]
           after == CHOOSE f : IsLoop(f)
<1>1. PICK f : DOMAIN f = 0 .. n /\ Loop(f, n, b, d, h, block)
  BY LoopRuns
<1> DEFINE g == [i \in 0 .. n |-> f[i]]
<1>2. IsLoop(g)
  <2>1. g[0] = Start(b, h, block) /\ DOMAIN g = 0 .. n
    BY <1>1 DEF Loop
  <2>2. ASSUME NEW i \in 1 .. n
        PROVE  g[i] = ProcessTx(g[i - 1], block.txs[i], d, <<h, i>>, h)
    <3>1. i \in 0 .. n /\ i - 1 \in 0 .. n
      OBVIOUS
    <3>2. g[i] = f[i] /\ g[i - 1] = f[i - 1]
      BY <3>1
    <3> QED BY <1>1, <3>2 DEF Loop
  <2>3. g = [i \in 0 .. n |-> g[i]]
    OBVIOUS
  <2> HIDE DEF g
  <2>4. \A i \in 0 .. n : g[i] = IF i = 0 THEN Start(b, h, block)
                                 ELSE ProcessTx(g[i - 1], block.txs[i], d, <<h, i>>, h)
    BY <2>1, <2>2
  <2> QED BY <2>3, <2>4
<1> HIDE DEF g
<1>3. IsLoop(after)
  <2> HIDE DEF IsLoop
  <2> QED BY <1>2
<1>4. Processed(b, d, h, block) = [after[n] EXCEPT !.b.last = h]
  BY DEF Processed, Start
<1> HIDE DEF after
<1>5. Loop(after, n, b, d, h, block)
  BY <1>3 DEF Loop
<1> HIDE DEF n
<1> QED BY <1>4, <1>5 DEF n

\* Whatever holds of a batch when the loop begins, and at each transaction after
\* one, holds when it ends.
LEMMA ProcessedFits ==
  ASSUME NEW c, OneInstall(c), NEW h \in DOMAIN c, h \in 1 .. MaxHeight,
         NEW block, block = c[h], Len(block.txs) \in Nat,
         DOMAIN block.txs = 1 .. Len(block.txs), block.known \subseteq Scids,
         \A i \in DOMAIN block.txs :
           IsSC(block.txs[i]) => block.txs[i].sender \in Addrs \cup {NoAddr},
         NEW b, BatchFits(b, c, h), NEW d
  PROVE  /\ BatchFits(Processed(b, d, h, block).b, c, h)
         /\ Processed(b, d, h, block).known \subseteq Scids
         /\ Processed(b, d, h, block).b.last = h
<1> DEFINE n == Len(block.txs)
           end == Processed(b, d, h, block)
<1>1. PICK after : /\ Loop(after, n, b, d, h, block)
                   /\ end = [after[n] EXCEPT !.b.last = h]
  BY ProcessedSteps
<1>2. StateFits(after[0], c, h)
  <2>1. BatchFits(AddBlockHash(b, h, block.hash), c, h)
    BY HashFits
  <2>2. after[0] = Start(b, h, block)
    BY <1>1 DEF Loop
  <2> QED BY <2>1, <2>2 DEF Start, StateFits
<1>3. ASSUME NEW i \in 1 .. n, StateFits(after[i - 1], c, h) PROVE StateFits(after[i], c, h)
  <2>1. after[i] = ProcessTx(after[i - 1], block.txs[i], d, <<h, i>>, h)
    BY <1>1 DEF Loop
  <2>2. i \in DOMAIN c[h].txs /\ block.txs[i] = c[h].txs[i]
    OBVIOUS
  <2>3. StateFits(ProcessTx(after[i - 1], block.txs[i], d, <<h, i>>, h), c, h)
    BY <1>3, <2>2, TxFits
  <2> QED BY <2>1, <2>3
<1> DEFINE C == {m \in 0 .. n : ~StateFits(after[m], c, h)}
<1>4. ASSUME C # {} PROVE FALSE
  <2>1. PICK m \in C : \A l \in C : m <= l
    <3>1. C \in SUBSET Nat
      OBVIOUS
    <3> HIDE DEF C
    <3> QED BY <1>4, <3>1, LeastNumber
  <2>2. m # 0
    BY <1>2
  <2>3. m \in 1 .. n /\ m - 1 \in 0 .. n /\ ~(m <= m - 1)
    BY <2>2
  <2>4. StateFits(after[m - 1], c, h)
    BY <2>1, <2>3
  <2> QED BY <1>3, <2>3, <2>4
<1>5. StateFits(after[n], c, h)
  <2>1. n \in 0 .. n
    OBVIOUS
  <2> QED BY <1>4, <2>1
<1> HIDE DEF end, n, C
<1> DEFINE last == after[n].b
<1>6. BatchFits(last, c, h) /\ DOMAIN last = DOMAIN EmptyBatch /\ DOMAIN last.classes \subseteq Scids
  BY <1>5 DEF StateFits, BatchFits
<1>7. end.b = [last EXCEPT !.last = h] /\ end.known = after[n].known
  BY <1>1, <1>5 DEF StateFits
<1> HIDE DEF last
<1>8. /\ DOMAIN end.b = DOMAIN EmptyBatch /\ SameRows(end.b, last) /\ end.b.last = h
      /\ end.b.hashes = last.hashes /\ end.b.scvars = last.scvars
      /\ end.b.classes = last.classes
  BY <1>6, <1>7, BatchFields DEF SameRows
<1>9. /\ DOMAIN end.b.scvars \subseteq DOMAIN last.scvars \cup (Scids \X {h})
      /\ DOMAIN end.b.hashes \subseteq DOMAIN last.hashes \cup {h}
      /\ DOMAIN end.b.classes \subseteq Scids
  BY <1>6, <1>8
<1>10. BatchFits(end.b, c, h)
  <2>1. h \in Nat /\ h <= h
    OBVIOUS
  <2> HIDE DEF end
  <2> QED BY <1>6, <1>8, <1>9, <2>1, FitsSame
<1>11. end.known \subseteq Scids
  BY <1>5, <1>7 DEF StateFits
<1> QED BY <1>8, <1>10, <1>11 DEF end

\* A batch still fits a chain that has the blocks of its installs, and a greater height.
LEMMA FitsLonger ==
  ASSUME NEW b, NEW c, NEW top, BatchFits(b, c, top), NEW e,
         \A h \in DOMAIN c : h \in DOMAIN e /\ e[h] = c[h],
         NEW more, top \in Nat, more \in Nat, top <= more
  PROVE  BatchFits(b, e, more)
<1>1. /\ DOMAIN b = DOMAIN EmptyBatch /\ RowTypes(b) /\ RowsUpTo(b, top) /\ OwnersAgree(b)
      /\ OwnersInstalled(b, c) /\ InvokesCovered(b) /\ DOMAIN b.classes \subseteq Scids
  BY DEF BatchFits
<1>2. /\ \A k \in DOMAIN b.scvars : k[2] <= top
      /\ \A r \in b.invokes : r.h <= top
      /\ \A h \in DOMAIN b.hashes : h <= top
  BY DEF BatchFits
<1>3. RowsUpTo(b, more)
  <2>1. /\ \A k \in DOMAIN b.heights : k[2] \in Nat
        /\ \A k \in DOMAIN b.installs : k[1] \in Nat
        /\ \A r \in b.normTx : r.h \in Nat
    BY <1>1 DEF RowTypes
  <2> QED BY <1>1, <2>1 DEF RowsUpTo
<1>4. OwnersInstalled(b, e)
  BY <1>1 DEF OwnersInstalled, Installs
<1>5. /\ \A k \in DOMAIN b.scvars : k[2] <= more
      /\ \A r \in b.invokes : r.h <= more
  <2>1. /\ \A k \in DOMAIN b.scvars : k[2] \in Nat
        /\ \A r \in b.invokes : r.h \in Nat
    BY <1>1 DEF RowTypes
  <2> QED BY <1>2, <2>1
<1>6. \A h \in DOMAIN b.hashes : h <= more
  <2>1. \A h \in DOMAIN b.hashes : h \in Nat
    BY <1>1 DEF RowTypes
  <2> QED BY <1>2, <2>1
<1> QED BY <1>1, <1>3, <1>4, <1>5, <1>6 DEF BatchFits

-----------------------------------------------------------------------------
(* A commit, and a truncation, of a store that is in line.                 *)

LEMMA MinIs ==
  ASSUME NEW S \in SUBSET Nat, S # {}
  PROVE  Min(S) \in S /\ \A x \in S : Min(S) <= x
<1>1. PICK m \in S : \A x \in S : m <= x
  BY LeastNumber
<1> QED BY <1>1 DEF Min

LEMMA MaxIs ==
  ASSUME NEW n \in Nat, NEW S \in SUBSET (0 .. n), S # {}
  PROVE  Max(S) \in S /\ \A x \in S : x <= Max(S)
<1> DEFINE T == {m \in Nat : \A x \in S : x <= m}
<1>1. n \in T /\ T \in SUBSET Nat
  OBVIOUS
<1>2. PICK m \in T : \A x \in T : m <= x
  <2> HIDE DEF T
  <2> QED BY <1>1, LeastNumber
<1>3. m \in Nat /\ \A x \in S : x <= m /\ x \in Nat
  BY <1>2
<1>4. m \in S
  <2>1. ASSUME m \notin S PROVE FALSE
    <3>1. \A x \in S : x <= m - 1
      BY <1>3, <2>1
    <3>2. m # 0
      <4>1. PICK x \in S : TRUE
        OBVIOUS
      <4>2. x \in Nat /\ x <= m - 1
        BY <1>3, <3>1
      <4> QED BY <4>2
    <3>3. m - 1 \in T
      BY <1>3, <3>1, <3>2
    <3> QED BY <1>2, <1>3, <3>3
  <2> QED BY <2>1
<1>5. \E x \in S : \A y \in S : x >= y
  BY <1>3, <1>4
<1> QED BY <1>3, <1>5 DEF Max

\* An owner is the same wherever the chain installs the contract once.
LEMMA SameOwner ==
  ASSUME NEW c, OneInstall(c), NEW d, OwnersInstalled(d, c), NEW b, OwnersInstalled(b, c)
  PROVE  /\ \A s \in DOMAIN d.owners \cap DOMAIN b.owners : d.owners[s] = b.owners[s]
         /\ \A k \in DOMAIN d.installs \cap DOMAIN b.installs : d.installs[k] = b.installs[k]
<1>1. ASSUME NEW k \in DOMAIN d.installs, NEW l \in DOMAIN b.installs, k[2] = l[2]
      PROVE  d.installs[k] = b.installs[l]
  <2>1. PICK i \in DOMAIN c[k[1]].txs :
          Installs(c, k[1], i, k[2]) /\ d.installs[k] = c[k[1]].txs[i].sender
    BY DEF OwnersInstalled
  <2>2. PICK j \in DOMAIN c[l[1]].txs :
          Installs(c, l[1], j, l[2]) /\ b.installs[l] = c[l[1]].txs[j].sender
    BY DEF OwnersInstalled
  <2>3. k[1] = l[1] /\ i = j
    BY <1>1, <2>1, <2>2 DEF OneInstall, Installs
  <2> QED BY <2>1, <2>2, <2>3
<1>2. ASSUME NEW s \in DOMAIN d.owners \cap DOMAIN b.owners PROVE d.owners[s] = b.owners[s]
  <2>1. PICK k \in DOMAIN d.installs : k[2] = s /\ d.installs[k] = d.owners[s]
    BY DEF OwnersInstalled
  <2>2. PICK l \in DOMAIN b.installs : l[2] = s /\ b.installs[l] = b.owners[s]
    BY DEF OwnersInstalled
  <2> QED BY <1>1, <2>1, <2>2
<1> QED BY <1>1, <1>2

\* The fields of a store after a commit.
LEMMA FlushedIs ==
  ASSUME NEW d, NEW b, NEW e, e = Flushed(d, b)
  PROVE  /\ DOMAIN e = DOMAIN EmptyDB
         /\ e.owners = b.owners ++ d.owners /\ e.ownerScids = d.ownerScids \cup b.ownerScids
         /\ e.invokes = d.invokes \cup b.invokes /\ e.scvars = b.scvars ++ d.scvars
         /\ e.normTx = d.normTx \cup b.normTx /\ e.hashes = b.hashes ++ d.hashes
         /\ e.installs = b.installs ++ d.installs /\ e.classIdx = b.classes ++ d.classIdx
         /\ e.scCount = SCCountAfter(d, b) /\ e.latest = LatestAfter(d, b)
         /\ e.heights = HeightsAfter(d, b)
         /\ e.addrScids = MergeInto(d.addrScids, b.addrScids)
         /\ e.last = IF b.last > 0 THEN b.last ELSE d.last
BY DEF Flushed, EmptyDB, AddrScidsAfter

LEMMA FlushedRows ==
  ASSUME NEW c, OneInstall(c), NEW d, RowTypes(d), OwnersAgree(d), OwnersInstalled(d, c),
         NEW b, RowTypes(b), OwnersAgree(b), OwnersInstalled(b, c)
  PROVE  LET e == Flushed(d, b)
         IN  /\ RowTypes(e) /\ OwnersAgree(e) /\ OwnersInstalled(e, c)
             /\ InvokesCovered(d) /\ InvokesCovered(b) => InvokesCovered(e)
<1> DEFINE e == Flushed(d, b)
<1>1. /\ e.owners = b.owners ++ d.owners /\ e.ownerScids = d.ownerScids \cup b.ownerScids
      /\ e.invokes = d.invokes \cup b.invokes /\ e.scvars = b.scvars ++ d.scvars
      /\ e.normTx = d.normTx \cup b.normTx /\ e.installs = b.installs ++ d.installs
      /\ e.hashes = b.hashes ++ d.hashes
      /\ e.addrScids = MergeInto(d.addrScids, b.addrScids)
  BY FlushedIs
<1>2. DOMAIN e.heights = DOMAIN b.heights \cup DOMAIN d.heights
  <2> DEFINE g == [k \in DOMAIN b.heights |-> b.heights[k] + Get(d.heights, k, 0)]
  <2>1. e.heights = g ++ d.heights
    BY FlushedIs DEF HeightsAfter
  <2>2. DOMAIN g = DOMAIN b.heights
    OBVIOUS
  <2> HIDE DEF e, g
  <2> QED BY <2>1, <2>2, JoinDomain
<1> HIDE DEF e
<1>3. /\ DOMAIN e.owners = DOMAIN b.owners \cup DOMAIN d.owners
      /\ \A s \in DOMAIN b.owners : e.owners[s] = b.owners[s]
      /\ \A s \in DOMAIN d.owners \ DOMAIN b.owners : e.owners[s] = d.owners[s]
  <2>1. JoinTo(e.owners, b.owners, d.owners)
    BY <1>1, JoinIs
  <2> QED BY <2>1 DEF JoinTo
<1>4. /\ DOMAIN e.installs = DOMAIN b.installs \cup DOMAIN d.installs
      /\ \A k \in DOMAIN b.installs : e.installs[k] = b.installs[k]
      /\ \A k \in DOMAIN d.installs \ DOMAIN b.installs : e.installs[k] = d.installs[k]
  <2>1. JoinTo(e.installs, b.installs, d.installs)
    BY <1>1, JoinIs
  <2> QED BY <2>1 DEF JoinTo
<1>5. /\ \A s \in DOMAIN d.owners \cap DOMAIN b.owners : d.owners[s] = b.owners[s]
      /\ \A k \in DOMAIN d.installs \cap DOMAIN b.installs : d.installs[k] = b.installs[k]
  BY SameOwner
<1>6. /\ \A s \in DOMAIN d.owners : e.owners[s] = d.owners[s]
      /\ \A k \in DOMAIN d.installs : e.installs[k] = d.installs[k]
  BY <1>3, <1>4, <1>5
<1>7. /\ DOMAIN e.scvars = DOMAIN b.scvars \cup DOMAIN d.scvars
      /\ DOMAIN e.hashes = DOMAIN b.hashes \cup DOMAIN d.hashes
      /\ DOMAIN e.addrScids = DOMAIN d.addrScids \cup DOMAIN b.addrScids
  <2>1. DOMAIN e.scvars = DOMAIN b.scvars \cup DOMAIN d.scvars
    <3>1. e.scvars = b.scvars ++ d.scvars
      BY <1>1
    <3> QED BY <3>1, JoinDomain
  <2>2. DOMAIN e.hashes = DOMAIN b.hashes \cup DOMAIN d.hashes
    <3>1. e.hashes = b.hashes ++ d.hashes
      BY <1>1
    <3> QED BY <3>1, JoinDomain
  <2>3. DOMAIN e.addrScids = DOMAIN d.addrScids \cup DOMAIN b.addrScids
    <3>1. e.addrScids = MergeInto(d.addrScids, b.addrScids)
      BY <1>1
    <3> QED BY <3>1, MergeDomain
  <2> QED BY <2>1, <2>2, <2>3
<1>8. /\ Edges(e.addrScids)
      /\ \A k, h : h \in Nat /\ (Spans(d.addrScids, k, h) \/ Spans(b.addrScids, k, h)) =>
           Spans(e.addrScids, k, h)
  <2>1. Edges(d.addrScids) /\ Edges(b.addrScids)
    BY FitsParts
  <2> QED BY <1>1, <2>1, MergeSpans
<1>9. RowTypes(e)
  <2>1. /\ DOMAIN e.owners \subseteq Scids /\ e.ownerScids \subseteq Addrs \X Scids
        /\ DOMAIN e.installs \subseteq (1 .. MaxHeight) \X Scids
        /\ \A r \in e.invokes \cup e.normTx : r.h \in 1 .. MaxHeight
    BY <1>1, <1>3, <1>4 DEF RowTypes
  <2>2. /\ DOMAIN e.scvars \subseteq Scids \X (1 .. MaxHeight)
        /\ DOMAIN e.heights \subseteq Scids \X (1 .. MaxHeight)
        /\ DOMAIN e.addrScids \subseteq Addrs \X Scids
        /\ DOMAIN e.hashes \subseteq 1 .. MaxHeight
    BY <1>2, <1>7 DEF RowTypes
  <2> QED BY <1>8, <2>1, <2>2 DEF RowTypes, Edges
<1>10. OwnersAgree(e)
  <2> SUFFICES ASSUME NEW a \in Addrs, NEW s \in Scids
               PROVE  <<a, s>> \in e.ownerScids <=> s \in DOMAIN e.owners /\ e.owners[s] = a
    BY DEF OwnersAgree
  <2>1. <<a, s>> \in d.ownerScids <=> s \in DOMAIN d.owners /\ d.owners[s] = a
    BY DEF OwnersAgree
  <2>2. <<a, s>> \in b.ownerScids <=> s \in DOMAIN b.owners /\ b.owners[s] = a
    BY DEF OwnersAgree
  <2> QED BY <1>1, <1>3, <1>6, <2>1, <2>2
<1>11. OwnersInstalled(e, c)
  <2>1. ASSUME NEW k \in DOMAIN e.installs
        PROVE  \E i \in DOMAIN c[k[1]].txs :
                 Installs(c, k[1], i, k[2]) /\ e.installs[k] = c[k[1]].txs[i].sender
    <3>1. CASE k \in DOMAIN b.installs
      BY <1>4, <3>1 DEF OwnersInstalled
    <3>2. CASE k \in DOMAIN d.installs
      BY <1>6, <3>2 DEF OwnersInstalled
    <3> QED BY <1>4, <3>1, <3>2
  <2>2. ASSUME NEW s \in DOMAIN e.owners
        PROVE  \E k \in DOMAIN e.installs : k[2] = s /\ e.installs[k] = e.owners[s]
    <3>1. CASE s \in DOMAIN b.owners
      BY <1>3, <1>4, <3>1 DEF OwnersInstalled
    <3>2. CASE s \in DOMAIN d.owners
      BY <1>4, <1>6, <3>2 DEF OwnersInstalled
    <3> QED BY <1>3, <3>1, <3>2
  <2> QED BY <2>1, <2>2 DEF OwnersInstalled
<1>12. ASSUME InvokesCovered(d), InvokesCovered(b) PROVE InvokesCovered(e)
  <2>1. \A r \in d.invokes :
          /\ <<r.scid, r.h>> \in DOMAIN d.heights /\ r.h \in Nat
          /\ r.sender # NoAddr => Spans(d.addrScids, <<r.sender, r.scid>>, r.h)
    BY <1>12, FitsParts
  <2>2. \A r \in b.invokes :
          /\ <<r.scid, r.h>> \in DOMAIN b.heights /\ r.h \in Nat
          /\ r.sender # NoAddr => Spans(b.addrScids, <<r.sender, r.scid>>, r.h)
    BY <1>12, FitsParts
  <2>3. \A r \in e.invokes :
          /\ <<r.scid, r.h>> \in DOMAIN e.heights
          /\ r.sender # NoAddr => Spans(e.addrScids, <<r.sender, r.scid>>, r.h)
    BY <1>1, <1>2, <1>8, <2>1, <2>2
  <2> QED BY <2>3, FitsParts
<1> QED BY <1>9, <1>10, <1>11, <1>12 DEF e

\* LatestLine of a store.
LatestIs(d) ==
  /\ \A k \in DOMAIN d.scvars : k[1] \in DOMAIN d.latest /\ k[2] <= d.latest[k[1]]
  /\ \A s \in DOMAIN d.latest : <<s, d.latest[s]>> \in DOMAIN d.scvars

Snapshots(vars_, s) == {k[2] : k \in {x \in vars_ : x[1] = s}}

LEMMA HighestSnapshot ==
  ASSUME NEW V, V \subseteq Scids \X (1 .. MaxHeight), NEW s, Snapshots(V, s) # {}
  PROVE  /\ <<s, Max(Snapshots(V, s))>> \in V /\ Max(Snapshots(V, s)) \in 1 .. MaxHeight
         /\ \A k \in V : k[1] = s => k[2] <= Max(Snapshots(V, s))
<1> DEFINE S == Snapshots(V, s)
<1>1. S \in SUBSET (0 .. MaxHeight) /\ S # {}
  BY DEF Snapshots
<1>2. \A k \in V : k = <<k[1], k[2]>> /\ k[2] \in 1 .. MaxHeight
  OBVIOUS
<1>3. \A n \in S : <<s, n>> \in V /\ n \in 1 .. MaxHeight
  BY <1>2 DEF Snapshots
<1>4. \A k \in V : k[1] = s => k[2] \in S
  BY DEF Snapshots
<1> HIDE DEF S
<1>5. Max(S) \in S /\ \A x \in S : x <= Max(S)
  BY <1>1, MaxIs, StoreAssumption
<1> QED BY <1>3, <1>4, <1>5 DEF S

LEMMA MostIs ==
  ASSUME NEW m \in Nat, NEW n \in Nat
  PROVE  Most(m, n) \in {m, n} /\ m <= Most(m, n) /\ n <= Most(m, n)
BY DEF Most

LEMMA FlushedLatest ==
  ASSUME NEW d, DOMAIN d.scvars \subseteq Scids \X (1 .. MaxHeight), LatestIs(d),
         NEW b, DOMAIN b.scvars \subseteq Scids \X (1 .. MaxHeight)
  PROVE  LatestIs(Flushed(d, b))
<1> DEFINE e == Flushed(d, b)
           new == {k[1] : k \in DOMAIN b.scvars}
           top == [s \in new |-> Max(Snapshots(DOMAIN b.scvars, s))]
           f == [s \in new |-> Most(Get(d.latest, s, 0), top[s])]
<1>1. e.scvars = b.scvars ++ d.scvars /\ e.latest = LatestAfter(d, b)
  BY FlushedIs
<1>2. e.latest = f ++ d.latest
  BY <1>1 DEF LatestAfter, Snapshots
<1>3. ASSUME NEW s \in new
      PROVE  /\ <<s, top[s]>> \in DOMAIN b.scvars /\ top[s] \in Nat
             /\ \A k \in DOMAIN b.scvars : k[1] = s => k[2] <= top[s]
  <2>1. PICK q \in DOMAIN b.scvars : q[1] = s
    OBVIOUS
  <2>2. Snapshots(DOMAIN b.scvars, s) # {}
    BY <2>1 DEF Snapshots
  <2>3. top[s] = Max(Snapshots(DOMAIN b.scvars, s))
    OBVIOUS
  <2> DEFINE V == DOMAIN b.scvars
             n == Max(Snapshots(V, s))
  <2> HIDE DEF top, new
  <2>4. V \subseteq Scids \X (1 .. MaxHeight) /\ Snapshots(V, s) # {} /\ top[s] = n
    BY <2>2, <2>3
  <2> HIDE DEF V
  <2>5. /\ <<s, n>> \in V /\ n \in 1 .. MaxHeight
        /\ \A k \in V : k[1] = s => k[2] <= n
    BY <2>4, HighestSnapshot
  <2> QED BY <2>4, <2>5, StoreAssumption DEF V
<1>4. DOMAIN f = new /\ \A s \in new : f[s] = Most(Get(d.latest, s, 0), top[s])
  OBVIOUS
<1>5. \A k \in DOMAIN b.scvars : k[1] \in new
  OBVIOUS
<1> HIDE DEF e, new, top, f
<1>6. JoinTo(e.latest, f, d.latest)
  BY <1>2, JoinIs
<1>7. DOMAIN e.scvars = DOMAIN b.scvars \cup DOMAIN d.scvars
  BY <1>1, JoinDomain
<1>8. \A s \in DOMAIN d.latest : d.latest[s] \in Nat /\ <<s, d.latest[s]>> \in DOMAIN d.scvars
  BY StoreAssumption DEF LatestIs
<1>9. ASSUME NEW s \in new
      PROVE  /\ s \in DOMAIN e.latest /\ top[s] <= e.latest[s]
             /\ s \in DOMAIN d.latest => d.latest[s] <= e.latest[s]
             /\ <<s, e.latest[s]>> \in DOMAIN e.scvars
  <2>0. top[s] \in Nat /\ <<s, top[s]>> \in DOMAIN e.scvars
    BY <1>3, <1>7
  <2>1. e.latest[s] = Most(Get(d.latest, s, 0), top[s]) /\ s \in DOMAIN e.latest
    BY <1>4, <1>6 DEF JoinTo
  <2>2. CASE s \in DOMAIN d.latest
    <3>1. e.latest[s] = Most(d.latest[s], top[s])
      BY <2>1, <2>2 DEF Get
    <3>2. d.latest[s] \in Nat /\ <<s, d.latest[s]>> \in DOMAIN e.scvars
      BY <1>7, <1>8, <2>2
    <3> QED BY <2>0, <2>1, <2>2, <3>1, <3>2, MostIs
  <2>3. CASE s \notin DOMAIN d.latest
    <3>1. e.latest[s] = Most(0, top[s])
      BY <2>1, <2>3 DEF Get
    <3>2. e.latest[s] = top[s]
      BY <2>0, <3>1 DEF Most
    <3> QED BY <2>0, <2>1, <2>3, <3>2
  <2> QED BY <2>2, <2>3
<1>10. ASSUME NEW s \in DOMAIN d.latest \ new
       PROVE  s \in DOMAIN e.latest /\ e.latest[s] = d.latest[s]
  BY <1>4, <1>6 DEF JoinTo
<1>11. ASSUME NEW k \in DOMAIN e.scvars
       PROVE  k[1] \in DOMAIN e.latest /\ k[2] <= e.latest[k[1]]
  <2>1. k[2] \in Nat
    BY <1>7, StoreAssumption
  <2>2. CASE k \in DOMAIN b.scvars
    <3>1. k[1] \in new /\ k[2] <= top[k[1]] /\ top[k[1]] \in Nat
      BY <1>3, <1>5, <2>2
    <3>2. k[1] \in DOMAIN e.latest /\ top[k[1]] <= e.latest[k[1]]
      BY <1>9, <3>1
    <3>3. e.latest[k[1]] \in Nat
      <4>1. <<k[1], e.latest[k[1]]>> \in DOMAIN e.scvars
        BY <1>9, <3>1
      <4> QED BY <1>7, <4>1, StoreAssumption
    <3> QED BY <2>1, <3>1, <3>2, <3>3
  <2>3. CASE k \in DOMAIN d.scvars
    <3>1. k[1] \in DOMAIN d.latest /\ k[2] <= d.latest[k[1]] /\ d.latest[k[1]] \in Nat
      BY <1>8, <2>3 DEF LatestIs
    <3>2. CASE k[1] \in new
      <4>1. k[1] \in DOMAIN e.latest /\ d.latest[k[1]] <= e.latest[k[1]]
        BY <1>9, <3>1, <3>2
      <4>2. e.latest[k[1]] \in Nat
        <5>1. <<k[1], e.latest[k[1]]>> \in DOMAIN e.scvars
          BY <1>9, <3>2
        <5> QED BY <1>7, <5>1, StoreAssumption
      <4> QED BY <2>1, <3>1, <4>1, <4>2
    <3>3. CASE k[1] \notin new
      BY <1>10, <3>1, <3>3
    <3> QED BY <3>2, <3>3
  <2> QED BY <1>7, <2>2, <2>3
<1>12. ASSUME NEW s \in DOMAIN e.latest PROVE <<s, e.latest[s]>> \in DOMAIN e.scvars
  <2>1. CASE s \in new
    BY <1>9, <2>1
  <2>2. CASE s \notin new
    <3>1. s \in DOMAIN d.latest
      BY <1>4, <1>6, <2>2 DEF JoinTo
    <3> QED BY <1>7, <1>8, <1>10, <2>2, <3>1
  <2> QED BY <2>1, <2>2
<1>13. LatestIs(e)
  BY <1>11, <1>12 DEF LatestIs
<1> QED BY <1>13 DEF e

\* The counter of contracts.
LEMMA FlushedCount ==
  ASSUME NEW d, DOMAIN d.owners \subseteq Scids, GetSCIDCount(d) = Cardinality(DOMAIN d.owners),
         NEW b, DOMAIN b.owners \subseteq Scids
  PROVE  GetSCIDCount(Flushed(d, b)) = Cardinality(DOMAIN Flushed(d, b).owners)
<1> DEFINE e == Flushed(d, b)
           old == DOMAIN d.owners
           new == NewOwners(d, b)
<1>1. e.owners = b.owners ++ d.owners /\ e.scCount = SCCountAfter(d, b)
  BY FlushedIs
<1>2. new = DOMAIN b.owners \ old /\ old \cup new = old \cup DOMAIN b.owners
  BY DEF NewOwners
<1> HIDE DEF e, new, old
<1>3. DOMAIN e.owners = old \cup new
  <2>1. DOMAIN e.owners = DOMAIN b.owners \cup DOMAIN d.owners
    BY <1>1, JoinDomain
  <2> QED BY <1>2, <2>1 DEF old
<1>4. IsFiniteSet(Scids) /\ new \subseteq Scids /\ old \subseteq Scids
  BY <1>2, StoreAssumption DEF old
<1>5. IsFiniteSet(old) /\ IsFiniteSet(new) /\ old \cap new = {}
  BY <1>2, <1>4, FS_Subset
<1>6. Cardinality(old \cup new) = Cardinality(old) + Cardinality(new)
  <2>1. Cardinality(old \cup new)
          = Cardinality(old) + Cardinality(new) - Cardinality(old \cap new)
    BY <1>5, FS_Union
  <2>2. Cardinality(old \cap new) = 0
    BY <1>5, FS_EmptySet
  <2>3. Cardinality(old) \in Nat /\ Cardinality(new) \in Nat
    BY <1>5, FS_CardinalityType
  <2> QED BY <2>1, <2>2, <2>3
<1>7. Cardinality(old) \in Nat /\ Cardinality(new) \in Nat
  BY <1>5, FS_CardinalityType
<1>8. GetSCIDCount(d) = Cardinality(old)
  BY DEF old
<1>9. CASE new = {}
  <2>1. e.scCount = d.scCount /\ old \cup new = old
    BY <1>1, <1>9 DEF SCCountAfter, new
  <2> QED BY <1>3, <1>8, <2>1 DEF GetSCIDCount, old, e
<1>10. CASE new # {} /\ d.scCount = -1
  <2>1. e.scCount = Cardinality(old \cup new)
    BY <1>1, <1>2, <1>10 DEF SCCountAfter, new, old
  <2>2. e.scCount # -1
    BY <1>6, <1>7, <2>1
  <2> QED BY <1>3, <2>1, <2>2 DEF GetSCIDCount, e
<1>11. CASE new # {} /\ d.scCount # -1
  <2>1. d.scCount = Cardinality(old)
    BY <1>8, <1>11 DEF GetSCIDCount
  <2>2. e.scCount = d.scCount + Cardinality(new)
    BY <1>1, <1>11 DEF SCCountAfter, new
  <2>3. e.scCount # -1
    BY <1>7, <2>1, <2>2
  <2> QED BY <1>3, <1>6, <2>1, <2>2, <2>3 DEF GetSCIDCount, e
<1> QED BY <1>9, <1>10, <1>11

\* The fields of a store after a truncation.
CutOf(e, d, h) ==
  /\ DOMAIN e = DOMAIN EmptyDB
  /\ e.owners = Without(d.owners, InstalledAbove(d, h))
  /\ e.ownerScids = {k \in d.ownerScids : k[2] \notin InstalledAbove(d, h)}
  /\ e.invokes = {r \in d.invokes : r.scid \in Affected(d, h) => r.h <= h}
  /\ e.scvars = Restrict(d.scvars, KeptVars(d, h))
  /\ e.latest = LatestCut(d, h)
  /\ e.heights = Restrict(d.heights,
       {k \in DOMAIN d.heights : k[1] \in Affected(d, h) => k[2] <= h})
  /\ e.normTx = {r \in d.normTx : r.h <= h}
  /\ e.scCount = LET dropped == InstalledAbove(d, h) \cap DOMAIN d.owners
                 IN  IF d.scCount = -1 \/ dropped = {} THEN d.scCount
                     ELSE Most(d.scCount - Cardinality(dropped), 0)
  /\ e.hashes = Restrict(d.hashes, {k \in DOMAIN d.hashes : k <= h})
  /\ e.installs = Restrict(d.installs, {k \in DOMAIN d.installs : k[1] <= h})
  /\ e.classIdx = Without(d.classIdx, InstalledAbove(d, h))
  /\ e.addrScids = AddrScidsCut(d, h)
  /\ e.last = Least(d.last, h)

LEMMA CutFields ==
  ASSUME NEW d, DOMAIN d = DOMAIN EmptyDB, NEW h
  PROVE  CutOf(Cut(d, h), d, h)
BY DEF Cut, CutOf, EmptyDB, RestrictDomain

RestrictTo(p, f, S) == DOMAIN p = S /\ \A k \in S : p[k] = f[k]

LEMMA RestrictIs ==
  ASSUME NEW f, NEW S
  PROVE  RestrictTo(Restrict(f, S), f, S)
BY DEF Restrict, RestrictTo

\* The contracts whose rows are looked at are all that have rows above.
LEMMA AffectedAre ==
  ASSUME NEW d, NEW h
  PROVE  /\ \A k \in DOMAIN d.heights : k[2] > h => k[1] \in Affected(d, h)
         /\ \A k \in DOMAIN d.scvars : k[2] > h => k[1] \in Affected(d, h)
         /\ \A k \in DOMAIN d.installs : k[1] > h => k[2] \in InstalledAbove(d, h)
         /\ InstalledAbove(d, h) \subseteq Affected(d, h)
BY DEF Affected, InstalledAbove

\* What is left of an edge.
LEMMA SurvivorsAre ==
  ASSUME NEW d, RowTypes(d), NEW h, NEW k
  PROVE  /\ Survivors(d, h, k).heights \in SUBSET (0 .. MaxHeight)
         /\ \A r \in d.invokes : r.sender = k[1] /\ r.scid = k[2] /\ r.h <= h =>
              r.h \in Survivors(d, h, k).heights
<1> DEFINE calls == {r \in d.invokes : r.sender = k[1] /\ r.scid = k[2] /\ r.h <= h}
           rings == {r \in d.normTx : r.addr = k[1] /\ r.scid = k[2] /\ r.h <= h}
           deploys == {x \in DOMAIN d.installs : d.installs[x] = k[1] /\ x[2] = k[2] /\ x[1] <= h}
<1>1. /\ \A r \in calls \cup rings : r.h \in 0 .. MaxHeight
      /\ \A x \in deploys : x[1] \in 0 .. MaxHeight
  BY StoreAssumption DEF RowTypes
<1>2. \A r \in d.invokes : r.sender = k[1] /\ r.scid = k[2] /\ r.h <= h => r \in calls
  OBVIOUS
<1>3. Survivors(d, h, k).heights
        = IF calls = {} /\ rings = {} THEN {x[1] : x \in deploys}
          ELSE {r.h : r \in calls} \cup {r.h : r \in rings}
  BY DEF Survivors
<1> HIDE DEF calls, rings, deploys
<1> QED BY <1>1, <1>2, <1>3

LEMMA CutEdges ==
  ASSUME NEW d, DOMAIN d = DOMAIN EmptyDB, RowTypes(d), NEW h
  PROVE  /\ Edges(AddrScidsCut(d, h)) /\ DOMAIN AddrScidsCut(d, h) \subseteq DOMAIN d.addrScids
         /\ \A r \in d.invokes :
              /\ r.scid \in Affected(d, h) => r.h <= h
              /\ Spans(d.addrScids, <<r.sender, r.scid>>, r.h)
              => Spans(AddrScidsCut(d, h), <<r.sender, r.scid>>, r.h)
<1> DEFINE A == Affected(d, h)
           heights == [k \in DOMAIN d.addrScids |-> Survivors(d, h, k).heights]
           keep == {k \in DOMAIN d.addrScids : k[2] \in A => heights[k] # {}}
           e == AddrScidsCut(d, h)
<1>1. /\ DOMAIN e = keep
      /\ \A k \in keep : k[2] \notin A => e[k] = d.addrScids[k]
      /\ \A k \in keep : k[2] \in A =>
           e[k].first = Min(heights[k]) /\ e[k].last = Max(heights[k])
  BY DEF AddrScidsCut
<1>2. \A k \in DOMAIN d.addrScids : d.addrScids[k].first \in Nat /\ d.addrScids[k].last \in Nat
  BY DEF RowTypes
<1>3. ASSUME NEW k \in DOMAIN d.addrScids
      PROVE  /\ heights[k] \in SUBSET (0 .. MaxHeight)
             /\ \A r \in d.invokes : r.sender = k[1] /\ r.scid = k[2] /\ r.h <= h =>
                  r.h \in heights[k]
  <2>1. heights[k] = Survivors(d, h, k).heights
    OBVIOUS
  <2> HIDE DEF heights
  <2> QED BY <2>1, SurvivorsAre
<1> HIDE DEF A, heights, e
<1>4. ASSUME NEW k \in keep, k[2] \in A
      PROVE  /\ e[k].first \in Nat /\ e[k].last \in Nat
             /\ \A n \in heights[k] : e[k].first <= n /\ n <= e[k].last
  <2> DEFINE S == heights[k]
  <2>1. S \in SUBSET (0 .. MaxHeight) /\ S # {} /\ S \in SUBSET Nat
    BY <1>3, <1>4
  <2>2. e[k].first = Min(S) /\ e[k].last = Max(S)
    BY <1>1, <1>4
  <2> HIDE DEF S
  <2>3. Min(S) \in S /\ \A n \in S : Min(S) <= n
    BY <2>1, MinIs
  <2>4. Max(S) \in S /\ \A n \in S : n <= Max(S)
    BY <2>1, MaxIs, StoreAssumption
  <2> QED BY <2>1, <2>2, <2>3, <2>4 DEF S
<1>5. Edges(e)
  BY <1>1, <1>2, <1>4 DEF Edges
<1>6. ASSUME NEW r \in d.invokes, r.scid \in A => r.h <= h,
             Spans(d.addrScids, <<r.sender, r.scid>>, r.h)
      PROVE  Spans(e, <<r.sender, r.scid>>, r.h)
  <2> DEFINE k == <<r.sender, r.scid>>
  <2>1. k[1] = r.sender /\ k[2] = r.scid /\ k \in DOMAIN d.addrScids
    BY <1>6 DEF Spans
  <2> HIDE DEF k
  <2>2. CASE r.scid \in A
    <3>1. r.h \in heights[k]
      BY <1>3, <1>6, <2>1, <2>2
    <3>2. k \in keep
      BY <2>1, <3>1
    <3>3. e[k].first <= r.h /\ r.h <= e[k].last
      BY <1>4, <2>1, <2>2, <3>1, <3>2
    <3> QED BY <1>1, <3>2, <3>3 DEF Spans, k
  <2>3. CASE r.scid \notin A
    <3>1. k \in keep /\ e[k] = d.addrScids[k]
      BY <1>1, <2>1, <2>3
    <3> QED BY <1>1, <1>6, <3>1 DEF Spans, k
  <2> QED BY <2>2, <2>3
<1> QED BY <1>1, <1>5, <1>6 DEF e, A

LEMMA CutRows ==
  ASSUME NEW d, DOMAIN d = DOMAIN EmptyDB, RowTypes(d), OwnersAgree(d), NEW c,
         OwnersInstalled(d, c), NEW h \in Nat
  PROVE  LET e == Cut(d, h)
         IN  /\ RowTypes(e) /\ OwnersAgree(e) /\ OwnersInstalled(e, c)
             /\ InvokesCovered(d) => InvokesCovered(e)
<1> DEFINE e == Cut(d, h)
           A == Affected(d, h)
           gone == InstalledAbove(d, h)
           low == {k \in DOMAIN d.heights : k[1] \in A => k[2] <= h}
           old == {k \in DOMAIN d.installs : k[1] <= h}
<1>0. CutOf(e, d, h)
  BY CutFields
<1> HIDE DEF e
<1>1. /\ DOMAIN e = DOMAIN EmptyDB
      /\ e.ownerScids = {k \in d.ownerScids : k[2] \notin gone}
      /\ e.invokes = {r \in d.invokes : r.scid \in A => r.h <= h}
      /\ e.normTx = {r \in d.normTx : r.h <= h}
      /\ e.addrScids = AddrScidsCut(d, h)
  BY <1>0 DEF CutOf
<1>2. /\ RestrictTo(e.owners, d.owners, DOMAIN d.owners \ gone)
      /\ RestrictTo(e.heights, d.heights, low)
      /\ RestrictTo(e.installs, d.installs, old)
  <2>1. /\ e.owners = Restrict(d.owners, DOMAIN d.owners \ gone)
        /\ e.heights = Restrict(d.heights, low)
        /\ e.installs = Restrict(d.installs, old)
    BY <1>0 DEF CutOf, Without
  <2> HIDE DEF e, low, old, gone
  <2> QED BY <2>1, RestrictIs
<1>3. /\ RestrictTo(e.scvars, d.scvars, KeptVars(d, h))
      /\ RestrictTo(e.hashes, d.hashes, {k \in DOMAIN d.hashes : k <= h})
  <2>1. /\ e.scvars = Restrict(d.scvars, KeptVars(d, h))
        /\ e.hashes = Restrict(d.hashes, {k \in DOMAIN d.hashes : k <= h})
    BY <1>0 DEF CutOf
  <2> HIDE DEF e
  <2> QED BY <2>1, RestrictIs
<1>4. /\ Edges(e.addrScids) /\ DOMAIN e.addrScids \subseteq DOMAIN d.addrScids
      /\ \A r \in d.invokes :
           /\ r.scid \in A => r.h <= h
           /\ Spans(d.addrScids, <<r.sender, r.scid>>, r.h)
           => Spans(e.addrScids, <<r.sender, r.scid>>, r.h)
  BY <1>1, CutEdges
<1>5. \A k \in DOMAIN d.installs : k \notin old => k[2] \in gone
  <2>1. ASSUME NEW k \in DOMAIN d.installs, ~(k[1] <= h) PROVE k[2] \in gone
    <3>1. k[1] > h
      BY <2>1, StoreAssumption DEF RowTypes
    <3> QED BY <3>1 DEF InstalledAbove
  <2> QED BY <2>1
<1> HIDE DEF e, A, gone
<1>6. RowTypes(e)
  <2>1. /\ DOMAIN e.owners \subseteq Scids /\ e.ownerScids \subseteq Addrs \X Scids
        /\ DOMAIN e.installs \subseteq (1 .. MaxHeight) \X Scids
        /\ \A r \in e.invokes \cup e.normTx : r.h \in 1 .. MaxHeight
    BY <1>1, <1>2 DEF RowTypes, RestrictTo
  <2>2. /\ DOMAIN e.scvars \subseteq Scids \X (1 .. MaxHeight)
        /\ DOMAIN e.heights \subseteq Scids \X (1 .. MaxHeight)
        /\ DOMAIN e.addrScids \subseteq Addrs \X Scids
        /\ DOMAIN e.hashes \subseteq 1 .. MaxHeight
    BY <1>2, <1>3, <1>4 DEF RowTypes, RestrictTo, KeptVars
  <2> QED BY <1>4, <2>1, <2>2 DEF RowTypes, Edges
<1>7. OwnersAgree(e)
  <2> SUFFICES ASSUME NEW a \in Addrs, NEW s \in Scids
               PROVE  <<a, s>> \in e.ownerScids <=> s \in DOMAIN e.owners /\ e.owners[s] = a
    BY DEF OwnersAgree
  <2>1. <<a, s>> \in d.ownerScids <=> s \in DOMAIN d.owners /\ d.owners[s] = a
    BY DEF OwnersAgree
  <2>2. <<a, s>> \in e.ownerScids <=> <<a, s>> \in d.ownerScids /\ s \notin gone
    BY <1>1
  <2> QED BY <1>2, <2>1, <2>2 DEF RestrictTo
<1>8. OwnersInstalled(e, c)
  <2>1. ASSUME NEW k \in DOMAIN e.installs
        PROVE  \E i \in DOMAIN c[k[1]].txs :
                 Installs(c, k[1], i, k[2]) /\ e.installs[k] = c[k[1]].txs[i].sender
    BY <1>2 DEF OwnersInstalled, RestrictTo
  <2>2. ASSUME NEW s \in DOMAIN e.owners
        PROVE  \E k \in DOMAIN e.installs : k[2] = s /\ e.installs[k] = e.owners[s]
    <3>1. s \in DOMAIN d.owners /\ s \notin gone /\ e.owners[s] = d.owners[s]
      BY <1>2 DEF RestrictTo
    <3>2. PICK k \in DOMAIN d.installs : k[2] = s /\ d.installs[k] = d.owners[s]
      BY <3>1 DEF OwnersInstalled
    <3>3. k \in old
      BY <1>5, <3>1, <3>2
    <3> QED BY <1>2, <3>1, <3>2, <3>3 DEF RestrictTo
  <2> QED BY <2>1, <2>2 DEF OwnersInstalled
<1>9. ASSUME InvokesCovered(d) PROVE InvokesCovered(e)
  <2>1. \A r \in d.invokes :
          /\ <<r.scid, r.h>> \in DOMAIN d.heights /\ r.h \in Nat
          /\ r.sender # NoAddr => Spans(d.addrScids, <<r.sender, r.scid>>, r.h)
    BY <1>9, FitsParts
  <2>2. ASSUME NEW r \in e.invokes
        PROVE  /\ <<r.scid, r.h>> \in DOMAIN e.heights
               /\ r.sender # NoAddr => Spans(e.addrScids, <<r.sender, r.scid>>, r.h)
    <3>1. r \in d.invokes /\ (r.scid \in A => r.h <= h)
      BY <1>1
    <3>2. <<r.scid, r.h>> \in low
      BY <2>1, <3>1
    <3> QED BY <1>2, <1>4, <2>1, <3>1, <3>2 DEF RestrictTo
  <2> QED BY <2>2, FitsParts
<1> QED BY <1>6, <1>7, <1>8, <1>9 DEF e

LEMMA CutLatest ==
  ASSUME NEW d, DOMAIN d = DOMAIN EmptyDB, DOMAIN d.scvars \subseteq Scids \X (1 .. MaxHeight),
         LatestIs(d), NEW h \in Nat
  PROVE  LatestIs(Cut(d, h))
<1> DEFINE e == Cut(d, h)
           A == Affected(d, h)
           V == KeptVars(d, h)
           left == [s \in A |-> Snapshots(V, s)]
           dropped == {s \in A : left[s] = {}}
           f == [s \in DOMAIN d.latest \ dropped |-> IF s \in A THEN Max(left[s]) ELSE d.latest[s]]
           g == [s \in A \ dropped |-> Max(left[s])]
<1>1. e.latest = f ++ g
  <2>1. e.latest = LatestCut(d, h)
    BY CutFields DEF CutOf
  <2>2. LatestCut(d, h) = f ++ g
    <3>1. {s \in A : Snapshots(V, s) = {}} = dropped /\ {s \in A : Snapshots(V, s) # {}} = A \ dropped
      OBVIOUS
    <3>2. f = [s \in DOMAIN d.latest \ dropped |->
                 IF s \in A THEN Max(Snapshots(V, s)) ELSE d.latest[s]]
      OBVIOUS
    <3>3. g = [s \in A \ dropped |-> Max(Snapshots(V, s))]
      OBVIOUS
    <3> HIDE DEF f, g, dropped, left
    <3> QED BY <3>1, <3>2, <3>3 DEF LatestCut, Snapshots
  <2> QED BY <2>1, <2>2
<1>2. DOMAIN e.scvars = V
  <2>1. e.scvars = Restrict(d.scvars, V)
    BY CutFields DEF CutOf
  <2> QED BY <2>1 DEF Restrict
<1>3. V = {k \in DOMAIN d.scvars : k[2] <= h} /\ V \subseteq Scids \X (1 .. MaxHeight)
  BY DEF KeptVars
<1>4. \A k \in DOMAIN d.scvars : k[1] \notin A => k \in V
  <2>1. ASSUME NEW k \in DOMAIN d.scvars, k[1] \notin A PROVE k[2] <= h
    <3>1. k[2] \in Nat
      BY StoreAssumption
    <3>2. ~(k[2] > h)
      BY <2>1, AffectedAre
    <3> QED BY <3>1, <3>2
  <2> QED BY <1>3, <2>1
<1>5. /\ DOMAIN f = DOMAIN d.latest \ dropped /\ DOMAIN g = A \ dropped
      /\ \A s \in DOMAIN f : f[s] = IF s \in A THEN Max(left[s]) ELSE d.latest[s]
      /\ \A s \in DOMAIN g : g[s] = Max(left[s])
  OBVIOUS
<1>6. ASSUME NEW s \in A, left[s] # {}
      PROVE  /\ <<s, Max(left[s])>> \in V
             /\ \A k \in V : k[1] = s => k[2] <= Max(left[s])
  <2>1. left[s] = Snapshots(V, s)
    OBVIOUS
  <2> HIDE DEF left, V, A
  <2> QED BY <1>3, <1>6, <2>1, HighestSnapshot
<1>7. \A k \in V : k[1] \in A => left[k[1]] # {}
  BY DEF Snapshots
<1> HIDE DEF e, A, V, left, f, g
<1>8. JoinTo(e.latest, f, g)
  BY <1>1, JoinIs
<1>9. /\ DOMAIN e.latest = (DOMAIN d.latest \cup A) \ dropped
      /\ \A s \in DOMAIN e.latest : e.latest[s] = IF s \in A THEN Max(left[s]) ELSE d.latest[s]
  BY <1>5, <1>8 DEF JoinTo
<1>10. ASSUME NEW k \in V PROVE k[1] \in DOMAIN e.latest /\ k[2] <= e.latest[k[1]]
  <2>1. k \in DOMAIN d.scvars /\ k[1] \in DOMAIN d.latest /\ k[2] <= d.latest[k[1]]
    BY <1>3 DEF LatestIs
  <2>2. CASE k[1] \in A
    <3>1. left[k[1]] # {}
      BY <1>7, <2>2
    <3>2. k[1] \in DOMAIN e.latest
      BY <1>9, <2>2, <3>1
    <3>3. k[2] <= Max(left[k[1]])
      BY <1>6, <2>2, <3>1
    <3> QED BY <1>9, <2>2, <3>2, <3>3
  <2>3. CASE k[1] \notin A
    BY <1>9, <2>1, <2>3
  <2> QED BY <2>2, <2>3
<1>11. ASSUME NEW s \in DOMAIN e.latest PROVE <<s, e.latest[s]>> \in V
  <2>1. CASE s \in A
    <3>1. left[s] # {} /\ e.latest[s] = Max(left[s])
      BY <1>9, <2>1
    <3> QED BY <1>6, <2>1, <3>1
  <2>2. CASE s \notin A
    <3>1. s \in DOMAIN d.latest /\ e.latest[s] = d.latest[s]
      BY <1>9, <2>2
    <3>2. <<s, d.latest[s]>> \in DOMAIN d.scvars /\ <<s, d.latest[s]>>[1] = s
      BY <3>1 DEF LatestIs
    <3> QED BY <1>4, <2>2, <3>1, <3>2
  <2> QED BY <2>1, <2>2
<1>12. LatestIs(e)
  BY <1>2, <1>10, <1>11 DEF LatestIs
<1> QED BY <1>12 DEF e

LEMMA CutCount ==
  ASSUME NEW d, DOMAIN d = DOMAIN EmptyDB, DOMAIN d.owners \subseteq Scids,
         GetSCIDCount(d) = Cardinality(DOMAIN d.owners), NEW h
  PROVE  GetSCIDCount(Cut(d, h)) = Cardinality(DOMAIN Cut(d, h).owners)
<1> DEFINE e == Cut(d, h)
           old == DOMAIN d.owners
           dropped == InstalledAbove(d, h) \cap old
<1>1. e.scCount = IF d.scCount = -1 \/ dropped = {} THEN d.scCount
                  ELSE Most(d.scCount - Cardinality(dropped), 0)
  BY CutFields DEF CutOf
<1>2. DOMAIN e.owners = old \ dropped
  <2>1. e.owners = Without(d.owners, InstalledAbove(d, h))
    BY CutFields DEF CutOf
  <2> QED BY <2>1 DEF Without, Restrict
<1> HIDE DEF e, dropped
<1>3. IsFiniteSet(old) /\ dropped \subseteq old
  BY StoreAssumption, FS_Subset DEF dropped
<1>4. Cardinality(old) = Cardinality(dropped) + Cardinality(old \ dropped)
      /\ Cardinality(dropped) \in Nat /\ Cardinality(old \ dropped) \in Nat
  <2>1. IsFiniteSet(dropped) /\ IsFiniteSet(old \ dropped)
    BY <1>3, FS_Subset
  <2>2. dropped \cup (old \ dropped) = old /\ dropped \cap (old \ dropped) = {}
    BY <1>3
  <2>3. Cardinality(dropped \cup (old \ dropped))
          = Cardinality(dropped) + Cardinality(old \ dropped) - Cardinality(dropped \cap (old \ dropped))
    BY <2>1, FS_Union
  <2>4. Cardinality({}) = 0
    BY FS_EmptySet
  <2>5. Cardinality(dropped) \in Nat /\ Cardinality(old \ dropped) \in Nat
    BY <2>1, FS_CardinalityType
  <2>6. Cardinality(old) = Cardinality(dropped) + Cardinality(old \ dropped) - Cardinality({})
    BY <2>2, <2>3, Zenon
  <2> HIDE DEF old
  <2> QED BY <2>4, <2>5, <2>6
<1> HIDE DEF old
<1>5. CASE d.scCount = -1
  BY <1>1, <1>2, <1>5 DEF GetSCIDCount, e
<1>6. CASE d.scCount # -1
  <2>1. d.scCount = Cardinality(old)
    BY <1>6 DEF GetSCIDCount, old
  <2>2. CASE dropped = {}
    <3>1. old \ dropped = old /\ e.scCount = d.scCount
      BY <1>1, <2>2
    <3> QED BY <1>2, <1>6, <2>1, <3>1 DEF GetSCIDCount, e
  <2>3. CASE dropped # {}
    <3>1. e.scCount = Most(d.scCount - Cardinality(dropped), 0)
      BY <1>1, <1>6, <2>3
    <3>2. d.scCount - Cardinality(dropped) = Cardinality(old \ dropped)
      BY <1>4, <2>1
    <3>3. e.scCount = Cardinality(old \ dropped) /\ e.scCount # -1
      BY <1>4, <3>1, <3>2 DEF Most
    <3> QED BY <1>2, <3>3 DEF GetSCIDCount, e
  <2> QED BY <2>2, <2>3
<1> QED BY <1>5, <1>6

\* StoreLine, but for the listing of classes, of a store and a chain.
Behind(d, reset, ahead) ==
  /\ \A k \in DOMAIN d.heights : k[2] <= d.last
  /\ \A r \in d.normTx : r.h <= d.last
  /\ \A k \in DOMAIN d.installs : k[1] <= d.last
  /\ \A k \in DOMAIN d.scvars \ ahead : k[2] <= d.last
  /\ ~reset => /\ \A r \in d.invokes : r.h <= d.last
               /\ \A h \in DOMAIN d.hashes : h <= d.last

StoreFits(d, c, reset, ahead) ==
  /\ DOMAIN d = DOMAIN EmptyDB /\ d.last \in Nat
  /\ RowTypes(d) /\ OwnersAgree(d) /\ OwnersInstalled(d, c)
  /\ ~reset => InvokesCovered(d)
  /\ DOMAIN d.classIdx \subseteq Scids
  /\ GetSCIDCount(d) = Cardinality(DOMAIN d.owners)
  /\ LatestIs(d) /\ Behind(d, reset, ahead)

LEMMA FlushFits ==
  ASSUME NEW c, OneInstall(c), NEW d, NEW reset, NEW ahead, StoreFits(d, c, reset, ahead),
         NEW b, NEW top, BatchFits(b, c, top), NEW more, Behind(Flushed(d, b), reset, more),
         Flushed(d, b).last \in Nat
  PROVE  StoreFits(Flushed(d, b), c, reset, more)
<1> DEFINE e == Flushed(d, b)
<1>1. /\ DOMAIN d = DOMAIN EmptyDB /\ RowTypes(d) /\ OwnersAgree(d) /\ OwnersInstalled(d, c)
      /\ DOMAIN d.classIdx \subseteq Scids
      /\ GetSCIDCount(d) = Cardinality(DOMAIN d.owners) /\ LatestIs(d)
  BY DEF StoreFits
<1>2. /\ RowTypes(b) /\ OwnersAgree(b) /\ OwnersInstalled(b, c) /\ InvokesCovered(b)
      /\ DOMAIN b.classes \subseteq Scids
  BY DEF BatchFits
<1>3. /\ RowTypes(e) /\ OwnersAgree(e) /\ OwnersInstalled(e, c)
      /\ InvokesCovered(d) => InvokesCovered(e)
  BY <1>1, <1>2, FlushedRows
<1>4. /\ DOMAIN d.scvars \subseteq Scids \X (1 .. MaxHeight)
      /\ DOMAIN b.scvars \subseteq Scids \X (1 .. MaxHeight)
      /\ DOMAIN d.owners \subseteq Scids /\ DOMAIN b.owners \subseteq Scids
  BY <1>1, <1>2 DEF RowTypes
<1>5. LatestIs(e)
  BY <1>1, <1>4, FlushedLatest
<1>6. GetSCIDCount(e) = Cardinality(DOMAIN e.owners)
  BY <1>1, <1>4, FlushedCount
<1>7. DOMAIN e = DOMAIN EmptyDB /\ e.classIdx = b.classes ++ d.classIdx
  BY FlushedIs
<1> HIDE DEF e
<1>8. DOMAIN e.classIdx = DOMAIN b.classes \cup DOMAIN d.classIdx
  BY <1>7, JoinDomain
<1>9. DOMAIN e.classIdx \subseteq Scids
  BY <1>1, <1>2, <1>8
<1>10. ~reset => InvokesCovered(e)
  BY <1>3 DEF StoreFits
<1>11. Behind(e, reset, more) /\ e.last \in Nat
  BY DEF e
<1>12. StoreFits(e, c, reset, more)
  BY <1>3, <1>5, <1>6, <1>7, <1>9, <1>10, <1>11 DEF StoreFits
<1> QED BY <1>12 DEF e

\* The rows of a store after a commit are those of the store and the batch.
LEMMA FlushedHeights ==
  ASSUME NEW d, NEW b
  PROVE  LET e == Flushed(d, b)
         IN  /\ DOMAIN e.heights = DOMAIN b.heights \cup DOMAIN d.heights
             /\ DOMAIN e.installs = DOMAIN b.installs \cup DOMAIN d.installs
             /\ DOMAIN e.scvars = DOMAIN b.scvars \cup DOMAIN d.scvars
             /\ DOMAIN e.hashes = DOMAIN b.hashes \cup DOMAIN d.hashes
             /\ e.normTx = d.normTx \cup b.normTx /\ e.invokes = d.invokes \cup b.invokes
             /\ e.last = IF b.last > 0 THEN b.last ELSE d.last
<1> DEFINE e == Flushed(d, b)
           g == [k \in DOMAIN b.heights |-> b.heights[k] + Get(d.heights, k, 0)]
<1>1. /\ e.installs = b.installs ++ d.installs /\ e.scvars = b.scvars ++ d.scvars
      /\ e.hashes = b.hashes ++ d.hashes /\ e.normTx = d.normTx \cup b.normTx
      /\ e.invokes = d.invokes \cup b.invokes
      /\ e.last = IF b.last > 0 THEN b.last ELSE d.last
  BY FlushedIs
<1>2. e.heights = g ++ d.heights
  BY FlushedIs DEF HeightsAfter
<1>3. DOMAIN g = DOMAIN b.heights
  OBVIOUS
<1> HIDE DEF e, g
<1>4. DOMAIN e.heights = DOMAIN b.heights \cup DOMAIN d.heights
  BY <1>2, <1>3, JoinDomain
<1>5. DOMAIN e.installs = DOMAIN b.installs \cup DOMAIN d.installs
  <2>1. e.installs = b.installs ++ d.installs
    BY <1>1
  <2> QED BY <2>1, JoinDomain
<1>6. DOMAIN e.scvars = DOMAIN b.scvars \cup DOMAIN d.scvars
  <2>1. e.scvars = b.scvars ++ d.scvars
    BY <1>1
  <2> QED BY <2>1, JoinDomain
<1>7. DOMAIN e.hashes = DOMAIN b.hashes \cup DOMAIN d.hashes
  <2>1. e.hashes = b.hashes ++ d.hashes
    BY <1>1
  <2> QED BY <2>1, JoinDomain
<1>8. /\ e.normTx = d.normTx \cup b.normTx /\ e.invokes = d.invokes \cup b.invokes
      /\ e.last = IF b.last > 0 THEN b.last ELSE d.last
  BY <1>1
<1> QED BY <1>4, <1>5, <1>6, <1>7, <1>8 DEF e

\* A batch of the scan.
LEMMA ScanFits ==
  ASSUME NEW c, OneInstall(c), NEW d, NEW reset, NEW ahead, StoreFits(d, c, reset, ahead),
         NEW b, BatchFits(b, c, b.last), b.last \in Nat \ {0}, d.last <= b.last
  PROVE  StoreFits(Flushed(d, b), c, reset, ahead) /\ Flushed(d, b).last = b.last
<1> DEFINE e == Flushed(d, b)
<1>1. /\ DOMAIN e.heights = DOMAIN b.heights \cup DOMAIN d.heights
      /\ DOMAIN e.installs = DOMAIN b.installs \cup DOMAIN d.installs
      /\ DOMAIN e.scvars = DOMAIN b.scvars \cup DOMAIN d.scvars
      /\ DOMAIN e.hashes = DOMAIN b.hashes \cup DOMAIN d.hashes
      /\ e.normTx = d.normTx \cup b.normTx /\ e.invokes = d.invokes \cup b.invokes
      /\ e.last = IF b.last > 0 THEN b.last ELSE d.last
  BY FlushedHeights
<1> HIDE DEF e
<1>2. e.last = b.last /\ d.last \in Nat /\ e.last \in Nat
  BY <1>1 DEF StoreFits
<1>3. /\ RowTypes(d) /\ Behind(d, reset, ahead)
      /\ RowTypes(b) /\ RowsUpTo(b, e.last)
      /\ \A k \in DOMAIN b.scvars : k[2] <= e.last
      /\ \A r \in b.invokes : r.h <= e.last
      /\ \A h \in DOMAIN b.hashes : h <= e.last
  BY <1>2 DEF StoreFits, BatchFits
<1>4. Behind(e, reset, ahead)
  <2>1. \A k \in DOMAIN e.heights : k[2] <= e.last
    <3>1. \A k \in DOMAIN d.heights : k[2] <= d.last /\ k[2] \in Nat
      BY <1>3, StoreAssumption DEF Behind, RowTypes
    <3> QED BY <1>1, <1>2, <1>3, <3>1 DEF RowsUpTo
  <2>2. \A k \in DOMAIN e.installs : k[1] <= e.last
    <3>1. \A k \in DOMAIN d.installs : k[1] <= d.last /\ k[1] \in Nat
      BY <1>3, StoreAssumption DEF Behind, RowTypes
    <3> QED BY <1>1, <1>2, <1>3, <3>1 DEF RowsUpTo
  <2>3. \A r \in e.normTx : r.h <= e.last
    <3>1. \A r \in d.normTx : r.h <= d.last /\ r.h \in Nat
      BY <1>3, StoreAssumption DEF Behind, RowTypes
    <3> QED BY <1>1, <1>2, <1>3, <3>1 DEF RowsUpTo
  <2>4. \A k \in DOMAIN e.scvars \ ahead : k[2] <= e.last
    <3>1. \A k \in DOMAIN d.scvars \ ahead : k[2] <= d.last /\ k[2] \in Nat
      BY <1>3, StoreAssumption DEF Behind, RowTypes
    <3> QED BY <1>1, <1>2, <1>3, <3>1
  <2>5. ASSUME ~reset
        PROVE  (\A r \in e.invokes : r.h <= e.last) /\ \A h \in DOMAIN e.hashes : h <= e.last
    <3>1. \A r \in d.invokes : r.h <= d.last /\ r.h \in Nat
      BY <1>3, <2>5, StoreAssumption DEF Behind, RowTypes
    <3>2. \A h \in DOMAIN d.hashes : h <= d.last /\ h \in Nat
      BY <1>3, <2>5, StoreAssumption DEF Behind, RowTypes
    <3> QED BY <1>1, <1>2, <1>3, <3>1, <3>2
  <2> QED BY <2>1, <2>2, <2>3, <2>4, <2>5 DEF Behind
<1>5. StoreFits(e, c, reset, ahead)
  BY <1>2, <1>4, FlushFits DEF e
<1> QED BY <1>2, <1>5 DEF e

\* A batch of refreshed variables: it owns nothing and moves no height.
Renews(b, S, h) ==
  /\ DOMAIN b.scvars = S \X {h} /\ b.last = 0
  /\ DOMAIN b.classes = S /\ DOMAIN b.hashes = {}
  /\ DOMAIN b.heights = {} /\ DOMAIN b.installs = {} /\ DOMAIN b.owners = {}
  /\ b.normTx = {} /\ b.invokes = {}

LEMMA RefreshedFits ==
  ASSUME NEW c, NEW S, S \subseteq Scids, NEW h \in 1 .. MaxHeight, NEW v
  PROVE  LET b == RefreshBatch(S, h, v)
         IN  BatchFits(b, c, MaxHeight) /\ Renews(b, S, h)
<1> DEFINE b == RefreshBatch(S, h, v)
<1>1. /\ DOMAIN b = DOMAIN EmptyBatch /\ DOMAIN b.scvars = S \X {h} /\ b.last = 0
      /\ DOMAIN b.classes = S /\ b.hashes = Empty /\ b.heights = Empty /\ b.installs = Empty
      /\ b.owners = Empty /\ b.ownerScids = {} /\ b.addrScids = Empty
      /\ b.normTx = {} /\ b.invokes = {}
  BY DEF RefreshBatch, EmptyBatch
<1>2. DOMAIN Empty = {}
  BY DEF Empty
<1> HIDE DEF b
<1>3. RowTypes(b)
  BY <1>1, <1>2 DEF RowTypes
<1>4. RowsUpTo(b, MaxHeight) /\ InvokesCovered(b)
  BY <1>1, <1>2 DEF RowsUpTo, InvokesCovered
<1>5. OwnersAgree(b) /\ OwnersInstalled(b, c)
  BY <1>1, <1>2 DEF OwnersAgree, OwnersInstalled
<1>6. \A k \in DOMAIN b.scvars : k[2] <= MaxHeight
  BY <1>1, StoreAssumption
<1>7. BatchFits(b, c, MaxHeight)
  BY <1>1, <1>2, <1>3, <1>4, <1>5, <1>6 DEF BatchFits
<1> QED BY <1>1, <1>2, <1>7 DEF b, Renews

LEMMA RefreshFits ==
  ASSUME NEW c, OneInstall(c), NEW d, NEW reset, NEW ahead, StoreFits(d, c, reset, ahead),
         NEW S, S \subseteq Scids, NEW h \in 1 .. MaxHeight, NEW v
  PROVE  LET e == Flushed(d, RefreshBatch(S, h, v))
         IN  StoreFits(e, c, reset, ahead \cup {<<s, h>> : s \in S}) /\ e.last = d.last
<1> DEFINE b == RefreshBatch(S, h, v)
           e == Flushed(d, b)
           more == ahead \cup {<<s, h>> : s \in S}
<1>1. /\ BatchFits(b, c, MaxHeight) /\ DOMAIN b.scvars = S \X {h} /\ b.last = 0
      /\ DOMAIN b.hashes = {} /\ DOMAIN b.heights = {} /\ DOMAIN b.installs = {}
      /\ b.normTx = {} /\ b.invokes = {}
  <2>1. BatchFits(b, c, MaxHeight) /\ Renews(b, S, h)
    BY RefreshedFits
  <2> QED BY <2>1 DEF Renews
<1> HIDE DEF b
<1>2. /\ DOMAIN e.heights = DOMAIN b.heights \cup DOMAIN d.heights
      /\ DOMAIN e.installs = DOMAIN b.installs \cup DOMAIN d.installs
      /\ DOMAIN e.scvars = DOMAIN b.scvars \cup DOMAIN d.scvars
      /\ DOMAIN e.hashes = DOMAIN b.hashes \cup DOMAIN d.hashes
      /\ e.normTx = d.normTx \cup b.normTx /\ e.invokes = d.invokes \cup b.invokes
      /\ e.last = IF b.last > 0 THEN b.last ELSE d.last
  BY FlushedHeights
<1> HIDE DEF e
<1>3. e.last = d.last /\ d.last \in Nat /\ Behind(d, reset, ahead)
  BY <1>1, <1>2 DEF StoreFits
<1>4. DOMAIN e.scvars \ more \subseteq DOMAIN d.scvars \ ahead
  BY <1>1, <1>2
<1>5. Behind(e, reset, more)
  BY <1>1, <1>2, <1>3, <1>4 DEF Behind
<1>6. StoreFits(e, c, reset, more)
  BY <1>1, <1>3, <1>5, FlushFits DEF e
<1> QED BY <1>3, <1>6 DEF e, b

\* A truncation.
LEMMA CutFits ==
  ASSUME NEW c, NEW d, NEW reset, NEW ahead, StoreFits(d, c, reset, ahead), NEW h \in Nat
  PROVE  /\ StoreFits(Cut(d, h), c, reset, {k \in ahead : k[2] <= h})
         /\ Cut(d, h).last = Least(d.last, h)
<1> DEFINE e == Cut(d, h)
           A == Affected(d, h)
           less == {k \in ahead : k[2] <= h}
<1>1. /\ DOMAIN d = DOMAIN EmptyDB /\ d.last \in Nat /\ RowTypes(d) /\ OwnersAgree(d)
      /\ OwnersInstalled(d, c) /\ DOMAIN d.classIdx \subseteq Scids
      /\ GetSCIDCount(d) = Cardinality(DOMAIN d.owners)
      /\ LatestIs(d) /\ Behind(d, reset, ahead)
  BY DEF StoreFits
<1>2. /\ RowTypes(e) /\ OwnersAgree(e) /\ OwnersInstalled(e, c)
      /\ InvokesCovered(d) => InvokesCovered(e)
  BY <1>1, CutRows
<1>3. /\ DOMAIN d.scvars \subseteq Scids \X (1 .. MaxHeight) /\ DOMAIN d.owners \subseteq Scids
      /\ \A k \in DOMAIN d.heights : k[2] \in Nat
      /\ \A k \in DOMAIN d.installs : k[1] \in Nat
      /\ \A k \in DOMAIN d.scvars : k[2] \in Nat
      /\ \A r \in d.invokes \cup d.normTx : r.h \in Nat
      /\ \A k \in DOMAIN d.hashes : k \in Nat
  BY <1>1, StoreAssumption DEF RowTypes
<1>4. LatestIs(e)
  BY <1>1, <1>3, CutLatest
<1>5. GetSCIDCount(e) = Cardinality(DOMAIN e.owners)
  BY <1>1, <1>3, CutCount
<1>6. CutOf(e, d, h)
  BY <1>1, CutFields
<1>7. /\ \A k \in DOMAIN d.heights : k[2] > h => k[1] \in A
      /\ \A k \in DOMAIN d.scvars : k[2] > h => k[1] \in A
  BY AffectedAre
<1> HIDE DEF e, A
<1>8. /\ DOMAIN e = DOMAIN EmptyDB /\ e.last = Least(d.last, h)
      /\ e.invokes = {r \in d.invokes : r.scid \in A => r.h <= h}
      /\ e.normTx = {r \in d.normTx : r.h <= h}
      /\ e.heights = Restrict(d.heights, {k \in DOMAIN d.heights : k[1] \in A => k[2] <= h})
      /\ e.installs = Restrict(d.installs, {k \in DOMAIN d.installs : k[1] <= h})
      /\ e.hashes = Restrict(d.hashes, {k \in DOMAIN d.hashes : k <= h})
      /\ e.scvars = Restrict(d.scvars, KeptVars(d, h))
      /\ e.classIdx = Without(d.classIdx, InstalledAbove(d, h))
  BY <1>6 DEF CutOf, A
<1>9. /\ DOMAIN e.heights = {k \in DOMAIN d.heights : k[1] \in A => k[2] <= h}
      /\ DOMAIN e.installs = {k \in DOMAIN d.installs : k[1] <= h}
      /\ DOMAIN e.hashes = {k \in DOMAIN d.hashes : k <= h}
      /\ DOMAIN e.scvars = {k \in DOMAIN d.scvars : k[2] <= h}
      /\ DOMAIN e.classIdx \subseteq Scids
  BY <1>1, <1>8 DEF Restrict, Without, KeptVars
<1>10. e.last \in Nat /\ \A n \in Nat : n <= d.last /\ n <= h => n <= e.last
  BY <1>1, <1>8 DEF Least
<1>11. \A k \in DOMAIN e.heights : k[2] <= h
  BY <1>3, <1>7, <1>9
<1>12. ASSUME ~reset, NEW r \in e.invokes PROVE r.h <= h
  <2>1. r \in d.invokes /\ (r.scid \in A => r.h <= h)
    BY <1>8
  <2>2. <<r.scid, r.h>> \in DOMAIN d.heights /\ r.h \in Nat
    BY <1>3, <1>12, <2>1 DEF StoreFits, InvokesCovered
  <2>3. r.h > h => r.scid \in A
    BY <1>7, <2>2
  <2> QED BY <2>1, <2>2, <2>3
<1>13. Behind(e, reset, less)
  <2>1. \A k \in DOMAIN e.heights : k[2] <= e.last
    BY <1>1, <1>3, <1>9, <1>10, <1>11 DEF Behind
  <2>2. \A r \in e.normTx : r.h <= e.last
    BY <1>1, <1>3, <1>8, <1>10 DEF Behind
  <2>3. \A k \in DOMAIN e.installs : k[1] <= e.last
    BY <1>1, <1>3, <1>9, <1>10 DEF Behind
  <2>4. \A k \in DOMAIN e.scvars \ less : k[2] <= e.last
    BY <1>1, <1>3, <1>9, <1>10 DEF Behind
  <2>5. ASSUME ~reset, NEW r \in e.invokes PROVE r.h <= e.last
    BY <1>1, <1>3, <1>8, <1>10, <1>12, <2>5 DEF Behind
  <2>6. ASSUME ~reset, NEW k \in DOMAIN e.hashes PROVE k <= e.last
    BY <1>1, <1>3, <1>9, <1>10, <2>6 DEF Behind
  <2> QED BY <2>1, <2>2, <2>3, <2>4, <2>5, <2>6 DEF Behind
<1>14. ~reset => InvokesCovered(e)
  BY <1>2 DEF StoreFits
<1>15. StoreFits(e, c, reset, less)
  BY <1>2, <1>4, <1>5, <1>8, <1>9, <1>10, <1>13, <1>14 DEF StoreFits
<1> QED BY <1>8, <1>15 DEF e

\* A chain with the same blocks up to the store's height.
LEMMA SameBlocksFit ==
  ASSUME NEW c, NEW d, NEW reset, NEW ahead, StoreFits(d, c, reset, ahead), NEW e,
         \A h \in DOMAIN c : h <= d.last => h \in DOMAIN e /\ e[h] = c[h]
  PROVE  StoreFits(d, e, reset, ahead)
<1>1. OwnersInstalled(d, c) /\ Behind(d, reset, ahead)
  BY DEF StoreFits
<1>2. ASSUME NEW k \in DOMAIN d.installs
      PROVE  \E i \in DOMAIN e[k[1]].txs :
               Installs(e, k[1], i, k[2]) /\ d.installs[k] = e[k[1]].txs[i].sender
  <2>1. PICK i \in DOMAIN c[k[1]].txs :
          Installs(c, k[1], i, k[2]) /\ d.installs[k] = c[k[1]].txs[i].sender
    BY <1>1 DEF OwnersInstalled
  <2>2. k[1] \in DOMAIN e /\ e[k[1]] = c[k[1]]
    BY <1>1, <2>1 DEF Behind, Installs
  <2> QED BY <2>1, <2>2 DEF Installs
<1>3. OwnersInstalled(d, e)
  BY <1>1, <1>2 DEF OwnersInstalled
<1> QED BY <1>3 DEF StoreFits

\* A reset, and the empty store.
LEMMA ResetFits ==
  ASSUME NEW d, DOMAIN d = DOMAIN EmptyDB, RowTypes(d), NEW c, NEW ahead
  PROVE  StoreFits(ResetDB(d), c, TRUE, ahead) /\ ResetDB(d).last = 0
<1> DEFINE e == ResetDB(d)
<1>1. /\ DOMAIN e = DOMAIN EmptyDB /\ e.hashes = d.hashes /\ e.invokes = d.invokes
      /\ e.owners = Empty /\ e.ownerScids = {} /\ e.scvars = Empty /\ e.latest = Empty
      /\ e.heights = Empty /\ e.normTx = {} /\ e.scCount = -1 /\ e.installs = Empty
      /\ e.classIdx = Empty /\ e.addrScids = Empty /\ e.last = 0
  BY DEF ResetDB, EmptyDB
<1>2. DOMAIN Empty = {}
  BY DEF Empty
<1> HIDE DEF e
<1>3. RowTypes(e)
  BY <1>1, <1>2 DEF RowTypes
<1>4. OwnersAgree(e) /\ OwnersInstalled(e, c)
  BY <1>1, <1>2 DEF OwnersAgree, OwnersInstalled
<1>5. LatestIs(e) /\ Behind(e, TRUE, ahead)
  BY <1>1, <1>2 DEF LatestIs, Behind
<1>6. GetSCIDCount(e) = Cardinality(DOMAIN e.owners)
  BY <1>1 DEF GetSCIDCount
<1>7. e.last \in Nat /\ DOMAIN e.classIdx \subseteq Scids
  BY <1>1, <1>2
<1>8. StoreFits(e, c, TRUE, ahead)
  BY <1>1, <1>3, <1>4, <1>5, <1>6, <1>7, Zenon DEF StoreFits
<1> QED BY <1>1, <1>8 DEF e

LEMMA EmptyFits ==
  ASSUME NEW c, NEW ahead
  PROVE  StoreFits(EmptyDB, c, FALSE, ahead)
<1> DEFINE e == EmptyDB
<1>1. /\ e.hashes = Empty /\ e.invokes = {}
      /\ e.owners = Empty /\ e.ownerScids = {} /\ e.scvars = Empty /\ e.latest = Empty
      /\ e.heights = Empty /\ e.normTx = {} /\ e.scCount = -1 /\ e.installs = Empty
      /\ e.classIdx = Empty /\ e.addrScids = Empty /\ e.last = 0
  BY DEF EmptyDB
<1>2. DOMAIN Empty = {}
  BY DEF Empty
<1> HIDE DEF e
<1>3. RowTypes(e)
  BY <1>1, <1>2 DEF RowTypes
<1>4. OwnersAgree(e) /\ OwnersInstalled(e, c) /\ InvokesCovered(e)
  BY <1>1, <1>2 DEF OwnersAgree, OwnersInstalled, InvokesCovered
<1>5. LatestIs(e) /\ Behind(e, FALSE, ahead)
  BY <1>1, <1>2 DEF LatestIs, Behind
<1>6. GetSCIDCount(e) = Cardinality(DOMAIN e.owners)
  BY <1>1 DEF GetSCIDCount
<1>7. DOMAIN e = DOMAIN EmptyDB /\ e.last \in Nat /\ DOMAIN e.classIdx \subseteq Scids
  BY <1>1, <1>2 DEF e
<1>8. StoreFits(e, c, FALSE, ahead)
  BY <1>3, <1>4, <1>5, <1>6, <1>7, Zenon DEF StoreFits
<1> QED BY <1>8 DEF e

-----------------------------------------------------------------------------
(* The chain, and the batches on their way.                                *)

\* The entries of a longer and of a shorter sequence.
LEMMA Longer ==
  ASSUME NEW S, NEW q \in Seq(S), NEW x \in S
  PROVE  LET e == Append(q, x)
         IN  /\ e \in Seq(S) /\ Len(e) = Len(q) + 1 /\ DOMAIN e = 1 .. (Len(q) + 1)
             /\ e[Len(q) + 1] = x
             /\ \A h \in 1 .. Len(q) : e[h] = q[h]
OBVIOUS

LEMMA Shorter ==
  ASSUME NEW S, NEW q \in Seq(S), NEW n \in 0 .. Len(q)
  PROVE  LET e == SubSeq(q, 1, n)
         IN  /\ e \in Seq(S) /\ Len(e) = n /\ DOMAIN e = 1 .. n
             /\ \A h \in 1 .. n : e[h] = q[h]
OBVIOUS

LEMMA Behead ==
  ASSUME NEW S, NEW q \in Seq(S), q # <<>>
  PROVE  /\ Tail(q) \in Seq(S) /\ Len(Tail(q)) = Len(q) - 1 /\ Len(q) > 0
         /\ DOMAIN Tail(q) = 1 .. (Len(q) - 1)
         /\ \A i \in 1 .. (Len(q) - 1) : Tail(q)[i] = q[i + 1]
         /\ Head(q) = q[1]
OBVIOUS

\* A sequence of some set is one of its own entries.
LEMMA OwnEntries ==
  ASSUME NEW S, NEW q \in Seq(S)
  PROVE  q \in Seq(Range(q))
<1>1. q \in [1 .. Len(q) -> Range(q)] /\ Len(q) \in Nat
  BY DEF Range
<1> QED BY <1>1

LEMMA StoreAssumed ==
  /\ MaxHeight \in Nat /\ MaxQueue \in Nat \ {0} /\ NoAddr \notin Addrs
  /\ "UNKNOWN" \notin Codes \cup {Refreshed} /\ IsFiniteSet(Scids)
BY StoreAssumption

\* The transactions of a block.
LEMMA BlockFacts ==
  ASSUME NEW c \in Blocks
  PROVE  /\ c.txs \in Seq(Range(c.txs)) /\ Len(c.txs) \in Nat
         /\ DOMAIN c.txs = 1 .. Len(c.txs)
         /\ \A i \in DOMAIN c.txs :
              IsSC(c.txs[i]) => c.txs[i].sender \in Addrs \cup {NoAddr}
<1>1. c.txs \in Seq(Range(c.txs))
  BY BlockAssumption, Zenon
<1>2. \A tx \in Range(c.txs) : IsSC(tx) => tx.sender \in Addrs \cup {NoAddr}
  BY BlockAssumption, Zenon
<1>3. \A i \in DOMAIN c.txs : c.txs[i] \in Range(c.txs)
  BY DEF Range
<1>4. Len(c.txs) \in Nat /\ DOMAIN c.txs = 1 .. Len(c.txs)
  BY <1>1
<1> QED BY <1>1, <1>2, <1>3, <1>4, Zenon

ChainOf(c) == c \in Seq(Taken) /\ Len(c) \in 0 .. MaxHeight /\ OneInstall(c)

LEMMA ChainFacts ==
  ASSUME NEW c, ChainOf(c)
  PROVE  /\ Len(c) \in Nat /\ DOMAIN c = 1 .. Len(c)
         /\ \A h \in DOMAIN c :
              /\ h \in 1 .. MaxHeight /\ Len(c[h].txs) \in Nat
              /\ DOMAIN c[h].txs = 1 .. Len(c[h].txs) /\ c[h].known \subseteq Scids
              /\ \A i \in DOMAIN c[h].txs :
                   IsSC(c[h].txs[i]) => c[h].txs[i].sender \in Addrs \cup {NoAddr}
<1>1. Len(c) \in Nat /\ DOMAIN c = 1 .. Len(c) /\ \A h \in DOMAIN c : c[h] \in Taken
  BY StoreAssumed DEF ChainOf
<1>2. ASSUME NEW h \in DOMAIN c
      PROVE  /\ h \in 1 .. MaxHeight /\ Len(c[h].txs) \in Nat
             /\ DOMAIN c[h].txs = 1 .. Len(c[h].txs) /\ c[h].known \subseteq Scids
             /\ \A i \in DOMAIN c[h].txs :
                  IsSC(c[h].txs[i]) => c[h].txs[i].sender \in Addrs \cup {NoAddr}
  <2>1. PICK x \in Blocks : c[h].txs = x.txs
    BY <1>1, <1>2 DEF Taken
  <2>2. c[h].known \subseteq Scids
    BY <1>1, <1>2 DEF Taken
  <2>3. h \in 1 .. MaxHeight
    BY <1>1, <1>2, StoreAssumed DEF ChainOf
  <2> QED BY <2>1, <2>2, <2>3, BlockFacts, Zenon
<1> QED BY <1>1, <1>2

\* A block of installs that are new to the chain, and to its own beginning.
LEMMA FollowsOnce ==
  ASSUME ChainOf(chain), NEW c \in Blocks, CanFollow(c.txs), NEW block, block.txs = c.txs,
         NEW e, DOMAIN e = 1 .. (Len(chain) + 1), e[Len(chain) + 1] = block,
         \A h \in 1 .. Len(chain) : e[h] = chain[h]
  PROVE  OneInstall(e)
<1> DEFINE new == Len(chain) + 1
<1>1. Len(chain) \in Nat /\ DOMAIN chain = 1 .. Len(chain)
  BY ChainFacts
<1>2. SUFFICES ASSUME NEW g \in DOMAIN e, NEW h \in DOMAIN e,
               NEW i \in DOMAIN e[g].txs, NEW j \in DOMAIN e[h].txs,
               e[g].txs[i].kind = "install", e[h].txs[j].kind = "install",
               e[g].txs[i].scid = e[h].txs[j].scid
        PROVE  g = h /\ i = j
  BY DEF OneInstall
<1>3. \A m \in DOMAIN e : m \in DOMAIN chain \/ m = new
  BY <1>1
<1>4. ASSUME NEW m \in DOMAIN chain, NEW k \in DOMAIN chain[m].txs,
             chain[m].txs[k].kind = "install",
             NEW l \in DOMAIN c.txs, c.txs[l].kind = "install",
             chain[m].txs[k].scid = c.txs[l].scid
      PROVE  FALSE
  BY <1>4 DEF CanFollow, Mentioned, IsSC
<1>5. ASSUME NEW k \in DOMAIN c.txs, NEW l \in DOMAIN c.txs, k < l,
             c.txs[k].kind = "install", c.txs[l].kind = "install",
             c.txs[k].scid = c.txs[l].scid
      PROVE  FALSE
  <2>1. c.txs \in Seq(Range(c.txs)) /\ Len(c.txs) \in Nat /\ DOMAIN c.txs = 1 .. Len(c.txs)
    BY BlockFacts
  <2>2. l - 1 \in 0 .. Len(c.txs)
    BY <2>1, <1>5
  <2> DEFINE some == SubSeq(c.txs, 1, l - 1)
  <2>3. DOMAIN some = 1 .. (l - 1) /\ \A n \in 1 .. (l - 1) : some[n] = c.txs[n]
    BY <2>1, <2>2, Shorter
  <2>4. k \in 1 .. (l - 1)
    BY <2>1, <1>5
  <2>5. c.txs[l].scid \notin Mentioned(some)
    BY <1>5, Zenon DEF CanFollow
  <2> HIDE DEF some
  <2> QED BY <2>3, <2>4, <2>5, <1>5 DEF Mentioned, IsSC
<1>6. CASE g \in DOMAIN chain /\ h \in DOMAIN chain
  BY <1>1, <1>2, <1>6 DEF ChainOf, OneInstall
<1>7. CASE g \in DOMAIN chain /\ h = new
  BY <1>1, <1>2, <1>4, <1>7
<1>8. CASE g = new /\ h \in DOMAIN chain
  BY <1>1, <1>2, <1>4, <1>8
<1>9. CASE g = new /\ h = new
  <2>1. i < j \/ j < i \/ i = j
    BY <1>9, BlockFacts
  <2> QED BY <1>2, <1>5, <1>9, <2>1
<1> QED BY <1>3, <1>6, <1>7, <1>8, <1>9

LEMMA OnceBefore ==
  ASSUME NEW c, ChainOf(c), NEW n \in 0 .. Len(c)
  PROVE  LET e == SubSeq(c, 1, n)
         IN  /\ ChainOf(e) /\ Len(e) = n
             /\ \A h \in DOMAIN c : h <= n => h \in DOMAIN e /\ e[h] = c[h]
             /\ \A h \in DOMAIN e : h \in DOMAIN c /\ e[h] = c[h]
<1> DEFINE e == SubSeq(c, 1, n)
<1>1. Len(c) \in Nat /\ DOMAIN c = 1 .. Len(c) /\ Len(c) <= MaxHeight /\ c \in Seq(Taken)
  BY ChainFacts DEF ChainOf
<1>2. e \in Seq(Taken) /\ Len(e) = n /\ DOMAIN e = 1 .. n /\ \A h \in 1 .. n : e[h] = c[h]
  BY <1>1, Shorter
<1> HIDE DEF e
<1>3. \A h \in DOMAIN e : h \in DOMAIN c /\ e[h] = c[h]
  BY <1>1, <1>2
<1>4. OneInstall(e)
  BY <1>3 DEF ChainOf, OneInstall
<1>5. Len(e) \in 0 .. MaxHeight
  BY <1>1, <1>2, StoreAssumed
<1>6. \A h \in DOMAIN c : h <= n => h \in DOMAIN e /\ e[h] = c[h]
  BY <1>1, <1>2
<1> QED BY <1>2, <1>3, <1>4, <1>5, <1>6 DEF ChainOf, e

LEMMA EmptyBatchFits ==
  ASSUME NEW c, NEW top
  PROVE  BatchFits(EmptyBatch, c, top) /\ EmptyBatch.last = 0
<1>1. /\ DOMAIN EmptyBatch.owners = {} /\ EmptyBatch.ownerScids = {}
      /\ DOMAIN EmptyBatch.scvars = {} /\ DOMAIN EmptyBatch.heights = {}
      /\ DOMAIN EmptyBatch.installs = {} /\ DOMAIN EmptyBatch.addrScids = {}
      /\ EmptyBatch.invokes = {} /\ EmptyBatch.normTx = {} /\ DOMAIN EmptyBatch.hashes = {}
      /\ DOMAIN EmptyBatch.classes = {} /\ EmptyBatch.last = 0
  BY DEF EmptyBatch, Empty
<1> DEFINE b == EmptyBatch
<1>2. DOMAIN b = DOMAIN EmptyBatch
  OBVIOUS
<1> HIDE DEF b
<1>3. RowTypes(b) /\ RowsUpTo(b, top) /\ OwnersAgree(b) /\ OwnersInstalled(b, c)
  BY <1>1 DEF b, RowTypes, RowsUpTo, OwnersAgree, OwnersInstalled
<1>4. InvokesCovered(b)
  BY <1>1 DEF b, InvokesCovered
<1> QED BY <1>1, <1>2, <1>3, <1>4 DEF b, BatchFits

\* What a block does to the chain and to the batch.
Grows(block) ==
  LET n == Len(chain) + 1
  IN  /\ block.txs \in {x.txs : x \in Blocks} /\ CanFollow(block.txs)
      /\ block.known \subseteq Scids
      /\ batch' = Processed(batch, db, n, block).b
      /\ validated' = Processed(batch, db, n, block).known
      /\ ChainOf(chain) /\ ChainOf(chain') /\ Len(chain') = n /\ chain'[n] = block
      /\ \A h \in DOMAIN chain : h \in DOMAIN chain' /\ chain'[h] = chain[h]
      /\ raced' = (raced \/ (~turbo /\ \E i \in DOMAIN queue :
                     DOMAIN queue[i].classes \cap Invoked(block.txs) # {}))

LEMMA BlockGrows ==
  ASSUME ChainLine, ProcessBlock PROVE \E block : Grows(block)
<1>1. ChainOf(chain) /\ Len(chain) \in Nat /\ DOMAIN chain = 1 .. Len(chain)
      /\ chain \in Seq(Taken) /\ Len(chain) < MaxHeight /\ validated \subseteq Scids
      /\ forks \in Nat
  <2>1. ChainOf(chain)
    BY StoreAssumed DEF ChainLine, ChainOf, Taken
  <2> QED BY <2>1, ChainFacts DEF ChainOf, ChainLine, ProcessBlock
<1> DEFINE n == Len(chain) + 1
           blockOf(x) == [txs |-> x.txs, parsed |-> x.parsed, hash |-> <<n, forks>>,
                          known |-> validated]
           races(txs) == raced' = (raced \/ (~turbo /\ \E i \in DOMAIN queue :
                           DOMAIN queue[i].classes \cap Invoked(txs) # {}))
<1>2. PICK x \in Blocks :
        /\ CanFollow(x.txs)
        /\ batch' = Processed(batch, db, n, blockOf(x)).b
        /\ validated' = Processed(batch, db, n, blockOf(x)).known
        /\ chain' = Append(chain, blockOf(x))
        /\ races(x.txs)
  BY Zenon DEF ProcessBlock
<1>3. PICK block :
        /\ block = [txs |-> x.txs, parsed |-> x.parsed, hash |-> <<n, forks>>,
                    known |-> validated]
        /\ batch' = Processed(batch, db, n, block).b
        /\ validated' = Processed(batch, db, n, block).known
        /\ chain' = Append(chain, block)
  BY <1>2
<1>4. block \in Taken /\ block.txs = x.txs /\ block.known \subseteq Scids
  BY <1>1, <1>3 DEF Taken
<1>5. /\ chain' \in Seq(Taken) /\ Len(chain') = n /\ DOMAIN chain' = 1 .. n
      /\ chain'[n] = block /\ \A h \in 1 .. Len(chain) : chain'[h] = chain[h]
  BY <1>1, <1>3, <1>4, Longer
<1>6. OneInstall(chain')
  BY <1>1, <1>2, <1>4, <1>5, FollowsOnce
<1>7. ChainOf(chain')
  BY <1>1, <1>5, <1>6, StoreAssumed DEF ChainOf
<1>8. \A h \in DOMAIN chain : h \in DOMAIN chain' /\ chain'[h] = chain[h]
  BY <1>1, <1>5
<1> HIDE DEF n, races
<1>9. Grows(block)
  BY <1>1, <1>2, <1>3, <1>4, <1>5, <1>7, <1>8, Zenon DEF Grows, n, races
<1> QED BY <1>9

LEMMA BlockStep ==
  ASSUME batch.last \in {0, Len(chain)}, BatchFits(batch, chain, batch.last),
         NEW block, Grows(block)
  PROVE  /\ ChainOf(chain') /\ Len(chain') = Len(chain) + 1 /\ validated' \subseteq Scids
         /\ \A h \in DOMAIN chain : h \in DOMAIN chain' /\ chain'[h] = chain[h]
         /\ BatchFits(batch', chain', Len(chain')) /\ batch'.last = Len(chain')
<1> DEFINE n == Len(chain) + 1
<1>1. /\ ChainOf(chain) /\ ChainOf(chain') /\ Len(chain') = n /\ chain'[n] = block
      /\ \A h \in DOMAIN chain : h \in DOMAIN chain' /\ chain'[h] = chain[h]
      /\ batch' = Processed(batch, db, n, block).b
      /\ validated' = Processed(batch, db, n, block).known
  BY Zenon DEF Grows
<1>2. Len(chain) \in Nat /\ OneInstall(chain')
  BY <1>1, ChainFacts DEF ChainOf
<1>3. n \in 1 .. MaxHeight /\ n \in DOMAIN chain' /\ n \in Nat /\ Len(chain) <= n
  BY <1>1, <1>2, ChainFacts, StoreAssumed DEF ChainOf
<1>4. BatchFits(batch, chain', n)
  BY <1>1, <1>2, <1>3, FitsLonger
<1> HIDE DEF n
<1>5. /\ Len(block.txs) \in Nat /\ DOMAIN block.txs = 1 .. Len(block.txs)
      /\ block.known \subseteq Scids
      /\ \A i \in DOMAIN block.txs :
           IsSC(block.txs[i]) => block.txs[i].sender \in Addrs \cup {NoAddr}
  BY <1>1, <1>3, ChainFacts, Zenon
<1>6. /\ BatchFits(Processed(batch, db, n, block).b, chain', n)
      /\ Processed(batch, db, n, block).known \subseteq Scids
      /\ Processed(batch, db, n, block).b.last = n
  BY <1>1, <1>2, <1>3, <1>4, <1>5, ProcessedFits
<1> QED BY <1>1, <1>6 DEF n

\* What a restart does to the chain: the blocks above the height go.
LEMMA RestartStep ==
  ASSUME ChainLine, NEW d, d.last \in 0 .. Len(chain), Restart(d)
  PROVE  /\ ChainOf(chain') /\ Len(chain') = d.last /\ validated' = {} /\ refresh' = None
         /\ db' = d /\ queue' = <<>> /\ batch' = EmptyBatch
         /\ \A h \in DOMAIN chain : h <= d.last => h \in DOMAIN chain' /\ chain'[h] = chain[h]
<1>1. ChainOf(chain)
  BY StoreAssumed DEF ChainLine, ChainOf, Taken
<1>2. chain' = SubSeq(chain, 1, d.last)
  BY DEF Restart
<1>3. /\ ChainOf(chain') /\ Len(chain') = d.last
      /\ \A h \in DOMAIN chain : h <= d.last => h \in DOMAIN chain' /\ chain'[h] = chain[h]
  BY <1>1, <1>2, OnceBefore
<1> QED BY <1>3 DEF Restart

\* The batches on their way, of a chain, above a height.
QueueFits(q, c, low) ==
  /\ q \in Seq(Range(q))
  /\ \A i \in DOMAIN q :
       q[i].last \in 1 .. Len(c) /\ low <= q[i].last /\ BatchFits(q[i], c, q[i].last)
  /\ \A i, j \in DOMAIN q : i < j => q[i].last <= q[j].last

BatchReady(b, c) == b.last \in {0, Len(c)} /\ BatchFits(b, c, b.last)

LEMMA QueueParts ==
  QueueLine <=> QueueFits(queue, chain, db.last) /\ BatchReady(batch, chain)
BY Zenon DEF QueueLine, QueueFits, BatchReady

LEMMA QueueGrows ==
  ASSUME NEW c, Len(c) \in Nat, NEW q, NEW low, QueueFits(q, c, low),
         NEW e, Len(e) \in Nat, Len(c) <= Len(e),
         \A h \in DOMAIN c : h \in DOMAIN e /\ e[h] = c[h]
  PROVE  QueueFits(q, e, low)
<1>1. ASSUME NEW i \in DOMAIN q
      PROVE  q[i].last \in 1 .. Len(e) /\ low <= q[i].last /\ BatchFits(q[i], e, q[i].last)
  <2>1. q[i].last \in 1 .. Len(c) /\ low <= q[i].last /\ BatchFits(q[i], c, q[i].last)
    BY Zenon DEF QueueFits
  <2>2. q[i].last \in Nat /\ q[i].last <= q[i].last /\ q[i].last \in 1 .. Len(e)
    BY <2>1
  <2>3. BatchFits(q[i], e, q[i].last)
    BY <2>1, <2>2, FitsLonger
  <2> QED BY <2>1, <2>2, <2>3
<1>2. q \in Seq(Range(q)) /\ \A i, j \in DOMAIN q : i < j => q[i].last <= q[j].last
  BY Zenon DEF QueueFits
<1> QED BY <1>1, <1>2, Zenon DEF QueueFits

LEMMA QueueSent ==
  ASSUME NEW c, Len(c) \in Nat, NEW q, NEW low \in 0 .. Len(c), QueueFits(q, c, low),
         NEW b, BatchReady(b, c), b.last > 0
  PROVE  QueueFits(Append(q, b), c, low)
<1> DEFINE e == Append(q, b)
<1>1. b.last = Len(c) /\ b.last \in 1 .. Len(c) /\ low <= b.last /\ BatchFits(b, c, b.last)
  BY DEF BatchReady
<1>2. q \in Seq(Range(q)) /\ Range(q) \subseteq Range(q) \cup {b}
  BY DEF QueueFits
<1>3. q \in Seq(Range(q) \cup {b}) /\ Len(q) \in Nat
  BY <1>2
<1>4. /\ e \in Seq(Range(q) \cup {b}) /\ DOMAIN e = 1 .. (Len(q) + 1)
      /\ e[Len(q) + 1] = b /\ \A i \in 1 .. Len(q) : e[i] = q[i]
  BY <1>3, Longer
<1>5. DOMAIN q = 1 .. Len(q)
  BY <1>3
<1> HIDE DEF e
<1>6. e \in Seq(Range(e))
  BY <1>4, OwnEntries
<1>7. \A i \in DOMAIN e : (i \in DOMAIN q /\ e[i] = q[i]) \/ (i = Len(q) + 1 /\ e[i] = b)
  BY <1>3, <1>4, <1>5
<1>8. \A i \in DOMAIN q :
        q[i].last \in 1 .. Len(c) /\ low <= q[i].last /\ BatchFits(q[i], c, q[i].last)
  BY Zenon DEF QueueFits
<1>9. \A i \in DOMAIN e :
        e[i].last \in 1 .. Len(c) /\ low <= e[i].last /\ BatchFits(e[i], c, e[i].last)
  BY <1>1, <1>7, <1>8, Zenon
<1>10. ASSUME NEW i \in DOMAIN e, NEW j \in DOMAIN e, i < j PROVE e[i].last <= e[j].last
  <2>1. i \in DOMAIN q /\ e[i] = q[i]
    BY <1>3, <1>4, <1>5, <1>7, <1>10
  <2>2. CASE j \in DOMAIN q /\ e[j] = q[j]
    BY <2>1, <2>2, <1>10 DEF QueueFits
  <2>3. CASE j = Len(q) + 1 /\ e[j] = b
    <3>1. e[i].last \in 1 .. Len(c)
      BY <1>9
    <3> QED BY <2>3, <3>1, <1>1
  <2> QED BY <2>2, <2>3, <1>7
<1> QED BY <1>6, <1>9, <1>10 DEF QueueFits, e

LEMMA QueueTaken ==
  ASSUME NEW c, Len(c) \in Nat, NEW q, NEW low, QueueFits(q, c, low), q # <<>>
  PROVE  /\ Head(q).last \in 1 .. Len(c) /\ low <= Head(q).last
         /\ BatchFits(Head(q), c, Head(q).last)
         /\ QueueFits(Tail(q), c, Head(q).last)
<1> DEFINE e == Tail(q)
<1>1. q \in Seq(Range(q))
  BY DEF QueueFits
<1>2. /\ e \in Seq(Range(q)) /\ Len(q) \in Nat /\ Len(q) > 0 /\ DOMAIN q = 1 .. Len(q)
      /\ DOMAIN e = 1 .. (Len(q) - 1) /\ \A i \in 1 .. (Len(q) - 1) : e[i] = q[i + 1]
      /\ Head(q) = q[1] /\ 1 \in DOMAIN q
  BY <1>1, Behead
<1> HIDE DEF e
<1>3. e \in Seq(Range(e))
  BY <1>2, OwnEntries
<1>4. \A i \in DOMAIN q :
        q[i].last \in 1 .. Len(c) /\ low <= q[i].last /\ BatchFits(q[i], c, q[i].last)
  BY Zenon DEF QueueFits
<1>5. \A i \in DOMAIN e : i + 1 \in DOMAIN q /\ 1 < i + 1 /\ e[i] = q[i + 1]
  BY <1>2
<1>6. \A i \in DOMAIN e : q[1].last <= e[i].last
  BY <1>2, <1>5 DEF QueueFits
<1>7. \A i \in DOMAIN e :
        /\ e[i].last \in 1 .. Len(c) /\ q[1].last <= e[i].last
        /\ BatchFits(e[i], c, e[i].last)
  BY <1>4, <1>5, <1>6, Zenon
<1>8. ASSUME NEW i \in DOMAIN e, NEW j \in DOMAIN e, i < j PROVE e[i].last <= e[j].last
  <2>1. i + 1 < j + 1
    BY <1>2, <1>8
  <2> QED BY <2>1, <1>5 DEF QueueFits
<1>9. QueueFits(e, c, q[1].last)
  BY <1>3, <1>7, <1>8 DEF QueueFits
<1> QED BY <1>2, <1>4, <1>9, Zenon DEF e

LEMMA QueueEmpty ==
  ASSUME NEW c, NEW low
  PROVE  QueueFits(<<>>, c, low) /\ BatchReady(EmptyBatch, c)
<1>1. <<>> \in Seq(Range(<<>>)) /\ DOMAIN <<>> = {}
  OBVIOUS
<1> QED BY <1>1, EmptyBatchFits DEF QueueFits, BatchReady

-----------------------------------------------------------------------------
(* The invariant of the store, but for the classes.                        *)

RefreshFine == refresh # None => refresh.scids \subseteq Scids /\ refresh.height \in 1 .. MaxHeight

Scanned == ChainOf(chain) /\ validated \subseteq Scids /\ forks \in Nat /\ RefreshFine

Kept == db.last \in 0 .. Len(chain) /\ StoreFits(db, chain, wasReset, extra)

Sent ==
  /\ QueueFits(queue, chain, db.last) /\ BatchReady(batch, chain)
  /\ Len(queue) <= MaxQueue

Lines == Scanned /\ Kept /\ Sent /\ ListingInv

LEMMA LinesHold ==
  ASSUME Lines PROVE TypeOK /\ StoreLine /\ QueueLine /\ ChainLine
<1>1. ChainLine
  BY StoreAssumed DEF Lines, Scanned, RefreshFine, ChainOf, Taken, ChainLine
<1>2. QueueLine
  BY QueueParts DEF Lines, Sent
<1>3. ClassRowsAgree
  BY DEF Lines, ListingInv, RowsAgree, ClassRowsAgree
<1>4. NothingAhead
  BY Zenon DEF Lines, Kept, StoreFits, Behind, NothingAhead
<1>5. LatestLine
  BY Zenon DEF Lines, Kept, StoreFits, LatestIs, LatestLine
<1>6. StoreLine
  BY <1>3, <1>4, <1>5, Zenon DEF Lines, Kept, StoreFits, StoreLine
<1>7. TypeOK
  <2>1. RowTypes(db) /\ GetSCIDCount(db) = Cardinality(DOMAIN db.owners)
    BY Zenon DEF Lines, Kept, StoreFits
  <2>2. IsFiniteSet(Scids) /\ DOMAIN db.owners \subseteq Scids
    BY <2>1, StoreAssumed DEF RowTypes
  <2>3. Cardinality(DOMAIN db.owners) \in Nat /\ Cardinality(Scids) \in Nat
        /\ Cardinality(DOMAIN db.owners) <= Cardinality(Scids)
    BY <2>2, FS_Subset, FS_CardinalityType
  <2>4. db.scCount \in -1 .. Cardinality(Scids)
    BY <2>1, <2>3 DEF GetSCIDCount
  <2>5. Len(chain) \in Nat /\ batch.last \in {0, Len(chain)}
    BY ChainFacts, Zenon DEF Lines, Scanned, Sent, BatchReady
  <2>6. batch.last \in 0 .. Len(chain)
    BY <2>5
  <2>7. db.last \in 0 .. Len(chain) /\ Len(queue) <= MaxQueue
    BY Zenon DEF Lines, Kept, Sent
  <2> QED BY <2>1, <2>4, <2>6, <2>7, Zenon DEF RowTypes, TypeOK
<1> QED BY <1>1, <1>2, <1>6, <1>7

\* A contract of the listing is one of the contracts.
LEMMA ListedContracts ==
  ASSUME Lines, NEW class
  PROVE  \A r \in GetClassInstalls(db, class) :
           /\ r[3] \in DOMAIN db.classIdx /\ r[3] \in Scids
           /\ r = RowOf(r[3], db.classIdx[r[3]]) /\ r[1] = class
<1> SUFFICES ASSUME NEW r \in GetClassInstalls(db, class)
             PROVE  /\ r[3] \in DOMAIN db.classIdx /\ r[3] \in Scids
                    /\ r = RowOf(r[3], db.classIdx[r[3]]) /\ r[1] = class
  OBVIOUS
<1>1. r \in DOMAIN db.classRows /\ r[1] = class
  BY DEF GetClassInstalls
<1>2. DOMAIN db.classRows = {RowOf(s, db.classIdx[s]) : s \in DOMAIN db.classIdx}
  BY DEF Lines, ListingInv, RowsAgree
<1>3. PICK s \in DOMAIN db.classIdx : r = RowOf(s, db.classIdx[s])
  BY <1>1, <1>2
<1>4. r[3] = s
  BY <1>3 DEF RowOf
<1>5. DOMAIN db.classIdx \subseteq Scids
  BY Zenon DEF Lines, Kept, StoreFits
<1> QED BY <1>1, <1>3, <1>4, <1>5

\* What a step that is neither a block nor a restart leaves of the chain.
LEMMA ScannedStays ==
  ASSUME Scanned, UNCHANGED <<chain, validated, forks>>, RefreshFine' PROVE Scanned'
BY DEF Scanned

LEMMA BlockKeeps ==
  ASSUME Lines, ProcessBlock PROVE Scanned' /\ Kept' /\ Sent'
<1>1. /\ ChainLine /\ batch.last \in {0, Len(chain)} /\ BatchFits(batch, chain, batch.last)
      /\ Len(chain) \in Nat
  BY LinesHold, ChainFacts DEF Lines, Scanned, Sent, BatchReady
<1>2. /\ ChainOf(chain') /\ Len(chain') = Len(chain) + 1 /\ validated' \subseteq Scids
      /\ \A h \in DOMAIN chain : h \in DOMAIN chain' /\ chain'[h] = chain[h]
      /\ BatchFits(batch', chain', Len(chain')) /\ batch'.last = Len(chain')
  BY <1>1, BlockStep, BlockGrows
<1>3. UNCHANGED <<db, queue, refresh, forks, extra, wasReset>>
  BY DEF ProcessBlock
<1>4. Len(chain') \in Nat /\ Len(chain) <= Len(chain') /\ db.last \in 0 .. Len(chain')
  BY <1>1, <1>2 DEF Lines, Kept
<1>5. Scanned'
  BY <1>2, <1>3 DEF Lines, Scanned, RefreshFine
<1>6. Kept'
  <2>1. StoreFits(db, chain', wasReset, extra)
    BY <1>2, SameBlocksFit DEF Lines, Kept
  <2> QED BY <1>3, <1>4, <2>1 DEF Kept
<1>7. Sent'
  <2>1. QueueFits(queue, chain', db.last)
    BY <1>1, <1>2, <1>4, QueueGrows DEF Lines, Sent
  <2>2. BatchReady(batch', chain')
    BY <1>2 DEF BatchReady
  <2> QED BY <1>3, <2>1, <2>2 DEF Lines, Sent
<1> QED BY <1>5, <1>6, <1>7

LEMMA SendKeeps ==
  ASSUME Lines, SendBatch PROVE Scanned' /\ Kept' /\ Sent'
<1>1. /\ UNCHANGED <<db, chain, validated, forks, refresh, extra, wasReset>>
      /\ batch.last > 0 /\ Len(queue) < MaxQueue
      /\ queue' = Append(queue, batch) /\ batch' = EmptyBatch
  BY DEF SendBatch, history
<1>2. Len(chain) \in Nat /\ db.last \in 0 .. Len(chain)
  BY ChainFacts DEF Lines, Scanned, Kept
<1>3. QueueFits(queue', chain, db.last) /\ BatchReady(batch', chain)
  BY <1>1, <1>2, QueueSent, QueueEmpty DEF Lines, Sent
<1>4. Len(queue') <= MaxQueue
  <2>1. queue \in Seq(Range(queue) \cup {batch}) /\ Len(queue) \in Nat
    BY DEF Lines, Sent, QueueFits
  <2>2. Len(queue') = Len(queue) + 1
    BY <1>1, <2>1
  <2> QED BY <1>1, <2>1, <2>2, StoreAssumed
<1>5. Scanned' /\ Kept'
  BY <1>1 DEF Lines, Scanned, RefreshFine, Kept
<1> QED BY <1>1, <1>3, <1>4, <1>5 DEF Sent

LEMMA FlushKeeps ==
  ASSUME Lines, FlushBatch PROVE Scanned' /\ Kept' /\ Sent'
<1>1. /\ UNCHANGED <<batch, chain, validated, forks, refresh, extra, wasReset>>
      /\ queue # <<>> /\ db' = Flushed(db, Head(queue)) /\ queue' = Tail(queue)
  BY DEF FlushBatch, history
<1>2. Len(chain) \in Nat /\ OneInstall(chain) /\ QueueFits(queue, chain, db.last)
  BY ChainFacts DEF Lines, Scanned, ChainOf, Sent
<1>3. /\ Head(queue).last \in 1 .. Len(chain) /\ db.last <= Head(queue).last
      /\ BatchFits(Head(queue), chain, Head(queue).last)
      /\ QueueFits(Tail(queue), chain, Head(queue).last)
  BY <1>1, <1>2, QueueTaken
<1>4. StoreFits(db', chain, wasReset, extra) /\ db'.last = Head(queue).last
  <2>1. Head(queue).last \in Nat \ {0}
    BY <1>2, <1>3
  <2> QED BY <1>1, <1>2, <1>3, <2>1, ScanFits DEF Lines, Kept
<1>5. Len(queue') <= MaxQueue
  <2>1. queue \in Seq(Range(queue)) /\ Len(Tail(queue)) = Len(queue) - 1 /\ Len(queue) \in Nat
    BY <1>1, <1>2, Behead DEF QueueFits
  <2> QED BY <1>1, <2>1, StoreAssumed DEF Lines, Sent
<1>6. Kept'
  BY <1>1, <1>2, <1>3, <1>4 DEF Kept
<1>7. Scanned'
  BY <1>1 DEF Lines, Scanned, RefreshFine
<1> QED BY <1>1, <1>3, <1>4, <1>5, <1>6, <1>7 DEF Lines, Sent

LEMMA RefreshKeeps ==
  ASSUME Lines, RefreshBegin \/ RefreshCommit PROVE Scanned' /\ Kept' /\ Sent'
<1>1. ChainOf(chain) /\ Len(chain) \in 0 .. MaxHeight
  BY DEF Lines, Scanned, ChainOf
<1>2. CASE RefreshBegin
  <2>1. UNCHANGED <<db, batch, queue, validated, chain, forks, extra, wasReset>>
    BY <1>2 DEF RefreshBegin, history
  <2>2. PICK tip \in Most(Len(chain), 1) .. MaxHeight :
          refresh' = [scids |-> {r[3] : r \in GetClassInstalls(db, Refreshed)}, height |-> tip]
    BY <1>2 DEF RefreshBegin
  <2>3. tip \in 1 .. MaxHeight
    BY <1>1, <2>2, StoreAssumed DEF Most
  <2>4. {r[3] : r \in GetClassInstalls(db, Refreshed)} \subseteq Scids
    BY ListedContracts
  <2>5. RefreshFine'
    BY <2>2, <2>3, <2>4 DEF RefreshFine
  <2>6. Scanned'
    BY <2>1, <2>5, ScannedStays DEF Lines
  <2> QED BY <2>1, <2>6 DEF Lines, Kept, Sent
<1>3. CASE RefreshCommit
  <2>1. /\ UNCHANGED <<batch, queue, validated, chain, forks, wasReset>>
        /\ refresh # None /\ refresh' = None
    BY <1>3 DEF RefreshCommit, history
  <2>2. PICK S \in SUBSET refresh.scids :
          /\ db' = Flushed(db, RefreshBatch(S, refresh.height, 2))
          /\ extra' = extra \cup {<<s, refresh.height>> : s \in S}
    BY <1>3 DEF RefreshCommit
  <2>3. S \subseteq Scids /\ refresh.height \in 1 .. MaxHeight
    BY <2>1, <2>2 DEF Lines, Scanned, RefreshFine
  <2>4. OneInstall(chain) /\ StoreFits(db, chain, wasReset, extra)
    BY DEF Lines, Scanned, ChainOf, Kept
  <2>5. StoreFits(db', chain, wasReset, extra') /\ db'.last = db.last
    BY <2>2, <2>3, <2>4, RefreshFits
  <2>6. Scanned'
    BY <2>1, ScannedStays DEF Lines, RefreshFine
  <2>7. Kept' /\ Sent'
    BY <2>1, <2>5 DEF Lines, Kept, Sent
  <2> QED BY <2>6, <2>7
<1> QED BY <1>2, <1>3

\* A restart on store d.
LEMMA RestartKeeps ==
  ASSUME Lines, NEW d, d.last \in 0 .. Len(chain), Restart(d), forks' \in Nat,
         StoreFits(d, chain, wasReset', extra')
  PROVE  Scanned' /\ Kept' /\ Sent'
<1>1. /\ ChainOf(chain') /\ Len(chain') = d.last /\ validated' = {} /\ refresh' = None
      /\ db' = d /\ queue' = <<>> /\ batch' = EmptyBatch
      /\ \A h \in DOMAIN chain : h <= d.last => h \in DOMAIN chain' /\ chain'[h] = chain[h]
  BY LinesHold, RestartStep
<1>2. StoreFits(d, chain', wasReset', extra')
  BY <1>1, SameBlocksFit
<1>3. d.last \in 0 .. d.last
  BY ChainFacts DEF Lines, Scanned
<1>4. Kept'
  BY <1>1, <1>2, <1>3 DEF Kept
<1>5. Scanned'
  BY <1>1 DEF Scanned, RefreshFine
<1>6. Sent'
  <2>1. QueueFits(queue', chain', db'.last) /\ BatchReady(batch', chain')
    BY <1>1, QueueEmpty
  <2>2. Len(queue') <= MaxQueue
    BY <1>1, StoreAssumed
  <2> QED BY <2>1, <2>2 DEF Sent
<1> QED BY <1>4, <1>5, <1>6

LEMMA CrashKeeps ==
  ASSUME Lines, Crash PROVE Scanned' /\ Kept' /\ Sent'
<1>1. Restart(db) /\ UNCHANGED <<forks, extra, wasReset>>
  BY DEF Crash
<1>2. db.last \in 0 .. Len(chain) /\ StoreFits(db, chain, wasReset', extra')
  BY <1>1 DEF Lines, Kept
<1>3. forks' \in Nat
  BY <1>1 DEF Lines, Scanned
<1> QED BY <1>1, <1>2, <1>3, RestartKeeps

LEMMA TruncateKeeps ==
  ASSUME Lines, TruncateToHeight PROVE Scanned' /\ Kept' /\ Sent'
<1>1. PICK h \in 0 .. MaxHeight : Restart(Cut(db, h)) /\ extra' = {k \in extra : k[2] <= h}
  BY DEF TruncateToHeight
<1>2. wasReset' = wasReset /\ forks' \in Nat
  BY DEF TruncateToHeight, Lines, Scanned
<1>3. h \in Nat
  BY StoreAssumed
<1>4. StoreFits(Cut(db, h), chain, wasReset', extra') /\ Cut(db, h).last = Least(db.last, h)
  BY <1>1, <1>2, <1>3, CutFits DEF Lines, Kept
<1>5. Cut(db, h).last \in 0 .. Len(chain)
  BY <1>3, <1>4, ChainFacts DEF Lines, Scanned, Kept, Least
<1> QED BY <1>1, <1>2, <1>4, <1>5, RestartKeeps

LEMMA ResetKeeps ==
  ASSUME Lines, ResetIndex PROVE Scanned' /\ Kept' /\ Sent'
<1>1. Restart(ResetDB(db)) /\ wasReset' = TRUE /\ forks' \in Nat
  BY DEF ResetIndex, Lines, Scanned
<1>2. DOMAIN db = DOMAIN EmptyDB /\ RowTypes(db)
  BY Zenon DEF Lines, Kept, StoreFits
<1>3. StoreFits(ResetDB(db), chain, wasReset', extra') /\ ResetDB(db).last = 0
  BY <1>1, <1>2, ResetFits
<1>4. ResetDB(db).last \in 0 .. Len(chain)
  BY <1>3, ChainFacts DEF Lines, Scanned
<1> QED BY <1>1, <1>3, <1>4, RestartKeeps

LEMMA LinesStep ==
  ASSUME Lines, [Next]_vars PROVE Lines'
<1>1. ListingInv'
  BY ListingStep DEF Lines
<1>2. CASE UNCHANGED vars
  <2>1. UNCHANGED <<db, batch, queue, validated, refresh, chain, forks, extra, wasReset>>
    BY <1>2 DEF vars, history
  <2> QED BY <1>1, <2>1 DEF Lines, Scanned, RefreshFine, Kept, Sent
<1>3. CASE Next
  <2>1. Scanned' /\ Kept' /\ Sent'
    BY <1>3, BlockKeeps, SendKeeps, FlushKeeps, RefreshKeeps, CrashKeeps, TruncateKeeps,
       ResetKeeps DEF Next
  <2> QED BY <1>1, <2>1 DEF Lines
<1> QED BY <1>2, <1>3

LEMMA LinesInit ==
  ASSUME Init PROVE Lines
<1>1. /\ chain = <<>> /\ validated = {} /\ forks = 0 /\ refresh = None /\ db = EmptyDB
      /\ batch = EmptyBatch /\ queue = <<>> /\ wasReset = FALSE /\ extra = {}
  BY DEF Init
<1>2. ChainOf(chain) /\ Len(chain) = 0
  <2>1. <<>> \in Seq(Taken) /\ Len(<<>>) = 0 /\ DOMAIN <<>> = {}
    OBVIOUS
  <2> QED BY <1>1, <2>1, StoreAssumed DEF ChainOf, OneInstall
<1>3. Scanned
  BY <1>1, <1>2 DEF Scanned, RefreshFine
<1>4. Kept
  <2>1. StoreFits(EmptyDB, chain, FALSE, {}) /\ EmptyDB.last = 0
    BY EmptyFits DEF EmptyDB
  <2>2. db.last \in 0 .. Len(chain)
    BY <1>1, <1>2, <2>1
  <2>3. StoreFits(db, chain, wasReset, extra)
    BY <1>1, <2>1, Zenon
  <2> QED BY <2>2, <2>3 DEF Kept
<1>5. Sent
  BY <1>1, QueueEmpty, StoreAssumed DEF Sent
<1>6. ListingInv
  BY <1>1 DEF EmptyDB, Empty, ListingInv, RowsAgree
<1> QED BY <1>3, <1>4, <1>5, <1>6 DEF Lines

\* The listing of a class, and the owner's list.
LEMMA ListingAnswers ==
  ASSUME Lines, NEW class
  PROVE  {r[3] : r \in GetClassInstalls(db, class)}
           = {s \in DOMAIN db.classIdx : db.classIdx[s].class = class}
<1>1. ASSUME NEW r \in GetClassInstalls(db, class)
      PROVE  r[3] \in DOMAIN db.classIdx /\ db.classIdx[r[3]].class = class
  BY ListedContracts DEF RowOf
<1>2. ASSUME NEW s \in DOMAIN db.classIdx, db.classIdx[s].class = class
      PROVE  \E r \in GetClassInstalls(db, class) : r[3] = s
  <2> DEFINE own == RowOf(s, db.classIdx[s])
  <2>1. DOMAIN db.classRows = {RowOf(t, db.classIdx[t]) : t \in DOMAIN db.classIdx}
    BY DEF Lines, ListingInv, RowsAgree
  <2>2. own \in DOMAIN db.classRows /\ own[1] = class /\ own[3] = s
    BY <1>2, <2>1 DEF RowOf
  <2>3. ASSUME NEW q \in DOMAIN db.classRows, q[3] = s PROVE q = own
    BY <2>1, <2>3 DEF RowOf
  <2> HIDE DEF own
  <2>4. \A q \in DOMAIN db.classRows \ {own} : q[3] # own[3]
    BY <2>2, <2>3
  <2>5. own \in GetClassInstalls(db, class)
    BY <2>2, <2>4 DEF GetClassInstalls
  <2> QED BY <2>2, <2>5
<1> QED BY <1>1, <1>2

LEMMA OwnerAnswers ==
  ASSUME Lines, NEW a \in Addrs
  PROVE  GetSCIDsByOwner(db, a) = {s \in DOMAIN db.owners : db.owners[s] = a}
<1>1. OwnersAgree(db) /\ DOMAIN db.owners \subseteq Scids /\ db.ownerScids \subseteq Addrs \X Scids
  BY Zenon DEF Lines, Kept, StoreFits, RowTypes
<1>2. \A s : s \in GetSCIDsByOwner(db, a) <=> <<a, s>> \in db.ownerScids
  BY <1>1 DEF GetSCIDsByOwner
<1>3. \A s : <<a, s>> \in db.ownerScids => s \in Scids
  BY <1>1
<1> QED BY <1>1, <1>2, <1>3 DEF OwnersAgree

LEMMA EdgesAnswer ==
  ASSUME Lines PROVE EdgesCoverRows
<1> SUFFICES ASSUME ~wasReset, NEW r \in db.invokes, r.sender # NoAddr
             PROVE  LET e == GetAddressSCIDs(db, r.sender)
                    IN  /\ r.scid \in DOMAIN e
                        /\ e[r.scid].first <= r.h /\ r.h <= e[r.scid].last
  BY DEF EdgesCoverRows
<1> DEFINE k == <<r.sender, r.scid>>
<1>1. /\ k \in DOMAIN db.addrScids /\ db.addrScids[k].first <= r.h
      /\ r.h <= db.addrScids[k].last
  BY Zenon DEF Lines, Kept, StoreFits, InvokesCovered
<1>2. /\ r.scid \in DOMAIN GetAddressSCIDs(db, r.sender)
      /\ GetAddressSCIDs(db, r.sender)[r.scid] = db.addrScids[k]
  BY <1>1 DEF GetAddressSCIDs
<1> QED BY <1>1, <1>2

\* The latest snapshot of a contract.
LEMMA SnapshotAnswers ==
  ASSUME Lines, NEW s \in Scids
  PROVE  LET hs == {k[2] : k \in {x \in DOMAIN db.scvars : x[1] = s}}
         IN  /\ LatestSCVarsHeight(db, s) = Max({0} \cup hs)
             /\ hs # {} => GetRatings(db, s, 0) = GetRatings(db, s, Max(hs))
<1> DEFINE V == DOMAIN db.scvars
           hs == Snapshots(V, s)
           most == Max({0} \cup hs)
<1>1. V \subseteq Scids \X (1 .. MaxHeight) /\ LatestIs(db) /\ MaxHeight \in Nat
  BY Zenon, StoreAssumed DEF Lines, Kept, StoreFits, RowTypes
<1>2. hs \subseteq 1 .. MaxHeight /\ {0} \cup hs \in SUBSET (0 .. MaxHeight)
  BY <1>1 DEF Snapshots
<1>3. most \in {0} \cup hs /\ \A x \in {0} \cup hs : x <= most
  BY <1>1, <1>2, MaxIs
<1>4. hs # {} => Max(hs) \in hs /\ \A x \in hs : x <= Max(hs)
  BY <1>1, <1>2, MaxIs
<1>5. \A n : n \in hs <=> <<s, n>> \in V
  BY <1>1 DEF Snapshots
<1>6. ASSUME s \in DOMAIN db.latest
      PROVE  db.latest[s] \in hs /\ \A x \in hs : x <= db.latest[s]
  <2>1. <<s, db.latest[s]>> \in V
    BY <1>1, <1>6 DEF LatestIs
  <2>2. ASSUME NEW x \in hs PROVE x <= db.latest[s]
    <3> DEFINE k == <<s, x>>
    <3>1. k \in V /\ k[1] = s /\ k[2] = x
      BY <1>5
    <3>2. k[2] <= db.latest[k[1]]
      BY <1>1, <3>1, Zenon DEF LatestIs
    <3> QED BY <3>1, <3>2
  <2> QED BY <1>5, <2>1, <2>2
<1>7. LatestSCVarsHeight(db, s) = IF s \in DOMAIN db.latest THEN db.latest[s] ELSE most
  BY DEF LatestSCVarsHeight, Snapshots
<1> HIDE DEF most, hs, V
<1>0. \A x \in {0} \cup hs : x \in Nat
  BY <1>1, <1>2
<1>00. /\ \A x \in {0} \cup hs : x = 0 \/ x \in hs
       /\ \A x \in hs : 0 <= x
  BY <1>1, <1>2
<1>8. LatestSCVarsHeight(db, s) = most
  <2>1. CASE s \in DOMAIN db.latest
    <3>1. db.latest[s] \in hs /\ \A x \in {0} \cup hs : x <= db.latest[s]
      BY <1>00, <1>6, <2>1
    <3>2. db.latest[s] <= most /\ most <= db.latest[s] /\ most \in Nat /\ db.latest[s] \in Nat
      BY <1>0, <1>3, <3>1
    <3> QED BY <1>7, <2>1, <3>2
  <2> QED BY <1>7, <2>1
<1>9. ASSUME hs # {} PROVE Max(hs) = most /\ Max(hs) > 0 /\ ~(0 > 0)
  <2>1. Max(hs) \in hs /\ \A x \in {0} \cup hs : x <= Max(hs)
    BY <1>00, <1>4, <1>9
  <2>2. Max(hs) <= most /\ most <= Max(hs) /\ most \in Nat /\ Max(hs) \in Nat
    BY <1>0, <1>3, <2>1
  <2>3. Max(hs) \in 1 .. MaxHeight
    BY <1>2, <2>1
  <2> QED BY <1>1, <2>2, <2>3
<1>10. hs # {} => GetRatings(db, s, 0) = GetRatings(db, s, Max(hs))
  BY <1>8, <1>9 DEF GetRatings
<1> QED BY <1>8, <1>10 DEF most, hs, V, Snapshots

\* The store's row types, its counter, its resume height and the bounds of the
\* queue hold for whatever blocks, batches, crashes and truncations.
THEOREM StoreTypes == Spec => []TypeOK
BY LinesInit, LinesStep, LinesHold, PTL DEF Spec

\* No row of a block above the resume height is in the store, so that a scan
\* that resumes there counts none twice (FlushBatch, TruncateToHeight; New reads
\* the height back): only refreshed variables are ahead, and the hashes and
\* invocations a reset keeps.
THEOREM NothingIsAhead == Spec => []NothingAhead
<1>1. Lines => NothingAhead
  BY LinesHold DEF StoreLine
<1> QED BY <1>1, LinesInit, LinesStep, PTL DEF Spec

\* The indexes kept beside the rows (class listing, owner's list, counter, latest
\* snapshot, an address's touches) answer what a scan of the rows would, after
\* whatever sequence of commits, refreshes, crashes, truncations and resets.
THEOREM DerivedIndexesAgree == Spec => []QueriesAgree
<1>1. Lines => QueriesAgree
  <2> SUFFICES ASSUME Lines PROVE QueriesAgree
    OBVIOUS
  <2>1. EdgesCoverRows
    BY EdgesAnswer
  <2>2. ClassRowsAgree
    BY LinesHold DEF StoreLine
  <2>3. GetSCIDCount(db) = Cardinality(DOMAIN db.owners)
    BY Zenon DEF Lines, Kept, StoreFits
  <2> QED BY <2>1, <2>2, <2>3, ListingAnswers, OwnerAnswers, SnapshotAnswers, Zenon
          DEF QueriesAgree
<1> QED BY <1>1, LinesInit, LinesStep, PTL DEF Spec

-----------------------------------------------------------------------------
(* The class of a contract, through the transactions of a block.           *)

LEMMA MetaIs ==
  ASSUME NEW class, NEW vs, NEW install, NEW h
  PROVE  Meta(class, vs, install, h) # None /\ Meta(class, vs, install, h).class = class
<1>1. DOMAIN Meta(class, vs, install, h) = {"class", "version", "install", "last"}
      /\ DOMAIN None = {"class"}
  BY DEF Meta, None
<1>2. Meta(class, vs, install, h).class = class
  BY DEF Meta
<1> QED BY <1>1, <1>2

LEMMA NoClass == ClassOf(NoCode) = "UNKNOWN"
BY StoreAssumption, Zenon DEF ClassOf

\* What a transaction does to the owners and the classes of a batch: nothing, a
\* deploy's, or an invoke's, which looks in the batch and then in the store.
Alike(x, b) == DOMAIN x = DOMAIN EmptyBatch /\ x.owners = b.owners /\ x.classes = b.classes

Deploys(x, b, s, code) ==
  /\ DOMAIN x = DOMAIN EmptyBatch /\ DOMAIN x.owners = DOMAIN b.owners \cup {s}
  /\ \E m : PutTo(x.classes, b.classes, s, m) /\ m # None /\ m.class = ClassOf(code)

Prior(b, d, s) == Get(b.classes, s, Get(d.classIdx, s, None))

Calls(x, b, d, s) ==
  /\ DOMAIN x = DOMAIN EmptyBatch /\ x.owners = b.owners
  /\ \E m : /\ PutTo(x.classes, b.classes, s, m) /\ m # None
            /\ m.class = IF Prior(b, d, s) = None THEN "UNKNOWN" ELSE Prior(b, d, s).class

LEMMA AddedAlike ==
  ASSUME NEW b, DOMAIN b = DOMAIN EmptyBatch, NEW s, NEW h, NEW v
  PROVE  /\ Alike(AddVariables(b, s, h, v), b) /\ Alike(AddSCCode(b, s, h, v), b)
         /\ Alike([b EXCEPT !.invalid = @ \cup {s}], b)
         /\ Alike(AddBlockHash(b, h, v), b) /\ Alike([b EXCEPT !.last = h], b)
BY BatchFields DEF Alike, AddVariables, AddSCCode, AddBlockHash

LEMMA NormalAlike ==
  ASSUME NEW b, DOMAIN b = DOMAIN EmptyBatch, NEW tx, NEW txid, NEW h
  PROVE  Alike(ProcessNormalTx(b, tx, txid, h), b)
<1> DEFINE payloads(k) ==
             {i \in DOMAIN tx.payloads : tx.payloads[i].scid = k[2] /\ k[1] \in tx.payloads[i].ring}
           edges == {k \in Addrs \X Scids : payloads(k) # {}}
           N == {[addr |-> k[1], h |-> h, txid |-> txid, scid |-> k[2]] : k \in edges}
           f == [k \in edges |-> Touches(h, Cardinality(payloads(k)))]
<1>1. ProcessNormalTx(b, tx, txid, h)
        = [b EXCEPT !.normTx = @ \cup N, !.addrScids = MergeInto(@, f)]
  BY DEF ProcessNormalTx
<1> HIDE DEF N, f
<1> QED BY <1>1, BatchFields DEF Alike

LEMMA RecordedAlike ==
  ASSUME NEW b, DOMAIN b = DOMAIN EmptyBatch, NEW tx, NEW txid, NEW h
  PROVE  Alike(Recorded(b, tx, txid, h), b)
<1> DEFINE b1 == AddInvocation(b, tx.scid, tx.sender, txid, h)
           b2 == AddInteractionHeight(b1, tx.scid, h)
           b3 == AddAddrSCID(b2, tx.sender, tx.scid, h)
<1>1. Alike(b1, b)
  BY BatchFields DEF Alike, AddInvocation
<1> HIDE DEF b1
<1>2. Alike(b2, b)
  BY <1>1, BatchFields DEF Alike, AddInteractionHeight
<1> HIDE DEF b2
<1>3. Alike(b3, b)
  BY <1>2, BatchFields DEF Alike, AddAddrSCID
<1> QED BY <1>3 DEF Recorded, b1, b2

LEMMA InstalledDeploys ==
  ASSUME NEW b, DOMAIN b = DOMAIN EmptyBatch, NEW tx, NEW txid, NEW h, NEW vs
  PROVE  Deploys(Installed(b, tx, txid, h, vs), b, tx.scid, tx.code)
<1> DEFINE class == ClassOf(tx.code)
           m == Meta(class, vs, h, h)
           b0 == Recorded(b, tx, txid, h)
           b1 == AddInstall(AddOwner(b0, tx.scid, tx.sender), tx.scid, h, tx.sender)
           b2 == AddClass(b1, tx.scid, m)
           b3 == AddSCCode(b2, tx.scid, h, tx.code)
<1>1. Installed(b, tx, txid, h, vs) = IF ShouldPersistCode(class) THEN b3 ELSE b2
  BY DEF Installed
<1>2. DOMAIN b0 = DOMAIN EmptyBatch /\ b0.owners = b.owners /\ b0.classes = b.classes
  BY RecordedAlike DEF Alike
<1>3. m # None /\ m.class = class
  BY MetaIs
<1> HIDE DEF b0, class, m
<1>4. DOMAIN b1 = DOMAIN EmptyBatch /\ b1.owners = Put(b.owners, tx.scid, tx.sender)
      /\ b1.classes = b.classes
  BY <1>2, BatchFields DEF AddInstall, AddOwner
<1> HIDE DEF b1
<1>5. DOMAIN b2 = DOMAIN EmptyBatch /\ b2.owners = b1.owners
      /\ b2.classes = Put(b.classes, tx.scid, m)
  BY <1>4, BatchFields DEF AddClass
<1> HIDE DEF b2
<1>6. Alike(b3, b2) /\ Alike(b2, b2)
  BY <1>5, AddedAlike DEF Alike
<1> HIDE DEF b3
<1> DEFINE x == Installed(b, tx, txid, h, vs)
<1>7. DOMAIN x = DOMAIN EmptyBatch /\ x.owners = b2.owners /\ x.classes = b2.classes
  BY <1>1, <1>6 DEF Alike
<1>8. PutTo(b2.classes, b.classes, tx.scid, m)
  BY <1>5, PutIs
<1>9. DOMAIN b2.owners = DOMAIN b.owners \cup {tx.scid}
  <2>1. PutTo(b2.owners, b.owners, tx.scid, tx.sender)
    BY <1>4, <1>5, PutIs
  <2> QED BY <2>1 DEF PutTo
<1> HIDE DEF x
<1>10. Deploys(x, b, tx.scid, tx.code)
  BY <1>3, <1>7, <1>8, <1>9 DEF Deploys, class
<1> QED BY <1>10 DEF x

LEMMA InvokedCalls ==
  ASSUME NEW b, DOMAIN b = DOMAIN EmptyBatch, NEW d, NEW tx, NEW txid, NEW h, NEW known
  PROVE  LET x == HandleInvokeSC(b, d, tx, txid, h, known)
         IN  Alike(x, b) \/ Calls(x, b, d, tx.scid)
<1> DEFINE b1 == Recorded(b, tx, txid, h)
           b2 == AddVariables(b1, tx.scid, h, tx.vars)
           b3 == RefreshClassMetaOnInvoke(b2, d, tx, h)
           x == HandleInvokeSC(b, d, tx, txid, h, known)
<1>1. x = IF ~known /\ tx.vars = 0 THEN b ELSE IF tx.vars = 0 THEN b1 ELSE b3
  BY DEF HandleInvokeSC
<1>2. Alike(b1, b)
  BY RecordedAlike
<1> HIDE DEF b1
<1>3. Alike(b2, b)
  <2>1. Alike(b2, b1)
    BY <1>2, AddedAlike DEF Alike
  <2> HIDE DEF b2
  <2> QED BY <1>2, <2>1 DEF Alike
<1> HIDE DEF b2
<1>4. Calls(b3, b, d, tx.scid)
  <2> DEFINE prior == Prior(b, d, tx.scid)
             m == IF prior = None THEN Meta(ClassOf(NoCode), tx.vars, h, h)
                  ELSE Meta(prior.class, tx.vars, prior.install, h)
  <2>1. b3 = AddClass(b2, tx.scid, m)
    BY <1>3 DEF RefreshClassMetaOnInvoke, Prior, Alike
  <2>2. m # None /\ m.class = IF prior = None THEN "UNKNOWN" ELSE prior.class
    BY MetaIs, NoClass
  <2> HIDE DEF prior, m, b3
  <2>3. DOMAIN b3 = DOMAIN EmptyBatch /\ b3.owners = b2.owners
        /\ b3.classes = Put(b2.classes, tx.scid, m)
    BY <1>3, <2>1, BatchFields DEF AddClass, Alike
  <2>4. PutTo(b3.classes, b.classes, tx.scid, m)
    BY <1>3, <2>3, PutIs DEF Alike
  <2> QED BY <1>3, <2>2, <2>3, <2>4 DEF Calls, Alike, prior
<1>5. Alike(b, b)
  BY DEF Alike
<1> HIDE DEF b3, x
<1>6. Alike(x, b) \/ Calls(x, b, d, tx.scid)
  BY <1>1, <1>2, <1>4, <1>5
<1> QED BY <1>6 DEF x

LEMMA DeployedDeploys ==
  ASSUME NEW b, DOMAIN b = DOMAIN EmptyBatch, NEW tx, NEW txid, NEW h
  PROVE  LET x == HandleInstallSC(b, tx, txid, h)
         IN  Alike(x, b) \/ Deploys(x, b, tx.scid, tx.code)
<1> DEFINE y == Installed(b, tx, txid, h, tx.vars)
           z == AddVariables(y, tx.scid, h, tx.vars)
           w == [b EXCEPT !.invalid = @ \cup {tx.scid}]
           x == HandleInstallSC(b, tx, txid, h)
<1>1. x = IF ~MatchesFilter(tx.code) THEN b ELSE IF tx.vars = 0 THEN w ELSE z
  BY DEF HandleInstallSC
<1>2. Deploys(y, b, tx.scid, tx.code)
  BY InstalledDeploys
<1>3. Alike(w, b) /\ Alike(b, b)
  BY AddedAlike DEF Alike
<1> HIDE DEF y
<1>4. Alike(z, y)
  BY <1>2, AddedAlike DEF Deploys
<1> HIDE DEF z, w, x
<1>5. Deploys(z, b, tx.scid, tx.code)
  BY <1>2, <1>4 DEF Deploys, Alike
<1>6. Alike(x, b) \/ Deploys(x, b, tx.scid, tx.code)
  BY <1>1, <1>3, <1>5
<1> QED BY <1>6 DEF x

\* What one transaction does.
Moves(x, b, d, tx) ==
  \/ Alike(x, b)
  \/ tx.kind = "install" /\ Deploys(x, b, tx.scid, tx.code)
  \/ tx.kind = "invoke" /\ ~turbo /\ Calls(x, b, d, tx.scid)

LEMMA TxMoves ==
  ASSUME NEW st, DOMAIN st = {"b", "known"}, DOMAIN st.b = DOMAIN EmptyBatch,
         NEW tx, NEW d, NEW txid, NEW h
  PROVE  LET e == ProcessTx(st, tx, d, txid, h)
         IN  DOMAIN e = {"b", "known"} /\ Moves(e.b, st.b, d, tx)
<1> DEFINE b == st.b
           e == ProcessTx(st, tx, d, txid, h)
           known == tx.scid \in st.known
           x == ProcessSCTx(b, d, tx, txid, h, known)
<1>1. Alike(b, b)
  BY DEF Alike
<1>2. ASSUME IsSC(tx) PROVE Moves(x, b, d, tx)
  <2>1. CASE tx.scid \notin Scids \ Excluded
    BY <1>1, <2>1 DEF ProcessSCTx, Moves
  <2>2. CASE tx.scid \in Scids \ Excluded /\ tx.kind = "install"
    <3>1. x = IF turbo THEN Installed(b, tx, txid, h, 0) ELSE HandleInstallSC(b, tx, txid, h)
      BY <2>2 DEF ProcessSCTx
    <3>2. Deploys(Installed(b, tx, txid, h, 0), b, tx.scid, tx.code)
      BY InstalledDeploys
    <3> DEFINE z == HandleInstallSC(b, tx, txid, h)
    <3>3. Alike(z, b) \/ Deploys(z, b, tx.scid, tx.code)
      BY DeployedDeploys
    <3> HIDE DEF z, x, b
    <3> QED BY <2>2, <3>1, <3>2, <3>3 DEF Moves, z
  <2>3. CASE tx.scid \in Scids \ Excluded /\ tx.kind = "invoke"
    <3> DEFINE y == Recorded(b, tx, txid, h)
               z == HandleInvokeSC(b, d, tx, txid, h, known)
    <3>1. x = IF turbo THEN y ELSE z
      BY <2>3 DEF ProcessSCTx
    <3>2. Alike(y, b)
      BY RecordedAlike
    <3>3. Alike(z, b) \/ Calls(z, b, d, tx.scid)
      BY InvokedCalls
    <3> HIDE DEF y, z, x, b
    <3> QED BY <2>3, <3>1, <3>2, <3>3 DEF Moves
  <2> QED BY <1>2, <2>1, <2>2, <2>3 DEF IsSC
<1>3. CASE IsSC(tx)
  <2>1. e = [b |-> x, known |-> st.known \cup Validates(tx)]
    BY <1>3 DEF ProcessTx
  <2> HIDE DEF x, b
  <2>2. DOMAIN e = {"b", "known"} /\ e.b = x
    BY <2>1
  <2> HIDE DEF e
  <2> QED BY <1>2, <1>3, <2>2 DEF e, b
<1>4. CASE ~IsSC(tx)
  <2> DEFINE counted == CountTx(b, tx.kind)
             z == ProcessNormalTx(counted, tx, txid, h)
  <2>1. e = [st EXCEPT !.b = IF tx.kind = "normal" THEN z ELSE counted]
    BY <1>4 DEF ProcessTx
  <2>2. Alike(counted, b)
    BY BatchFields DEF Alike, CountTx
  <2> HIDE DEF counted
  <2>3. Alike(z, counted)
    BY <2>2, NormalAlike DEF Alike
  <2> HIDE DEF z
  <2>4. Alike(z, b)
    BY <2>2, <2>3 DEF Alike
  <2>5. DOMAIN e = {"b", "known"} /\ (e.b = z \/ e.b = counted)
    BY <2>1
  <2> HIDE DEF e, b
  <2> QED BY <2>2, <2>4, <2>5, Zenon DEF Moves, e, b
<1> QED BY <1>3, <1>4

\* The metadata a chain allows a contract: of the class of its code where its
\* install is recorded, else of none.
Fitting(c, s, meta, owned) ==
  /\ meta # None
  /\ IF s \in owned THEN Named(c, s, meta.class) ELSE meta.class = "UNKNOWN"

Seen(c, s) == \E h \in DOMAIN c : s \in Mentioned(c[h].txs)

\* ClassesFit, of a batch that is committed where the contracts of owned have owners.
BatchClasses(b, owned, c) ==
  /\ DOMAIN b.owners \subseteq DOMAIN b.classes
  /\ \A s \in DOMAIN b.classes :
       Seen(c, s) /\ Fitting(c, s, b.classes[s], DOMAIN b.owners \cup owned)

StoreClasses(d, c) ==
  /\ DOMAIN d.owners \subseteq DOMAIN d.classIdx
  /\ \A s \in DOMAIN d.classIdx : Fitting(c, s, d.classIdx[s], DOMAIN d.owners)

\* The class of its only install.
LEMMA InstalledNamed ==
  ASSUME NEW c, OneInstall(c), NEW h, NEW i, NEW s, Installs(c, h, i, s)
  PROVE  Named(c, s, ClassOf(c[h].txs[i].code))
<1> SUFFICES ASSUME NEW g \in DOMAIN c, NEW j \in DOMAIN c[g].txs, Installs(c, g, j, s),
                    c[g].txs[j].code \in Codes
             PROVE  ClassOf(c[h].txs[i].code) = c[g].txs[j].code
  BY Zenon DEF Named
<1>1. g = h /\ j = i
  BY DEF Installs, OneInstall
<1> QED BY <1>1 DEF ClassOf

\* What one transaction leaves of the classes of a batch.
LEMMA MovesFit ==
  ASSUME NEW c, OneInstall(c), NEW h \in DOMAIN c, NEW i \in DOMAIN c[h].txs,
         NEW tx, tx = c[h].txs[i],
         NEW d, StoreClasses(d, c), NEW b, BatchClasses(b, DOMAIN d.owners, c),
         NEW x, Moves(x, b, d, tx)
  PROVE  BatchClasses(x, DOMAIN d.owners, c)
<1> DEFINE s == tx.scid
           owned == DOMAIN b.owners \cup DOMAIN d.owners
           owns  == DOMAIN x.owners \cup DOMAIN d.owners
<1>1. /\ DOMAIN b.owners \subseteq DOMAIN b.classes
      /\ \A t \in DOMAIN b.classes : Seen(c, t) /\ Fitting(c, t, b.classes[t], owned)
  BY Zenon DEF BatchClasses
<1>2. CASE Alike(x, b)
  BY <1>1, <1>2, Zenon DEF Alike, BatchClasses
<1>3. ASSUME IsSC(tx) PROVE Seen(c, s)
  <2>1. s \in Mentioned(c[h].txs)
    BY <1>3 DEF Mentioned
  <2> QED BY <2>1 DEF Seen
<1>4. CASE tx.kind = "install" /\ Deploys(x, b, s, tx.code)
  <2>1. PICK m : PutTo(x.classes, b.classes, s, m) /\ m # None /\ m.class = ClassOf(tx.code)
    BY <1>4 DEF Deploys
  <2>2. DOMAIN x.owners = DOMAIN b.owners \cup {s}
    BY <1>4 DEF Deploys
  <2>3. Installs(c, h, i, s)
    BY <1>4 DEF Installs
  <2>4. Named(c, s, m.class)
    BY <2>1, <2>3, InstalledNamed
  <2>5. Seen(c, s)
    BY <1>3, <1>4 DEF IsSC
  <2>6. /\ DOMAIN x.classes = DOMAIN b.classes \cup {s} /\ x.classes[s] = m
        /\ \A t \in DOMAIN b.classes : t # s => x.classes[t] = b.classes[t]
    BY <2>1 DEF PutTo
  <2>7. Fitting(c, s, x.classes[s], owns)
    BY <2>1, <2>2, <2>4, <2>6 DEF Fitting
  <2>8. ASSUME NEW t \in DOMAIN b.classes, t # s
        PROVE  Seen(c, t) /\ Fitting(c, t, x.classes[t], owns)
    <3>1. t \in owns <=> t \in owned
      BY <2>2, <2>8
    <3>2. x.classes[t] = b.classes[t] /\ Seen(c, t) /\ Fitting(c, t, b.classes[t], owned)
      BY <1>1, <2>6, <2>8
    <3> QED BY <3>1, <3>2 DEF Fitting
  <2> QED BY <1>1, <2>2, <2>5, <2>6, <2>7, <2>8, Zenon DEF BatchClasses
<1>5. CASE tx.kind = "invoke" /\ Calls(x, b, d, s)
  <2> DEFINE prior == Prior(b, d, s)
  <2>1. PICK m : /\ PutTo(x.classes, b.classes, s, m) /\ m # None
                 /\ m.class = IF prior = None THEN "UNKNOWN" ELSE prior.class
    BY <1>5, Zenon DEF Calls
  <2>2. x.owners = b.owners
    BY <1>5 DEF Calls
  <2>3. Seen(c, s)
    BY <1>3, <1>5 DEF IsSC
  <2>4. /\ DOMAIN x.classes = DOMAIN b.classes \cup {s} /\ x.classes[s] = m
        /\ \A t \in DOMAIN b.classes : t # s => x.classes[t] = b.classes[t]
    BY <2>1 DEF PutTo
  <2>5. IF s \in owned THEN Named(c, s, m.class) ELSE m.class = "UNKNOWN"
    <3>1. CASE s \in DOMAIN b.classes
      <4>1. prior = b.classes[s] /\ Fitting(c, s, b.classes[s], owned)
        BY <1>1, <3>1 DEF Prior, Get
      <4> HIDE DEF prior, owned
      <4> QED BY <2>1, <4>1 DEF Fitting
    <3>2. CASE s \notin DOMAIN b.classes /\ s \in DOMAIN d.classIdx
      <4>1. prior = d.classIdx[s] /\ Fitting(c, s, d.classIdx[s], DOMAIN d.owners)
        BY <3>2 DEF Prior, Get, StoreClasses
      <4>2. s \in owned <=> s \in DOMAIN d.owners
        BY <1>1, <3>2
      <4> HIDE DEF prior, owned
      <4> QED BY <2>1, <4>1, <4>2 DEF Fitting
    <3>3. CASE s \notin DOMAIN b.classes /\ s \notin DOMAIN d.classIdx
      <4>1. prior = None
        BY <3>3 DEF Prior, Get
      <4>2. s \notin owned
        BY <1>1, <3>3 DEF StoreClasses
      <4> HIDE DEF prior, owned
      <4> QED BY <2>1, <4>1, <4>2
    <3> QED BY <3>1, <3>2, <3>3
  <2> HIDE DEF prior
  <2>6. owns = owned
    BY <2>2
  <2>7. Fitting(c, s, x.classes[s], owns)
    BY <2>1, <2>4, <2>5, <2>6 DEF Fitting
  <2> HIDE DEF owns, owned
  <2>8. \A t \in DOMAIN x.classes : Seen(c, t) /\ Fitting(c, t, x.classes[t], owns)
    BY <1>1, <2>3, <2>4, <2>6, <2>7
  <2> QED BY <1>1, <2>2, <2>4, <2>8, Zenon DEF BatchClasses, owns
<1> QED BY <1>2, <1>4, <1>5 DEF Moves

\* The contracts a block can give a class.
Renewed(block, s) ==
  \E i \in DOMAIN block.txs :
    /\ block.txs[i].scid = s
    /\ block.txs[i].kind = "install" \/ (block.txs[i].kind = "invoke" /\ ~turbo)

\* A state of the block's loop, with respect to the batch b it began with.
LoopClasses(st, b, d, c, block) ==
  /\ DOMAIN st = {"b", "known"} /\ DOMAIN st.b = DOMAIN EmptyBatch
  /\ BatchClasses(st.b, DOMAIN d.owners, c)
  /\ \A s \in DOMAIN st.b.classes : s \in DOMAIN b.classes \/ Renewed(block, s)

LEMMA MovesRenew ==
  ASSUME NEW block, NEW i \in DOMAIN block.txs, NEW x, NEW b, NEW d,
         Moves(x, b, d, block.txs[i])
  PROVE  /\ DOMAIN x = DOMAIN EmptyBatch
         /\ \A s \in DOMAIN x.classes : s \in DOMAIN b.classes \/ Renewed(block, s)
<1> DEFINE tx == block.txs[i]
<1>1. CASE Alike(x, b)
  BY <1>1 DEF Alike
<1>2. CASE tx.kind = "install" /\ Deploys(x, b, tx.scid, tx.code)
  BY <1>2 DEF Deploys, PutTo, Renewed
<1>3. CASE tx.kind = "invoke" /\ ~turbo /\ Calls(x, b, d, tx.scid)
  BY <1>3 DEF Calls, PutTo, Renewed
<1> QED BY <1>1, <1>2, <1>3 DEF Moves

LEMMA ProcessedClasses ==
  ASSUME NEW c, OneInstall(c), NEW h \in DOMAIN c, NEW block, block = c[h],
         Len(block.txs) \in Nat, DOMAIN block.txs = 1 .. Len(block.txs),
         NEW d, StoreClasses(d, c),
         NEW b, DOMAIN b = DOMAIN EmptyBatch, BatchClasses(b, DOMAIN d.owners, c)
  PROVE  LET e == Processed(b, d, h, block).b
         IN  /\ BatchClasses(e, DOMAIN d.owners, c)
             /\ \A s \in DOMAIN e.classes : s \in DOMAIN b.classes \/ Renewed(block, s)
<1> DEFINE n == Len(block.txs)
           end == Processed(b, d, h, block)
           Good(st) == LoopClasses(st, b, d, c, block)
<1>1. PICK after : /\ Loop(after, n, b, d, h, block)
                   /\ end = [after[n] EXCEPT !.b.last = h]
  BY ProcessedSteps
<1>2. Good(after[0])
  <2>1. after[0] = Start(b, h, block)
    BY <1>1 DEF Loop
  <2>2. Alike(AddBlockHash(b, h, block.hash), b) /\ Alike(b, b)
    BY AddedAlike DEF Alike
  <2> DEFINE st == after[0]
  <2>3. DOMAIN st = {"b", "known"} /\ Alike(st.b, b)
    BY <2>1, <2>2 DEF Start
  <2> HIDE DEF st
  <2>4. BatchClasses(st.b, DOMAIN d.owners, c)
    BY <2>3, Zenon DEF Alike, BatchClasses
  <2>5. Good(st)
    BY <2>3, <2>4 DEF Alike, LoopClasses
  <2> QED BY <2>5 DEF st
<1>3. ASSUME NEW i \in 1 .. n, Good(after[i - 1]) PROVE Good(after[i])
  <2> DEFINE st == after[i - 1]
             tx == block.txs[i]
             e == ProcessTx(st, tx, d, <<h, i>>, h)
  <2>1. after[i] = e
    BY <1>1 DEF Loop
  <2>2. i \in DOMAIN c[h].txs /\ tx = c[h].txs[i] /\ i \in DOMAIN block.txs
    OBVIOUS
  <2>3. /\ DOMAIN st = {"b", "known"} /\ DOMAIN st.b = DOMAIN EmptyBatch
        /\ BatchClasses(st.b, DOMAIN d.owners, c)
        /\ \A s \in DOMAIN st.b.classes : s \in DOMAIN b.classes \/ Renewed(block, s)
    BY <1>3 DEF LoopClasses
  <2> HIDE DEF st
  <2>4. DOMAIN e = {"b", "known"} /\ Moves(e.b, st.b, d, tx)
    BY <2>3, TxMoves
  <2> HIDE DEF e
  <2>5. BatchClasses(e.b, DOMAIN d.owners, c)
    BY <2>2, <2>3, <2>4, MovesFit
  <2>6. /\ DOMAIN e.b = DOMAIN EmptyBatch
        /\ \A s \in DOMAIN e.b.classes : s \in DOMAIN st.b.classes \/ Renewed(block, s)
    BY <2>2, <2>4, MovesRenew
  <2>7. Good(e)
    BY <2>3, <2>4, <2>5, <2>6, Zenon DEF LoopClasses
  <2> QED BY <2>1, <2>7
<1> DEFINE C == {m \in 0 .. n : ~Good(after[m])}
<1> HIDE DEF Good, end
<1>4. ASSUME C # {} PROVE FALSE
  <2>1. PICK m \in C : \A l \in C : m <= l
    <3>1. C \in SUBSET Nat
      OBVIOUS
    <3> HIDE DEF C
    <3> QED BY <1>4, <3>1, LeastNumber
  <2>2. m # 0
    BY <1>2
  <2>3. m \in 1 .. n /\ m - 1 \in 0 .. n /\ ~(m <= m - 1)
    BY <2>2
  <2>4. Good(after[m - 1])
    BY <2>1, <2>3
  <2> QED BY <1>3, <2>3, <2>4
<1>5. Good(after[n])
  <2>1. n \in 0 .. n
    OBVIOUS
  <2> QED BY <1>4, <2>1
<1> HIDE DEF n, C
<1> DEFINE last == after[n].b
           e == end.b
<1>6. /\ DOMAIN after[n] = {"b", "known"} /\ DOMAIN last = DOMAIN EmptyBatch
      /\ BatchClasses(last, DOMAIN d.owners, c)
      /\ \A s \in DOMAIN last.classes : s \in DOMAIN b.classes \/ Renewed(block, s)
  BY <1>5 DEF Good, LoopClasses
<1>7. e = [last EXCEPT !.last = h]
  BY <1>1, <1>6
<1> HIDE DEF last, e
<1>8. Alike(e, last)
  BY <1>6, <1>7, AddedAlike
<1>9. /\ BatchClasses(e, DOMAIN d.owners, c)
      /\ \A s \in DOMAIN e.classes : s \in DOMAIN b.classes \/ Renewed(block, s)
  BY <1>6, <1>8, Zenon DEF Alike, BatchClasses
<1> QED BY <1>9 DEF e, end

-----------------------------------------------------------------------------
(* The classes of the store and of the batches on their way.               *)

\* Every install of s in chain e is one of chain c.
Covers(c, e, s) ==
  \A h \in DOMAIN e : \A i \in DOMAIN e[h].txs :
    Installs(e, h, i, s) => Installs(c, h, i, s) /\ c[h].txs[i] = e[h].txs[i]

LEMMA FittingStays ==
  ASSUME NEW c, NEW e, NEW s, Covers(c, e, s), NEW meta, NEW owned
  PROVE  /\ Fitting(c, s, meta, owned) => Fitting(e, s, meta, owned)
         /\ \A class : Named(c, s, class) => Named(e, s, class)
<1>1. ASSUME NEW class, Named(c, s, class) PROVE Named(e, s, class)
  <2> SUFFICES ASSUME NEW h \in DOMAIN e, NEW i \in DOMAIN e[h].txs, Installs(e, h, i, s),
                      e[h].txs[i].code \in Codes
               PROVE  class = e[h].txs[i].code
    BY DEF Named
  <2>1. Installs(c, h, i, s) /\ c[h].txs[i] = e[h].txs[i]
    BY DEF Covers
  <2>2. h \in DOMAIN c /\ i \in DOMAIN c[h].txs
    BY <2>1 DEF Installs
  <2> QED BY <1>1, <2>1, <2>2 DEF Named
<1> QED BY <1>1 DEF Fitting

LEMMA BatchClassesStay ==
  ASSUME NEW c, NEW e, NEW b, NEW owned, BatchClasses(b, owned, c),
         \A s : Seen(c, s) => Seen(e, s) /\ Covers(c, e, s)
  PROVE  BatchClasses(b, owned, e)
<1>1. ASSUME NEW s \in DOMAIN b.classes
      PROVE  Seen(e, s) /\ Fitting(e, s, b.classes[s], DOMAIN b.owners \cup owned)
  BY FittingStays DEF BatchClasses
<1> QED BY <1>1 DEF BatchClasses

LEMMA StoreClassesStay ==
  ASSUME NEW c, NEW e, NEW d, StoreClasses(d, c),
         \A s \in DOMAIN d.owners : Covers(c, e, s)
  PROVE  StoreClasses(d, e)
<1>1. ASSUME NEW s \in DOMAIN d.classIdx
      PROVE  Fitting(e, s, d.classIdx[s], DOMAIN d.owners)
  <2>1. Fitting(c, s, d.classIdx[s], DOMAIN d.owners)
    BY DEF StoreClasses
  <2>2. CASE s \in DOMAIN d.owners
    BY <2>1, <2>2, FittingStays
  <2>3. CASE s \notin DOMAIN d.owners
    BY <2>1, <2>3 DEF Fitting
  <2> QED BY <2>2, <2>3
<1> QED BY <1>1 DEF StoreClasses

\* The installs of a chain and of a longer one.
LEMMA LongerCovers ==
  ASSUME NEW c, NEW e, NEW n, \A h \in DOMAIN e : h \in DOMAIN c \/ h = n,
         \A h \in DOMAIN c : h \in DOMAIN e /\ e[h] = c[h],
         NEW s, ~ \E i : Installs(e, n, i, s)
  PROVE  Covers(c, e, s)
<1> SUFFICES ASSUME NEW h \in DOMAIN e, NEW i \in DOMAIN e[h].txs, Installs(e, h, i, s)
             PROVE  Installs(c, h, i, s) /\ c[h].txs[i] = e[h].txs[i]
  BY DEF Covers
<1>1. h \in DOMAIN c /\ e[h] = c[h]
  OBVIOUS
<1> QED BY <1>1 DEF Installs

LEMMA SeenLonger ==
  ASSUME NEW c, NEW e, \A h \in DOMAIN c : h \in DOMAIN e /\ e[h] = c[h], NEW s, Seen(c, s)
  PROVE  Seen(e, s)
BY DEF Seen

LEMMA OwnersSeen ==
  ASSUME NEW d, NEW c, OwnersInstalled(d, c), NEW s \in DOMAIN d.owners
  PROVE  Seen(c, s)
<1>1. PICK k \in DOMAIN d.installs : k[2] = s
  BY DEF OwnersInstalled
<1>2. PICK i : Installs(c, k[1], i, s)
  BY <1>1 DEF OwnersInstalled
<1> QED BY <1>2 DEF Installs, Seen, Mentioned, IsSC

Apart(b, e) == DOMAIN b.classes \cap DOMAIN e.classes = {}

QueueClasses(q, b, owned, c) ==
  /\ \A i \in DOMAIN q : BatchClasses(q[i], owned, c) /\ Apart(q[i], b)
  /\ \A i, j \in DOMAIN q : i # j => Apart(q[i], q[j])
  /\ BatchClasses(b, owned, c)

RefreshClasses(r, d, c) ==
  r # None => \A s \in r.scids : s \in DOMAIN d.owners /\ Named(c, s, Refreshed)

ClassLines ==
  /\ StoreClasses(db, chain) /\ QueueClasses(queue, batch, DOMAIN db.owners, chain)
  /\ RefreshClasses(refresh, db, chain)

LEMMA ClassLinesHold ==
  ASSUME ClassLines PROVE ClassLine
<1>1. ASSUME NEW b, BatchClasses(b, DOMAIN db.owners, chain) PROVE ClassesFit(b, chain)
  BY <1>1 DEF BatchClasses, Fitting, Seen, ClassesFit
<1>2. \A s \in DOMAIN db.classIdx :
        IF s \in DOMAIN db.owners THEN Named(chain, s, db.classIdx[s].class)
        ELSE db.classIdx[s].class = "UNKNOWN"
  BY DEF ClassLines, StoreClasses, Fitting
<1>3. DOMAIN db.owners \subseteq DOMAIN db.classIdx
  BY DEF ClassLines, StoreClasses
<1>4. \A i \in DOMAIN queue :
        /\ ClassesFit(queue[i], chain)
        /\ DOMAIN queue[i].classes \cap DOMAIN batch.classes = {}
        /\ \A j \in DOMAIN queue : i # j =>
             DOMAIN queue[i].classes \cap DOMAIN queue[j].classes = {}
  BY <1>1 DEF ClassLines, QueueClasses, Apart
<1>5. ClassesFit(batch, chain)
  BY <1>1 DEF ClassLines, QueueClasses
<1> QED BY <1>2, <1>3, <1>4, <1>5, Zenon DEF ClassLine, ClassLines, RefreshClasses

LEMMA BlockClasses ==
  ASSUME Lines, ClassLines, ProcessBlock, ~raced' PROVE ClassLines'
<1>1. PICK block : Grows(block)
  BY LinesHold, BlockGrows
<1> DEFINE n == Len(chain) + 1
<1>2. /\ block.txs \in {x.txs : x \in Blocks} /\ CanFollow(block.txs)
      /\ batch' = Processed(batch, db, n, block).b
      /\ ChainOf(chain) /\ ChainOf(chain') /\ Len(chain') = n /\ chain'[n] = block
      /\ \A h \in DOMAIN chain : h \in DOMAIN chain' /\ chain'[h] = chain[h]
  BY <1>1, Zenon DEF Grows
<1>3. turbo \/ \A i \in DOMAIN queue : DOMAIN queue[i].classes \cap Invoked(block.txs) = {}
  BY <1>1, Zenon DEF Grows
<1>4. UNCHANGED <<db, queue, refresh, turbo>>
  BY DEF ProcessBlock
<1>5. /\ Len(chain) \in Nat /\ DOMAIN chain = 1 .. Len(chain)
      /\ DOMAIN chain' = 1 .. Len(chain') /\ OneInstall(chain')
  BY <1>2, ChainFacts DEF ChainOf
<1>6. n \in DOMAIN chain' /\ \A h \in DOMAIN chain' : h \in DOMAIN chain \/ h = n
  BY <1>2, <1>5
<1>7. Len(block.txs) \in Nat /\ DOMAIN block.txs = 1 .. Len(block.txs)
  BY <1>2, BlockFacts
<1> HIDE DEF n
<1>8. ASSUME NEW s, Seen(chain, s) PROVE Seen(chain', s) /\ Covers(chain, chain', s)
  <2>1. PICK h \in DOMAIN chain : s \in Mentioned(chain[h].txs)
    BY <1>8 DEF Seen
  <2>2. ASSUME NEW i, Installs(chain', n, i, s) PROVE FALSE
    <3>1. i \in DOMAIN block.txs /\ block.txs[i].kind = "install" /\ block.txs[i].scid = s
      BY <1>2, <2>2, Zenon DEF Installs
    <3> QED BY <1>2, <2>1, <3>1, Zenon DEF CanFollow
  <2> QED BY <1>2, <1>6, <1>8, <2>2, LongerCovers, SeenLonger
<1>9. \A s \in DOMAIN db.owners : Seen(chain, s)
  BY OwnersSeen DEF Lines, Kept, StoreFits
<1>10. StoreClasses(db, chain')
  BY <1>8, <1>9, StoreClassesStay DEF ClassLines
<1>11. /\ \A i \in DOMAIN queue : BatchClasses(queue[i], DOMAIN db.owners, chain')
       /\ BatchClasses(batch, DOMAIN db.owners, chain')
  BY <1>8, BatchClassesStay DEF ClassLines, QueueClasses
<1>12. DOMAIN batch = DOMAIN EmptyBatch
  BY Zenon DEF Lines, Sent, BatchReady, BatchFits
<1> DEFINE e == Processed(batch, db, n, block).b
<1>13. /\ BatchClasses(e, DOMAIN db.owners, chain')
       /\ \A s \in DOMAIN e.classes : s \in DOMAIN batch.classes \/ Renewed(block, s)
  BY <1>2, <1>5, <1>6, <1>7, <1>10, <1>11, <1>12, ProcessedClasses
<1>14. ASSUME NEW i \in DOMAIN queue, NEW s \in DOMAIN queue[i].classes, Renewed(block, s)
       PROVE  FALSE
  <2>1. PICK j \in DOMAIN block.txs :
          /\ block.txs[j].scid = s
          /\ block.txs[j].kind = "install" \/ (block.txs[j].kind = "invoke" /\ ~turbo)
    BY <1>14, Zenon DEF Renewed
  <2>2. Seen(chain, s)
    BY <1>14, Zenon DEF ClassLines, QueueClasses, BatchClasses
  <2>3. PICK h \in DOMAIN chain : s \in Mentioned(chain[h].txs)
    BY <2>2 DEF Seen
  <2>4. CASE block.txs[j].kind = "install"
    BY <1>2, <2>1, <2>3, <2>4, Zenon DEF CanFollow
  <2>5. CASE block.txs[j].kind = "invoke" /\ ~turbo
    <3>1. s \in Invoked(block.txs)
      BY <2>1, <2>5 DEF Invoked
    <3> QED BY <1>3, <1>14, <2>5, <3>1
  <2> QED BY <2>1, <2>4, <2>5
<1>15. ASSUME NEW i \in DOMAIN queue PROVE Apart(queue[i], e)
  <2>1. Apart(queue[i], batch)
    BY DEF ClassLines, QueueClasses
  <2> HIDE DEF e
  <2> QED BY <1>13, <1>14, <2>1 DEF Apart
<1>16. \A i, j \in DOMAIN queue : i # j => Apart(queue[i], queue[j])
  BY Zenon DEF ClassLines, QueueClasses
<1>17. RefreshClasses(refresh, db, chain')
  <2> SUFFICES ASSUME refresh # None, NEW s \in refresh.scids
               PROVE  s \in DOMAIN db.owners /\ Named(chain', s, Refreshed)
    BY DEF RefreshClasses
  <2>1. s \in DOMAIN db.owners /\ Named(chain, s, Refreshed)
    BY DEF ClassLines, RefreshClasses
  <2> QED BY <1>8, <1>9, <2>1, FittingStays
<1>18. batch' = e
  BY <1>2
<1> HIDE DEF e
<1>19. QueueClasses(queue, batch', DOMAIN db.owners, chain')
  BY <1>11, <1>13, <1>15, <1>16, <1>18, Zenon DEF QueueClasses
<1> QED BY <1>4, <1>10, <1>17, <1>19 DEF ClassLines

LEMMA EmptyClasses ==
  ASSUME NEW owned, NEW c
  PROVE  BatchClasses(EmptyBatch, owned, c) /\ QueueClasses(<<>>, EmptyBatch, owned, c)
<1>1. DOMAIN EmptyBatch.owners = {} /\ DOMAIN EmptyBatch.classes = {}
  BY DEF EmptyBatch, Empty
<1> HIDE DEF EmptyBatch
<1>2. BatchClasses(EmptyBatch, owned, c)
  BY <1>1 DEF BatchClasses
<1>3. DOMAIN <<>> = {}
  OBVIOUS
<1> QED BY <1>2, <1>3 DEF QueueClasses

LEMMA SendClasses ==
  ASSUME Lines, ClassLines, SendBatch PROVE ClassLines'
<1>1. /\ UNCHANGED <<db, chain, refresh>>
      /\ queue' = Append(queue, batch) /\ batch' = EmptyBatch
  BY DEF SendBatch, history
<1> DEFINE e == Append(queue, batch)
           owned == DOMAIN db.owners
<1>2. queue \in Seq(Range(queue) \cup {batch}) /\ Len(queue) \in Nat
  <2>1. queue \in Seq(Range(queue))
    BY Zenon DEF Lines, Sent, QueueFits
  <2> QED BY <2>1
<1>3. /\ DOMAIN e = 1 .. (Len(queue) + 1) /\ DOMAIN queue = 1 .. Len(queue)
      /\ e[Len(queue) + 1] = batch /\ \A i \in 1 .. Len(queue) : e[i] = queue[i]
  BY <1>2, Longer
<1> HIDE DEF e
<1>4. \A i \in DOMAIN e : (i \in DOMAIN queue /\ e[i] = queue[i]) \/ (i = Len(queue) + 1 /\ e[i] = batch)
  BY <1>2, <1>3
<1>5. /\ \A i \in DOMAIN queue : BatchClasses(queue[i], owned, chain) /\ Apart(queue[i], batch)
      /\ \A i, j \in DOMAIN queue : i # j => Apart(queue[i], queue[j])
      /\ BatchClasses(batch, owned, chain)
  BY Zenon DEF ClassLines, QueueClasses
<1>6. \A i \in DOMAIN e : BatchClasses(e[i], owned, chain)
  BY <1>4, <1>5
<1>7. ASSUME NEW b PROVE Apart(b, EmptyBatch)
  BY DEF Apart, EmptyBatch, Empty
<1>8. ASSUME NEW i \in DOMAIN queue PROVE Apart(batch, queue[i])
  BY <1>5 DEF Apart
<1>9. \A i, j \in DOMAIN e : i # j => Apart(e[i], e[j])
  BY <1>4, <1>5, <1>8
<1>10. QueueClasses(e, EmptyBatch, owned, chain)
  BY <1>6, <1>7, <1>9, EmptyClasses, Zenon DEF QueueClasses
<1> QED BY <1>1, <1>10 DEF ClassLines, e

\* A commit of a batch whose classes fit the store it is committed to.
LEMMA FlushedClasses ==
  ASSUME NEW c, NEW d, StoreClasses(d, c), NEW b, DOMAIN b.owners \subseteq DOMAIN b.classes,
         \A s \in DOMAIN b.classes :
           Fitting(c, s, b.classes[s], DOMAIN b.owners \cup DOMAIN d.owners)
  PROVE  LET e == Flushed(d, b)
         IN  StoreClasses(e, c) /\ DOMAIN e.owners = DOMAIN b.owners \cup DOMAIN d.owners
<1> DEFINE e == Flushed(d, b)
<1>1. e.owners = b.owners ++ d.owners /\ e.classIdx = b.classes ++ d.classIdx
  BY DEF Flushed
<1> HIDE DEF e
<1>2. DOMAIN e.owners = DOMAIN b.owners \cup DOMAIN d.owners
  BY <1>1, JoinDomain
<1>3. /\ DOMAIN e.classIdx = DOMAIN b.classes \cup DOMAIN d.classIdx
      /\ \A s \in DOMAIN b.classes : e.classIdx[s] = b.classes[s]
      /\ \A s \in DOMAIN d.classIdx \ DOMAIN b.classes : e.classIdx[s] = d.classIdx[s]
  <2>1. JoinTo(e.classIdx, b.classes, d.classIdx)
    BY <1>1, JoinIs
  <2> QED BY <2>1 DEF JoinTo
<1>4. DOMAIN d.owners \subseteq DOMAIN d.classIdx
      /\ \A s \in DOMAIN d.classIdx : Fitting(c, s, d.classIdx[s], DOMAIN d.owners)
  BY Zenon DEF StoreClasses
<1>5. ASSUME NEW s \in DOMAIN e.classIdx
      PROVE  Fitting(c, s, e.classIdx[s], DOMAIN e.owners)
  <2>1. CASE s \in DOMAIN b.classes
    BY <1>2, <1>3, <2>1
  <2>2. CASE s \in DOMAIN d.classIdx \ DOMAIN b.classes
    <3>1. s \in DOMAIN e.owners <=> s \in DOMAIN d.owners
      BY <1>2, <2>2
    <3>2. Fitting(c, s, e.classIdx[s], DOMAIN d.owners)
      BY <1>3, <1>4, <2>2
    <3> QED BY <3>1, <3>2 DEF Fitting
  <2> QED BY <1>3, <2>1, <2>2
<1>6. DOMAIN e.owners \subseteq DOMAIN e.classIdx
  BY <1>2, <1>3, <1>4
<1>7. StoreClasses(e, c)
  BY <1>5, <1>6 DEF StoreClasses
<1> QED BY <1>2, <1>7 DEF e

\* The batches behind it do not know its contracts.
LEMMA ApartStays ==
  ASSUME NEW c, NEW owned, NEW b, DOMAIN b.owners \subseteq DOMAIN b.classes,
         NEW q, BatchClasses(q, owned, c), Apart(b, q)
  PROVE  BatchClasses(q, DOMAIN b.owners \cup owned, c)
<1>1. ASSUME NEW s \in DOMAIN q.classes
      PROVE  /\ Seen(c, s)
             /\ Fitting(c, s, q.classes[s], DOMAIN q.owners \cup (DOMAIN b.owners \cup owned))
  <2>1. Seen(c, s) /\ Fitting(c, s, q.classes[s], DOMAIN q.owners \cup owned)
    BY DEF BatchClasses
  <2>2. s \in DOMAIN q.owners \cup (DOMAIN b.owners \cup owned) <=> s \in DOMAIN q.owners \cup owned
    BY DEF Apart
  <2> QED BY <2>1, <2>2 DEF Fitting
<1> QED BY <1>1 DEF BatchClasses

LEMMA FlushClasses ==
  ASSUME Lines, ClassLines, FlushBatch PROVE ClassLines'
<1>1. /\ UNCHANGED <<batch, chain, refresh>> /\ queue # <<>>
      /\ db' = Flushed(db, Head(queue)) /\ queue' = Tail(queue)
  BY DEF FlushBatch, history
<1> DEFINE b == Head(queue)
           e == Tail(queue)
           owned == DOMAIN db.owners
<1>2. queue \in Seq(Range(queue))
  BY Zenon DEF Lines, Sent, QueueFits
<1>3. /\ Len(queue) \in Nat /\ Len(queue) > 0 /\ DOMAIN queue = 1 .. Len(queue)
      /\ DOMAIN e = 1 .. (Len(queue) - 1) /\ \A i \in 1 .. (Len(queue) - 1) : e[i] = queue[i + 1]
      /\ b = queue[1] /\ 1 \in DOMAIN queue
  BY <1>1, <1>2, Behead
<1> HIDE DEF e, b
<1>4. \A i \in DOMAIN e : i + 1 \in DOMAIN queue /\ i + 1 # 1 /\ e[i] = queue[i + 1]
  BY <1>3
<1>5. /\ \A i \in DOMAIN queue : BatchClasses(queue[i], owned, chain) /\ Apart(queue[i], batch)
      /\ \A i, j \in DOMAIN queue : i # j => Apart(queue[i], queue[j])
      /\ BatchClasses(batch, owned, chain)
  BY Zenon DEF ClassLines, QueueClasses
<1>6. BatchClasses(b, owned, chain) /\ Apart(b, batch)
  BY <1>3, <1>5
<1>7. DOMAIN b.owners \subseteq DOMAIN b.classes
  BY <1>6 DEF BatchClasses
<1>8. StoreClasses(db', chain) /\ DOMAIN db'.owners = DOMAIN b.owners \cup owned
  <2>1. \A s \in DOMAIN b.classes : Fitting(chain, s, b.classes[s], DOMAIN b.owners \cup owned)
    BY <1>6, Zenon DEF BatchClasses
  <2>2. StoreClasses(db, chain) /\ db' = Flushed(db, b)
    BY <1>1 DEF ClassLines, b
  <2> QED BY <1>7, <2>1, <2>2, FlushedClasses
<1> DEFINE owns == DOMAIN b.owners \cup owned
<1>9. \A i \in DOMAIN e : Apart(b, e[i]) /\ Apart(e[i], batch) /\ BatchClasses(e[i], owned, chain)
  BY <1>3, <1>4, <1>5
<1>10. \A i \in DOMAIN e : BatchClasses(e[i], owns, chain)
  BY <1>7, <1>9, ApartStays
<1>11. BatchClasses(batch, owns, chain)
  BY <1>5, <1>6, <1>7, ApartStays
<1>12. \A i, j \in DOMAIN e : i # j => Apart(e[i], e[j])
  <2> SUFFICES ASSUME NEW i \in DOMAIN e, NEW j \in DOMAIN e, i # j PROVE Apart(e[i], e[j])
    OBVIOUS
  <2>1. i + 1 # j + 1
    BY <1>3
  <2> QED BY <1>4, <1>5, <2>1
<1> HIDE DEF owns
<1>13. QueueClasses(e, batch, owns, chain)
  BY <1>9, <1>10, <1>11, <1>12, Zenon DEF QueueClasses
<1>14. RefreshClasses(refresh, db', chain)
  BY <1>8 DEF ClassLines, RefreshClasses, owns
<1> QED BY <1>1, <1>8, <1>13, <1>14 DEF ClassLines, e, owns

LEMMA RefreshBeginClasses ==
  ASSUME Lines, ClassLines, RefreshBegin PROVE ClassLines'
<1>1. UNCHANGED <<db, batch, queue, chain>>
  BY DEF RefreshBegin, history
<1>2. PICK tip : refresh' = [scids |-> {r[3] : r \in GetClassInstalls(db, Refreshed)}, height |-> tip]
  BY DEF RefreshBegin
<1>3. ASSUME NEW s \in refresh'.scids PROVE s \in DOMAIN db.owners /\ Named(chain, s, Refreshed)
  <2>1. PICK r \in GetClassInstalls(db, Refreshed) : r[3] = s
    BY <1>2
  <2>2. s \in DOMAIN db.classIdx /\ db.classIdx[s].class = Refreshed
    BY <2>1, ListedContracts DEF RowOf
  <2>3. Fitting(chain, s, db.classIdx[s], DOMAIN db.owners)
    BY <2>2 DEF ClassLines, StoreClasses
  <2>4. Refreshed # "UNKNOWN"
    BY StoreAssumed
  <2> QED BY <2>2, <2>3, <2>4 DEF Fitting
<1>4. RefreshClasses(refresh', db, chain)
  BY <1>3 DEF RefreshClasses
<1> QED BY <1>1, <1>4 DEF ClassLines

LEMMA RefreshCommitClasses ==
  ASSUME Lines, ClassLines, RefreshCommit PROVE ClassLines'
<1>1. UNCHANGED <<batch, queue, chain>> /\ refresh # None /\ refresh' = None
  BY DEF RefreshCommit, history
<1>2. PICK S \in SUBSET refresh.scids : db' = Flushed(db, RefreshBatch(S, refresh.height, 2))
  BY DEF RefreshCommit
<1> DEFINE b == RefreshBatch(S, refresh.height, 2)
           m == Meta(Refreshed, 2, refresh.height, refresh.height)
           owned == DOMAIN db.owners
<1>3. DOMAIN b.owners = {} /\ DOMAIN b.classes = S /\ \A s \in S : b.classes[s] = m
  BY DEF RefreshBatch, EmptyBatch, Empty
<1>4. m # None /\ m.class = Refreshed
  BY MetaIs
<1> HIDE DEF b, m
<1>5. ASSUME NEW s \in DOMAIN b.classes
      PROVE  Fitting(chain, s, b.classes[s], DOMAIN b.owners \cup owned)
  <2>1. s \in refresh.scids /\ b.classes[s] = m
    BY <1>3
  <2>2. s \in owned /\ Named(chain, s, Refreshed)
    BY <1>1, <2>1 DEF ClassLines, RefreshClasses
  <2> QED BY <1>4, <2>1, <2>2 DEF Fitting
<1>6. db' = Flushed(db, b) /\ DOMAIN b.owners \subseteq DOMAIN b.classes
  BY <1>2, <1>3 DEF b
<1>7. StoreClasses(db', chain) /\ DOMAIN db'.owners = DOMAIN b.owners \cup owned
  BY <1>5, <1>6, FlushedClasses DEF ClassLines
<1>8. DOMAIN db'.owners = owned
  BY <1>3, <1>7
<1> HIDE DEF owned
<1> QED BY <1>1, <1>7, <1>8 DEF ClassLines, RefreshClasses, owned

LEMMA CutClasses ==
  ASSUME NEW d, DOMAIN d = DOMAIN EmptyDB, NEW c, StoreClasses(d, c), NEW h
  PROVE  StoreClasses(Cut(d, h), c)
<1> DEFINE e == Cut(d, h)
           gone == InstalledAbove(d, h)
<1>1. CutOf(e, d, h)
  BY CutFields
<1> HIDE DEF e
<1>2. e.owners = Without(d.owners, gone) /\ e.classIdx = Without(d.classIdx, gone)
  BY <1>1, Zenon DEF CutOf
<1> HIDE DEF gone
<1>3. /\ RestrictTo(e.owners, d.owners, DOMAIN d.owners \ gone)
      /\ RestrictTo(e.classIdx, d.classIdx, DOMAIN d.classIdx \ gone)
  BY <1>2, RestrictIs DEF Without
<1>4. /\ DOMAIN e.owners = DOMAIN d.owners \ gone
      /\ DOMAIN e.classIdx = DOMAIN d.classIdx \ gone
      /\ \A s \in DOMAIN e.classIdx : e.classIdx[s] = d.classIdx[s]
  BY <1>3 DEF RestrictTo
<1>5. ASSUME NEW s \in DOMAIN e.classIdx PROVE Fitting(c, s, e.classIdx[s], DOMAIN e.owners)
  <2>1. Fitting(c, s, e.classIdx[s], DOMAIN d.owners)
    BY <1>4 DEF StoreClasses
  <2>2. s \in DOMAIN e.owners <=> s \in DOMAIN d.owners
    BY <1>4
  <2> QED BY <2>1, <2>2 DEF Fitting
<1>6. StoreClasses(e, c)
  BY <1>4, <1>5 DEF StoreClasses
<1> QED BY <1>6 DEF e

LEMMA NoClasses ==
  ASSUME NEW d, NEW c
  PROVE  StoreClasses(EmptyDB, c) /\ StoreClasses(ResetDB(d), c)
<1>1. \A e : DOMAIN e.owners = {} /\ DOMAIN e.classIdx = {} => StoreClasses(e, c)
  BY DEF StoreClasses
<1>2. DOMAIN EmptyDB.owners = {} /\ DOMAIN EmptyDB.classIdx = {}
  BY DEF EmptyDB, Empty
<1>3. DOMAIN ResetDB(d).owners = {} /\ DOMAIN ResetDB(d).classIdx = {}
  BY DEF ResetDB, EmptyDB, Empty
<1> QED BY <1>1, <1>2, <1>3

LEMMA RestartClasses ==
  ASSUME Lines, NEW d, d.last \in 0 .. Len(chain), Restart(d), StoreClasses(d, chain)
  PROVE  ClassLines'
<1>1. /\ db' = d /\ queue' = <<>> /\ batch' = EmptyBatch /\ refresh' = None
      /\ chain' = SubSeq(chain, 1, d.last)
  BY DEF Restart
<1>2. \A h \in DOMAIN chain' : h \in DOMAIN chain /\ chain'[h] = chain[h]
  BY <1>1, OnceBefore DEF Lines, Scanned
<1>3. ASSUME NEW s PROVE Covers(chain, chain', s)
  BY <1>2 DEF Covers, Installs
<1>4. StoreClasses(d, chain')
  BY <1>3, StoreClassesStay
<1>5. QueueClasses(queue', batch', DOMAIN db'.owners, chain')
  BY <1>1, EmptyClasses
<1> QED BY <1>1, <1>4, <1>5 DEF ClassLines, RefreshClasses

ClassInv == ~raced => ClassLines

LEMMA ClassStep ==
  ASSUME Lines, ClassInv, [Next]_vars PROVE ClassInv'
<1> SUFFICES ASSUME ~raced' PROVE ClassLines'
  BY DEF ClassInv
<1>1. StoreClasses(db, chain) \/ raced
  BY DEF ClassInv, ClassLines
<1>2. CASE UNCHANGED vars
  <2>1. UNCHANGED <<db, batch, queue, refresh, chain, raced>>
    BY <1>2 DEF vars, history
  <2> QED BY <2>1 DEF ClassInv, ClassLines
<1>3. CASE ProcessBlock
  BY <1>3, BlockClasses DEF ClassInv, ProcessBlock
<1>4. CASE SendBatch
  BY <1>4, SendClasses DEF ClassInv, SendBatch, history
<1>5. CASE FlushBatch
  BY <1>5, FlushClasses DEF ClassInv, FlushBatch, history
<1>6. CASE RefreshBegin
  BY <1>6, RefreshBeginClasses DEF ClassInv, RefreshBegin, history
<1>7. CASE RefreshCommit
  BY <1>7, RefreshCommitClasses DEF ClassInv, RefreshCommit, history
<1>8. CASE Crash
  <2>1. Restart(db) /\ raced' = raced
    BY <1>8 DEF Crash, Restart
  <2>2. db.last \in 0 .. Len(chain)
    BY DEF Lines, Kept
  <2> QED BY <1>1, <2>1, <2>2, RestartClasses
<1>9. CASE TruncateToHeight
  <2>1. PICK h \in 0 .. MaxHeight : Restart(Cut(db, h))
    BY <1>9 DEF TruncateToHeight
  <2>2. raced' = raced
    BY <2>1 DEF Restart
  <2>3. h \in Nat /\ Len(chain) \in Nat
    BY StoreAssumed, ChainFacts DEF Lines, Scanned
  <2>4. DOMAIN db = DOMAIN EmptyDB /\ db.last \in 0 .. Len(chain)
    BY Zenon DEF Lines, Kept, StoreFits
  <2>5. Cut(db, h).last = Least(db.last, h)
    BY <2>3, CutFits DEF Lines, Kept
  <2>6. Cut(db, h).last \in 0 .. Len(chain)
    BY <2>3, <2>4, <2>5 DEF Least
  <2>7. StoreClasses(Cut(db, h), chain)
    BY <1>1, <2>2, <2>4, CutClasses
  <2> QED BY <2>1, <2>6, <2>7, RestartClasses
<1>10. CASE ResetIndex
  <2>1. Restart(ResetDB(db))
    BY <1>10 DEF ResetIndex
  <2>2. ResetDB(db).last = 0 /\ Len(chain) \in Nat
    BY ChainFacts DEF ResetDB, EmptyDB, Lines, Scanned
  <2>3. ResetDB(db).last \in 0 .. Len(chain)
    BY <2>2
  <2> QED BY <2>1, <2>3, NoClasses, RestartClasses
<1> QED BY <1>2, <1>3, <1>4, <1>5, <1>6, <1>7, <1>8, <1>9, <1>10 DEF Next

LEMMA ClassInit ==
  ASSUME Init PROVE ClassInv
<1>1. /\ chain = <<>> /\ refresh = None /\ db = EmptyDB /\ batch = EmptyBatch /\ queue = <<>>
  BY DEF Init
<1> QED BY <1>1, NoClasses, EmptyClasses DEF ClassInv, ClassLines, RefreshClasses

LEMMA CodeNamed ==
  ASSUME Lines, ClassInv PROVE ClassKept
<1> SUFFICES ASSUME ~raced, NEW s \in DOMAIN db.owners, NEW code \in InstalledCode(s),
                    code \in Codes
             PROVE  db.classIdx[s].class \in InstalledCode(s)
  BY DEF ClassKept
<1>1. PICK h \in 1 .. db.last : \E i \in DOMAIN chain[h].txs :
        /\ chain[h].txs[i].kind = "install" /\ chain[h].txs[i].scid = s
        /\ chain[h].txs[i].code = code
  BY DEF InstalledCode, Range
<1>0. PICK i \in DOMAIN chain[h].txs :
        /\ chain[h].txs[i].kind = "install" /\ chain[h].txs[i].scid = s
        /\ chain[h].txs[i].code = code
  BY <1>1
<1>2. h \in DOMAIN chain
  BY ChainFacts DEF Lines, Scanned, Kept
<1>3. Installs(chain, h, i, s)
  BY <1>0, <1>2 DEF Installs
<1>4. Named(chain, s, db.classIdx[s].class)
  BY DEF ClassInv, ClassLines, StoreClasses, Fitting
<1>5. db.classIdx[s].class = code
  BY <1>0, <1>2, <1>3, <1>4 DEF Named
<1> QED BY <1>5

\* The class a contract got from its code at its install is the one the store
\* has, whatever invokes, refreshes, crashes and truncations came after
\* (handleInstallSC, refreshClassMetaOnInvoke, RefreshClassVars, TruncateToHeight),
\* unless an invoke was processed while the install was in a queued batch.
THEOREM ClassSurvives == Spec => []ClassKept
BY LinesInit, LinesStep, ClassInit, ClassStep, CodeNamed, PTL DEF Spec

-----------------------------------------------------------------------------
(* The store a scan builds that commits every block by itself.             *)

Built(c, n) == Fresh(SubSeq(c, 1, n))

\* The store d after block h.
WithBlock(d, c, h) == Flushed(d, Processed(EmptyBatch, d, h, c[h]).b)

\* f holds the stores of such a scan, after each of the first n blocks.
Scans(f, c, n) == f[0] = EmptyDB /\ \A h \in 1 .. n : f[h] = WithBlock(f[h - 1], c, h)

\* A scan that commits block by block has a run of every length.
LEMMA ScanRuns ==
  ASSUME NEW c, NEW n \in Nat
  PROVE  \E f : DOMAIN f = 0 .. n /\ Scans(f, c, n)
<1> DEFINE Runs(f, m) == DOMAIN f = 0 .. m /\ Scans(f, c, m)
           C == {m \in 0 .. n : ~\E f : Runs(f, m)}
<1>1. ASSUME C # {} PROVE FALSE
  <2>1. PICK m \in C : \A l \in C : m <= l
    <3>1. C \in SUBSET Nat
      OBVIOUS
    <3> HIDE DEF C
    <3> QED BY <1>1, <3>1, LeastNumber
  <2>2. CASE m = 0
    <3> DEFINE f == [i \in 0 .. 0 |-> EmptyDB]
    <3>1. Runs(f, 0)
      BY DEF Scans
    <3> QED BY <2>2, <3>1
  <2>3. CASE m # 0
    <3>1. m \in Nat /\ m - 1 \in 0 .. n /\ m \in 1 .. n /\ ~(m <= m - 1)
      BY <2>3
    <3>2. PICK f : Runs(f, m - 1)
      BY <2>1, <3>1
    <3> DEFINE end == WithBlock(f[m - 1], c, m)
               g == [i \in 0 .. m |-> IF i = m THEN end ELSE f[i]]
    <3>3. DOMAIN g = 0 .. m /\ g[m] = end /\ \A i \in 0 .. (m - 1) : g[i] = f[i]
      BY <3>1
    <3>4. g[0] = EmptyDB
      <4>1. 0 \in 0 .. (m - 1)
        BY <2>3, <3>1
      <4> QED BY <3>2, <3>3, <4>1 DEF Scans
    <3>5. ASSUME NEW i \in 1 .. m PROVE g[i] = WithBlock(g[i - 1], c, i)
      <4>1. i - 1 \in 0 .. (m - 1)
        BY <3>1
      <4>2. g[i - 1] = f[i - 1]
        BY <3>3, <4>1
      <4>3. CASE i = m
        BY <3>3, <4>2, <4>3
      <4>4. CASE i # m
        <5>1. i \in 1 .. (m - 1) /\ i \in 0 .. (m - 1)
          BY <3>1, <4>4
        <5>2. f[i] = WithBlock(f[i - 1], c, i)
          BY <3>2, <5>1 DEF Scans
        <5>3. g[i] = f[i]
          BY <3>3, <5>1
        <5> QED BY <4>2, <5>2, <5>3
      <4> QED BY <4>3, <4>4
    <3> HIDE DEF g, end
    <3>6. Runs(g, m)
      BY <3>3, <3>4, <3>5 DEF Scans
    <3> QED BY <3>6
  <2> QED BY <2>2, <2>3
<1> HIDE DEF Runs
<1>2. n \in 0 .. n
  OBVIOUS
<1>3. \E f : Runs(f, n)
  BY <1>1, <1>2
<1> QED BY <1>3 DEF Runs

\* Fresh is what such a run ends with.
LEMMA FreshScans ==
  ASSUME NEW c, Len(c) \in Nat
  PROVE  \E f : Scans(f, c, Len(c)) /\ Fresh(c) = f[Len(c)]
<1> DEFINE n == Len(c)
           IsScan(f) == f = [h \in 0 .. n |->
                IF h = 0 THEN EmptyDB ELSE WithBlock(f[h - 1], c, h)]
           scan == CHOOSE f : IsScan(f)
<1>1. PICK f : DOMAIN f = 0 .. n /\ Scans(f, c, n)
  BY ScanRuns
<1> DEFINE g == [h \in 0 .. n |-> f[h]]
<1>2. IsScan(g)
  <2>1. g[0] = EmptyDB /\ DOMAIN g = 0 .. n
    BY <1>1 DEF Scans
  <2>2. ASSUME NEW h \in 1 .. n PROVE g[h] = WithBlock(g[h - 1], c, h)
    <3>1. h \in 0 .. n /\ h - 1 \in 0 .. n
      OBVIOUS
    <3>2. g[h] = f[h] /\ g[h - 1] = f[h - 1]
      BY <3>1
    <3> QED BY <1>1, <3>2 DEF Scans
  <2>3. g = [h \in 0 .. n |-> g[h]]
    OBVIOUS
  <2> HIDE DEF g
  <2>4. \A h \in 0 .. n : g[h] = IF h = 0 THEN EmptyDB ELSE WithBlock(g[h - 1], c, h)
    BY <2>1, <2>2
  <2> QED BY <2>3, <2>4
<1> HIDE DEF g
<1>3. IsScan(scan)
  <2> HIDE DEF IsScan
  <2> QED BY <1>2
<1>4. Fresh(c) = scan[n]
  BY DEF Fresh, WithBlock
<1> HIDE DEF scan
<1>5. Scans(scan, c, n)
  BY <1>3 DEF Scans
<1> HIDE DEF n
<1> QED BY <1>4, <1>5 DEF n

SameBlocks(c, e, n) == \A h \in 1 .. n : c[h] = e[h]

LEMMA ScansAgree ==
  ASSUME NEW n \in Nat, NEW c, NEW e, SameBlocks(c, e, n),
         NEW f, Scans(f, c, n), NEW g, Scans(g, e, n)
  PROVE  f[n] = g[n]
<1> DEFINE C == {m \in 0 .. n : f[m] # g[m]}
<1>1. ASSUME C # {} PROVE FALSE
  <2>1. PICK m \in C : \A l \in C : m <= l
    <3>1. C \in SUBSET Nat
      OBVIOUS
    <3> HIDE DEF C
    <3> QED BY <1>1, <3>1, LeastNumber
  <2>2. m # 0
    BY DEF Scans
  <2>3. m \in 1 .. n /\ m - 1 \in 0 .. n /\ ~(m <= m - 1)
    BY <2>2
  <2>4. f[m - 1] = g[m - 1]
    BY <2>1, <2>3
  <2>5. WithBlock(g[m - 1], c, m) = WithBlock(g[m - 1], e, m)
    BY <2>3 DEF WithBlock, SameBlocks
  <2>6. f[m] = WithBlock(f[m - 1], c, m) /\ g[m] = WithBlock(g[m - 1], e, m)
    BY <2>3 DEF Scans
  <2> QED BY <2>4, <2>5, <2>6
<1>2. n \in 0 .. n
  OBVIOUS
<1> QED BY <1>1, <1>2

LEMMA BuiltScans ==
  ASSUME NEW c, ChainOf(c), NEW n \in 0 .. Len(c)
  PROVE  \E f : Scans(f, c, n) /\ Built(c, n) = f[n]
<1> DEFINE e == SubSeq(c, 1, n)
<1>1. Len(c) \in Nat /\ c \in Seq(Taken) /\ n \in Nat
  BY ChainFacts DEF ChainOf
<1>2. Len(e) = n /\ \A h \in 1 .. n : e[h] = c[h]
  BY <1>1, Shorter
<1> HIDE DEF e
<1>3. PICK f : Scans(f, e, n) /\ Fresh(e) = f[n]
  BY <1>1, <1>2, FreshScans
<1>4. \A h \in 1 .. n : WithBlock(f[h - 1], e, h) = WithBlock(f[h - 1], c, h)
  BY <1>2 DEF WithBlock
<1>5. Scans(f, c, n)
  BY <1>3, <1>4 DEF Scans
<1> QED BY <1>3, <1>5 DEF Built, e

\* Each block adds to what the blocks before it built.
LEMMA BuiltNext ==
  ASSUME NEW c, ChainOf(c)
  PROVE  /\ Built(c, 0) = EmptyDB
         /\ \A n \in Nat : n + 1 <= Len(c) =>
              Built(c, n + 1) = WithBlock(Built(c, n), c, n + 1)
<1>1. Len(c) \in Nat
  BY ChainFacts
<1>2. Built(c, 0) = EmptyDB
  <2>1. 0 \in 0 .. Len(c)
    BY <1>1
  <2> QED BY <2>1, BuiltScans DEF Scans
<1>3. ASSUME NEW n \in Nat, n + 1 <= Len(c)
      PROVE  Built(c, n + 1) = WithBlock(Built(c, n), c, n + 1)
  <2>1. n \in 0 .. Len(c) /\ n + 1 \in 0 .. Len(c) /\ n + 1 \in 1 .. (n + 1)
        /\ (n + 1) - 1 = n
    BY <1>1, <1>3
  <2>2. PICK f : Scans(f, c, n) /\ Built(c, n) = f[n]
    BY <2>1, BuiltScans
  <2>3. PICK g : Scans(g, c, n + 1) /\ Built(c, n + 1) = g[n + 1]
    BY <2>1, BuiltScans
  <2>4. Scans(g, c, n)
    BY <2>3 DEF Scans
  <2>5. f[n] = g[n]
    BY <2>2, <2>4, ScansAgree DEF SameBlocks
  <2>6. g[n + 1] = WithBlock(g[(n + 1) - 1], c, n + 1)
    BY <2>1, <2>3 DEF Scans
  <2> QED BY <2>1, <2>2, <2>3, <2>5, <2>6
<1> QED BY <1>2, <1>3

\* It depends on these blocks alone.
LEMMA BuiltSame ==
  ASSUME NEW c, ChainOf(c), NEW e, ChainOf(e), NEW n \in Nat, n <= Len(c), n <= Len(e),
         SameBlocks(c, e, n)
  PROVE  Built(c, n) = Built(e, n)
<1>1. n \in 0 .. Len(c) /\ n \in 0 .. Len(e)
  BY ChainFacts
<1>2. PICK f : Scans(f, c, n) /\ Built(c, n) = f[n]
  BY <1>1, BuiltScans
<1>3. PICK g : Scans(g, e, n) /\ Built(e, n) = g[n]
  BY <1>1, BuiltScans
<1>4. f[n] = g[n]
  BY <1>2, <1>3, ScansAgree
<1> QED BY <1>2, <1>3, <1>4

LEMMA BuiltLater ==
  ASSUME UNCHANGED turbo, NEW c, NEW n PROVE Built(c, n)' = Built(c, n)
<1>1. \A b, d, tx, txid, h, known :
        ProcessSCTx(b, d, tx, txid, h, known)' = ProcessSCTx(b, d, tx, txid, h, known)
  BY DEF ProcessSCTx
<1>2. \A tx : Validates(tx)' = Validates(tx)
  BY DEF Validates
<1>3. \A st, d, tx, txid, h : ProcessTx(st, tx, d, txid, h)' = ProcessTx(st, tx, d, txid, h)
  BY <1>1, <1>2 DEF ProcessTx
<1>4. ASSUME NEW b, NEW d, NEW h, NEW block
      PROVE  Processed(b, d, h, block)' = Processed(b, d, h, block)
  <2> DEFINE start == [b |-> IF block.parsed THEN AddBlockHash(b, h, block.hash) ELSE b,
                       known |-> block.known]
             Is(f) == f = [i \in 0 .. Len(block.txs) |->
                IF i = 0 THEN start ELSE ProcessTx(f[i - 1], block.txs[i], d, <<h, i>>, h)]
  <2>1. ASSUME NEW f PROVE Is(f)' <=> Is(f)
    <3>1. [i \in 0 .. Len(block.txs) |->
                IF i = 0 THEN start ELSE ProcessTx(f[i - 1], block.txs[i], d, <<h, i>>, h)]'
          = [i \in 0 .. Len(block.txs) |->
                IF i = 0 THEN start ELSE ProcessTx(f[i - 1], block.txs[i], d, <<h, i>>, h)]
      BY <1>3
    <3> QED BY <3>1
  <2> HIDE DEF Is
  <2>2. (CHOOSE f : Is(f)') = (CHOOSE f : Is(f))
    BY <2>1, Zenon
  <2>3. Processed(b, d, h, block) = [(CHOOSE f : Is(f))[Len(block.txs)] EXCEPT !.b.last = h]
    BY DEF Processed, Is
  <2>4. Processed(b, d, h, block)' = [(CHOOSE f : Is(f)')[Len(block.txs)] EXCEPT !.b.last = h]
    BY DEF Processed, Is
  <2> QED BY <2>2, <2>3, <2>4
<1>5. Fresh(SubSeq(c, 1, n))' = Fresh(SubSeq(c, 1, n))
  BY <1>4 DEF Fresh
<1> QED BY <1>5 DEF Built

-----------------------------------------------------------------------------
(* Rows joined to rows, in a commit or in a batch.                         *)

IsFn(f) == f = [k \in DOMAIN f |-> f[k]]

LEMMA SameFn ==
  ASSUME NEW f, IsFn(f), NEW g, IsFn(g), DOMAIN f = DOMAIN g, \A k \in DOMAIN f : f[k] = g[k]
  PROVE  f = g
BY DEF IsFn

LEMMA JoinFn ==
  ASSUME NEW f, NEW g
  PROVE  IsFn(g ++ f)
BY DEF ++, IsFn

LEMMA JoinNothing ==
  ASSUME NEW f, IsFn(f), NEW g, DOMAIN g = {}
  PROVE  g ++ f = f
<1>1. JoinTo(g ++ f, g, f) /\ IsFn(g ++ f)
  BY JoinIs, JoinFn
<1> DEFINE e == g ++ f
<1>2. IsFn(e) /\ DOMAIN e = DOMAIN f /\ \A k \in DOMAIN e : e[k] = f[k]
  BY <1>1 DEF JoinTo
<1> HIDE DEF e
<1>3. e = f
  BY <1>2, SameFn
<1> QED BY <1>3 DEF e

LEMMA JoinAgain ==
  ASSUME NEW f, NEW g, NEW e
  PROVE  (e ++ g) ++ f = e ++ (g ++ f)
<1>1. JoinTo(e ++ g, e, g) /\ JoinTo(g ++ f, g, f)
  BY JoinIs
<1>2. JoinTo((e ++ g) ++ f, e ++ g, f) /\ JoinTo(e ++ (g ++ f), e, g ++ f)
  BY JoinIs
<1> DEFINE l == (e ++ g) ++ f
           r == e ++ (g ++ f)
<1>3. IsFn(l) /\ IsFn(r)
  BY JoinFn
<1>4. DOMAIN l = DOMAIN r /\ \A k \in DOMAIN l : l[k] = r[k]
  BY <1>1, <1>2 DEF JoinTo
<1> HIDE DEF l, r
<1>5. l = r
  BY <1>3, <1>4, SameFn
<1> QED BY <1>5 DEF l, r

Touch == [first : Nat, last : Nat, count : Nat]

LEMMA MergedTwice ==
  ASSUME NEW a \in Touch, NEW b \in Touch, NEW c \in Touch
  PROVE  /\ Merged(a, b) \in Touch
         /\ Merged(Merged(a, b), c) = Merged(a, Merged(b, c))
BY DEF Merged, Touch, Least, Most

LEMMA MergeFn ==
  ASSUME NEW f, NEW g
  PROVE  IsFn(MergeInto(f, g))
BY JoinFn DEF MergeInto

LEMMA MergeNothing ==
  ASSUME NEW f, IsFn(f), NEW g, DOMAIN g = {}
  PROVE  MergeInto(f, g) = f
<1> DEFINE e == MergeInto(f, g)
<1>1. /\ IsFn(e) /\ DOMAIN e = DOMAIN f \cup DOMAIN g
      /\ \A k \in DOMAIN f \ DOMAIN g : e[k] = f[k]
  BY MergeIs, MergeFn
<1> HIDE DEF e
<1>2. DOMAIN e = DOMAIN f /\ \A k \in DOMAIN e : e[k] = f[k]
  BY <1>1
<1>3. e = f
  BY <1>1, <1>2, SameFn
<1> QED BY <1>3 DEF e

LEMMA MergeAgain ==
  ASSUME NEW f, \A k \in DOMAIN f : f[k] \in Touch, NEW g, \A k \in DOMAIN g : g[k] \in Touch,
         NEW e, \A k \in DOMAIN e : e[k] \in Touch
  PROVE  MergeInto(MergeInto(f, g), e) = MergeInto(f, MergeInto(g, e))
<1> DEFINE fg == MergeInto(f, g)
           ge == MergeInto(g, e)
           l == MergeInto(fg, e)
           r == MergeInto(f, ge)
<1>1. IsFn(l) /\ IsFn(r)
  BY MergeFn
<1>2. /\ DOMAIN fg = DOMAIN f \cup DOMAIN g
      /\ \A k \in DOMAIN g : fg[k] = IF k \in DOMAIN f THEN Merged(f[k], g[k]) ELSE g[k]
      /\ \A k \in DOMAIN f \ DOMAIN g : fg[k] = f[k]
  BY MergeIs
<1>3. /\ DOMAIN ge = DOMAIN g \cup DOMAIN e
      /\ \A k \in DOMAIN e : ge[k] = IF k \in DOMAIN g THEN Merged(g[k], e[k]) ELSE e[k]
      /\ \A k \in DOMAIN g \ DOMAIN e : ge[k] = g[k]
  BY MergeIs
<1> HIDE DEF fg, ge
<1>4. /\ DOMAIN l = DOMAIN fg \cup DOMAIN e
      /\ \A k \in DOMAIN e : l[k] = IF k \in DOMAIN fg THEN Merged(fg[k], e[k]) ELSE e[k]
      /\ \A k \in DOMAIN fg \ DOMAIN e : l[k] = fg[k]
  BY MergeIs
<1>5. /\ DOMAIN r = DOMAIN f \cup DOMAIN ge
      /\ \A k \in DOMAIN ge : r[k] = IF k \in DOMAIN f THEN Merged(f[k], ge[k]) ELSE ge[k]
      /\ \A k \in DOMAIN f \ DOMAIN ge : r[k] = f[k]
  BY MergeIs
<1> HIDE DEF l, r
<1>6. ASSUME NEW k \in DOMAIN l PROVE l[k] = r[k]
  <2>1. CASE k \in DOMAIN f /\ k \in DOMAIN g /\ k \in DOMAIN e
    <3>1. Merged(Merged(f[k], g[k]), e[k]) = Merged(f[k], Merged(g[k], e[k]))
      BY <2>1, MergedTwice
    <3> QED BY <1>2, <1>3, <1>4, <1>5, <2>1, <3>1
  <2>2. CASE k \in DOMAIN e /\ ~(k \in DOMAIN f /\ k \in DOMAIN g)
    BY <1>2, <1>3, <1>4, <1>5, <2>2
  <2>3. CASE k \notin DOMAIN e
    BY <1>2, <1>3, <1>4, <1>5, <2>3
  <2> QED BY <2>1, <2>2, <2>3
<1>7. DOMAIN l = DOMAIN r
  BY <1>2, <1>3, <1>4, <1>5
<1>8. l = r
  BY <1>1, <1>6, <1>7, SameFn
<1> QED BY <1>8 DEF l, r, fg, ge

LEMMA MergeTypes ==
  ASSUME NEW f, \A k \in DOMAIN f : f[k] \in Touch, NEW g, \A k \in DOMAIN g : g[k] \in Touch
  PROVE  \A k \in DOMAIN MergeInto(f, g) : MergeInto(f, g)[k] \in Touch
<1> DEFINE e == MergeInto(f, g)
<1>1. /\ DOMAIN e = DOMAIN f \cup DOMAIN g
      /\ \A k \in DOMAIN g : e[k] = IF k \in DOMAIN f THEN Merged(f[k], g[k]) ELSE g[k]
      /\ \A k \in DOMAIN f \ DOMAIN g : e[k] = f[k]
  BY MergeIs
<1> HIDE DEF e
<1>2. \A k \in DOMAIN e : e[k] \in Touch
  BY <1>1, MergedTwice
<1> QED BY <1>2 DEF e

\* The interactions at a height add up.
AddedTo(f, g) == [k \in DOMAIN g |-> g[k] + Get(f, k, 0)] ++ f

Counting(f) == \A k : Get(f, k, 0) \in Nat

LEMMA SameCounts ==
  ASSUME NEW f, IsFn(f), NEW g, IsFn(g), DOMAIN f = DOMAIN g,
         \A k : Get(f, k, 0) = Get(g, k, 0)
  PROVE  f = g
<1>1. \A k \in DOMAIN f : f[k] = g[k]
  BY DEF Get
<1> QED BY <1>1, SameFn

LEMMA AddedIs ==
  ASSUME NEW f, Counting(f), NEW g, Counting(g)
  PROVE  /\ IsFn(AddedTo(f, g)) /\ Counting(AddedTo(f, g))
         /\ DOMAIN AddedTo(f, g) = DOMAIN f \cup DOMAIN g
         /\ \A k : Get(AddedTo(f, g), k, 0) = Get(f, k, 0) + Get(g, k, 0)
<1> DEFINE m == [k \in DOMAIN g |-> g[k] + Get(f, k, 0)]
           e == AddedTo(f, g)
<1>1. IsFn(e)
  BY JoinFn DEF AddedTo
<1>2. \A k \in DOMAIN g : m[k] = g[k] + Get(f, k, 0)
  OBVIOUS
<1>3. DOMAIN m = DOMAIN g /\ e = m ++ f
  BY DEF AddedTo
<1> HIDE DEF m, e
<1>7. JoinTo(e, m, f)
  BY <1>3, JoinIs
<1>4. /\ DOMAIN e = DOMAIN f \cup DOMAIN g
      /\ \A k \in DOMAIN g : e[k] = m[k]
      /\ \A k \in DOMAIN f \ DOMAIN g : e[k] = f[k]
  BY <1>3, <1>7 DEF JoinTo
<1>5. ASSUME NEW k PROVE Get(e, k, 0) = Get(f, k, 0) + Get(g, k, 0)
  <2>1. Get(f, k, 0) \in Nat /\ Get(g, k, 0) \in Nat
    BY DEF Counting
  <2>2. CASE k \in DOMAIN g
    <3>1. Get(e, k, 0) = m[k] /\ Get(g, k, 0) = g[k]
      BY <1>4, <2>2 DEF Get
    <3>2. m[k] = Get(g, k, 0) + Get(f, k, 0)
      BY <1>2, <2>2, <3>1
    <3> QED BY <2>1, <3>1, <3>2
  <2>3. CASE k \notin DOMAIN g
    <3>1. Get(g, k, 0) = 0 /\ Get(e, k, 0) = Get(f, k, 0)
      BY <1>4, <2>3 DEF Get
    <3> QED BY <2>1, <3>1
  <2> QED BY <2>2, <2>3
<1>6. Counting(e)
  BY <1>5 DEF Counting
<1> QED BY <1>1, <1>4, <1>5, <1>6 DEF e

LEMMA AddedNothing ==
  ASSUME NEW f, IsFn(f), Counting(f), NEW g, DOMAIN g = {}
  PROVE  AddedTo(f, g) = f
<1>1. \A k : Get(g, k, 0) = 0
  BY DEF Get
<1>2. Counting(g)
  BY <1>1 DEF Counting
<1> DEFINE e == AddedTo(f, g)
<1>3. IsFn(e) /\ DOMAIN e = DOMAIN f \cup DOMAIN g
  BY <1>2, AddedIs
<1>4. \A k : Get(e, k, 0) = Get(f, k, 0) + Get(g, k, 0)
  BY <1>2, AddedIs
<1> HIDE DEF e
<1>5. ASSUME NEW k PROVE Get(e, k, 0) = Get(f, k, 0)
  <2>1. Get(f, k, 0) \in Nat
    BY DEF Counting
  <2>2. Get(e, k, 0) = Get(f, k, 0) + 0
    BY <1>1, <1>4
  <2> QED BY <2>1, <2>2
<1>6. DOMAIN e = DOMAIN f
  BY <1>3
<1>7. e = f
  BY <1>3, <1>5, <1>6, SameCounts
<1> QED BY <1>7 DEF e

LEMMA AddedAgain ==
  ASSUME NEW f, Counting(f), NEW g, Counting(g), NEW e, Counting(e)
  PROVE  AddedTo(AddedTo(f, g), e) = AddedTo(f, AddedTo(g, e))
<1> DEFINE fg == AddedTo(f, g)
           ge == AddedTo(g, e)
           l == AddedTo(fg, e)
           r == AddedTo(f, ge)
<1>1. /\ Counting(fg) /\ DOMAIN fg = DOMAIN f \cup DOMAIN g
      /\ \A k : Get(fg, k, 0) = Get(f, k, 0) + Get(g, k, 0)
  BY AddedIs
<1>2. /\ Counting(ge) /\ DOMAIN ge = DOMAIN g \cup DOMAIN e
      /\ \A k : Get(ge, k, 0) = Get(g, k, 0) + Get(e, k, 0)
  BY AddedIs
<1> HIDE DEF fg, ge
<1>3. /\ IsFn(l) /\ DOMAIN l = DOMAIN fg \cup DOMAIN e
      /\ \A k : Get(l, k, 0) = Get(fg, k, 0) + Get(e, k, 0)
  BY <1>1, AddedIs
<1>4. /\ IsFn(r) /\ DOMAIN r = DOMAIN f \cup DOMAIN ge
      /\ \A k : Get(r, k, 0) = Get(f, k, 0) + Get(ge, k, 0)
  BY <1>2, AddedIs
<1> HIDE DEF l, r
<1>5. ASSUME NEW k PROVE Get(l, k, 0) = Get(r, k, 0)
  <2>1. Get(f, k, 0) \in Nat /\ Get(g, k, 0) \in Nat /\ Get(e, k, 0) \in Nat
    BY DEF Counting
  <2>2. /\ Get(l, k, 0) = (Get(f, k, 0) + Get(g, k, 0)) + Get(e, k, 0)
        /\ Get(r, k, 0) = Get(f, k, 0) + (Get(g, k, 0) + Get(e, k, 0))
    BY <1>1, <1>2, <1>3, <1>4
  <2> QED BY <2>1, <2>2
<1>6. DOMAIN l = DOMAIN r
  BY <1>1, <1>2, <1>3, <1>4
<1>7. l = r
  BY <1>3, <1>4, <1>5, <1>6, SameCounts
<1> QED BY <1>7 DEF l, r, fg, ge

Tally == [reg : Nat, burn : Nat, norm : Nat]

CountsOf(a, b) == [k \in {"reg", "burn", "norm"} |-> a[k] + b[k]]

LEMMA CountsAdd ==
  ASSUME NEW a \in Tally, NEW b \in Tally PROVE CountsOf(a, b) \in Tally
BY DEF CountsOf, Tally

LEMMA CountsAgain ==
  ASSUME NEW a \in Tally, NEW b \in Tally, NEW c \in Tally
  PROVE  CountsOf(CountsOf(a, b), c) = CountsOf(a, CountsOf(b, c))
BY DEF CountsOf, Tally

LEMMA CountsNone ==
  ASSUME NEW a \in Tally, NEW z \in Tally, z.reg = 0, z.burn = 0, z.norm = 0
  PROVE  CountsOf(a, z) = a /\ CountsOf(z, a) = a
BY DEF CountsOf, Tally

\* The rows of the scan in a store or a batch: functions to what is counted.
Rowed(d) ==
  /\ IsFn(d.owners) /\ IsFn(d.scvars) /\ IsFn(d.hashes) /\ IsFn(d.installs) /\ IsFn(d.codes)
  /\ IsFn(d.heights) /\ Counting(d.heights)
  /\ IsFn(d.addrScids) /\ \A k \in DOMAIN d.addrScids : d.addrScids[k] \in Touch
  /\ d.counts \in Tally

\* x has the rows of the scan that d has, and those of b.
Joined(x, d, b) ==
  /\ x.owners = b.owners ++ d.owners /\ x.ownerScids = d.ownerScids \cup b.ownerScids
  /\ x.invokes = d.invokes \cup b.invokes /\ x.scvars = b.scvars ++ d.scvars
  /\ x.heights = AddedTo(d.heights, b.heights) /\ x.normTx = d.normTx \cup b.normTx
  /\ x.invalid = d.invalid \cup b.invalid /\ x.counts = CountsOf(d.counts, b.counts)
  /\ x.hashes = b.hashes ++ d.hashes /\ x.installs = b.installs ++ d.installs
  /\ x.codes = b.codes ++ d.codes /\ x.addrScids = MergeInto(d.addrScids, b.addrScids)

SameRowsOf(x, y) ==
  /\ x.owners = y.owners /\ x.ownerScids = y.ownerScids
  /\ x.invokes = y.invokes /\ x.scvars = y.scvars
  /\ x.heights = y.heights /\ x.normTx = y.normTx
  /\ x.invalid = y.invalid /\ x.counts = y.counts
  /\ x.hashes = y.hashes /\ x.installs = y.installs
  /\ x.codes = y.codes /\ x.addrScids = y.addrScids

LEMMA FlushedJoins ==
  ASSUME NEW d, NEW b PROVE Joined(Flushed(d, b), d, b)
BY DEF Flushed, Joined, HeightsAfter, AddedTo, AddrScidsAfter, CountsOf

LEMMA JoinedSame ==
  ASSUME NEW x, NEW d, NEW b, Joined(x, d, b),
         NEW y, SameRowsOf(y, x), NEW e, SameRowsOf(e, d), NEW c, SameRowsOf(c, b)
  PROVE  Joined(y, e, c)
BY DEF Joined, SameRowsOf

LEMMA JoinedAlike ==
  ASSUME NEW x, NEW y, NEW d, NEW b, Joined(x, d, b), Joined(y, d, b)
  PROVE  SameRowsOf(x, y)
BY DEF Joined, SameRowsOf

LEMMA JoinedRowed ==
  ASSUME NEW x, NEW d, Rowed(d), NEW b, Rowed(b), Joined(x, d, b)
  PROVE  Rowed(x)
<1>1. /\ IsFn(x.owners) /\ IsFn(x.scvars) /\ IsFn(x.hashes) /\ IsFn(x.installs)
      /\ IsFn(x.codes)
  BY JoinFn DEF Joined
<1>2. IsFn(x.heights) /\ Counting(x.heights)
  <2> DEFINE f == d.heights
             g == b.heights
  <2>1. Counting(f) /\ Counting(g) /\ x.heights = AddedTo(f, g)
    BY DEF Rowed, Joined
  <2> HIDE DEF f, g
  <2>2. IsFn(AddedTo(f, g)) /\ Counting(AddedTo(f, g))
    BY <2>1, AddedIs
  <2> QED BY <2>1, <2>2
<1>3. IsFn(x.addrScids)
  BY MergeFn DEF Joined
<1>4. \A k \in DOMAIN x.addrScids : x.addrScids[k] \in Touch
  <2> DEFINE f == d.addrScids
             g == b.addrScids
  <2>1. /\ \A k \in DOMAIN f : f[k] \in Touch
        /\ \A k \in DOMAIN g : g[k] \in Touch
        /\ x.addrScids = MergeInto(f, g)
    BY DEF Rowed, Joined
  <2> HIDE DEF f, g
  <2> QED BY <2>1, MergeTypes
<1>5. x.counts \in Tally
  <2>1. d.counts \in Tally /\ b.counts \in Tally /\ x.counts = CountsOf(d.counts, b.counts)
    BY DEF Joined, Rowed
  <2> QED BY <2>1, CountsAdd
<1> QED BY <1>1, <1>2, <1>3, <1>4, <1>5 DEF Rowed

\* In what order rows are put together makes no difference.
LEMMA JoinedAgain ==
  ASSUME NEW d, Rowed(d), NEW b, Rowed(b), NEW c, Rowed(c),
         NEW x, Joined(x, d, b), NEW y, NEW z, Joined(z, b, c)
  PROVE  Joined(y, x, c) <=> Joined(y, d, z)
<1>1. /\ c.owners ++ (b.owners ++ d.owners) = (c.owners ++ b.owners) ++ d.owners
      /\ c.scvars ++ (b.scvars ++ d.scvars) = (c.scvars ++ b.scvars) ++ d.scvars
      /\ c.hashes ++ (b.hashes ++ d.hashes) = (c.hashes ++ b.hashes) ++ d.hashes
      /\ c.installs ++ (b.installs ++ d.installs) = (c.installs ++ b.installs) ++ d.installs
      /\ c.codes ++ (b.codes ++ d.codes) = (c.codes ++ b.codes) ++ d.codes
  BY JoinAgain
<1>2. AddedTo(AddedTo(d.heights, b.heights), c.heights)
        = AddedTo(d.heights, AddedTo(b.heights, c.heights))
  BY AddedAgain DEF Rowed
<1>3. MergeInto(MergeInto(d.addrScids, b.addrScids), c.addrScids)
        = MergeInto(d.addrScids, MergeInto(b.addrScids, c.addrScids))
  <2> DEFINE f == d.addrScids
             g == b.addrScids
             e == c.addrScids
  <2>1. /\ \A k \in DOMAIN f : f[k] \in Touch
        /\ \A k \in DOMAIN g : g[k] \in Touch
        /\ \A k \in DOMAIN e : e[k] \in Touch
    BY DEF Rowed
  <2> HIDE DEF f, g, e
  <2>2. MergeInto(MergeInto(f, g), e) = MergeInto(f, MergeInto(g, e))
    BY <2>1, MergeAgain
  <2> QED BY <2>2 DEF f, g, e
<1>4. CountsOf(CountsOf(d.counts, b.counts), c.counts)
        = CountsOf(d.counts, CountsOf(b.counts, c.counts))
  <2>1. d.counts \in Tally /\ b.counts \in Tally /\ c.counts \in Tally
    BY DEF Rowed
  <2> QED BY <2>1, CountsAgain
<1>5. /\ c.owners ++ x.owners = z.owners ++ d.owners
      /\ c.scvars ++ x.scvars = z.scvars ++ d.scvars
      /\ c.hashes ++ x.hashes = z.hashes ++ d.hashes
      /\ c.installs ++ x.installs = z.installs ++ d.installs
      /\ c.codes ++ x.codes = z.codes ++ d.codes
      /\ AddedTo(x.heights, c.heights) = AddedTo(d.heights, z.heights)
      /\ MergeInto(x.addrScids, c.addrScids) = MergeInto(d.addrScids, z.addrScids)
      /\ CountsOf(x.counts, c.counts) = CountsOf(d.counts, z.counts)
  BY <1>1, <1>2, <1>3, <1>4 DEF Joined
<1>6. /\ x.ownerScids \cup c.ownerScids = d.ownerScids \cup z.ownerScids
      /\ x.invokes \cup c.invokes = d.invokes \cup z.invokes
      /\ x.normTx \cup c.normTx = d.normTx \cup z.normTx
      /\ x.invalid \cup c.invalid = d.invalid \cup z.invalid
  BY DEF Joined
<1> QED BY <1>5, <1>6 DEF Joined

\* No rows of the scan.
Rowless(b) ==
  /\ DOMAIN b.owners = {} /\ b.ownerScids = {} /\ b.invokes = {} /\ DOMAIN b.scvars = {}
  /\ DOMAIN b.heights = {} /\ b.normTx = {} /\ b.invalid = {}
  /\ b.counts.reg = 0 /\ b.counts.burn = 0 /\ b.counts.norm = 0
  /\ DOMAIN b.hashes = {} /\ DOMAIN b.installs = {} /\ DOMAIN b.codes = {}
  /\ DOMAIN b.addrScids = {}

LEMMA EmptyRows ==
  Rowed(EmptyBatch) /\ Rowed(EmptyDB) /\ Rowless(EmptyBatch) /\ Rowless(EmptyDB)
<1>1. IsFn(Empty) /\ DOMAIN Empty = {}
  BY DEF IsFn, Empty
<1>2. Counting(Empty)
  BY <1>1 DEF Counting, Get
<1>3. EmptyBatch.counts \in Tally /\ EmptyDB.counts \in Tally
  BY DEF EmptyBatch, EmptyDB, Tally
<1>4. Rowed(EmptyBatch) /\ Rowed(EmptyDB)
  BY <1>1, <1>2, <1>3 DEF Rowed, EmptyBatch, EmptyDB
<1> QED BY <1>1, <1>4 DEF Rowless, EmptyBatch, EmptyDB

LEMMA JoinsNothing ==
  ASSUME NEW d, Rowed(d), NEW b, Rowed(b), Rowless(b)
  PROVE  Joined(d, d, b)
<1>1. /\ b.owners ++ d.owners = d.owners /\ b.scvars ++ d.scvars = d.scvars
      /\ b.hashes ++ d.hashes = d.hashes /\ b.installs ++ d.installs = d.installs
      /\ b.codes ++ d.codes = d.codes
  BY JoinNothing DEF Rowed, Rowless
<1>2. AddedTo(d.heights, b.heights) = d.heights
  BY AddedNothing DEF Rowed, Rowless
<1>3. MergeInto(d.addrScids, b.addrScids) = d.addrScids
  BY MergeNothing DEF Rowed, Rowless
<1>4. CountsOf(d.counts, b.counts) = d.counts
  BY CountsNone DEF Rowed, Rowless
<1> QED BY <1>1, <1>2, <1>3, <1>4 DEF Joined, Rowless

LEMMA JoinLess ==
  ASSUME NEW f, DOMAIN f = {}, NEW g, IsFn(g)
  PROVE  g ++ f = g
<1> DEFINE e == g ++ f
<1>1. JoinTo(e, g, f) /\ IsFn(e)
  BY JoinIs, JoinFn
<1> HIDE DEF e
<1>2. DOMAIN e = DOMAIN g /\ \A k \in DOMAIN e : e[k] = g[k]
  BY <1>1 DEF JoinTo
<1>3. e = g
  BY <1>1, <1>2, SameFn
<1> QED BY <1>3 DEF e

LEMMA JoinsToNothing ==
  ASSUME NEW d, Rowed(d), Rowless(d), NEW b, Rowed(b)
  PROVE  Joined(b, d, b)
<1>1. /\ b.owners ++ d.owners = b.owners /\ b.scvars ++ d.scvars = b.scvars
      /\ b.hashes ++ d.hashes = b.hashes /\ b.installs ++ d.installs = b.installs
      /\ b.codes ++ d.codes = b.codes
  BY JoinLess DEF Rowed, Rowless
<1>2. AddedTo(d.heights, b.heights) = b.heights
  <2>1. \A k : Get(d.heights, k, 0) = 0
    BY DEF Rowless, Get
  <2> DEFINE e == AddedTo(d.heights, b.heights)
  <2>2. IsFn(e) /\ DOMAIN e = DOMAIN d.heights \cup DOMAIN b.heights
    BY AddedIs DEF Rowed
  <2>3. \A k : Get(e, k, 0) = Get(d.heights, k, 0) + Get(b.heights, k, 0)
    BY AddedIs DEF Rowed
  <2> HIDE DEF e
  <2>4. ASSUME NEW k PROVE Get(e, k, 0) = Get(b.heights, k, 0)
    <3>1. Get(b.heights, k, 0) \in Nat
      BY DEF Rowed, Counting
    <3>2. Get(e, k, 0) = 0 + Get(b.heights, k, 0)
      BY <2>1, <2>3
    <3> QED BY <3>1, <3>2
  <2>5. DOMAIN e = DOMAIN b.heights /\ IsFn(b.heights)
    BY <2>2 DEF Rowless, Rowed
  <2>6. e = b.heights
    BY <2>2, <2>4, <2>5, SameCounts
  <2> QED BY <2>6 DEF e
<1>3. MergeInto(d.addrScids, b.addrScids) = b.addrScids
  <2> DEFINE f == d.addrScids
             g == b.addrScids
             e == MergeInto(f, g)
  <2>1. DOMAIN f = {} /\ IsFn(g)
    BY DEF Rowless, Rowed
  <2> HIDE DEF f, g
  <2>2. /\ DOMAIN e = DOMAIN f \cup DOMAIN g
        /\ \A k \in DOMAIN g : e[k] = IF k \in DOMAIN f THEN Merged(f[k], g[k]) ELSE g[k]
        /\ \A k \in DOMAIN f \ DOMAIN g : e[k] = f[k]
    BY MergeIs
  <2> HIDE DEF e
  <2>3. DOMAIN e = DOMAIN g
    BY <2>1, <2>2
  <2>4. \A k \in DOMAIN e : e[k] = g[k]
    BY <2>1, <2>2, <2>3
  <2>5. IsFn(e) /\ IsFn(g)
    BY <2>1, MergeFn DEF e
  <2>6. e = g
    BY <2>3, <2>4, <2>5, SameFn
  <2> QED BY <2>6 DEF e, f, g
<1>4. CountsOf(d.counts, b.counts) = b.counts
  BY CountsNone DEF Rowed, Rowless
<1> QED BY <1>1, <1>2, <1>3, <1>4 DEF Joined, Rowless

-----------------------------------------------------------------------------
(* The rows a transaction leaves.                                          *)

\* The row of k, if p.
One(p, k, v) == [x \in {y \in {k} : p} |-> v]

Ours(tx)     == IsSC(tx) /\ tx.scid \in Scids \ Excluded
Deployed(tx) == Ours(tx) /\ tx.kind = "install" /\ (turbo \/ (MatchesFilter(tx.code) /\ tx.vars # 0))
Failed(tx)   == Ours(tx) /\ tx.kind = "install" /\ ~turbo /\ MatchesFilter(tx.code) /\ tx.vars = 0
Coded(tx)    == Deployed(tx) /\ ShouldPersistCode(ClassOf(tx.code)) /\ tx.code # NoCode
Observed(tx) == ~turbo /\ tx.vars # 0 /\ (Deployed(tx) \/ (Ours(tx) /\ tx.kind = "invoke"))
Entered(tx, known) ==
  Deployed(tx) \/ (Ours(tx) /\ tx.kind = "invoke" /\ (turbo \/ known \/ tx.vars # 0))

Ringed(tx, k) ==
  {i \in DOMAIN tx.payloads : tx.payloads[i].scid = k[2] /\ k[1] \in tx.payloads[i].ring}
RingEdges(tx) == {k \in Addrs \X Scids : tx.kind = "normal" /\ Ringed(tx, k) # {}}

TxEdges(tx, h, known) ==
  IF tx.kind = "normal" THEN [k \in RingEdges(tx) |-> Touches(h, Cardinality(Ringed(tx, k)))]
  ELSE One(Entered(tx, known) /\ tx.sender # NoAddr, <<tx.sender, tx.scid>>, Touches(h, 1))

TxCounts(tx) == [reg  |-> IF tx.kind = "registration" THEN 1 ELSE 0,
                 burn |-> IF tx.kind = "burn" THEN 1 ELSE 0,
                 norm |-> IF tx.kind = "normal" THEN 1 ELSE 0]

\* All the rows one transaction adds, known saying whether its contract is.
TxRows(tx, txid, h, known) ==
  [owners     |-> One(Deployed(tx), tx.scid, tx.sender),
   ownerScids |-> {k \in {<<tx.sender, tx.scid>>} : Deployed(tx) /\ tx.sender # NoAddr},
   invokes    |-> {r \in {[scid |-> tx.scid, sender |-> tx.sender, txid |-> txid, h |-> h]} :
                     Entered(tx, known)},
   scvars     |-> One(Observed(tx), <<tx.scid, h>>, tx.vars),
   heights    |-> One(Entered(tx, known), <<tx.scid, h>>, 1),
   normTx     |-> {[addr |-> k[1], h |-> h, txid |-> txid, scid |-> k[2]] : k \in RingEdges(tx)},
   invalid    |-> {s \in {tx.scid} : Failed(tx)},
   counts     |-> TxCounts(tx),
   hashes     |-> Empty,
   installs   |-> One(Deployed(tx), <<h, tx.scid>>, tx.sender),
   codes      |-> One(Coded(tx), tx.scid, [code |-> tx.code, h |-> h]),
   addrScids  |-> TxEdges(tx, h, known)]

LEMMA OneIs ==
  ASSUME NEW p, NEW k, NEW v, NEW f, f = One(p, k, v)
  PROVE  /\ IsFn(f) /\ DOMAIN f \subseteq {k} /\ \A x \in DOMAIN f : f[x] = v
         /\ p => k \in DOMAIN f
         /\ ~p => DOMAIN f = {}
BY DEF One, IsFn

\* f has v at k if p holds, and is left alone otherwise.
LEMMA OneJoins ==
  ASSUME NEW p, NEW f, IsFn(f), NEW k, NEW v
  PROVE  /\ p => One(p, k, v) ++ f = Put(f, k, v)
         /\ ~p => One(p, k, v) ++ f = f
<1>1. ASSUME p PROVE One(p, k, v) ++ f = Put(f, k, v)
  BY <1>1 DEF One, Put
<1>2. ASSUME ~p PROVE One(p, k, v) ++ f = f
  <2>1. DOMAIN One(p, k, v) = {}
    BY <1>2, OneIs
  <2> QED BY <2>1, JoinNothing
<1> QED BY <1>1, <1>2

LEMMA OneAdds ==
  ASSUME NEW p, NEW f, IsFn(f), Counting(f), NEW k
  PROVE  /\ p => AddedTo(f, One(p, k, 1)) = Put(f, k, Get(f, k, 0) + 1)
         /\ ~p => AddedTo(f, One(p, k, 1)) = f
<1>1. ASSUME p PROVE AddedTo(f, One(p, k, 1)) = Put(f, k, Get(f, k, 0) + 1)
  <2> DEFINE n == Get(f, k, 0)
             g == One(p, k, 1)
  <2>1. DOMAIN g = {k} /\ g[k] = 1
    BY <1>1 DEF One
  <2>2. n \in Nat
    BY DEF Counting
  <2> HIDE DEF g
  <2>3. [x \in DOMAIN g |-> g[x] + Get(f, x, 0)] = [x \in {k} |-> n + 1]
    <3>1. \A x \in {k} : g[x] + Get(f, x, 0) = 1 + n
      BY <2>1
    <3>2. 1 + n = n + 1
      BY <2>2
    <3> HIDE DEF n
    <3> QED BY <2>1, <3>1, <3>2
  <2> QED BY <2>3 DEF AddedTo, Put, g
<1>2. ASSUME ~p PROVE AddedTo(f, One(p, k, 1)) = f
  <2>1. DOMAIN One(p, k, 1) = {}
    BY <1>2, OneIs
  <2> QED BY <2>1, AddedNothing
<1> QED BY <1>1, <1>2

LEMMA OneTouches ==
  ASSUME NEW p, NEW f, IsFn(f), NEW k, NEW h
  PROVE  /\ p => MergeInto(f, One(p, k, Touches(h, 1))) = Touched(f, k, h)
         /\ ~p => MergeInto(f, One(p, k, Touches(h, 1))) = f
<1>1. ASSUME p PROVE MergeInto(f, One(p, k, Touches(h, 1))) = Touched(f, k, h)
  <2>1. One(p, k, Touches(h, 1)) = [x \in {k} |-> Touches(h, 1)]
    BY <1>1 DEF One
  <2> QED BY <2>1 DEF Touched
<1>2. ASSUME ~p PROVE MergeInto(f, One(p, k, Touches(h, 1))) = f
  <2>1. DOMAIN One(p, k, Touches(h, 1)) = {}
    BY <1>2 DEF One
  <2> QED BY <2>1, MergeNothing
<1> QED BY <1>1, <1>2

\* x is the batch b but for some of its fields.
Alters(x, b, S) ==
  DOMAIN x = DOMAIN EmptyBatch /\ \A f \in DOMAIN EmptyBatch \ S : x[f] = b[f]

LEMMA RecordedRows ==
  ASSUME NEW b, DOMAIN b = DOMAIN EmptyBatch, NEW tx, NEW txid, NEW h,
         NEW r, r = Recorded(b, tx, txid, h)
  PROVE  /\ Alters(r, b, {"invokes", "heights", "addrScids"})
         /\ r.invokes = b.invokes \cup
              {[scid |-> tx.scid, sender |-> tx.sender, txid |-> txid, h |-> h]}
         /\ r.heights = Put(b.heights, <<tx.scid, h>>, Get(b.heights, <<tx.scid, h>>, 0) + 1)
         /\ r.addrScids = IF tx.sender = NoAddr THEN b.addrScids
                          ELSE Touched(b.addrScids, <<tx.sender, tx.scid>>, h)
<1> DEFINE e == [scid |-> tx.scid, sender |-> tx.sender, txid |-> txid, h |-> h]
           n == Get(b.heights, <<tx.scid, h>>, 0) + 1
           b1 == [b EXCEPT !.invokes = @ \cup {e}]
           b2 == [b1 EXCEPT !.heights = Put(@, <<tx.scid, h>>, n)]
           b3 == [b2 EXCEPT !.addrScids = Touched(@, <<tx.sender, tx.scid>>, h)]
<1>1. b1 = AddInvocation(b, tx.scid, tx.sender, txid, h)
  BY DEF AddInvocation
<1>2. Alters(b1, b, {"invokes"}) /\ b1.invokes = b.invokes \cup {e}
  BY BatchFields DEF Alters
<1> HIDE DEF b1, e
<1>3. b1.heights = b.heights /\ b1.addrScids = b.addrScids
  BY <1>2, BatchFields DEF Alters
<1>4. b2 = AddInteractionHeight(b1, tx.scid, h)
  BY <1>3 DEF AddInteractionHeight
<1>5. /\ Alters(b2, b, {"invokes", "heights"}) /\ b2.invokes = b.invokes \cup {e}
      /\ b2.heights = Put(b.heights, <<tx.scid, h>>, n)
      /\ b2.addrScids = b.addrScids
  BY <1>2, <1>3, BatchFields DEF Alters
<1> HIDE DEF b2, n
<1>6. /\ Alters(b3, b, {"invokes", "heights", "addrScids"}) /\ b3.invokes = b.invokes \cup {e}
      /\ b3.heights = Put(b.heights, <<tx.scid, h>>, n)
      /\ b3.addrScids = Touched(b.addrScids, <<tx.sender, tx.scid>>, h)
  BY <1>5, BatchFields DEF Alters
<1>7. r = IF tx.sender = NoAddr THEN b2 ELSE b3
  BY <1>1, <1>4 DEF Recorded, AddAddrSCID
<1> HIDE DEF b3
<1>8. /\ Alters(r, b, {"invokes", "heights", "addrScids"}) /\ r.invokes = b.invokes \cup {e}
      /\ r.heights = Put(b.heights, <<tx.scid, h>>, n)
  BY <1>5, <1>6, <1>7 DEF Alters
<1> QED BY <1>5, <1>6, <1>7, <1>8 DEF e, n

LEMMA InstalledRows ==
  ASSUME NEW b, DOMAIN b = DOMAIN EmptyBatch, NEW tx, NEW txid, NEW h, NEW vs,
         NEW r, r = Recorded(b, tx, txid, h), NEW x, x = Installed(b, tx, txid, h, vs)
  PROVE  /\ Alters(x, r, {"owners", "ownerScids", "installs", "classes", "codes"})
         /\ x.owners = Put(b.owners, tx.scid, tx.sender)
         /\ x.ownerScids = IF tx.sender = NoAddr THEN b.ownerScids
                           ELSE b.ownerScids \cup {<<tx.sender, tx.scid>>}
         /\ x.installs = Put(b.installs, <<h, tx.scid>>, tx.sender)
         /\ x.codes = IF ShouldPersistCode(ClassOf(tx.code)) /\ tx.code # NoCode
                      THEN Put(b.codes, tx.scid, [code |-> tx.code, h |-> h]) ELSE b.codes
<1>1. /\ DOMAIN r = DOMAIN EmptyBatch /\ r.owners = b.owners /\ r.ownerScids = b.ownerScids
      /\ r.installs = b.installs /\ r.codes = b.codes
  <2>1. Alters(r, b, {"invokes", "heights", "addrScids"})
    BY RecordedRows
  <2> QED BY <2>1, BatchFields DEF Alters
<1> DEFINE o == AddOwner(r, tx.scid, tx.sender)
           i == AddInstall(o, tx.scid, h, tx.sender)
           m == AddClass(i, tx.scid, Meta(ClassOf(tx.code), vs, h, h))
           z == AddSCCode(m, tx.scid, h, tx.code)
           os == IF tx.sender = NoAddr THEN b.ownerScids
                 ELSE b.ownerScids \cup {<<tx.sender, tx.scid>>}
<1>2. /\ Alters(o, r, {"owners", "ownerScids"})
      /\ o.owners = Put(b.owners, tx.scid, tx.sender) /\ o.ownerScids = os
  <2> DEFINE w == Put(b.owners, tx.scid, tx.sender)
  <2>1. o = [[r EXCEPT !.owners = w] EXCEPT !.ownerScids = os]
    BY <1>1 DEF AddOwner
  <2> HIDE DEF o, w, os
  <2>2. /\ DOMAIN o = DOMAIN EmptyBatch /\ o.owners = w /\ o.ownerScids = os
        /\ \A f \in DOMAIN EmptyBatch : f \notin {"owners", "ownerScids"} => o[f] = r[f]
    BY <1>1, <2>1, BatchFields
  <2> QED BY <2>2 DEF Alters, w
<1>3. o.installs = b.installs /\ o.codes = b.codes /\ DOMAIN o = DOMAIN EmptyBatch
  BY <1>1, <1>2, BatchFields DEF Alters
<1> HIDE DEF o, os
<1>4. /\ Alters(i, o, {"installs"}) /\ i.installs = Put(b.installs, <<h, tx.scid>>, tx.sender)
  BY <1>3, BatchFields DEF Alters, AddInstall
<1> HIDE DEF i
<1>5. Alters(m, i, {"classes"})
  BY <1>4, BatchFields DEF Alters, AddClass
<1> HIDE DEF m
<1>6. /\ Alters(m, r, {"owners", "ownerScids", "installs", "classes"})
      /\ m.owners = Put(b.owners, tx.scid, tx.sender) /\ m.ownerScids = os
      /\ m.installs = Put(b.installs, <<h, tx.scid>>, tx.sender) /\ m.codes = b.codes
  BY <1>2, <1>3, <1>4, <1>5, BatchFields DEF Alters
<1>7. /\ Alters(z, m, {"codes"})
      /\ z.codes = IF tx.code = NoCode THEN b.codes
                   ELSE Put(b.codes, tx.scid, [code |-> tx.code, h |-> h])
  BY <1>6, BatchFields DEF Alters, AddSCCode
<1> HIDE DEF z
<1>8. x = IF ShouldPersistCode(ClassOf(tx.code)) THEN z ELSE m
  BY DEF Installed, o, i, m, z
<1>9. CASE ShouldPersistCode(ClassOf(tx.code))
  <2>1. x = z
    BY <1>8, <1>9
  <2>2. /\ Alters(z, r, {"owners", "ownerScids", "installs", "classes", "codes"})
        /\ z.owners = m.owners /\ z.ownerScids = m.ownerScids /\ z.installs = m.installs
    BY <1>6, <1>7, BatchFields DEF Alters
  <2> QED BY <1>6, <1>7, <1>9, <2>1, <2>2 DEF os
<1>10. CASE ~ShouldPersistCode(ClassOf(tx.code))
  <2>1. x = m
    BY <1>8, <1>10
  <2>2. Alters(m, r, {"owners", "ownerScids", "installs", "classes", "codes"})
    BY <1>6 DEF Alters
  <2> QED BY <1>6, <1>10, <2>1, <2>2 DEF os
<1> QED BY <1>9, <1>10

\* x is the batch b after a transaction of a contract.
Enters(x, b, tx, txid, h, known) ==
  /\ x.owners = IF Deployed(tx) THEN Put(b.owners, tx.scid, tx.sender) ELSE b.owners
  /\ x.ownerScids = IF Deployed(tx) /\ tx.sender # NoAddr
                    THEN b.ownerScids \cup {<<tx.sender, tx.scid>>} ELSE b.ownerScids
  /\ x.invokes = IF Entered(tx, known)
                 THEN b.invokes \cup
                        {[scid |-> tx.scid, sender |-> tx.sender, txid |-> txid, h |-> h]}
                 ELSE b.invokes
  /\ x.scvars = IF Observed(tx) THEN Put(b.scvars, <<tx.scid, h>>, tx.vars) ELSE b.scvars
  /\ x.heights = IF Entered(tx, known)
                 THEN Put(b.heights, <<tx.scid, h>>, Get(b.heights, <<tx.scid, h>>, 0) + 1)
                 ELSE b.heights
  /\ x.normTx = b.normTx /\ x.counts = b.counts /\ x.hashes = b.hashes
  /\ x.invalid = IF Failed(tx) THEN b.invalid \cup {tx.scid} ELSE b.invalid
  /\ x.installs = IF Deployed(tx) THEN Put(b.installs, <<h, tx.scid>>, tx.sender)
                  ELSE b.installs
  /\ x.codes = IF Coded(tx) THEN Put(b.codes, tx.scid, [code |-> tx.code, h |-> h])
               ELSE b.codes
  /\ x.addrScids = IF Entered(tx, known) /\ tx.sender # NoAddr
                   THEN Touched(b.addrScids, <<tx.sender, tx.scid>>, h) ELSE b.addrScids

LEMMA EnteredRows ==
  ASSUME NEW b, DOMAIN b = DOMAIN EmptyBatch, NEW tx, IsSC(tx), NEW txid, NEW h, NEW known, NEW d,
         NEW x, x = ProcessSCTx(b, d, tx, txid, h, known)
  PROVE  DOMAIN x = DOMAIN EmptyBatch /\ Enters(x, b, tx, txid, h, known)
<1> DEFINE r == Recorded(b, tx, txid, h)
<1>1. /\ Alters(r, b, {"invokes", "heights", "addrScids"})
      /\ r.invokes = b.invokes \cup
           {[scid |-> tx.scid, sender |-> tx.sender, txid |-> txid, h |-> h]}
      /\ r.heights = Put(b.heights, <<tx.scid, h>>, Get(b.heights, <<tx.scid, h>>, 0) + 1)
      /\ r.addrScids = IF tx.sender = NoAddr THEN b.addrScids
                       ELSE Touched(b.addrScids, <<tx.sender, tx.scid>>, h)
  BY RecordedRows
<1>2. /\ DOMAIN r = DOMAIN EmptyBatch /\ r.owners = b.owners /\ r.ownerScids = b.ownerScids
      /\ r.scvars = b.scvars /\ r.normTx = b.normTx /\ r.counts = b.counts
      /\ r.hashes = b.hashes /\ r.invalid = b.invalid /\ r.installs = b.installs
      /\ r.codes = b.codes
  BY <1>1, BatchFields DEF Alters
<1> DEFINE y == Installed(b, tx, txid, h, tx.vars)
           y0 == Installed(b, tx, txid, h, 0)
           Is(z) ==
             /\ DOMAIN z = DOMAIN EmptyBatch /\ z.invokes = r.invokes /\ z.heights = r.heights
             /\ z.addrScids = r.addrScids /\ z.scvars = b.scvars /\ z.normTx = b.normTx
             /\ z.counts = b.counts /\ z.hashes = b.hashes /\ z.invalid = b.invalid
             /\ z.owners = Put(b.owners, tx.scid, tx.sender)
             /\ z.ownerScids = IF tx.sender = NoAddr THEN b.ownerScids
                               ELSE b.ownerScids \cup {<<tx.sender, tx.scid>>}
             /\ z.installs = Put(b.installs, <<h, tx.scid>>, tx.sender)
             /\ z.codes = IF ShouldPersistCode(ClassOf(tx.code)) /\ tx.code # NoCode
                          THEN Put(b.codes, tx.scid, [code |-> tx.code, h |-> h]) ELSE b.codes
<1> HIDE DEF r
<1>3. ASSUME NEW vs, NEW z, z = Installed(b, tx, txid, h, vs) PROVE Is(z)
  <2>1. /\ Alters(z, r, {"owners", "ownerScids", "installs", "classes", "codes"})
        /\ z.owners = Put(b.owners, tx.scid, tx.sender)
        /\ z.ownerScids = IF tx.sender = NoAddr THEN b.ownerScids
                          ELSE b.ownerScids \cup {<<tx.sender, tx.scid>>}
        /\ z.installs = Put(b.installs, <<h, tx.scid>>, tx.sender)
        /\ z.codes = IF ShouldPersistCode(ClassOf(tx.code)) /\ tx.code # NoCode
                     THEN Put(b.codes, tx.scid, [code |-> tx.code, h |-> h]) ELSE b.codes
    BY <1>3, InstalledRows DEF r
  <2>2. /\ DOMAIN z = DOMAIN EmptyBatch /\ z.invokes = r.invokes /\ z.heights = r.heights
        /\ z.addrScids = r.addrScids /\ z.scvars = r.scvars /\ z.normTx = r.normTx
        /\ z.counts = r.counts /\ z.hashes = r.hashes /\ z.invalid = r.invalid
    BY <2>1, BatchFields DEF Alters
  <2> QED BY <1>2, <2>1, <2>2
<1>4. Is(y) /\ Is(y0)
  <2> HIDE DEF Is
  <2> QED BY <1>3 DEF y, y0
<1> HIDE DEF y, y0
<1>5. tx.kind = "install" \/ tx.kind = "invoke"
  BY DEF IsSC
<1>6. CASE ~Ours(tx)
  <2>1. ~Deployed(tx) /\ ~Failed(tx) /\ ~Coded(tx) /\ ~Observed(tx) /\ ~Entered(tx, known)
    BY <1>6 DEF Deployed, Failed, Coded, Observed, Entered
  <2>2. x = b
    BY <1>6 DEF Ours, ProcessSCTx
  <2> QED BY <2>1, <2>2 DEF Enters
<1>7. CASE Ours(tx) /\ tx.kind = "install" /\ turbo
  <2>1. /\ Deployed(tx) /\ ~Failed(tx) /\ ~Observed(tx) /\ Entered(tx, known)
        /\ Coded(tx) <=> ShouldPersistCode(ClassOf(tx.code)) /\ tx.code # NoCode
    BY <1>7 DEF Deployed, Failed, Coded, Observed, Entered
  <2>2. x = y0
    BY <1>7 DEF Ours, ProcessSCTx, y0
  <2> QED BY <1>1, <1>4, <2>1, <2>2 DEF Enters
<1>8. CASE Ours(tx) /\ tx.kind = "install" /\ ~turbo
  <2>2. CASE ~MatchesFilter(tx.code)
    <3>1. ~Deployed(tx) /\ ~Failed(tx) /\ ~Coded(tx) /\ ~Observed(tx) /\ ~Entered(tx, known)
      BY <1>8, <2>2 DEF Deployed, Failed, Coded, Observed, Entered
    <3>2. x = b
      BY <1>8, <2>2 DEF Ours, ProcessSCTx, HandleInstallSC
    <3> QED BY <3>1, <3>2 DEF Enters
  <2>3. CASE MatchesFilter(tx.code) /\ tx.vars = 0
    <3>1. ~Deployed(tx) /\ Failed(tx) /\ ~Coded(tx) /\ ~Observed(tx) /\ ~Entered(tx, known)
      BY <1>8, <2>3 DEF Deployed, Failed, Coded, Observed, Entered
    <3>2. x = [b EXCEPT !.invalid = @ \cup {tx.scid}]
      BY <1>8, <2>3 DEF Ours, ProcessSCTx, HandleInstallSC
    <3>3. Alters(x, b, {"invalid"}) /\ x.invalid = b.invalid \cup {tx.scid}
      BY <3>2, BatchFields DEF Alters
    <3>4. /\ DOMAIN x = DOMAIN EmptyBatch /\ x.owners = b.owners /\ x.ownerScids = b.ownerScids
          /\ x.scvars = b.scvars /\ x.normTx = b.normTx /\ x.counts = b.counts
          /\ x.hashes = b.hashes /\ x.invokes = b.invokes /\ x.installs = b.installs
          /\ x.codes = b.codes /\ x.heights = b.heights /\ x.addrScids = b.addrScids
      BY <3>3, BatchFields DEF Alters
    <3> QED BY <3>1, <3>3, <3>4 DEF Enters
  <2>4. CASE MatchesFilter(tx.code) /\ tx.vars # 0
    <3>1. /\ Deployed(tx) /\ ~Failed(tx) /\ Observed(tx) /\ Entered(tx, known)
          /\ Coded(tx) <=> ShouldPersistCode(ClassOf(tx.code)) /\ tx.code # NoCode
      BY <1>8, <2>4 DEF Deployed, Failed, Coded, Observed, Entered
    <3>2. x = AddVariables(y, tx.scid, h, tx.vars)
      BY <1>8, <2>4 DEF Ours, ProcessSCTx, HandleInstallSC, y
    <3>3. Alters(x, y, {"scvars"}) /\ x.scvars = Put(b.scvars, <<tx.scid, h>>, tx.vars)
      BY <1>4, <3>2, BatchFields DEF Alters, AddVariables
    <3>4. /\ DOMAIN x = DOMAIN EmptyBatch /\ x.owners = y.owners /\ x.ownerScids = y.ownerScids
          /\ x.invalid = y.invalid /\ x.normTx = y.normTx /\ x.counts = y.counts
          /\ x.hashes = y.hashes /\ x.invokes = y.invokes /\ x.installs = y.installs
          /\ x.codes = y.codes /\ x.heights = y.heights /\ x.addrScids = y.addrScids
      BY <3>3, BatchFields DEF Alters
    <3> QED BY <1>1, <1>4, <3>1, <3>3, <3>4 DEF Enters
  <2> QED BY <2>2, <2>3, <2>4
<1>9. CASE Ours(tx) /\ tx.kind = "invoke"
  <2>1. ~Deployed(tx) /\ ~Failed(tx) /\ ~Coded(tx)
    BY <1>9 DEF Deployed, Failed, Coded
  <2>2. CASE turbo \/ (known /\ tx.vars = 0)
    <3>1. ~Observed(tx) /\ Entered(tx, known)
      BY <1>9, <2>2 DEF Observed, Entered
    <3>2. x = r
      BY <1>9, <2>2 DEF Ours, ProcessSCTx, HandleInvokeSC, r
    <3> QED BY <1>1, <1>2, <2>1, <3>1, <3>2 DEF Enters
  <2>3. CASE ~turbo /\ ~known /\ tx.vars = 0
    <3>1. ~Observed(tx) /\ ~Entered(tx, known)
      BY <1>9, <2>1, <2>3 DEF Observed, Entered
    <3>2. x = b
      BY <1>9, <2>3 DEF Ours, ProcessSCTx, HandleInvokeSC
    <3> QED BY <2>1, <3>1, <3>2 DEF Enters
  <2>4. CASE ~turbo /\ tx.vars # 0
    <3>1. Observed(tx) /\ Entered(tx, known)
      BY <1>9, <2>4 DEF Observed, Entered
    <3> DEFINE v == AddVariables(r, tx.scid, h, tx.vars)
    <3>2. x = RefreshClassMetaOnInvoke(v, d, tx, h)
      BY <1>9, <2>4 DEF Ours, ProcessSCTx, HandleInvokeSC, r
    <3>3. Alters(v, r, {"scvars"}) /\ v.scvars = Put(b.scvars, <<tx.scid, h>>, tx.vars)
      BY <1>2, BatchFields DEF Alters, AddVariables
    <3> HIDE DEF v
    <3>4. \E m : x = [v EXCEPT !.classes = m]
      BY <3>2 DEF RefreshClassMetaOnInvoke, AddClass
    <3>5. Alters(x, v, {"classes"})
      BY <3>3, <3>4, BatchFields DEF Alters
    <3>6. /\ DOMAIN x = DOMAIN EmptyBatch /\ x.owners = r.owners /\ x.ownerScids = r.ownerScids
          /\ x.invalid = r.invalid /\ x.normTx = r.normTx /\ x.counts = r.counts
          /\ x.hashes = r.hashes /\ x.invokes = r.invokes /\ x.installs = r.installs
          /\ x.codes = r.codes /\ x.heights = r.heights /\ x.addrScids = r.addrScids
          /\ x.scvars = v.scvars
      BY <3>3, <3>5, BatchFields DEF Alters
    <3> QED BY <1>1, <1>2, <2>1, <3>1, <3>3, <3>6 DEF Enters
  <2> QED BY <2>2, <2>3, <2>4
<1> QED BY <1>5, <1>6, <1>7, <1>8, <1>9

LEMMA TxRowed ==
  ASSUME NEW tx, tx.kind = "normal" => tx.payloads \in Seq(Range(tx.payloads)),
         NEW txid, NEW h \in Nat, NEW known
  PROVE  Rowed(TxRows(tx, txid, h, known))
<1> DEFINE r == TxRows(tx, txid, h, known)
<1>1. /\ r.owners = One(Deployed(tx), tx.scid, tx.sender)
      /\ r.scvars = One(Observed(tx), <<tx.scid, h>>, tx.vars)
      /\ r.heights = One(Entered(tx, known), <<tx.scid, h>>, 1)
      /\ r.counts = TxCounts(tx) /\ r.hashes = Empty
      /\ r.installs = One(Deployed(tx), <<h, tx.scid>>, tx.sender)
      /\ r.codes = One(Coded(tx), tx.scid, [code |-> tx.code, h |-> h])
      /\ r.addrScids = TxEdges(tx, h, known)
  BY DEF TxRows
<1> HIDE DEF r
<1>2. \A p, k, v : IsFn(One(p, k, v))
  BY OneIs
<1>3. /\ IsFn(r.owners) /\ IsFn(r.scvars) /\ IsFn(r.heights) /\ IsFn(r.installs)
      /\ IsFn(r.codes) /\ IsFn(r.hashes)
  <2>1. IsFn(Empty)
    BY DEF IsFn, Empty
  <2> QED BY <1>1, <1>2, <2>1
<1>4. Counting(r.heights)
  <2> DEFINE f == r.heights
  <2>1. \A x \in DOMAIN f : f[x] = 1
    BY <1>1, OneIs
  <2> HIDE DEF f
  <2>2. Counting(f)
    BY <2>1 DEF Counting, Get
  <2> QED BY <2>2 DEF f
<1>5. r.counts \in Tally
  BY <1>1 DEF TxCounts, Tally
<1>6. ASSUME NEW n \in Nat PROVE Touches(h, n) \in Touch
  BY DEF Touches, Touch
<1>7. CASE tx.kind = "normal"
  <2>1. r.addrScids = [k \in RingEdges(tx) |-> Touches(h, Cardinality(Ringed(tx, k)))]
    BY <1>1, <1>7 DEF TxEdges
  <2>2. ASSUME NEW k PROVE Cardinality(Ringed(tx, k)) \in Nat
    <3>1. Len(tx.payloads) \in Nat /\ DOMAIN tx.payloads = 1 .. Len(tx.payloads)
      BY <1>7
    <3>2. IsFiniteSet(DOMAIN tx.payloads)
      BY <3>1, FS_Interval
    <3>3. Ringed(tx, k) \subseteq DOMAIN tx.payloads
      BY DEF Ringed
    <3> QED BY <3>2, <3>3, FS_Subset, FS_CardinalityType
  <2>3. IsFn(r.addrScids)
    BY <2>1 DEF IsFn
  <2>4. \A k \in DOMAIN r.addrScids : r.addrScids[k] \in Touch
    BY <2>1, <2>2, <1>6
  <2> QED BY <1>3, <1>4, <1>5, <2>3, <2>4 DEF Rowed, r
<1>8. CASE tx.kind # "normal"
  <2> DEFINE p == Entered(tx, known) /\ tx.sender # NoAddr
             k == <<tx.sender, tx.scid>>
             v == Touches(h, 1)
  <2>1. r.addrScids = One(p, k, v)
    BY <1>1, <1>8 DEF TxEdges
  <2>2. v \in Touch
    BY <1>6
  <2> HIDE DEF p, k, v
  <2>3. IsFn(r.addrScids) /\ \A x \in DOMAIN r.addrScids : r.addrScids[x] \in Touch
    <3>1. \A x \in DOMAIN r.addrScids : r.addrScids[x] = v
      BY <2>1, OneIs
    <3> QED BY <1>2, <2>1, <2>2, <3>1
  <2> QED BY <1>3, <1>4, <1>5, <2>3 DEF Rowed, r
<1> QED BY <1>7, <1>8 DEF r

\* A transaction joins its rows to the batch, and sees of what came before only
\* whether its contract is known.
JoinsRows(x, st, tx, txid, h) ==
  /\ DOMAIN x = {"b", "known"} /\ DOMAIN x.b = DOMAIN EmptyBatch
  /\ Joined(x.b, st.b, TxRows(tx, txid, h, tx.scid \in st.known))
  /\ x.known = IF IsSC(tx) THEN st.known \cup Validates(tx) ELSE st.known

\* What a transaction leaves depends on the batch only in this, whatever the store d.
LEMMA TxJoins ==
  ASSUME NEW st, DOMAIN st = {"b", "known"}, DOMAIN st.b = DOMAIN EmptyBatch, Rowed(st.b),
         NEW tx, NEW d, NEW txid, NEW h, NEW x, x = ProcessTx(st, tx, d, txid, h)
  PROVE  JoinsRows(x, st, tx, txid, h)
<1> DEFINE b == st.b
           y == x.b
           known == tx.scid \in st.known
           r == TxRows(tx, txid, h, known)
<1>1. /\ IsFn(b.owners) /\ IsFn(b.scvars) /\ IsFn(b.hashes) /\ IsFn(b.installs)
      /\ IsFn(b.codes) /\ IsFn(b.heights) /\ Counting(b.heights) /\ IsFn(b.addrScids)
      /\ b.counts \in Tally
  BY DEF Rowed
<1>2. /\ r.owners = One(Deployed(tx), tx.scid, tx.sender)
      /\ r.ownerScids = {k \in {<<tx.sender, tx.scid>>} : Deployed(tx) /\ tx.sender # NoAddr}
      /\ r.invokes = {e \in {[scid |-> tx.scid, sender |-> tx.sender, txid |-> txid, h |-> h]} :
                        Entered(tx, known)}
      /\ r.scvars = One(Observed(tx), <<tx.scid, h>>, tx.vars)
      /\ r.heights = One(Entered(tx, known), <<tx.scid, h>>, 1)
      /\ r.normTx = {[addr |-> k[1], h |-> h, txid |-> txid, scid |-> k[2]] : k \in RingEdges(tx)}
      /\ r.invalid = {s \in {tx.scid} : Failed(tx)}
      /\ r.counts = TxCounts(tx) /\ r.hashes = Empty
      /\ r.installs = One(Deployed(tx), <<h, tx.scid>>, tx.sender)
      /\ r.codes = One(Coded(tx), tx.scid, [code |-> tx.code, h |-> h])
      /\ r.addrScids = TxEdges(tx, h, known)
  BY DEF TxRows
<1>3. Empty ++ b.hashes = b.hashes
  <2>1. DOMAIN Empty = {}
    BY DEF Empty
  <2> QED BY <1>1, <2>1, JoinNothing
<1> DEFINE owns == Deployed(tx)
           sees == Observed(tx)
           enters == Entered(tx, known)
           codes == Coded(tx)
           edges == enters /\ tx.sender # NoAddr
           code == [code |-> tx.code, h |-> h]
<1>4. /\ One(owns, tx.scid, tx.sender) ++ b.owners
           = IF owns THEN Put(b.owners, tx.scid, tx.sender) ELSE b.owners
      /\ One(owns, <<h, tx.scid>>, tx.sender) ++ b.installs
           = IF owns THEN Put(b.installs, <<h, tx.scid>>, tx.sender) ELSE b.installs
      /\ One(sees, <<tx.scid, h>>, tx.vars) ++ b.scvars
           = IF sees THEN Put(b.scvars, <<tx.scid, h>>, tx.vars) ELSE b.scvars
      /\ One(codes, tx.scid, code) ++ b.codes
           = IF codes THEN Put(b.codes, tx.scid, code) ELSE b.codes
  <2> HIDE DEF owns, sees, codes, code
  <2> DEFINE f == b.owners
             g == b.installs
             e == b.scvars
             c == b.codes
  <2>1. IsFn(f) /\ IsFn(g) /\ IsFn(e) /\ IsFn(c)
    BY <1>1
  <2> HIDE DEF f, g, e, c
  <2>2. One(owns, tx.scid, tx.sender) ++ f = IF owns THEN Put(f, tx.scid, tx.sender) ELSE f
    BY <2>1, OneJoins
  <2>3. One(owns, <<h, tx.scid>>, tx.sender) ++ g
          = IF owns THEN Put(g, <<h, tx.scid>>, tx.sender) ELSE g
    BY <2>1, OneJoins
  <2>4. One(sees, <<tx.scid, h>>, tx.vars) ++ e
          = IF sees THEN Put(e, <<tx.scid, h>>, tx.vars) ELSE e
    BY <2>1, OneJoins
  <2>5. One(codes, tx.scid, code) ++ c = IF codes THEN Put(c, tx.scid, code) ELSE c
    BY <2>1, OneJoins
  <2> QED BY <2>2, <2>3, <2>4, <2>5 DEF f, g, e, c
<1>5. AddedTo(b.heights, One(enters, <<tx.scid, h>>, 1))
        = IF enters THEN Put(b.heights, <<tx.scid, h>>, Get(b.heights, <<tx.scid, h>>, 0) + 1)
          ELSE b.heights
  <2> DEFINE f == b.heights
             k == <<tx.scid, h>>
  <2>1. IsFn(f) /\ Counting(f)
    BY <1>1
  <2> HIDE DEF f, k, enters
  <2>2. AddedTo(f, One(enters, k, 1)) = IF enters THEN Put(f, k, Get(f, k, 0) + 1) ELSE f
    BY <2>1, OneAdds
  <2> QED BY <2>2 DEF f, k
<1>6. MergeInto(b.addrScids, One(edges, <<tx.sender, tx.scid>>, Touches(h, 1)))
        = IF edges THEN Touched(b.addrScids, <<tx.sender, tx.scid>>, h) ELSE b.addrScids
  <2> DEFINE f == b.addrScids
             k == <<tx.sender, tx.scid>>
  <2>1. IsFn(f)
    BY <1>1
  <2> HIDE DEF f, k, edges
  <2>2. MergeInto(f, One(edges, k, Touches(h, 1))) = IF edges THEN Touched(f, k, h) ELSE f
    BY <2>1, OneTouches
  <2> QED BY <2>2 DEF f, k
<1> HIDE DEF r
<1>7. CASE IsSC(tx)
  <2>1. /\ DOMAIN x = {"b", "known"} /\ x.known = st.known \cup Validates(tx)
        /\ y = ProcessSCTx(b, d, tx, txid, h, known)
    BY <1>7 DEF ProcessTx
  <2>2. DOMAIN y = DOMAIN EmptyBatch /\ Enters(y, b, tx, txid, h, known)
    BY <1>7, <2>1, EnteredRows
  <2>3. RingEdges(tx) = {} /\ tx.kind # "normal"
    BY <1>7 DEF RingEdges, IsSC
  <2>4. r.normTx = {} /\ r.addrScids = One(edges, <<tx.sender, tx.scid>>, Touches(h, 1))
    BY <1>2, <2>3 DEF TxEdges
  <2>5. CountsOf(b.counts, r.counts) = b.counts
    <3> DEFINE z == TxCounts(tx)
               a == b.counts
    <3>1. z \in Tally /\ z.reg = 0 /\ z.burn = 0 /\ z.norm = 0
      BY <1>7 DEF TxCounts, Tally, IsSC
    <3>2. a \in Tally /\ r.counts = z
      BY <1>1, <1>2
    <3> HIDE DEF z, a
    <3>3. CountsOf(a, z) = a
      BY <3>1, <3>2, CountsNone
    <3> QED BY <3>2, <3>3 DEF a
  <2> HIDE DEF y, b
  <2>6. /\ y.owners = r.owners ++ b.owners /\ y.installs = r.installs ++ b.installs
        /\ y.scvars = r.scvars ++ b.scvars /\ y.codes = r.codes ++ b.codes
    BY <1>2, <1>4, <2>2 DEF Enters
  <2>7. y.heights = AddedTo(b.heights, r.heights) /\ y.addrScids = MergeInto(b.addrScids, r.addrScids)
    BY <1>2, <1>5, <1>6, <2>2, <2>4 DEF Enters
  <2>8. /\ y.ownerScids = b.ownerScids \cup r.ownerScids /\ y.invokes = b.invokes \cup r.invokes
        /\ y.invalid = b.invalid \cup r.invalid
    BY <1>2, <2>2 DEF Enters
  <2>9. /\ y.normTx = b.normTx \cup r.normTx /\ y.counts = CountsOf(b.counts, r.counts)
        /\ y.hashes = r.hashes ++ b.hashes
    BY <1>2, <1>3, <2>2, <2>4, <2>5 DEF Enters
  <2>10. Joined(y, b, r)
    BY <2>6, <2>7, <2>8, <2>9 DEF Joined
  <2> QED BY <1>7, <2>1, <2>2, <2>10 DEF y, b, r, JoinsRows
<1>8. CASE ~IsSC(tx)
  <2> DEFINE counted == CountTx(b, tx.kind)
  <2>1. ~owns /\ ~sees /\ ~enters /\ ~codes /\ ~edges /\ ~Failed(tx)
    BY <1>8 DEF Deployed, Observed, Entered, Coded, Failed, Ours
  <2>2. Alters(counted, b, {"counts"}) /\ counted.counts = CountsOf(b.counts, r.counts)
    <3>1. Alters(counted, b, {"counts"})
      BY BatchFields DEF Alters, CountTx
    <3> DEFINE a == b.counts
               n == [reg  |-> a.reg + (IF tx.kind = "registration" THEN 1 ELSE 0),
                     burn |-> a.burn + (IF tx.kind = "burn" THEN 1 ELSE 0),
                     norm |-> a.norm + (IF tx.kind = "normal" THEN 1 ELSE 0)]
    <3>2. counted.counts = n
      BY BatchFields DEF CountTx
    <3>3. a \in Tally /\ r.counts = TxCounts(tx)
      BY <1>1, <1>2
    <3> HIDE DEF a
    <3>4. n = CountsOf(a, TxCounts(tx))
      BY <3>3 DEF CountsOf, Tally, TxCounts
    <3> QED BY <3>1, <3>2, <3>3, <3>4 DEF a
  <2> DEFINE edgeRows == {[addr |-> k[1], h |-> h, txid |-> txid, scid |-> k[2]] : k \in RingEdges(tx)}
             touches == [k \in RingEdges(tx) |-> Touches(h, Cardinality(Ringed(tx, k)))]
  <2>3. ProcessNormalTx(counted, tx, txid, h)
          = IF tx.kind = "normal"
            THEN [counted EXCEPT !.normTx = @ \cup edgeRows,
                                 !.addrScids = MergeInto(@, touches)]
            ELSE ProcessNormalTx(counted, tx, txid, h)
    <3>1. tx.kind = "normal" => RingEdges(tx) =
            {k \in Addrs \X Scids : {i \in DOMAIN tx.payloads :
               tx.payloads[i].scid = k[2] /\ k[1] \in tx.payloads[i].ring} # {}}
      BY DEF RingEdges, Ringed
    <3> HIDE DEF counted
    <3> QED BY <3>1 DEF ProcessNormalTx, Ringed
  <2>4. /\ DOMAIN x = {"b", "known"} /\ x.known = st.known
        /\ y = IF tx.kind = "normal" THEN ProcessNormalTx(counted, tx, txid, h) ELSE counted
    BY <1>8 DEF ProcessTx
  <2> HIDE DEF counted
  <2>5. /\ y.normTx = b.normTx \cup r.normTx /\ Alters(y, b, {"counts", "normTx", "addrScids"})
        /\ y.counts = CountsOf(b.counts, r.counts)
        /\ y.addrScids = MergeInto(b.addrScids, r.addrScids)
    <3>1. CASE tx.kind = "normal"
      <4>1. y = [counted EXCEPT !.normTx = @ \cup edgeRows, !.addrScids = MergeInto(@, touches)]
        BY <2>3, <2>4, <3>1
      <4>2. r.normTx = edgeRows /\ r.addrScids = touches
        BY <1>2, <3>1 DEF TxEdges
      <4> HIDE DEF y, edgeRows, touches, b
      <4>3. /\ Alters(y, counted, {"normTx", "addrScids"})
            /\ y.normTx = counted.normTx \cup edgeRows
            /\ y.addrScids = MergeInto(counted.addrScids, touches)
        BY <2>2, <4>1, BatchFields DEF Alters
      <4>4. counted.normTx = b.normTx /\ counted.addrScids = b.addrScids /\ y.counts = counted.counts
        BY <2>2, <4>3, BatchFields DEF Alters
      <4>5. Alters(y, b, {"counts", "normTx", "addrScids"})
        BY <2>2, <4>3 DEF Alters
      <4> QED BY <2>2, <4>2, <4>3, <4>4, <4>5
    <3>2. CASE tx.kind # "normal"
      <4>1. y = counted
        BY <2>4, <3>2
      <4>2. r.normTx = {}
        BY <1>2, <3>2 DEF RingEdges
      <4>3. r.addrScids = One(edges, <<tx.sender, tx.scid>>, Touches(h, 1))
        BY <1>2, <3>2 DEF TxEdges
      <4>4. counted.normTx = b.normTx /\ counted.addrScids = b.addrScids
        BY <2>2, BatchFields DEF Alters
      <4>5. Alters(y, b, {"counts", "normTx", "addrScids"})
        BY <2>2, <4>1 DEF Alters
      <4>6. MergeInto(b.addrScids, r.addrScids) = b.addrScids
        BY <1>6, <2>1, <4>3
      <4> QED BY <2>2, <4>1, <4>2, <4>4, <4>5, <4>6
    <3> QED BY <3>1, <3>2
  <2>6. /\ DOMAIN y = DOMAIN EmptyBatch /\ y.owners = b.owners /\ y.ownerScids = b.ownerScids
        /\ y.invokes = b.invokes /\ y.scvars = b.scvars /\ y.heights = b.heights
        /\ y.invalid = b.invalid /\ y.hashes = b.hashes /\ y.installs = b.installs
        /\ y.codes = b.codes
    BY <2>5, BatchFields DEF Alters
  <2> HIDE DEF y, b
  <2>7. /\ y.owners = r.owners ++ b.owners /\ y.installs = r.installs ++ b.installs
        /\ y.scvars = r.scvars ++ b.scvars /\ y.codes = r.codes ++ b.codes
    BY <1>2, <1>4, <2>1, <2>6
  <2>8. y.heights = AddedTo(b.heights, r.heights)
    BY <1>2, <1>5, <2>1, <2>6
  <2>9. r.ownerScids = {} /\ r.invokes = {} /\ r.invalid = {}
    BY <1>2, <2>1
  <2>10. y.hashes = r.hashes ++ b.hashes
    BY <1>2, <1>3, <2>6
  <2>11. Joined(y, b, r)
    BY <2>5, <2>6, <2>7, <2>8, <2>9, <2>10 DEF Joined
  <2> QED BY <1>8, <2>4, <2>6, <2>11 DEF y, b, r, JoinsRows
<1> QED BY <1>7, <1>8

-----------------------------------------------------------------------------
(* What the rows of a block, and of a chain, say of each other.            *)

RingScids(d) == {r.scid : r \in d.normTx}
CallsOf(d, k) == {r \in d.invokes : r.sender = k[1] /\ r.scid = k[2]}

\* e counts the invocations of calls and spans their heights.
Sums(e, calls) ==
  /\ e.count = Cardinality(calls)
  /\ \E r \in calls : r.h = e.first
  /\ \E r \in calls : r.h = e.last
  /\ \A r \in calls : e.first <= r.h /\ r.h <= e.last

\* Without normal transactions an edge is what the invocations make it.
EdgesSay(d) ==
  \A k \in Addrs \X (Scids \ RingScids(d)) :
    /\ k \in DOMAIN d.addrScids <=> CallsOf(d, k) # {}
    /\ k \in DOMAIN d.addrScids => Sums(d.addrScids[k], CallsOf(d, k))

Tidy(d) ==
  /\ IsFiniteSet(d.invokes) /\ \A r \in d.invokes : r.h \in Nat
  /\ DOMAIN d.codes \subseteq DOMAIN d.owners
  /\ \A k \in DOMAIN d.installs : \E r \in d.invokes :
       r.scid = k[2] /\ r.sender = d.installs[k] /\ r.h = k[1]
  /\ EdgesSay(d)

LEMMA SumsMerged ==
  ASSUME NEW e \in Touch, NEW f \in Touch, NEW R, NEW S, IsFiniteSet(R), IsFiniteSet(S),
         R \cap S = {}, \A r \in R \cup S : r.h \in Nat, Sums(e, R), Sums(f, S)
  PROVE  Sums(Merged(e, f), R \cup S)
<1> DEFINE m == Merged(e, f)
<1>1. /\ e.first \in Nat /\ e.last \in Nat /\ e.count \in Nat
      /\ f.first \in Nat /\ f.last \in Nat /\ f.count \in Nat
  BY DEF Touch
<1>2. /\ m.first = Least(e.first, f.first) /\ m.last = Most(e.last, f.last)
      /\ m.count = e.count + f.count
  BY DEF Merged
<1>3. Cardinality(R \cup S) = e.count + f.count
  <2>1. Cardinality(R \cap S) = 0
    BY FS_EmptySet
  <2>2. Cardinality(R) \in Nat /\ Cardinality(S) \in Nat
    BY FS_CardinalityType
  <2>3. Cardinality(R \cup S) = Cardinality(R) + Cardinality(S) - Cardinality(R \cap S)
    BY FS_Union
  <2> QED BY <2>1, <2>2, <2>3 DEF Sums
<1>4. /\ m.first \in {e.first, f.first} /\ m.first <= e.first /\ m.first <= f.first
      /\ m.last \in {e.last, f.last} /\ e.last <= m.last /\ f.last <= m.last
      /\ m.first \in Nat /\ m.last \in Nat
  BY <1>1, <1>2 DEF Least, Most
<1> HIDE DEF m
<1>5. \A r \in R \cup S : m.first <= r.h /\ r.h <= m.last
  <2>1. ASSUME NEW r \in R PROVE m.first <= r.h /\ r.h <= m.last
    <3>1. e.first <= r.h /\ r.h <= e.last /\ r.h \in Nat
      BY DEF Sums
    <3> QED BY <1>1, <1>4, <3>1
  <2>2. ASSUME NEW r \in S PROVE m.first <= r.h /\ r.h <= m.last
    <3>1. f.first <= r.h /\ r.h <= f.last /\ r.h \in Nat
      BY DEF Sums
    <3> QED BY <1>1, <1>4, <3>1
  <2> QED BY <2>1, <2>2
<1>6. (\E r \in R \cup S : r.h = m.first) /\ (\E r \in R \cup S : r.h = m.last)
  BY <1>4 DEF Sums
<1> QED BY <1>2, <1>3, <1>5, <1>6 DEF Sums, m

\* Rows of different events put together.
LEMMA JoinedTidy ==
  ASSUME NEW d, Tidy(d), Rowed(d), NEW b, Tidy(b), Rowed(b), d.invokes \cap b.invokes = {},
         NEW x, Joined(x, d, b)
  PROVE  Tidy(x)
<1>1. /\ x.owners = b.owners ++ d.owners /\ x.invokes = d.invokes \cup b.invokes
      /\ x.installs = b.installs ++ d.installs /\ x.codes = b.codes ++ d.codes
      /\ x.normTx = d.normTx \cup b.normTx
      /\ x.addrScids = MergeInto(d.addrScids, b.addrScids)
  BY DEF Joined
<1>2. IsFiniteSet(x.invokes) /\ \A r \in x.invokes : r.h \in Nat
  <2>1. IsFiniteSet(d.invokes) /\ IsFiniteSet(b.invokes)
    BY DEF Tidy
  <2>2. x.invokes = d.invokes \cup b.invokes
    BY <1>1
  <2>3. IsFiniteSet(x.invokes)
    BY <2>1, <2>2, FS_Union
  <2> QED BY <2>2, <2>3 DEF Tidy
<1>3. DOMAIN x.codes \subseteq DOMAIN x.owners
  <2>1. x.owners = b.owners ++ d.owners /\ x.codes = b.codes ++ d.codes
    BY <1>1
  <2>2. /\ DOMAIN x.owners = DOMAIN b.owners \cup DOMAIN d.owners
        /\ DOMAIN x.codes = DOMAIN b.codes \cup DOMAIN d.codes
    BY <2>1, JoinDomain
  <2> QED BY <2>2 DEF Tidy
<1>4. ASSUME NEW k \in DOMAIN x.installs
      PROVE  \E r \in x.invokes : r.scid = k[2] /\ r.sender = x.installs[k] /\ r.h = k[1]
  <2>1. JoinTo(x.installs, b.installs, d.installs)
    BY <1>1, JoinIs
  <2>2. CASE k \in DOMAIN b.installs
    <3>1. x.installs[k] = b.installs[k]
      BY <2>1, <2>2 DEF JoinTo
    <3> QED BY <1>1, <2>2, <3>1 DEF Tidy
  <2>3. CASE k \notin DOMAIN b.installs
    <3>1. k \in DOMAIN d.installs /\ x.installs[k] = d.installs[k]
      BY <2>1, <2>3 DEF JoinTo
    <3> QED BY <1>1, <3>1 DEF Tidy
  <2> QED BY <2>2, <2>3
<1>5. ASSUME NEW k \in Addrs \X (Scids \ RingScids(x))
      PROVE  /\ k \in DOMAIN x.addrScids <=> CallsOf(x, k) # {}
             /\ k \in DOMAIN x.addrScids => Sums(x.addrScids[k], CallsOf(x, k))
  <2>1. k \in Addrs \X (Scids \ RingScids(d)) /\ k \in Addrs \X (Scids \ RingScids(b))
    BY <1>1 DEF RingScids
  <2> DEFINE R == CallsOf(d, k)
             S == CallsOf(b, k)
             f == d.addrScids
             g == b.addrScids
             e == x.addrScids
  <2>2. /\ k \in DOMAIN f <=> R # {}
        /\ k \in DOMAIN f => Sums(f[k], R)
        /\ k \in DOMAIN g <=> S # {}
        /\ k \in DOMAIN g => Sums(g[k], S)
    BY <2>1 DEF Tidy, EdgesSay
  <2>3. CallsOf(x, k) = R \cup S
    BY <1>1 DEF CallsOf
  <2>4. /\ IsFiniteSet(R) /\ IsFiniteSet(S) /\ R \cap S = {} /\ \A r \in R \cup S : r.h \in Nat
    <3>1. /\ R \subseteq d.invokes /\ S \subseteq b.invokes
          /\ IsFiniteSet(d.invokes) /\ IsFiniteSet(b.invokes)
      BY DEF CallsOf, Tidy
    <3> HIDE DEF R, S
    <3> QED BY <3>1, FS_Subset DEF Tidy
  <2>5. /\ k \in DOMAIN f => f[k] \in Touch
        /\ k \in DOMAIN g => g[k] \in Touch
    BY DEF Rowed
  <2>6. e = MergeInto(f, g)
    BY <1>1
  <2> HIDE DEF R, S, f, g, e
  <2>7. /\ DOMAIN e = DOMAIN f \cup DOMAIN g
        /\ k \in DOMAIN f \cap DOMAIN g => e[k] = Merged(f[k], g[k])
        /\ k \in DOMAIN f \ DOMAIN g => e[k] = f[k]
        /\ k \in DOMAIN g \ DOMAIN f => e[k] = g[k]
    BY <2>6 DEF MergeInto, ++
  <2>8. k \in DOMAIN e <=> R \cup S # {}
    BY <2>2, <2>7
  <2>9. ASSUME k \in DOMAIN e PROVE Sums(e[k], R \cup S)
    <3>1. CASE k \in DOMAIN f \cap DOMAIN g
      <4> DEFINE u == f[k]
                 v == g[k]
      <4>1. u \in Touch /\ v \in Touch /\ Sums(u, R) /\ Sums(v, S)
        BY <2>2, <2>5, <3>1
      <4> HIDE DEF u, v
      <4>2. Sums(Merged(u, v), R \cup S)
        BY <2>4, <4>1, SumsMerged
      <4> QED BY <2>7, <3>1, <4>2 DEF u, v
    <3>2. CASE k \in DOMAIN f \ DOMAIN g
      <4>1. R \cup S = R
        BY <2>2, <3>2
      <4> QED BY <2>2, <2>7, <3>2, <4>1
    <3>3. CASE k \in DOMAIN g \ DOMAIN f
      <4>1. R \cup S = S
        BY <2>2, <3>3
      <4> QED BY <2>2, <2>7, <3>3, <4>1
    <3> QED BY <2>7, <2>9, <3>1, <3>2, <3>3
  <2> QED BY <2>3, <2>8, <2>9 DEF e
<1> QED BY <1>2, <1>3, <1>4, <1>5 DEF Tidy, EdgesSay

LEMMA RowlessTidy ==
  ASSUME NEW d, Rowless(d) PROVE Tidy(d)
<1>1. /\ d.invokes = {} /\ d.normTx = {} /\ DOMAIN d.codes = {} /\ DOMAIN d.installs = {}
      /\ DOMAIN d.addrScids = {}
  BY DEF Rowless
<1>2. IsFiniteSet(d.invokes)
  BY <1>1, FS_EmptySet
<1>3. \A k : CallsOf(d, k) = {}
  BY <1>1 DEF CallsOf
<1> QED BY <1>1, <1>2, <1>3 DEF Tidy, EdgesSay

\* One transaction's edges count its own calls.
LEMMA TxTidy ==
  ASSUME NEW tx, NEW txid, NEW h \in Nat, NEW known
  PROVE  Tidy(TxRows(tx, txid, h, known))
<1> DEFINE r == TxRows(tx, txid, h, known)
           call == [scid |-> tx.scid, sender |-> tx.sender, txid |-> txid, h |-> h]
<1>1. /\ r.owners = One(Deployed(tx), tx.scid, tx.sender)
      /\ r.invokes = {e \in {call} : Entered(tx, known)}
      /\ r.normTx = {[addr |-> k[1], h |-> h, txid |-> txid, scid |-> k[2]] : k \in RingEdges(tx)}
      /\ r.installs = One(Deployed(tx), <<h, tx.scid>>, tx.sender)
      /\ r.codes = One(Coded(tx), tx.scid, [code |-> tx.code, h |-> h])
      /\ r.addrScids = TxEdges(tx, h, known)
  BY DEF TxRows
<1>2. call.h = h /\ call.scid = tx.scid /\ call.sender = tx.sender
  OBVIOUS
<1> HIDE DEF r, call
<1>3. IsFiniteSet({call}) /\ Cardinality({call}) = 1
  BY FS_Singleton
<1>4. IsFiniteSet(r.invokes) /\ \A e \in r.invokes : e.h \in Nat
  <2>1. r.invokes \subseteq {call}
    BY <1>1
  <2> QED BY <1>2, <1>3, <2>1, FS_Subset
<1>5. Coded(tx) => Deployed(tx)
  BY DEF Coded
<1>6. DOMAIN r.codes \subseteq DOMAIN r.owners
  <2>1. DOMAIN r.codes \subseteq {x \in {tx.scid} : Coded(tx)}
    BY <1>1 DEF One
  <2>2. DOMAIN r.owners = {x \in {tx.scid} : Deployed(tx)}
    BY <1>1 DEF One
  <2> QED BY <1>5, <2>1, <2>2
<1>7. ASSUME NEW k \in DOMAIN r.installs
      PROVE  \E e \in r.invokes : e.scid = k[2] /\ e.sender = r.installs[k] /\ e.h = k[1]
  <2>1. Deployed(tx) /\ k = <<h, tx.scid>> /\ r.installs[k] = tx.sender
    BY <1>1 DEF One
  <2>2. Entered(tx, known)
    BY <2>1 DEF Entered
  <2>3. call \in r.invokes
    BY <1>1, <2>2
  <2> QED BY <1>2, <2>1, <2>3
<1>8. ASSUME NEW k \in Addrs \X (Scids \ RingScids(r))
      PROVE  /\ k \in DOMAIN r.addrScids <=> CallsOf(r, k) # {}
             /\ k \in DOMAIN r.addrScids => Sums(r.addrScids[k], CallsOf(r, k))
  <2>1. CASE tx.kind = "normal"
    <3>1. ~Entered(tx, known)
      BY <2>1 DEF Entered, Deployed, Ours, IsSC
    <3>2. CallsOf(r, k) = {}
      BY <1>1, <3>1 DEF CallsOf
    <3>3. DOMAIN r.addrScids = RingEdges(tx)
      BY <1>1, <2>1 DEF TxEdges
    <3>4. k \notin RingEdges(tx)
      <4> SUFFICES ASSUME k \in RingEdges(tx) PROVE FALSE
        OBVIOUS
      <4> DEFINE e == [addr |-> k[1], h |-> h, txid |-> txid, scid |-> k[2]]
      <4>1. e \in r.normTx /\ e.scid = k[2]
        BY <1>1
      <4> QED BY <4>1 DEF RingScids
    <3> QED BY <3>2, <3>3, <3>4
  <2>2. CASE tx.kind # "normal"
    <3> DEFINE p == Entered(tx, known) /\ tx.sender # NoAddr
               key == <<tx.sender, tx.scid>>
               v == Touches(h, 1)
    <3>1. r.addrScids = One(p, key, v)
      BY <1>1, <2>2 DEF TxEdges
    <3>2. k[1] # NoAddr /\ (k[1] = tx.sender /\ k[2] = tx.scid <=> k = key)
      BY StoreAssumed
    <3>3. v.first = h /\ v.last = h /\ v.count = 1
      BY DEF Touches
    <3>4. CASE p /\ k = key
      <4>1. k \in DOMAIN r.addrScids /\ r.addrScids[k] = v
        BY <3>1, <3>4 DEF One
      <4>2. CallsOf(r, k) = {call}
        BY <1>1, <1>2, <3>2, <3>4 DEF CallsOf
      <4>3. Sums(v, {call})
        BY <1>2, <1>3, <3>3 DEF Sums
      <4> QED BY <4>1, <4>2, <4>3
    <3>5. CASE ~(p /\ k = key)
      <4>1. k \notin DOMAIN r.addrScids
        BY <3>1, <3>5 DEF One
      <4>2. CallsOf(r, k) = {}
        BY <1>1, <1>2, <3>2, <3>5 DEF CallsOf
      <4> QED BY <4>1, <4>2
    <3> QED BY <3>4, <3>5
  <2> QED BY <2>1, <2>2
<1>9. Tidy(r)
  BY <1>4, <1>6, <1>7, <1>8 DEF Tidy, EdgesSay
<1> QED BY <1>9 DEF r

LEMMA SameTidy ==
  ASSUME NEW x, NEW y, SameRowsOf(x, y), Tidy(y) PROVE Tidy(x)
<1>1. /\ x.owners = y.owners /\ x.invokes = y.invokes /\ x.normTx = y.normTx
      /\ x.installs = y.installs /\ x.codes = y.codes /\ x.addrScids = y.addrScids
  BY DEF SameRowsOf
<1>2. RingScids(x) = RingScids(y) /\ \A k : CallsOf(x, k) = CallsOf(y, k)
  BY <1>1 DEF RingScids, CallsOf
<1>3. EdgesSay(x)
  BY <1>1, <1>2 DEF Tidy, EdgesSay
<1> QED BY <1>1, <1>3 DEF Tidy

-----------------------------------------------------------------------------
(* The rows of a block: what it joins to whatever batch it meets.          *)

\* The rows of block h, by themselves.
BlockRows(h, block) == Processed(EmptyBatch, EmptyDB, h, block).b

Readable(block) ==
  /\ Len(block.txs) \in Nat /\ DOMAIN block.txs = 1 .. Len(block.txs)
  /\ \A i \in DOMAIN block.txs : block.txs[i].kind = "normal" =>
       block.txs[i].payloads \in Seq(Range(block.txs[i].payloads))

RowsAt(b, h) ==
  /\ \A k \in DOMAIN b.heights : k[2] = h
  /\ \A r \in b.invokes \cup b.normTx : r.h = h
  /\ \A k \in DOMAIN b.installs : k[1] = h
  /\ \A k \in DOMAIN b.scvars : k[2] = h
  /\ \A k \in DOMAIN b.hashes : k = h

LEMMA JoinedAt ==
  ASSUME NEW h, NEW d, RowsAt(d, h), NEW b, RowsAt(b, h), NEW x, Joined(x, d, b)
  PROVE  RowsAt(x, h)
<1>1. /\ DOMAIN x.heights = DOMAIN d.heights \cup DOMAIN b.heights
      /\ DOMAIN x.installs = DOMAIN d.installs \cup DOMAIN b.installs
      /\ DOMAIN x.scvars = DOMAIN d.scvars \cup DOMAIN b.scvars
      /\ DOMAIN x.hashes = DOMAIN d.hashes \cup DOMAIN b.hashes
  BY DEF Joined, AddedTo, ++
<1>2. x.invokes \cup x.normTx = (d.invokes \cup d.normTx) \cup (b.invokes \cup b.normTx)
  BY DEF Joined
<1> QED BY <1>1, <1>2 DEF RowsAt

LEMMA TxAt ==
  ASSUME NEW tx, NEW txid, NEW h, NEW known
  PROVE  LET r == TxRows(tx, txid, h, known)
         IN  /\ RowsAt(r, h)
             /\ \A e \in r.invokes : e.txid = txid
             /\ \A s \in r.invalid : tx.kind = "install" /\ tx.scid = s
<1> DEFINE r == TxRows(tx, txid, h, known)
           call == [scid |-> tx.scid, sender |-> tx.sender, txid |-> txid, h |-> h]
<1>1. /\ r.invokes = {e \in {call} : Entered(tx, known)}
      /\ r.scvars = One(Observed(tx), <<tx.scid, h>>, tx.vars)
      /\ r.heights = One(Entered(tx, known), <<tx.scid, h>>, 1)
      /\ r.normTx = {[addr |-> k[1], h |-> h, txid |-> txid, scid |-> k[2]] : k \in RingEdges(tx)}
      /\ r.invalid = {s \in {tx.scid} : Failed(tx)}
      /\ r.hashes = Empty
      /\ r.installs = One(Deployed(tx), <<h, tx.scid>>, tx.sender)
  BY DEF TxRows
<1>2. call.h = h /\ call.txid = txid
  OBVIOUS
<1> HIDE DEF r, call
<1>3. /\ DOMAIN r.scvars \subseteq {<<tx.scid, h>>} /\ DOMAIN r.heights \subseteq {<<tx.scid, h>>}
      /\ DOMAIN r.installs \subseteq {<<h, tx.scid>>}
  BY <1>1 DEF One
<1>4. DOMAIN r.hashes = {}
  BY <1>1 DEF Empty
<1>5. \A e \in r.invokes \cup r.normTx : e.h = h
  BY <1>1, <1>2
<1>6. RowsAt(r, h)
  BY <1>3, <1>4, <1>5 DEF RowsAt
<1>7. \A e \in r.invokes : e.txid = txid
  BY <1>1, <1>2
<1>8. \A s \in r.invalid : tx.kind = "install" /\ tx.scid = s
  BY <1>1 DEF Failed
<1> QED BY <1>6, <1>7, <1>8 DEF r

\* The batch of block h alone, after its first i transactions.
LoopFits(s, h, i, block) ==
  /\ DOMAIN s = {"b", "known"} /\ DOMAIN s.b = DOMAIN EmptyBatch
  /\ Rowed(s.b) /\ Tidy(s.b) /\ RowsAt(s.b, h)
  /\ \A r \in s.b.invokes : \E j \in 1 .. i : r.txid = <<h, j>>
  /\ \A c \in s.b.invalid : \E j \in 1 .. i :
       block.txs[j].kind = "install" /\ block.txs[j].scid = c

\* st is at the same transaction, and began with the batch b.
Beside(st, s, b) ==
  /\ DOMAIN st = {"b", "known"} /\ DOMAIN st.b = DOMAIN EmptyBatch /\ Rowed(st.b)
  /\ st.known = s.known /\ Joined(st.b, b, s.b)

LEMMA LoopStep ==
  ASSUME NEW h \in Nat, NEW block, Readable(block), NEW i \in DOMAIN block.txs,
         NEW s, LoopFits(s, h, i - 1, block),
         NEW x, x = ProcessTx(s, block.txs[i], EmptyDB, <<h, i>>, h)
  PROVE  LoopFits(x, h, i, block)
<1> DEFINE tx == block.txs[i]
           txid == <<h, i>>
           known == tx.scid \in s.known
           r == TxRows(tx, txid, h, known)
<1>1. /\ DOMAIN s = {"b", "known"} /\ DOMAIN s.b = DOMAIN EmptyBatch
      /\ Rowed(s.b) /\ Tidy(s.b) /\ RowsAt(s.b, h)
  BY DEF LoopFits
<1>2. /\ DOMAIN x = {"b", "known"} /\ DOMAIN x.b = DOMAIN EmptyBatch /\ Joined(x.b, s.b, r)
  <2>1. x = ProcessTx(s, tx, EmptyDB, txid, h)
    OBVIOUS
  <2> HIDE DEF tx, txid
  <2>2. JoinsRows(x, s, tx, txid, h)
    BY <1>1, <2>1, TxJoins
  <2> QED BY <2>2 DEF JoinsRows
<1>3. Rowed(r)
  BY TxRowed DEF Readable
<1>4. Tidy(r)
  BY TxTidy
<1>5. /\ RowsAt(r, h) /\ \A e \in r.invokes : e.txid = <<h, i>>
      /\ \A c \in r.invalid : tx.kind = "install" /\ tx.scid = c
  BY TxAt
<1> HIDE DEF r
<1>6. i \in Nat /\ i \in 1 .. i /\ \A j \in 1 .. (i - 1) : j \in 1 .. i /\ j # i
  BY DEF Readable
<1>7. s.b.invokes \cap r.invokes = {}
  <2> SUFFICES ASSUME NEW e \in s.b.invokes, e \in r.invokes PROVE FALSE
    OBVIOUS
  <2>1. PICK j \in 1 .. (i - 1) : e.txid = <<h, j>>
    BY DEF LoopFits
  <2>2. e.txid = <<h, i>>
    BY <1>5
  <2> QED BY <1>6, <2>1, <2>2
<1>8. Rowed(x.b)
  BY <1>1, <1>2, <1>3, JoinedRowed
<1>9. Tidy(x.b)
  BY <1>1, <1>2, <1>3, <1>4, <1>7, JoinedTidy
<1>10. RowsAt(x.b, h)
  BY <1>1, <1>2, <1>5, JoinedAt
<1>11. x.b.invokes = s.b.invokes \cup r.invokes /\ x.b.invalid = s.b.invalid \cup r.invalid
  BY <1>2 DEF Joined
<1>12. \A e \in x.b.invokes : \E j \in 1 .. i : e.txid = <<h, j>>
  BY <1>5, <1>6, <1>11 DEF LoopFits
<1>13. \A c \in x.b.invalid : \E j \in 1 .. i :
          block.txs[j].kind = "install" /\ block.txs[j].scid = c
  BY <1>5, <1>6, <1>11 DEF LoopFits
<1> QED BY <1>2, <1>8, <1>9, <1>10, <1>12, <1>13 DEF LoopFits

\* Two batches that differ by b's rows differ by them after the next transaction too.
LEMMA BesideStep ==
  ASSUME NEW h \in Nat, NEW block, Readable(block), NEW i \in DOMAIN block.txs,
         NEW s, LoopFits(s, h, i - 1, block), NEW b, Rowed(b), NEW st, Beside(st, s, b),
         NEW d, NEW x, x = ProcessTx(st, block.txs[i], d, <<h, i>>, h),
         NEW y, y = ProcessTx(s, block.txs[i], EmptyDB, <<h, i>>, h)
  PROVE  Beside(x, y, b)
<1> DEFINE tx == block.txs[i]
           txid == <<h, i>>
           r == TxRows(tx, txid, h, tx.scid \in s.known)
<1>1. DOMAIN s = {"b", "known"} /\ DOMAIN s.b = DOMAIN EmptyBatch /\ Rowed(s.b)
  BY DEF LoopFits
<1>2. /\ DOMAIN st = {"b", "known"} /\ DOMAIN st.b = DOMAIN EmptyBatch /\ Rowed(st.b)
      /\ st.known = s.known /\ Joined(st.b, b, s.b)
  BY DEF Beside
<1>3. x = ProcessTx(st, tx, d, txid, h) /\ y = ProcessTx(s, tx, EmptyDB, txid, h)
  OBVIOUS
<1>4. Rowed(r)
  BY TxRowed DEF Readable
<1> HIDE DEF tx, txid
<1>5. /\ Joined(y.b, s.b, r)
      /\ y.known = IF IsSC(tx) THEN s.known \cup Validates(tx) ELSE s.known
  <2>1. JoinsRows(y, s, tx, txid, h)
    BY <1>3, <1>1, TxJoins
  <2> QED BY <2>1 DEF JoinsRows, r
<1>6. /\ DOMAIN x = {"b", "known"} /\ DOMAIN x.b = DOMAIN EmptyBatch
      /\ Joined(x.b, st.b, TxRows(tx, txid, h, tx.scid \in st.known))
      /\ x.known = IF IsSC(tx) THEN st.known \cup Validates(tx) ELSE st.known
  <2>1. JoinsRows(x, st, tx, txid, h)
    BY <1>3, <1>2, TxJoins
  <2> QED BY <2>1 DEF JoinsRows
<1>7. Joined(x.b, st.b, r)
  BY <1>2, <1>6
<1> HIDE DEF r
<1>8. Joined(x.b, b, y.b)
  BY <1>1, <1>2, <1>5, <1>7, <1>4, JoinedAgain
<1>9. Rowed(x.b)
  BY <1>2, <1>7, <1>4, JoinedRowed
<1> QED BY <1>2, <1>5, <1>6, <1>8, <1>9 DEF Beside

LEMMA StartFits ==
  ASSUME NEW h, NEW block, NEW b, DOMAIN b = DOMAIN EmptyBatch, Rowed(b)
  PROVE  /\ LoopFits(Start(EmptyBatch, h, block), h, 0, block)
         /\ Beside(Start(b, h, block), Start(EmptyBatch, h, block), b)
<1> DEFINE z == [EmptyBatch EXCEPT !.hashes = One(block.parsed, h, block.hash)]
           x == Start(b, h, block)
           y == Start(EmptyBatch, h, block)
<1>1. Rowed(EmptyBatch) /\ Rowless(EmptyBatch)
  BY EmptyRows
<1>2. Alters(z, EmptyBatch, {"hashes"}) /\ z.hashes = One(block.parsed, h, block.hash)
  BY BatchFields DEF Alters
<1> HIDE DEF z
<1>3. /\ z.owners = EmptyBatch.owners /\ z.ownerScids = EmptyBatch.ownerScids
      /\ z.invokes = EmptyBatch.invokes /\ z.scvars = EmptyBatch.scvars
      /\ z.heights = EmptyBatch.heights /\ z.normTx = EmptyBatch.normTx
      /\ z.invalid = EmptyBatch.invalid /\ z.counts = EmptyBatch.counts
      /\ z.installs = EmptyBatch.installs /\ z.codes = EmptyBatch.codes
      /\ z.addrScids = EmptyBatch.addrScids
  BY <1>2, BatchFields DEF Alters
<1>4. IsFn(z.hashes) /\ DOMAIN z.hashes \subseteq {h}
  BY <1>2 DEF One, IsFn
<1>5. Rowed(z)
  BY <1>1, <1>3, <1>4 DEF Rowed
<1>6. ASSUME NEW e, DOMAIN e = DOMAIN EmptyBatch, Rowed(e)
      PROVE  /\ DOMAIN Start(e, h, block) = {"b", "known"}
             /\ DOMAIN Start(e, h, block).b = DOMAIN EmptyBatch
             /\ Start(e, h, block).known = block.known
             /\ Joined(Start(e, h, block).b, e, z)
  <2> DEFINE u == Start(e, h, block).b
  <2>1. /\ DOMAIN Start(e, h, block) = {"b", "known"} /\ Start(e, h, block).known = block.known
        /\ u = IF block.parsed THEN AddBlockHash(e, h, block.hash) ELSE e
    BY DEF Start
  <2> HIDE DEF u
  <2>2. /\ Alters(u, e, {"hashes"})
        /\ u.hashes = IF block.parsed THEN Put(e.hashes, h, block.hash) ELSE e.hashes
    BY <1>6, <2>1, BatchFields DEF AddBlockHash, Alters
  <2>3. u.hashes = z.hashes ++ e.hashes
    <3> DEFINE f == e.hashes
               p == block.parsed
    <3>1. IsFn(f)
      BY <1>6 DEF Rowed
    <3> HIDE DEF f, p
    <3>2. One(p, h, block.hash) ++ f = IF p THEN Put(f, h, block.hash) ELSE f
      BY <3>1, OneJoins
    <3> QED BY <1>2, <2>2, <3>2 DEF f, p
  <2>4. /\ u.owners = e.owners /\ u.ownerScids = e.ownerScids
        /\ u.invokes = e.invokes /\ u.scvars = e.scvars
        /\ u.heights = e.heights /\ u.normTx = e.normTx
        /\ u.invalid = e.invalid /\ u.counts = e.counts
        /\ u.installs = e.installs /\ u.codes = e.codes
        /\ u.addrScids = e.addrScids
    BY <2>2, BatchFields DEF Alters
  <2>5. Joined(e, e, EmptyBatch)
    BY <1>1, <1>6, JoinsNothing
  <2>6. Joined(u, e, z)
    BY <1>3, <2>3, <2>4, <2>5 DEF Joined
  <2> QED BY <2>1, <2>2, <2>6 DEF u, Alters
<1>7. /\ DOMAIN x = {"b", "known"} /\ DOMAIN x.b = DOMAIN EmptyBatch
      /\ x.known = block.known /\ Joined(x.b, b, z)
  BY <1>6
<1>8. /\ DOMAIN y = {"b", "known"} /\ DOMAIN y.b = DOMAIN EmptyBatch
      /\ y.known = block.known /\ Joined(y.b, EmptyBatch, z)
  BY <1>1, <1>6
<1> HIDE DEF x, y
<1>9. SameRowsOf(y.b, z)
  <2>1. Joined(z, EmptyBatch, z)
    BY <1>1, <1>5, JoinsToNothing
  <2> QED BY <1>8, <2>1, JoinedAlike
<1>10. Joined(x.b, b, y.b)
  <2>1. SameRowsOf(x.b, x.b) /\ SameRowsOf(b, b)
    BY DEF SameRowsOf
  <2> QED BY <1>7, <1>9, <2>1, JoinedSame
<1>11. Rowed(x.b) /\ Rowed(y.b)
  BY <1>1, <1>5, <1>7, <1>8, JoinedRowed
<1>12. Tidy(y.b)
  <2>1. /\ y.b.invokes = {} /\ y.b.normTx = {} /\ DOMAIN y.b.codes = {}
        /\ DOMAIN y.b.installs = {} /\ DOMAIN y.b.addrScids = {}
    BY <1>1, <1>3, <1>9 DEF Rowless, SameRowsOf
  <2>2. IsFiniteSet(y.b.invokes)
    BY <2>1, FS_EmptySet
  <2>3. \A k : CallsOf(y.b, k) = {}
    BY <2>1 DEF CallsOf
  <2> QED BY <2>1, <2>2, <2>3 DEF Tidy, EdgesSay
<1>13. /\ RowsAt(y.b, h) /\ y.b.invokes = {} /\ y.b.invalid = {}
  BY <1>1, <1>3, <1>4, <1>9 DEF Rowless, SameRowsOf, RowsAt
<1>14. LoopFits(y, h, 0, block)
  BY <1>8, <1>11, <1>12, <1>13 DEF LoopFits
<1>15. Beside(x, y, b)
  BY <1>7, <1>8, <1>10, <1>11 DEF Beside
<1> QED BY <1>14, <1>15 DEF x, y

\* A block joins the same rows to any batch, whatever is in the store.
LEMMA BlockJoins ==
  ASSUME NEW h \in Nat, NEW block, Readable(block),
         NEW b, DOMAIN b = DOMAIN EmptyBatch, Rowed(b), NEW d
  PROVE  LET r == BlockRows(h, block)
         IN  /\ Joined(Processed(b, d, h, block).b, b, r) /\ Rowed(r) /\ Tidy(r) /\ RowsAt(r, h)
             /\ \A c \in r.invalid : \E j \in DOMAIN block.txs :
                  block.txs[j].kind = "install" /\ block.txs[j].scid = c
<1> DEFINE n == Len(block.txs)
           end == Processed(b, d, h, block)
           alone == Processed(EmptyBatch, EmptyDB, h, block)
<1>1. PICK f : /\ Loop(f, n, b, d, h, block)
               /\ end = [f[n] EXCEPT !.b.last = h]
  BY ProcessedSteps DEF Readable
<1>2. PICK g : /\ Loop(g, n, EmptyBatch, EmptyDB, h, block)
               /\ alone = [g[n] EXCEPT !.b.last = h]
  BY ProcessedSteps DEF Readable
<1> HIDE DEF end, alone
<1> DEFINE Good(m) == LoopFits(g[m], h, m, block) /\ Beside(f[m], g[m], b)
           C == {m \in 0 .. n : ~Good(m)}
<1>3. n \in Nat /\ DOMAIN block.txs = 1 .. n
  BY DEF Readable
<1> HIDE DEF n
<1>4. Good(0)
  BY <1>1, <1>2, StartFits DEF Loop
<1>5. ASSUME NEW m \in 1 .. n, Good(m - 1) PROVE Good(m)
  <2>1. /\ f[m] = ProcessTx(f[m - 1], block.txs[m], d, <<h, m>>, h)
        /\ g[m] = ProcessTx(g[m - 1], block.txs[m], EmptyDB, <<h, m>>, h)
    BY <1>1, <1>2 DEF Loop
  <2>2. m \in DOMAIN block.txs
    BY <1>3
  <2>3. LoopFits(g[m], h, m, block)
    BY <1>5, <2>1, <2>2, LoopStep
  <2>4. Beside(f[m], g[m], b)
    BY <1>5, <2>1, <2>2, BesideStep
  <2> QED BY <2>3, <2>4
<1> HIDE DEF Good
<1>6. ASSUME C # {} PROVE FALSE
  <2>1. PICK m \in C : \A l \in C : m <= l
    <3>1. C \in SUBSET Nat
      BY <1>3
    <3> HIDE DEF C
    <3> QED BY <1>6, <3>1, LeastNumber
  <2>2. m # 0
    BY <1>4
  <2>3. m \in 1 .. n /\ m - 1 \in 0 .. n /\ ~(m <= m - 1)
    BY <1>3, <2>2
  <2>4. Good(m - 1)
    BY <2>1, <2>3
  <2> QED BY <1>5, <2>3, <2>4
<1>7. Good(n)
  <2>1. n \in 0 .. n
    BY <1>3
  <2> QED BY <1>6, <2>1
<1> DEFINE u == f[n]
           v == g[n]
<1>8. LoopFits(v, h, n, block) /\ Beside(u, v, b)
  BY <1>7 DEF Good
<1>9. end = [u EXCEPT !.b.last = h] /\ alone = [v EXCEPT !.b.last = h]
  BY <1>1, <1>2
<1> HIDE DEF u, v
<1>10. SameRowsOf(end.b, u.b) /\ SameRowsOf(alone.b, v.b)
  <2>1. ASSUME NEW s, DOMAIN s = {"b", "known"}, DOMAIN s.b = DOMAIN EmptyBatch,
               NEW x, x = [s EXCEPT !.b.last = h]
        PROVE  SameRowsOf(x.b, s.b)
    <3>1. x.b = [s.b EXCEPT !.last = h]
      BY <2>1
    <3> DEFINE t == s.b
    <3> HIDE DEF t
    <3>2. DOMAIN t = DOMAIN EmptyBatch /\ x.b = [t EXCEPT !.last = h]
      BY <2>1, <3>1 DEF t
    <3>3. SameRowsOf(x.b, t)
      BY <3>2, BatchFields DEF SameRowsOf
    <3> QED BY <3>3 DEF t
  <2> QED BY <1>8, <1>9, <2>1 DEF LoopFits, Beside
<1>11. Joined(end.b, b, alone.b)
  <2>1. Joined(u.b, b, v.b) /\ SameRowsOf(b, b)
    BY <1>8 DEF Beside, SameRowsOf
  <2> QED BY <1>10, <2>1, JoinedSame
<1>12. Rowed(alone.b)
  BY <1>8, <1>10 DEF LoopFits, SameRowsOf, Rowed
<1>13. RowsAt(alone.b, h)
  BY <1>8, <1>10 DEF LoopFits, SameRowsOf, RowsAt
<1>14. Tidy(alone.b)
  <2>1. Tidy(v.b)
    BY <1>8 DEF LoopFits
  <2> QED BY <1>10, <2>1, SameTidy
<1>15. \A c \in alone.b.invalid : \E j \in DOMAIN block.txs :
                  block.txs[j].kind = "install" /\ block.txs[j].scid = c
  BY <1>3, <1>8, <1>10 DEF LoopFits, SameRowsOf
<1> QED BY <1>11, <1>12, <1>13, <1>14, <1>15 DEF end, alone, BlockRows

-----------------------------------------------------------------------------
(* What a block-by-block scan builds, block by block.                      *)

LEMMA ChainReadable ==
  ASSUME NEW c, ChainOf(c), NEW h \in DOMAIN c
  PROVE  Readable(c[h])
<1>1. Len(c[h].txs) \in Nat /\ DOMAIN c[h].txs = 1 .. Len(c[h].txs)
  BY ChainFacts
<1>2. c[h] \in Taken
  BY ChainFacts DEF ChainOf
<1>3. PICK x \in Blocks : c[h].txs = x.txs
  BY <1>2 DEF Taken
<1>4. \A tx \in Range(x.txs) : tx.kind = "normal" => tx.payloads \in Seq(Range(tx.payloads))
  BY BlockAssumption, Zenon
<1>5. \A i \in DOMAIN x.txs : x.txs[i] \in Range(x.txs)
  BY DEF Range
<1> QED BY <1>1, <1>3, <1>4, <1>5 DEF Readable

\* A store of the first n blocks of c.
Sound(d, c, n) ==
  /\ StoreFits(d, c, FALSE, {}) /\ d.last = n /\ Rowed(d) /\ Tidy(d)
  /\ \A s \in d.invalid : \E h \in 1 .. n : \E i \in DOMAIN c[h].txs : Installs(c, h, i, s)

LEMMA NothingSound ==
  ASSUME NEW c PROVE Sound(EmptyDB, c, 0)
<1>1. StoreFits(EmptyDB, c, FALSE, {})
  BY EmptyFits
<1>2. Rowed(EmptyDB) /\ Rowless(EmptyDB)
  BY EmptyRows
<1>3. Tidy(EmptyDB) /\ EmptyDB.invalid = {}
  BY <1>2, RowlessTidy DEF Rowless
<1>4. EmptyDB.last = 0
  BY DEF EmptyDB
<1> QED BY <1>1, <1>2, <1>3, <1>4 DEF Sound

\* A block joins its rows, and nothing else.
BlockAdds(c, h) == BlockRows(h, c[h])

LEMMA BlockAlone ==
  ASSUME NEW c, ChainOf(c), NEW h \in DOMAIN c, NEW d
  PROVE  LET p == Processed(EmptyBatch, d, h, c[h]).b
             r == BlockAdds(c, h)
         IN  /\ BatchFits(p, c, h) /\ p.last = h /\ SameRowsOf(p, r)
             /\ Rowed(r) /\ Tidy(r) /\ RowsAt(r, h)
             /\ \A s \in r.invalid : \E i \in DOMAIN c[h].txs : Installs(c, h, i, s)
<1> DEFINE p == Processed(EmptyBatch, d, h, c[h]).b
           r == BlockAdds(c, h)
           block == c[h]
<1>1. /\ h \in 1 .. MaxHeight /\ h \in Nat /\ OneInstall(c)
      /\ Len(block.txs) \in Nat /\ DOMAIN block.txs = 1 .. Len(block.txs)
      /\ block.known \subseteq Scids
      /\ \A i \in DOMAIN block.txs :
           IsSC(block.txs[i]) => block.txs[i].sender \in Addrs \cup {NoAddr}
  BY ChainFacts DEF ChainOf
<1>2. Readable(block)
  BY ChainReadable
<1>3. block = c[h]
  OBVIOUS
<1> HIDE DEF block
<1>4. BatchFits(EmptyBatch, c, h)
  BY EmptyBatchFits
<1>5. /\ BatchFits(Processed(EmptyBatch, d, h, block).b, c, h)
      /\ Processed(EmptyBatch, d, h, block).b.last = h
  BY <1>1, <1>3, <1>4, ProcessedFits
<1>6. /\ Rowed(EmptyBatch) /\ Rowless(EmptyBatch) /\ DOMAIN EmptyBatch = DOMAIN EmptyBatch
  BY EmptyRows
<1>7. LET q == BlockRows(h, block)
      IN  /\ Joined(Processed(EmptyBatch, d, h, block).b, EmptyBatch, q)
          /\ Rowed(q) /\ Tidy(q) /\ RowsAt(q, h)
          /\ \A s \in q.invalid : \E i \in DOMAIN block.txs :
               block.txs[i].kind = "install" /\ block.txs[i].scid = s
  BY <1>1, <1>2, <1>6, BlockJoins
<1>8. p = Processed(EmptyBatch, d, h, block).b /\ r = BlockRows(h, block)
  BY <1>3 DEF BlockAdds
<1> HIDE DEF p, r
<1>9. /\ Joined(p, EmptyBatch, r) /\ Rowed(r) /\ Tidy(r) /\ RowsAt(r, h)
      /\ \A s \in r.invalid : \E i \in DOMAIN block.txs :
           block.txs[i].kind = "install" /\ block.txs[i].scid = s
  BY <1>7, <1>8
<1>10. Joined(r, EmptyBatch, r)
  BY <1>6, <1>9, JoinsToNothing
<1>11. SameRowsOf(p, r)
  BY <1>9, <1>10, JoinedAlike
<1>12. \A s \in r.invalid : \E i \in DOMAIN c[h].txs : Installs(c, h, i, s)
  BY <1>3, <1>9 DEF Installs
<1> QED BY <1>5, <1>8, <1>9, <1>11, <1>12 DEF p, r

\* The next block joins its rows to what is built, and the result is sound.
LEMMA BuiltJoins ==
  ASSUME NEW c, ChainOf(c), NEW n \in Nat, n + 1 <= Len(c), Sound(Built(c, n), c, n)
  PROVE  /\ Joined(Built(c, n + 1), Built(c, n), BlockAdds(c, n + 1))
         /\ Sound(Built(c, n + 1), c, n + 1)
<1> DEFINE B == Built(c, n)
           e == Built(c, n + 1)
           h == n + 1
           p == Processed(EmptyBatch, B, h, c[h]).b
           r == BlockAdds(c, h)
<1>1. h \in DOMAIN c /\ h \in Nat \ {0} /\ n \in Nat /\ n <= h /\ h > n /\ OneInstall(c)
  BY ChainFacts DEF ChainOf
<1>2. e = Flushed(B, p)
  BY BuiltNext DEF WithBlock
<1>3. /\ BatchFits(p, c, h) /\ p.last = h /\ SameRowsOf(p, r)
      /\ Rowed(r) /\ Tidy(r) /\ RowsAt(r, h)
      /\ \A s \in r.invalid : \E i \in DOMAIN c[h].txs : Installs(c, h, i, s)
  BY <1>1, BlockAlone
<1>4. /\ StoreFits(B, c, FALSE, {}) /\ B.last = n /\ Rowed(B) /\ Tidy(B)
      /\ \A s \in B.invalid : \E g \in 1 .. n : \E i \in DOMAIN c[g].txs : Installs(c, g, i, s)
  BY DEF Sound
<1> HIDE DEF B, e, p, r
<1>5. Joined(e, B, r)
  <2>1. Joined(e, B, p)
    BY <1>2, FlushedJoins
  <2>2. SameRowsOf(e, e) /\ SameRowsOf(B, B) /\ SameRowsOf(r, p)
    BY <1>3 DEF SameRowsOf
  <2> QED BY <2>1, <2>2, JoinedSame
<1> HIDE DEF h
<1>6. StoreFits(e, c, FALSE, {}) /\ e.last = h
  <2>1. BatchFits(p, c, p.last) /\ p.last \in Nat \ {0} /\ B.last <= p.last
    BY <1>1, <1>3, <1>4
  <2>2. StoreFits(Flushed(B, p), c, FALSE, {})
    BY <1>1, <1>4, <2>1, ScanFits, Zenon
  <2>3. Flushed(B, p).last = p.last
    BY <2>1 DEF Flushed
  <2> QED BY <1>2, <1>3, <2>2, <2>3
<1>7. Rowed(e)
  BY <1>3, <1>4, <1>5, JoinedRowed
<1>8. B.invokes \cap r.invokes = {}
  <2>1. \A x \in B.invokes : x.h <= n
    BY <1>4 DEF StoreFits, Behind
  <2>2. \A x \in r.invokes : x.h = h
    BY <1>3 DEF RowsAt
  <2>3. ~(h <= n)
    BY <1>1
  <2> QED BY <2>1, <2>2, <2>3
<1>9. Tidy(e)
  BY <1>3, <1>4, <1>5, <1>8, JoinedTidy
<1>10. ASSUME NEW s \in e.invalid
       PROVE  \E g \in 1 .. h : \E i \in DOMAIN c[g].txs : Installs(c, g, i, s)
  <2>1. e.invalid = B.invalid \cup r.invalid
    BY <1>5 DEF Joined
  <2>2. h \in 1 .. h /\ \A g \in 1 .. n : g \in 1 .. h
    BY <1>1
  <2>3. CASE s \in B.invalid
    BY <1>4, <2>2, <2>3
  <2>4. CASE s \in r.invalid
    BY <1>3, <2>2, <2>4
  <2> QED BY <2>1, <2>3, <2>4
<1>11. Sound(e, c, h)
  BY <1>6, <1>7, <1>9, <1>10 DEF Sound
<1> QED BY <1>5, <1>11 DEF e, B, r, h

\* What a scan builds is sound at every height.
LEMMA BuiltSound ==
  ASSUME NEW c, ChainOf(c), NEW n \in 0 .. Len(c)
  PROVE  Sound(Built(c, n), c, n)
<1> DEFINE C == {m \in 0 .. Len(c) : ~Sound(Built(c, m), c, m)}
<1>1. Len(c) \in Nat
  BY ChainFacts
<1>2. ASSUME C # {} PROVE FALSE
  <2>1. PICK m \in C : \A l \in C : m <= l
    <3>1. C \in SUBSET Nat
      BY <1>1
    <3> HIDE DEF C
    <3> QED BY <1>2, <3>1, LeastNumber
  <2>2. m # 0
    BY BuiltNext, NothingSound
  <2> DEFINE l == m - 1
  <2>3. l \in 0 .. Len(c) /\ l \in Nat /\ l + 1 = m /\ l + 1 <= Len(c) /\ ~(m <= l)
    BY <1>1, <2>2
  <2>4. Sound(Built(c, l), c, l)
    BY <2>1, <2>3
  <2> HIDE DEF l
  <2>5. Sound(Built(c, l + 1), c, l + 1)
    BY <2>3, <2>4, BuiltJoins
  <2> QED BY <2>3, <2>5
<1> QED BY <1>2

LEMMA BuiltGrows ==
  ASSUME NEW c, ChainOf(c), NEW n \in Nat, n + 1 <= Len(c)
  PROVE  Joined(Built(c, n + 1), Built(c, n), BlockAdds(c, n + 1))
<1>1. n \in 0 .. Len(c)
  BY ChainFacts
<1> QED BY <1>1, BuiltSound, BuiltJoins

-----------------------------------------------------------------------------
(* What a scan builds, and what it has built some blocks before: the rows  *)
(* of the blocks between them are above the one and make up the other.     *)

RowsAbove(b, low) ==
  /\ \A k \in DOMAIN b.heights : k[2] > low
  /\ \A r \in b.invokes \cup b.normTx : r.h > low
  /\ \A k \in DOMAIN b.installs : k[1] > low
  /\ \A k \in DOMAIN b.scvars : k[2] > low
  /\ \A k \in DOMAIN b.hashes : k > low

\* Rows of blocks of c above height low.
Adds(b, c, low) ==
  /\ Rowed(b) /\ RowsAbove(b, low) /\ RowTypes(b) /\ OwnersAgree(b) /\ OwnersInstalled(b, c)
  /\ DOMAIN b.codes \subseteq DOMAIN b.owners

LEMMA NothingAdds ==
  ASSUME NEW c, NEW low PROVE Adds(EmptyBatch, c, low)
<1> DEFINE b == EmptyBatch
<1>1. Rowed(b) /\ Rowless(b)
  BY EmptyRows
<1>2. RowTypes(b) /\ OwnersAgree(b) /\ OwnersInstalled(b, c)
  BY EmptyBatchFits DEF BatchFits
<1> HIDE DEF b
<1>3. RowsAbove(b, low) /\ DOMAIN b.codes \subseteq DOMAIN b.owners
  BY <1>1 DEF Rowless, RowsAbove
<1>4. Adds(b, c, low)
  BY <1>1, <1>2, <1>3 DEF Adds
<1> QED BY <1>4 DEF b

LEMMA AddsMore ==
  ASSUME NEW c, ChainOf(c), NEW low \in Nat, NEW b, Adds(b, c, low),
         NEW h \in DOMAIN c, h > low, NEW e, e = Flushed(b, BlockAdds(c, h))
  PROVE  Joined(e, b, BlockAdds(c, h)) /\ Adds(e, c, low)
<1> DEFINE r == BlockAdds(c, h)
<1>1. BatchFits(r, c, h)
  BY BlockAlone DEF BlockAdds, BlockRows
<1>2. Rowed(r) /\ Tidy(r) /\ RowsAt(r, h)
  BY BlockAlone
<1>3. e = Flushed(b, r)
  OBVIOUS
<1> HIDE DEF r
<1>4. Joined(e, b, r)
  BY <1>3, FlushedJoins
<1>5. Rowed(e)
  BY <1>2, <1>4, JoinedRowed DEF Adds
<1>6. RowTypes(e) /\ OwnersAgree(e) /\ OwnersInstalled(e, c)
  <2>1. OneInstall(c) /\ RowTypes(b) /\ OwnersAgree(b) /\ OwnersInstalled(b, c)
    BY DEF ChainOf, Adds
  <2>2. RowTypes(r) /\ OwnersAgree(r) /\ OwnersInstalled(r, c)
    BY <1>1 DEF BatchFits
  <2> QED BY <1>3, <2>1, <2>2, FlushedRows
<1>7. DOMAIN e.codes \subseteq DOMAIN e.owners
  <2>1. e.owners = r.owners ++ b.owners /\ e.codes = r.codes ++ b.codes
    BY <1>4 DEF Joined
  <2>2. /\ DOMAIN e.owners = DOMAIN r.owners \cup DOMAIN b.owners
        /\ DOMAIN e.codes = DOMAIN r.codes \cup DOMAIN b.codes
    BY <2>1, JoinDomain
  <2> QED BY <1>2, <2>2 DEF Tidy, Adds
<1>8. RowsAbove(e, low)
  <2>1. /\ DOMAIN e.heights = DOMAIN b.heights \cup DOMAIN r.heights
        /\ DOMAIN e.installs = DOMAIN b.installs \cup DOMAIN r.installs
        /\ DOMAIN e.scvars = DOMAIN b.scvars \cup DOMAIN r.scvars
        /\ DOMAIN e.hashes = DOMAIN b.hashes \cup DOMAIN r.hashes
    BY <1>4 DEF Joined, AddedTo, ++
  <2>2. e.invokes \cup e.normTx = (b.invokes \cup b.normTx) \cup (r.invokes \cup r.normTx)
    BY <1>4 DEF Joined
  <2>3. RowsAbove(b, low)
    BY DEF Adds
  <2> QED BY <1>2, <2>1, <2>2, <2>3 DEF RowsAt, RowsAbove
<1> QED BY <1>4, <1>5, <1>6, <1>7, <1>8 DEF Adds, r

LEMMA BuiltAbove ==
  ASSUME NEW c, ChainOf(c), NEW n \in 0 .. Len(c), NEW m \in 0 .. n
  PROVE  \E b : Joined(Built(c, n), Built(c, m), b) /\ Adds(b, c, m)
<1> DEFINE Fine(l) == \E b : Joined(Built(c, l), Built(c, m), b) /\ Adds(b, c, m)
           C == {l \in m .. n : ~Fine(l)}
<1>1. Len(c) \in Nat /\ DOMAIN c = 1 .. Len(c) /\ m \in Nat /\ n \in Nat /\ m \in 0 .. Len(c)
  BY ChainFacts
<1>2. Rowed(Built(c, m))
  BY <1>1, BuiltSound DEF Sound
<1>3. Fine(m)
  <2>1. Joined(Built(c, m), Built(c, m), EmptyBatch)
    BY <1>2, EmptyRows, JoinsNothing
  <2> QED BY <2>1, NothingAdds
<1>4. ASSUME NEW l \in m .. n, l + 1 \in m .. n, Fine(l) PROVE Fine(l + 1)
  <2> DEFINE h == l + 1
             B == Built(c, l)
             e == Built(c, h)
             r == BlockAdds(c, h)
  <2>1. h \in DOMAIN c /\ h > m /\ l \in Nat
    BY <1>1, <1>4
  <2>2. PICK b : Joined(B, Built(c, m), b) /\ Adds(b, c, m)
    BY <1>4
  <2>3. Joined(e, B, r)
    BY <1>1, <2>1, BuiltGrows
  <2>4. Rowed(r)
    BY <2>1, BlockAlone
  <2> HIDE DEF h, B, e
  <2>5. PICK z : z = Flushed(b, r)
    OBVIOUS
  <2>6. Joined(z, b, r) /\ Adds(z, c, m)
    BY <1>1, <2>1, <2>2, <2>5, AddsMore
  <2> HIDE DEF r
  <2>7. Rowed(b)
    BY <2>2 DEF Adds
  <2>8. Joined(e, Built(c, m), z)
    BY <1>2, <2>2, <2>3, <2>4, <2>6, <2>7, JoinedAgain
  <2> QED BY <2>6, <2>8 DEF e, h
<1> HIDE DEF Fine
<1>5. ASSUME C # {} PROVE FALSE
  <2>1. PICK l \in C : \A k \in C : l <= k
    <3>1. C \in SUBSET Nat
      BY <1>1
    <3> HIDE DEF C
    <3> QED BY <1>5, <3>1, LeastNumber
  <2>2. l # m
    BY <1>3
  <2> DEFINE k == l - 1
  <2>3. k \in m .. n /\ k + 1 = l /\ ~(l <= k)
    BY <1>1, <2>2
  <2>4. Fine(k)
    BY <2>1, <2>3
  <2> HIDE DEF k
  <2> QED BY <1>4, <2>3, <2>4
<1>6. n \in m .. n
  BY <1>1
<1> QED BY <1>5, <1>6 DEF Fine

LEMMA JoinRestricts ==
  ASSUME NEW f, NEW g, NEW e, JoinTo(e, g, f), NEW S \in SUBSET DOMAIN e,
         DOMAIN f \subseteq S, DOMAIN g \cap S = {}
  PROVE  RestrictTo(f, e, S)
BY DEF JoinTo, RestrictTo

\* a is what is left of b when the blocks above m have not been.
Trimmed(a, b, m) ==
  LET gone == InstalledAbove(b, m)
  IN  /\ RestrictTo(a.owners, b.owners, DOMAIN b.owners \ gone)
      /\ RestrictTo(a.codes, b.codes, DOMAIN b.codes \ gone)
      /\ a.ownerScids = {k \in b.ownerScids : k[2] \notin gone}
      /\ RestrictTo(a.heights, b.heights, {k \in DOMAIN b.heights : k[2] <= m})
      /\ RestrictTo(a.scvars, b.scvars, {k \in DOMAIN b.scvars : k[2] <= m})
      /\ RestrictTo(a.hashes, b.hashes, {k \in DOMAIN b.hashes : k <= m})
      /\ RestrictTo(a.installs, b.installs, {k \in DOMAIN b.installs : k[1] <= m})
      /\ a.normTx = {r \in b.normTx : r.h <= m} /\ a.invokes = {r \in b.invokes : r.h <= m}
      /\ a.invalid \subseteq b.invalid \ gone

\* What the shorter scan builds is the longer one's rows without the blocks above.
LEMMA BuiltTrims ==
  ASSUME NEW c, ChainOf(c), NEW n \in 0 .. Len(c), NEW m \in 0 .. n
  PROVE  Trimmed(Built(c, m), Built(c, n), m)
<1> DEFINE a == Built(c, m)
           b == Built(c, n)
           gone == InstalledAbove(b, m)
<1>1. PICK r : Joined(b, a, r) /\ Adds(r, c, m)
  BY BuiltAbove
<1>2. m \in Nat /\ m \in 0 .. Len(c) /\ OneInstall(c) /\ DOMAIN c = 1 .. Len(c) /\ Len(c) \in Nat
  BY ChainFacts DEF ChainOf
<1>3. Sound(a, c, m)
  BY <1>2, BuiltSound
<1> HIDE DEF a, b
<1>4. /\ \A k \in DOMAIN a.heights : k[2] <= m
      /\ \A x \in a.normTx : x.h <= m
      /\ \A k \in DOMAIN a.installs : k[1] <= m
      /\ \A k \in DOMAIN a.scvars : k[2] <= m
      /\ \A x \in a.invokes : x.h <= m
      /\ \A h \in DOMAIN a.hashes : h <= m
  BY <1>3, Zenon DEF Sound, StoreFits, Behind
<1>5. RowsAbove(r, m) /\ RowTypes(r) /\ OwnersAgree(r) /\ OwnersInstalled(r, c)
      /\ DOMAIN r.codes \subseteq DOMAIN r.owners
  BY <1>1 DEF Adds
<1>6. RowTypes(a) /\ OwnersAgree(a) /\ OwnersInstalled(a, c)
      /\ DOMAIN a.codes \subseteq DOMAIN a.owners
  BY <1>3 DEF Sound, StoreFits, Tidy
<1>7. /\ JoinTo(b.owners, r.owners, a.owners) /\ JoinTo(b.scvars, r.scvars, a.scvars)
      /\ JoinTo(b.hashes, r.hashes, a.hashes) /\ JoinTo(b.installs, r.installs, a.installs)
      /\ JoinTo(b.codes, r.codes, a.codes)
  BY <1>1, JoinIs DEF Joined
<1>8. \E g : JoinTo(b.heights, g, a.heights) /\ DOMAIN g = DOMAIN r.heights
  <2> DEFINE g == [k \in DOMAIN r.heights |-> r.heights[k] + Get(a.heights, k, 0)]
  <2>1. b.heights = g ++ a.heights
    BY <1>1 DEF Joined, AddedTo
  <2>2. DOMAIN g = DOMAIN r.heights
    OBVIOUS
  <2> HIDE DEF g
  <2>3. JoinTo(b.heights, g, a.heights)
    BY <2>1, JoinIs
  <2> QED BY <2>2, <2>3
<1>9. gone = {k[2] : k \in DOMAIN r.installs}
  <2>1. DOMAIN b.installs = DOMAIN r.installs \cup DOMAIN a.installs
    BY <1>7 DEF JoinTo
  <2>2. \A k \in DOMAIN r.installs : k[1] > m
    BY <1>5 DEF RowsAbove
  <2>3. \A k \in DOMAIN r.installs : k[1] \in Nat
    BY <1>5, StoreAssumed DEF RowTypes
  <2>4. \A k \in DOMAIN a.installs : k[1] \in Nat /\ ~(k[1] > m)
    BY <1>2, <1>4, <1>6, StoreAssumed DEF RowTypes
  <2> QED BY <2>1, <2>2, <2>4 DEF InstalledAbove
<1> HIDE DEF gone
<1>10. DOMAIN r.owners \subseteq gone
  BY <1>5, <1>9 DEF OwnersInstalled
<1>11. ASSUME NEW g \in 1 .. m, NEW s, NEW i, Installs(c, g, i, s) PROVE s \notin gone
  <2> SUFFICES ASSUME s \in gone PROVE FALSE
    OBVIOUS
  <2>1. PICK k \in DOMAIN r.installs : k[2] = s
    BY <1>9
  <2>2. PICK j : Installs(c, k[1], j, s)
    BY <1>5, <2>1 DEF OwnersInstalled
  <2>3. k[1] > m /\ g <= m
    BY <1>5, <2>1 DEF RowsAbove
  <2>4. g = k[1]
    BY <1>2, <1>11, <2>2, Zenon DEF OneInstall, Installs
  <2> QED BY <1>2, <2>3, <2>4
<1>12. DOMAIN a.owners \cap gone = {}
  <2> SUFFICES ASSUME NEW s \in DOMAIN a.owners PROVE s \notin gone
    OBVIOUS
  <2>1. PICK k \in DOMAIN a.installs : k[2] = s
    BY <1>6 DEF OwnersInstalled
  <2>2. PICK j : Installs(c, k[1], j, s)
    BY <1>6, <2>1 DEF OwnersInstalled
  <2>3. k[1] \in 1 .. m
    BY <1>2, <1>4, <1>6, <2>1, StoreAssumed DEF RowTypes
  <2> QED BY <1>11, <2>2, <2>3
<1>13. a.invalid \cap gone = {}
  BY <1>3, <1>11 DEF Sound
<1>14. RestrictTo(a.owners, b.owners, DOMAIN b.owners \ gone)
  BY <1>7, <1>10, <1>12 DEF JoinTo, RestrictTo
<1>15. RestrictTo(a.codes, b.codes, DOMAIN b.codes \ gone)
  <2>1. DOMAIN a.codes \cap gone = {} /\ DOMAIN r.codes \subseteq gone
    BY <1>5, <1>6, <1>10, <1>12
  <2> QED BY <1>7, <2>1 DEF JoinTo, RestrictTo
<1>16. a.ownerScids = {k \in b.ownerScids : k[2] \notin gone}
  <2>1. b.ownerScids = a.ownerScids \cup r.ownerScids
    BY <1>1 DEF Joined
  <2>2. \A k \in a.ownerScids : k[2] \notin gone
    <3> SUFFICES ASSUME NEW k \in a.ownerScids PROVE k[2] \notin gone
      OBVIOUS
    <3>1. k \in Addrs \X Scids /\ k = <<k[1], k[2]>>
      BY <1>6 DEF RowTypes
    <3>2. k[2] \in DOMAIN a.owners
      BY <1>6, <3>1 DEF OwnersAgree
    <3> QED BY <1>12, <3>2
  <2>3. \A k \in r.ownerScids : k[2] \in gone
    <3> SUFFICES ASSUME NEW k \in r.ownerScids PROVE k[2] \in gone
      OBVIOUS
    <3>1. k \in Addrs \X Scids /\ k = <<k[1], k[2]>>
      BY <1>5 DEF RowTypes
    <3>2. k[2] \in DOMAIN r.owners
      BY <1>5, <3>1 DEF OwnersAgree
    <3> QED BY <1>10, <3>2
  <2> QED BY <2>1, <2>2, <2>3
<1>17. RestrictTo(a.heights, b.heights, {k \in DOMAIN b.heights : k[2] <= m})
  <2>1. \A k \in DOMAIN r.heights : ~(k[2] <= m)
    BY <1>2, <1>5, StoreAssumed DEF RowsAbove, RowTypes
  <2> QED BY <1>4, <1>8, <2>1 DEF JoinTo, RestrictTo
<1>18. RestrictTo(a.scvars, b.scvars, {k \in DOMAIN b.scvars : k[2] <= m})
  <2>1. \A k \in DOMAIN r.scvars : ~(k[2] <= m)
    BY <1>2, <1>5, StoreAssumed DEF RowsAbove, RowTypes
  <2> QED BY <1>4, <1>7, <2>1 DEF JoinTo, RestrictTo
<1>19. RestrictTo(a.installs, b.installs, {k \in DOMAIN b.installs : k[1] <= m})
  <2>1. \A k \in DOMAIN r.installs : ~(k[1] <= m)
    BY <1>2, <1>5, StoreAssumed DEF RowsAbove, RowTypes
  <2> QED BY <1>4, <1>7, <2>1 DEF JoinTo, RestrictTo
<1>20. RestrictTo(a.hashes, b.hashes, {k \in DOMAIN b.hashes : k <= m})
  <2>1. \A k \in DOMAIN r.hashes : ~(k <= m)
    BY <1>2, <1>5, StoreAssumed DEF RowsAbove, RowTypes
  <2> QED BY <1>4, <1>7, <2>1 DEF JoinTo, RestrictTo
<1>21. /\ a.normTx = {x \in b.normTx : x.h <= m} /\ a.invokes = {x \in b.invokes : x.h <= m}
  <2>1. \A x \in r.invokes \cup r.normTx : ~(x.h <= m)
    BY <1>2, <1>5, StoreAssumed DEF RowsAbove, RowTypes
  <2>2. b.normTx = a.normTx \cup r.normTx /\ b.invokes = a.invokes \cup r.invokes
    BY <1>1 DEF Joined
  <2> QED BY <1>4, <2>1, <2>2
<1>22. a.invalid \subseteq b.invalid \ gone
  BY <1>1, <1>13 DEF Joined
<1>23. Trimmed(a, b, m)
  BY <1>14, <1>15, <1>16, <1>17, <1>18, <1>19, <1>20, <1>21, <1>22 DEF Trimmed, gone
<1> QED BY <1>23 DEF a, b

-----------------------------------------------------------------------------
(* What the store is, and what a scan of its blocks would have built.      *)

SameAt(f, g, k) == /\ k \in DOMAIN f <=> k \in DOMAIN g
                   /\ k \in DOMAIN f => f[k] = g[k]

\* The store d has the rows of b, but for the snapshots of S, the edges of the
\* contracts of drifted, and what a reset keeps or a truncation does not count back.
Matches(d, b, S, drifted, reset, cuts) ==
  /\ d.owners = b.owners /\ d.ownerScids = b.ownerScids /\ d.heights = b.heights
  /\ d.normTx = b.normTx /\ d.installs = b.installs /\ d.codes = b.codes
  /\ b.invalid \subseteq d.invalid
  /\ \A k : k \notin S => SameAt(d.scvars, b.scvars, k)
  /\ \A k : k[2] \notin drifted => SameAt(d.addrScids, b.addrScids, k)
  /\ cuts = 0 => d.counts = b.counts
  /\ IF reset THEN b.invokes \subseteq d.invokes
     ELSE d.invokes = b.invokes /\ d.hashes = b.hashes

LEMMA SameJoins ==
  ASSUME NEW f, NEW g, NEW k, SameAt(f, g, k), NEW r
  PROVE  SameAt(r ++ f, r ++ g, k)
<1> DEFINE e == r ++ f
           a == r ++ g
<1>1. JoinTo(e, r, f) /\ JoinTo(a, r, g)
  BY JoinIs
<1> HIDE DEF e, a
<1>2. SameAt(e, a, k)
  BY <1>1 DEF JoinTo, SameAt
<1> QED BY <1>2 DEF e, a

LEMMA SameMerges ==
  ASSUME NEW f, NEW g, NEW k, SameAt(f, g, k), NEW r
  PROVE  SameAt(MergeInto(f, r), MergeInto(g, r), k)
<1> DEFINE e == MergeInto(f, r)
           a == MergeInto(g, r)
<1>1. /\ DOMAIN e = DOMAIN f \cup DOMAIN r
      /\ \A x \in DOMAIN r : e[x] = IF x \in DOMAIN f THEN Merged(f[x], r[x]) ELSE r[x]
      /\ \A x \in DOMAIN f \ DOMAIN r : e[x] = f[x]
  BY MergeIs
<1>2. /\ DOMAIN a = DOMAIN g \cup DOMAIN r
      /\ \A x \in DOMAIN r : a[x] = IF x \in DOMAIN g THEN Merged(g[x], r[x]) ELSE r[x]
      /\ \A x \in DOMAIN g \ DOMAIN r : a[x] = g[x]
  BY MergeIs
<1> HIDE DEF e, a
<1>3. SameAt(e, a, k)
  BY <1>1, <1>2 DEF SameAt
<1> QED BY <1>3 DEF e, a

\* The same rows joined to both leave both the same.
LEMMA MatchJoins ==
  ASSUME NEW d, NEW b, NEW S, NEW drifted, NEW reset, NEW cuts,
         Matches(d, b, S, drifted, reset, cuts),
         NEW r, NEW e, Joined(e, d, r), NEW a, Joined(a, b, r)
  PROVE  Matches(e, a, S, drifted, reset, cuts)
<1>1. /\ e.owners = a.owners /\ e.ownerScids = a.ownerScids /\ e.heights = a.heights
      /\ e.normTx = a.normTx /\ e.installs = a.installs /\ e.codes = a.codes
  BY DEF Matches, Joined
<1>2. a.invalid \subseteq e.invalid
  BY DEF Matches, Joined
<1>3. ASSUME NEW k, k \notin S PROVE SameAt(e.scvars, a.scvars, k)
  <2>1. SameAt(d.scvars, b.scvars, k)
    BY <1>3 DEF Matches
  <2>2. e.scvars = r.scvars ++ d.scvars /\ a.scvars = r.scvars ++ b.scvars
    BY DEF Joined
  <2> QED BY <2>1, <2>2, SameJoins
<1>4. ASSUME NEW k, k[2] \notin drifted PROVE SameAt(e.addrScids, a.addrScids, k)
  <2>1. SameAt(d.addrScids, b.addrScids, k)
    BY <1>4 DEF Matches
  <2>2. /\ e.addrScids = MergeInto(d.addrScids, r.addrScids)
        /\ a.addrScids = MergeInto(b.addrScids, r.addrScids)
    BY DEF Joined
  <2> QED BY <2>1, <2>2, SameMerges
<1>5. cuts = 0 => e.counts = a.counts
  BY DEF Matches, Joined
<1>6. IF reset THEN a.invokes \subseteq e.invokes
      ELSE e.invokes = a.invokes /\ e.hashes = a.hashes
  BY DEF Matches, Joined
<1> QED BY <1>1, <1>2, <1>3, <1>4, <1>5, <1>6, Zenon DEF Matches

\* A refresh adds snapshots, and no row of the scan besides.
LEMMA MatchRefresh ==
  ASSUME NEW d, NEW b, Rowed(b), NEW S, NEW drifted, NEW reset, NEW cuts,
         Matches(d, b, S, drifted, reset, cuts),
         NEW T, NEW h, NEW v, NEW e, e = Flushed(d, RefreshBatch(T, h, v))
  PROVE  Matches(e, b, S \cup {<<s, h>> : s \in T}, drifted, reset, cuts)
<1> DEFINE r == RefreshBatch(T, h, v)
           a == Flushed(b, r)
           more == S \cup {<<s, h>> : s \in T}
<1>1. /\ r.owners = EmptyBatch.owners /\ r.ownerScids = EmptyBatch.ownerScids
      /\ r.invokes = EmptyBatch.invokes /\ r.heights = EmptyBatch.heights
      /\ r.normTx = EmptyBatch.normTx /\ r.invalid = EmptyBatch.invalid
      /\ r.counts = EmptyBatch.counts /\ r.hashes = EmptyBatch.hashes
      /\ r.installs = EmptyBatch.installs /\ r.codes = EmptyBatch.codes
      /\ r.addrScids = EmptyBatch.addrScids
      /\ DOMAIN r.scvars = T \X {h}
  BY DEF RefreshBatch, EmptyBatch
<1>2. Joined(a, b, r) /\ Joined(e, d, r)
  BY FlushedJoins
<1> HIDE DEF a, r
<1>3. Joined(b, b, EmptyBatch)
  BY EmptyRows, JoinsNothing
<1>4. /\ a.owners = b.owners /\ a.ownerScids = b.ownerScids /\ a.heights = b.heights
      /\ a.normTx = b.normTx /\ a.installs = b.installs /\ a.codes = b.codes
      /\ a.invalid = b.invalid /\ a.counts = b.counts /\ a.addrScids = b.addrScids
      /\ a.invokes = b.invokes /\ a.hashes = b.hashes
  BY <1>1, <1>2, <1>3 DEF Joined
<1>5. Matches(e, a, S, drifted, reset, cuts)
  BY <1>2, MatchJoins
<1>6. ASSUME NEW k, k \notin more PROVE SameAt(e.scvars, b.scvars, k)
  <2>1. SameAt(e.scvars, a.scvars, k)
    BY <1>5, <1>6 DEF Matches
  <2> DEFINE f == b.scvars
             g == r.scvars
             x == a.scvars
  <2>2. k \notin DOMAIN g
    BY <1>1, <1>6
  <2>3. x = g ++ f
    BY <1>2 DEF Joined
  <2> HIDE DEF f, g, x
  <2>4. JoinTo(x, g, f)
    BY <2>3, JoinIs
  <2>5. SameAt(x, f, k)
    BY <2>2, <2>4 DEF JoinTo, SameAt
  <2> QED BY <2>1, <2>5 DEF SameAt, f, x
<1> HIDE DEF more
<1>7. Matches(e, b, more, drifted, reset, cuts)
  BY <1>4, <1>5, <1>6, Zenon DEF Matches
<1> QED BY <1>7 DEF more

\* A reset leaves no row of the scan but hashes and invocations.
LEMMA MatchReset ==
  ASSUME NEW d, NEW cuts, cuts # 0
  PROVE  Matches(ResetDB(d), EmptyDB, {}, {}, TRUE, cuts)
<1> DEFINE e == ResetDB(d)
<1>1. /\ e.owners = EmptyDB.owners /\ e.ownerScids = EmptyDB.ownerScids
      /\ e.heights = EmptyDB.heights /\ e.normTx = EmptyDB.normTx
      /\ e.installs = EmptyDB.installs /\ e.codes = EmptyDB.codes
      /\ e.invalid = EmptyDB.invalid /\ e.scvars = EmptyDB.scvars
      /\ e.addrScids = EmptyDB.addrScids
  BY DEF ResetDB, EmptyDB
<1>2. EmptyDB.invokes = {}
  BY DEF EmptyDB
<1> HIDE DEF e
<1>3. \A k : SameAt(e.scvars, EmptyDB.scvars, k) /\ SameAt(e.addrScids, EmptyDB.addrScids, k)
  BY <1>1 DEF SameAt
<1>4. Matches(e, EmptyDB, {}, {}, TRUE, cuts)
  BY <1>1, <1>2, <1>3 DEF Matches
<1> QED BY <1>4 DEF e

-----------------------------------------------------------------------------
(* A truncation leaves what a scan of the blocks that stay builds.         *)

LEMMA SumsOnce ==
  ASSUME NEW calls, \A r \in calls : r.h \in Nat, NEW e \in Touch, Sums(e, calls),
         NEW f \in Touch, Sums(f, calls)
  PROVE  e = f
<1>1. /\ e.first \in Nat /\ e.last \in Nat /\ f.first \in Nat /\ f.last \in Nat
  BY DEF Touch
<1>2. e.count = f.count
  BY DEF Sums
<1>3. e.first = f.first
  <2>1. PICK r \in calls : r.h = e.first
    BY DEF Sums
  <2>2. PICK s \in calls : s.h = f.first
    BY DEF Sums
  <2>3. e.first <= s.h /\ f.first <= r.h
    BY DEF Sums
  <2> QED BY <1>1, <2>1, <2>2, <2>3
<1>4. e.last = f.last
  <2>1. PICK r \in calls : r.h = e.last
    BY DEF Sums
  <2>2. PICK s \in calls : s.h = f.last
    BY DEF Sums
  <2>3. s.h <= e.last /\ r.h <= f.last
    BY DEF Sums
  <2> QED BY <1>1, <2>1, <2>2, <2>3
<1> QED BY <1>2, <1>3, <1>4 DEF Touch

\* An edge that is counted back from invocations alone.
LEMMA EdgeCounted ==
  ASSUME NEW calls, calls # {}, IsFiniteSet(calls), \A r \in calls : r.h \in 0 .. MaxHeight,
         NEW e, e = [first |-> Min({r.h : r \in calls}), last |-> Max({r.h : r \in calls}),
                     count |-> Cardinality(calls)]
  PROVE  e \in Touch /\ Sums(e, calls)
<1> DEFINE H == {r.h : r \in calls}
<1>1. H # {} /\ H \in SUBSET (0 .. MaxHeight) /\ H \in SUBSET Nat
  OBVIOUS
<1>2. e.first = Min(H) /\ e.last = Max(H) /\ e.count = Cardinality(calls)
  OBVIOUS
<1>3. /\ \A n \in H : \E r \in calls : r.h = n
      /\ \A r \in calls : r.h \in H
  OBVIOUS
<1> HIDE DEF H
<1>4. Min(H) \in H /\ \A n \in H : Min(H) <= n
  BY <1>1, MinIs
<1>5. Max(H) \in H /\ \A n \in H : n <= Max(H)
  BY <1>1, MaxIs, StoreAssumed
<1>6. Cardinality(calls) \in Nat
  BY FS_CardinalityType
<1>7. Sums(e, calls)
  BY <1>2, <1>3, <1>4, <1>5 DEF Sums
<1>8. Min(H) \in Nat /\ Max(H) \in Nat
  BY <1>1, <1>4, <1>5
<1>9. e \in Touch
  BY <1>2, <1>6, <1>8 DEF Touch, H
<1> QED BY <1>7, <1>9

\* The rows of b up to height h are those up to m.
UpTo(b, h, m) ==
  /\ \A k \in DOMAIN b.heights : k[2] <= h <=> k[2] <= m
  /\ \A r \in b.invokes \cup b.normTx : r.h <= h <=> r.h <= m
  /\ \A k \in DOMAIN b.installs : (k[1] <= h <=> k[1] <= m) /\ (k[1] > h <=> k[1] > m)
  /\ \A k \in DOMAIN b.scvars : k[2] <= h <=> k[2] <= m
  /\ \A k \in DOMAIN b.hashes : k <= h <=> k <= m
  /\ \A k \in DOMAIN b.heights : ~(k[2] <= h) => k[2] > h
  /\ \A r \in b.invokes : ~(r.h <= h) => r.h > h

LEMMA SoundUpTo ==
  ASSUME NEW b, NEW c, NEW n \in Nat, Sound(b, c, n), NEW h \in Nat
  PROVE  UpTo(b, h, Least(n, h))
<1>1. RowTypes(b) /\ b.last = n /\ Behind(b, FALSE, {})
  BY DEF Sound, StoreFits
<1>2. /\ \A k \in DOMAIN b.heights : k[2] \in Nat /\ k[2] <= n
      /\ \A r \in b.invokes \cup b.normTx : r.h \in Nat /\ r.h <= n
      /\ \A k \in DOMAIN b.installs : k[1] \in Nat /\ k[1] <= n
      /\ \A k \in DOMAIN b.scvars : k[2] \in Nat /\ k[2] <= n
      /\ \A k \in DOMAIN b.hashes : k \in Nat /\ k <= n
  BY <1>1, StoreAssumed DEF RowTypes, Behind
<1>3. \A x \in Nat : x <= n =>
        /\ x <= h <=> x <= Least(n, h)
        /\ x > h <=> x > Least(n, h)
        /\ ~(x <= h) => x > h
  BY DEF Least
<1> QED BY <1>2, <1>3 DEF UpTo

\* The edges of a contract without rings, after a truncation.
LEMMA EdgesCut ==
  ASSUME NEW d, NEW b, NEW a, NEW h \in Nat, NEW m \in Nat, NEW reset,
         RowTypes(d), d.installs = b.installs, d.normTx = b.normTx, d.heights = b.heights,
         IF reset THEN b.invokes \subseteq d.invokes ELSE d.invokes = b.invokes,
         Rowed(a), Rowed(b), Tidy(a), Tidy(b), InvokesCovered(b), RowTypes(a), RowTypes(b),
         UpTo(b, h, m), a.normTx = {r \in b.normTx : r.h <= m},
         a.invokes = {r \in b.invokes : r.h <= m},
         NEW k, SameAt(d.addrScids, b.addrScids, k), k[2] \notin RingScids(d),
         reset => \A r \in d.invokes : r.scid # k[2]
  PROVE  SameAt(AddrScidsCut(d, h), a.addrScids, k)
<1> DEFINE e == AddrScidsCut(d, h)
           A == Affected(d, h)
           calls == CallsOf(a, k)
           left == Survivors(d, h, k)
           f == b.addrScids
           g == a.addrScids
<1>1. /\ k \in DOMAIN e <=> k \in DOMAIN d.addrScids /\ (k[2] \in A => left.heights # {})
      /\ k \in DOMAIN e => e[k] = IF k[2] \notin A THEN d.addrScids[k]
                                  ELSE [first |-> Min(left.heights), last |-> Max(left.heights),
                                        count |-> left.count]
  BY DEF AddrScidsCut
<1>2. /\ k \in DOMAIN d.addrScids <=> k \in DOMAIN f
      /\ k \in DOMAIN d.addrScids => d.addrScids[k] = f[k]
  BY DEF SameAt
<1>3. CASE k \notin Addrs \X Scids
  <2>1. k \notin DOMAIN d.addrScids /\ k \notin DOMAIN g
    BY <1>3 DEF RowTypes
  <2> QED BY <1>1, <2>1 DEF SameAt
<1>4. CASE k \in Addrs \X Scids
  <2>1. k[2] \in Scids /\ k[2] \notin RingScids(b) /\ k[2] \notin RingScids(a)
    BY <1>4 DEF RingScids
  <2>2. k \in Addrs \X (Scids \ RingScids(b)) /\ k \in Addrs \X (Scids \ RingScids(a))
    BY <1>4, <2>1
  <2>3. EdgesSay(a) /\ EdgesSay(b)
    BY DEF Tidy
  <2>4. /\ k \in DOMAIN f <=> CallsOf(b, k) # {}
        /\ k \in DOMAIN f => Sums(f[k], CallsOf(b, k))
    BY <2>2, <2>3 DEF EdgesSay
  <2>5. /\ k \in DOMAIN g <=> calls # {}
        /\ k \in DOMAIN g => Sums(g[k], calls)
    BY <2>2, <2>3 DEF EdgesSay
  <2>6. calls = {r \in CallsOf(b, k) : r.h <= m}
    BY DEF CallsOf
  <2>7. /\ \A r \in CallsOf(b, k) : r \in b.invokes /\ r.sender = k[1] /\ r.scid = k[2]
        /\ \A r \in b.invokes : r.sender = k[1] /\ r.scid = k[2] => r \in CallsOf(b, k)
    BY DEF CallsOf
  <2>8. \A r \in b.invokes : r.h <= h <=> r.h <= m
    BY DEF UpTo
  <2>9. \A r \in b.invokes : r.h \in 0 .. MaxHeight /\ r.h \in Nat
    BY StoreAssumed DEF RowTypes
  <2>10. /\ k \in DOMAIN f => f[k] \in Touch
         /\ k \in DOMAIN g => g[k] \in Touch
    BY DEF Rowed
  <2>11. IsFiniteSet(calls)
    <3>1. IsFiniteSet(a.invokes) /\ calls \subseteq a.invokes
      BY DEF Tidy, CallsOf
    <3> QED BY <3>1, FS_Subset
  <2>12. CASE reset
    <3>1. CallsOf(b, k) = {}
      BY <2>7, <2>12
    <3> QED BY <1>1, <1>2, <2>4, <2>5, <2>6, <3>1 DEF SameAt
  <2>13. CASE ~reset /\ k[2] \notin A
    <3>1. ASSUME NEW r \in CallsOf(b, k) PROVE r.h <= m
      <4>1. r \in b.invokes /\ r.scid = k[2]
        BY <2>7
      <4>2. <<r.scid, r.h>> \in DOMAIN d.heights
        BY <4>1 DEF InvokesCovered
      <4>3. ~(r.h > h)
        BY <2>13, <4>1, <4>2 DEF Affected
      <4> QED BY <2>8, <2>9, <4>1, <4>3
    <3>2. calls = CallsOf(b, k)
      BY <2>6, <3>1
    <3>3. k \in DOMAIN e <=> k \in DOMAIN g
      BY <1>1, <1>2, <2>4, <2>5, <2>13, <3>2
    <3>4. ASSUME k \in DOMAIN e PROVE e[k] = g[k]
      <4>1. e[k] = f[k] /\ k \in DOMAIN f /\ k \in DOMAIN g
        BY <1>1, <1>2, <2>13, <3>3, <3>4
      <4>2. Sums(f[k], calls) /\ Sums(g[k], calls) /\ f[k] \in Touch /\ g[k] \in Touch
        BY <2>4, <2>5, <2>10, <3>2, <4>1
      <4>3. \A r \in calls : r.h \in Nat
        BY <2>6, <2>7, <2>9
      <4> HIDE DEF f, g, calls
      <4>4. f[k] = g[k]
        BY <4>2, <4>3, SumsOnce
      <4> QED BY <4>1, <4>4
    <3> QED BY <3>3, <3>4 DEF SameAt
  <2>14. CASE ~reset /\ k[2] \in A
    <3>1. {r \in d.invokes : r.sender = k[1] /\ r.scid = k[2] /\ r.h <= h} = calls
      BY <2>6, <2>7, <2>8, <2>14
    <3>2. {r \in d.normTx : r.addr = k[1] /\ r.scid = k[2] /\ r.h <= h} = {}
      BY DEF RingScids
    <3> DEFINE deploys == {x \in DOMAIN d.installs :
                             d.installs[x] = k[1] /\ x[2] = k[2] /\ x[1] <= h}
    <3>3. left = IF calls = {} THEN [heights |-> {x[1] : x \in deploys},
                                     count |-> Cardinality(deploys)]
                 ELSE [heights |-> {r.h : r \in calls} \cup {r.h : r \in {}},
                       count |-> Cardinality(calls) + Cardinality({})]
      BY <3>1, <3>2 DEF Survivors
    <3>4. CASE calls = {}
      <4>1. ASSUME NEW x \in deploys PROVE FALSE
        <5>1. x \in DOMAIN b.installs /\ b.installs[x] = k[1] /\ x[2] = k[2] /\ x[1] <= h
          OBVIOUS
        <5>2. PICK r \in b.invokes : r.scid = x[2] /\ r.sender = b.installs[x] /\ r.h = x[1]
          BY <5>1 DEF Tidy
        <5>3. r \in CallsOf(b, k) /\ r.h <= m
          BY <2>7, <2>8, <5>1, <5>2
        <5> QED BY <2>6, <3>4, <5>3
      <4>2. left.heights = {}
        BY <3>3, <3>4, <4>1
      <4> QED BY <1>1, <2>5, <2>14, <3>4, <4>2 DEF SameAt
    <3>5. CASE calls # {}
      <4>1. Cardinality({}) = 0 /\ Cardinality(calls) \in Nat
        BY <2>11, FS_EmptySet, FS_CardinalityType
      <4>2. left.heights = {r.h : r \in calls} /\ left.count = Cardinality(calls)
        BY <3>3, <3>5, <4>1
      <4>3. left.heights # {}
        BY <3>5, <4>2
      <4>4. k \in DOMAIN e /\ k \in DOMAIN g
        BY <1>1, <1>2, <2>4, <2>5, <2>6, <3>5, <4>3
      <4>5. e[k] = [first |-> Min({r.h : r \in calls}), last |-> Max({r.h : r \in calls}),
                    count |-> Cardinality(calls)]
        BY <1>1, <2>14, <4>2, <4>4
      <4>6. \A r \in calls : r.h \in 0 .. MaxHeight /\ r.h \in Nat
        BY <2>6, <2>7, <2>9
      <4>7. Sums(g[k], calls) /\ g[k] \in Touch
        BY <2>5, <2>10, <4>4
      <4> HIDE DEF e, g, calls
      <4>8. e[k] \in Touch /\ Sums(e[k], calls)
        BY <2>11, <3>5, <4>5, <4>6, EdgeCounted
      <4>9. e[k] = g[k]
        BY <4>6, <4>7, <4>8, SumsOnce
      <4> QED BY <4>4, <4>9 DEF SameAt, e, g
    <3> QED BY <3>4, <3>5
  <2> QED BY <2>12, <2>13, <2>14
<1> QED BY <1>3, <1>4

\* What TruncateToHeight cannot count back: edges that normal transactions touched,
\* and after a reset those whose invocations it kept.
Drifted(d, drifted, reset) ==
  drifted \cup {r.scid : r \in d.normTx}
          \cup (IF reset THEN {r.scid : r \in d.invokes} ELSE {})

LEMMA RestrictSame ==
  ASSUME NEW f, NEW S, NEW g, IsFn(g), RestrictTo(g, f, S)
  PROVE  Restrict(f, S) = g
<1> DEFINE e == Restrict(f, S)
<1>1. RestrictTo(e, f, S) /\ IsFn(e)
  BY RestrictIs DEF IsFn, Restrict
<1> HIDE DEF e
<1>2. DOMAIN e = DOMAIN g /\ \A k \in DOMAIN e : e[k] = g[k]
  BY <1>1 DEF RestrictTo
<1>3. e = g
  BY <1>1, <1>2, SameFn
<1> QED BY <1>3 DEF e

\* The store after TruncateToHeight is what the scan of the blocks that stay builds.
LEMMA CutMatches ==
  ASSUME NEW c, NEW d, NEW S, NEW drifted, NEW reset, NEW cuts, StoreFits(d, c, reset, S),
         NEW b, Matches(d, b, S, drifted, reset, cuts), Sound(b, c, d.last),
         NEW h \in Nat, NEW m, m = Least(d.last, h), NEW a, Sound(a, c, m), Trimmed(a, b, m),
         NEW more, more # 0
  PROVE  Matches(Cut(d, h), a, {k \in S : k[2] <= h}, Drifted(d, drifted, reset), reset, more)
<1> DEFINE e == Cut(d, h)
           gone == InstalledAbove(d, h)
           A == Affected(d, h)
           less == {k \in S : k[2] <= h}
           drift2 == Drifted(d, drifted, reset)
<1>1. /\ d.owners = b.owners /\ d.ownerScids = b.ownerScids /\ d.heights = b.heights
      /\ d.normTx = b.normTx /\ d.installs = b.installs /\ d.codes = b.codes
      /\ b.invalid \subseteq d.invalid
      /\ \A k : k \notin S => SameAt(d.scvars, b.scvars, k)
      /\ \A k : k[2] \notin drifted => SameAt(d.addrScids, b.addrScids, k)
      /\ IF reset THEN b.invokes \subseteq d.invokes
         ELSE d.invokes = b.invokes /\ d.hashes = b.hashes
  BY DEF Matches
<1>2. DOMAIN d = DOMAIN EmptyDB /\ RowTypes(d) /\ d.last \in Nat
  BY DEF StoreFits
<1>3. UpTo(b, h, m) /\ m \in Nat /\ m <= h
  BY <1>2, SoundUpTo DEF Least
<1>4. /\ Rowed(a) /\ Rowed(b) /\ Tidy(a) /\ Tidy(b) /\ RowTypes(a) /\ RowTypes(b)
      /\ InvokesCovered(b)
  BY DEF Sound, StoreFits
<1>5. gone = InstalledAbove(b, m)
  BY <1>1, <1>3 DEF InstalledAbove, UpTo
<1>6. /\ RestrictTo(a.owners, b.owners, DOMAIN b.owners \ gone)
      /\ RestrictTo(a.codes, b.codes, DOMAIN b.codes \ gone)
      /\ a.ownerScids = {k \in b.ownerScids : k[2] \notin gone}
      /\ RestrictTo(a.heights, b.heights, {k \in DOMAIN b.heights : k[2] <= m})
      /\ RestrictTo(a.scvars, b.scvars, {k \in DOMAIN b.scvars : k[2] <= m})
      /\ RestrictTo(a.hashes, b.hashes, {k \in DOMAIN b.hashes : k <= m})
      /\ RestrictTo(a.installs, b.installs, {k \in DOMAIN b.installs : k[1] <= m})
      /\ a.normTx = {r \in b.normTx : r.h <= m} /\ a.invokes = {r \in b.invokes : r.h <= m}
      /\ a.invalid \subseteq b.invalid \ gone
  BY <1>5 DEF Trimmed
<1>7. /\ e.owners = Restrict(d.owners, DOMAIN d.owners \ gone)
      /\ e.ownerScids = {k \in d.ownerScids : k[2] \notin gone}
      /\ e.invokes = {r \in d.invokes : r.scid \in A => r.h <= h}
      /\ e.scvars = Restrict(d.scvars, KeptVars(d, h))
      /\ e.heights = Restrict(d.heights, {k \in DOMAIN d.heights : k[1] \in A => k[2] <= h})
      /\ e.normTx = {r \in d.normTx : r.h <= h}
      /\ e.hashes = Restrict(d.hashes, {k \in DOMAIN d.hashes : k <= h})
      /\ e.installs = Restrict(d.installs, {k \in DOMAIN d.installs : k[1] <= h})
      /\ e.addrScids = AddrScidsCut(d, h)
  <2>1. CutOf(e, d, h)
    BY <1>2, CutFields
  <2> QED BY <2>1 DEF CutOf, Without
<1>8. e.codes = Restrict(d.codes, DOMAIN d.codes \ gone) /\ e.invalid = d.invalid \ gone
  BY <1>2 DEF Cut, EmptyDB, Without
<1>9. \A k \in DOMAIN d.heights : k[2] > h => k[1] \in A
  BY DEF Affected
<1>10. a.normTx = {r \in d.normTx : r.h <= h}
  BY <1>1, <1>3, <1>6 DEF UpTo
<1> HIDE DEF e, gone, A, less, drift2
<1>11. e.owners = a.owners /\ e.codes = a.codes
  <2>1. /\ IsFn(a.owners) /\ RestrictTo(a.owners, d.owners, DOMAIN d.owners \ gone)
        /\ IsFn(a.codes) /\ RestrictTo(a.codes, d.codes, DOMAIN d.codes \ gone)
    BY <1>1, <1>4, <1>6 DEF Rowed
  <2> QED BY <1>7, <1>8, <2>1, RestrictSame
<1>12. e.heights = a.heights
  <2> DEFINE T == {k \in DOMAIN d.heights : k[1] \in A => k[2] <= h}
  <2>1. T = {k \in DOMAIN b.heights : k[2] <= m}
    BY <1>1, <1>3, <1>9 DEF UpTo
  <2>2. IsFn(a.heights) /\ RestrictTo(a.heights, d.heights, T)
    BY <1>1, <1>4, <1>6, <2>1 DEF Rowed
  <2>3. e.heights = Restrict(d.heights, T)
    BY <1>7
  <2> QED BY <2>2, <2>3, RestrictSame
<1>13. e.installs = a.installs
  <2> DEFINE T == {k \in DOMAIN d.installs : k[1] <= h}
  <2>1. T = {k \in DOMAIN b.installs : k[1] <= m}
    BY <1>1, <1>3 DEF UpTo
  <2>2. IsFn(a.installs) /\ RestrictTo(a.installs, d.installs, T)
    BY <1>1, <1>4, <1>6, <2>1 DEF Rowed
  <2>3. e.installs = Restrict(d.installs, T)
    BY <1>7
  <2> QED BY <2>2, <2>3, RestrictSame
<1>14. e.ownerScids = a.ownerScids /\ e.normTx = a.normTx /\ a.invalid \subseteq e.invalid
  BY <1>1, <1>6, <1>7, <1>8, <1>10
<1>15. ASSUME NEW k, k \notin less PROVE SameAt(e.scvars, a.scvars, k)
  <2> DEFINE f == e.scvars
             g == a.scvars
             old == d.scvars
             scan == b.scvars
  <2>1. /\ DOMAIN f = {x \in DOMAIN old : x[2] <= h} /\ \A x \in DOMAIN f : f[x] = old[x]
    BY <1>7 DEF Restrict, KeptVars
  <2>2. /\ DOMAIN g = {x \in DOMAIN scan : x[2] <= m} /\ \A x \in DOMAIN g : g[x] = scan[x]
    BY <1>6 DEF RestrictTo
  <2>3. \A x \in DOMAIN scan : x[2] <= h <=> x[2] <= m
    BY <1>3 DEF UpTo
  <2>4. k \notin S => SameAt(old, scan, k)
    BY <1>1
  <2>5. k \in S => ~(k[2] <= h)
    BY <1>15 DEF less
  <2> HIDE DEF f, g, old, scan
  <2>6. SameAt(f, g, k)
    BY <2>1, <2>2, <2>3, <2>4, <2>5 DEF SameAt
  <2> QED BY <2>6 DEF f, g
<1>16. ASSUME NEW k, k[2] \notin drift2 PROVE SameAt(e.addrScids, a.addrScids, k)
  <2>1. /\ k[2] \notin drifted /\ k[2] \notin RingScids(d)
        /\ reset => \A r \in d.invokes : r.scid # k[2]
    BY <1>16 DEF drift2, Drifted, RingScids
  <2>2. SameAt(d.addrScids, b.addrScids, k)
    BY <1>1, <2>1
  <2>3. IF reset THEN b.invokes \subseteq d.invokes ELSE d.invokes = b.invokes
    BY <1>1
  <2>4. d.installs = b.installs /\ d.normTx = b.normTx /\ d.heights = b.heights
    BY <1>1
  <2>5. a.normTx = {r \in b.normTx : r.h <= m} /\ a.invokes = {r \in b.invokes : r.h <= m}
    BY <1>6
  <2>6. SameAt(AddrScidsCut(d, h), a.addrScids, k)
    BY <1>2, <1>3, <1>4, <2>1, <2>2, <2>3, <2>4, <2>5, EdgesCut
  <2> QED BY <1>7, <2>6
<1>17. IF reset THEN a.invokes \subseteq e.invokes
       ELSE e.invokes = a.invokes /\ e.hashes = a.hashes
  <2>1. \A r \in b.invokes : r.h <= h <=> r.h <= m
    BY <1>3 DEF UpTo
  <2>2. CASE reset
    BY <1>1, <1>6, <1>7, <2>1, <2>2
  <2>3. CASE ~reset
    <3>1. \A r \in b.invokes : r.scid \in A \/ r.h <= h
      <4>1. ASSUME NEW r \in b.invokes, ~(r.h <= h) PROVE r.scid \in A
        <5>1. <<r.scid, r.h>> \in DOMAIN d.heights /\ r.h > h
          BY <1>1, <1>3, <1>4, <4>1 DEF InvokesCovered, UpTo
        <5> QED BY <1>9, <5>1
      <4> QED BY <4>1
    <3>2. e.invokes = a.invokes
      BY <1>1, <1>6, <1>7, <2>1, <2>3, <3>1
    <3> DEFINE T == {k \in DOMAIN d.hashes : k <= h}
    <3>3. T = {k \in DOMAIN b.hashes : k <= m}
      BY <1>1, <1>3, <2>3 DEF UpTo
    <3>4. IsFn(a.hashes) /\ RestrictTo(a.hashes, d.hashes, T)
      BY <1>1, <1>4, <1>6, <2>3, <3>3 DEF Rowed
    <3>5. e.hashes = Restrict(d.hashes, T)
      BY <1>7
    <3>6. e.hashes = a.hashes
      BY <3>4, <3>5, RestrictSame
    <3> QED BY <2>3, <3>2, <3>6
  <2> QED BY <2>2, <2>3
<1>18. Matches(e, a, less, drift2, reset, more)
  BY <1>11, <1>12, <1>13, <1>14, <1>15, <1>16, <1>17, Zenon DEF Matches
<1> QED BY <1>18 DEF e, less, drift2

-----------------------------------------------------------------------------
(* The invariant: the store is what a scan builds, and each batch on its   *)
(* way what the scan builds from one height to the next.                   *)

\* The rows of b are what the blocks of c above low, up to top, add.
Bridges(b, c, low, top) == Rowed(b) /\ Joined(Built(c, top), Built(c, low), b)

\* The height from which the batch after the first i of the queue starts.
StartOf(q, low, i) == IF i = 0 THEN low ELSE q[i].last

\* Each queued batch takes up where the one before it ends.
QueueBuilds(q, c, low) ==
  \A i \in DOMAIN q : Bridges(q[i], c, StartOf(q, low, i - 1), q[i].last)

\* The batch being filled takes up where the queue ends, and goes to the tip.
BatchBuilds(b, q, c, low) == Bridges(b, c, StartOf(q, low, Len(q)), Len(c))

\* The store and all the batches behind it.
Builds(d, b, q, c, S, drifted, reset, cuts) ==
  /\ Matches(d, Built(c, d.last), S, drifted, reset, cuts)
  /\ QueueBuilds(q, c, d.last) /\ BatchBuilds(b, q, c, d.last)

PrefixInv == Builds(db, batch, queue, chain, extra, drift, wasReset, forks)

\* What a batch bridges depends on no variable but the mode.
LEMMA BridgesLater ==
  ASSUME UNCHANGED turbo, NEW b, NEW c, NEW low, NEW top
  PROVE  Bridges(b, c, low, top)' = Bridges(b, c, low, top)
<1>1. Built(c, top)' = Built(c, top) /\ Built(c, low)' = Built(c, low)
  BY BuiltLater
<1> QED BY <1>1 DEF Bridges

LEMMA BuildsLater ==
  ASSUME UNCHANGED turbo, NEW d, NEW b, NEW q, NEW c, NEW S, NEW drifted, NEW reset, NEW cuts
  PROVE  Builds(d, b, q, c, S, drifted, reset, cuts)'
           = Builds(d, b, q, c, S, drifted, reset, cuts)
<1>1. \A x, n : Built(x, n)' = Built(x, n)
  BY BuiltLater
<1>2. \A x, y, l, t : Bridges(x, y, l, t)' = Bridges(x, y, l, t)
  BY BridgesLater
<1>3. Matches(d, Built(c, d.last), S, drifted, reset, cuts)'
        = Matches(d, Built(c, d.last), S, drifted, reset, cuts)
  BY <1>1 DEF Matches
<1> QED BY <1>2, <1>3 DEF Builds, QueueBuilds, BatchBuilds

LEMMA PrefixNext ==
  ASSUME UNCHANGED turbo,
         Builds(db', batch', queue', chain', extra', drift', wasReset', forks')
  PROVE  PrefixInv'
BY BuildsLater DEF PrefixInv

\* A longer or a shorter chain builds the same as far as they agree.
LEMMA BridgesOn ==
  ASSUME NEW c, ChainOf(c), NEW e, ChainOf(e), NEW n \in Nat, n <= Len(c), n <= Len(e),
         SameBlocks(c, e, n), NEW low \in 0 .. n, NEW top \in 0 .. n, NEW b,
         Bridges(b, c, low, top)
  PROVE  Bridges(b, e, low, top)
<1>1. Len(c) \in Nat /\ Len(e) \in Nat
  BY ChainFacts
<1>2. ASSUME NEW m \in 0 .. n PROVE Built(c, m) = Built(e, m)
  <2>1. m \in Nat /\ m <= Len(c) /\ m <= Len(e) /\ SameBlocks(c, e, m)
    BY <1>1 DEF SameBlocks
  <2> QED BY <2>1, BuiltSame
<1> QED BY <1>2 DEF Bridges

\* An empty batch bridges a height to itself.
LEMMA NothingBridges ==
  ASSUME NEW c, ChainOf(c), NEW n \in 0 .. Len(c)
  PROVE  Bridges(EmptyBatch, c, n, n)
<1>1. Rowed(Built(c, n))
  BY BuiltSound DEF Sound
<1>2. Joined(Built(c, n), Built(c, n), EmptyBatch)
  BY <1>1, EmptyRows, JoinsNothing
<1> QED BY <1>2, EmptyRows DEF Bridges

\* The heights the batches go from and to.
LEMMA QueueHeights ==
  ASSUME NEW c, ChainOf(c), NEW q, NEW low \in 0 .. Len(c), QueueFits(q, c, low)
  PROVE  /\ Len(q) \in Nat /\ DOMAIN q = 1 .. Len(q)
         /\ \A i \in DOMAIN q : q[i].last \in 1 .. Len(c) /\ i - 1 \in 0 .. Len(q)
         /\ \A i \in 0 .. Len(q) : StartOf(q, low, i) \in 0 .. Len(c)
<1>1. Len(c) \in Nat
  BY ChainFacts
<1>2. q \in Seq(Range(q)) /\ \A i \in DOMAIN q : q[i].last \in 1 .. Len(c)
  BY DEF QueueFits
<1>3. Len(q) \in Nat /\ DOMAIN q = 1 .. Len(q)
  BY <1>2
<1>4. ASSUME NEW i \in 0 .. Len(q) PROVE StartOf(q, low, i) \in 0 .. Len(c)
  <2>1. CASE i = 0
    BY <2>1 DEF StartOf
  <2>2. CASE i # 0
    <3>1. q[i].last \in 1 .. Len(c)
      BY <1>2, <1>3, <2>2
    <3> QED BY <1>1, <2>2, <3>1 DEF StartOf
  <2> QED BY <2>1, <2>2
<1> QED BY <1>2, <1>3, <1>4

LEMMA BlockBuilds ==
  ASSUME Lines, PrefixInv, ProcessBlock PROVE PrefixInv'
<1> DEFINE n == Len(chain)
           low == StartOf(queue, db.last, Len(queue))
<1>1. /\ ChainLine /\ ChainOf(chain) /\ n \in Nat /\ db.last \in 0 .. n
      /\ QueueFits(queue, chain, db.last) /\ DOMAIN batch = DOMAIN EmptyBatch
  BY LinesHold, ChainFacts DEF Lines, Scanned, Kept, Sent, BatchReady, BatchFits
<1>2. PICK block : Grows(block)
  BY <1>1, BlockGrows
<1>3. PICK e : e = chain'
  OBVIOUS
<1>4. /\ ChainOf(e) /\ Len(e) = n + 1 /\ e[n + 1] = block
      /\ batch' = Processed(batch, db, n + 1, block).b
      /\ \A h \in DOMAIN chain : e[h] = chain[h]
  BY <1>2, <1>3, Zenon DEF Grows
<1>5. UNCHANGED <<turbo, db, queue, forks, extra, drift, wasReset>>
  BY DEF ProcessBlock
<1>6. /\ DOMAIN chain = 1 .. n /\ DOMAIN e = 1 .. (n + 1) /\ Len(queue) \in Nat
      /\ Len(queue) \in 0 .. Len(queue) /\ low \in 0 .. n
      /\ \A i \in DOMAIN queue : queue[i].last \in 0 .. n /\ StartOf(queue, db.last, i - 1) \in 0 .. n
  <2>1. /\ Len(queue) \in Nat
        /\ \A i \in DOMAIN queue : queue[i].last \in 1 .. n /\ i - 1 \in 0 .. Len(queue)
        /\ \A i \in 0 .. Len(queue) : StartOf(queue, db.last, i) \in 0 .. n
    BY <1>1, QueueHeights
  <2>2. DOMAIN chain = 1 .. n /\ DOMAIN e = 1 .. (n + 1)
    BY <1>1, <1>4, ChainFacts
  <2> QED BY <1>1, <2>1, <2>2
<1> HIDE DEF low
<1>7. n \in Nat /\ n <= Len(chain) /\ n <= Len(e) /\ SameBlocks(chain, e, n)
  BY <1>1, <1>4, <1>6 DEF SameBlocks
<1>8. Builds(db, batch, queue, chain, extra, drift, wasReset, forks)
  BY DEF PrefixInv
<1>9. Matches(db, Built(e, db.last), extra, drift, wasReset, forks)
  <2>1. db.last \in Nat /\ db.last <= Len(chain) /\ db.last <= Len(e)
        /\ SameBlocks(chain, e, db.last)
    BY <1>1, <1>4, <1>7 DEF SameBlocks
  <2>2. Built(chain, db.last) = Built(e, db.last)
    BY <1>1, <1>4, <2>1, BuiltSame
  <2> QED BY <1>8, <2>2 DEF Builds
<1>10. QueueBuilds(queue, e, db.last)
  <2>1. ASSUME NEW i \in DOMAIN queue
        PROVE  Bridges(queue[i], e, StartOf(queue, db.last, i - 1), queue[i].last)
    <3>1. Bridges(queue[i], chain, StartOf(queue, db.last, i - 1), queue[i].last)
      BY <1>8 DEF Builds, QueueBuilds
    <3> QED BY <1>1, <1>4, <1>6, <1>7, <3>1, BridgesOn
  <2> QED BY <2>1 DEF QueueBuilds
<1>11. Bridges(batch', e, low, n + 1)
  <2> DEFINE r == BlockAdds(e, n + 1)
             g == n + 1
             x == batch'
  <2>1. g \in DOMAIN e /\ g \in Nat /\ n \in 0 .. n
    BY <1>1, <1>6
  <2>2. Bridges(batch, e, low, n)
    <3>1. Bridges(batch, chain, low, n)
      BY <1>8 DEF Builds, BatchBuilds, low
    <3> QED BY <1>1, <1>4, <1>6, <1>7, <2>1, <3>1, BridgesOn
  <2>3. Joined(Built(e, g), Built(e, n), r)
    BY <1>1, <1>4, BuiltGrows
  <2>4. r = BlockRows(g, block) /\ x = Processed(batch, db, g, block).b
    BY <1>4 DEF BlockAdds
  <2>5. Readable(block)
    BY <1>4, <2>1, ChainReadable
  <2>6. Rowed(batch) /\ Joined(Built(e, n), Built(e, low), batch)
    BY <2>2 DEF Bridges
  <2>7. Rowed(Built(e, low))
    <3>1. low \in 0 .. Len(e)
      BY <1>1, <1>4, <1>6
    <3> QED BY <1>4, <3>1, BuiltSound DEF Sound
  <2> HIDE DEF r, g
  <2>8. Joined(x, batch, r) /\ Rowed(r)
    BY <1>1, <2>1, <2>4, <2>5, <2>6, BlockJoins
  <2> HIDE DEF x
  <2>9. Rowed(x)
    BY <2>6, <2>8, JoinedRowed
  <2>10. Joined(Built(e, g), Built(e, low), x)
    BY <2>3, <2>6, <2>7, <2>8, JoinedAgain
  <2> QED BY <2>9, <2>10 DEF Bridges, g, x
<1>12. Builds(db, batch', queue, e, extra, drift, wasReset, forks)
  BY <1>4, <1>9, <1>10, <1>11 DEF Builds, BatchBuilds, low
<1> QED BY <1>3, <1>5, <1>12, PrefixNext

LEMMA SendBuilds ==
  ASSUME Lines, PrefixInv, SendBatch PROVE PrefixInv'
<1> DEFINE n == Len(chain)
           q == Append(queue, batch)
           low == db.last
<1>1. /\ ChainOf(chain) /\ n \in Nat /\ low \in 0 .. n /\ QueueFits(queue, chain, low)
      /\ batch.last \in {0, n}
  BY ChainFacts DEF Lines, Scanned, Kept, Sent, BatchReady
<1>2. /\ batch.last > 0 /\ queue' = q /\ batch' = EmptyBatch
      /\ UNCHANGED <<turbo, db, chain, forks, extra, drift, wasReset>>
  BY DEF SendBatch, history
<1>3. batch.last = n
  BY <1>1, <1>2
<1>4. Builds(db, batch, queue, chain, extra, drift, wasReset, forks)
  BY DEF PrefixInv
<1>5. /\ Len(q) = Len(queue) + 1 /\ DOMAIN q = 1 .. (Len(queue) + 1)
      /\ q[Len(queue) + 1] = batch /\ \A i \in 1 .. Len(queue) : q[i] = queue[i]
  <2>1. queue \in Seq(Range(queue) \cup {batch}) /\ batch \in Range(queue) \cup {batch}
    BY <1>1 DEF QueueFits
  <2> QED BY <2>1, Longer
<1>6. Len(queue) \in Nat /\ DOMAIN queue = 1 .. Len(queue)
  BY <1>1, QueueHeights
<1> HIDE DEF q
<1>7. ASSUME NEW i \in 0 .. Len(queue) PROVE StartOf(q, low, i) = StartOf(queue, low, i)
  BY <1>5, <1>6 DEF StartOf
<1>8. QueueBuilds(q, chain, low)
  <2>1. ASSUME NEW i \in DOMAIN q PROVE Bridges(q[i], chain, StartOf(q, low, i - 1), q[i].last)
    <3>1. CASE i \in DOMAIN queue
      <4>1. i - 1 \in 0 .. Len(queue) /\ q[i] = queue[i]
        BY <1>5, <1>6, <3>1
      <4>2. Bridges(queue[i], chain, StartOf(queue, low, i - 1), queue[i].last)
        BY <1>4, <3>1 DEF Builds, QueueBuilds
      <4> QED BY <1>7, <4>1, <4>2
    <3>2. CASE i = Len(queue) + 1
      <4>1. i - 1 = Len(queue) /\ Len(queue) \in 0 .. Len(queue) /\ q[i] = batch
        BY <1>5, <1>6, <3>2
      <4>2. Bridges(batch, chain, StartOf(queue, low, Len(queue)), n)
        BY <1>4 DEF Builds, BatchBuilds
      <4> QED BY <1>3, <1>7, <4>1, <4>2
    <3> QED BY <1>5, <1>6, <3>1, <3>2
  <2> QED BY <2>1 DEF QueueBuilds
<1>9. StartOf(q, low, Len(q)) = n
  BY <1>3, <1>5, <1>6 DEF StartOf
<1>10. Bridges(EmptyBatch, chain, n, n)
  BY <1>1, NothingBridges
<1>11. Builds(db, EmptyBatch, q, chain, extra, drift, wasReset, forks)
  BY <1>4, <1>8, <1>9, <1>10 DEF Builds, BatchBuilds
<1> QED BY <1>2, <1>11, PrefixNext

LEMMA FlushBuilds ==
  ASSUME Lines, PrefixInv, FlushBatch PROVE PrefixInv'
<1> DEFINE q == Tail(queue)
           first == queue[1]
           d == Flushed(db, first)
<1>1. ChainOf(chain) /\ Len(chain) \in Nat /\ db.last \in 0 .. Len(chain)
      /\ QueueFits(queue, chain, db.last)
  BY ChainFacts DEF Lines, Scanned, Kept, Sent
<1>2. /\ queue # <<>> /\ queue' = q /\ db' = Flushed(db, Head(queue))
      /\ UNCHANGED <<turbo, batch, chain, forks, extra, drift, wasReset>>
  BY DEF FlushBatch, history
<1>3. /\ Head(queue) = first /\ Len(q) = Len(queue) - 1 /\ Len(queue) > 0
      /\ DOMAIN q = 1 .. (Len(queue) - 1)
      /\ \A i \in 1 .. (Len(queue) - 1) : q[i] = queue[i + 1]
  <2>1. queue \in Seq(Range(queue))
    BY <1>1 DEF QueueFits
  <2> QED BY <1>2, <2>1, Behead
<1>4. /\ Len(queue) \in Nat /\ DOMAIN queue = 1 .. Len(queue)
      /\ \A i \in DOMAIN queue : queue[i].last \in 1 .. Len(chain)
  BY <1>1, QueueHeights
<1>5. 1 \in DOMAIN queue /\ first.last \in 1 .. Len(chain) /\ first.last > 0
  BY <1>3, <1>4
<1>6. db' = d /\ d.last = first.last
  BY <1>2, <1>3, <1>5 DEF Flushed
<1>7. Builds(db, batch, queue, chain, extra, drift, wasReset, forks)
  BY DEF PrefixInv
<1>8. Matches(d, Built(chain, first.last), extra, drift, wasReset, forks)
  <2>1. Bridges(first, chain, StartOf(queue, db.last, 1 - 1), first.last)
    BY <1>5, <1>7 DEF Builds, QueueBuilds
  <2>2. Joined(Built(chain, first.last), Built(chain, db.last), first)
    BY <2>1 DEF Bridges, StartOf
  <2>3. Joined(d, db, first)
    BY FlushedJoins
  <2>4. Matches(db, Built(chain, db.last), extra, drift, wasReset, forks)
    BY <1>7 DEF Builds
  <2> HIDE DEF d, first
  <2> QED BY <2>2, <2>3, <2>4, MatchJoins
<1> HIDE DEF q, d
<1>9. ASSUME NEW i \in 0 .. Len(q) PROVE StartOf(q, first.last, i) = StartOf(queue, db.last, i + 1)
  BY <1>3, <1>4 DEF StartOf
<1> HIDE DEF first
<1>10. QueueBuilds(q, chain, first.last)
  <2>1. ASSUME NEW i \in DOMAIN q
        PROVE  Bridges(q[i], chain, StartOf(q, first.last, i - 1), q[i].last)
    <3> DEFINE j == i + 1
    <3>1. /\ j \in DOMAIN queue /\ i - 1 \in 0 .. Len(q) /\ (i - 1) + 1 = j - 1
          /\ q[i] = queue[j]
      BY <1>3, <1>4
    <3> HIDE DEF j
    <3>2. Bridges(queue[j], chain, StartOf(queue, db.last, j - 1), queue[j].last)
      BY <1>7, <3>1 DEF Builds, QueueBuilds
    <3>3. StartOf(q, first.last, i - 1) = StartOf(queue, db.last, j - 1)
      BY <1>9, <3>1
    <3> QED BY <3>1, <3>2, <3>3
  <2> QED BY <2>1 DEF QueueBuilds
<1>11. BatchBuilds(batch, q, chain, first.last)
  <2>1. Len(q) \in 0 .. Len(q) /\ Len(q) + 1 = Len(queue)
    BY <1>3, <1>4
  <2>2. StartOf(q, first.last, Len(q)) = StartOf(queue, db.last, Len(queue))
    BY <1>9, <2>1
  <2> QED BY <1>7, <2>2 DEF Builds, BatchBuilds
<1>12. Builds(d, batch, q, chain, extra, drift, wasReset, forks)
  BY <1>6, <1>8, <1>10, <1>11 DEF Builds
<1> QED BY <1>2, <1>6, <1>12, PrefixNext

LEMMA RefreshBuilds ==
  ASSUME Lines, PrefixInv, RefreshBegin \/ RefreshCommit PROVE PrefixInv'
<1>1. Builds(db, batch, queue, chain, extra, drift, wasReset, forks)
  BY DEF PrefixInv
<1>2. CASE RefreshBegin
  <2>1. UNCHANGED <<turbo, db, batch, queue, chain, forks, extra, drift, wasReset>>
    BY <1>2 DEF RefreshBegin, history
  <2> QED BY <1>1, <2>1, PrefixNext
<1>3. CASE RefreshCommit
  <2>1. UNCHANGED <<turbo, batch, queue, chain, forks, drift, wasReset>>
    BY <1>3 DEF RefreshCommit, history
  <2>2. PICK S \in SUBSET refresh.scids :
          /\ db' = Flushed(db, RefreshBatch(S, refresh.height, 2))
          /\ extra' = extra \cup {<<s, refresh.height>> : s \in S}
    BY <1>3 DEF RefreshCommit
  <2>3. db'.last = db.last
    BY <2>2 DEF Flushed, RefreshBatch, EmptyBatch
  <2> DEFINE b == Built(chain, db.last)
  <2>4. Rowed(b)
    <3>1. ChainOf(chain) /\ db.last \in 0 .. Len(chain)
      BY DEF Lines, Scanned, Kept
    <3> QED BY <3>1, BuiltSound DEF Sound
  <2>5. Matches(db, b, extra, drift, wasReset, forks)
    BY <1>1 DEF Builds
  <2> HIDE DEF b
  <2>6. Matches(db', b, extra', drift, wasReset, forks)
    BY <2>2, <2>4, <2>5, MatchRefresh
  <2>7. Builds(db', batch, queue, chain, extra', drift, wasReset, forks)
    BY <1>1, <2>3, <2>6 DEF Builds, b
  <2> QED BY <2>1, <2>7, PrefixNext
<1> QED BY <1>2, <1>3

\* A restart on a store that is what its blocks build.
LEMMA RestartBuilds ==
  ASSUME Lines, NEW d, d.last \in 0 .. Len(chain), Restart(d),
         Matches(d, Built(chain, d.last), extra', drift', wasReset', forks')
  PROVE  PrefixInv'
<1> DEFINE n == d.last
<1>1. /\ ChainOf(chain') /\ Len(chain') = n /\ db' = d /\ queue' = <<>> /\ batch' = EmptyBatch
      /\ \A h \in DOMAIN chain : h <= n => h \in DOMAIN chain' /\ chain'[h] = chain[h]
  BY LinesHold, RestartStep
<1>2. PICK e : e = chain'
  OBVIOUS
<1>3. ChainOf(chain) /\ Len(chain) \in Nat /\ DOMAIN chain = 1 .. Len(chain) /\ turbo' = turbo
  BY ChainFacts DEF Lines, Scanned, Restart
<1>4. Built(chain, n) = Built(e, n)
  <2>1. n \in Nat /\ n <= Len(chain) /\ n <= Len(e) /\ SameBlocks(chain, e, n)
    BY <1>1, <1>2, <1>3 DEF SameBlocks
  <2> QED BY <1>1, <1>2, <1>3, <2>1, BuiltSame
<1>5. QueueBuilds(<<>>, e, n)
  BY DEF QueueBuilds
<1>6. BatchBuilds(EmptyBatch, <<>>, e, n)
  <2>1. n \in 0 .. Len(e)
    BY <1>1, <1>2, <1>3
  <2>2. Bridges(EmptyBatch, e, n, n)
    BY <1>1, <1>2, <2>1, NothingBridges
  <2>3. StartOf(<<>>, n, Len(<<>>)) = n
    BY DEF StartOf
  <2> QED BY <1>1, <1>2, <2>2, <2>3 DEF BatchBuilds
<1>7. Builds(d, EmptyBatch, <<>>, e, extra', drift', wasReset', forks')
  BY <1>4, <1>5, <1>6 DEF Builds
<1> QED BY <1>1, <1>2, <1>3, <1>7, PrefixNext

LEMMA CrashBuilds ==
  ASSUME Lines, PrefixInv, Crash PROVE PrefixInv'
<1>1. Restart(db) /\ UNCHANGED <<forks, extra, drift, wasReset>>
  BY DEF Crash
<1>2. db.last \in 0 .. Len(chain)
  BY DEF Lines, Kept
<1>3. Matches(db, Built(chain, db.last), extra', drift', wasReset', forks')
  BY <1>1 DEF PrefixInv, Builds
<1> QED BY <1>1, <1>2, <1>3, RestartBuilds

LEMMA TruncateBuilds ==
  ASSUME Lines, PrefixInv, TruncateToHeight PROVE PrefixInv'
<1>1. PICK h \in 0 .. MaxHeight : Restart(Cut(db, h)) /\ extra' = {k \in extra : k[2] <= h}
  BY DEF TruncateToHeight
<1>2. /\ wasReset' = wasReset /\ forks' # 0 /\ drift' = Drifted(db, drift, wasReset)
  <2>1. forks \in Nat
    BY DEF Lines, Scanned
  <2> QED BY <2>1 DEF TruncateToHeight, Drifted
<1> DEFINE m == Least(db.last, h)
           b == Built(chain, db.last)
           a == Built(chain, m)
<1>3. /\ ChainOf(chain) /\ db.last \in 0 .. Len(chain) /\ StoreFits(db, chain, wasReset, extra)
      /\ h \in Nat /\ m \in 0 .. db.last /\ m \in 0 .. Len(chain) /\ Len(chain) \in Nat
  <2>1. ChainOf(chain) /\ db.last \in 0 .. Len(chain) /\ StoreFits(db, chain, wasReset, extra)
        /\ h \in Nat /\ Len(chain) \in Nat
    BY ChainFacts, StoreAssumed DEF Lines, Scanned, Kept
  <2> QED BY <2>1 DEF Least
<1>4. Cut(db, h).last = m
  BY <1>3, CutFits
<1>5. Sound(a, chain, m) /\ Sound(b, chain, db.last)
  BY <1>3, BuiltSound
<1>6. Trimmed(a, b, m)
  BY <1>3, BuiltTrims
<1>7. Matches(db, b, extra, drift, wasReset, forks)
  BY DEF PrefixInv, Builds
<1> HIDE DEF a, b
<1>8. m = Least(db.last, h)
  OBVIOUS
<1> HIDE DEF m
<1>9. Matches(Cut(db, h), a, extra', drift', wasReset', forks')
  BY <1>1, <1>2, <1>3, <1>5, <1>6, <1>7, <1>8, CutMatches
<1> QED BY <1>1, <1>3, <1>4, <1>9, RestartBuilds DEF a

LEMMA ResetBuilds ==
  ASSUME Lines, ResetIndex PROVE PrefixInv'
<1>1. /\ Restart(ResetDB(db)) /\ wasReset' = TRUE /\ extra' = {} /\ drift' = {} /\ forks' # 0
  BY DEF ResetIndex, Lines, Scanned
<1>2. ResetDB(db).last = 0
  BY DEF ResetDB, EmptyDB
<1>3. Built(chain, 0) = EmptyDB /\ 0 \in 0 .. Len(chain)
  BY BuiltNext, ChainFacts DEF Lines, Scanned
<1>4. Matches(ResetDB(db), EmptyDB, extra', drift', wasReset', forks')
  BY <1>1, MatchReset
<1> QED BY <1>1, <1>2, <1>3, <1>4, RestartBuilds

\* Every action of the store keeps the prefix and the batches on their way.
LEMMA PrefixStep ==
  ASSUME Lines, PrefixInv, [Next]_vars PROVE PrefixInv'
<1>1. CASE UNCHANGED vars
  <2>1. UNCHANGED <<turbo, db, batch, queue, chain, forks, extra, drift, wasReset>>
    BY <1>1 DEF vars, history
  <2>2. Builds(db', batch', queue', chain', extra', drift', wasReset', forks')
    BY <2>1 DEF PrefixInv
  <2> QED BY <2>1, <2>2, PrefixNext
<1>2. CASE Next
  BY <1>2, BlockBuilds, SendBuilds, FlushBuilds, RefreshBuilds, CrashBuilds, TruncateBuilds,
     ResetBuilds DEF Next
<1> QED BY <1>1, <1>2

\* Nothing is built of an empty chain.
LEMMA PrefixInit ==
  ASSUME Init PROVE PrefixInv
<1>1. /\ db = EmptyDB /\ batch = EmptyBatch /\ queue = <<>> /\ chain = <<>>
      /\ extra = {} /\ drift = {} /\ wasReset = FALSE /\ forks = 0
  BY DEF Init
<1>2. ChainOf(chain) /\ Len(chain) = 0 /\ 0 \in 0 .. Len(chain)
  BY <1>1, LinesInit DEF Lines, Scanned
<1>3. Built(chain, 0) = EmptyDB
  BY <1>2, BuiltNext
<1>4. Matches(EmptyDB, EmptyDB, {}, {}, FALSE, 0)
  <2> DEFINE e == EmptyDB
  <2> HIDE DEF e
  <2>1. Matches(e, e, {}, {}, FALSE, 0)
    BY DEF Matches, SameAt
  <2> QED BY <2>1 DEF e
<1>5. EmptyDB.last = 0
  BY DEF EmptyDB
<1>6. QueueBuilds(<<>>, chain, 0)
  BY DEF QueueBuilds
<1>7. BatchBuilds(EmptyBatch, <<>>, chain, 0)
  <2>1. Bridges(EmptyBatch, chain, 0, 0)
    BY <1>2, NothingBridges
  <2>2. StartOf(<<>>, 0, Len(<<>>)) = 0
    BY DEF StartOf
  <2> QED BY <1>2, <2>1, <2>2 DEF BatchBuilds
<1>8. Builds(EmptyDB, EmptyBatch, <<>>, chain, {}, {}, FALSE, 0)
  BY <1>3, <1>4, <1>5, <1>6, <1>7 DEF Builds
<1> QED BY <1>1, <1>8 DEF PrefixInv

\* The property, bucket by bucket, from the rows and the heights.
LEMMA PrefixAgrees ==
  ASSUME Lines, PrefixInv PROVE PrefixConsistent
<1> DEFINE fresh == Fresh(SubSeq(chain, 1, db.last))
           clean(d) == RestrictDomain(d.addrScids, LAMBDA k : k[2] \notin drift)
<1>1. ChainOf(chain) /\ db.last \in 0 .. Len(chain) /\ StoreFits(db, chain, wasReset, extra)
  BY DEF Lines, Scanned, Kept
<1>2. fresh = Built(chain, db.last)
  BY DEF Built
<1>3. Sound(fresh, chain, db.last)
  BY <1>1, <1>2, BuiltSound
<1>4. Matches(db, fresh, extra, drift, wasReset, forks)
  BY <1>2 DEF PrefixInv, Builds
<1> HIDE DEF fresh
<1>5. NothingAhead
  BY LinesHold DEF StoreLine
<1>6. /\ db.owners = fresh.owners /\ db.ownerScids = fresh.ownerScids
      /\ db.heights = fresh.heights /\ db.normTx = fresh.normTx
      /\ db.installs = fresh.installs /\ db.codes = fresh.codes
      /\ fresh.invalid \subseteq db.invalid /\ (forks = 0 => db.counts = fresh.counts)
      /\ IF wasReset THEN fresh.invokes \subseteq db.invokes
         ELSE db.invokes = fresh.invokes /\ db.hashes = fresh.hashes
  BY <1>4, Zenon DEF Matches
<1>7. GetSCIDCount(db) = GetSCIDCount(fresh)
  <2>1. GetSCIDCount(db) = Cardinality(DOMAIN db.owners)
    BY <1>1 DEF StoreFits
  <2>2. GetSCIDCount(fresh) = Cardinality(DOMAIN fresh.owners)
    BY <1>3 DEF Sound, StoreFits
  <2> QED BY <1>6, <2>1, <2>2
<1>8. Without(db.scvars, extra) = Without(fresh.scvars, extra)
  <2>1. \A k : k \notin extra => SameAt(db.scvars, fresh.scvars, k)
    BY <1>4 DEF Matches
  <2> DEFINE f == db.scvars
             g == fresh.scvars
  <2> HIDE DEF f, g
  <2>2. \A k : k \notin extra => SameAt(f, g, k)
    BY <2>1 DEF f, g
  <2>3. DOMAIN f \ extra = DOMAIN g \ extra /\ \A k \in DOMAIN f \ extra : f[k] = g[k]
    BY <2>2 DEF SameAt
  <2>4. Without(f, extra) = Without(g, extra)
    BY <2>3 DEF Without, Restrict
  <2> QED BY <2>4 DEF f, g
<1>9. clean(db) = clean(fresh)
  <2>1. \A k : k[2] \notin drift => SameAt(db.addrScids, fresh.addrScids, k)
    BY <1>4 DEF Matches
  <2> DEFINE f == db.addrScids
             g == fresh.addrScids
  <2> HIDE DEF f, g
  <2>2. \A k : k[2] \notin drift => SameAt(f, g, k)
    BY <2>1 DEF f, g
  <2>3. /\ {k \in DOMAIN f : k[2] \notin drift} = {k \in DOMAIN g : k[2] \notin drift}
        /\ \A k \in {x \in DOMAIN f : x[2] \notin drift} : f[k] = g[k]
    BY <2>2 DEF SameAt
  <2>4. [k \in {x \in DOMAIN f : x[2] \notin drift} |-> f[k]]
          = [k \in {x \in DOMAIN g : x[2] \notin drift} |-> g[k]]
    BY <2>3
  <2> QED BY <2>4 DEF RestrictDomain, Restrict, f, g
<1> QED BY <1>5, <1>6, <1>7, <1>8, <1>9, Zenon DEF PrefixConsistent, fresh

\* However the batches were cut, wherever the process ended, and whatever was
\* truncated and scanned again, the store is the one a block-by-block scan of its
\* prefix of the chain builds (FlushBatch, TruncateToHeight, ResetIndex), but for
\* what the property itself leaves to the replay.
THEOREM PrefixesAgree == Spec => []PrefixConsistent
<1>1. Init => Lines /\ PrefixInv
  BY LinesInit, PrefixInit
<1>2. Lines /\ PrefixInv /\ [Next]_vars => Lines' /\ PrefixInv'
  BY LinesStep, PrefixStep
<1>3. Lines /\ PrefixInv => PrefixConsistent
  BY PrefixAgrees
<1> QED BY <1>1, <1>2, <1>3, PTL DEF Spec

=============================================================================
