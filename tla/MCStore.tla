------------------------------ MODULE MCStore ------------------------------
(* The index and those who read it, in three parts that TLC checks side by *)
(* side: the store under the scan, the refresher, crashes and truncation;  *)
(* a client that pages through a listing while the index is written; and   *)
(* the caches of TELA bodies.  The initial state chooses the part that     *)
(* moves.                                                                  *)
EXTENDS MCIndexStore

CONSTANTS
  Contracts, Registry, DefLimit, MaxLimit, Asked, MaxWrites,
  Keys, Requests, MaxBytes, InboxSize, MaxVersion, MaxCrashes

VARIABLES
  part,       \* "store", "listing" or "content"
  height, owner, inst, row, touch, catalog, other, page, client,
  stored, toPublish, inbox, lost, inv, ring, items, size, byScid, disk, req,
  missed, crashes

Listing == INSTANCE ReadAPI
Content == INSTANCE ContentCache

ASSUME ListingAssumption == Listing!ReadAssumption
ASSUME ContentAssumption == Content!CacheAssumption

\* The requests for a body differ in nothing but their names.
RequestSymmetry == Permutations(Requests)

\* Two paths of one application.
Doc(s, p) == [scid |-> s, path |-> p]
MCKeys == {Doc("d1", "a"), Doc("d1", "b")}

listingVars == <<height, owner, inst, row, touch, catalog, other, page, client>>
contentVars == <<stored, toPublish, inbox, lost, inv, ring, items, size, byScid,
                 disk, req, missed, crashes>>
allVars == <<part, vars, listingVars, contentVars>>

\* A part that does not move has one initial state.
StoreInit ==
  /\ part \in {"store", "listing", "content"}
  /\ Init /\ Listing!Init /\ Content!Init
  /\ part # "store" => turbo
  /\ part # "listing" => client.kind = "listsc" /\ client.asked = 0

StoreNext ==
  \/ part = "store"   /\ Next         /\ UNCHANGED <<part, listingVars, contentVars>>
  \/ part = "listing" /\ Listing!Next /\ UNCHANGED <<part, vars, contentVars>>
  \/ part = "content" /\ Content!Next /\ UNCHANGED <<part, vars, listingVars>>

StoreSpec == StoreInit /\ [][StoreNext]_allVars

-----------------------------------------------------------------------------
\* The inductive invariant of the part that moves; the others stand still.
Inductive ==
  /\ part = "store"   => StoreInv
  /\ part = "listing" => Listing!ReadInv
  /\ part = "content" => Content!CacheInv

\* A client that pages to the end was given all that was listed (ReadAPI).
PagesCover == Listing!PagesCover

\* The structures of the cache of TELA bodies agree (ContentCache).
CacheAccounted == Content!CacheAccounted

\* A stale body has an excuse (ContentCache).
StaleExcused == Content!StaleExcused
=============================================================================
