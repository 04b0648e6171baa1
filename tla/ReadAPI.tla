------------------------------ MODULE ReadAPI ------------------------------
(* What a client sees that pages through a listing of the index while the  *)
(* indexer goes on writing: the listing handlers of HyperGnomon's          *)
(* WebSocket server (api/ws.go) and HTTP server (api/http.go), and of the  *)
(* application's Gnomon-compatible server (internal/indexer/gnomon_ws.go). *)
(* A page is a request of its own, and most handlers read the index in     *)
(* more than one transaction.                                              *)
(*                                                                         *)
(* Contracts are numbers, ordered as their identifiers are.  All are of    *)
(* one class, an asset class, and of one deployer; their other fields are  *)
(* left out.  A write advances the height by one: the clock of the model.  *)
EXTENDS Naturals, FiniteSets, SequencesExt

CONSTANTS
  Contracts,    \* the contracts that may be indexed: a set of numbers
  Registry,     \* those of them in the on-chain registry
  DefLimit,     \* listSCDefaultLimit, the page size when none is asked for
  MaxLimit,     \* listSCMaxLimit
  Asked,        \* limits a client may ask for; 0 for none
  MaxWrites     \* bound on the number of commits

\* What is assumed of them.
ReadAssumption ==
  /\ Contracts \subseteq Nat /\ IsFiniteSet(Contracts) /\ Registry \subseteq Contracts
  /\ DefLimit \in Nat \ {0} /\ MaxLimit \in Nat /\ DefLimit <= MaxLimit
  /\ Asked \subseteq Nat /\ MaxWrites \in Nat

VARIABLES
  height,    \* number of commits so far
  owner,     \* contracts with an owner row
  inst,      \* height of the install row of a contract, 0 for none
  row,       \* height of its class row, 0 for none
  touch,     \* height of the last touch of the address asked for, 0 for none
  catalog,   \* the asset catalog in the cache, and whether it has not expired
  other,     \* catalog another request is building, or NoBuild
  page,      \* the request of the client: its step and what it has read
  client     \* the client: what it lists, from where, and what it was given

readVars == <<height, owner, inst, row, touch, catalog, other, page, client>>

Kinds == {"listsc", "listsc_class", "gnomon_listsc", "byclass", "gnomon_byclass",
          "byheight", "assets", "created", "touched"}
ClassKinds == {"listsc_class", "gnomon_listsc", "byclass", "gnomon_byclass"}
SingleKinds == {"byclass", "gnomon_byclass", "byheight"}   \* a limit, and no offset

NoBuild == [list |-> <<>>, at |-> 0, busy |-> FALSE]
NoPage  == [step |-> "idle", list |-> <<>>, at |-> 0, owned |-> {}]

Listed(f) == {s \in Contracts : f[s] > 0}

\* When the address last touched a contract that has a class.
Touches == [s \in Contracts |-> IF row[s] > 0 THEN touch[s] ELSE 0]

-----------------------------------------------------------------------------
(* Orders.  GetClassInstalls collects a map and sorts it by height with an  *)
(* unstable sort: rows of one height come in any order.  The other          *)
(* listings break the tie by the identifier.                                *)

ClassOrders ==
  {q \in SetToSeqs(Listed(row)) : \A i, j \in DOMAIN q : i < j => row[q[i]] <= row[q[j]]}

\* The members of a set, each at the place that those before it leave.
InOrder(S, before(_, _)) ==
  [i \in 1..Cardinality(S) |->
     CHOOSE s \in S : Cardinality({t \in S : before(t, s)}) = i - 1]

ByName(S) == InOrder(S, <)

Ascending(f) ==
  InOrder(Listed(f), LAMBDA a, b : f[a] < f[b] \/ (f[a] = f[b] /\ a < b))

Descending(f) ==
  InOrder(Listed(f), LAMBDA a, b : f[a] > f[b] \/ (f[a] = f[b] /\ a < b))

\* sliceWindow: the positions of a page, cut to the list.
Window(total, offset, limit) ==
  {i \in (offset + 1)..(offset + limit) : i <= total}

\* clampListLimit.
Clamp(asked) == IF asked = 0 THEN DefLimit ELSE IF asked > MaxLimit THEN MaxLimit ELSE asked

\* The Gnomon-compatible server gives its default to one who asks too much.
GnomonClamp(asked) == IF asked = 0 \/ asked > MaxLimit THEN DefLimit ELSE asked

\* listsc_byclass: no limit when none is asked for.
ClassLimit(asked) == IF asked = 0 THEN Cardinality(Contracts) ELSE Clamp(asked)

PageSize ==
  CASE client.kind = "byclass" -> ClassLimit(client.asked)
    [] client.kind \in {"gnomon_listsc", "gnomon_byclass"} -> GnomonClamp(client.asked)
    [] OTHER -> Clamp(client.asked)

-----------------------------------------------------------------------------
Init ==
  /\ height = 1
  /\ owner = {}
  /\ inst = [s \in Contracts |-> 0]
  /\ row = [s \in Contracts |-> 0]
  /\ touch = [s \in Contracts |-> 0]
  /\ catalog = [list |-> <<>>, at |-> 0, fresh |-> FALSE]
  /\ other = NoBuild
  /\ page = NoPage
  /\ \E k \in Kinds, a \in Asked :
       client = [kind |-> k, asked |-> a, offset |-> 0, seen |-> {}, promised |-> {},
                 begun |-> FALSE, done |-> FALSE, moved |-> 0, touched |-> {},
                 tied |-> FALSE, first |-> 0, served |-> 0, regressed |-> FALSE]

(* The indexer's commits, as far as the listings see them.                  *)

Commit == height < MaxWrites /\ height' = height + 1

\* A block with an install: owner, install, class and touch commit together.
IndexInstall(s) ==
  /\ Commit
  /\ inst[s] = 0
  /\ owner' = owner \union {s}
  /\ inst' = [inst EXCEPT ![s] = height']
  /\ row' = [row EXCEPT ![s] = height']
  /\ touch' = [touch EXCEPT ![s] = height']
  /\ UNCHANGED <<catalog, other, page, client>>

\* FastSync imports the registry: owners and installs, no class yet.
ImportRegistry ==
  /\ Commit
  /\ ~Registry \subseteq owner
  /\ owner' = owner \union Registry
  /\ inst' = [s \in Contracts |-> IF s \in Registry THEN 1 ELSE inst[s]]
  /\ UNCHANGED <<row, touch, catalog, other, page, client>>

\* The probe, or a refresh, writes the class rows of many contracts in one
\* batch, all at the chain's height; a row a contract had moves there.
ClassifyAll(S) ==
  /\ Commit
  /\ S # {} /\ S \subseteq owner
  /\ row' = [s \in Contracts |-> IF s \in S THEN height' ELSE row[s]]
  /\ client' = [client EXCEPT !.moved = IF \E s \in S : row[s] > 0 THEN height' ELSE @]
  /\ UNCHANGED <<owner, inst, touch, catalog, other, page>>

\* A block in which the address invokes a contract.
IndexInvoke(s) ==
  /\ Commit
  /\ s \in owner
  /\ touch' = [touch EXCEPT ![s] = height']
  /\ client' = [client EXCEPT !.touched = IF client.begun THEN @ \union {s} ELSE @]
  /\ UNCHANGED <<owner, inst, row, catalog, other, page>>

-----------------------------------------------------------------------------
(* A page.                                                                  *)

\* What a correct answer must bring in the end: everything listed when the
\* first page is read; of a listing without an offset, what is among the
\* oldest, however ties are broken.
Promised(q, f) ==
  IF client.kind \in SingleKinds
  THEN {s \in ToSet(q) : Cardinality({t \in ToSet(q) : f[t] <= f[s]}) <= PageSize}
  ELSE ToSet(q)

\* The page of list q read at time at, its rows with the owners in os.
Reply(q, at, os, f) ==
  LET given == {q[i] : i \in Window(Len(q), client.offset, PageSize)} \intersect os
  IN /\ client' = [client EXCEPT
           !.seen = @ \union given,
           !.promised = IF client.begun THEN @ ELSE Promised(q, f) \intersect os,
           !.first = IF client.begun THEN @ ELSE at,
           !.begun = TRUE,
           !.offset = @ + PageSize,
           !.done = client.kind \in SingleKinds \/ client.offset + PageSize >= Len(q),
           !.regressed = @ \/ at < client.served,
           !.served = at]
     /\ page' = NoPage

Ask(k) == client.kind = k /\ ~client.done /\ page.step = "idle"

\* Mutant: the owners are listed as the map gives them.
ListSCUnsorted ==
  /\ Ask("listsc")
  /\ \E q \in SetToSeqs(owner) : Reply(q, height, owner, inst)
  /\ UNCHANGED <<height, owner, inst, row, touch, catalog, other>>

\* handleListSC without a class: one read of the owners, sorted.
ListSC ==
  /\ Ask("listsc")
  /\ Reply(ByName(owner), height, owner, inst)
  /\ UNCHANGED <<height, owner, inst, row, touch, catalog, other>>

\* The first transaction of a listing by class: the rows, in one of the orders.
ReadClassRows ==
  /\ \E q \in ClassOrders : page' = [step |-> "owners", list |-> q, at |-> height, owned |-> {}]
  /\ client' = [client EXCEPT
       !.tied = @ \/ \E s, t \in Listed(row) : s # t /\ row[s] = row[t],
       !.promised = IF client.begun THEN @ ELSE Promised(page'.list, row),
       !.first = IF client.begun THEN @ ELSE height,
       !.begun = TRUE]
  /\ UNCHANGED <<height, owner, inst, row, touch, catalog, other>>

\* handleListSC with a class.
ListSCClass == Ask("listsc_class") /\ ReadClassRows

\* handleListSC of the Gnomon-compatible server.
GnomonListSC == Ask("gnomon_listsc") /\ ReadClassRows

\* handleListSCByClass.
ListSCByClass == Ask("byclass") /\ ReadClassRows

\* handleListSCByClass of the Gnomon-compatible server.
GnomonListSCByClass == Ask("gnomon_byclass") /\ ReadClassRows

\* The second transaction: the owners of the rows of the page.
ReadOwners ==
  /\ page.step = "owners"
  /\ Reply(page.list, page.at, owner, row)
  /\ UNCHANGED <<height, owner, inst, row, touch, catalog, other>>

\* handleListSCByHeight over all heights: the install rows are kept in order
\* of height and identifier.
ListSCByHeight ==
  /\ Ask("byheight")
  /\ page' = [step |-> "owners", list |-> Ascending(inst), at |-> height, owned |-> {}]
  /\ client' = [client EXCEPT
       !.promised = Promised(page'.list, inst), !.first = height, !.begun = TRUE]
  /\ UNCHANGED <<height, owner, inst, row, touch, catalog, other>>

\* handleGetAddressCreatedAssets: the contracts of the deployer and the class of
\* each, sorted by the height in its metadata.
CreatedAssets ==
  /\ Ask("created")
  /\ Reply(Ascending(row), height, owner, row)
  /\ UNCHANGED <<height, owner, inst, row, touch, catalog, other>>

\* handleGetAddressTouchedAssets: the last touched first.
TouchedAssets ==
  /\ Ask("touched")
  /\ Reply(Descending(Touches), height, owner, Touches)
  /\ UNCHANGED <<height, owner, inst, row, touch, catalog, other>>

-----------------------------------------------------------------------------
(* The asset catalog is built once and served until it expires.  Requests   *)
(* that find it expired build it side by side.                              *)

\* handleGetAssets, served by getCachedAssetCatalog.
AssetsCached ==
  /\ Ask("assets")
  /\ catalog.fresh
  /\ Reply(catalog.list, catalog.at, ToSet(catalog.list), row)
  /\ UNCHANGED <<height, owner, inst, row, touch, catalog, other>>

\* buildAssetCatalog reads the rows, and then the owners.
AssetsBuild ==
  /\ Ask("assets")
  /\ ~catalog.fresh
  /\ page' = [step |-> "build", list |-> Ascending(row), at |-> height, owned |-> {}]
  /\ UNCHANGED <<height, owner, inst, row, touch, catalog, other, client>>

AssetsOwners ==
  /\ page.step = "build"
  /\ page' = [page EXCEPT !.step = "store", !.owned = owner]
  /\ UNCHANGED <<height, owner, inst, row, touch, catalog, other, client>>

\* storeCachedAssetCatalog, whatever is stored by now, and the page.
AssetsStore ==
  /\ page.step = "store"
  /\ catalog' = [list |-> page.list, at |-> page.at, fresh |-> TRUE]
  /\ Reply(page.list, page.at, page.owned, row)
  /\ UNCHANGED <<height, owner, inst, row, touch, other>>

\* The time to live of the catalog ends.
CatalogExpires ==
  /\ catalog.fresh
  /\ catalog' = [catalog EXCEPT !.fresh = FALSE]
  /\ UNCHANGED <<height, owner, inst, row, touch, other, page, client>>

\* Another client's request does the same.
OtherBuild ==
  /\ client.kind = "assets"
  /\ ~other.busy /\ ~catalog.fresh
  /\ other' = [list |-> Ascending(row), at |-> height, busy |-> TRUE]
  /\ UNCHANGED <<height, owner, inst, row, touch, catalog, page, client>>

OtherStore ==
  /\ other.busy
  /\ catalog' = [list |-> other.list, at |-> other.at, fresh |-> TRUE]
  /\ other' = NoBuild
  /\ UNCHANGED <<height, owner, inst, row, touch, page, client>>

-----------------------------------------------------------------------------
Next ==
  \/ \E s \in Contracts : IndexInstall(s) \/ IndexInvoke(s)
  \/ ImportRegistry
  \/ \E S \in SUBSET Contracts : ClassifyAll(S)
  \/ ListSC \/ ListSCClass \/ GnomonListSC \/ ListSCByClass \/ GnomonListSCByClass
  \/ ReadOwners \/ ListSCByHeight \/ CreatedAssets \/ TouchedAssets
  \/ AssetsCached \/ AssetsBuild \/ AssetsOwners \/ AssetsStore
  \/ CatalogExpires \/ OtherBuild \/ OtherStore

Spec == Init /\ [][Next]_readVars

-----------------------------------------------------------------------------
\* Heights are those of commits, and only contracts with an owner are listed.
TypeOK ==
  /\ height \in 1..(MaxWrites + 1)
  /\ owner \subseteq Contracts
  /\ \A f \in {inst, row, touch} : f \in [Contracts -> 0..height]
  /\ Listed(row) \union Listed(inst) \subseteq owner
  /\ client \in [kind : Kinds, asked : Asked, offset : Nat, seen : SUBSET owner,
                 promised : SUBSET owner, begun : BOOLEAN, done : BOOLEAN, moved : Nat,
                 touched : SUBSET owner, tied : BOOLEAN, first : Nat, served : Nat,
                 regressed : BOOLEAN]
  /\ page \in [step : {"idle", "owners", "build", "store"}, list : Seq(owner), at : Nat,
               owned : SUBSET owner]
  /\ catalog \in [list : Seq(owner), at : Nat, fresh : BOOLEAN]
  /\ other \in [list : Seq(owner), at : Nat, busy : BOOLEAN]

\* A class row moved after the snapshot the first page was cut from.
Shifted == client.moved > client.first

\* What may cost the client a contract: a class row that moved to a later
\* height while it paged (the refresher's doing); two rows of one height,
\* whose order changes from call to call; an older catalog stored over a newer
\* one; a contract that moved to the front of the touched list.
Excused(s) ==
  \/ client.kind \in ClassKinds \ SingleKinds /\ (Shifted \/ client.tied)
  \/ client.kind \in {"created", "assets"} /\ Shifted
  \/ client.kind = "assets" /\ client.regressed
  \/ client.kind = "touched" /\ s \in client.touched

\* Paging is complete: a client that reads pages to the end, asking each time
\* for what follows, has been given every contract that was listed at its
\* first page, with its owner, whatever was indexed meanwhile and however the
\* server cut its limits; a listing with a limit alone gave it the oldest.
PagesCover ==
  client.done => \A s \in client.promised \ client.seen : Excused(s)
-----------------------------------------------------------------------------
(* The inductive invariant of PagesCover.  The place of a contract in the   *)
(* listing the client pages through is the number of contracts up to it;    *)
(* while nothing excuses the contract it never falls, so what is at a place *)
(* the client has asked for has been given to it.                           *)

UpTo(f, s)   == {t \in Listed(f) : f[t] < f[s] \/ (f[t] = f[s] /\ t <= s)}
DownTo(f, s) == {t \in Listed(f) : f[t] > f[s] \/ (f[t] = f[s] /\ t <= s)}

Place(s) ==
  Cardinality(IF client.kind = "listsc" THEN {t \in owner : t <= s}
              ELSE IF client.kind = "touched" THEN DownTo(Touches, s)
              ELSE UpTo(row, s))

Holds(q, n, s) == n \in DOMAIN q /\ q[n] = s

\* What is still owed to the client.
Due(s) == s \in client.promised /\ ~Excused(s)

OwnersLine ==
  /\ owner = Listed(inst)
  /\ page.step = "store" => ToSet(page.list) \subseteq page.owned

\* The clocks.
ClockLine ==
  /\ \A n \in {client.moved, client.first, client.served, catalog.at, other.at, page.at} :
       n \in 0..height
  /\ client.kind = "assets" /\ client.begun /\ ~client.regressed =>
       client.first <= client.served

\* The course of a client.
StepLine ==
  /\ ~client.begun => client.offset = 0 /\ client.promised = {}
  /\ page.step = "owners" =>
       client.begun /\ ~client.done /\ client.kind \in ClassKinds \union {"byheight"}
  /\ page.step \in {"build", "store"} => client.kind = "assets"
  /\ client.kind \in SingleKinds /\ ~client.done =>
       client.offset = 0 /\ (client.begun => page.step = "owners")

\* A list by class rows is what it was made of as long as no row moves.
Snapshot(q, at) ==
  client.moved <= at =>
    /\ \A s \in Listed(row) : row[s] <= at => Holds(q, Cardinality(UpTo(row, s)), s)
    /\ \A i \in DOMAIN q : row[q[i]] \in 1..at

CatalogLine ==
  /\ Snapshot(catalog.list, catalog.at)
  /\ other.busy => Snapshot(other.list, other.at)
  /\ page.step \in {"build", "store"} => Snapshot(page.list, page.at)

\* What was promised is listed, and has not moved.
PromisedLine ==
  /\ client.kind \in (ClassKinds \ SingleKinds) \union {"created", "assets"} /\ ~Shifted =>
       \A s \in client.promised : row[s] \in 1..client.first
  /\ client.kind = "touched" => client.promised \subseteq Listed(Touches)

\* Between the two reads of a page, the list has what is owed at its place.
PageLine ==
  page.step = "owners" =>
    IF client.kind \in SingleKinds
    THEN \A s \in client.promised : \E i \in 1..PageSize : Holds(page.list, i, s)
    ELSE \A s \in client.promised : Due(s) => Holds(page.list, Place(s), s)

SeenLine ==
  client.kind \notin SingleKinds =>
    \A s \in client.promised : Due(s) /\ Place(s) <= client.offset => s \in client.seen

ReadInv ==
  /\ TypeOK /\ OwnersLine /\ ClockLine /\ StepLine
  /\ CatalogLine /\ PromisedLine /\ PageLine /\ SeenLine /\ PagesCover
=============================================================================
