-------------------------------- MODULE Reorg --------------------------------
(***************************************************************************)
(* How HyperGnomon notices that the daemon's chain was reorganised         *)
(* (indexer/reorg.go and the fetcher): checkReorgForBlock compares the     *)
(* parent of the first block of every fetch with the stored hash below it, *)
(* while the batches fetched before may still be on their way to the       *)
(* store; findForkPoint walks down from a reported height to the last      *)
(* height where store and daemon agree.  Nothing calls it yet: what it     *)
(* would answer is looked at in every state.                               *)
(*                                                                         *)
(* A block is the branch it was mined on and the branch of its parent: its *)
(* hash, and the first of its tips, at a given height.  A batch of the     *)
(* queue stands for what lies between the fetcher and a commit; a height   *)
(* the daemon does not answer, or whose block does not parse, is a hole.   *)
(***************************************************************************)
EXTENDS Integers, Sequences, FiniteSetsExt

CONSTANTS
  MaxHeight,      \* bound on the chain's height
  MaxForks,       \* bound on the reorganisations
  MaxCrashes,     \* bound on the crashes
  ParallelBlocks, \* heights asked for in one batch
  Cap,            \* batches between the fetcher and the store
  MaxDepth        \* findForkPoint's maxDepth

ReorgAssumption ==
  /\ MaxHeight \in Nat \ {0} /\ MaxForks \in Nat /\ MaxCrashes \in Nat
  /\ ParallelBlocks \in Nat \ {0} /\ Cap \in Nat \ {0} /\ MaxDepth \in Nat

VARIABLES
  chain,      \* the daemon's chain
  forks,      \* reorganisations so far
  height,     \* ChainHeight: the daemon's height as the monitor saw it last
  next,       \* the fetcher's nextHeight
  fetch,      \* the fetch in progress
  queue,      \* the batches between the fetcher and the store
  stored,     \* the bucket of block hashes
  cursor,     \* the last indexed height of the store
  reported,   \* heights that onReorgDetected was given as the stored tip
  unchecked,  \* heights whose block was not compared with a stored hash
  crashes     \* crashes so far

daemon  == <<chain, forks>>
fetcher == <<height, next, fetch, queue, reported, unchecked>>
disk    == <<stored, cursor>>
vars == <<daemon, fetcher, disk, crashes>>

Heights == 1..MaxHeight
Branches == 0..MaxForks
Block == [branch : Branches, parent : Branches]
Hole == [branch |-> -1, parent |-> -1]       \* no hash; no block
Idle == [at |-> "idle", want |-> 0, got |-> <<>>]

At(h) == IF h \in DOMAIN chain THEN chain[h] ELSE Hole

Init ==
  /\ chain = <<[branch |-> 0, parent |-> 0]>> /\ forks = 0 /\ height = 1
  /\ next = 0 /\ fetch = Idle /\ queue = <<>>
  /\ stored = [h \in 0..MaxHeight |-> Hole] /\ cursor = 0
  /\ reported = {} /\ unchecked = {} /\ crashes = 0

-----------------------------------------------------------------------------
(* The daemon.                                                             *)

ChainGrows ==
  /\ Len(chain) < MaxHeight
  /\ LET b == chain[Len(chain)].branch IN
       chain' = Append(chain, [branch |-> b, parent |-> b])
  /\ UNCHANGED <<forks, fetcher, disk, crashes>>

\* The blocks above k are replaced by those of a new branch, fewer or more.
ChainForks ==
  /\ forks < MaxForks
  /\ forks' = forks + 1
  /\ \E k \in 0..(Len(chain) - 1), top \in Heights :
       /\ top > k
       /\ chain' = [h \in 1..top |->
                      IF h <= k THEN chain[h]
                      ELSE [branch |-> forks',
                            parent |-> IF h = k + 1 /\ k > 0 THEN chain[k].branch
                                       ELSE forks']]
  /\ UNCHANGED <<fetcher, disk, crashes>>

-----------------------------------------------------------------------------
(* The fetcher.                                                            *)

MonitorPoll ==
  /\ height' = Len(chain)
  /\ UNCHANGED <<daemon, next, fetch, queue, reported, unchecked, disk, crashes>>

Ask ==
  /\ fetch = Idle /\ next < height
  /\ fetch' = [at |-> "asking", want |-> Min({ParallelBlocks, height - next}),
               got |-> <<>>]
  /\ UNCHANGED <<daemon, height, next, queue, reported, unchecked, disk, crashes>>

\* The next answer of the batch; a reorganisation may come between two of them.
Answer ==
  /\ fetch.at = "asking"
  /\ LET got == {Append(fetch.got, b) : b \in {At(next + Len(fetch.got) + 1), Hole}}
     IN \E g \in got :
          fetch' = [fetch EXCEPT !.got = g,
                                 !.at = IF Len(g) = fetch.want THEN "parse" ELSE @]
  /\ UNCHANGED <<daemon, height, next, queue, reported, unchecked, disk, crashes>>

\* The whole call fails, or every answer of it, and is tried again.
AskFails ==
  /\ fetch.at \in {"asking", "parse"} /\ \A i \in DOMAIN fetch.got : fetch.got[i] = Hole
  /\ fetch' = Idle
  /\ UNCHANGED <<daemon, height, next, queue, reported, unchecked, disk, crashes>>

\* The speculative fetch of one block at the tip.
FetchSingle ==
  /\ fetch = Idle /\ next >= height /\ At(next + 1) # Hole
  /\ fetch' = [at |-> "parse", want |-> 1, got |-> <<At(next + 1)>>]
  /\ UNCHANGED <<daemon, height, next, queue, reported, unchecked, disk, crashes>>

\* Mutant: the check compares with the stored hash at the block's own height.
CheckReorgAtItself(h, parent) == stored[h] = Hole \/ stored[h].branch = parent

CheckReorgAt(h, parent) == stored[h - 1] = Hole \/ stored[h - 1].branch = parent

\* Only the first block that parsed is compared; a read that fails counts as ok.
Parse ==
  /\ fetch.at = "parse"
  /\ LET firsts == {i \in DOMAIN fetch.got : fetch.got[i] # Hole} IN
       \E ok \in BOOLEAN :
         LET f == IF firsts = {} THEN 0 ELSE next + Min(firsts)
             compared == f > 0 /\ ok /\ stored[f - 1] # Hole
         IN /\ reported' = IF f > 0 /\ ok /\ ~CheckReorgAt(f, fetch.got[f - next].parent)
                           THEN reported \cup {f - 1} ELSE reported
            /\ unchecked' = unchecked \cup
                 {next + i : i \in {j \in firsts : ~compared \/ next + j # f}}
  /\ fetch' = [fetch EXCEPT !.at = "send"]
  /\ UNCHANGED <<daemon, height, next, queue, disk, crashes>>

Send ==
  /\ fetch.at = "send" /\ Len(queue) < Cap
  /\ queue' = Append(queue, [from |-> next + 1, blocks |-> fetch.got])
  /\ next' = next + fetch.want /\ fetch' = Idle
  /\ UNCHANGED <<daemon, height, reported, unchecked, disk, crashes>>

-----------------------------------------------------------------------------
(* The store.                                                              *)

\* Hashes and cursor are committed together; nothing is committed for a hole.
Flush ==
  /\ queue # <<>>
  /\ LET b == Head(queue)
         in(h) == h - b.from + 1 \in DOMAIN b.blocks /\ b.blocks[h - b.from + 1] # Hole
     IN /\ stored' = [h \in 0..MaxHeight |->
                        IF h > 0 /\ in(h) THEN b.blocks[h - b.from + 1] ELSE stored[h]]
        /\ cursor' = b.from + Len(b.blocks) - 1
  /\ queue' = Tail(queue)
  /\ UNCHANGED <<daemon, height, next, fetch, reported, unchecked, crashes>>

\* The process ends and is started again from the store's cursor; the blocks that
\* were not committed are fetched, and compared, again.
Crash ==
  /\ crashes < MaxCrashes
  /\ crashes' = crashes + 1
  /\ next' = cursor /\ fetch' = Idle /\ queue' = <<>> /\ height' = Len(chain)
  /\ unchecked' = {h \in unchecked : h <= cursor}
  /\ reported' = {h \in reported : h < cursor}
  /\ UNCHANGED <<daemon, disk>>

-----------------------------------------------------------------------------
(* findForkPoint.                                                          *)

None == -1      \* "cannot determine"

Agrees(h) == stored[h] = At(h) /\ At(h) # Hole

Floor(suspected) == Max({suspected - MaxDepth, 0})

\* The walk down from the suspected height to the floor ends at the first height
\* nothing is stored for, without an answer, or at the first agreement.  A lookup
\* that fails ends it too and is not modelled.
FindForkPoint(suspected) ==
  LET ends == {h \in Floor(suspected)..suspected : stored[h] = Hole \/ Agrees(h)}
  IN  IF suspected >= 1 /\ ends # {} /\ Agrees(Max(ends)) THEN Max(ends) ELSE None

-----------------------------------------------------------------------------
Next == \/ ChainGrows \/ ChainForks \/ MonitorPoll
        \/ Ask \/ Answer \/ AskFails \/ FetchSingle \/ Parse \/ Send
        \/ Flush \/ Crash

Spec == Init /\ [][Next]_vars

-----------------------------------------------------------------------------
Hashes == Block \cup {Hole}

\* Every variable has its type, and no channel more than it holds.
TypeOK ==
  /\ chain \in Seq(Block) /\ Len(chain) \in Heights /\ forks \in 0..MaxForks
  /\ {height, next, cursor} \subseteq 0..MaxHeight
  /\ fetch \in [at : {"idle", "asking", "parse", "send"}, want : 0..ParallelBlocks,
               got : Seq(Hashes)]
  /\ Len(fetch.got) <= fetch.want
  /\ Len(queue) <= Cap /\ \A i \in DOMAIN queue : queue[i].blocks \in Seq(Hashes)
  /\ stored \in [0..MaxHeight -> Hashes]
  /\ reported \subseteq Heights /\ unchecked \subseteq Heights
  /\ crashes \in 0..MaxCrashes

Known(h) == stored[h] # Hole
OnChain(h) == Known(h) /\ stored[h] = At(h)
Split(h) == Known(h) /\ Known(h - 1) /\ stored[h].parent # stored[h - 1].branch

\* Two neighbouring stored hashes of different branches were reported, or the
\* upper block was fetched too early, or not first in its batch, to be compared.
SplitsSeen == \A h \in Heights : Split(h) => h - 1 \in reported \/ h \in unchecked

\* The fork point of a reported height is the highest height, from there down, on
\* the daemon's chain, and a stored hash below it that is not on the chain has a
\* split or a hole above it; when there is no fork point, no height within the
\* depth that is reached without a hole is on the chain.
ForkSound ==
  \A s \in reported :
    LET f == FindForkPoint(s) IN
      IF f # None
      THEN /\ f \in 1..s /\ OnChain(f)
           /\ \A h \in (f + 1)..s : ~OnChain(h)
           /\ \A h \in 1..f : \/ ~Known(h) \/ OnChain(h)
                              \/ \E j \in (h + 1)..f : Split(j) \/ ~Known(j)
      ELSE \A h \in Floor(s)..s : (\A j \in h..s : Known(j)) => ~OnChain(h)

\* A reorganisation of what is stored does not go unseen where it can be seen,
\* and the fork point found for it is the right height to roll back to.
ChainFollowed == SplitsSeen /\ ForkSound

-----------------------------------------------------------------------------
(* The inductive invariant.                                                *)

\* A batch of the queue, or the one in the fetcher's hands, as heights and blocks.
Last(b) == b.from + Len(b.blocks) - 1
Fetched == [from |-> next + 1, blocks |-> fetch.got]
Batch == [from : Heights, blocks : Seq(Hashes)]

\* The batches of the queue follow each other from the cursor to the fetcher's next
\* height, and what is fetched next lies on the chain as the monitor saw it or
\* speculation found it.
QueueLine ==
  /\ queue \in Seq(Batch) /\ Len(queue) <= Cap
  /\ \A i \in 1..Len(queue) :
       /\ queue[i].from = (IF i = 1 THEN cursor ELSE Last(queue[i - 1])) + 1
       /\ Last(queue[i]) <= MaxHeight
  /\ next = IF queue = <<>> THEN cursor ELSE Last(queue[Len(queue)])
  /\ next + fetch.want <= MaxHeight
  /\ IF fetch.at = "idle" THEN fetch = Idle ELSE fetch.want > 0
  /\ fetch.at = "asking" => Len(fetch.got) < fetch.want
  /\ fetch.at \in {"parse", "send"} => Len(fetch.got) = fetch.want

\* Nothing is stored at height 0 or above the cursor.
StoredLine == \A h \in 0..MaxHeight : h = 0 \/ h > cursor => stored[h] = Hole

\* A block that was fetched for a height, or stored at it, was compared with the
\* stored block below it, or is listed as not compared.
Compared(h, b) ==
  \/ b = Hole \/ h \in unchecked
  \/ stored[h - 1] # Hole /\ (stored[h - 1].branch = b.parent \/ h - 1 \in reported)

ComparedIn(b) == \A i \in 1..Len(b.blocks) : Compared(b.from + i - 1, b.blocks[i])

ComparedLine ==
  /\ \A h \in Heights : Compared(h, stored[h])
  /\ \A i \in 1..Len(queue) : ComparedIn(queue[i])
  /\ fetch.at = "send" => ComparedIn(Fetched)

\* The daemon's blocks are linked, and a copy of a block is older than the newest
\* branch, or equal to the daemon's block of that height and branch: a branch that
\* was left is never mined on again.
Tip == chain[Len(chain)].branch

Linked ==
  /\ \A h \in 1..Len(chain) : chain[h].branch <= forks
  /\ \A h \in 2..Len(chain) : chain[h].parent = chain[h - 1].branch
  /\ Tip = forks

Copy(h, b) ==
  b = Hole \/ /\ b.branch <= forks
              /\ b.branch = Tip => h <= Len(chain)
              /\ h <= Len(chain) /\ b.branch = chain[h].branch => b = chain[h]

CopiesIn(b) == \A i \in 1..Len(b.blocks) : Copy(b.from + i - 1, b.blocks[i])

CopyLine ==
  /\ Linked
  /\ \A h \in Heights : Copy(h, stored[h])
  /\ \A i \in 1..Len(queue) : CopiesIn(queue[i])
  /\ CopiesIn(Fetched)

ReorgInv == TypeOK /\ QueueLine /\ StoredLine /\ ComparedLine /\ CopyLine
=============================================================================
