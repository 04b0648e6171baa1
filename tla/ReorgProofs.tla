----------------------------- MODULE ReorgProofs -----------------------------
(***************************************************************************)
(* Proofs about Reorg, for chains of any height, any number of             *)
(* reorganisations and crashes: a reorganisation is seen where it can be,  *)
(* and its fork point is the right one.                                    *)
(***************************************************************************)
EXTENDS Reorg, WellFoundedInduction, SequenceTheorems, TLAPS

-----------------------------------------------------------------------------
(* The least and the greatest element.                                     *)

LEMMA MinOf ==
  ASSUME NEW S \in SUBSET Nat, S # {}
  PROVE  Min(S) \in S /\ \A x \in S : Min(S) <= x
<1> DEFINE R == OpToRel(<, Nat)
<1>1. \A x, y \in Nat : <<x, y>> \in R <=> x < y
  BY DEF OpToRel
<1>2. \E x \in S : \A y \in S : ~(<<y, x>> \in R)
  <2> HIDE DEF R
  <2>1. IsWellFoundedOn(R, Nat)
    BY NatLessThanWellFounded DEF R
  <2> QED BY <2>1, WFMin
<1>3. PICK x \in S : \A y \in S : ~(<<y, x>> \in R)
  BY <1>2
<1>4. ASSUME NEW y \in S PROVE x <= y
  <2> HIDE DEF R
  <2>1. x \in Nat /\ y \in Nat
    OBVIOUS
  <2>2. ~(y < x)
    BY <1>1, <1>3, <2>1
  <2> QED BY <2>1, <2>2
<1> QED BY <1>4 DEF Min

LEMMA MaxOf ==
  ASSUME NEW n \in Nat, NEW S \in SUBSET (0..n), S # {}
  PROVE  Max(S) \in S /\ \A x \in S : x <= Max(S)
<1> DEFINE T == {n - x : x \in S}
<1>1. T \in SUBSET Nat
  <2> SUFFICES ASSUME NEW x \in S PROVE n - x \in Nat
    OBVIOUS
  <2> QED OBVIOUS
<1>2. T # {}
  OBVIOUS
<1>3. Min(T) \in T /\ \A k \in T : Min(T) <= k
  <2> HIDE DEF T
  <2> QED BY <1>1, <1>2, MinOf
<1>4. PICK x \in S : \A k \in T : n - x <= k
  BY <1>3
<1>5. \A y \in S : n - x <= n - y
  BY <1>4
<1>6. \A y \in S : x >= y
  BY <1>5
<1> QED BY <1>6 DEF Max

-----------------------------------------------------------------------------
(* Blocks, and the daemon's chain.                                         *)

LEMMA Hashed ==
  ASSUME ReorgAssumption
  PROVE  /\ Hole \in Hashes /\ Hole \notin Block /\ Block \subseteq Hashes
         /\ Hashes \ {Hole} \subseteq Block
         /\ \A b \in Hashes : b.branch \in Int /\ b.parent \in Int
         /\ \A b \in Block : b.branch \in Branches /\ b.parent \in Branches
BY DEF ReorgAssumption, Hole, Hashes, Block, Branches

LEMMA ChainOf ==
  ASSUME ReorgAssumption, TypeOK
  PROVE  /\ Len(chain) \in Heights /\ DOMAIN chain = 1..Len(chain)
         /\ \A h \in 1..Len(chain) : chain[h] \in Block
         /\ \A h \in Int : At(h) \in Hashes
         /\ \A h \in Int : At(h) # Hole <=> h \in 1..Len(chain)
         /\ \A h \in 1..Len(chain) : At(h) = chain[h]
<1>1. /\ Len(chain) \in Heights /\ DOMAIN chain = 1..Len(chain)
      /\ \A h \in 1..Len(chain) : chain[h] \in Block
  BY DEF TypeOK
<1> QED BY <1>1, Hashed DEF At

\* The chain after a new block.
LEMMA Grown ==
  ASSUME ReorgAssumption, TypeOK, ChainGrows
  PROVE  /\ chain' \in Seq(Block) /\ Len(chain') = Len(chain) + 1
         /\ Len(chain) < MaxHeight
         /\ \A h \in 1..Len(chain) : chain'[h] = chain[h]
         /\ chain'[Len(chain) + 1] = [branch |-> Tip, parent |-> Tip]
         /\ Tip \in Branches
<1>1. Len(chain) \in 1..Len(chain) /\ chain \in Seq(Block)
  BY ChainOf DEF Heights, ReorgAssumption, TypeOK
<1>2. Tip \in Branches
  BY <1>1, ChainOf, Hashed DEF Tip
<1>3. [branch |-> Tip, parent |-> Tip] \in Block
  BY <1>2 DEF Block
<1>4. chain' = Append(chain, [branch |-> Tip, parent |-> Tip]) /\ Len(chain) < MaxHeight
  BY DEF ChainGrows, Tip
<1> QED BY <1>1, <1>2, <1>3, <1>4

\* The chain after a reorganisation above height k.
LEMMA Forked ==
  ASSUME ReorgAssumption, TypeOK, ChainForks
  PROVE  /\ forks < MaxForks /\ forks' = forks + 1 /\ chain' \in Seq(Block)
         /\ \E k \in 0..(Len(chain) - 1) :
              /\ Len(chain') \in Heights /\ Len(chain') > k
              /\ \A h \in 1..k : chain'[h] = chain[h]
              /\ \A h \in 1..Len(chain') : h > k =>
                   /\ chain'[h].branch = forks + 1
                   /\ chain'[h].parent =
                        IF h = k + 1 /\ k > 0 THEN chain[k].branch ELSE forks + 1
<1>1. /\ forks \in 0..MaxForks /\ forks < MaxForks /\ forks' = forks + 1
      /\ forks + 1 \in Branches
  BY DEF TypeOK, ChainForks, Branches, ReorgAssumption
<1>2. PICK k \in 0..(Len(chain) - 1), top \in Heights :
        /\ top > k
        /\ chain' = [h \in 1..top |->
                       IF h <= k THEN chain[h]
                       ELSE [branch |-> forks + 1,
                             parent |-> IF h = k + 1 /\ k > 0 THEN chain[k].branch
                                        ELSE forks + 1]]
  BY <1>1 DEF ChainForks
<1>3. k \in Nat /\ k < Len(chain) /\ top \in Nat /\ Len(chain) \in Nat
  BY ChainOf DEF Heights, ReorgAssumption
<1>4. \A h \in 1..top : chain'[h] \in Block
  <2> SUFFICES ASSUME NEW h \in 1..top PROVE chain'[h] \in Block
    OBVIOUS
  <2>1. CASE h <= k
    <3>1. h \in 1..Len(chain) /\ chain'[h] = chain[h]
      BY <1>2, <1>3, <2>1
    <3> QED BY <3>1, ChainOf
  <2>2. CASE h > k
    <3>1. k > 0 => chain[k].branch \in Branches
      BY <1>3, ChainOf, Hashed
    <3>2. chain'[h] = [branch |-> forks + 1,
                       parent |-> IF h = k + 1 /\ k > 0 THEN chain[k].branch
                                  ELSE forks + 1]
      BY <1>2, <1>3, <2>2
    <3> QED BY <1>1, <3>1, <3>2 DEF Block
  <2> QED BY <1>3, <2>1, <2>2
<1>5. chain' \in Seq(Block) /\ Len(chain') = top
  <2>1. chain' \in [1..top -> Block]
    BY <1>2, <1>4
  <2> QED BY <1>3, <2>1
<1>6. \A h \in 1..k : chain'[h] = chain[h]
  BY <1>2, <1>3
<1>7. \A h \in 1..top : h > k =>
        /\ chain'[h].branch = forks + 1
        /\ chain'[h].parent = IF h = k + 1 /\ k > 0 THEN chain[k].branch ELSE forks + 1
  BY <1>2, <1>3
<1> QED BY <1>1, <1>2, <1>5, <1>6, <1>7

-----------------------------------------------------------------------------
(* The batches.                                                            *)

\* What the types say of the batch the fetcher has, and of those on their way.
LEMMA BatchOf ==
  ASSUME ReorgAssumption, TypeOK, QueueLine
  PROVE  /\ next \in 0..MaxHeight /\ next + Len(fetch.got) <= MaxHeight
         /\ Len(fetch.got) \in Nat /\ Fetched.from = next + 1
         /\ Fetched.blocks = fetch.got
         /\ \A i \in 1..Len(fetch.got) : fetch.got[i] \in Hashes /\ next + i \in Heights
         /\ \A i \in 1..Len(queue) :
              /\ queue[i].from \in Heights /\ queue[i].blocks \in Seq(Hashes)
              /\ \A j \in 1..Len(queue[i].blocks) :
                   /\ queue[i].blocks[j] \in Hashes
                   /\ queue[i].from + j - 1 \in Heights
<1>1. /\ next \in 0..MaxHeight /\ next + Len(fetch.got) <= MaxHeight
      /\ Len(fetch.got) \in Nat /\ fetch.got \in Seq(Hashes)
      /\ MaxHeight \in Nat
  BY DEF TypeOK, QueueLine, ReorgAssumption
<1>2. Fetched.from = next + 1 /\ Fetched.blocks = fetch.got
  BY DEF Fetched
<1>3. ASSUME NEW i \in 1..Len(fetch.got)
      PROVE  fetch.got[i] \in Hashes /\ next + i \in Heights
  BY <1>1 DEF Heights
<1>4. ASSUME NEW i \in 1..Len(queue)
      PROVE  /\ queue[i].from \in Heights /\ queue[i].blocks \in Seq(Hashes)
             /\ \A j \in 1..Len(queue[i].blocks) :
                  /\ queue[i].blocks[j] \in Hashes
                  /\ queue[i].from + j - 1 \in Heights
  <2>1. queue[i] \in Batch /\ Last(queue[i]) <= MaxHeight
    BY DEF QueueLine
  <2>2. queue[i].from \in Heights /\ queue[i].blocks \in Seq(Hashes)
    BY <2>1 DEF Batch
  <2> QED BY <1>1, <2>1, <2>2 DEF Last, Heights
<1> QED BY <1>1, <1>2, <1>3, <1>4

\* What a commit leaves behind.
LEMMA Flushed ==
  ASSUME ReorgAssumption, TypeOK, QueueLine, Flush
  PROVE  /\ 1 \in 1..Len(queue) /\ queue[1].from = cursor + 1
         /\ queue[1].blocks \in Seq(Hashes) /\ Len(queue[1].blocks) \in Nat
         /\ cursor' = cursor + Len(queue[1].blocks) /\ cursor' \in 0..MaxHeight
         /\ cursor \in Nat /\ cursor' \in Nat /\ cursor <= cursor' /\ MaxHeight \in Nat
         /\ stored' \in [0..MaxHeight -> Hashes]
         /\ \A i \in 1..Len(queue[1].blocks) :
              stored'[cursor + i] = IF queue[1].blocks[i] = Hole THEN stored[cursor + i]
                                    ELSE queue[1].blocks[i]
         /\ \A h \in 0..MaxHeight :
              h <= cursor \/ h > cursor' => stored'[h] = stored[h]
         /\ queue' \in Seq(Batch) /\ Len(queue') = Len(queue) - 1 /\ Len(queue) \in Nat
         /\ \A i \in 1..Len(queue') : queue'[i] = queue[i + 1]
<1> DEFINE b == queue[1]
           in(h) == h - b.from + 1 \in 1..Len(b.blocks) /\ b.blocks[h - b.from + 1] # Hole
<1>1. /\ 1 \in 1..Len(queue) /\ Head(queue) = b /\ queue \in Seq(Batch)
      /\ queue' = Tail(queue) /\ Len(queue) \in Nat
  BY DEF QueueLine, Flush
<1>2. /\ queue' \in Seq(Batch) /\ Len(queue') = Len(queue) - 1
      /\ \A i \in 1..Len(queue') : queue'[i] = queue[i + 1]
  BY <1>1
<1>3. b.from = cursor + 1 /\ b.blocks \in Seq(Hashes) /\ Last(b) <= MaxHeight
  <2>1. b.from = cursor + 1 /\ Last(b) <= MaxHeight
    BY <1>1 DEF QueueLine
  <2>2. b.blocks \in Seq(Hashes)
    BY <1>1, BatchOf
  <2> QED BY <2>1, <2>2
<1>4. /\ Len(b.blocks) \in Nat /\ DOMAIN b.blocks = 1..Len(b.blocks)
      /\ cursor \in 0..MaxHeight /\ MaxHeight \in Nat
      /\ \A i \in 1..Len(b.blocks) : b.blocks[i] \in Hashes
  BY <1>3 DEF TypeOK, ReorgAssumption
<1>5. cursor' = cursor + Len(b.blocks) /\ cursor' \in 0..MaxHeight
  <2>1. cursor' = b.from + Len(b.blocks) - 1
    BY <1>1 DEF Flush
  <2>2. b.from + Len(b.blocks) - 1 <= MaxHeight
    BY <1>3 DEF Last
  <2>3. \A c, n \in Nat : (c + 1) + n - 1 = c + n /\ c + n \in Nat
    OBVIOUS
  <2>4. cursor \in Nat /\ Len(b.blocks) \in Nat
    BY <1>4
  <2>5. b.from + Len(b.blocks) - 1 = cursor + Len(b.blocks)
    BY <1>3, <2>3, <2>4
  <2> QED BY <1>4, <2>1, <2>2, <2>3, <2>4, <2>5
<1>6. stored' = [h \in 0..MaxHeight |->
                   IF h > 0 /\ in(h) THEN b.blocks[h - b.from + 1] ELSE stored[h]]
  BY <1>1, <1>4 DEF Flush
<1>7. stored' \in [0..MaxHeight -> Hashes]
  <2>1. \A h \in 0..MaxHeight : in(h) => b.blocks[h - b.from + 1] \in Hashes
    BY <1>4
  <2> HIDE DEF in
  <2> QED BY <1>6, <2>1 DEF TypeOK
<1>8. ASSUME NEW i \in 1..Len(b.blocks)
      PROVE  stored'[cursor + i] = IF b.blocks[i] = Hole THEN stored[cursor + i]
                                   ELSE b.blocks[i]
  <2>1. cursor + i \in 0..MaxHeight /\ cursor + i > 0
    BY <1>4, <1>5
  <2>2. (cursor + i) - b.from + 1 = i
    BY <1>3, <1>4
  <2> QED BY <1>6, <2>1, <2>2
<1>9. ASSUME NEW h \in 0..MaxHeight, h <= cursor \/ h > cursor'
      PROVE  stored'[h] = stored[h]
  <2>1. h - b.from + 1 \notin 1..Len(b.blocks)
    BY <1>3, <1>4, <1>5, <1>9
  <2> QED BY <1>6, <2>1
<1>10. cursor \in Nat /\ cursor' \in Nat /\ cursor <= cursor'
  BY <1>4, <1>5
<1> QED BY <1>1, <1>2, <1>3, <1>4, <1>5, <1>7, <1>8, <1>9, <1>10

\* Compared in the next state, for a block of this one.
ComparedAfter(h, b) ==
  \/ b = Hole \/ h \in unchecked'
  \/ stored'[h - 1] # Hole /\ (stored'[h - 1].branch = b.parent \/ h - 1 \in reported')

\* What a look at a batch reports.
LEMMA Parsed ==
  ASSUME ReorgAssumption, TypeOK, QueueLine, StoredLine, Parse
  PROVE  /\ reported \subseteq reported' /\ reported' \subseteq Heights
         /\ unchecked \subseteq unchecked' /\ unchecked' \subseteq Heights
         /\ fetch' = [fetch EXCEPT !.at = "send"]
         /\ \A i \in 1..Len(fetch.got) : ComparedAfter(next + i, fetch.got[i])
<1> DEFINE firsts == {i \in DOMAIN fetch.got : fetch.got[i] # Hole}
           f == IF firsts = {} THEN 0 ELSE next + Min(firsts)
           compared(ok) == f > 0 /\ ok /\ stored[f - 1] # Hole
<1>1. PICK ok \in BOOLEAN :
        /\ reported' = IF f > 0 /\ ok /\ ~CheckReorgAt(f, fetch.got[f - next].parent)
                       THEN reported \cup {f - 1} ELSE reported
        /\ unchecked' = unchecked \cup
             {next + i : i \in {j \in firsts : ~compared(ok) \/ next + j # f}}
  BY DEF Parse
<1>2. fetch' = [fetch EXCEPT !.at = "send"]
  BY DEF Parse
<1>3. /\ firsts \subseteq 1..Len(fetch.got) /\ Len(fetch.got) \in Nat
      /\ next \in Nat /\ MaxHeight \in Nat /\ DOMAIN fetch.got = 1..Len(fetch.got)
      /\ \A i \in 1..Len(fetch.got) : next + i \in Heights
  BY BatchOf DEF TypeOK, ReorgAssumption
<1>4. f # 0 => f \in Heights /\ f - next \in firsts
  <2>1. CASE firsts # {}
    <3>1. Min(firsts) \in firsts
      <4>1. firsts \in SUBSET Nat
        BY <1>3
      <4> HIDE DEF firsts
      <4> QED BY <2>1, <4>1, MinOf
    <3>2. f = next + Min(firsts)
      BY <2>1
    <3> HIDE DEF f, firsts
    <3>3. Min(firsts) \in 1..Len(fetch.got)
      BY <1>3, <3>1
    <3>4. f - next = Min(firsts)
      BY <1>3, <3>2, <3>3
    <3> QED BY <1>3, <3>1, <3>2, <3>3, <3>4
  <2> QED BY <2>1
<1>5. f > 0 /\ stored[f - 1] # Hole => f - 1 \in Heights
  BY <1>3, <1>4 DEF Heights, StoredLine
<1>6. reported \subseteq reported' /\ reported' \subseteq Heights
  BY <1>1, <1>5 DEF CheckReorgAt, TypeOK
<1>7. unchecked \subseteq unchecked' /\ unchecked' \subseteq Heights
  BY <1>1, <1>3 DEF TypeOK
<1>8. ASSUME NEW i \in 1..Len(fetch.got), fetch.got[i] # Hole, next + i \notin unchecked'
      PROVE  /\ stored[next + i - 1] # Hole
             /\ \/ stored[next + i - 1].branch = fetch.got[i].parent
                \/ next + i - 1 \in reported'
  <2>1. i \in firsts
    BY <1>3, <1>8
  <2>2. compared(ok) /\ next + i = f
    <3> HIDE DEF firsts, f, compared
    <3> QED BY <1>1, <1>8, <2>1
  <2>3. f - next = i /\ f - 1 = next + i - 1
    <3> HIDE DEF f
    <3> QED BY <1>3, <2>2
  <2>4. CheckReorgAt(f, fetch.got[i].parent) \/ f - 1 \in reported'
    <3> HIDE DEF f
    <3> QED BY <1>1, <2>2, <2>3 DEF compared
  <2> HIDE DEF f
  <2> QED BY <2>2, <2>3, <2>4 DEF CheckReorgAt
<1>9. stored' = stored
  BY DEF Parse, disk
<1>10. ASSUME NEW i \in 1..Len(fetch.got) PROVE ComparedAfter(next + i, fetch.got[i])
  <2>1. \/ fetch.got[i] = Hole \/ next + i \in unchecked'
        \/ /\ stored[next + i - 1] # Hole
           /\ \/ stored[next + i - 1].branch = fetch.got[i].parent
              \/ next + i - 1 \in reported'
    BY <1>8
  <2>2. (next + i) - 1 = next + i - 1
    BY <1>3
  <2> QED BY <1>9, <2>1, <2>2, Zenon DEF ComparedAfter
<1> QED BY <1>2, <1>6, <1>7, <1>10

-----------------------------------------------------------------------------
(* Each part of the inductive invariant is kept.                           *)

\* The number of heights to ask for.
LEMMA Wanted ==
  ASSUME ReorgAssumption, TypeOK, Ask
  PROVE  \E w \in 1..ParallelBlocks :
           /\ next + w <= height
           /\ fetch' = [at |-> "asking", want |-> w, got |-> <<>>]
<1> DEFINE w == Min({ParallelBlocks, height - next})
<1>1. height \in Nat /\ next \in Nat /\ next < height /\ ParallelBlocks \in Nat \ {0}
  BY DEF ReorgAssumption, TypeOK, Ask
<1>2. w \in {ParallelBlocks, height - next} /\ w <= ParallelBlocks /\ w <= height - next
  <2>1. {ParallelBlocks, height - next} \in SUBSET Nat
    BY <1>1
  <2> QED BY <2>1, MinOf
<1>3. fetch' = [at |-> "asking", want |-> w, got |-> <<>>]
  BY DEF Ask
<1> HIDE DEF w
<1> QED BY <1>1, <1>2, <1>3

LEMMA TypesKept ==
  ASSUME ReorgAssumption, TypeOK, QueueLine, StoredLine, Next PROVE TypeOK'
<1> USE DEF daemon, fetcher, disk
<1>0. /\ MaxHeight \in Nat \ {0} /\ MaxForks \in Nat /\ MaxCrashes \in Nat
      /\ ParallelBlocks \in Nat \ {0} /\ Cap \in Nat \ {0} /\ MaxDepth \in Nat
      /\ {height, next, cursor} \subseteq 0..MaxHeight
  BY DEF ReorgAssumption, TypeOK
<1>1. CASE ChainGrows
  <2>1. chain' \in Seq(Block) /\ Len(chain') \in Heights
    BY <1>0, <1>1, Grown, ChainOf DEF Heights
  <2> QED BY <1>1, <2>1 DEF ChainGrows, TypeOK
<1>2. CASE ChainForks
  <2>1. chain' \in Seq(Block) /\ Len(chain') \in Heights /\ forks' \in 0..MaxForks
    BY <1>0, <1>2, Forked DEF TypeOK
  <2> QED BY <1>2, <2>1 DEF ChainForks, TypeOK
<1>3. CASE MonitorPoll
  <2>1. height' \in 0..MaxHeight
    BY <1>0, <1>3 DEF MonitorPoll, TypeOK, Heights
  <2> QED BY <1>3, <2>1 DEF MonitorPoll, TypeOK
<1>4. CASE Ask
  <2>1. PICK w \in 1..ParallelBlocks : fetch' = [at |-> "asking", want |-> w, got |-> <<>>]
    BY <1>4, Wanted
  <2>2. /\ fetch' \in [at : {"idle", "asking", "parse", "send"}, want : 0..ParallelBlocks,
                       got : Seq(Hashes)]
        /\ Len(fetch'.got) <= fetch'.want
    BY <1>0, <2>1
  <2> QED BY <1>4, <2>2 DEF Ask, TypeOK
<1>5. CASE Answer
  <2>1. PICK b \in {At(next + Len(fetch.got) + 1), Hole} :
          fetch' = [fetch EXCEPT !.got = Append(fetch.got, b),
                                 !.at = IF Len(Append(fetch.got, b)) = fetch.want
                                        THEN "parse" ELSE @]
    BY <1>5 DEF Answer
  <2>2. b \in Hashes
    BY <1>0, ChainOf, BatchOf, Hashed
  <2>3. /\ Len(fetch.got) < fetch.want /\ fetch.want \in Nat /\ fetch.got \in Seq(Hashes)
        /\ fetch.at = "asking"
    BY <1>5 DEF Answer, QueueLine, TypeOK
  <2>4. /\ Append(fetch.got, b) \in Seq(Hashes)
        /\ Len(Append(fetch.got, b)) <= fetch.want
    BY <2>2, <2>3
  <2>5. /\ fetch' \in [at : {"idle", "asking", "parse", "send"}, want : 0..ParallelBlocks,
                       got : Seq(Hashes)]
        /\ Len(fetch'.got) <= fetch'.want
    BY <2>1, <2>3, <2>4 DEF TypeOK
  <2> QED BY <1>5, <2>5 DEF Answer, TypeOK
<1>6. CASE AskFails
  <2>1. fetch' = [at |-> "idle", want |-> 0, got |-> <<>>]
    BY <1>6 DEF AskFails, Idle
  <2>2. <<>> \in Seq(Hashes) /\ Len(<<>>) = 0 /\ 0 \in 0..ParallelBlocks
    BY <1>0
  <2> QED BY <1>6, <2>1, <2>2 DEF AskFails, TypeOK
<1>7. CASE FetchSingle
  <2>1. fetch' = [at |-> "parse", want |-> 1, got |-> <<At(next + 1)>>]
    BY <1>7 DEF FetchSingle
  <2>2. At(next + 1) \in Hashes
    BY <1>0, ChainOf
  <2>3. /\ <<At(next + 1)>> \in Seq(Hashes) /\ Len(<<At(next + 1)>>) = 1
        /\ 1 \in 0..ParallelBlocks
    BY <1>0, <2>2
  <2> QED BY <1>7, <2>1, <2>3 DEF FetchSingle, TypeOK
<1>8. CASE Parse
  <2>1. /\ fetch' = [fetch EXCEPT !.at = "send"]
        /\ reported' \subseteq Heights /\ unchecked' \subseteq Heights
    BY <1>8, Parsed
  <2> QED BY <1>8, <2>1 DEF Parse, TypeOK
<1>9. CASE Send
  <2>1. fetch.at = "send" /\ Len(queue) < Cap /\ next' = next + fetch.want
        /\ queue' = Append(queue, Fetched) /\ fetch' = [at |-> "idle", want |-> 0, got |-> <<>>]
    BY <1>9 DEF Send, Fetched, Idle
  <2>2. next' \in 0..MaxHeight
    BY <1>0, <2>1 DEF QueueLine, TypeOK
  <2>3. Len(queue') <= Cap /\ \A i \in DOMAIN queue' : queue'[i].blocks \in Seq(Hashes)
    <3>1. queue \in Seq(Batch) /\ Fetched.blocks \in Seq(Hashes)
      BY BatchOf DEF QueueLine, TypeOK
    <3>2. \A i \in 1..Len(queue) : queue[i].blocks \in Seq(Hashes)
      BY BatchOf
    <3>3. /\ Len(Append(queue, Fetched)) = Len(queue) + 1 /\ Len(queue) \in Nat
          /\ DOMAIN Append(queue, Fetched) = 1..(Len(queue) + 1)
          /\ \A i \in 1..Len(queue) : Append(queue, Fetched)[i] = queue[i]
          /\ Append(queue, Fetched)[Len(queue) + 1] = Fetched
      BY <3>1
    <3> QED BY <1>0, <2>1, <3>1, <3>2, <3>3
  <2>4. <<>> \in Seq(Hashes) /\ Len(<<>>) = 0 /\ 0 \in 0..ParallelBlocks
    BY <1>0
  <2> QED BY <1>9, <2>1, <2>2, <2>3, <2>4 DEF Send, TypeOK
<1>10. CASE Flush
  <2>1. /\ cursor' \in 0..MaxHeight /\ stored' \in [0..MaxHeight -> Hashes]
        /\ queue' \in Seq(Batch) /\ Len(queue') = Len(queue) - 1
        /\ \A i \in 1..Len(queue') : queue'[i] = queue[i + 1]
    BY <1>10, Flushed
  <2>2. Len(queue) \in Nat /\ Len(queue) <= Cap /\ DOMAIN queue' = 1..Len(queue')
    BY <2>1 DEF QueueLine
  <2>3. Len(queue') <= Cap /\ \A i \in DOMAIN queue' : queue'[i].blocks \in Seq(Hashes)
    <3>1. Len(queue') <= Cap
      BY <1>0, <2>1, <2>2
    <3>2. \A i \in DOMAIN queue' : queue'[i] \in Batch
      BY <2>1
    <3> QED BY <3>1, <3>2 DEF Batch
  <2> QED BY <1>10, <2>1, <2>3 DEF Flush, TypeOK
<1>11. CASE Crash
  <2>1. /\ height' \in 0..MaxHeight /\ crashes' \in 0..MaxCrashes /\ next' \in 0..MaxHeight
        /\ reported' \subseteq Heights /\ unchecked' \subseteq Heights
    <3>1. height' \in 0..MaxHeight /\ next' \in 0..MaxHeight
      BY <1>0, <1>11, ChainOf DEF Crash, Heights
    <3>2. crashes' \in 0..MaxCrashes
      BY <1>0, <1>11 DEF Crash, TypeOK
    <3>3. reported' \subseteq reported /\ unchecked' \subseteq unchecked
      BY <1>11 DEF Crash
    <3> QED BY <3>1, <3>2, <3>3 DEF TypeOK
  <2>2. /\ <<>> \in Seq(Hashes) /\ Len(<<>>) = 0 /\ 0 \in 0..ParallelBlocks
        /\ queue' = <<>> /\ Len(queue') <= Cap
        /\ fetch' = [at |-> "idle", want |-> 0, got |-> <<>>]
        /\ \A i \in DOMAIN queue' : queue'[i].blocks \in Seq(Hashes)
    BY <1>0, <1>11 DEF Crash, Idle
  <2> QED BY <1>11, <2>1, <2>2 DEF Crash, TypeOK
<1> QED BY <1>1, <1>2, <1>3, <1>4, <1>5, <1>6, <1>7, <1>8, <1>9, <1>10, <1>11 DEF Next

LEMMA QueueKept ==
  ASSUME ReorgAssumption, TypeOK, QueueLine, StoredLine, Next PROVE QueueLine'
<1> USE DEF daemon, fetcher, disk
<1>0. /\ MaxHeight \in Nat \ {0} /\ ParallelBlocks \in Nat \ {0} /\ Cap \in Nat \ {0}
      /\ height \in 0..MaxHeight /\ next \in 0..MaxHeight /\ cursor \in 0..MaxHeight
      /\ fetch \in [at : {"idle", "asking", "parse", "send"}, want : 0..ParallelBlocks,
                    got : Seq(Hashes)]
      /\ next + fetch.want <= MaxHeight
      /\ queue \in Seq(Batch) /\ Len(queue) \in Nat
  BY DEF ReorgAssumption, TypeOK, QueueLine
<1>1. CASE ChainGrows \/ ChainForks \/ MonitorPoll
  BY <1>1 DEF ChainGrows, ChainForks, MonitorPoll, QueueLine
<1>2. CASE Ask
  <2>1. PICK w \in 1..ParallelBlocks :
          /\ next + w <= height
          /\ fetch' = [at |-> "asking", want |-> w, got |-> <<>>]
    BY <1>2, Wanted
  <2>2. /\ next + fetch'.want <= MaxHeight /\ fetch'.at = "asking"
        /\ Len(fetch'.got) < fetch'.want /\ fetch'.want > 0
    BY <1>0, <2>1
  <2> QED BY <1>2, <2>2 DEF Ask, QueueLine
<1>3. CASE Answer
  <2>1. PICK b \in {At(next + Len(fetch.got) + 1), Hole} :
          fetch' = [fetch EXCEPT !.got = Append(fetch.got, b),
                                 !.at = IF Len(Append(fetch.got, b)) = fetch.want
                                        THEN "parse" ELSE @]
    BY <1>3 DEF Answer
  <2>2. b \in Hashes
    BY <1>0, ChainOf, BatchOf, Hashed
  <2>3. /\ Len(fetch.got) < fetch.want /\ fetch.want \in Nat /\ fetch.got \in Seq(Hashes)
        /\ fetch.at = "asking" /\ Len(fetch.got) \in Nat
    BY <1>3 DEF Answer, QueueLine, TypeOK
  <2>4. Len(Append(fetch.got, b)) = Len(fetch.got) + 1
    BY <2>2, <2>3
  <2>5. /\ fetch'.want = fetch.want /\ fetch'.got = Append(fetch.got, b)
        /\ fetch'.at = IF Len(Append(fetch.got, b)) = fetch.want THEN "parse" ELSE "asking"
    BY <1>0, <2>1, <2>3
  <2>6. /\ fetch'.at = "asking" => Len(fetch'.got) < fetch'.want
        /\ fetch'.at = "parse" => Len(fetch'.got) = fetch'.want
        /\ fetch'.at \in {"asking", "parse"}
        /\ next + fetch'.want <= MaxHeight /\ fetch'.want > 0
    BY <1>0, <2>3, <2>4, <2>5
  <2> QED BY <1>3, <2>6 DEF Answer, QueueLine
<1>4. CASE AskFails
  <2>1. fetch' = Idle /\ Idle.at = "idle" /\ Idle.want = 0
    BY <1>4 DEF AskFails, Idle
  <2>2. next + fetch'.want <= MaxHeight
    BY <1>0, <2>1
  <2> QED BY <1>4, <2>1, <2>2 DEF AskFails, QueueLine
<1>5. CASE FetchSingle
  <2>1. fetch' = [at |-> "parse", want |-> 1, got |-> <<At(next + 1)>>]
    BY <1>5 DEF FetchSingle
  <2>2. next + 1 <= MaxHeight
    BY <1>0, <1>5, ChainOf DEF FetchSingle, Heights
  <2>3. /\ next + fetch'.want <= MaxHeight /\ Len(fetch'.got) = fetch'.want
        /\ fetch'.at = "parse" /\ fetch'.want > 0
    BY <2>1, <2>2
  <2> QED BY <1>5, <2>3 DEF FetchSingle, QueueLine
<1>6. CASE Parse
  <2>1. fetch.at = "parse" /\ fetch' = [fetch EXCEPT !.at = "send"]
    BY <1>6 DEF Parse
  <2>2. fetch'.at = "send" /\ fetch'.want = fetch.want /\ fetch'.got = fetch.got
    BY <1>0, <2>1
  <2> QED BY <1>6, <2>1, <2>2 DEF Parse, QueueLine
<1>7. CASE Send
  <2>1. /\ fetch.at = "send" /\ Len(queue) < Cap /\ next' = next + fetch.want
        /\ queue' = Append(queue, Fetched) /\ fetch' = Idle /\ cursor' = cursor
        /\ Idle.at = "idle" /\ Idle.want = 0
    BY <1>7 DEF Send, Fetched, Idle
  <2>2. Len(fetch.got) = fetch.want
    BY <2>1 DEF QueueLine
  <2>3. Fetched.from = next + 1 /\ Last(Fetched) = next + fetch.want
    <3>1. \A n, w \in Int : (n + 1) + w - 1 = n + w
      OBVIOUS
    <3> QED BY <1>0, <2>2, <3>1 DEF Last, Fetched
  <2>4. Fetched \in Batch /\ next + fetch.want \in Int
    <3>1. fetch.want > 0
      BY <2>1 DEF QueueLine
    <3>2. next + 1 \in Heights
      BY <1>0, <3>1 DEF Heights
    <3> QED BY <1>0, <3>2 DEF Fetched, Batch
  <2>5. /\ queue' \in Seq(Batch) /\ Len(queue') = Len(queue) + 1
        /\ \A i \in 1..Len(queue) : queue'[i] = queue[i]
        /\ queue'[Len(queue) + 1] = Fetched
    BY <1>0, <2>1, <2>4
  <2>6. Len(queue') <= Cap /\ queue' # <<>>
    BY <1>0, <2>1, <2>5
  <2>7. next = IF queue = <<>> THEN cursor ELSE Last(queue[Len(queue)])
    BY DEF QueueLine
  <2>8. ASSUME NEW i \in 1..Len(queue')
        PROVE  /\ queue'[i].from = (IF i = 1 THEN cursor' ELSE Last(queue'[i - 1])) + 1
               /\ Last(queue'[i]) <= MaxHeight
    <3>1. CASE i \in 1..Len(queue)
      <4>1. /\ queue[i].from = (IF i = 1 THEN cursor ELSE Last(queue[i - 1])) + 1
            /\ Last(queue[i]) <= MaxHeight
        BY <3>1 DEF QueueLine
      <4>2. i # 1 => i - 1 \in 1..Len(queue)
        BY <1>0, <3>1
      <4>3. queue'[i] = queue[i] /\ (i # 1 => queue'[i - 1] = queue[i - 1])
        BY <2>5, <3>1, <4>2
      <4> QED BY <2>1, <4>1, <4>3
    <3>2. CASE i = Len(queue) + 1
      <4>1. queue'[i] = Fetched /\ Last(Fetched) <= MaxHeight
        BY <1>0, <2>3, <2>5, <3>2
      <4>2. CASE queue = <<>>
        BY <1>0, <2>1, <2>3, <2>7, <3>2, <4>1, <4>2
      <4>3. CASE queue # <<>>
        <5>1. i # 1 /\ i - 1 = Len(queue) /\ i - 1 \in 1..Len(queue)
          BY <1>0, <3>2, <4>3
        <5>2. queue'[i - 1] = queue[Len(queue)]
          BY <2>5, <5>1
        <5> QED BY <2>3, <2>7, <4>1, <4>3, <5>1, <5>2
      <4> QED BY <4>2, <4>3
    <3> QED BY <1>0, <2>5, <3>1, <3>2
  <2>9. next' = Last(queue'[Len(queue')]) /\ next' + fetch'.want <= MaxHeight
    <3>1. next' = Last(Fetched)
      BY <2>1, <2>3
    <3>2. next + fetch.want + 0 <= MaxHeight
      BY <1>0
    <3> QED BY <1>0, <2>1, <2>5, <3>1, <3>2
  <2> QED BY <2>1, <2>5, <2>6, <2>8, <2>9 DEF QueueLine
<1>8. CASE Flush
  <2>1. /\ 1 \in 1..Len(queue) /\ queue[1].from = cursor + 1
        /\ cursor' = cursor + Len(queue[1].blocks) /\ Len(queue[1].blocks) \in Nat
        /\ queue' \in Seq(Batch) /\ Len(queue') = Len(queue) - 1
        /\ \A i \in 1..Len(queue') : queue'[i] = queue[i + 1]
    BY <1>8, Flushed
  <2>2. next' = next /\ fetch' = fetch /\ Len(queue) <= Cap
    BY <1>8 DEF Flush, QueueLine
  <2>3. cursor' = Last(queue[1])
    <3>1. \A n, w \in Int : (n + 1) + w - 1 = n + w
      OBVIOUS
    <3>2. cursor \in Int /\ Len(queue[1].blocks) \in Int
      BY <1>0, <2>1
    <3>3. (cursor + 1) + Len(queue[1].blocks) - 1 = cursor + Len(queue[1].blocks)
      BY <3>1, <3>2
    <3> QED BY <2>1, <3>3 DEF Last
  <2>4. ASSUME NEW i \in 1..Len(queue')
        PROVE  /\ queue'[i].from = (IF i = 1 THEN cursor' ELSE Last(queue'[i - 1])) + 1
               /\ Last(queue'[i]) <= MaxHeight
    <3>1. i + 1 \in 1..Len(queue) /\ i + 1 # 1 /\ (i + 1) - 1 = i
      BY <1>0, <2>1
    <3>2. queue[i + 1].from = Last(queue[i]) + 1 /\ Last(queue[i + 1]) <= MaxHeight
      BY <3>1 DEF QueueLine
    <3>3. i # 1 => queue'[i - 1] = queue[i]
      <4> HAVE i # 1
      <4>1. i - 1 \in 1..Len(queue') /\ (i - 1) + 1 = i
        BY <1>0, <2>1
      <4> QED BY <2>1, <4>1
    <3> QED BY <2>1, <2>3, <3>2, <3>3
  <2>5. next' = IF queue' = <<>> THEN cursor' ELSE Last(queue'[Len(queue')])
    <3>1. next = Last(queue[Len(queue)])
      BY <1>0, <2>1 DEF QueueLine
    <3>2. CASE queue' = <<>>
      <4>1. Len(queue) = 1
        BY <1>0, <2>1, <3>2
      <4> QED BY <2>2, <2>3, <3>1, <3>2, <4>1
    <3>3. CASE queue' # <<>>
      <4>1. Len(queue') \in 1..Len(queue') /\ Len(queue') + 1 = Len(queue)
        BY <1>0, <2>1, <3>3
      <4> QED BY <2>1, <2>2, <3>1, <3>3, <4>1
    <3> QED BY <3>2, <3>3
  <2>6. Len(queue') <= Cap
    BY <1>0, <2>1, <2>2
  <2> QED BY <2>1, <2>2, <2>4, <2>5, <2>6 DEF QueueLine
<1>9. CASE Crash
  <2>1. /\ queue' = <<>> /\ next' = cursor /\ cursor' = cursor /\ fetch' = Idle
        /\ Idle.at = "idle" /\ Idle.want = 0 /\ <<>> \in Seq(Batch) /\ Len(<<>>) = 0
    BY <1>9 DEF Crash, Idle
  <2>2. next' + fetch'.want <= MaxHeight /\ Len(queue') <= Cap
    BY <1>0, <2>1
  <2>3. \A i \in 1..Len(queue') : FALSE
    BY <2>1
  <2> QED BY <2>1, <2>2, <2>3 DEF QueueLine
<1> QED BY <1>1, <1>2, <1>3, <1>4, <1>5, <1>6, <1>7, <1>8, <1>9 DEF Next

LEMMA StoredKept ==
  ASSUME ReorgAssumption, TypeOK, QueueLine, StoredLine, Next PROVE StoredLine'
<1>1. CASE Flush
  <2>1. /\ cursor \in Nat /\ cursor' \in Nat /\ cursor <= cursor' /\ MaxHeight \in Nat
        /\ \A h \in 0..MaxHeight : h <= cursor \/ h > cursor' => stored'[h] = stored[h]
    BY <1>1, Flushed
  <2> SUFFICES ASSUME NEW h \in 0..MaxHeight, h = 0 \/ h > cursor' PROVE stored'[h] = Hole
    BY DEF StoredLine
  <2>2. stored[h] = Hole
    BY <2>1 DEF StoredLine
  <2> QED BY <2>1, <2>2
<1>2. CASE UNCHANGED disk
  BY <1>2 DEF disk, StoredLine
<1>3. Next => Flush \/ UNCHANGED disk
  BY DEF Next, ChainGrows, ChainForks, MonitorPoll, Ask, Answer, AskFails, FetchSingle,
         Parse, Send, Crash
<1> QED BY <1>1, <1>2, <1>3

\* What was compared stays compared: a stored block is never replaced.
LEMMA ComparedStays ==
  ASSUME ReorgAssumption, TypeOK, QueueLine, ComparedLine,
         reported \subseteq reported', unchecked \subseteq unchecked',
         \A h \in 0..MaxHeight : stored[h] # Hole => stored'[h] = stored[h]
  PROVE  /\ \A h \in Heights : ComparedAfter(h, stored[h])
         /\ \A i \in 1..Len(queue) : \A j \in 1..Len(queue[i].blocks) :
              ComparedAfter(queue[i].from + j - 1, queue[i].blocks[j])
         /\ fetch.at = "send" =>
              \A i \in 1..Len(fetch.got) : ComparedAfter(next + i, fetch.got[i])
<1>1. ASSUME NEW h \in Heights, NEW b \in Hashes, Compared(h, b)
      PROVE  ComparedAfter(h, b)
  <2>1. h - 1 \in 0..MaxHeight
    BY DEF Heights, ReorgAssumption
  <2> QED BY <1>1, <2>1 DEF Compared, ComparedAfter
<1>2. ASSUME NEW h \in Heights PROVE ComparedAfter(h, stored[h])
  <2>1. stored[h] \in Hashes
    BY DEF TypeOK, Heights, ReorgAssumption
  <2> QED BY <1>1, <2>1 DEF ComparedLine
<1>3. ASSUME NEW i \in 1..Len(queue), NEW j \in 1..Len(queue[i].blocks)
      PROVE  ComparedAfter(queue[i].from + j - 1, queue[i].blocks[j])
  <2>1. queue[i].from + j - 1 \in Heights /\ queue[i].blocks[j] \in Hashes
    BY BatchOf
  <2>2. Compared(queue[i].from + j - 1, queue[i].blocks[j])
    BY DEF ComparedLine, ComparedIn
  <2> QED BY <1>1, <2>1, <2>2
<1>4. ASSUME fetch.at = "send", NEW i \in 1..Len(fetch.got)
      PROVE  ComparedAfter(next + i, fetch.got[i])
  <2>1. /\ next + i \in Heights /\ fetch.got[i] \in Hashes /\ next \in Int
        /\ Fetched.blocks = fetch.got /\ Fetched.from = next + 1
    BY BatchOf
  <2>2. (next + 1) + i - 1 = next + i
    BY <2>1
  <2>3. Compared(next + i, fetch.got[i])
    BY <1>4, <2>1, <2>2 DEF ComparedLine, ComparedIn
  <2> QED BY <1>1, <2>1, <2>3
<1> QED BY <1>2, <1>3, <1>4

LEMMA ComparedKept ==
  ASSUME ReorgAssumption, TypeOK, QueueLine, StoredLine, ComparedLine, Next
  PROVE  ComparedLine'
<1> USE DEF daemon, fetcher, disk
<1>1. CASE ChainGrows \/ ChainForks \/ MonitorPoll
  BY <1>1 DEF ChainGrows, ChainForks, MonitorPoll, ComparedLine, ComparedIn, Compared,
              Fetched
<1>2. CASE Ask \/ Answer \/ AskFails \/ FetchSingle
  <2>1. UNCHANGED <<queue, stored, reported, unchecked>>
    BY <1>2 DEF Ask, Answer, AskFails, FetchSingle
  <2>2. fetch'.at # "send"
    <3>1. CASE Ask \/ AskFails \/ FetchSingle
      BY <3>1 DEF Ask, AskFails, FetchSingle, Idle
    <3>2. CASE Answer
      BY <3>2 DEF Answer, TypeOK
    <3> QED BY <1>2, <3>1, <3>2
  <2> QED BY <2>1, <2>2 DEF ComparedLine, ComparedIn, Compared
<1>3. CASE Parse
  <2>1. UNCHANGED <<queue, stored, next>>
    BY <1>3 DEF Parse
  <2>2. /\ reported \subseteq reported' /\ unchecked \subseteq unchecked'
        /\ fetch' = [fetch EXCEPT !.at = "send"]
        /\ \A i \in 1..Len(fetch.got) : ComparedAfter(next + i, fetch.got[i])
    BY <1>3, Parsed
  <2>3. /\ \A h \in Heights : ComparedAfter(h, stored[h])
        /\ \A i \in 1..Len(queue) : \A j \in 1..Len(queue[i].blocks) :
             ComparedAfter(queue[i].from + j - 1, queue[i].blocks[j])
    BY <2>1, <2>2, ComparedStays
  <2>4. Fetched' = [from |-> next + 1, blocks |-> fetch.got] /\ next \in Int
    BY <2>1, <2>2 DEF Fetched, TypeOK
  <2>5. ASSUME NEW i \in 1..Len(fetch.got)
        PROVE  ComparedAfter((next + 1) + i - 1, fetch.got[i])
    <3>1. (next + 1) + i - 1 = next + i
      BY <2>4
    <3> QED BY <2>2, <3>1
  <2>6. ComparedIn(Fetched)'
    BY <2>4, <2>5 DEF ComparedIn, Compared, ComparedAfter
  <2>7. \A i \in 1..Len(queue') : ComparedIn(queue[i])'
    BY <2>1, <2>3 DEF ComparedIn, Compared, ComparedAfter
  <2>8. \A h \in Heights : Compared(h, stored[h])'
    BY <2>1, <2>3 DEF Compared, ComparedAfter
  <2> QED BY <2>6, <2>7, <2>8 DEF ComparedLine
<1>4. CASE Send
  <2>1. /\ fetch.at = "send" /\ queue' = Append(queue, Fetched) /\ fetch' = Idle
        /\ UNCHANGED <<stored, reported, unchecked>> /\ Idle.at # "send"
    BY <1>4 DEF Send, Fetched, Idle
  <2>2. queue \in Seq(Batch)
    BY DEF QueueLine
  <2>3. /\ Len(queue') = Len(queue) + 1 /\ Len(queue) \in Nat
        /\ \A i \in 1..Len(queue) : queue'[i] = queue[i]
        /\ queue'[Len(queue) + 1] = Fetched
    BY <2>1, <2>2
  <2>4. ASSUME NEW i \in 1..Len(queue') PROVE ComparedIn(queue'[i])
    <3>1. CASE i \in 1..Len(queue)
      BY <2>3, <3>1 DEF ComparedLine
    <3>2. CASE i = Len(queue) + 1
      BY <2>1, <2>3, <3>2 DEF ComparedLine
    <3> QED BY <2>3, <3>1, <3>2
  <2>5. \A i \in 1..Len(queue') : ComparedIn(queue[i])'
    BY <2>1, <2>4 DEF ComparedIn, Compared
  <2>6. \A h \in Heights : Compared(h, stored[h])'
    BY <2>1 DEF ComparedLine, Compared
  <2> QED BY <2>1, <2>5, <2>6 DEF ComparedLine
<1>5. CASE Flush
  <2>1. UNCHANGED <<next, fetch, reported, unchecked>>
    BY <1>5 DEF Flush
  <2> DEFINE q == queue[1].blocks
  <2>2. /\ 1 \in 1..Len(queue) /\ queue[1].from = cursor + 1 /\ Len(q) \in Nat
        /\ cursor' = cursor + Len(q) /\ cursor \in Nat /\ MaxHeight \in Nat
        /\ cursor' \in 0..MaxHeight
        /\ \A i \in 1..Len(q) :
             stored'[cursor + i] = IF q[i] = Hole THEN stored[cursor + i] ELSE q[i]
        /\ \A h \in 0..MaxHeight : h <= cursor \/ h > cursor' => stored'[h] = stored[h]
        /\ Len(queue') = Len(queue) - 1 /\ Len(queue) \in Nat
        /\ \A i \in 1..Len(queue') : queue'[i] = queue[i + 1]
    BY <1>5, Flushed
  <2>3. \A h \in 0..MaxHeight : stored[h] # Hole => stored'[h] = stored[h]
    <3> SUFFICES ASSUME NEW h \in 0..MaxHeight, stored[h] # Hole PROVE stored'[h] = stored[h]
      OBVIOUS
    <3>1. h <= cursor
      BY <2>2 DEF StoredLine
    <3> QED BY <2>2, <3>1
  <2>4. /\ \A h \in Heights : ComparedAfter(h, stored[h])
        /\ \A i \in 1..Len(queue) : \A j \in 1..Len(queue[i].blocks) :
             ComparedAfter(queue[i].from + j - 1, queue[i].blocks[j])
        /\ fetch.at = "send" =>
             \A i \in 1..Len(fetch.got) : ComparedAfter(next + i, fetch.got[i])
    BY <2>1, <2>3, ComparedStays
  <2>5. ASSUME NEW h \in Heights PROVE ComparedAfter(h, stored'[h])
    <3>0. h \in 0..MaxHeight /\ h \in Int
      BY DEF Heights
    <3>1. CASE h <= cursor \/ h > cursor'
      BY <2>2, <2>4, <3>0, <3>1
    <3>2. CASE h > cursor /\ h <= cursor'
      <4>1. h - cursor \in 1..Len(q) /\ cursor + (h - cursor) = h
            /\ (cursor + 1) + (h - cursor) - 1 = h
        BY <2>2, <3>0, <3>2
      <4>2. stored'[h] = IF q[h - cursor] = Hole THEN stored[h] ELSE q[h - cursor]
        BY <2>2, <4>1
      <4>3. ComparedAfter(h, q[h - cursor])
        BY <2>2, <2>4, <4>1
      <4> QED BY <2>4, <4>2, <4>3
    <3> QED BY <2>2, <3>0, <3>1, <3>2
  <2>6. ASSUME NEW i \in 1..Len(queue')
        PROVE  \A j \in 1..Len(queue'[i].blocks) :
                 ComparedAfter(queue'[i].from + j - 1, queue'[i].blocks[j])
    <3>1. i + 1 \in 1..Len(queue) /\ queue'[i] = queue[i + 1]
      BY <2>2
    <3> QED BY <2>4, <3>1
  <2>7. \A i \in 1..Len(queue') : ComparedIn(queue[i])'
    BY <2>6 DEF ComparedIn, Compared, ComparedAfter
  <2>8. \A h \in Heights : Compared(h, stored[h])'
    BY <2>5 DEF Compared, ComparedAfter
  <2>9. fetch'.at = "send" => ComparedIn(Fetched)'
    <3>1. ASSUME fetch.at = "send", NEW i \in 1..Len(fetch.got)
          PROVE  ComparedAfter((next + 1) + i - 1, fetch.got[i])
      <4>1. (next + 1) + i - 1 = next + i
        BY BatchOf
      <4> QED BY <2>4, <3>1, <4>1
    <3> QED BY <2>1, <3>1 DEF ComparedIn, Compared, ComparedAfter, Fetched
  <2> QED BY <2>7, <2>8, <2>9 DEF ComparedLine
<1>6. CASE Crash
  <2>1. /\ queue' = <<>> /\ fetch' = Idle /\ Idle.at # "send" /\ UNCHANGED <<stored, cursor>>
        /\ unchecked' = {h \in unchecked : h <= cursor}
        /\ reported' = {h \in reported : h < cursor}
    BY <1>6 DEF Crash, Idle
  <2>2. ASSUME NEW h \in Heights PROVE ComparedAfter(h, stored[h])
    <3>1. h \in 0..MaxHeight /\ cursor \in Int /\ h \in Int
      BY DEF Heights, TypeOK, ReorgAssumption
    <3>2. CASE h > cursor
      BY <3>1, <3>2 DEF StoredLine, ComparedAfter
    <3>3. CASE h <= cursor
      <4>1. h - 1 < cursor
        BY <3>1, <3>3
      <4> QED BY <2>1, <3>3, <4>1 DEF ComparedLine, Compared, ComparedAfter
    <3> QED BY <3>1, <3>2, <3>3
  <2>3. \A h \in Heights : Compared(h, stored[h])'
    BY <2>1, <2>2 DEF Compared, ComparedAfter
  <2>4. \A i \in 1..Len(queue') : FALSE
    BY <2>1
  <2> QED BY <2>1, <2>3, <2>4 DEF ComparedLine
<1> QED BY <1>1, <1>2, <1>3, <1>4, <1>5, <1>6 DEF Next

\* A copy in the next state, for a block of this one.
CopyAfter(h, b) ==
  b = Hole \/ /\ b.branch <= forks'
              /\ b.branch = Tip' => h <= Len(chain')
              /\ h <= Len(chain') /\ b.branch = chain'[h].branch => b = chain'[h]

\* A new block, or a new branch, changes no block that was copied.
LEMMA GrowthCopies ==
  ASSUME ReorgAssumption, TypeOK, Linked, ChainGrows
  PROVE  Linked' /\ \A h \in Heights, b \in Hashes : Copy(h, b) => CopyAfter(h, b)
<1> DEFINE n == Len(chain)
<1>1. /\ n \in 1..n /\ n \in Nat /\ Len(chain') = n + 1 /\ Tip = chain[n].branch
      /\ \A h \in 1..n : chain'[h] = chain[h] /\ chain[h].branch \in Int
      /\ chain'[n + 1] = [branch |-> Tip, parent |-> Tip]
      /\ chain'[n + 1].branch = Tip /\ chain'[n + 1].parent = Tip /\ Tip \in Int
  <2>1. \A h \in 1..n : chain[h].branch \in Int
    BY ChainOf, Hashed DEF Branches
  <2>2. n \in 1..n /\ n \in Nat
    BY ChainOf DEF Heights, ReorgAssumption
  <2> QED BY <2>1, <2>2, Grown DEF Tip, Branches
<1>2. forks' = forks /\ Tip = forks /\ forks \in Int
  BY DEF ChainGrows, Linked, TypeOK
<1>3. Tip' = Tip
  BY <1>1 DEF Tip
<1>4. Linked'
  <2>1. ASSUME NEW h \in 1..Len(chain') PROVE chain'[h].branch <= forks'
    <3>1. CASE h \in 1..n
      BY <1>1, <1>2, <3>1 DEF Linked
    <3>2. CASE h = n + 1
      BY <1>1, <1>2, <3>2
    <3> QED BY <1>1, <3>1, <3>2
  <2>2. ASSUME NEW h \in 2..Len(chain') PROVE chain'[h].parent = chain'[h - 1].branch
    <3>1. CASE h \in 2..n
      <4>1. h \in 1..n /\ h - 1 \in 1..n
        BY <1>1, <3>1
      <4> QED BY <1>1, <3>1, <4>1 DEF Linked
    <3>2. CASE h = n + 1
      <4>1. h - 1 = n
        BY <1>1, <3>2
      <4> QED BY <1>1, <3>2, <4>1
    <3> QED BY <1>1, <3>1, <3>2
  <2> QED BY <1>2, <1>3, <2>1, <2>2 DEF Linked
<1>5. ASSUME NEW h \in Heights, NEW b \in Hashes, Copy(h, b) PROVE CopyAfter(h, b)
  <2>1. CASE b = Hole
    BY <2>1 DEF CopyAfter
  <2>2. CASE b # Hole
    <3>1. /\ b.branch <= forks /\ (b.branch = Tip => h <= n)
          /\ h <= n /\ b.branch = chain[h].branch => b = chain[h]
      BY <1>5, <2>2 DEF Copy
    <3>2. h \in 1..n \/ h = n + 1 \/ h > n + 1
      BY <1>1 DEF Heights
    <3>3. h \in Int /\ (h \in 1..n => chain'[h] = chain[h])
      BY <1>1 DEF Heights
    <3>4. b.branch = Tip' => h <= Len(chain')
      BY <1>1, <1>3, <3>1, <3>3
    <3>5. ASSUME h <= Len(chain'), b.branch = chain'[h].branch PROVE b = chain'[h]
      <4>1. CASE h = n + 1
        BY <1>1, <3>1, <3>5, <4>1
      <4>2. CASE h \in 1..n
        BY <1>1, <3>1, <3>3, <3>5, <4>2
      <4> QED BY <1>1, <3>2, <3>3, <3>5, <4>1, <4>2
    <3> QED BY <1>2, <3>1, <3>4, <3>5 DEF CopyAfter
  <2> QED BY <2>1, <2>2
<1> QED BY <1>4, <1>5

LEMMA ForkCopies ==
  ASSUME ReorgAssumption, TypeOK, Linked, ChainForks
  PROVE  Linked' /\ \A h \in Heights, b \in Hashes : Copy(h, b) => CopyAfter(h, b)
<1> DEFINE n == Len(chain)
           m == Len(chain')
<1>1. PICK k \in 0..(n - 1) :
        /\ m \in Heights /\ m > k
        /\ \A h \in 1..k : chain'[h] = chain[h]
        /\ \A h \in 1..m : h > k =>
             /\ chain'[h].branch = forks + 1
             /\ chain'[h].parent = IF h = k + 1 /\ k > 0 THEN chain[k].branch ELSE forks + 1
  BY Forked
<1>2. /\ forks \in Nat /\ forks' = forks + 1 /\ n \in Nat /\ k \in Nat /\ k < n
      /\ m \in Nat /\ m \in 1..m /\ m > k
      /\ \A h \in 1..n : chain[h].branch \in Int /\ chain[h].branch <= forks
  <2>1. \A h \in 1..n : chain[h].branch \in Int
    BY ChainOf, Hashed DEF Branches
  <2>2. n \in Nat /\ m \in Nat /\ m >= 1 /\ forks \in Nat
    BY <1>1, ChainOf DEF Heights, ReorgAssumption, TypeOK
  <2> QED BY <1>1, <2>1, <2>2, Forked DEF Linked
<1>3. Tip' = forks + 1
  BY <1>1, <1>2 DEF Tip
<1>4. Linked'
  <2>1. ASSUME NEW h \in 1..m PROVE chain'[h].branch <= forks'
    <3>1. CASE h <= k
      <4>1. h \in 1..k /\ h \in 1..n
        BY <1>2, <3>1
      <4>2. chain'[h].branch = chain[h].branch /\ chain[h].branch <= forks
            /\ chain[h].branch \in Int
        BY <1>1, <1>2, <4>1
      <4> QED BY <1>2, <4>2
    <3>2. CASE h > k
      BY <1>1, <1>2, <3>2
    <3> QED BY <1>2, <3>1, <3>2
  <2>2. ASSUME NEW h \in 2..m PROVE chain'[h].parent = chain'[h - 1].branch
    <3>1. CASE h <= k
      <4>1. h \in 1..k /\ h - 1 \in 1..k /\ h \in 2..n
        BY <1>2, <3>1
      <4> QED BY <1>1, <4>1 DEF Linked
    <3>2. CASE h = k + 1
      <4>1. h \in 1..m /\ h > k /\ k > 0 /\ k \in 1..k /\ h - 1 = k
        BY <1>2, <3>2
      <4>2. chain'[h].parent = chain[k].branch
        BY <1>1, <3>2, <4>1
      <4> QED BY <1>1, <4>1, <4>2
    <3>3. CASE h > k + 1
      <4>1. h \in 1..m /\ h > k /\ h - 1 \in 1..m /\ h - 1 > k /\ h # k + 1
        BY <1>2, <3>3
      <4> QED BY <1>1, <4>1
    <3> QED BY <1>2, <3>1, <3>2, <3>3
  <2> QED BY <1>2, <1>3, <2>1, <2>2 DEF Linked
<1>5. ASSUME NEW h \in Heights, NEW b \in Hashes, Copy(h, b) PROVE CopyAfter(h, b)
  <2>1. CASE b = Hole
    BY <2>1 DEF CopyAfter
  <2>2. CASE b # Hole
    <3>1. /\ b.branch <= forks /\ b.branch \in Int
          /\ h <= n /\ b.branch = chain[h].branch => b = chain[h]
      BY <1>5, <2>2, Hashed DEF Copy
    <3>2. b.branch <= forks' /\ b.branch # Tip' /\ b.branch # forks + 1
      BY <1>2, <1>3, <3>1
    <3>3. ASSUME h <= m, b.branch = chain'[h].branch PROVE b = chain'[h]
      <4>1. h \in 1..m
        BY <1>2, <3>3 DEF Heights
      <4>2. h <= k
        BY <1>1, <1>2, <3>2, <3>3, <4>1
      <4>3. h \in 1..k /\ h <= n
        BY <1>2, <4>1, <4>2
      <4> QED BY <1>1, <3>1, <3>3, <4>3
    <3> QED BY <3>2, <3>3 DEF CopyAfter
  <2> QED BY <2>1, <2>2
<1> QED BY <1>4, <1>5

\* What the store, the queue and the fetcher hold are copies in the next state too.
LEMMA CopiesStay ==
  ASSUME ReorgAssumption, TypeOK, QueueLine, CopyLine,
         ChainGrows \/ ChainForks \/ UNCHANGED daemon
  PROVE  /\ Linked'
         /\ \A h \in Heights : CopyAfter(h, stored[h])
         /\ \A i \in 1..Len(queue) : \A j \in 1..Len(queue[i].blocks) :
              CopyAfter(queue[i].from + j - 1, queue[i].blocks[j])
         /\ \A i \in 1..Len(fetch.got) : CopyAfter((next + 1) + i - 1, fetch.got[i])
<1>1. Linked' /\ \A h \in Heights, b \in Hashes : Copy(h, b) => CopyAfter(h, b)
  <2>1. CASE UNCHANGED daemon
    BY <2>1 DEF CopyLine, daemon, Linked, Copy, CopyAfter, Tip
  <2> QED BY <2>1, GrowthCopies, ForkCopies DEF CopyLine
<1>2. ASSUME NEW h \in Heights PROVE CopyAfter(h, stored[h])
  <2>1. stored[h] \in Hashes
    BY DEF TypeOK, Heights, ReorgAssumption
  <2> QED BY <1>1, <2>1 DEF CopyLine
<1>3. ASSUME NEW i \in 1..Len(queue), NEW j \in 1..Len(queue[i].blocks)
      PROVE  CopyAfter(queue[i].from + j - 1, queue[i].blocks[j])
  <2>1. queue[i].from + j - 1 \in Heights /\ queue[i].blocks[j] \in Hashes
    BY BatchOf
  <2>2. Copy(queue[i].from + j - 1, queue[i].blocks[j])
    BY DEF CopyLine, CopiesIn
  <2> QED BY <1>1, <2>1, <2>2
<1>4. ASSUME NEW i \in 1..Len(fetch.got) PROVE CopyAfter((next + 1) + i - 1, fetch.got[i])
  <2>1. /\ next + i \in Heights /\ fetch.got[i] \in Hashes /\ next \in Int
        /\ Fetched.blocks = fetch.got /\ Fetched.from = next + 1
    BY BatchOf
  <2>2. (next + 1) + i - 1 \in Heights
    <3>1. (next + 1) + i - 1 = next + i
      BY <2>1
    <3> QED BY <2>1, <3>1
  <2>3. Copy((next + 1) + i - 1, fetch.got[i])
    BY <2>1 DEF CopyLine, CopiesIn
  <2> QED BY <1>1, <2>1, <2>2, <2>3
<1> QED BY <1>1, <1>2, <1>3, <1>4

\* What the daemon answers is a copy.
LEMMA AnswerCopies ==
  ASSUME ReorgAssumption, TypeOK, Linked
  PROVE  \A h \in Int : Copy(h, Hole) /\ Copy(h, At(h))
<1> SUFFICES ASSUME NEW h \in Int, At(h) # Hole PROVE Copy(h, At(h))
  BY DEF Copy
<1>1. h \in 1..Len(chain) /\ At(h) = chain[h] /\ Len(chain) \in Nat
  BY ChainOf DEF Heights, ReorgAssumption
<1> QED BY <1>1 DEF Copy, Linked

LEMMA CopyKept ==
  ASSUME ReorgAssumption, TypeOK, QueueLine, StoredLine, CopyLine, Next
  PROVE  CopyLine'
<1> USE DEF fetcher, disk
<1>0. Next => ChainGrows \/ ChainForks \/ UNCHANGED daemon
  BY DEF Next, MonitorPoll, Ask, Answer, AskFails, FetchSingle, Parse, Send, Flush, Crash
<1>1. /\ Linked'
      /\ \A h \in Heights : CopyAfter(h, stored[h])
      /\ \A i \in 1..Len(queue) : \A j \in 1..Len(queue[i].blocks) :
           CopyAfter(queue[i].from + j - 1, queue[i].blocks[j])
      /\ \A i \in 1..Len(fetch.got) : CopyAfter((next + 1) + i - 1, fetch.got[i])
  BY <1>0, CopiesStay
<1>2. UNCHANGED stored => \A h \in Heights : Copy(h, stored[h])'
  BY <1>1 DEF Copy, CopyAfter
<1>3. UNCHANGED queue => \A i \in 1..Len(queue') : CopiesIn(queue[i])'
  <2> HAVE UNCHANGED queue
  <2>1. \A i \in 1..Len(queue') : \A j \in 1..Len(queue'[i].blocks) :
          CopyAfter(queue'[i].from + j - 1, queue'[i].blocks[j])
    BY <1>1
  <2> QED BY <2>1 DEF CopiesIn, Copy, CopyAfter
<1>4. UNCHANGED next /\ fetch'.got = fetch.got => CopiesIn(Fetched)'
  BY <1>1 DEF CopiesIn, Copy, CopyAfter, Fetched
<1>5. fetch' = Idle => CopiesIn(Fetched)'
  BY DEF CopiesIn, Fetched, Idle
<1>6. CASE ChainGrows \/ ChainForks \/ MonitorPoll
  BY <1>1, <1>2, <1>3, <1>4, <1>6 DEF ChainGrows, ChainForks, MonitorPoll, CopyLine
<1>7. CASE Ask \/ AskFails
  <2>1. UNCHANGED <<queue, stored>> /\ fetch'.got = <<>>
    BY <1>7, Wanted DEF Ask, AskFails, Idle
  <2>2. CopiesIn(Fetched)'
    BY <2>1 DEF CopiesIn, Fetched
  <2> QED BY <1>1, <1>2, <1>3, <2>1, <2>2 DEF CopyLine
<1>8. CASE Answer
  <2>1. PICK b \in {At(next + Len(fetch.got) + 1), Hole} :
          fetch' = [fetch EXCEPT !.got = Append(fetch.got, b),
                                 !.at = IF Len(Append(fetch.got, b)) = fetch.want
                                        THEN "parse" ELSE @]
    BY <1>8 DEF Answer
  <2>2. UNCHANGED <<next, stored, queue, daemon>>
    BY <1>8 DEF Answer
  <2>3. /\ fetch'.got = Append(fetch.got, b) /\ fetch.got \in Seq(Hashes) /\ b \in Hashes
        /\ next \in Nat /\ Len(fetch.got) \in Nat
    <3>1. b \in Hashes /\ next \in Nat /\ Len(fetch.got) \in Nat
      BY ChainOf, BatchOf, Hashed
    <3> QED BY <2>1, <3>1 DEF TypeOK
  <2>4. /\ Len(fetch'.got) = Len(fetch.got) + 1
        /\ \A i \in 1..Len(fetch.got) : fetch'.got[i] = fetch.got[i]
        /\ fetch'.got[Len(fetch.got) + 1] = b
    BY <2>3
  <2>5. CopyAfter((next + 1) + (Len(fetch.got) + 1) - 1, b)
    <3>1. (next + 1) + (Len(fetch.got) + 1) - 1 = next + Len(fetch.got) + 1
      <4>1. \A m, n \in Nat : (m + 1) + (n + 1) - 1 = m + n + 1
        OBVIOUS
      <4> QED BY <2>3, <4>1
    <3>2. Copy(next + Len(fetch.got) + 1, b)
      BY <2>1, <2>3, AnswerCopies DEF CopyLine
    <3> QED BY <2>2, <3>1, <3>2 DEF Copy, CopyAfter, Tip, daemon
  <2>6. ASSUME NEW i \in 1..Len(fetch'.got)
        PROVE  CopyAfter((next + 1) + i - 1, fetch'.got[i])
    <3>1. i \in 1..Len(fetch.got) \/ i = Len(fetch.got) + 1
      BY <2>3, <2>4
    <3> QED BY <1>1, <2>4, <2>5, <3>1
  <2>7. CopiesIn(Fetched)'
    BY <2>2, <2>6 DEF CopiesIn, Copy, CopyAfter, Fetched
  <2> QED BY <1>1, <1>2, <1>3, <2>2, <2>7 DEF CopyLine
<1>9. CASE FetchSingle
  <2>1. /\ fetch' = [at |-> "parse", want |-> 1, got |-> <<At(next + 1)>>]
        /\ UNCHANGED <<next, stored, queue, daemon>>
    BY <1>9 DEF FetchSingle
  <2>2. fetch'.got = <<At(next + 1)>> /\ next \in Int
    BY <2>1 DEF TypeOK
  <2>3. CopyAfter((next + 1) + 1 - 1, At(next + 1))
    <3>1. (next + 1) + 1 - 1 = next + 1
      BY <2>2
    <3>2. Copy(next + 1, At(next + 1))
      BY <2>2, AnswerCopies DEF CopyLine
    <3> QED BY <2>1, <3>1, <3>2 DEF Copy, CopyAfter, Tip, daemon
  <2>4. ASSUME NEW i \in 1..Len(fetch'.got)
        PROVE  CopyAfter((next + 1) + i - 1, fetch'.got[i])
    <3>1. i = 1 /\ fetch'.got[i] = At(next + 1)
      BY <2>2
    <3> QED BY <2>3, <3>1
  <2>5. CopiesIn(Fetched)'
    BY <2>1, <2>4 DEF CopiesIn, Copy, CopyAfter, Fetched
  <2> QED BY <1>1, <1>2, <1>3, <2>1, <2>5 DEF CopyLine
<1>10. CASE Parse
  <2>1. UNCHANGED <<next, stored, queue>> /\ fetch'.got = fetch.got
    BY <1>10 DEF Parse, TypeOK
  <2> QED BY <1>1, <1>2, <1>3, <1>4, <2>1 DEF CopyLine
<1>11. CASE Send
  <2>1. queue' = Append(queue, Fetched) /\ fetch' = Idle /\ UNCHANGED stored
    BY <1>11 DEF Send, Fetched
  <2>2. queue \in Seq(Batch)
    BY DEF QueueLine
  <2>3. /\ Len(queue') = Len(queue) + 1 /\ Len(queue) \in Nat
        /\ \A i \in 1..Len(queue) : queue'[i] = queue[i]
        /\ queue'[Len(queue) + 1] = Fetched
    BY <2>1, <2>2
  <2>4. \A j \in 1..Len(Fetched.blocks) :
          CopyAfter(Fetched.from + j - 1, Fetched.blocks[j])
    BY <1>1 DEF Fetched
  <2>5. ASSUME NEW i \in 1..Len(queue')
        PROVE  \A j \in 1..Len(queue'[i].blocks) :
                 CopyAfter(queue'[i].from + j - 1, queue'[i].blocks[j])
    <3>1. CASE i \in 1..Len(queue)
      BY <1>1, <2>3, <3>1
    <3>2. CASE i = Len(queue) + 1
      BY <2>3, <2>4, <3>2
    <3> QED BY <2>3, <3>1, <3>2
  <2>6. \A i \in 1..Len(queue') : CopiesIn(queue[i])'
    BY <2>5 DEF CopiesIn, Copy, CopyAfter
  <2> QED BY <1>1, <1>2, <1>5, <2>1, <2>6 DEF CopyLine
<1>12. CASE Flush
  <2> DEFINE q == queue[1].blocks
  <2>1. UNCHANGED <<next, fetch>>
    BY <1>12 DEF Flush
  <2>2. /\ 1 \in 1..Len(queue) /\ queue[1].from = cursor + 1 /\ Len(q) \in Nat
        /\ cursor' = cursor + Len(q) /\ cursor \in Nat /\ cursor' \in Nat
        /\ \A i \in 1..Len(q) :
             stored'[cursor + i] = IF q[i] = Hole THEN stored[cursor + i] ELSE q[i]
        /\ \A h \in 0..MaxHeight : h <= cursor \/ h > cursor' => stored'[h] = stored[h]
        /\ Len(queue') = Len(queue) - 1 /\ Len(queue) \in Nat
        /\ \A i \in 1..Len(queue') : queue'[i] = queue[i + 1]
    BY <1>12, Flushed
  <2>3. ASSUME NEW h \in Heights PROVE CopyAfter(h, stored'[h])
    <3>0. h \in 0..MaxHeight /\ h \in Int
      BY DEF Heights
    <3>1. CASE h <= cursor \/ h > cursor'
      BY <1>1, <2>2, <3>0, <3>1
    <3>2. CASE h > cursor /\ h <= cursor'
      <4>1. h - cursor \in 1..Len(q) /\ cursor + (h - cursor) = h
            /\ (cursor + 1) + (h - cursor) - 1 = h
        BY <2>2, <3>0, <3>2
      <4>2. stored'[h] = IF q[h - cursor] = Hole THEN stored[h] ELSE q[h - cursor]
        BY <2>2, <4>1
      <4>3. CopyAfter(h, q[h - cursor])
        BY <1>1, <2>2, <4>1
      <4> QED BY <1>1, <4>2, <4>3
    <3> QED BY <2>2, <3>0, <3>1, <3>2
  <2>4. ASSUME NEW i \in 1..Len(queue')
        PROVE  \A j \in 1..Len(queue'[i].blocks) :
                 CopyAfter(queue'[i].from + j - 1, queue'[i].blocks[j])
    <3>1. i + 1 \in 1..Len(queue) /\ queue'[i] = queue[i + 1]
      BY <2>2
    <3> QED BY <1>1, <3>1
  <2>5. \A i \in 1..Len(queue') : CopiesIn(queue[i])'
    BY <2>4 DEF CopiesIn, Copy, CopyAfter
  <2>6. \A h \in Heights : Copy(h, stored[h])'
    BY <2>3 DEF Copy, CopyAfter
  <2> QED BY <1>1, <1>4, <2>1, <2>5, <2>6 DEF CopyLine
<1>13. CASE Crash
  <2>1. queue' = <<>> /\ fetch' = Idle /\ UNCHANGED stored
    BY <1>13 DEF Crash
  <2>2. \A i \in 1..Len(queue') : FALSE
    BY <2>1
  <2> QED BY <1>1, <1>2, <1>5, <2>1, <2>2 DEF CopyLine
<1> QED BY <1>6, <1>7, <1>8, <1>9, <1>10, <1>11, <1>12, <1>13 DEF Next

-----------------------------------------------------------------------------
(* The results.                                                            *)

LEMMA ReorgInit == ASSUME ReorgAssumption, Init PROVE ReorgInv
<1>1. /\ MaxHeight \in Nat \ {0} /\ MaxForks \in Nat /\ MaxCrashes \in Nat
      /\ ParallelBlocks \in Nat \ {0} /\ Cap \in Nat \ {0}
  BY DEF ReorgAssumption
<1> DEFINE genesis == [branch |-> 0, parent |-> 0]
<1>2. /\ chain = <<genesis>> /\ forks = 0 /\ height = 1 /\ next = 0 /\ cursor = 0
      /\ fetch = Idle /\ queue = <<>> /\ reported = {} /\ unchecked = {} /\ crashes = 0
      /\ stored = [h \in 0..MaxHeight |-> Hole]
  BY DEF Init
<1>3. /\ genesis \in Block /\ genesis.branch = 0 /\ chain \in Seq(Block)
      /\ Len(chain) = 1 /\ chain[1] = genesis /\ 1 \in Heights
  <2>1. genesis \in Block /\ genesis.branch = 0 /\ 1 \in Heights
    BY <1>1 DEF Block, Branches, Heights
  <2> HIDE DEF genesis
  <2> QED BY <1>2, <2>1
<1>4. /\ Idle.at = "idle" /\ Idle.want = 0 /\ Idle.got = <<>>
      /\ <<>> \in Seq(Hashes) /\ <<>> \in Seq(Batch) /\ Len(<<>>) = 0
      /\ Idle \in [at : {"idle", "asking", "parse", "send"}, want : 0..ParallelBlocks,
                   got : Seq(Hashes)]
  <2>1. 0 \in 0..ParallelBlocks
    BY <1>1
  <2> QED BY <2>1 DEF Idle
<1>5. /\ \A h \in 0..MaxHeight : stored[h] = Hole
      /\ stored \in [0..MaxHeight -> Hashes]
  BY <1>2, Hashed
<1>6. TypeOK
  BY <1>1, <1>2, <1>3, <1>4, <1>5 DEF TypeOK
<1>7. QueueLine
  BY <1>1, <1>2, <1>4 DEF QueueLine
<1>8. StoredLine
  BY <1>5 DEF StoredLine
<1>9. \A h \in Heights : h \in 0..MaxHeight
  BY DEF Heights
<1>10. ComparedLine
  BY <1>2, <1>4, <1>5, <1>9 DEF ComparedLine, Compared
<1>11. CopyLine
  <2>1. Linked
    BY <1>2, <1>3 DEF Linked, Tip
  <2>2. CopiesIn(Fetched)
    BY <1>2, <1>4 DEF CopiesIn, Fetched
  <2> QED BY <1>2, <1>4, <1>5, <1>9, <2>1, <2>2 DEF CopyLine, Copy
<1> QED BY <1>6, <1>7, <1>8, <1>10, <1>11 DEF ReorgInv

LEMMA ReorgStep ==
  ASSUME ReorgAssumption, ReorgInv, [Next]_vars PROVE ReorgInv'
<1>1. CASE Next
  BY <1>1, TypesKept, QueueKept, StoredKept, ComparedKept, CopyKept DEF ReorgInv
<1>2. CASE UNCHANGED vars
  <2>1. UNCHANGED <<chain, forks, height, next, fetch, queue, reported, unchecked, stored,
                    cursor, crashes>>
    BY <1>2 DEF vars, daemon, fetcher, disk
  <2>2. TypeOK' /\ QueueLine' /\ StoredLine'
    BY <2>1 DEF ReorgInv, TypeOK, QueueLine, StoredLine
  <2>3. ComparedLine'
    BY <2>1 DEF ReorgInv, ComparedLine, ComparedIn, Compared, Fetched
  <2>4. CopyLine'
    BY <2>1 DEF ReorgInv, CopyLine, Linked, Tip, CopiesIn, Copy, Fetched
  <2> QED BY <2>2, <2>3, <2>4 DEF ReorgInv
<1> QED BY <1>1, <1>2

\* Two neighbouring stored blocks that do not fit were compared: that is ComparedLine.
LEMMA SplitsAreSeen == ASSUME ReorgAssumption, ReorgInv PROVE SplitsSeen
BY DEF ReorgInv, ComparedLine, Compared, SplitsSeen, Split, Known

\* A stored block on the daemon's chain agrees with it.
LEMMA OnChainAgrees ==
  ASSUME NEW h PROVE OnChain(h) <=> Agrees(h)
BY DEF OnChain, Agrees, Known

\* Under a stored block of the daemon's chain that fits to the one below it, that
\* one is of the daemon's chain too: same branch, same height, same block.
LEMMA FitsBelow ==
  ASSUME ReorgAssumption, ReorgInv, NEW j \in 2..MaxHeight,
         OnChain(j), Known(j - 1), ~Split(j)
  PROVE  OnChain(j - 1)
<1>1. /\ j \in 1..Len(chain) /\ stored[j] = chain[j] /\ Len(chain) \in Nat
      /\ j \in Nat /\ MaxHeight \in Nat /\ j <= MaxHeight
  BY ChainOf DEF ReorgInv, OnChain, Known, Heights, ReorgAssumption
<1>2. /\ j \in 2..Len(chain) /\ j - 1 \in 1..Len(chain) /\ j - 1 \in Heights
      /\ j - 1 <= Len(chain)
  BY <1>1 DEF Heights
<1>3. chain[j].parent = chain[j - 1].branch
  BY <1>2 DEF ReorgInv, CopyLine, Linked
<1>4. stored[j - 1].branch = chain[j - 1].branch
  BY <1>1, <1>3 DEF Split, OnChain
<1>5. Copy(j - 1, stored[j - 1]) /\ stored[j - 1] # Hole
  BY <1>2 DEF ReorgInv, CopyLine, Known
<1>6. stored[j - 1] = chain[j - 1]
  BY <1>2, <1>4, <1>5 DEF Copy
<1>7. At(j - 1) = chain[j - 1]
  BY <1>2, ChainOf DEF ReorgInv
<1> QED BY <1>6, <1>7 DEF OnChain

\* So below a fork point, a stored block off the chain has a split or a hole above it.
LEMMA SplitAbove ==
  ASSUME ReorgAssumption, ReorgInv, NEW f \in Heights, OnChain(f),
         NEW h \in 1..f, Known(h), ~OnChain(h)
  PROVE  \E j \in (h + 1)..f : Split(j) \/ ~Known(j)
<1> SUFFICES ASSUME \A j \in (h + 1)..f : ~Split(j) /\ Known(j) PROVE FALSE
  OBVIOUS
<1> DEFINE off == {j \in h..f : ~OnChain(j)}
<1>1. f \in Nat /\ h \in Nat /\ h >= 1 /\ h <= f /\ f <= MaxHeight /\ MaxHeight \in Nat
  BY DEF Heights, ReorgAssumption
<1>2. Max(off) \in off /\ \A x \in off : x <= Max(off)
  <2>1. off \in SUBSET (0..f) /\ off # {}
    BY <1>1
  <2> HIDE DEF off
  <2> QED BY <1>1, <2>1, MaxOf
<1>3. PICK m \in h..f : ~OnChain(m) /\ \A x \in h..f : ~OnChain(x) => x <= m
  BY <1>2
<1>4. m \in Nat /\ m >= 1 /\ m < f
  BY <1>1, <1>3
<1>5. m + 1 \in (h + 1)..f /\ m + 1 \in h..f /\ m + 1 \in 2..MaxHeight /\ (m + 1) - 1 = m
  BY <1>1, <1>3, <1>4
<1>6. OnChain(m + 1)
  <2>1. ~(m + 1 <= m)
    BY <1>4
  <2> QED BY <1>3, <1>5, <2>1
<1>7. Known(m)
  <2>1. m = h \/ m \in (h + 1)..f
    BY <1>1, <1>3
  <2> QED BY <2>1
<1>8. OnChain((m + 1) - 1)
  BY <1>5, <1>6, <1>7, FitsBelow
<1> QED BY <1>3, <1>5, <1>8

LEMMA ForksAreSound == ASSUME ReorgAssumption, ReorgInv PROVE ForkSound
<1> SUFFICES
      ASSUME NEW s \in reported
      PROVE  LET f == FindForkPoint(s) IN
             IF f # None
             THEN /\ f \in 1..s /\ OnChain(f)
                  /\ \A h \in (f + 1)..s : ~OnChain(h)
                  /\ \A h \in 1..f : \/ ~Known(h) \/ OnChain(h)
                                     \/ \E j \in (h + 1)..f : Split(j) \/ ~Known(j)
             ELSE \A h \in Floor(s)..s : (\A j \in h..s : Known(j)) => ~OnChain(h)
  BY DEF ForkSound
<1> DEFINE ends == {h \in Floor(s)..s : stored[h] = Hole \/ Agrees(h)}
<1>1. s \in Nat /\ s >= 1 /\ s <= MaxHeight /\ s \in Heights /\ MaxHeight \in Nat
  BY DEF ReorgInv, TypeOK, Heights, ReorgAssumption
<1>2. Floor(s) \in Nat
  <2>1. s - MaxDepth \in Int
    BY <1>1 DEF ReorgAssumption
  <2>2. \E x \in {s - MaxDepth, 0} : \A y \in {s - MaxDepth, 0} : x >= y
    BY <2>1
  <2>3. Floor(s) \in {s - MaxDepth, 0} /\ \A y \in {s - MaxDepth, 0} : Floor(s) >= y
    BY <2>2 DEF Floor, Max
  <2> QED BY <2>1, <2>3
<1>3. ends \in SUBSET (0..s)
  BY <1>1, <1>2
<1>4. ends # {} => Max(ends) \in ends /\ \A x \in ends : x <= Max(ends)
  <2> HIDE DEF ends
  <2> QED BY <1>1, <1>3, MaxOf
<1>5. FindForkPoint(s) = IF ends # {} /\ Agrees(Max(ends)) THEN Max(ends) ELSE None
  BY <1>1 DEF FindForkPoint
<1>6. CASE ends # {} /\ Agrees(Max(ends))
  <2> DEFINE f == Max(ends)
  <2>1. f \in Floor(s)..s /\ Agrees(f) /\ \A x \in ends : x <= f
    BY <1>4, <1>6
  <2> HIDE DEF f
  <2>2. f \in 1..s /\ OnChain(f) /\ f \in Heights /\ f # None
    <3>1. stored[0] = Hole
      BY <1>1 DEF ReorgInv, StoredLine
    <3>2. OnChain(f) /\ f # 0
      BY <2>1, <3>1, OnChainAgrees DEF OnChain, Known
    <3> QED BY <1>1, <1>2, <2>1, <3>2 DEF Heights, None
  <2>3. \A h \in (f + 1)..s : ~OnChain(h)
    <3> SUFFICES ASSUME NEW h \in (f + 1)..s, OnChain(h) PROVE FALSE
      OBVIOUS
    <3>1. h \in Floor(s)..s /\ ~(h <= f)
      BY <1>1, <1>2, <2>1
    <3>2. h \in ends
      BY <3>1, OnChainAgrees
    <3> QED BY <2>1, <3>1, <3>2
  <2>4. \A h \in 1..f : \/ ~Known(h) \/ OnChain(h)
                        \/ \E j \in (h + 1)..f : Split(j) \/ ~Known(j)
    BY <2>2, SplitAbove
  <2>5. FindForkPoint(s) = f
    BY <1>5, <1>6 DEF f
  <2> HIDE DEF ends
  <2> QED BY <2>2, <2>3, <2>4, <2>5
<1>7. CASE ~(ends # {} /\ Agrees(Max(ends)))
  <2>1. FindForkPoint(s) = None
    BY <1>5, <1>7
  <2>2. ASSUME NEW h \in Floor(s)..s, \A j \in h..s : Known(j), OnChain(h) PROVE FALSE
    <3>1. h \in ends
      BY <2>2, OnChainAgrees
    <3>2. Max(ends) \in ends /\ h <= Max(ends)
      BY <1>4, <3>1
    <3>3. Max(ends) \in h..s
      BY <1>1, <1>2, <1>3, <3>2
    <3>4. Known(Max(ends))
      BY <2>2, <3>3
    <3> QED BY <1>7, <3>1, <3>2, <3>4 DEF Known
  <2> HIDE DEF ends
  <2> QED BY <2>1, <2>2
<1> QED BY <1>6, <1>7

\* The inductive invariant, and with it the types, hold in every state.
THEOREM ReorgInvariant == ASSUME ReorgAssumption PROVE Spec => []ReorgInv
<1>1. Init => ReorgInv
  BY ReorgInit
<1>2. ReorgInv /\ [Next]_vars => ReorgInv'
  BY ReorgStep
<1> QED BY <1>1, <1>2, PTL DEF Spec

\* A reorganisation of what is stored is reported, or a block above it is listed as
\* not compared, and the fork point of a reported height is the last height where
\* the store and the daemon agree.
THEOREM ForksAreFound == ASSUME ReorgAssumption PROVE Spec => []ChainFollowed
<1>1. ReorgInv => ChainFollowed
  BY SplitsAreSeen, ForksAreSound DEF ChainFollowed
<1> QED BY <1>1, ReorgInvariant, PTL
=============================================================================
