---------------------------- MODULE NftlSpaceProofs ----------------------------
(***************************************************************************)
(* On a device with enough blocks in reserve nftl_get_free_block finds a   *)
(* block for every log, merge and table: what module Nftl promises, it     *)
(* promises without any condition on what happens.                         *)
(***************************************************************************)
EXTENDS NftlDataProofs

\* How many blocks garbage and the GarbageTab may occupy between two calls of
\* nftl_addto_gt: it reclaims at GARBAGE_LIMIT blocks, at PagesPerBlock \div 2
\* pages of at most two blocks each, and takes no GarbageTab block without garbage.
GarbageMost ==
  IF GARBAGE_LIMIT < 2 * (PagesPerBlock \div 2) - 1 THEN GARBAGE_LIMIT
  ELSE 2 * (PagesPerBlock \div 2) - 1
GarbageRoom == IF GarbageMost <= 1 THEN 0 ELSE GarbageMost

\* A Data block for every logical block, and beside them: the MapTab and MTLog
\* blocks, the two blocks that the write of a page may take before it looks
\* whether blocks are scarce, and the garbage.
Roomy == /\ MINI_FREE_BLOCK >= 2
         /\ Cardinality(Block \ FactoryBad) >= NLba + 4 + GarbageRoom

-----------------------------------------------------------------------------
(***************************************************************************)
(* The inductive invariant                                                 *)
(***************************************************************************)

\* The garbage list is bounded by the GarbageTab and by GARBAGE_LIMIT.
Tidy ==
  /\ Len(gar_pbas) <= 2 * gt_pgcnt
  /\ gcpc = "idle" => /\ gt_pbas # NoBlock => gar_pbas # <<>>
                      /\ gar_pbas # <<>> => Len(gar_pbas) < GARBAGE_LIMIT

\* No block goes bad.
Unspoilt == \A b \in Block : media[b] = "bad" <=> b \in FactoryBad

PoolKept == Tidy /\ Unspoilt

\* The tasks that may take a block for the page being written; those after which
\* nftl_write_logicpage still looks, or has just seen, that blocks are scarce.
PutBlockOps == {"put", "append", "convert"}
MergeOps    == {"merge", "mergecopy"}
Adding == \E t \in Elems(todo) : t.op = "addgt"
Low    == \E t \in Elems(todo) : t.op = "low"

\* The page is written and the block it took is not yet made up for.
Tight == /\ \A t \in Elems(todo) : t.op \notin PutBlockOps
         /\ Low \/ \E t \in Elems(todo) : t.op \in MergeOps

\* The good blocks that hold no data.
Rest(L, D) == Block \ (FactoryBad \cup LogBlocks(L) \cup DataBlocks(D))
Spare  == Rest(Logs, Map)
Spared == Cardinality(Spare) >= IF Tight THEN 3 ELSE 4

\* The free blocks that have to be there where no block is about to be retired.
Level == IF Adding THEN 0 ELSE IF Tight THEN 1 ELSE 2

\* Under way with a block just taken, or about to retire some.
AwayOps == {"append", "mergecopy", "mtmerge", "mtcopy", "addgt", "move", "format", "mapwrite"}

Stocked ==
  gcpc = "idle" =>
    /\ todo = <<>> \/ Task.op \notin AwayOps => free_blkcnt >= Level
    /\ todo # <<>> =>
         /\ Task.op \in {"append", "mtmerge", "updmt"} => free_blkcnt >= 1
         /\ Task.op = "updmt" /\ mtl = <<>> => free_blkcnt >= Level + 1
         /\ Task.op = "move" => (Task.what.op = "data" => free_blkcnt >= 1)
         /\ Task.op = "format" => free_blkcnt >= 3
         /\ Task.op = "mapwrite" => free_blkcnt >= 2

\* The merge for want of blocks, the last thing a write does, gains one: its
\* logical block has a log and a Data block.
LastMerge == \A t \in Elems(todo) : t.op \in MergeOps => Low \/ Map[dl[t.i].lba] # NoBlock

\* What a reclaim returns to takes no block it was handed.
Resumes ==
  gcpc # "idle" => /\ \A t \in Elems(todo) : t.op \notin TakeOps \cup {"format"}
                   /\ Adding => Task.op = "mtset"

RoomInv  == Spared /\ Stocked /\ LastMerge /\ Resumes
SpaceInv == PoolKept /\ RoomInv

-----------------------------------------------------------------------------
(***************************************************************************)
(* The pool                                                                *)
(***************************************************************************)

\* What nftl_addto_gt does to the list.
LEMMA TidyEntered ==
  ASSUME SoundInv, Tidy, NEW g \in Retirable, EnterGarbage(g), AfterGtPage
  PROVE  Tidy'
  <1>1. /\ g \in Seq(Block) /\ Len(g) \in 1..2 /\ gar_pbas \in Seq(Block) /\ gt_pgcnt \in Nat
        /\ GARBAGE_LIMIT \in Nat
    <2>1. TypeOK
      BY SoundParts
    <2>2. g \in Seq(Block) /\ gar_pbas \in Seq(Block) /\ gt_pgcnt \in Nat /\ GARBAGE_LIMIT \in Nat
      BY <2>1, RetirableList, PoolAssumption DEF TypeOK
    <2>3. (\E b : g = <<b>>) \/ (\E b, c : g = <<b, c>>)
      BY DEF Retirable
    <2>4. Len(g) \in 1..2
      BY <2>3
    <2> QED BY <2>2, <2>4
  <1>2. /\ gar_pbas' = gar_pbas \o g /\ Len(gar_pbas') = Len(gar_pbas) + Len(g)
        /\ gt_pgcnt' = gt_pgcnt + 1 /\ Len(gar_pbas) \in Nat
    BY <1>1 DEF EnterGarbage, AfterGtPage
  <1>3. Len(gar_pbas') <= 2 * gt_pgcnt' /\ Len(gar_pbas') > 0 /\ gar_pbas' # <<>>
    <2>1. Len(gar_pbas) <= 2 * gt_pgcnt /\ Len(g) \in Nat
      BY <1>1 DEF Tidy
    <2>2. Len(gar_pbas') <= 2 * gt_pgcnt' /\ Len(gar_pbas') > 0
      <3> DEFINE n == Len(gar_pbas)
                 m == Len(g)
                 k == gt_pgcnt
      <3>1. n \in Nat /\ m \in 1..2 /\ k \in Nat /\ n <= 2 * k
        BY <1>1, <1>2, <2>1
      <3>2. Len(gar_pbas') = n + m /\ gt_pgcnt' = k + 1
        BY <1>2
      <3> HIDE DEF n, m, k
      <3>3. n + m <= 2 * (k + 1) /\ n + m > 0
        BY <3>1
      <3> QED BY <3>2, <3>3
    <2>3. Len(<<>>) = 0
      OBVIOUS
    <2> QED BY <2>2, <2>3
  <1>4. ASSUME gcpc' = "idle" PROVE Len(gar_pbas') < GARBAGE_LIMIT
    <2>1. ~MustReclaim(gt_pgcnt', gar_pbas', free_blkcnt')
      BY <1>4 DEF AfterGtPage
    <2> QED BY <1>1, <1>2, <1>3, <2>1 DEF MustReclaim
  <1> QED BY <1>3, <1>4 DEF Tidy

LEMMA PoolKeptStep ==
  ASSUME SoundInv, PoolKept, PoolStep
  PROVE  PoolKept'
  <1>0. /\ RoleInv /\ TypeOK /\ OneRole /\ Shown /\ Logged /\ Tidy /\ Unspoilt /\ NoBlock \notin Block
    BY SoundParts DEF PoolKept
  <1>1. CASE UNCHANGED poolVars
    BY <1>0, <1>1 DEF PoolKept, poolVars, ramVars, gcVars, Tidy, Unspoilt
  <1>2. CASE Restart
    <2>1. PICK lf \in Block : PoolMount(lf)
      BY <1>2 DEF Restart, PowerCut
    <2>2. gar_pbas' = gar_pbas /\ gt_pbas' = gt_pbas /\ gt_pgcnt' = gt_pgcnt /\ gcpc = "idle"
      BY <1>2, <2>1, MountFinds DEF Restart
    <2>3. media' = media /\ gcpc' = "idle"
      BY <2>1 DEF PoolMount
    <2> QED BY <1>0, <2>2, <2>3 DEF PoolKept, Tidy, Unspoilt
  <1>3. ASSUME NEW b \in Block, Alloc(b) PROVE PoolKept'
    BY <1>0, <1>3 DEF Alloc, gcVars, PoolKept, Tidy, Unspoilt
  <1>4. ASSUME NEW b \in Block, FirstProgram(b) PROVE PoolKept'
    <2>1. Tidy'
      BY <1>0, <1>4 DEF FirstProgram, ramVars, gcVars, Tidy
    <2>2. Unspoilt'
      BY <1>0, <1>4 DEF FirstProgram, Unspoilt, TypeOK
    <2> QED BY <2>1, <2>2 DEF PoolKept
  <1>5. ASSUME NEW g \in Retirable, AddToGt(g) \/ AddToNoGt(g) PROVE PoolKept'
    <2>1. Tidy' /\ media' = media
      BY <1>0, <1>5, TidyEntered DEF AddToGt, AddToNoGt
    <2> QED BY <1>0, <2>1 DEF PoolKept, Unspoilt
  <1>6. ASSUME NEW g \in Retirable, NEW b \in Block, AddToNewGt(g, b) PROVE PoolKept'
    <2>1. Tidy'
      BY <1>0, <1>6, TidyEntered DEF AddToNewGt
    <2>2. media[b] = "blank"
      BY <1>0, <1>6, FreeFact DEF AddToNewGt, Shown
    <2>3. Unspoilt'
      BY <1>0, <1>6, <2>2 DEF AddToNewGt, Unspoilt, TypeOK
    <2> QED BY <2>1, <2>3 DEF PoolKept
  <1>7. CASE EraseGarbage
    <2>1. gar_pbas[gcidx] \in Waiting /\ gar_pbas[gcidx] \in Block
      BY <1>0, <1>7, WaitingErased DEF EraseGarbage
    <2>2. media[gar_pbas[gcidx]] = "used"
      BY <1>0, <2>1 DEF Shown
    <2>3. Unspoilt'
      BY <1>0, <1>7, <2>1, <2>2 DEF EraseGarbage, Unspoilt, TypeOK
    <2>4. Tidy'
      BY <1>0, <1>7 DEF EraseGarbage, Tidy
    <2> QED BY <2>3, <2>4 DEF PoolKept
  <1>8. CASE EraseGt \/ EraseNoGt
    <2>1. Tidy'
      BY <1>8 DEF EraseGt, EraseNoGt, ReclaimDone, Tidy
    <2>2. Unspoilt'
      BY <1>0, <1>8 DEF EraseGt, EraseNoGt, Unspoilt, TypeOK, Shown
    <2> QED BY <2>1, <2>2 DEF PoolKept
  <1> QED BY <1>1, <1>2, <1>3, <1>4, <1>5, <1>6, <1>7, <1>8 DEF PoolStep, GoodStep

\* At rest garbage and GarbageTab fill no more than GarbageRoom.
LEMMA GarbageFits ==
  ASSUME SoundInv, Tidy, gcpc = "idle"
  PROVE  /\ gt_pbas = NoBlock => gar_pbas = <<>>
         /\ gt_pbas # NoBlock => Len(gar_pbas) + 1 <= GarbageRoom
         /\ GarbageRoom \in Nat
  <1> DEFINE h == PagesPerBlock \div 2
  <1>1. /\ Logged /\ gt_pgcnt \in Nat /\ gar_pbas \in Seq(Block) /\ GARBAGE_LIMIT \in Nat
        /\ h \in Nat /\ 0 < h
    BY SoundParts, PoolAssumption DEF TypeOK
  <1>2. gt_pgcnt < h /\ (gt_pbas = NoBlock => gar_pbas = <<>>)
    BY <1>1 DEF Logged
  <1> HIDE DEF h
  <1>3. GarbageMost = IF GARBAGE_LIMIT < 2 * h - 1 THEN GARBAGE_LIMIT ELSE 2 * h - 1
    BY DEF GarbageMost, h
  <1>4. GarbageMost \in Nat
    BY <1>1, <1>3
  <1>5. ASSUME gt_pbas # NoBlock PROVE Len(gar_pbas) + 1 <= GarbageRoom
    <2>1. gar_pbas # <<>> /\ Len(gar_pbas) < GARBAGE_LIMIT /\ Len(gar_pbas) <= 2 * gt_pgcnt
      BY <1>5 DEF Tidy
    <2>2. Len(gar_pbas) \in Nat /\ Len(gar_pbas) >= 1
      BY <1>1, <2>1
    <2>3. Len(gar_pbas) + 1 <= GARBAGE_LIMIT /\ Len(gar_pbas) + 1 <= 2 * h - 1
      BY <1>1, <1>2, <2>1, <2>2
    <2> QED BY <1>1, <1>3, <1>4, <2>2, <2>3 DEF GarbageRoom
  <1> QED BY <1>2, <1>4, <1>5 DEF GarbageRoom

-----------------------------------------------------------------------------
(***************************************************************************)
(* Counting                                                                *)
(***************************************************************************)

LEMMA Counted ==
  ASSUME SoundInv
  PROVE  /\ free_blkcnt = Cardinality(FreeBlocks) /\ free_blkcnt \in Nat
         /\ NoFree => free_blkcnt = 0
  <1>1. TypeOK /\ FreeCountDrift /\ marked = {}
    BY SoundParts
  <1>2. FreeBlocks \subseteq Block
    BY DEF FreeBlocks
  <1> QED BY <1>1, <1>2, CountOf, ExactCount, NoFreeIsZero

\* A block is taken.
LEMMA OneTaken ==
  ASSUME SoundInv, NEW b, Alloc(b)
  PROVE  /\ free_blkcnt' = free_blkcnt - 1 /\ free_blkcnt \in Nat /\ free_blkcnt >= 1
         /\ gcpc = "idle" /\ gcpc' = "idle"
  <1>1. /\ free_blkcnt' = (free_blkcnt - 1) % UINT16 /\ free_blkcnt # 0
        /\ gcpc = "idle" /\ gcpc' = "idle"
    BY DEF Alloc, SetBlockNoFree, GetsFree, gcVars
  <1>2. free_blkcnt \in Nat /\ free_blkcnt \in 0..(UINT16 - 1) /\ UINT16 \in Nat \ {0}
    <2>1. TypeOK
      BY SoundParts
    <2> QED BY <2>1, Sizes DEF TypeOK
  <1>3. free_blkcnt - 1 \in 0..(UINT16 - 1) /\ free_blkcnt - 1 \in Int
        /\ free_blkcnt - 1 = 0 * UINT16 + (free_blkcnt - 1) /\ 0 \in Int
    BY <1>1, <1>2
  <1>4. (free_blkcnt - 1) % UINT16 = free_blkcnt - 1
    BY <1>2, <1>3, ModIs
  <1> QED BY <1>1, <1>2, <1>4

LEMMA Both ==
  ASSUME NEW S, IsFiniteSet(S), NEW R, IsFiniteSet(R)
  PROVE  /\ IsFiniteSet(S \cup R) /\ Cardinality(S \cup R) <= Cardinality(S) + Cardinality(R)
         /\ Cardinality(S) \in Nat /\ Cardinality(R) \in Nat /\ Cardinality(S \cup R) \in Nat
  <1>1. IsFiniteSet(S \cup R) /\ IsFiniteSet(S \cap R)
        /\ Cardinality(S \cup R) = Cardinality(S) + Cardinality(R) - Cardinality(S \cap R)
    BY FS_Union, FS_Intersection
  <1>2. /\ Cardinality(S) \in Nat /\ Cardinality(R) \in Nat /\ Cardinality(S \cup R) \in Nat
        /\ Cardinality(S \cap R) \in Nat
    BY <1>1, FS_CardinalityType
  <1> QED BY <1>1, <1>2

\* One block less, and one or two others instead.
LEMMA Exchanged ==
  ASSUME NEW S, S \subseteq Block, NEW b \in S, NEW c \in Block, c \notin S
  PROVE  /\ Cardinality((S \ {b}) \cup {c}) = Cardinality(S) /\ Cardinality(S) \in Nat
         /\ Cardinality(S \ {b}) = Cardinality(S) - 1
         /\ \A d \in Block : d \notin S /\ d # c =>
              Cardinality(((S \ {b}) \cup {c}) \cup {d}) = Cardinality(S) + 1
  <1>1. IsFiniteSet(S) /\ Cardinality(S) \in Nat
    BY CountOf
  <1>2. IsFiniteSet(S \ {b}) /\ Cardinality(S \ {b}) = Cardinality(S) - 1
    BY <1>1, FS_RemoveElement
  <1> DEFINE R == (S \ {b}) \cup {c}
  <1>3. IsFiniteSet(R) /\ Cardinality(R) = Cardinality(S)
    <2>1. c \notin S \ {b}
      OBVIOUS
    <2>2. IsFiniteSet(R) /\ Cardinality(R) = Cardinality(S \ {b}) + 1
      BY <1>2, <2>1, FS_AddElement
    <2> QED BY <1>1, <1>2, <2>2
  <1>4. ASSUME NEW d \in Block, d \notin S, d # c PROVE Cardinality(R \cup {d}) = Cardinality(S) + 1
    <2>1. d \notin R
      BY <1>4
    <2> HIDE DEF R
    <2> QED BY <1>3, <2>1, FS_AddElement
  <1> QED BY <1>1, <1>2, <1>3, <1>4

LEMMA SeqFew ==
  ASSUME NEW S, NEW s \in Seq(S)
  PROVE  IsFiniteSet(Elems(s)) /\ Cardinality(Elems(s)) <= Len(s)
  <1> DEFINE n == Len(s)
             f == [i \in 1..n |-> s[i]]
  <1>1. n \in Nat /\ IsFiniteSet(1..n) /\ Cardinality(1..n) = n
    <2>1. n \in Nat
      OBVIOUS
    <2>2. n \in Int /\ 1 \in Int
      BY <2>1
    <2> HIDE DEF n
    <2>3. IsFiniteSet(1..n) /\ Cardinality(1..n) = IF 1 > n THEN 0 ELSE n - 1 + 1
      BY <2>2, FS_Interval
    <2> QED BY <2>1, <2>3
  <1>2. f \in Surjection(1..n, Elems(s))
    BY DEF Surjection, Elems
  <1> HIDE DEF f, n
  <1>3. IsFiniteSet(Elems(s)) /\ Cardinality(Elems(s)) <= Cardinality(1..n)
    BY <1>1, <1>2, FS_Surjection
  <1> QED BY <1>1, <1>3 DEF n

LEMMA SpareBlocks ==
  ASSUME NEW L, NEW D
  PROVE  /\ Rest(L, D) \subseteq Block /\ IsFiniteSet(Rest(L, D))
         /\ Cardinality(Rest(L, D)) \in Nat
  <1>1. Rest(L, D) \subseteq Block
    BY DEF Rest
  <1> QED BY <1>1, CountOf

\* Where no logical block has both a log and a Data block, there are at most NLba
\* of the two.
LEMMA OnePerLba ==
  ASSUME NEW L, NEW D, \A e \in L : e.lba \in Lba /\ D[e.lba] = NoBlock,
         \A e, f \in L : e.lba = f.lba => e = f
  PROVE  /\ IsFiniteSet(LogBlocks(L) \cup DataBlocks(D))
         /\ Cardinality(LogBlocks(L) \cup DataBlocks(D)) <= NLba
  <1> DEFINE B == LogBlocks(L) \cup DataBlocks(D)
             Names(b, l) == D[l] = b \/ \E e \in L : e.pba = b /\ e.lba = l
             f == [b \in B |-> CHOOSE l \in Lba : Names(b, l)]
  <1>1. ASSUME NEW b \in B PROVE f[b] \in Lba /\ Names(b, f[b])
    <2>1. \E l \in Lba : Names(b, l)
      <3>1. CASE b \in LogBlocks(L)
        BY <3>1 DEF LogBlocks
      <3>2. CASE b \in DataBlocks(D)
        BY <3>2 DEF DataBlocks
      <3> QED BY <3>1, <3>2
    <2> QED BY <2>1
  <1>2. NoBlock \notin B
    BY DEF LogBlocks, DataBlocks
  <1>3. f \in [B -> Lba]
    BY <1>1
  <1> HIDE DEF f, B
  <1>4. ASSUME NEW b \in B, NEW c \in B, f[b] = f[c] PROVE b = c
    <2> DEFINE l == f[b]
    <2>1. l \in Lba /\ Names(b, l)
      BY <1>1
    <2>2. Names(c, l)
      <3>1. Names(c, f[c])
        BY <1>1
      <3> HIDE DEF Names
      <3> QED BY <1>4, <3>1
    <2> HIDE DEF l
    <2>3. CASE D[l] # NoBlock
      BY <2>1, <2>2, <2>3
    <2>4. CASE D[l] = NoBlock
      <3>1. b # NoBlock /\ c # NoBlock
        BY <1>2
      <3>2. PICK e \in L : e.pba = b /\ e.lba = l
        BY <2>1, <2>4, <3>1
      <3>3. PICK g \in L : g.pba = c /\ g.lba = l
        BY <2>2, <2>4, <3>1
      <3> QED BY <3>2, <3>3
    <2> QED BY <2>3, <2>4
  <1>5. f \in Injection(B, Lba)
    BY <1>3, <1>4 DEF Injection, IsInjective
  <1>6. IsFiniteSet(Lba) /\ Cardinality(Lba) = NLba
    <2>1. NLba \in Nat \ {0}
      BY Numbers
    <2>2. 0 \in Int /\ NLba - 1 \in Int
      BY <2>1
    <2>3. /\ IsFiniteSet(0..(NLba - 1))
          /\ Cardinality(0..(NLba - 1)) = IF 0 > NLba - 1 THEN 0 ELSE (NLba - 1) - 0 + 1
      BY <2>2, FS_Interval
    <2>4. Cardinality(0..(NLba - 1)) = NLba
      BY <2>1, <2>3
    <2> QED BY <2>3, <2>4 DEF Lba
  <1>7. IsFiniteSet(B) /\ Cardinality(B) <= Cardinality(Lba)
    BY <1>5, <1>6, FS_Injection
  <1> QED BY <1>6, <1>7 DEF B

-----------------------------------------------------------------------------
(***************************************************************************)
(* What the blocks without data are                                        *)
(***************************************************************************)

\* Each good block without data is free, or held for a table or a copy, or garbage.
LEMMA Census ==
  ASSUME NftlInv, FedInv, Unspoilt, gcpc = "idle"
  PROVE  /\ Spare \subseteq FreeBlocks \cup MtBlocks \cup Garb \cup Taking
                            \cup Elems(gar_pbas) \cup ({gt_pbas} \ {NoBlock})
         /\ FreeBlocks \subseteq Spare
         /\ MtBlocks \cap FreeBlocks = {} /\ MtBlocks \subseteq Spare
  <1>1. /\ ~Lost /\ Spent /\ SoundInv /\ TypeOK /\ Shown /\ OneRole
    BY Parts DEF FedInv
  <1>2. /\ LogBlocks(Logs) \cup DataBlocks(Map) \cup MtBlocks \cup Garb = Programmed
        /\ MtBlocks \cap (LogBlocks(Logs) \cup DataBlocks(Map)) = {}
    <2>1. Tables
      BY <1>1, Parts
    <2> QED BY <1>1, <2>1, Members DEF Tables, Owned
  <1>3. Waiting = Elems(gar_pbas)
    BY <1>1, MountReads
  <1>4. ASSUME NEW b \in Spare
        PROVE  b \in FreeBlocks \cup MtBlocks \cup Garb \cup Taking
                     \cup Elems(gar_pbas) \cup ({gt_pbas} \ {NoBlock})
    <2>1. b \in Block /\ b \notin FactoryBad /\ b \notin LogBlocks(Logs) \cup DataBlocks(Map)
      BY DEF Spare, Rest
    <2>2. media[b] # "bad"
      BY <2>1 DEF Unspoilt
    <2>3. media[b] \in {"blank", "used", "gt"}
      BY <1>1, <2>1, <2>2 DEF TypeOK, Media
    <2>4. CASE media[b] = "blank"
      <3>1. b \in FreeBlocks \/ b \in held
        BY <1>1, <2>1, <2>4 DEF Shown, FreeBlocks
      <3>2. b \notin Programmed
        BY <2>4 DEF Programmed
      <3> QED BY <1>1, <3>1, <3>2 DEF Spent
    <2>5. CASE media[b] = "used"
      <3>1. b \in held \/ b \in Waiting
        BY <1>1, <2>1, <2>5 DEF Shown
      <3>2. b \in held => b \in Programmed
        BY <2>5 DEF Programmed
      <3> QED BY <1>2, <1>3, <2>1, <3>1, <3>2
    <2>6. CASE media[b] = "gt"
      <3>1. b = gt_pbas
        BY <1>1, <2>1, <2>6 DEF Shown
      <3> QED BY <2>1, <3>1, Sizes
    <2> QED BY <2>3, <2>4, <2>5, <2>6
  <1>5. ASSUME NEW b \in Programmed PROVE b \in Block /\ media[b] = "used" /\ b \notin FreeBlocks /\ b \notin FactoryBad
    <2>1. b \in Block /\ media[b] = "used"
      BY <1>1 DEF Programmed, TypeOK
    <2> QED BY <1>1, <2>1 DEF Unspoilt, Shown, FreeBlocks
  <1>6. FreeBlocks \subseteq Spare
    <2> SUFFICES ASSUME NEW b \in FreeBlocks PROVE b \in Spare
      OBVIOUS
    <2>1. b \in Block /\ media[b] = "blank"
      BY <1>1 DEF FreeBlocks, Shown
    <2>2. b \notin FactoryBad /\ b \notin Programmed
      BY <1>5, <2>1 DEF Unspoilt
    <2> QED BY <1>2, <2>1, <2>2 DEF Spare, Rest
  <1>7. MtBlocks \cap FreeBlocks = {} /\ MtBlocks \subseteq Spare
    BY <1>2, <1>5 DEF Spare, Rest
  <1> QED BY <1>4, <1>6, <1>7

\* The blocks of the mapping table.
LEMMA MtFew ==
  ASSUME NftlInv, ~Lost
  PROVE  /\ IsFiniteSet(MtBlocks) /\ Cardinality(MtBlocks) \in Nat
         /\ Cardinality(MtBlocks) <= 2
         /\ mtl = <<>> \/ Closing => Cardinality(MtBlocks) <= 1
  <1>1. mtl = <<>> \/ \E m : mtl = <<m>>
    BY Parts
  <1>2. ASSUME NEW b PROVE IsFiniteSet({b}) /\ Cardinality({b}) = 1
    BY FS_Singleton
  <1>3. IsFiniteSet({}) /\ Cardinality({}) = 0
    BY FS_EmptySet
  <1>4. ASSUME NEW b, NEW c
        PROVE  IsFiniteSet({b} \cup {c}) /\ Cardinality({b} \cup {c}) <= 2
               /\ Cardinality({b} \cup {c}) \in Nat
    <2>1. IsFiniteSet({b}) /\ Cardinality({b}) = 1 /\ IsFiniteSet({c}) /\ Cardinality({c}) = 1
      BY <1>2
    <2>2. /\ IsFiniteSet({b} \cup {c}) /\ Cardinality({b} \cup {c}) \in Nat
          /\ Cardinality({b} \cup {c}) <= 1 + 1
      BY <2>1, Both
    <2> QED BY <2>2
  <1>5. CASE mt_pbas = NoBlock
    <2>1. MtBlocks = {}
      BY <1>5 DEF MtBlocks
    <2> QED BY <1>3, <2>1
  <1>6. CASE mt_pbas # NoBlock /\ Closing
    <2>1. MtBlocks = {NextMt}
      BY <1>6 DEF MtBlocks
    <2>2. IsFiniteSet({NextMt}) /\ Cardinality({NextMt}) = 1
      BY <1>2
    <2> QED BY <2>1, <2>2
  <1>7. CASE mt_pbas # NoBlock /\ ~Closing /\ mtl = <<>>
    <2>1. MtBlocks = {mt_pbas}
      BY <1>7 DEF MtBlocks
    <2>2. IsFiniteSet({mt_pbas}) /\ Cardinality({mt_pbas}) = 1
      BY <1>2
    <2> QED BY <2>1, <2>2
  <1>8. CASE mt_pbas # NoBlock /\ ~Closing /\ mtl # <<>>
    <2>1. PICK m : mtl = <<m>>
      BY <1>1, <1>8
    <2>2. {mtl[i].pba : i \in 1..Len(mtl)} = {m.pba}
      BY <2>1
    <2>3. MtBlocks = {mt_pbas} \cup {m.pba}
      BY <1>8, <2>2 DEF MtBlocks
    <2>4. /\ IsFiniteSet({mt_pbas} \cup {m.pba}) /\ Cardinality({mt_pbas} \cup {m.pba}) <= 2
          /\ Cardinality({mt_pbas} \cup {m.pba}) \in Nat
      BY <1>4
    <2> QED BY <1>8, <2>3, <2>4
  <1> QED BY <1>5, <1>6, <1>7, <1>8

\* Free blocks where there is no garbage.
LEMMA CensusClean ==
  ASSUME NftlInv, FedInv, Unspoilt, gcpc = "idle",
         gar_pbas = <<>>, gt_pbas = NoBlock, Garb = {}, Taking = {}
  PROVE  /\ Cardinality(Spare) <= free_blkcnt + Cardinality(MtBlocks)
         /\ free_blkcnt \in Nat /\ Cardinality(MtBlocks) \in Nat /\ Cardinality(Spare) \in Nat
  <1>1. ~Lost /\ SoundInv /\ Elems(gar_pbas) = {}
    BY Parts, PlainStacks DEF FedInv
  <1>2. Spare \subseteq FreeBlocks \cup MtBlocks
    BY <1>1, Census
  <1>3. IsFiniteSet(FreeBlocks) /\ Cardinality(FreeBlocks) = free_blkcnt /\ free_blkcnt \in Nat
    <2>1. FreeBlocks \subseteq Block
      BY DEF FreeBlocks
    <2> QED BY <1>1, <2>1, CountOf, Counted
  <1>4. IsFiniteSet(MtBlocks) /\ Cardinality(MtBlocks) \in Nat
    BY <1>1, MtFew
  <1>5. /\ IsFiniteSet(FreeBlocks \cup MtBlocks) /\ Cardinality(FreeBlocks \cup MtBlocks) \in Nat
        /\ Cardinality(FreeBlocks \cup MtBlocks) <= free_blkcnt + Cardinality(MtBlocks)
    BY <1>3, <1>4, Both
  <1>6. Cardinality(Spare) \in Nat
    BY SpareBlocks DEF Spare
  <1>7. Cardinality(Spare) <= Cardinality(FreeBlocks \cup MtBlocks)
    BY <1>2, <1>5, FS_Subset
  <1> QED BY <1>3, <1>4, <1>5, <1>6, <1>7

\* ... and where the garbage waits.
LEMMA CensusAtRest ==
  ASSUME NftlInv, FedInv, PoolKept, gcpc = "idle", Garb = {}, Taking = {}
  PROVE  /\ Cardinality(Spare) <= free_blkcnt + 2 + GarbageRoom
         /\ free_blkcnt \in Nat /\ Cardinality(Spare) \in Nat
  <1>1. ~Lost /\ SoundInv /\ gar_pbas \in Seq(Block) /\ Unspoilt /\ Tidy
    BY Parts DEF FedInv, PoolKept, TypeOK
  <1>2. /\ gt_pbas = NoBlock => gar_pbas = <<>>
        /\ gt_pbas # NoBlock => Len(gar_pbas) + 1 <= GarbageRoom
        /\ GarbageRoom \in Nat
    BY <1>1, GarbageFits
  <1>3. CASE gt_pbas = NoBlock
    <2>1. /\ Cardinality(Spare) <= free_blkcnt + Cardinality(MtBlocks)
          /\ free_blkcnt \in Nat /\ Cardinality(MtBlocks) \in Nat /\ Cardinality(Spare) \in Nat
      BY <1>1, <1>2, <1>3, CensusClean
    <2>2. Cardinality(MtBlocks) <= 2
      BY <1>1, MtFew
    <2> QED BY <1>2, <2>1, <2>2
  <1>4. CASE gt_pbas # NoBlock
    <2> DEFINE A == FreeBlocks \cup MtBlocks
               G == Elems(gar_pbas) \cup {gt_pbas}
    <2>1. Spare \subseteq A \cup G
      BY <1>1, Census
    <2>2. IsFiniteSet(FreeBlocks) /\ Cardinality(FreeBlocks) = free_blkcnt /\ free_blkcnt \in Nat
      <3>1. FreeBlocks \subseteq Block
        BY DEF FreeBlocks
      <3> QED BY <1>1, <3>1, CountOf, Counted
    <2>3. IsFiniteSet(MtBlocks) /\ Cardinality(MtBlocks) \in Nat /\ Cardinality(MtBlocks) <= 2
      BY <1>1, MtFew
    <2>4. /\ IsFiniteSet(A) /\ Cardinality(A) \in Nat
          /\ Cardinality(A) <= free_blkcnt + 2
      BY <2>2, <2>3, Both
    <2>5. /\ IsFiniteSet(Elems(gar_pbas)) /\ Cardinality(Elems(gar_pbas)) <= Len(gar_pbas)
          /\ Len(gar_pbas) \in Nat
      BY <1>1, SeqFew
    <2>6. IsFiniteSet({gt_pbas}) /\ Cardinality({gt_pbas}) = 1
      BY FS_Singleton
    <2>7. /\ IsFiniteSet(G) /\ Cardinality(G) \in Nat /\ Cardinality(Elems(gar_pbas)) \in Nat
          /\ Cardinality(G) <= Cardinality(Elems(gar_pbas)) + 1
      BY <2>5, <2>6, Both
    <2> HIDE DEF A, G
    <2>8. /\ IsFiniteSet(A \cup G) /\ Cardinality(A \cup G) \in Nat
          /\ Cardinality(A \cup G) <= Cardinality(A) + Cardinality(G)
      BY <2>4, <2>7, Both
    <2>9. Cardinality(Spare) <= Cardinality(A \cup G)
      BY <2>1, <2>8, FS_Subset
    <2>10. Cardinality(Spare) \in Nat
      BY SpareBlocks DEF Spare
    <2>11. Len(gar_pbas) + 1 <= GarbageRoom /\ GarbageRoom \in Nat
      BY <1>2, <1>4
    <2>12. Cardinality(G) <= GarbageRoom
      BY <2>5, <2>7, <2>11
    <2> DEFINE x == Cardinality(Spare)
               y == Cardinality(A \cup G)
               a == Cardinality(A)
               g == Cardinality(G)
    <2>13. /\ x \in Nat /\ y \in Nat /\ a \in Nat /\ g \in Nat /\ x <= y /\ y <= a + g
           /\ a <= free_blkcnt + 2 /\ g <= GarbageRoom
      BY <2>4, <2>7, <2>8, <2>9, <2>10, <2>12
    <2> HIDE DEF x, y, a, g
    <2>14. x <= free_blkcnt + 2 + GarbageRoom
      BY <2>2, <2>11, <2>13
    <2> QED BY <2>2, <2>10, <2>14 DEF x
  <1> QED BY <1>3, <1>4

\* Free blocks and the MapTab block.
LEMMA FreeAndMap ==
  ASSUME NftlInv, FedInv, Unspoilt, gcpc = "idle", ~Closing, mt_pbas # NoBlock
  PROVE  Cardinality(Spare) >= free_blkcnt + 1 /\ free_blkcnt \in Nat /\ Cardinality(Spare) \in Nat
  <1>1. ~Lost /\ SoundInv
    BY Parts DEF FedInv
  <1>2. mt_pbas \in MtBlocks
    BY <1>1, MtPlace
  <1>3. FreeBlocks \cup {mt_pbas} \subseteq Spare /\ mt_pbas \notin FreeBlocks
    BY <1>2, Census
  <1>4. IsFiniteSet(FreeBlocks) /\ Cardinality(FreeBlocks) = free_blkcnt /\ free_blkcnt \in Nat
    <2>1. FreeBlocks \subseteq Block
      BY DEF FreeBlocks
    <2> QED BY <1>1, <2>1, CountOf, Counted
  <1>5. /\ IsFiniteSet(FreeBlocks \cup {mt_pbas})
        /\ Cardinality(FreeBlocks \cup {mt_pbas}) = free_blkcnt + 1
    BY <1>3, <1>4, FS_AddElement
  <1>6. IsFiniteSet(Spare) /\ Cardinality(Spare) \in Nat
    BY SpareBlocks DEF Spare
  <1>7. Cardinality(FreeBlocks \cup {mt_pbas}) <= Cardinality(Spare)
    BY <1>3, <1>6, FS_Subset
  <1> QED BY <1>4, <1>5, <1>6, <1>7

LEMMA CensusHolds ==
  /\ NftlInv /\ FedInv /\ Unspoilt /\ gcpc = "idle"
  /\ gar_pbas = <<>> /\ gt_pbas = NoBlock /\ Garb = {} /\ Taking = {}
  => /\ Cardinality(Spare) <= free_blkcnt + Cardinality(MtBlocks)
     /\ free_blkcnt \in Nat /\ Cardinality(MtBlocks) \in Nat /\ Cardinality(Spare) \in Nat
  BY CensusClean

LEMMA CensusNext ==
  (/\ NftlInv /\ FedInv /\ Unspoilt /\ gcpc = "idle"
   /\ gar_pbas = <<>> /\ gt_pbas = NoBlock /\ Garb = {} /\ Taking = {})'
  => (/\ Cardinality(Spare) <= free_blkcnt + Cardinality(MtBlocks)
      /\ free_blkcnt \in Nat /\ Cardinality(MtBlocks) \in Nat /\ Cardinality(Spare) \in Nat)'
  BY CensusHolds, PTL

LEMMA MtFewHolds ==
  NftlInv /\ ~Lost => /\ Cardinality(MtBlocks) \in Nat /\ Cardinality(MtBlocks) <= 2
                      /\ mtl = <<>> \/ Closing => Cardinality(MtBlocks) <= 1
  BY MtFew

LEMMA MtFewNext ==
  (NftlInv /\ ~Lost)' => (/\ Cardinality(MtBlocks) \in Nat /\ Cardinality(MtBlocks) <= 2
                          /\ mtl = <<>> \/ Closing => Cardinality(MtBlocks) <= 1)'
  BY MtFewHolds, PTL

LEMMA CountHolds == NftlInv => free_blkcnt \in Nat
  BY Counted DEF NftlInv

LEMMA CountNext == NftlInv' => (free_blkcnt \in Nat)'
  BY CountHolds, PTL

-----------------------------------------------------------------------------
(***************************************************************************)
(* The invariant implies that nobody starves                               *)
(***************************************************************************)

LEMMA Levels ==
  /\ Level \in 0..2
  /\ ~Adding => Level >= 1
  /\ ~Adding /\ ~Tight => Level = 2
  /\ Tight => Level <= 1
  /\ Adding => Level = 0
  BY DEF Level

LEMMA LevelsNext ==
  /\ Level' \in 0..2
  /\ ~Adding' => Level' >= 1
  /\ ~Adding' /\ ~Tight' => Level' = 2
  /\ Tight' => Level' <= 1
  /\ Adding' => Level' = 0
  BY DEF Level

\* With nothing but a write under way no garbage waits to be entered.
LEMMA NoneAdding ==
  ASSUME StackOK, todo # <<>>,
         Task.op \in PlainOps \cup {"merge", "mergecopy", "convert", "dldel", "append",
                                    "format", "mapwrite"}
  PROVE  ~Adding
  <1>1. Has("addgt") = {t \in {Task} : t.op = "addgt"}
    BY PlainUnder DEF PlainOps
  <1> QED BY <1>1 DEF Has, Adding, PlainOps

LEMMA Unstarved == NftlInv /\ FedInv /\ SpaceInv => NeverStarved
  <1> SUFFICES ASSUME NftlInv, FedInv, SpaceInv, gcpc = "idle", todo # <<>>, NoFree
               PROVE  /\ Task.op \notin {"merge", "mtmerge"}
                      /\ Task.op = "put" => DlIndex(LbaOf(wr[1])) # 0
                      /\ Task.op = "updmt" => mtl # <<>>
    BY DEF NeverStarved
  <1>1. free_blkcnt = 0 /\ StackOK
    BY Counted DEF NftlInv
  <1>2. ASSUME Task.op \in {"merge", "put"} PROVE FALSE
    <2>1. free_blkcnt >= Level
      BY <1>2 DEF SpaceInv, RoomInv, Stocked, AwayOps
    <2>2. ~Adding
      BY <1>1, <1>2, NoneAdding DEF PlainOps
    <2> QED BY <1>1, <2>1, <2>2, Levels
  <1>3. ASSUME Task.op \in {"mtmerge", "updmt"} PROVE FALSE
    <2>1. free_blkcnt >= 1
      BY <1>3 DEF SpaceInv, RoomInv, Stocked
    <2> QED BY <1>1, <2>1
  <1> QED BY <1>2, <1>3

-----------------------------------------------------------------------------
(***************************************************************************)
(* How a step changes the invariant                                        *)
(***************************************************************************)

\* Steps that neither begin nor end what the free blocks are kept for.
MarkOps == PutBlockOps \cup MergeOps \cup {"low"}

LEMMA Neutral ==
  ASSUME NEW E, NEW A, NEW B, Elems(todo) = A \cup E, Elems(todo') = B \cup E,
         \A t \in A \cup B : t.op \notin MarkOps
  PROVE  /\ Tight' <=> Tight
         /\ Low' <=> Low
         /\ \A t \in Elems(todo') : t.op \in MergeOps => t \in Elems(todo)
         /\ (\A t \in A \cup B : t.op # "addgt") => Level' = Level
  <1>1. Low' <=> Low
    BY DEF Low, MarkOps
  <1>2. /\ (\A t \in Elems(todo') : t.op \notin PutBlockOps)
           <=> (\A t \in Elems(todo) : t.op \notin PutBlockOps)
        /\ (\E t \in Elems(todo') : t.op \in MergeOps) <=> (\E t \in Elems(todo) : t.op \in MergeOps)
    BY DEF MarkOps
  <1>3. Tight' <=> Tight
    BY <1>1, <1>2 DEF Tight
  <1>4. \A t \in Elems(todo') : t.op \in MergeOps => t \in Elems(todo)
    BY DEF MarkOps
  <1>5. ASSUME \A t \in A \cup B : t.op # "addgt" PROVE Level' = Level
    <2>1. Adding' <=> Adding
      BY <1>5 DEF Adding
    <2> QED BY <1>3, <2>1 DEF Level
  <1> QED BY <1>1, <1>3, <1>4, <1>5

\* The data stays where it is.
LEMMA SpaceKept ==
  ASSUME RoomInv, Logs' = Logs, Map' = Map, UNCHANGED dl, Tight => Tight',
         \A t \in Elems(todo') : t.op \in MergeOps => t \in Elems(todo) /\ (Low => Low')
  PROVE  Spared' /\ LastMerge'
  <1>1. Spare' = Spare
    BY DEF Spare, Rest, LogBlocks, DataBlocks
  <1>2. Cardinality(Spare) \in Nat
    BY SpareBlocks DEF Spare
  <1>3. Spared'
    BY <1>1, <1>2 DEF RoomInv, Spared
  <1>4. LastMerge'
    BY DEF RoomInv, LastMerge
  <1> QED BY <1>3, <1>4

\* At rest, and where a block is about to be retired.
LEMMA StockedRest ==
  ASSUME NftlInv', free_blkcnt' >= Level',
         todo' # <<>> => Task'.op \notin (AwayOps \ {"addgt", "mergecopy", "mtcopy"}) \cup {"updmt"}
  PROVE  Stocked'
  BY DEF Stocked, AwayOps

LEMMA StockedAway ==
  ASSUME todo' # <<>>, Task'.op \in {"addgt", "mergecopy", "mtcopy"}
  PROVE  Stocked'
  BY DEF Stocked, AwayOps

LEMMA StockedPlenty ==
  ASSUME NftlInv', free_blkcnt' >= 3
  PROVE  Stocked'
  BY LevelsNext, CountNext DEF Stocked

LEMMA TopHolds == StackOK /\ todo # <<>> => Task \in Elems(todo)
  BY Stack

LEMMA TopNext == NftlInv' /\ (todo # <<>>)' => (Task \in Elems(todo))'
  <1>1. NftlInv /\ todo # <<>> => Task \in Elems(todo)
    BY TopHolds DEF NftlInv
  <1> QED BY <1>1, PTL

\* The pool is left alone.
LEMMA PoolStill ==
  ASSUME gcpc = "idle", UNCHANGED poolVars
  PROVE  gcpc' = "idle" /\ free_blkcnt' = free_blkcnt /\ Resumes'
  BY DEF poolVars, ramVars, gcVars, Resumes

LEMMA PoolBegun ==
  ASSUME NEW b, FirstProgram(b)
  PROVE  gcpc' = "idle" /\ free_blkcnt' = free_blkcnt /\ Resumes'
  BY DEF FirstProgram, ramVars, gcVars, Resumes

LEMMA PoolTaken ==
  ASSUME NftlInv, NEW b, Alloc(b)
  PROVE  /\ gcpc' = "idle" /\ Resumes' /\ free_blkcnt' = free_blkcnt - 1
         /\ free_blkcnt \in Nat /\ free_blkcnt >= 1
  BY OneTaken DEF Resumes, NftlInv

-----------------------------------------------------------------------------
(***************************************************************************)
(* Steps of a write that take no block                                     *)
(***************************************************************************)

LEMMA SpareSame ==
  ASSUME Logs' = Logs, Map' = Map
  PROVE  Spare' = Spare /\ Cardinality(Spare) \in Nat
  <1>1. Spare' = Spare
    BY DEF Spare, Rest, LogBlocks, DataBlocks
  <1> QED BY <1>1, SpareBlocks DEF Spare

LEMMA LoopShapes ==
  \A k \in {PutK, PagesK, PageLoopK, BlockLoopK} : T("put") \in Elems(k) /\ T("low") \in Elems(k)
  <1>1. LowK \in Seq(Plain) /\ PutK \in Seq(Plain) /\ PagesK \in Seq(Plain)
    BY PlainStacks
  <1>2. Elems(PutK) = {T("put")} \cup Elems(LowK)
    BY <1>1, Cons DEF PutK
  <1>3. Elems(PagesK) = {T("pages")} \cup Elems(PutK)
    BY <1>1, Cons DEF PagesK
  <1>4. Elems(PageLoopK) = {T("pageloop")} \cup Elems(PutK)
    BY <1>1, Cons DEF PageLoopK
  <1>5. Elems(BlockLoopK) = {T("blockloop")} \cup Elems(PagesK)
    BY <1>1, Cons DEF BlockLoopK
  <1>6. T("low") \in Elems(LowK)
    BY WriteElems
  <1> HIDE DEF PutK, PagesK, PageLoopK, BlockLoopK
  <1> QED BY <1>2, <1>3, <1>4, <1>5, <1>6

LEMMA FullShape ==
  \A k \in FullK : /\ T("low") \in Elems(k)
                   /\ \A t \in Elems(k) : t.op \in {"full", "low", "ack"}
  <1> SUFFICES ASSUME NEW i \in Nat, NEW k, k = <<OnLog("full", i)>> \o LowK
               PROVE  /\ T("low") \in Elems(k)
                      /\ \A t \in Elems(k) : t.op \in {"full", "low", "ack"}
    BY DEF FullK
  <1>1. LowK \in Seq(Plain)
    BY PlainStacks
  <1>2. Elems(k) = {OnLog("full", i)} \cup Elems(LowK)
    BY <1>1, Cons
  <1>3. Elems(LowK) = {T("low"), T("ack")}
    BY WriteElems
  <1>4. OnLog("full", i).op = "full" /\ T("low").op = "low" /\ T("ack").op = "ack"
    BY DEF OnLog, T
  <1> QED BY <1>2, <1>3, <1>4

\* The page has still to be written.
LEMMA PutAhead ==
  ASSUME NftlInv, NftlInv', RoomInv, gcpc = "idle", UNCHANGED poolVars, Unmoved, Level = 2,
         todo # <<>> => Task.op \notin AwayOps,
         T("put") \in Elems(todo'), T("low") \in Elems(todo'),
         \A t \in Elems(todo') : t.op \in PlainOps \cup {"merge"}
  PROVE  RoomInv'
  <1>1. T("put").op = "put" /\ T("low").op = "low"
    BY DEF T
  <1>2. Low' /\ ~Tight' /\ ~Adding' /\ ~Tight
    <2>1. Low' /\ ~Tight' /\ ~Adding'
      BY <1>1 DEF Low, Tight, Adding, PutBlockOps, PlainOps
    <2> QED BY <2>1, Levels
  <1>3. free_blkcnt >= 2 /\ free_blkcnt' = free_blkcnt /\ gcpc' = "idle" /\ Resumes'
    BY PoolStill DEF RoomInv, Stocked
  <1>4. Stocked'
    <2>1. todo' # <<>> => Task'.op \in PlainOps \cup {"merge"}
      BY TopNext
    <2>2. free_blkcnt' >= Level'
      BY <1>2, <1>3, LevelsNext
    <2> QED BY <2>1, <2>2, StockedRest DEF PlainOps, AwayOps
  <1>5. Spared'
    BY <1>2, SpareSame DEF Unmoved, RoomInv, Spared
  <1>6. LastMerge'
    BY <1>2 DEF LastMerge
  <1> QED BY <1>3, <1>4, <1>5, <1>6 DEF RoomInv

\* A task is done, what is left under it takes no block.
LEMMA PopRoom ==
  ASSUME NftlInv, NftlInv', RoomInv, todo # <<>>, Task.op \notin MarkOps \cup {"addgt"},
         free_blkcnt >= Level, free_blkcnt' = free_blkcnt, Resumes', Logs' = Logs, Map' = Map,
         Then(<<>>), \A t \in Elems(Tail(todo)) : t.op \in PlainOps \cup {"dldel", "addgt"}
  PROVE  RoomInv'
  <1>1. StackOK
    BY DEF NftlInv
  <1>2. Elems(todo) = {Task} \cup Elems(Tail(todo)) /\ Elems(todo') = {} \cup Elems(Tail(todo))
    BY <1>1, Stack, Popped
  <1>3. (Tight' <=> Tight) /\ Level' = Level
    <2>1. \A t \in {Task} \cup {} : t.op \notin MarkOps /\ t.op # "addgt"
      OBVIOUS
    <2> QED BY <1>2, <2>1, Neutral
  <1>4. Spared'
    BY <1>3, SpareSame DEF RoomInv, Spared
  <1>5. LastMerge'
    BY <1>2 DEF LastMerge, MergeOps, PlainOps
  <1>6. Stocked'
    <2>1. todo' # <<>> => Task'.op \in PlainOps \cup {"dldel", "addgt"}
      BY <1>2, TopNext
    <2> QED BY <1>3, <2>1, StockedRest DEF PlainOps, AwayOps
  <1> QED BY <1>4, <1>5, <1>6 DEF RoomInv

\* The call returns.
LEMMA EndRoom ==
  ASSUME NftlInv', RoomInv, todo' = <<>>, ~Tight, free_blkcnt' >= 2, Resumes', Logs' = Logs, Map' = Map
  PROVE  RoomInv'
  <1>1. Elems(todo') = {}
    BY PlainStacks
  <1>2. ~Tight' /\ ~Adding' /\ LastMerge'
    BY <1>1 DEF Tight, Low, Adding, LastMerge
  <1>3. Stocked'
    BY <1>2, LevelsNext, StockedRest
  <1>4. Spared'
    BY <1>2, SpareSame DEF RoomInv, Spared
  <1> QED BY <1>2, <1>3, <1>4 DEF RoomInv

\* Between two calls.
LEMMA RestLevel ==
  ASSUME SpaceInv, todo = <<>>, gcpc = "idle"
  PROVE  ~Tight /\ Level = 2 /\ free_blkcnt >= 2
  <1>1. Elems(todo) = {}
    BY PlainStacks
  <1>2. ~Tight /\ ~Adding
    BY <1>1 DEF Tight, Low, Adding
  <1> QED BY <1>2, Levels DEF SpaceInv, RoomInv, Stocked

LEMMA WriteSpace ==
  ASSUME NftlInv, NftlInv', FedInv, SpaceInv,
         NEW lpa \in Lpa, NEW d \in HostWrites(lpa), WriteLogicPage(lpa, d)
  PROVE  RoomInv'
  <1>1. todo = <<>> /\ gcpc = "idle" /\ UNCHANGED poolVars
    BY DEF WriteLogicPage, Idle
  <1>2. todo' \in {PagesK, BlockLoopK}
    <2>1. PagesK \in Seq(Plain)
      BY PlainStacks
    <2>2. <<>> \o PagesK = PagesK
      BY <2>1
    <2> QED BY <2>2, WriteStack DEF WriteLogicPage, When
  <1>3. T("put") \in Elems(todo') /\ T("low") \in Elems(todo')
    BY <1>2, LoopShapes
  <1>4. \A t \in Elems(todo') : t.op \in PlainOps
    BY <1>2, WriteTasks
  <1>5. Level = 2 /\ Unmoved
    BY <1>1, RestLevel, FedWritable, WriteOK
  <1> QED BY <1>1, <1>3, <1>4, <1>5, PutAhead DEF SpaceInv

\* The loops before the page is written.
LEMMA LoopLevel ==
  ASSUME NftlInv, todo # <<>>, Task.op \in {"pages", "blockloop", "pageloop"}
  PROVE  /\ Level = 2 /\ Task.op \notin AwayOps
         /\ Elems(todo) = {Task} \cup Elems(Tail(todo))
         /\ \A t \in Elems(Tail(todo)) : t.op \in PlainOps
         /\ T("put") \in Elems(Tail(todo)) /\ T("low") \in Elems(Tail(todo))
  <1>1. StackOK
    BY DEF NftlInv
  <1>2. Elems(todo) = {Task} \cup Elems(Tail(todo)) /\ Lies(Task, Tail(todo))
    BY <1>1, Stack
  <1>3. Tail(todo) \in {PutK, PagesK}
    BY <1>2 DEF Lies, T, UpdMts, MtSets
  <1>4. /\ \A t \in Elems(Tail(todo)) : t.op \in PlainOps
        /\ T("put") \in Elems(Tail(todo)) /\ T("low") \in Elems(Tail(todo))
    BY <1>3, WriteTasks, LoopShapes
  <1>5. T("put").op = "put"
    BY DEF T
  <1>6. ~Tight /\ ~Adding
    <2>1. ~Tight
      BY <1>2, <1>4, <1>5 DEF Tight, PutBlockOps
    <2> QED BY <1>1, <2>1, NoneAdding DEF PlainOps
  <1> QED BY <1>2, <1>4, <1>6, Levels DEF AwayOps

LEMMA ManyPagesSpace ==
  ASSUME NftlInv, NftlInv', SpaceInv, ManyPages
  PROVE  RoomInv'
  <1> DEFINE t == T("pageloop")
             ts == When(DlPages >= DL_PAGES_HIGH, t)
  <1>1. todo # <<>> /\ gcpc = "idle" /\ Task.op = "pages" /\ UNCHANGED poolVars /\ Then(ts) /\ StackOK
    BY DEF ManyPages, Top, NftlInv
  <1>2. ts \in Seq({t}) /\ (\A u \in Elems(ts) : u = t) /\ t.op = "pageloop"
    BY Whens DEF T
  <1> HIDE DEF ts, t
  <1>3. Elems(todo') = Elems(ts) \cup Elems(Tail(todo))
    BY <1>1, <1>2, Turned
  <1>4. /\ Level = 2 /\ Task.op \notin AwayOps
        /\ \A u \in Elems(Tail(todo)) : u.op \in PlainOps
        /\ T("put") \in Elems(Tail(todo)) /\ T("low") \in Elems(Tail(todo))
    BY <1>1, LoopLevel
  <1>5. \A u \in Elems(todo') : u.op \in PlainOps
    BY <1>2, <1>3, <1>4 DEF PlainOps
  <1>6. Unmoved
    BY ManyPagesOK
  <1> QED BY <1>1, <1>3, <1>4, <1>5, <1>6, PutAhead DEF SpaceInv

LEMMA MergeLoopSpace ==
  ASSUME NftlInv, NftlInv', SpaceInv, MergeLoop
  PROVE  RoomInv'
  <1> DEFINE t == OnLog("merge", MergeFirst)
  <1>1. /\ todo # <<>> /\ gcpc = "idle" /\ Task.op \in {"blockloop", "pageloop"} /\ StackOK
        /\ UNCHANGED poolVars /\ (todo' = <<t>> \o todo \/ todo' = Tail(todo))
    BY DEF MergeLoop, Top, NftlInv
  <1>2. t.op = "merge"
    BY DEF OnLog
  <1> HIDE DEF t
  <1>3. /\ Level = 2 /\ Task.op \notin AwayOps /\ Elems(todo) = {Task} \cup Elems(Tail(todo))
        /\ \A u \in Elems(Tail(todo)) : u.op \in PlainOps
        /\ T("put") \in Elems(Tail(todo)) /\ T("low") \in Elems(Tail(todo))
    BY <1>1, LoopLevel
  <1>4. Elems(todo') \subseteq {t, Task} \cup Elems(Tail(todo)) /\ Elems(Tail(todo)) \subseteq Elems(todo')
    <2>1. CASE todo' = Tail(todo)
      BY <2>1
    <2>2. CASE todo' = <<t>> \o todo
      <3>1. todo \in {BlockLoopK, PageLoopK}
        BY <1>1, Unders
      <3>2. todo \in Seq(Plain)
        BY <3>1, PlainStacks
      <3>3. Elems(todo') = {t} \cup Elems(todo)
        BY <2>2, <3>2, Cons
      <3> QED BY <1>3, <3>3
    <2> QED BY <1>1, <2>1, <2>2
  <1>5. \A u \in Elems(todo') : u.op \in PlainOps \cup {"merge"}
    BY <1>1, <1>2, <1>3, <1>4 DEF PlainOps
  <1>6. Unmoved /\ T("put") \in Elems(todo') /\ T("low") \in Elems(todo')
    BY <1>3, <1>4, MergeLoopOK
  <1>7. UNCHANGED poolVars /\ gcpc = "idle" /\ RoomInv
    BY <1>1 DEF SpaceInv
  <1> QED BY <1>3, <1>5, <1>6, <1>7, PutAhead

LEMMA DeleteLogSpace ==
  ASSUME NftlInv, NftlInv', SpaceInv, DeleteLog
  PROVE  RoomInv'
  <1>1. todo # <<>> /\ gcpc = "idle" /\ Task.op = "dldel" /\ UNCHANGED poolVars /\ Then(<<>>) /\ StackOK
    BY DEF DeleteLog, Top, NftlInv
  <1>2. \A t \in Elems(Tail(todo)) : t.op \in PlainOps
    BY <1>1, PlainUnder
  <1>3. free_blkcnt >= Level /\ free_blkcnt' = free_blkcnt /\ Resumes'
    BY <1>1, PoolStill DEF SpaceInv, RoomInv, Stocked, AwayOps
  <1>4. Logs' = Logs /\ Map' = Map
    BY DeleteLogOK DEF Unmoved
  <1>5. Task.op \notin MarkOps \cup {"addgt"}
    BY <1>1 DEF MarkOps, PutBlockOps, MergeOps
  <1> QED BY <1>1, <1>2, <1>3, <1>4, <1>5, PopRoom DEF SpaceInv

\* The task is done, what follows is the look at the free blocks.
LEMMA LowAhead ==
  ASSUME NftlInv', RoomInv, free_blkcnt' >= 1, Resumes', Cardinality(Spare') >= 3,
         T("low") \in Elems(todo'), \A t \in Elems(todo') : t.op \in {"merge", "full", "low", "ack"}
  PROVE  RoomInv'
  <1>1. T("low").op = "low"
    BY DEF T
  <1>2. Low' /\ Tight'
    BY <1>1 DEF Low, Tight, PutBlockOps
  <1>3. Spared' /\ LastMerge'
    BY <1>2 DEF Spared, LastMerge
  <1>4. Stocked'
    <2>1. todo' # <<>> => Task'.op \in {"merge", "full", "low", "ack"}
      BY TopNext
    <2>2. free_blkcnt' >= Level'
      BY <1>2, LevelsNext, CountNext
    <2> QED BY <2>1, <2>2, StockedRest DEF AwayOps
  <1> QED BY <1>3, <1>4 DEF RoomInv

LEMMA FullLogSpace ==
  ASSUME NftlInv, NftlInv', SpaceInv, FullLog
  PROVE  RoomInv'
  <1> DEFINE t == OnLog("merge", Task.i)
             c == Task.i <= Len(dl) /\ dl[Task.i].used = PagesPerBlock
             ts == When(c, t)
  <1>1. todo # <<>> /\ gcpc = "idle" /\ Task.op = "full" /\ UNCHANGED poolVars /\ Then(ts) /\ StackOK
    BY DEF FullLog, Top, NftlInv
  <1>0. t.op = "merge"
    BY DEF OnLog
  <1> HIDE DEF c, t
  <1>2. ts \in Seq({t}) /\ (\A u \in Elems(ts) : u = t) /\ t.op = "merge"
    BY <1>0, Whens
  <1> HIDE DEF ts
  <1>3. Elems(todo') = Elems(ts) \cup Elems(Tail(todo)) /\ Elems(todo) = {Task} \cup Elems(Tail(todo))
    BY <1>1, <1>2, Turned
  <1>4. Elems(Tail(todo)) = {T("low"), T("ack")} /\ T("low").op = "low" /\ T("ack").op = "ack"
    BY <1>1, Unders, WriteElems DEF T
  <1>5. \A u \in Elems(todo') : u.op \in {"merge", "full", "low", "ack"}
    BY <1>2, <1>3, <1>4
  <1>6. ~Adding
    BY <1>1, NoneAdding DEF PlainOps
  <1>7. free_blkcnt >= 1 /\ free_blkcnt' = free_blkcnt /\ Resumes'
    <2>1. free_blkcnt >= Level /\ free_blkcnt' = free_blkcnt /\ Resumes'
      BY <1>1, PoolStill DEF SpaceInv, RoomInv, Stocked, AwayOps
    <2> QED BY <1>6, <2>1, Levels, CountHolds
  <1>8. Spare' = Spare /\ Cardinality(Spare) \in Nat
    BY SpareSame, FullLogOK DEF Unmoved
  <1>9. Cardinality(Spare') >= 3
    BY <1>8 DEF SpaceInv, RoomInv, Spared
  <1> QED BY <1>3, <1>4, <1>5, <1>7, <1>9, LowAhead DEF SpaceInv

LEMMA WriteReturnsSpace ==
  ASSUME NftlInv, NftlInv', SpaceInv, WriteReturns
  PROVE  RoomInv'
  <1>1. todo # <<>> /\ gcpc = "idle" /\ Task.op = "ack" /\ UNCHANGED poolVars /\ todo' = <<>> /\ StackOK
    BY DEF WriteReturns, Top, NftlInv
  <1>2. Elems(todo) = {T("ack")} /\ T("ack").op = "ack"
    BY <1>1, Unders, WriteElems DEF T
  <1>3. ~Tight /\ ~Adding
    BY <1>2 DEF Tight, Low, Adding, MergeOps
  <1>4. free_blkcnt >= 2 /\ free_blkcnt' = free_blkcnt /\ Resumes'
    BY <1>1, <1>3, Levels, PoolStill DEF SpaceInv, RoomInv, Stocked, AwayOps
  <1>5. Logs' = Logs /\ Map' = Map
    BY WriteReturnsOK DEF Unmoved
  <1> QED BY <1>1, <1>3, <1>4, <1>5, EndRoom DEF SpaceInv

\* Nothing but the read cache changes.
LEMMA SameSpace ==
  ASSUME NftlInv, RoomInv, UNCHANGED <<poolVars, mtl, dl, todo>>, Logs' = Logs, Map' = Map
  PROVE  RoomInv'
  <1>0. /\ mtl' = mtl /\ todo' = todo /\ dl' = dl /\ gcpc' = gcpc /\ free_blkcnt' = free_blkcnt
    BY DEF poolVars, ramVars, gcVars
  <1>1. /\ Elems(todo') = Elems(todo) /\ Task' = Task /\ mtl' = mtl /\ todo' = todo /\ dl' = dl
        /\ gcpc' = gcpc /\ free_blkcnt' = free_blkcnt
    BY <1>0 DEF Task
  <1>2. (Tight' <=> Tight) /\ (Low' <=> Low) /\ (Adding' <=> Adding)
    BY <1>1 DEF Tight, Low, Adding
  <1>3. Spared' /\ LastMerge'
    BY <1>1, <1>2, SpaceKept
  <1>4. Level' = Level
    BY <1>2 DEF Level
  <1>5. Stocked'
    BY <1>1, <1>4 DEF RoomInv, Stocked
  <1>6. Resumes'
    BY <1>1, <1>2 DEF RoomInv, Resumes
  <1> QED BY <1>3, <1>5, <1>6 DEF RoomInv

LEMMA ReadSpace ==
  ASSUME NftlInv, SpaceInv, NEW lpa \in Lpa, Read(lpa)
  PROVE  RoomInv'
  <1>1. UNCHANGED <<poolVars, mtl, dl, todo>>
    BY DEF Read
  <1>2. Logs' = Logs /\ Map' = Map
    BY ReadOK DEF Unmoved
  <1> QED BY <1>1, <1>2, SameSpace DEF SpaceInv

-----------------------------------------------------------------------------
(***************************************************************************)
(* The page and its log                                                    *)
(***************************************************************************)

\* The page is about to be written.
LEMMA PutLevel ==
  ASSUME NftlInv, RoomInv, todo # <<>>, gcpc = "idle", Task.op \in {"put", "append"}
  PROVE  /\ StackOK /\ ~Tight /\ ~Adding /\ Cardinality(Spare) >= 4
         /\ Elems(todo) = {Task} \cup Elems(Tail(todo))
         /\ Elems(Tail(todo)) = {T("low"), T("ack")} /\ T("low").op = "low" /\ T("ack").op = "ack"
         /\ Task.op = "put" => free_blkcnt >= 2
         /\ Task.op = "append" => free_blkcnt >= 1
  <1>1. StackOK
    BY DEF NftlInv
  <1>2. Elems(todo) = {Task} \cup Elems(Tail(todo))
    BY <1>1, Stack
  <1>3. Elems(Tail(todo)) = {T("low"), T("ack")} /\ T("low").op = "low" /\ T("ack").op = "ack"
    BY <1>1, Unders, WriteElems DEF T
  <1>4. ~Tight /\ ~Adding
    BY <1>2, <1>3 DEF Tight, Adding, PutBlockOps
  <1>5. Cardinality(Spare) >= 4
    BY <1>4 DEF RoomInv, Spared
  <1>6. /\ Task.op = "put" => free_blkcnt >= 2
        /\ Task.op = "append" => free_blkcnt >= 1
    BY <1>4, Levels DEF RoomInv, Stocked, AwayOps
  <1> QED BY <1>1, <1>2, <1>3, <1>4, <1>5, <1>6

LEMMA PutInLogSpace ==
  ASSUME NftlInv, NftlInv', FedInv, SpaceInv, PutInLog
  PROVE  RoomInv'
  <1> DEFINE i == DlIndex(LbaOf(wr[1]))
             e == dl[i]
             f == [e EXCEPT !.used = @ + 1, !.ppa[OfsOf(wr[1])] = e.used]
             c == OnLog("convert", i)
             u == OnLog("full", i)
  <1>1. /\ todo # <<>> /\ gcpc = "idle" /\ Task.op = "put" /\ i # 0 /\ UNCHANGED poolVars
        /\ InOrder(e) => Then(<<c, u>>)
        /\ ~InOrder(e) => Then(<<u>>)
    BY DEF PutInLog, Top
  <1>2. /\ StackOK /\ Cardinality(Spare) >= 4 /\ Elems(Tail(todo)) = {T("low"), T("ack")}
        /\ T("low").op = "low" /\ T("ack").op = "ack" /\ free_blkcnt >= 2
    BY <1>1, PutLevel DEF SpaceInv
  <1>3. c.op = "convert" /\ u.op = "full"
    BY DEF OnLog
  <1>4. free_blkcnt' = free_blkcnt /\ Resumes' /\ free_blkcnt \in Nat
    BY <1>1, PoolStill, CountHolds
  <1>5. Spare' = Spare
    <2>1. /\ Map' = Map /\ (InOrder(e) => Logs' = Logs)
          /\ ~InOrder(e) => Logs' = (Logs \ {e}) \cup {f}
      BY PutInLogOK DEF LogTakes
    <2>2. ~InOrder(e) => LogBlocks(Logs') = LogBlocks(Logs)
      <3>1. OneLog /\ dl \in Seq(LogRec) /\ Dying = {} /\ Ready
        BY <1>1, Parts, AtPlain DEF FedInv, PlainOps
      <3>2. i \in 1..Len(dl) /\ e.lba = LbaOf(wr[1]) /\ e \in LogRec
        BY <1>1, <3>1, Found
      <3>3. e \in Logs
        BY <3>1, <3>2 DEF Logs
      <3>4. T("put") \in Elems(todo)
        BY <1>1, <1>2, Stack, Unders
      <3>5. T("ack") \in Elems(todo)
        BY <1>1, <1>2, Stack
      <3>6. e.used < PagesPerBlock /\ OfsOf(wr[1]) \in Page
        BY <3>1, <3>2, <3>4, <3>5, Places DEF Ready
      <3>7. f.pba = e.pba
        BY <3>2 DEF LogRec
      <3> HIDE DEF e, f
      <3> QED BY <2>1, <3>3, <3>7 DEF LogBlocks
    <2> HIDE DEF e, f
    <2> QED BY <2>1, <2>2 DEF Spare, Rest
  <1> HIDE DEF c, u, e
  <1>6. CASE InOrder(e)
    <2>1. <<c, u>> \in Seq({c, u}) /\ Elems(<<c, u>>) = {c, u}
      BY Pair
    <2>2. Elems(todo') = {c, u} \cup {T("low"), T("ack")}
      BY <1>1, <1>2, <1>6, <2>1, Turned
    <2>3. ~Tight' /\ ~Adding' /\ LastMerge'
      BY <1>2, <1>3, <2>2 DEF Tight, Adding, LastMerge, PutBlockOps, MergeOps
    <2>4. free_blkcnt' >= Level'
      BY <1>2, <1>4, <2>3, LevelsNext
    <2>5. todo' # <<>> => Task'.op \in {"convert", "full", "low", "ack"}
      BY <1>2, <1>3, <2>2, TopNext
    <2>6. Stocked'
      BY <2>4, <2>5, StockedRest DEF AwayOps
    <2>7. Spared'
      BY <1>2, <1>5, <2>3 DEF Spared
    <2> QED BY <1>4, <2>3, <2>6, <2>7 DEF RoomInv
  <1>7. CASE ~InOrder(e)
    <2>1. <<u>> \in Seq({u}) /\ Elems(<<u>>) = {u}
      BY Alone
    <2>2. Elems(todo') = {u} \cup {T("low"), T("ack")}
      BY <1>1, <1>2, <1>7, <2>1, Turned
    <2>3. Cardinality(Spare') >= 3
      BY <1>2, <1>5, SpareBlocks DEF Spare
    <2>4. free_blkcnt' >= 1
      BY <1>2, <1>4
    <2>5. T("low") \in Elems(todo') /\ \A t \in Elems(todo') : t.op \in {"merge", "full", "low", "ack"}
      BY <1>2, <1>3, <2>2
    <2> QED BY <1>4, <2>3, <2>4, <2>5, LowAhead DEF SpaceInv
  <1> QED BY <1>6, <1>7

LEMMA PutAllocSpace ==
  ASSUME NftlInv, NftlInv', SpaceInv, NEW b \in Block, PutAlloc(b)
  PROVE  RoomInv'
  <1> DEFINE u == [op |-> "append", blk |-> b]
  <1>1. todo # <<>> /\ gcpc = "idle" /\ Task.op = "put" /\ Alloc(b) /\ Then(<<u>>)
    BY DEF PutAlloc, Top
  <1>2. /\ StackOK /\ Cardinality(Spare) >= 4 /\ Elems(Tail(todo)) = {T("low"), T("ack")}
        /\ T("low").op = "low" /\ T("ack").op = "ack" /\ free_blkcnt >= 2 /\ u.op = "append"
    BY <1>1, PutLevel DEF SpaceInv
  <1>3. free_blkcnt' >= 1 /\ Resumes'
    BY <1>1, <1>2, PoolTaken
  <1> HIDE DEF u
  <1>4. <<u>> \in Seq({u}) /\ Elems(<<u>>) = {u}
    BY Alone
  <1>5. Elems(todo') = {u} \cup {T("low"), T("ack")} /\ todo' # <<>> /\ Task' = u
    <2>1. Elems(todo') = {u} \cup {T("low"), T("ack")}
      BY <1>1, <1>2, <1>4, Turned
    <2>2. Tail(todo) \in Seq(Under)
      BY <1>1, <1>2, Stack
    <2> QED BY <1>1, <2>1, <2>2, Cons DEF Then, Task
  <1>6. ~Tight' /\ ~Adding' /\ LastMerge'
    BY <1>2, <1>5 DEF Tight, Adding, LastMerge, PutBlockOps, MergeOps
  <1>7. Stocked'
    BY <1>2, <1>3, <1>5 DEF Stocked, AwayOps
  <1>8. Spare' = Spare
    BY SpareSame, PutAllocOK DEF Unmoved
  <1>9. Spared'
    BY <1>2, <1>6, <1>8 DEF Spared
  <1> QED BY <1>3, <1>6, <1>7, <1>9 DEF RoomInv

LEMMA PutAppendSpace ==
  ASSUME NftlInv, NftlInv', SpaceInv, PutAppend
  PROVE  RoomInv'
  <1> DEFINE b == Task.blk
  <1>1. todo # <<>> /\ gcpc = "idle" /\ Task.op = "append" /\ FirstProgram(b) /\ Then(<<>>)
    BY DEF PutAppend, Top
  <1>2. /\ StackOK /\ Cardinality(Spare) >= 4 /\ Elems(Tail(todo)) = {T("low"), T("ack")}
        /\ T("low").op = "low" /\ T("ack").op = "ack" /\ free_blkcnt >= 1
        /\ Elems(todo) = {Task} \cup Elems(Tail(todo))
    BY <1>1, PutLevel DEF SpaceInv
  <1>3. free_blkcnt' >= 1 /\ Resumes'
    BY <1>1, <1>2, PoolBegun
  <1>4. Elems(todo') = {T("low"), T("ack")}
    BY <1>1, <1>2, Popped
  <1>5. LogComesIn(b) /\ NewLog(b).pba = b
    BY PutAppendOK DEF NewLog
  <1> HIDE DEF b
  <1>6. LogBlocks(Logs') \subseteq LogBlocks(Logs) \cup {b}
    BY <1>5, LogComes DEF LogComesIn
  <1>7. Spare \ {b} \subseteq Spare'
    BY <1>5, <1>6 DEF Spare, Rest, LogComesIn
  <1>8. Cardinality(Spare') >= 3
    <2>1. Spare \subseteq Block /\ Spare' \subseteq Block /\ IsFiniteSet(Spare) /\ IsFiniteSet(Spare')
          /\ Cardinality(Spare) \in Nat /\ Cardinality(Spare') \in Nat
      BY SpareBlocks DEF Spare
    <2>2. Spare \subseteq Spare' \cup {b}
      BY <1>7
    <2>3. IsFiniteSet({b}) /\ Cardinality({b}) = 1
      BY FS_Singleton
    <2>4. IsFiniteSet(Spare' \cup {b}) /\ Cardinality(Spare' \cup {b}) <= Cardinality(Spare') + 1
          /\ Cardinality(Spare' \cup {b}) \in Nat
      BY <2>1, <2>3, Both
    <2>5. Cardinality(Spare) <= Cardinality(Spare' \cup {b})
      BY <2>2, <2>4, FS_Subset
    <2> DEFINE n == Cardinality(Spare)
               m == Cardinality(Spare')
               k == Cardinality(Spare' \cup {b})
    <2>6. n \in Nat /\ m \in Nat /\ k \in Nat /\ n >= 4 /\ n <= k /\ k <= m + 1
      BY <1>2, <2>1, <2>4, <2>5
    <2> HIDE DEF n, m, k
    <2>7. m >= 3
      BY <2>6
    <2> QED BY <2>7 DEF m
  <1>9. T("low") \in Elems(todo') /\ \A t \in Elems(todo') : t.op \in {"merge", "full", "low", "ack"}
    BY <1>2, <1>4
  <1> QED BY <1>3, <1>8, <1>9, LowAhead DEF SpaceInv

\* The task on top after a step.
LEMMA HeadThen ==
  ASSUME StackOK, todo # <<>>, NEW S, NEW ts \in Seq(S), ts # <<>>, Then(ts)
  PROVE  todo' # <<>> /\ Task' = Head(ts)
  <1>1. Tail(todo) \in Seq(Under)
    BY Stack
  <1>2. Len(ts) >= 1 /\ Head(ts) = ts[1]
    OBVIOUS
  <1> DEFINE R == S \cup Under
             k == Tail(todo)
  <1>3. ts \in Seq(R) /\ k \in Seq(R)
    BY <1>1
  <1> HIDE DEF R, k
  <1>4. ts \o k \in Seq(R) /\ Len(ts \o k) = Len(ts) + Len(k) /\ (ts \o k)[1] = ts[1]
    BY <1>2, <1>3
  <1>5. ts \o k # <<>> /\ Head(ts \o k) = (ts \o k)[1]
    BY <1>2, <1>3, <1>4
  <1> QED BY <1>2, <1>4, <1>5 DEF Then, Task, k

\* The log becomes the Data block.
LEMMA ConvertSpace ==
  ASSUME NftlInv, NftlInv', FedInv, SpaceInv, Convert
  PROVE  RoomInv'
  <1> DEFINE e == dl[Task.i]
             c == MapTable[e.lba] # NoBlock
             a == AddGt(<<MapTable[e.lba]>>)
             u == UpdMt(e.lba, e.pba)
             v == OnLog("dldel", Task.i)
             w == When(c, a)
             ts == w \o <<u, v>>
  <1>1. /\ todo # <<>> /\ gcpc = "idle" /\ Task.op = "convert" /\ Then(ts)
        /\ UNCHANGED poolVars /\ StackOK
    BY DEF Convert, Top, NftlInv
  <1>2. a.op = "addgt" /\ u.op = "updmt" /\ v.op = "dldel"
    BY DEF AddGt, UpdMt, OnLog
  <1>3. /\ ~Lost /\ Dying = {} /\ Indices
        /\ LogLeaves(e, e.pba)
    BY <1>1, AtPlain, Parts, ConvertOK
  <1>4. Task.i \in 1..Len(dl)
    <2>1. Task \in Elems(todo)
      BY <1>1, Stack
    <2> QED BY <1>1, <1>3, <2>1 DEF Indices
  <1>5. e \in Logs /\ e.pba \in LogBlocks(Logs)
    <2>1. e \in Logs
      BY <1>3, <1>4 DEF Logs
    <2> QED BY <2>1, LogSeen
  <1> HIDE DEF e
  <1>6. /\ T("low") \in Elems(Tail(todo)) /\ T("low").op = "low"
        /\ \A t \in Elems(Tail(todo)) : t.op \in {"full", "low", "ack"}
    BY <1>1, Unders, FullShape DEF T
  <1>7. Elems(todo) = {Task} \cup Elems(Tail(todo)) /\ ~Adding
    BY <1>1, Stack, NoneAdding
  <1>8. ~Tight
    BY <1>1, <1>7 DEF Tight, PutBlockOps
  <1>9. free_blkcnt >= 2 /\ Cardinality(Spare) >= 4
    BY <1>1, <1>7, <1>8, Levels DEF SpaceInv, RoomInv, Stocked, AwayOps, Spared
  <1>10. free_blkcnt' = free_blkcnt /\ Resumes' /\ free_blkcnt \in Nat
    BY <1>1, PoolStill, CountHolds
  <1>11. Cardinality(Spare') >= 4
    <2>1. LogBlocks(Logs') \subseteq LogBlocks(Logs) /\ DataBlocks(Map') \subseteq DataBlocks(Map) \cup {e.pba}
      <3>1. LogBlocks(Logs') \subseteq LogBlocks(Logs)
        BY <1>3 DEF LogLeaves, LogBlocks
      <3>2. \A l \in Lba : Map'[l] \in {Map[l], e.pba}
        <4>1. Map \in [Lba -> BlockX]
          BY <1>1, AtPlain, MapSeen
        <4> QED BY <1>3, <4>1 DEF LogLeaves
      <3> QED BY <3>1, <3>2 DEF DataBlocks
    <2>2. Spare \subseteq Spare'
      BY <1>5, <2>1 DEF Spare, Rest
    <2>3. IsFiniteSet(Spare') /\ Cardinality(Spare') \in Nat /\ Cardinality(Spare) \in Nat
      BY SpareBlocks DEF Spare
    <2>4. Cardinality(Spare) <= Cardinality(Spare')
      BY <2>2, <2>3, FS_Subset
    <2> DEFINE n == Cardinality(Spare)
               m == Cardinality(Spare')
    <2>5. n \in Nat /\ m \in Nat /\ n >= 4 /\ n <= m
      BY <1>9, <2>3, <2>4
    <2> HIDE DEF n, m
    <2>6. m >= 4
      BY <2>5
    <2> QED BY <2>6 DEF m
  <1> HIDE DEF a, u, v, c
  <1>12. w \in Seq({a}) /\ \A x \in Elems(w) : x = a
    BY Whens
  <1>13. /\ ts \in Seq({a, u, v}) /\ Elems(ts) = Elems(w) \cup {u, v}
    <2> HIDE DEF w
    <2>1. w \in Seq({a, u, v}) /\ <<u, v>> \in Seq({a, u, v})
      BY <1>12
    <2>2. Elems(ts) = Elems(w) \cup Elems(<<u, v>>)
      BY <2>1, Joint, ZenonT(40)
    <2> QED BY <2>1, <2>2, Pair
  <1>14. ts # <<>> /\ Head(ts) \in {a, u}
    <2>1. CASE c
      <3>1. ts = <<a>> \o <<u, v>>
        BY <2>1 DEF When
      <3>2. ts = <<a, u, v>>
        BY <3>1, Joined3
      <3>3. <<a, u, v>> # <<>> /\ Head(<<a, u, v>>) = a
        OBVIOUS
      <3> HIDE DEF ts
      <3> QED BY <3>2, <3>3
    <2>2. CASE ~c
      <3>1. ts = <<>> \o <<u, v>>
        BY <2>2 DEF When
      <3>2. ts = <<u, v>> /\ <<u, v>> # <<>> /\ Head(<<u, v>>) = u
        BY <3>1
      <3> HIDE DEF ts
      <3> QED BY <3>2
    <2> QED BY <2>1, <2>2
  <1> HIDE DEF ts
  <1>15. Elems(todo') = Elems(ts) \cup Elems(Tail(todo)) /\ todo' # <<>> /\ Task' \in {a, u}
    BY <1>1, <1>13, <1>14, Turned, HeadThen
  <1>16. \A t \in Elems(todo') : t.op \in {"addgt", "updmt", "dldel", "full", "low", "ack"}
    BY <1>2, <1>6, <1>12, <1>13, <1>15
  <1>17. Low' /\ Tight' /\ LastMerge'
    <2>1. Low'
      BY <1>6, <1>15 DEF Low
    <2> QED BY <1>16, <2>1 DEF Tight, LastMerge, PutBlockOps
  <1>18. Spared'
    BY <1>11, <1>17, SpareBlocks DEF Spared, Spare
  <1>19. CASE Task' = a
    BY <1>2, <1>10, <1>15, <1>17, <1>18, <1>19, StockedAway DEF RoomInv
  <1>20. CASE Task' = u
    <2>0. free_blkcnt' >= 2 /\ free_blkcnt' \in Nat
      BY <1>9, <1>10
    <2>1. Level' \in 0..1 /\ Task'.op = "updmt"
      BY <1>2, <1>17, <1>20, LevelsNext
    <2>2. free_blkcnt' >= Level' + 1 /\ free_blkcnt' >= 1 /\ free_blkcnt' >= Level'
      <3> DEFINE n == Level'
                 f == free_blkcnt'
      <3>1. n \in 0..1 /\ f \in Nat /\ f >= 2
        BY <2>0, <2>1
      <3> HIDE DEF n, f
      <3>2. f >= n + 1 /\ f >= 1 /\ f >= n
        BY <3>1
      <3> QED BY <3>2 DEF n, f
    <2>3. Stocked'
      BY <1>15, <2>1, <2>2 DEF Stocked
    <2> QED BY <1>10, <1>17, <1>18, <2>3 DEF RoomInv
  <1> QED BY <1>15, <1>19, <1>20

\* Where no logical block has a log and a Data block, the reserve is complete.
LEMMA Unmixed ==
  ASSUME Roomy, NftlInv, FedInv, PoolKept, gcpc = "idle", Garb = {}, Taking = {},
         \A e \in Logs : Map[e.lba] = NoBlock
  PROVE  Cardinality(Spare) >= 4 /\ free_blkcnt >= 2
  <1> DEFINE C == LogBlocks(Logs) \cup DataBlocks(Map)
             B == Block \ FactoryBad
  <1>1. \A e, f \in Logs : e.lba \in Lba /\ (e.lba = f.lba => e = f)
    BY LogSeen DEF LogRec
  <1>2. IsFiniteSet(C) /\ Cardinality(C) <= NLba
    BY <1>1, OnePerLba
  <1>3. IsFiniteSet(Spare) /\ Cardinality(Spare) \in Nat
    BY SpareBlocks DEF Spare
  <1>4. B \subseteq Spare \cup C
    BY DEF Spare, Rest
  <1>5. /\ IsFiniteSet(Spare \cup C) /\ Cardinality(Spare \cup C) <= Cardinality(Spare) + Cardinality(C)
        /\ Cardinality(C) \in Nat /\ Cardinality(Spare \cup C) \in Nat
    BY <1>2, <1>3, Both
  <1>6. Cardinality(B) <= Cardinality(Spare \cup C) /\ Cardinality(B) \in Nat
    BY <1>4, <1>5, FS_Subset, FS_CardinalityType
  <1>7. Cardinality(Spare) <= free_blkcnt + 2 + GarbageRoom /\ free_blkcnt \in Nat
    BY CensusAtRest
  <1>8. GarbageRoom \in Nat /\ NLba \in Nat
    BY GarbageFits, Numbers DEF NftlInv, PoolKept
  <1>9. Cardinality(B) >= NLba + 4 + GarbageRoom
    BY DEF Roomy
  <1> DEFINE s == Cardinality(Spare)
             n == Cardinality(C)
             k == Cardinality(Spare \cup C)
             m == Cardinality(B)
             r == GarbageRoom
  <1>10. /\ s \in Nat /\ n \in Nat /\ k \in Nat /\ m \in Nat /\ r \in Nat /\ NLba \in Nat /\ free_blkcnt \in Nat
         /\ n <= NLba /\ k <= s + n /\ m <= k /\ s <= free_blkcnt + 2 + r /\ m >= NLba + 4 + r
    BY <1>2, <1>3, <1>5, <1>6, <1>7, <1>8, <1>9
  <1> HIDE DEF s, n, k, m, r
  <1>11. s >= 4 + r /\ s >= 4 /\ free_blkcnt >= 2
    BY <1>10
  <1> QED BY <1>11 DEF s

\* "if (free_blkcnt <= MINI_FREE_BLOCK)": a merge makes up for the block that the
\* page took, unless there is nothing to make up for.
LEMMA LowSpaceSpace ==
  ASSUME Roomy, NftlInv, NftlInv', FedInv, SpaceInv, LowSpace
  PROVE  RoomInv'
  <1> DEFINE low == free_blkcnt <= MINI_FREE_BLOCK /\ dl # <<>>
             c == low /\ Mergeable # {}
             t == OnLog("merge", MergeFirst)
             ts == When(c, t)
  <1>1. /\ todo # <<>> /\ gcpc = "idle" /\ Task.op = "low" /\ StackOK /\ UNCHANGED <<poolVars, dl>> /\ Then(ts)
    BY DEF LowSpace, Top, NftlInv
  <1>2. /\ Elems(todo) = {T("low"), T("ack")} /\ Elems(Tail(todo)) = {T("ack")}
        /\ T("low").op = "low" /\ T("ack").op = "ack"
    BY <1>1, Unders, WriteElems DEF T
  <1>3. ~Adding /\ Tight
    BY <1>2 DEF Adding, Tight, Low, PutBlockOps
  <1>4. Cardinality(Spare) >= 3 /\ free_blkcnt >= 1 /\ free_blkcnt \in Nat
    <2>1. free_blkcnt >= Level
      BY <1>1 DEF SpaceInv, RoomInv, Stocked, AwayOps
    <2>2. free_blkcnt >= 1 /\ free_blkcnt \in Nat
      BY <1>3, <2>1, Levels, CountHolds
    <2> QED BY <1>3, <2>2 DEF SpaceInv, RoomInv, Spared
  <1>5. free_blkcnt' = free_blkcnt /\ Resumes'
    BY <1>1, PoolStill
  <1>6. Logs' = Logs /\ Map' = Map /\ Spare' = Spare
    BY SpareSame, LowSpaceOK DEF Unmoved
  <1>7. /\ ~Lost /\ ~Closing /\ mt_pbas # NoBlock /\ Garb = {} /\ Map = CurMap /\ Dying = {}
        /\ dl \in Seq(LogRec) /\ MapTable = Map
    BY <1>1, AtPlain, MapSeen, Parts DEF PlainOps
  <1>8. t.op = "merge" /\ t.i = MergeFirst
    BY DEF OnLog
  <1>9. CASE c
    <2> HIDE DEF t
    <2>1. ts = <<t>> /\ <<t>> \in Seq({t}) /\ Elems(<<t>>) = {t}
      BY <1>9, Alone DEF When
    <2> HIDE DEF ts
    <2>2. Elems(todo') = {t} \cup {T("ack")}
      BY <1>1, <1>2, <2>1, Turned
    <2>3. Tight' /\ ~Adding'
      BY <1>2, <1>8, <2>2 DEF Tight, Adding, PutBlockOps, MergeOps
    <2>4. Spared'
      BY <1>4, <1>6, <2>3 DEF Spared
    <2>5. Stocked'
      <3>1. free_blkcnt' >= Level'
        BY <1>4, <1>5, <2>3, LevelsNext
      <3>2. todo' # <<>> => Task'.op \in {"merge", "ack"}
        BY <1>2, <1>8, <2>2, TopNext
      <3> QED BY <3>1, <3>2, StockedRest DEF AwayOps
    <2>6. LastMerge'
      <3>1. MergeFirst \in Mergeable
        <4>1. Mergeable \subseteq Nat /\ Mergeable # {}
          BY <1>7, <1>9 DEF Mergeable
        <4> QED BY <4>1, Least DEF MergeFirst
      <3>2. Map[dl[t.i].lba] # NoBlock
        BY <1>7, <1>8, <3>1 DEF Mergeable
      <3>3. \A u \in Elems(todo') : u.op \in MergeOps => u = t
        BY <1>2, <2>2 DEF MergeOps
      <3>4. dl' = dl /\ Map' = Map
        BY <1>1, <1>6
      <3> HIDE DEF LastMerge
      <3>5. \A u \in Elems(todo') : u.op \in MergeOps => Map'[dl'[u.i].lba] # NoBlock
        BY <3>2, <3>3, <3>4
      <3> QED BY <3>5 DEF LastMerge
    <2> QED BY <1>5, <2>4, <2>5, <2>6 DEF RoomInv
  <1>10. CASE ~c
    <2>1. ts = <<>>
      BY <1>10 DEF When
    <2>2. Elems(todo') = {T("ack")}
      BY <1>1, <1>2, <2>1, Popped
    <2>3. ~Tight' /\ ~Adding' /\ LastMerge'
      BY <1>2, <2>2 DEF Tight, Low, Adding, LastMerge, PutBlockOps, MergeOps
    <2>4. Cardinality(Spare) >= 4 /\ free_blkcnt >= 2
      <3>1. CASE free_blkcnt > MINI_FREE_BLOCK
        <4>1. MINI_FREE_BLOCK \in Nat /\ MINI_FREE_BLOCK >= 2
          BY PoolAssumption DEF Roomy
        <4>2. free_blkcnt >= 3
          BY <1>4, <3>1, <4>1
        <4>3. Cardinality(Spare) >= free_blkcnt + 1 /\ Cardinality(Spare) \in Nat
          BY <1>1, <1>7, FreeAndMap DEF SpaceInv, PoolKept
        <4> DEFINE s == Cardinality(Spare)
        <4>4. s >= free_blkcnt + 1 /\ s \in Nat
          BY <4>3
        <4> HIDE DEF s
        <4>5. s >= 4 /\ free_blkcnt >= 2
          BY <1>4, <4>2, <4>4
        <4> QED BY <4>5 DEF s
      <3>2. CASE free_blkcnt <= MINI_FREE_BLOCK
        <4>1. dl = <<>> \/ Mergeable = {}
          BY <1>10, <3>2
        <4>2. \A i \in 1..Len(dl) : MapTable[dl[i].lba] = NoBlock
          BY <4>1 DEF Mergeable
        <4>3. \A e \in Logs : Map[e.lba] = NoBlock
          BY <1>7, <4>2 DEF Logs
        <4>4. Taking = {}
          BY <1>2 DEF Taking, TakeOps
        <4> QED BY <1>1, <1>7, <4>3, <4>4, Unmixed DEF SpaceInv
      <3>3. MINI_FREE_BLOCK \in Nat
        BY PoolAssumption
      <3> QED BY <1>4, <3>1, <3>2, <3>3
    <2>5. Stocked'
      <3>1. free_blkcnt' >= Level'
        BY <1>5, <2>3, <2>4, LevelsNext
      <3>2. todo' # <<>> => Task'.op = "ack"
        BY <1>2, <2>2, TopNext
      <3> QED BY <3>1, <3>2, StockedRest DEF AwayOps
    <2>6. Spared'
      BY <1>6, <2>3, <2>4 DEF Spared
    <2> QED BY <1>5, <2>3, <2>5, <2>6 DEF RoomInv
  <1> QED BY <1>9, <1>10

-----------------------------------------------------------------------------
(***************************************************************************)
(* nftl_merge_dlblk                                                        *)
(***************************************************************************)

\* A blank block is spare, a block with data is not, and neither is bad.
LEMMA GoodBlocks ==
  ASSUME NftlInv, ~Lost, Unspoilt
  PROVE  /\ \A x \in Programmed : x \in Block /\ x \notin FactoryBad
         /\ \A b \in Block : media[b] = "blank" => b \in Spare /\ b \notin Programmed
         /\ LogBlocks(Logs) \cup DataBlocks(Map) \subseteq Programmed
         /\ (LogBlocks(Logs) \cup DataBlocks(Map)) \cap Spare = {}
  <1>1. LogBlocks(Logs) \cup DataBlocks(Map) \subseteq Programmed /\ Programmed \subseteq Block
    BY Members
  <1>2. \A x \in Programmed : x \in Block /\ x \notin FactoryBad
    BY <1>1 DEF Programmed, Unspoilt
  <1>3. \A b \in Block : media[b] = "blank" => b \notin Programmed /\ b \notin FactoryBad
    BY DEF Programmed, Unspoilt
  <1> QED BY <1>1, <1>2, <1>3 DEF Spare, Rest

\* The log and the old Data block of a logical block make way for block b.
LEMMA LogEndsSpare ==
  ASSUME NftlInv, ~Lost, Unspoilt, NEW e \in Logs, e \in LogRec, e.pba \in Block, e.pba \in LogBlocks(Logs),
         Map \in [Lba -> BlockX], NEW b \in Block, media[b] = "blank", LogLeaves(e, b)
  PROVE  /\ Cardinality(Spare) \in Nat
         /\ Map[e.lba] = NoBlock => Cardinality(Spare') = Cardinality(Spare)
         /\ Map[e.lba] # NoBlock => Cardinality(Spare') = Cardinality(Spare) + 1
  <1> DEFINE L == Logs
             D == Map
             p == e.pba
             old == D[e.lba]
  <1>1. /\ b \in Spare /\ b \notin Programmed /\ p \in Programmed /\ p \notin FactoryBad /\ p \notin Spare
        /\ LogBlocks(L) \cup DataBlocks(D) \subseteq Programmed
    BY GoodBlocks
  <1>2. e.lba \in Lba /\ NoBlock \notin Block
    BY Numbers DEF LogRec
  <1>3. /\ \A x, y \in L : x.pba = y.pba /\ x.pba # NoBlock => x = y
        /\ \A k, m \in Lba : D[k] = D[m] /\ D[k] # NoBlock => k = m
        /\ LogBlocks(L) \cap DataBlocks(D) = {}
    BY Parts DEF Tables, Owned
  <1> HIDE DEF L, D
  <1>4. LogBlocks(L \ {e}) = LogBlocks(L) \ {p}
    <2>1. e \in L /\ e.pba # NoBlock /\ \A f \in L : f.pba = e.pba => f = e
      BY <1>2, <1>3 DEF L
    <2> QED BY <2>1, LogGoes
  <1>5. DataBlocks([D EXCEPT ![e.lba] = b]) = (DataBlocks(D) \ {old}) \cup {b}
        /\ (old # NoBlock => old \in DataBlocks(D))
    <2>1. D \in [Lba -> BlockX]
      BY DEF D
    <2> QED BY <1>2, <1>3, <2>1, EntryChanges
  <1>6. Spare = Rest(L, D) /\ Spare' = Rest(L \ {e}, [D EXCEPT ![e.lba] = b])
    BY DEF Spare, LogLeaves, L, D
  <1>7. p \in LogBlocks(L)
    BY DEF L
  <1>8. old # NoBlock => old \in Block /\ old \notin FactoryBad /\ old \notin Spare /\ old # p /\ old # b
    BY <1>1, <1>3, <1>5, <1>6, <1>7, GoodBlocks DEF L, D
  <1> HIDE DEF p, old
  <1>9. old = NoBlock => Spare' = (Spare \ {b}) \cup {p}
    <2> SUFFICES ASSUME old = NoBlock PROVE Spare' = (Spare \ {b}) \cup {p}
      OBVIOUS
    <2>1. NoBlock \notin DataBlocks(D)
      BY DEF DataBlocks
    <2>2. DataBlocks([D EXCEPT ![e.lba] = b]) = DataBlocks(D) \cup {b}
      BY <1>5, <2>1
    <2>3. p \notin DataBlocks(D) /\ p # b /\ p \in Block
      BY <1>1, <1>3, <1>7 DEF p
    <2> QED BY <1>1, <1>4, <1>6, <1>7, <2>2, <2>3 DEF Rest
  <1>10. old # NoBlock => Spare' = ((Spare \ {b}) \cup {p}) \cup {old}
    <2> SUFFICES ASSUME old # NoBlock PROVE Spare' = ((Spare \ {b}) \cup {p}) \cup {old}
      OBVIOUS
    <2>1. p \notin DataBlocks(D) /\ p # b /\ p \in Block
      BY <1>1, <1>3, <1>7 DEF p
    <2>2. old \notin LogBlocks(L)
      BY <1>3, <1>5
    <2> QED BY <1>1, <1>4, <1>5, <1>6, <1>7, <1>8, <2>1, <2>2 DEF Rest
  <1>11. Spare \subseteq Block /\ p \in Block
    BY SpareBlocks DEF Spare, p
  <1>12. /\ Cardinality((Spare \ {b}) \cup {p}) = Cardinality(Spare) /\ Cardinality(Spare) \in Nat
         /\ \A d \in Block : d \notin Spare /\ d # p =>
              Cardinality(((Spare \ {b}) \cup {p}) \cup {d}) = Cardinality(Spare) + 1
    <2> DEFINE S == Spare
    <2>1. S \subseteq Block /\ b \in S /\ p \in Block /\ p \notin S
      BY <1>1, <1>11
    <2> HIDE DEF S
    <2>2. /\ Cardinality((S \ {b}) \cup {p}) = Cardinality(S) /\ Cardinality(S) \in Nat
          /\ \A d \in Block : d \notin S /\ d # p =>
               Cardinality(((S \ {b}) \cup {p}) \cup {d}) = Cardinality(S) + 1
      BY <2>1, Exchanged, Zenon
    <2> QED BY <2>2 DEF S
  <1> QED BY <1>8, <1>9, <1>10, <1>12 DEF old, D

LEMMA MergeAllocSpace ==
  ASSUME NftlInv, NftlInv', SpaceInv, NEW b \in Block, MergeAlloc(b)
  PROVE  RoomInv'
  <1> DEFINE u == [op |-> "mergecopy", i |-> Task.i, old |-> MapTable[dl[Task.i].lba], blk |-> b]
  <1>1. /\ todo # <<>> /\ gcpc = "idle" /\ Task.op = "merge" /\ Alloc(b) /\ Then(<<u>>) /\ StackOK
        /\ UNCHANGED dl
    BY DEF MergeAlloc, Top, NftlInv
  <1>2. u.op = "mergecopy" /\ u.i = Task.i
    OBVIOUS
  <1>3. Resumes'
    BY <1>1, PoolTaken
  <1> HIDE DEF u
  <1>4. <<u>> \in Seq({u}) /\ Elems(<<u>>) = {u} /\ <<u>> # <<>> /\ Head(<<u>>) = u
    BY Alone
  <1>5. /\ Elems(todo) = {Task} \cup Elems(Tail(todo)) /\ Elems(todo') = {u} \cup Elems(Tail(todo))
        /\ todo' # <<>> /\ Task' = u
    BY <1>1, <1>4, Turned, HeadThen
  <1>6. \A t \in Elems(Tail(todo)) : t.op \in PlainOps
    BY <1>1, PlainUnder
  <1>7. (Tight' <=> Tight) /\ (Low' <=> Low)
    <2>1. Low' <=> Low
      BY <1>1, <1>2, <1>5 DEF Low
    <2>2. (\A t \in Elems(todo') : t.op \notin PutBlockOps) <=> (\A t \in Elems(todo) : t.op \notin PutBlockOps)
      BY <1>1, <1>2, <1>5 DEF PutBlockOps
    <2>3. (\E t \in Elems(todo') : t.op \in MergeOps) /\ (\E t \in Elems(todo) : t.op \in MergeOps)
      BY <1>1, <1>2, <1>5 DEF MergeOps
    <2> QED BY <2>1, <2>2, <2>3 DEF Tight
  <1>8. Logs' = Logs /\ Map' = Map
    BY MergeAllocOK DEF Unmoved
  <1>9. Spared'
    BY <1>7, <1>8, SpareSame DEF SpaceInv, RoomInv, Spared
  <1>10. LastMerge'
    <2>1. Low \/ Map[dl[Task.i].lba] # NoBlock
      BY <1>1, <1>5 DEF SpaceInv, RoomInv, LastMerge, MergeOps
    <2>2. \A t \in Elems(todo') : t.op \in MergeOps => t = u
      BY <1>5, <1>6 DEF PlainOps, MergeOps
    <2>3. dl' = dl /\ Map' = Map
      BY <1>1, <1>8
    <2>4. \A t \in Elems(todo') : t.op \in MergeOps => Low' \/ Map'[dl'[t.i].lba] # NoBlock
      BY <1>2, <1>7, <2>1, <2>2, <2>3
    <2> QED BY <2>4 DEF LastMerge
  <1>11. Stocked'
    BY <1>2, <1>5, StockedAway
  <1> QED BY <1>3, <1>9, <1>10, <1>11 DEF RoomInv

LEMMA MergeCopySpace ==
  ASSUME NftlInv, NftlInv', FedInv, SpaceInv, MergeCopy
  PROVE  RoomInv'
  <1> DEFINE e == dl[Task.i]
             b == Task.blk
             a == AddGt(<<e.pba>> \o When(Task.old # NoBlock, Task.old))
             u == UpdMt(e.lba, b)
             v == OnLog("dldel", Task.i)
             E == Elems(Tail(todo))
  <1>1. /\ todo # <<>> /\ gcpc = "idle" /\ Task.op = "mergecopy" /\ FirstProgram(b)
        /\ Then(<<a, u, v>>) /\ StackOK
    BY DEF MergeCopy, Top, NftlInv
  <1>2. a.op = "addgt" /\ u.op = "updmt" /\ v.op = "dldel"
    BY DEF AddGt, UpdMt, OnLog
  <1>3. /\ ~Lost /\ Dying = {} /\ Indices /\ SoundInv /\ LogLeaves(e, b) /\ Map \in [Lba -> BlockX]
    BY <1>1, AtPlain, Parts, MapSeen, MergeCopyOK
  <1>4. Task \in Elems(todo) /\ Task.i \in 1..Len(dl)
    <2>1. Task \in Elems(todo)
      BY <1>1, Stack
    <2> QED BY <1>1, <1>3, <2>1 DEF Indices
  <1>5. e \in Logs /\ e \in LogRec /\ e.pba \in Block /\ e.pba \in LogBlocks(Logs)
    <2>1. e \in Logs
      BY <1>3, <1>4 DEF Logs
    <2> QED BY <2>1, LogSeen
  <1>6. b \in Block /\ media[b] = "blank"
    BY <1>1, <1>3, Begun
  <1>7. Resumes'
    BY <1>1, PoolBegun
  <1>8. Low \/ Map[e.lba] # NoBlock
    BY <1>1, <1>4 DEF SpaceInv, RoomInv, LastMerge, MergeOps
  <1> HIDE DEF e, b
  <1>9. /\ Cardinality(Spare) \in Nat
        /\ Map[e.lba] = NoBlock => Cardinality(Spare') = Cardinality(Spare)
        /\ Map[e.lba] # NoBlock => Cardinality(Spare') = Cardinality(Spare) + 1
    BY <1>3, <1>5, <1>6, LogEndsSpare DEF SpaceInv, PoolKept
  <1> HIDE DEF a, u, v
  <1>10. /\ Elems(todo) = {Task} \cup E /\ Elems(todo') = {a, u, v} \cup E
         /\ todo' # <<>> /\ Task' = a
    <2>1. /\ <<a, u, v>> \in Seq({a, u, v}) /\ Elems(<<a, u, v>>) = {a, u, v}
          /\ <<a, u, v>> # <<>> /\ Head(<<a, u, v>>) = a
      BY Triple
    <2> QED BY <1>1, <2>1, Turned, HeadThen
  <1>11. \A t \in E : t.op \in PlainOps
    BY <1>1, PlainUnder
  <1> HIDE DEF E
  <1>12. /\ Low' <=> Low
         /\ Tight' => Tight
         /\ LastMerge'
    <2>1. Low' <=> Low
      BY <1>1, <1>2, <1>10 DEF Low
    <2>2. \A t \in Elems(todo') : t.op \notin MergeOps
      BY <1>2, <1>10, <1>11 DEF MergeOps, PlainOps
    <2>3. Tight' => Tight
      BY <1>1, <1>10, <2>1, <2>2 DEF Tight, PutBlockOps
    <2> QED BY <2>1, <2>2, <2>3 DEF LastMerge
  <1>13. Low /\ Tight => Tight'
    BY <1>2, <1>10, <1>12 DEF Tight, PutBlockOps
  <1>14. Spared'
    <2> DEFINE n == Cardinality(Spare)
               m == Cardinality(Spare')
    <2>1. n \in Nat /\ m \in {n, n + 1} /\ (Map[e.lba] # NoBlock => m = n + 1) /\ n >= 3 /\ (~Tight => n >= 4)
      BY <1>9 DEF SpaceInv, RoomInv, Spared
    <2>2. Tight' \/ ~Tight \/ m = n + 1
      BY <1>8, <1>13, <2>1
    <2> HIDE DEF n, m
    <2>3. IF Tight' THEN m >= 3 ELSE m >= 4
      BY <2>1, <2>2
    <2> QED BY <2>3 DEF Spared, m
  <1>15. Stocked'
    BY <1>2, <1>10, StockedAway
  <1> QED BY <1>7, <1>12, <1>14, <1>15 DEF RoomInv

-----------------------------------------------------------------------------
(***************************************************************************)
(* nftl_update_mt and nftl_merge_mtlblk                                    *)
(***************************************************************************)

UpdateOps == {"updmt", "mtappend", "mtmerge", "mtcopy", "mtset"}

\* No step of an update of the mapping table touches the data.
LEMMA UpdSpaced ==
  ASSUME NftlInv, RoomInv, todo # <<>>, Task.op \in UpdateOps,
         NEW B, Elems(todo') = B \cup Elems(Tail(todo)), \A t \in B : t.op \notin MarkOps,
         Logs' = Logs, Map' = Map, UNCHANGED dl
  PROVE  /\ Spared' /\ LastMerge'
         /\ (\A t \in B : t.op # "addgt") => Level' = Level
  <1>1. StackOK
    BY DEF NftlInv
  <1>2. Elems(todo) = {Task} \cup Elems(Tail(todo))
    BY <1>1, Stack
  <1>3. \A t \in {Task} \cup B : t.op \notin MarkOps
    BY DEF UpdateOps, MarkOps, PutBlockOps, MergeOps
  <1>4. /\ Tight' <=> Tight
        /\ Low' <=> Low
        /\ \A t \in Elems(todo') : t.op \in MergeOps => t \in Elems(todo)
        /\ (\A t \in {Task} \cup B : t.op # "addgt") => Level' = Level
    BY <1>2, <1>3, Neutral
  <1>5. Task.op # "addgt"
    BY DEF UpdateOps
  <1>6. Spared' /\ LastMerge'
    BY <1>4, SpaceKept
  <1> QED BY <1>4, <1>5, <1>6

\* An update that is done.
LEMMA UpdRoom ==
  ASSUME NftlInv, NftlInv', RoomInv, todo # <<>>, Task.op \in {"updmt", "mtappend", "mtset"},
         gcpc = "idle", free_blkcnt' = free_blkcnt, Resumes', Logs' = Logs, Map' = Map, Then(<<>>)
  PROVE  RoomInv'
  <1>1. \A t \in Elems(Tail(todo)) : t.op \in PlainOps \cup {"dldel", "addgt"}
    BY AtUpdate
  <1>2. Task.op \notin MarkOps \cup {"addgt"}
    BY DEF MarkOps, PutBlockOps, MergeOps
  <1>3. free_blkcnt >= Level
    BY DEF RoomInv, Stocked, AwayOps
  <1> QED BY <1>1, <1>2, <1>3, PopRoom

LEMMA UpdateMtInsertSpace ==
  ASSUME NftlInv, NftlInv', SpaceInv, UpdateMtInsert
  PROVE  RoomInv'
  <1> DEFINE c == mtl[1].used + 1 = PagesPerBlock
             t == T("mtmerge")
  <1>1. /\ todo # <<>> /\ gcpc = "idle" /\ Task.op = "updmt" /\ StackOK /\ UNCHANGED <<poolVars, dl>>
        /\ Then(When(c, t))
    BY DEF UpdateMtInsert, Top, NftlInv
  <1>2. gcpc' = "idle" /\ free_blkcnt' = free_blkcnt /\ Resumes' /\ t.op = "mtmerge"
    BY <1>1, PoolStill DEF T
  <1>3. Logs' = Logs /\ Map' = Map
    BY UpdateMtInsertOK DEF Unmoved
  <1> HIDE DEF c, t
  <1>4. CASE c
    <2>1. Then(<<t>>)
      BY <1>1, <1>4 DEF When
    <2>2. <<t>> \in Seq({t}) /\ Elems(<<t>>) = {t} /\ <<t>> # <<>> /\ Head(<<t>>) = t
      BY Alone
    <2>3. Elems(todo') = {t} \cup Elems(Tail(todo)) /\ todo' # <<>> /\ Task' = t
      BY <1>1, <2>1, <2>2, Turned, HeadThen
    <2>4. Spared' /\ LastMerge'
      <3> DEFINE B == {t}
      <3>1. \A u \in B : u.op \notin MarkOps
        BY <1>2 DEF MarkOps, PutBlockOps, MergeOps
      <3>2. RoomInv /\ Task.op \in UpdateOps /\ dl' = dl
        BY <1>1 DEF SpaceInv, UpdateOps
      <3>3. Elems(todo') = B \cup Elems(Tail(todo))
        BY <2>3
      <3> HIDE DEF B
      <3> QED BY <1>1, <1>3, <3>1, <3>2, <3>3, UpdSpaced
    <2>5. free_blkcnt' >= 1
      BY <1>1, <1>2 DEF SpaceInv, RoomInv, Stocked
    <2>6. Stocked'
      BY <1>2, <2>3, <2>5 DEF Stocked, AwayOps
    <2> QED BY <1>2, <2>4, <2>6 DEF RoomInv
  <1>5. CASE ~c
    <2>1. Then(<<>>)
      BY <1>1, <1>5 DEF When
    <2> QED BY <1>1, <1>2, <1>3, <2>1, UpdRoom DEF SpaceInv
  <1> QED BY <1>4, <1>5

LEMMA UpdateMtAllocSpace ==
  ASSUME NftlInv, NftlInv', SpaceInv, NEW b \in Block, UpdateMtAlloc(b)
  PROVE  RoomInv'
  <1> DEFINE t == [op |-> "mtappend", lba |-> Task.lba, pba |-> Task.pba, blk |-> b]
  <1>1. /\ todo # <<>> /\ gcpc = "idle" /\ Task.op = "updmt" /\ StackOK /\ UNCHANGED dl /\ Alloc(b)
        /\ mtl = <<>> /\ Then(<<t>>)
    BY DEF UpdateMtAlloc, Top, NftlInv
  <1>2. Resumes' /\ free_blkcnt' = free_blkcnt - 1 /\ free_blkcnt \in Nat /\ t.op = "mtappend"
    BY <1>1, PoolTaken
  <1>3. Logs' = Logs /\ Map' = Map
    BY UpdateMtAllocOK DEF Unmoved
  <1> HIDE DEF t
  <1>4. <<t>> \in Seq({t}) /\ Elems(<<t>>) = {t} /\ <<t>> # <<>> /\ Head(<<t>>) = t
    BY Alone
  <1>5. Elems(todo') = {t} \cup Elems(Tail(todo)) /\ todo' # <<>> /\ Task' = t
    BY <1>1, <1>4, Turned, HeadThen
  <1>6. Spared' /\ LastMerge' /\ Level' = Level
    <2> DEFINE B == {t}
    <2>1. \A u \in B : u.op \notin MarkOps /\ u.op # "addgt"
      BY <1>2 DEF MarkOps, PutBlockOps, MergeOps
    <2>2. RoomInv /\ Task.op \in UpdateOps /\ dl' = dl
      BY <1>1 DEF SpaceInv, UpdateOps
    <2>3. Elems(todo') = B \cup Elems(Tail(todo))
      BY <1>5
    <2> HIDE DEF B
    <2> QED BY <1>1, <1>3, <2>1, <2>2, <2>3, UpdSpaced
  <1>7. free_blkcnt' >= Level'
    <2>1. free_blkcnt >= Level + 1
      BY <1>1 DEF SpaceInv, RoomInv, Stocked
    <2> DEFINE n == Level
    <2>2. n \in Nat /\ free_blkcnt >= n + 1 /\ Level' = n
      BY <1>6, <2>1, Levels
    <2> HIDE DEF n
    <2>3. free_blkcnt - 1 >= n
      BY <1>2, <2>2
    <2> QED BY <1>2, <2>2, <2>3
  <1>8. Stocked'
    BY <1>2, <1>5, <1>7, StockedRest DEF AwayOps
  <1> QED BY <1>2, <1>6, <1>8 DEF RoomInv

LEMMA UpdateMtAppendSpace ==
  ASSUME NftlInv, NftlInv', SpaceInv, UpdateMtAppend
  PROVE  RoomInv'
  <1>1. todo # <<>> /\ gcpc = "idle" /\ Task.op = "mtappend" /\ FirstProgram(Task.blk) /\ Then(<<>>)
    BY DEF UpdateMtAppend, Top
  <1>2. free_blkcnt' = free_blkcnt /\ Resumes'
    BY <1>1, PoolBegun
  <1>3. Logs' = Logs /\ Map' = Map
    BY UpdateMtAppendOK DEF Unmoved
  <1> QED BY <1>1, <1>2, <1>3, UpdRoom DEF SpaceInv

LEMMA MtMergeSetSpace ==
  ASSUME NftlInv, NftlInv', SpaceInv, MtMergeSet
  PROVE  RoomInv'
  <1>1. todo # <<>> /\ gcpc = "idle" /\ Task.op = "mtset" /\ UNCHANGED poolVars /\ Then(<<>>)
    BY DEF MtMergeSet, Top
  <1>2. free_blkcnt' = free_blkcnt /\ Resumes'
    BY <1>1, PoolStill
  <1>3. Logs' = Logs /\ Map' = Map
    BY MtMergeSetOK DEF Unmoved
  <1> QED BY <1>1, <1>2, <1>3, UpdRoom DEF SpaceInv

LEMMA MtMergeAllocSpace ==
  ASSUME NftlInv, NftlInv', SpaceInv, NEW b \in Block, MtMergeAlloc(b)
  PROVE  RoomInv'
  <1> DEFINE t == [op |-> "mtcopy", blk |-> b]
  <1>1. todo # <<>> /\ Task.op = "mtmerge" /\ StackOK /\ UNCHANGED dl /\ Alloc(b) /\ Then(<<t>>)
    BY DEF MtMergeAlloc, Top, NftlInv
  <1>2. Resumes' /\ t.op = "mtcopy"
    BY <1>1, PoolTaken
  <1>3. Logs' = Logs /\ Map' = Map
    BY MtMergeAllocOK DEF Unmoved
  <1> HIDE DEF t
  <1>4. <<t>> \in Seq({t}) /\ Elems(<<t>>) = {t} /\ <<t>> # <<>> /\ Head(<<t>>) = t
    BY Alone
  <1>5. Elems(todo') = {t} \cup Elems(Tail(todo)) /\ todo' # <<>> /\ Task' = t
    BY <1>1, <1>4, Turned, HeadThen
  <1>6. Spared' /\ LastMerge'
    <2> DEFINE B == {t}
    <2>1. \A u \in B : u.op \notin MarkOps
      BY <1>2 DEF MarkOps, PutBlockOps, MergeOps
    <2>2. RoomInv /\ Task.op \in UpdateOps /\ dl' = dl
      BY <1>1 DEF SpaceInv, UpdateOps
    <2>3. Elems(todo') = B \cup Elems(Tail(todo))
      BY <1>5
    <2> HIDE DEF B
    <2> QED BY <1>1, <1>3, <2>1, <2>2, <2>3, UpdSpaced
  <1> QED BY <1>2, <1>5, <1>6, StockedAway DEF RoomInv

LEMMA MtMergeCopySpace ==
  ASSUME NftlInv, NftlInv', SpaceInv, MtMergeCopy
  PROVE  RoomInv'
  <1> DEFINE t == AddGt(<<mt_pbas, mtl[1].pba>>)
             v == [op |-> "mtset", blk |-> Task.blk]
  <1>1. todo # <<>> /\ Task.op = "mtcopy" /\ StackOK /\ UNCHANGED dl /\ FirstProgram(Task.blk) /\ Then(<<t, v>>)
    BY DEF MtMergeCopy, Top, NftlInv
  <1>2. Resumes' /\ t.op = "addgt" /\ v.op = "mtset"
    BY <1>1, PoolBegun DEF AddGt
  <1>3. Logs' = Logs /\ Map' = Map
    BY MtMergeCopyOK DEF Unmoved
  <1> HIDE DEF t, v
  <1>4. <<t, v>> \in Seq({t, v}) /\ Elems(<<t, v>>) = {t, v} /\ <<t, v>> # <<>> /\ Head(<<t, v>>) = t
    BY Pair
  <1>5. Elems(todo') = {t, v} \cup Elems(Tail(todo)) /\ todo' # <<>> /\ Task' = t
    BY <1>1, <1>4, Turned, HeadThen
  <1>6. Spared' /\ LastMerge'
    <2> DEFINE B == {t, v}
    <2>1. \A u \in B : u.op \notin MarkOps
      BY <1>2 DEF MarkOps, PutBlockOps, MergeOps
    <2>2. RoomInv /\ Task.op \in UpdateOps /\ dl' = dl
      BY <1>1 DEF SpaceInv, UpdateOps
    <2>3. Elems(todo') = B \cup Elems(Tail(todo))
      BY <1>5
    <2> HIDE DEF B
    <2> QED BY <1>1, <1>3, <2>1, <2>2, <2>3, UpdSpaced
  <1> QED BY <1>2, <1>5, <1>6, StockedAway DEF RoomInv

-----------------------------------------------------------------------------
(***************************************************************************)
(* nftl_addto_gt and nftl_reclaim_garbages                                 *)
(***************************************************************************)

\* The entry of a log is about to go.
LEMMA DelOps ==
  ASSUME NEW q \in DelK
  PROVE  \A t \in Elems(q) : t.op \in PlainOps \cup {"dldel"}
  <1>1. PICK i \in Nat, r \in RetK \cup FullK : q = <<OnLog("dldel", i)>> \o r
    <2> DEFINE K == RetK \cup FullK
               F(i, r) == <<OnLog("dldel", i)>> \o r
    <2>1. q \in DelK
      OBVIOUS
    <2>2. DelK = {F(i, r) : i \in Nat, r \in K}
      BY DEF DelK
    <2> HIDE DEF K, F
    <2>3. \E i \in Nat, r \in K : q = F(i, r)
      BY <2>1, <2>2
    <2> QED BY <2>3 DEF K, F
  <1>2. r \in Seq(Plain) /\ Elems(r) \subseteq Plain
    BY PlainStacks DEF RetK
  <1>3. Elems(q) = {OnLog("dldel", i)} \cup Elems(r) /\ OnLog("dldel", i).op = "dldel"
    BY <1>1, <1>2, Cons DEF OnLog
  <1> QED BY <1>2, <1>3, PlainOp

\* What nftl_addto_gt returns to.
LEMMA AddReturns ==
  ASSUME NEW k \in AddK
  PROVE  /\ \A t \in Elems(k) : t.op \notin TakeOps \cup {"format"}
         /\ (\E t \in Elems(k) : t.op = "addgt") => k # <<>> /\ Head(k).op = "mtset"
  <1>1. CASE k \in MoveK
    <2>1. \A t \in Elems(k) : t.op \in PlainOps \cup {"merge", "convert"}
      BY <1>1, MoveOps
    <2> QED BY <2>1 DEF PlainOps, TakeOps
  <1>2. CASE \E u \in UpdMts, r \in DelK : k = <<u>> \o r /\ Elems(k) = {u} \cup Elems(r)
    <2>1. PICK u \in UpdMts, r \in DelK : Elems(k) = {u} \cup Elems(r)
      BY <1>2
    <2>2. u.op = "updmt"
      BY DEF UpdMts
    <2>3. \A t \in Elems(r) : t.op \in PlainOps \cup {"dldel"}
      BY <2>1, DelOps
    <2>4. \A t \in Elems(k) : t.op \in PlainOps \cup {"dldel", "updmt"}
      BY <2>1, <2>2, <2>3
    <2> QED BY <2>4 DEF PlainOps, TakeOps
  <1>3. CASE \E m \in MtSets, r \in UpdK : k = <<m>> \o r /\ Elems(k) = {m} \cup Elems(r)
    <2>1. PICK m \in MtSets, r \in UpdK : k = <<m>> \o r /\ Elems(k) = {m} \cup Elems(r)
      BY <1>3
    <2>2. m.op = "mtset"
      BY DEF MtSets
    <2>3. r \in Seq(Under) /\ \A t \in Elems(r) : t.op \in PlainOps \cup {"dldel", "addgt"}
      BY UpdStacks, UpdOps
    <2>4. k # <<>> /\ Head(k) = m
      BY <2>1, <2>3, Cons
    <2>5. \A t \in Elems(k) : t.op \in PlainOps \cup {"dldel", "addgt", "mtset"}
      BY <2>1, <2>2, <2>3
    <2> QED BY <2>2, <2>4, <2>5 DEF PlainOps, TakeOps
  <1>4. CASE Elems(k) = {T("lost")}
    BY <1>4 DEF T, TakeOps
  <1> QED BY <1>1, <1>2, <1>3, <1>4, AddStacks

LEMMA AddGarbageSpace ==
  ASSUME Roomy, NftlInv, NftlInv', FedInv, SpaceInv, AddGarbage
  PROVE  RoomInv'
  <1> DEFINE g == Task.g
             E == Elems(Tail(todo))
             B == {}
  <1>1. /\ todo # <<>> /\ Task.op = "addgt" /\ Then(<<>>) /\ StackOK
        /\ AddToGt(g) \/ AddToNoGt(g) \/ \E b \in Block : AddToNewGt(g, b)
        /\ UNCHANGED <<flash, mt_pbas, mtl, dl>>
    BY DEF AddGarbage, Top, NftlInv
  <1>2. Elems(todo) = {Task} \cup E /\ Elems(todo') = E /\ Lies(Task, Tail(todo)) /\ todo' = Tail(todo)
    BY <1>1, Stack, Popped
  <1>3. \A op : op # "addgt" => Has(op)' = Has(op)
    BY <1>1, <1>2 DEF Has
  <1>4. Map' = Map /\ Logs' = Logs
    BY <1>1, <1>3, SameMaps
  <1>5. g \in Seq(Block) /\ Tail(todo) \in AddK
    BY <1>1, <1>2 DEF Lies, T, UpdMts, MtSets
  <1>6. Spared' /\ LastMerge'
    <2>1. \A t \in {Task} \cup B : t.op \notin MarkOps
      BY <1>1 DEF MarkOps, PutBlockOps, MergeOps
    <2>2. Elems(todo') = B \cup E
      BY <1>2
    <2> HIDE DEF B, E
    <2>3. /\ Tight' <=> Tight
          /\ Low' <=> Low
          /\ \A t \in Elems(todo') : t.op \in MergeOps => t \in Elems(todo)
      BY <1>2, <2>1, <2>2, Neutral
    <2>4. RoomInv /\ dl' = dl
      BY <1>1 DEF SpaceInv
    <2> QED BY <1>4, <2>3, <2>4, SpaceKept
  <1>7. AfterGtPage /\ gar_pbas' = gar_pbas \o g
    BY <1>1 DEF AddToGt, AddToNoGt, AddToNewGt, EnterGarbage
  <1>8. Stocked'
    <2> SUFFICES ASSUME gcpc' = "idle" PROVE Stocked'
      BY DEF Stocked
    <2>1. ~MustReclaim(gt_pgcnt', gar_pbas', free_blkcnt')
      BY <1>7 DEF AfterGtPage
    <2>2. Len(gar_pbas') > 0
      <3>1. gar_pbas \in Seq(Block)
        BY SoundParts DEF NftlInv, TypeOK
      <3>2. Len(g) \in 1..2
        <4>1. Task \in Has("addgt")
          BY <1>1, <1>2 DEF Has
        <4> QED BY <4>1 DEF NftlInv, GarbLists
      <3> HIDE DEF g
      <3>3. Len(gar_pbas \o g) = Len(gar_pbas) + Len(g) /\ Len(gar_pbas) \in Nat
        BY <1>5, <3>1
      <3> QED BY <1>7, <3>2, <3>3
    <2>3. ~(free_blkcnt' <= MINI_FREE_BLOCK)
      BY <2>1, <2>2 DEF MustReclaim
    <2>4. MINI_FREE_BLOCK \in Nat /\ MINI_FREE_BLOCK >= 2 /\ free_blkcnt' \in Nat
      BY PoolAssumption, CountNext DEF Roomy
    <2>5. free_blkcnt' >= 3
      BY <2>3, <2>4
    <2> QED BY <2>5, StockedPlenty
  <1>9. Resumes'
    <2>1. /\ \A t \in Elems(todo') : t.op \notin TakeOps \cup {"format"}
          /\ (\E t \in Elems(todo') : t.op = "addgt") => todo' # <<>> /\ Head(todo').op = "mtset"
      BY <1>2, <1>5, AddReturns
    <2> QED BY <2>1 DEF Resumes, Adding, Task
  <1> QED BY <1>6, <1>8, <1>9 DEF RoomInv

LEMMA ReclaimSpace ==
  ASSUME NftlInv, NftlInv', FedInv, FedInv', SpaceInv, PoolKept', Reclaim
  PROVE  RoomInv'
  <1>1. UNCHANGED <<mt_pbas, mtl, dl, todo>>
    BY DEF Reclaim
  <1>2. ~Lost /\ SoundInv /\ BlankOK /\ flash \in [Block -> [Page -> PageRec]]
    BY Parts DEF FedInv
  <1>3. \A x \in Programmed : flash'[x] = flash[x]
    BY <1>2, Cleaned
  <1>4. Map' = Map /\ Logs' = Logs
    BY <1>1, <1>2, <1>3, SameBlocks
  <1>5. Elems(todo') = Elems(todo) /\ Task' = Task /\ todo' = todo /\ dl' = dl /\ mtl' = mtl
    BY <1>1 DEF Task
  <1>6. (Tight' <=> Tight) /\ (Low' <=> Low) /\ (Adding' <=> Adding)
    BY <1>5 DEF Tight, Low, Adding
  <1>7. Spared' /\ LastMerge'
    <2>1. RoomInv
      BY DEF SpaceInv
    <2> QED BY <1>4, <1>5, <1>6, <2>1, SpaceKept
  <1>8. gcpc = "reclaim"
    BY DEF Reclaim, EraseGarbage, EraseGt, EraseNoGt, ReclaimDone
  <1>9. /\ \A t \in Elems(todo) : t.op \notin TakeOps \cup {"format"}
        /\ Adding => Task.op = "mtset"
    BY <1>8 DEF SpaceInv, RoomInv, Resumes
  <1>10. Resumes'
    BY <1>5, <1>6, <1>9 DEF Resumes
  <1>11. Stocked'
    <2> SUFFICES ASSUME gcpc' = "idle" PROVE Stocked'
      BY DEF Stocked
    <2>1. gar_pbas' = <<>> /\ gt_pbas' = NoBlock
      BY <1>8 DEF Reclaim, EraseGarbage, EraseGt, EraseNoGt, ReclaimDone
    <2>2. free_blkcnt' \in Nat
      BY CountNext
    <2>3. CASE Adding
      <3>1. Level' = 0 /\ Task'.op = "mtset"
        BY <1>5, <1>6, <1>9, <2>3, LevelsNext
      <3>2. free_blkcnt' >= Level'
        BY <2>2, <3>1
      <3> QED BY <3>1, <3>2, StockedRest DEF AwayOps
    <2>4. CASE ~Adding
      <3>1. Garb' = {} /\ Taking' = {}
        <4>1. Has("addgt")' = {}
          BY <1>6, <2>4 DEF Adding, Has
        <4>2. Garb' = {}
          BY <4>1 DEF Garb
        <4>3. Taking' = {}
          BY <1>5, <1>9 DEF Taking
        <4> QED BY <4>2, <4>3
      <3>2. /\ Cardinality(Spare') <= free_blkcnt' + Cardinality(MtBlocks')
            /\ Cardinality(MtBlocks') \in Nat /\ Cardinality(Spare') \in Nat
        BY <2>1, <3>1, CensusNext DEF PoolKept
      <3>3. /\ Cardinality(MtBlocks') <= 2
            /\ mtl' = <<>> => Cardinality(MtBlocks') <= 1
        BY MtFewNext DEF FedInv
      <3>4. Cardinality(Spare') >= IF Tight' THEN 3 ELSE 4
        BY <1>7 DEF Spared
      <3>5. Level' = IF Tight' THEN 1 ELSE 2
        BY <1>6, <2>4 DEF Level
      <3> DEFINE f == free_blkcnt'
                 s == Cardinality(Spare')
                 m == Cardinality(MtBlocks')
                 n == Level'
      <3>6. /\ f \in Nat /\ s \in Nat /\ m \in Nat /\ n \in 1..2 /\ s <= f + m /\ m <= 2
            /\ mtl' = <<>> => m <= 1
            /\ s >= n + 2
        BY <2>2, <3>2, <3>3, <3>4, <3>5
      <3> HIDE DEF f, s, m, n
      <3>7. f >= n /\ f >= 1 /\ (mtl' = <<>> => f >= n + 1)
        BY <3>6
      <3>8. /\ free_blkcnt' >= Level' /\ free_blkcnt' >= 1
            /\ mtl' = <<>> => free_blkcnt' >= Level' + 1
        BY <3>7 DEF f, n
      <3>9. todo' # <<>> => Task'.op \notin {"move", "format", "mapwrite"}
        BY <1>5, <1>9, TopNext DEF TakeOps
      <3> QED BY <3>8, <3>9 DEF Stocked
    <2> QED BY <2>3, <2>4
  <1> QED BY <1>7, <1>10, <1>11 DEF RoomInv

-----------------------------------------------------------------------------
(***************************************************************************)
(* nftl_block_replace                                                      *)
(***************************************************************************)

\* A block near the ECC limit is to be moved.
LEMMA StartMoveSpace ==
  ASSUME NftlInv, NftlInv', SpaceInv, NEW what, NEW src, NEW b \in Block, StartMove(what, src, b),
         Unmoved, what.op = "data" => free_blkcnt >= 2
  PROVE  RoomInv'
  <1> DEFINE t == [op |-> "move", what |-> what, src |-> src, blk |-> b]
  <1>1. /\ Alloc(b) /\ todo' = <<t>> \o todo /\ UNCHANGED <<dl, mtl>>
        /\ t.op = "move" /\ t.what = what
    BY DEF StartMove
  <1> HIDE DEF t
  <1>2. Elems(todo') = {t} \cup Elems(todo) /\ todo' # <<>> /\ Task' = t
    <2>1. \E S : todo \in Seq(S)
      BY TodoSeq
    <2> QED BY <1>1, <2>1, Cons DEF Task
  <1>3. Resumes' /\ free_blkcnt' = free_blkcnt - 1 /\ free_blkcnt \in Nat
    BY <1>1, PoolTaken
  <1>4. Logs' = Logs /\ Map' = Map /\ RoomInv
    BY DEF Unmoved, SpaceInv
  <1>5. Spared' /\ LastMerge'
    <2> DEFINE A == {}
               B == {t}
               E == Elems(todo)
    <2>1. Elems(todo) = A \cup E /\ Elems(todo') = B \cup E
      BY <1>2
    <2>2. \A u \in A \cup B : u.op \notin MarkOps
      BY <1>1 DEF MarkOps, PutBlockOps, MergeOps
    <2> HIDE DEF A, B, E
    <2>3. /\ Tight' <=> Tight
          /\ Low' <=> Low
          /\ \A u \in Elems(todo') : u.op \in MergeOps => u \in Elems(todo)
      BY <2>1, <2>2, Neutral
    <2> QED BY <1>1, <1>4, <2>3, SpaceKept
  <1>6. what.op = "data" => free_blkcnt' >= 1
    BY <1>3
  <1>7. Stocked'
    BY <1>1, <1>2, <1>6 DEF Stocked, AwayOps
  <1> QED BY <1>3, <1>5, <1>7 DEF RoomInv

LEMMA MovesSpace ==
  ASSUME NftlInv, NftlInv', SpaceInv, NEW b \in Block,
         MoveMap(b) \/ \E lpa \in Lpa : MoveLog(lpa, b) \/ MoveData(lpa, b)
  PROVE  RoomInv'
  <1>1. Unmoved
    BY MoveMapOK, MoveLogOK, MoveDataOK
  <1>2. CASE MoveMap(b)
    <2>1. T(IF mtl # <<>> THEN "mtl" ELSE "mt").op # "data"
      BY DEF T
    <2> QED BY <1>1, <1>2, <2>1, StartMoveSpace DEF MoveMap
  <1>3. ASSUME NEW lpa \in Lpa, MoveLog(lpa, b) \/ MoveData(lpa, b) PROVE RoomInv'
    <2>1. todo = <<>> /\ \E what, src : StartMove(what, src, b)
      BY <1>3 DEF MoveLog, MoveData, Idle
    <2>2. gcpc = "idle"
      BY <2>1, PoolTaken DEF StartMove, Alloc
    <2>3. free_blkcnt >= 2
      BY <2>1, <2>2, RestLevel
    <2> QED BY <1>1, <2>1, <2>3, StartMoveSpace
  <1> QED BY <1>2, <1>3

\* A log or a Data block is copied: the two blocks change places.
LEMMA MovedSpare ==
  ASSUME NftlInv, SpaceInv, MoveCopy, Task.what.op \in {"log", "data"}
  PROVE  Cardinality(Spare') >= 4
  <1> DEFINE b == Task.blk
             src == Task.src
             S == Spare
             B == LogBlocks(Logs) \cup DataBlocks(Map)
             C == LogBlocks(Logs') \cup DataBlocks(Map')
  <1>1. /\ todo # <<>> /\ Task.op = "move" /\ FirstProgram(b)
    BY DEF MoveCopy, Top
  <1>2. /\ ~Lost /\ Dying = {} /\ Tail(todo) = <<>> /\ Elems(todo) = {Task} \cup Elems(Tail(todo))
        /\ b \in Block /\ src \in Block /\ SoundInv /\ NoBlock \notin Block
    BY <1>1, AtMove, Parts
  <1>3. media[b] = "blank"
    BY <1>1, <1>2, Begun
  <1>4. /\ b \in S /\ b \notin B /\ B \subseteq Block /\ B \cap S = {} /\ B \cap FactoryBad = {}
        /\ b \notin FactoryBad /\ S = Block \ (FactoryBad \cup B)
    <2>1. Unspoilt
      BY DEF SpaceInv, PoolKept
    <2>2. /\ \A x \in Programmed : x \in Block /\ x \notin FactoryBad
          /\ b \in S /\ b \notin Programmed /\ B \subseteq Programmed /\ B \cap S = {}
      BY <1>2, <1>3, <2>1, GoodBlocks
    <2>3. S = Block \ (FactoryBad \cup B)
      BY DEF Spare, Rest
    <2> HIDE DEF S, B, b
    <2> QED BY <2>2, <2>3
  <1>5. src \in B /\ C = (B \ {src}) \cup {b}
    <2>1. CASE Task.what.op = "log"
      <3> DEFINE g == dl[Task.what.i]
                 h == [g EXCEPT !.pba = b]
      <3>1. Task.what.i \in 1..Len(dl) /\ g.pba = src /\ dl \in Seq(LogRec)
        BY <1>1, <1>2, <2>1, Parts DEF TaskOK
      <3>2. g \in Logs /\ h.pba = b
        <4>1. g \in LogRec
          BY <3>1
        <4>2. g \in Logs
          BY <1>2, <3>1 DEF Logs
        <4> QED BY <4>1, <4>2 DEF LogRec
      <3>3. Map' = Map /\ Logs' = (Logs \ {g}) \cup {h}
        BY <2>1, MoveLogCopied
      <3>4. /\ \A f \in Logs : f.pba = g.pba => f = g
            /\ src \notin DataBlocks(Map)
        BY <1>2, <3>1, <3>2, Parts DEF Tables, Owned, LogBlocks
      <3> HIDE DEF g, h
      <3>5. LogBlocks(Logs') = (LogBlocks(Logs) \ {src}) \cup {b} /\ src \in LogBlocks(Logs)
        <4>1. src # NoBlock /\ b # NoBlock
          BY <1>2
        <4>2. LogBlocks(Logs \ {g}) = LogBlocks(Logs) \ {src} /\ src \in LogBlocks(Logs)
          BY <3>1, <3>2, <3>4, <4>1, LogGoes
        <4>3. LogBlocks((Logs \ {g}) \cup {h}) = LogBlocks(Logs \ {g}) \cup ({b} \ {NoBlock})
          BY <3>2, LogComes
        <4> QED BY <3>3, <4>1, <4>2, <4>3
      <3> QED BY <3>3, <3>4, <3>5
    <2>2. CASE Task.what.op = "data"
      <3> DEFINE l == Task.what.lba
      <3>1. Logs' = Logs /\ l \in Lba /\ Map[l] = src /\ Map' = [Map EXCEPT ![l] = b]
        BY <2>2, MoveDataCopied
      <3>2. Map \in [Lba -> BlockX] /\ \A k, m \in Lba : Map[k] = Map[m] /\ Map[k] # NoBlock => k = m
        BY <1>1, <1>2, AtMove, MapSeen, Parts DEF Tables, Owned
      <3>3. src # NoBlock /\ src \notin LogBlocks(Logs)
        BY <1>2, <3>1, Parts DEF Tables, Owned, DataBlocks
      <3> HIDE DEF l
      <3>4. DataBlocks(Map') = (DataBlocks(Map) \ {src}) \cup {b} /\ src \in DataBlocks(Map)
        <4> DEFINE D == Map
        <4>1. D \in [Lba -> BlockX] /\ b \in Block /\ l \in Lba /\ D[l] = src /\ NoBlock \notin Block
          BY <1>2, <3>1, <3>2
        <4>2. \A k, m \in Lba : D[k] = D[m] /\ D[k] # NoBlock => k = m
          BY <3>2
        <4> HIDE DEF D, b
        <4>3. DataBlocks([D EXCEPT ![l] = b]) = (DataBlocks(D) \ {D[l]}) \cup {b}
              /\ (D[l] # NoBlock => D[l] \in DataBlocks(D))
          BY <4>1, <4>2 DEF DataBlocks, BlockX
        <4> QED BY <3>1, <3>3, <4>1, <4>2, <4>3 DEF D
      <3> QED BY <3>1, <3>3, <3>4
    <2> QED BY <2>1, <2>2
  <1>6. Spare' = Block \ (FactoryBad \cup C)
    BY DEF Spare, Rest
  <1>7. Spare' = (S \ {b}) \cup {src} /\ src \notin S
    <2> HIDE DEF S, B, C, b, src
    <2> QED BY <1>2, <1>4, <1>5, <1>6
  <1>8. Cardinality(S) >= 4
    <2>1. Elems(todo) = {Task}
      BY <1>2, PlainStacks
    <2>2. ~Tight
      BY <1>1, <2>1 DEF Tight, Low, MergeOps
    <2> QED BY <2>2 DEF SpaceInv, RoomInv, Spared
  <1>9. S \subseteq Block
    BY SpareBlocks DEF Spare
  <1> HIDE DEF S, b, src
  <1>10. Cardinality((S \ {b}) \cup {src}) = Cardinality(S)
    <2>1. b \in S /\ src \in Block /\ src \notin S
      BY <1>2, <1>4, <1>7
    <2> QED BY <1>9, <2>1, Exchanged, Zenon
  <1> QED BY <1>7, <1>8, <1>10

LEMMA MoveCopySpace ==
  ASSUME NftlInv, NftlInv', SpaceInv, MoveCopy
  PROVE  RoomInv'
  <1> DEFINE a == AddGt(<<Task.src>>)
             u == UpdMt(Task.what.lba, Task.blk)
             w == Task.what.op
  <1>1. /\ todo # <<>> /\ Task.op = "move" /\ gcpc = "idle" /\ FirstProgram(Task.blk) /\ StackOK
        /\ Then(When(w = "data", u) \o <<a>>)
    BY DEF MoveCopy, Top, NftlInv
  <1>2. /\ w \in {"log", "data", "mt", "mtl"} /\ (w \in {"log", "data"} => Tail(todo) = <<>>)
        /\ Elems(todo) = {Task} \cup Elems(Tail(todo)) /\ Elems(<<>>) = {}
    BY <1>1, AtMove, PlainStacks
  <1>3. free_blkcnt' = free_blkcnt /\ Resumes' /\ RoomInv /\ a.op = "addgt" /\ u.op = "updmt"
    BY <1>1, PoolBegun DEF SpaceInv, AddGt, UpdMt
  <1>4. ASSUME w # "data"
        PROVE  /\ todo' # <<>> /\ Task'.op = "addgt"
               /\ Elems(todo') = {a} \cup Elems(Tail(todo))
    <2>1. MovesRest(w, Task.what.lba, Task.blk, Task.src) = <<a>>
      BY <1>4, OnlyGarbage
    <2>2. Then(<<a>>)
      BY <1>1, <2>1 DEF MovesRest
    <2> QED BY <1>1, <2>2, MoveStack
  <1> HIDE DEF a, u
  <1>5. CASE w = "log"
    <2>1. Cardinality(Spare') >= 4
      BY <1>5, MovedSpare
    <2>2. Elems(todo') = {a}
      BY <1>2, <1>4, <1>5
    <2>3. ~Tight' /\ LastMerge'
      BY <1>3, <2>2 DEF Tight, Low, LastMerge, MergeOps
    <2>4. Stocked'
      BY <1>4, <1>5, StockedAway
    <2> QED BY <1>3, <2>1, <2>3, <2>4 DEF RoomInv, Spared
  <1>6. CASE w = "data"
    <2>1. Cardinality(Spare') >= 4
      BY <1>6, MovedSpare
    <2>2. Then(<<u, a>>)
      <3>1. <<u>> \o <<a>> = <<u, a>>
        BY Joined2
      <3> QED BY <1>1, <1>6, <3>1 DEF When
    <2>3. Elems(todo') = {u, a} /\ todo' # <<>> /\ Task' = u
      <3> DEFINE ts == <<u, a>>
      <3>1. ts \in Seq({u, a}) /\ Elems(ts) = {u, a} /\ ts # <<>> /\ Head(ts) = u
        BY Pair
      <3>2. Then(ts)
        BY <2>2
      <3> HIDE DEF ts
      <3>3. Elems(todo') = Elems(ts) \cup Elems(Tail(todo)) /\ todo' # <<>> /\ Task' = Head(ts)
        BY <1>1, <3>1, <3>2, Turned, HeadThen
      <3> QED BY <1>2, <1>6, <3>1, <3>3
    <2>4. ~Tight' /\ LastMerge' /\ Adding'
      BY <1>3, <2>3 DEF Tight, Low, LastMerge, MergeOps, Adding
    <2>5. free_blkcnt' >= 1 /\ Level' = 0
      BY <1>1, <1>3, <1>6, <2>4, LevelsNext DEF RoomInv, Stocked
    <2>6. free_blkcnt' \in Nat
      BY CountNext
    <2>7. Stocked'
      BY <1>3, <2>3, <2>5, <2>6 DEF Stocked, AwayOps
    <2> QED BY <1>3, <2>1, <2>4, <2>7 DEF RoomInv, Spared
  <1>7. CASE w \in {"mt", "mtl"}
    <2>1. Logs' = Logs /\ Map' = Map
      BY <1>7, MoveMtCopied, MoveMtlCopied DEF Unmoved
    <2>2. dl' = dl
      BY <1>7 DEF MoveCopy
    <2>3. Spared' /\ LastMerge'
      <3> DEFINE A == {Task}
                 B == {a}
                 E == Elems(Tail(todo))
      <3>1. Elems(todo) = A \cup E /\ Elems(todo') = B \cup E
        BY <1>2, <1>4, <1>7
      <3>2. \A t \in A \cup B : t.op \notin MarkOps
        BY <1>1, <1>3 DEF MarkOps, PutBlockOps, MergeOps
      <3> HIDE DEF A, B, E
      <3>3. /\ Tight' <=> Tight
            /\ Low' <=> Low
            /\ \A t \in Elems(todo') : t.op \in MergeOps => t \in Elems(todo)
        BY <3>1, <3>2, Neutral
      <3> QED BY <1>3, <2>1, <2>2, <3>3, SpaceKept
    <2>4. Stocked'
      BY <1>4, <1>7, StockedAway
    <2> QED BY <1>3, <2>3, <2>4 DEF RoomInv
  <1> QED BY <1>2, <1>5, <1>6, <1>7

-----------------------------------------------------------------------------
(***************************************************************************)
(* NFTL_mount                                                              *)
(***************************************************************************)

LEMMA FormatAllocSpace ==
  ASSUME NftlInv, NftlInv', SpaceInv, NEW b \in Block, FormatAlloc(b)
  PROVE  RoomInv'
  <1> DEFINE t == [op |-> "mapwrite", blk |-> b]
  <1>1. /\ todo # <<>> /\ gcpc = "idle" /\ Task.op = "format" /\ StackOK /\ UNCHANGED dl /\ Alloc(b)
        /\ Then(<<t>>) /\ t.op = "mapwrite"
    BY DEF FormatAlloc, Top, NftlInv
  <1>2. Resumes' /\ free_blkcnt' = free_blkcnt - 1 /\ free_blkcnt \in Nat
    BY <1>1, PoolTaken
  <1>3. Logs' = Logs /\ Map' = Map /\ RoomInv
    BY FormatAllocOK DEF Unmoved, SpaceInv
  <1> HIDE DEF t
  <1>4. /\ Elems(todo) = {Task} \cup Elems(Tail(todo)) /\ Elems(todo') = {t} \cup Elems(Tail(todo))
        /\ todo' # <<>> /\ Task' = t
    <2>1. <<t>> \in Seq({t}) /\ Elems(<<t>>) = {t} /\ <<t>> # <<>> /\ Head(<<t>>) = t
      BY Alone
    <2> QED BY <1>1, <2>1, Turned, HeadThen
  <1>5. Spared' /\ LastMerge'
    <2> DEFINE A == {Task}
               B == {t}
               E == Elems(Tail(todo))
    <2>1. Elems(todo) = A \cup E /\ Elems(todo') = B \cup E
      BY <1>4
    <2>2. \A u \in A \cup B : u.op \notin MarkOps
      BY <1>1 DEF MarkOps, PutBlockOps, MergeOps
    <2> HIDE DEF A, B, E
    <2>3. /\ Tight' <=> Tight
          /\ Low' <=> Low
          /\ \A u \in Elems(todo') : u.op \in MergeOps => u \in Elems(todo)
      BY <2>1, <2>2, Neutral
    <2> QED BY <1>1, <1>3, <2>3, SpaceKept
  <1>6. free_blkcnt' >= 2
    BY <1>1, <1>2, <1>3 DEF RoomInv, Stocked
  <1>7. Stocked'
    BY <1>1, <1>4, <1>6 DEF Stocked, AwayOps
  <1> QED BY <1>2, <1>5, <1>7 DEF RoomInv

LEMMA FormatWriteSpace ==
  ASSUME NftlInv, NftlInv', SpaceInv, FormatWrite
  PROVE  RoomInv'
  <1>1. /\ todo # <<>> /\ gcpc = "idle" /\ Task.op = "mapwrite" /\ StackOK /\ FirstProgram(Task.blk)
        /\ Then(<<>>)
    BY DEF FormatWrite, Top, NftlInv
  <1>2. Resumes' /\ free_blkcnt' = free_blkcnt
    BY <1>1, PoolBegun
  <1>3. Logs' = Logs /\ Map' = Map /\ RoomInv
    BY FormatWriteOK DEF Unmoved, SpaceInv
  <1>4. Tail(todo) = <<>> /\ Elems(todo) = {Task}
    BY <1>1, Unders, Stack, PlainStacks
  <1>5. todo' = <<>>
    BY <1>1, <1>4 DEF Then
  <1>6. ~Tight
    BY <1>1, <1>4 DEF Tight, Low, MergeOps
  <1>7. free_blkcnt' >= 2
    BY <1>1, <1>2, <1>3 DEF RoomInv, Stocked
  <1> QED BY <1>2, <1>3, <1>5, <1>6, <1>7, EndRoom

\* A restart finds at least the blocks that were free.
LEMMA RemountSpace ==
  ASSUME NftlInv, NftlInv', FedInv, SpaceInv, Remount
  PROVE  RoomInv'
  <1>1. todo = <<>> /\ todo' = <<>> /\ gcpc = "idle" /\ MountScan /\ Idle
    BY DEF Remount, Idle, MountScan
  <1>2. Logs' = Logs /\ Map' = Map
    <2>1. NoLogLost
      BY DEF NoLogLost, FedInv, NoHole, Logs
    <2> QED BY <2>1, RemountOK DEF Unmoved
  <1>3. ~Tight /\ free_blkcnt >= 2
    BY <1>1, RestLevel
  <1>4. PICK lf \in Block : PoolMount(lf)
    BY <1>1, MountTables
  <1>5. Resumes'
    BY <1>4 DEF PoolMount, Resumes
  <1>6. free_blkcnt' >= free_blkcnt /\ free_blkcnt \in Nat /\ free_blkcnt' \in Nat
    <2> DEFINE F == FreeBlocks
               G == {b \in Block : media[b] = "blank"}
    <2>1. SoundInv /\ free_blkcnt = Cardinality(F) /\ free_blkcnt \in Nat
      BY Counted DEF NftlInv
    <2>2. F \subseteq G
      BY <2>1, SoundParts, FreeFact DEF Shown, FreeBlocks
    <2>3. free_blkcnt' = Cardinality(G)
      BY <1>4 DEF PoolMount
    <2>4. IsFiniteSet(G) /\ Cardinality(G) \in Nat
      BY CountOf
    <2> HIDE DEF F, G
    <2>5. Cardinality(F) <= Cardinality(G)
      BY <2>2, <2>4, FS_Subset
    <2> QED BY <2>1, <2>3, <2>4, <2>5
  <1>7. free_blkcnt' >= 2 /\ RoomInv
    BY <1>3, <1>6 DEF SpaceInv
  <1> QED BY <1>1, <1>2, <1>3, <1>5, <1>7, EndRoom

LEMMA SpaceStutter == NftlInv /\ SpaceInv /\ UNCHANGED vars => SpaceInv'
  <1> SUFFICES ASSUME NftlInv, SpaceInv, UNCHANGED vars PROVE SpaceInv'
    OBVIOUS
  <1>1. UNCHANGED <<poolVars, flash, mt_pbas, mtl, dl, todo>>
    BY DEF vars
  <1>2. \A op : Has(op)' = Has(op)
    BY <1>1 DEF Has
  <1>3. Map' = Map /\ Logs' = Logs
    BY <1>1, <1>2, SameMaps
  <1>4. RoomInv'
    BY <1>1, <1>3, SameSpace DEF SpaceInv
  <1>5. PoolKept'
    BY <1>1 DEF SpaceInv, PoolKept, Tidy, Unspoilt, poolVars, ramVars, gcVars
  <1> QED BY <1>4, <1>5 DEF SpaceInv

\* NFTL_mount of an erased device.
LEMMA SpaceInit ==
  ASSUME Roomy
  PROVE  Init => SpaceInv
  <1> SUFFICES ASSUME Init PROVE SpaceInv
    OBVIOUS
  <1>1. /\ PoolInit /\ dl = <<>> /\ todo = <<T("format")>> /\ mt_pbas = NoBlock
    BY DEF Init
  <1>2. /\ Elems(todo) = {T("format")} /\ T("format").op = "format" /\ Len(dl) = 0
        /\ todo # <<>> /\ Task = T("format")
    BY <1>1, Alone DEF T, Task
  <1>3. Map = NoMap /\ Logs = {}
    <2>1. Updates = {}
      BY <1>2 DEF Updates, Has
    <2>2. Map = NoMap
      BY <1>1, <2>1 DEF Map, CurMap
    <2>3. (1..Len(dl)) \ Dying = {}
      BY <1>2
    <2> QED BY <2>2, <2>3 DEF Logs
  <1>4. Spare = Block \ FactoryBad
    BY <1>3 DEF Spare, Rest, LogBlocks, DataBlocks, NoMap
  <1>5. Cardinality(Block \ FactoryBad) \in Nat /\ Cardinality(Block \ FactoryBad) >= 4
    <2> DEFINE n == Cardinality(Block \ FactoryBad)
    <2>1. n \in Nat
      BY CountOf
    <2>2. n >= NLba + 4 + GarbageRoom
      BY DEF Roomy
    <2>3. NLba \in Nat /\ GarbageRoom \in Nat
      <3>1. SoundInv /\ Tidy /\ gcpc = "idle"
        BY <1>1, SoundInit, PoolAssumption DEF PoolInit, Tidy
      <3> QED BY <3>1, GarbageFits, NftlAssumption
    <2> HIDE DEF n
    <2>4. n >= 4
      BY <2>1, <2>2, <2>3
    <2> QED BY <2>1, <2>4 DEF n
  <1>6. PoolKept
    <2>1. Tidy
      BY <1>1, PoolAssumption DEF PoolInit, Tidy
    <2>2. Unspoilt
      BY <1>1 DEF PoolInit, Unspoilt
    <2> QED BY <2>1, <2>2 DEF PoolKept
  <1>7. ~Tight /\ LastMerge /\ Resumes
    BY <1>1, <1>2 DEF Tight, Low, LastMerge, MergeOps, Resumes, PoolInit
  <1>8. Spared
    BY <1>4, <1>5, <1>7 DEF Spared
  <1>9. free_blkcnt >= 4 /\ free_blkcnt \in Nat
    BY <1>1, <1>5 DEF PoolInit
  <1>10. Stocked
    BY <1>2, <1>9 DEF Stocked, AwayOps
  <1> QED BY <1>6, <1>7, <1>8, <1>10 DEF SpaceInv, RoomInv

-----------------------------------------------------------------------------
(***************************************************************************)
(* The room lasts                                                          *)
(***************************************************************************)

LEMMA RoomStep ==
  ASSUME Roomy, NftlInv, NftlInv', FedInv, FedInv', NeverStarved, SpaceInv, PoolKept', Next \/ Remount
  PROVE  RoomInv'
  <1>1. CASE Call
    <2>1. ASSUME NEW lpa \in Lpa, NEW d \in HostWrites(lpa), WriteLogicPage(lpa, d) PROVE RoomInv'
      BY <2>1, WriteSpace
    <2>2. ASSUME NEW lpa \in Lpa, Read(lpa) PROVE RoomInv'
      BY <2>2, ReadSpace
    <2>3. ASSUME NEW lpa \in Lpa, NEW b \in Block, MoveLog(lpa, b) \/ MoveData(lpa, b) PROVE RoomInv'
      BY <2>3, MovesSpace
    <2> QED BY <1>1, <2>1, <2>2, <2>3 DEF Call
  <1>2. CASE Proceed
    <2>1. ASSUME NEW b \in Block,
                 \/ PutAlloc(b) \/ MergeAlloc(b) \/ UpdateMtAlloc(b)
                 \/ MtMergeAlloc(b) \/ FormatAlloc(b)
          PROVE  RoomInv'
      BY <2>1, PutAllocSpace, MergeAllocSpace, UpdateMtAllocSpace, MtMergeAllocSpace, FormatAllocSpace
    <2>2. CASE ManyPages \/ MergeLoop \/ PutInLog \/ PutAppend \/ Convert \/ DeleteLog \/ FullLog
      BY <2>2, ManyPagesSpace, MergeLoopSpace, PutInLogSpace, PutAppendSpace, ConvertSpace,
         DeleteLogSpace, FullLogSpace
    <2>3. CASE LowSpace \/ WriteReturns \/ MergeCopy \/ UpdateMtInsert \/ UpdateMtAppend
      BY <2>3, LowSpaceSpace, WriteReturnsSpace, MergeCopySpace, UpdateMtInsertSpace,
         UpdateMtAppendSpace
    <2>4. CASE MtMergeCopy \/ MtMergeSet \/ AddGarbage \/ Reclaim \/ MoveCopy \/ FormatWrite
      BY <2>4, MtMergeCopySpace, MtMergeSetSpace, AddGarbageSpace, ReclaimSpace, MoveCopySpace,
         FormatWriteSpace
    <2> QED BY <1>2, <2>1, <2>2, <2>3, <2>4, Fed, FedPut DEF Proceed
  <1>3. ASSUME NEW b \in Block, MoveMap(b) PROVE RoomInv'
    BY <1>3, MovesSpace
  <1> QED BY <1>1, <1>2, <1>3, RemountSpace DEF Next

LEMMA SpaceStep ==
  ASSUME Roomy
  PROVE  NftlInv /\ FedInv /\ SpaceInv /\ [Next \/ Remount]_vars => NftlInv' /\ FedInv' /\ SpaceInv'
  <1> SUFFICES ASSUME NftlInv, FedInv, SpaceInv, Next \/ Remount
               PROVE  NftlInv' /\ FedInv' /\ SpaceInv'
    BY NftlStutter, FedStutter, SpaceStutter
  <1>1. NeverStarved
    BY Unstarved
  <1>2. NftlInv' /\ FedInv' /\ PoolStep
    BY <1>1, NftlStep, FedStep
  <1>3. PoolKept'
    BY <1>2, PoolKeptStep DEF NftlInv, SpaceInv
  <1>4. RoomInv'
    BY <1>1, <1>2, <1>3, RoomStep
  <1> QED BY <1>2, <1>3, <1>4 DEF SpaceInv

\* On a device whose good blocks outnumber its logical blocks by the MapTab and the
\* MTLog block, two blocks for the write under way and the garbage that nftl_addto_gt
\* lets pile up, nftl_get_free_block finds a block whenever a log, a merge or the
\* mapping table needs one: nftl_write_logicpage never has to drop what it holds.
THEOREM NftlNeverStarved ==
  ASSUME Roomy
  PROVE  RestartsSpec => []NeverStarved
  <1>1. NftlInv /\ FedInv /\ SpaceInv => NeverStarved
    BY Unstarved
  <1>2. NftlInv /\ FedInv /\ SpaceInv /\ [Next \/ Remount]_vars => NftlInv' /\ FedInv' /\ SpaceInv'
    BY SpaceStep
  <1>3. Init => NftlInv /\ FedInv /\ SpaceInv
    BY NftlInit, FedInit, SpaceInit
  <1> QED BY <1>1, <1>2, <1>3, PTL DEF RestartsSpec

\* On such a device the translation layer uses the pool as module NftlPool says and
\* programs no page twice, whatever the calls and the restarts: no block has two roles,
\* and no erase hits a block in use.
THEOREM NftlRoomyPool ==
  ASSUME Roomy
  PROVE  RestartsSpec => UsesPool /\ ProgramOnce /\ []OneRole /\ EraseSpares
  BY NftlNeverStarved, NftlUsesPool, NftlProgramsOnce, NftlRoles, PTL

\* On such a device every log has its block with a page to spare between two calls, and
\* every block is free, bad, garbage or in use for exactly one purpose, whatever the
\* calls and the restarts.
THEOREM NftlRoomyTables ==
  ASSUME Roomy
  PROVE  RestartsSpec => [](LogHasRoom /\ Accounted)
  BY NftlNeverStarved, NftlLogHasRoom, NftlAccounted, PTL

\* On such a device every logical page reads as what was last written to it, provided that
\* no page is rewritten in a block whose log holds in order all its pages but the last.
THEOREM NftlRoomyReadBack ==
  ASSUME Roomy, ~TailRewrites
  PROVE  RestartsSpec => []ReadBack
  BY NftlNeverStarved, NftlReadBack, PTL

===============================================================================
