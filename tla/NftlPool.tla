------------------------------- MODULE NftlPool -------------------------------
(***************************************************************************)
(* The block pool of the NAND flash translation layer                      *)
(* (BSP/oss/nftl/nftlmount.c): which erase blocks are free, which are      *)
(* garbage waiting to be erased, and the GarbageTab block in which the     *)
(* garbage list survives a power cut.                                      *)
(*                                                                         *)
(* A step does at most one flash operation (a page program or a block      *)
(* erase), so that a power cut may fall between any two of them.  The      *)
(* users of the pool (MapTab, MTLog, DataLog and Data blocks) appear only  *)
(* as the set "held"; module Nftl says what they do with their blocks.     *)
(***************************************************************************)
EXTENDS Integers, Sequences, FiniteSets

CONSTANTS
  NBlocks,          \* nr_blks
  PagesPerBlock,    \* nr_pgsinblk
  MINI_FREE_BLOCK,  \* reclaim at once when so few blocks are free
  GARBAGE_LIMIT,    \* GARBAGE_MAX_CNT_DIV2: reclaim at so many garbage blocks
  FactoryBad        \* blocks marked bad before the first mount

ASSUME PoolAssumption ==
  /\ NBlocks \in 1..4096                    \* blockstatus has 4096 entries
  /\ PagesPerBlock \in Nat /\ PagesPerBlock >= 2
  /\ MINI_FREE_BLOCK \in Nat
  /\ GARBAGE_LIMIT \in Nat
  /\ FactoryBad \subseteq 0..(NBlocks - 1)

Block   == 0..(NBlocks - 1)
NoBlock == 65535                            \* 0xffff
UINT16  == 65536                            \* width of free_blkcnt

VARIABLES
  media,        \* what the spare of page 0 and the bad-block marker say of a block
  gtlog,        \* pages written in each GarbageTab block, and the addresses in them
  blockstatus,  \* RAM: is the block free?
  free_blkcnt,  \* RAM: uint16_t count of free blocks
  lastfree,     \* RAM: where the next search for a free block starts
  gt_pbas,      \* RAM: the GarbageTab block, or NoBlock (GT_MAX_BLOCKS = 1)
  gt_pgcnt,     \* RAM: pages used in it
  gar_pbas,     \* RAM: the garbage blocks (gar_blkcnt is its length)
  gcpc,         \* where nftl_addto_gt / nftl_reclaim_garbages stands
  gcidx,        \* the loop index i of nftl_reclaim_garbages
  gcpend,       \* the GarbageTab page whose program failed and is being redone
  held,         \* blocks handed to users and not given back
  marked        \* blocks marked bad since the last mount

ramVars  == <<blockstatus, free_blkcnt, lastfree, gt_pbas, gt_pgcnt, gar_pbas>>
gcVars   == <<gcpc, gcidx, gcpend>>
poolVars == <<media, gtlog, ramVars, gcVars, held, marked>>

Media == {"blank", "used", "gt", "bad"}

\* A GarbageTab block's contents: so many pages, naming these blocks in order.
NoPages        == [pages |-> 0, list |-> <<>>]
WithPage(l, g) == [pages |-> l.pages + 1, list |-> l.list \o g]

Elems(s) == {s[i] : i \in 1..Len(s)}

FreeBlocks == {b \in Block : blockstatus[b]}

-----------------------------------------------------------------------------
(***************************************************************************)
(* The allocator                                                           *)
(***************************************************************************)

\* How far the scan of nftl_get_free_block walks before it looks at b: it
\* starts at lastfree and wraps after slot nr_blks (not nr_blks - 1).
Dist(b) == IF b >= lastfree THEN b - lastfree ELSE b + NBlocks + 1 - lastfree

\* The free blocks the scan looks at: its counter runs from lastfree to 2*nr_blks.
Reachable == {b \in FreeBlocks : Dist(b) < 2 * NBlocks - lastfree}

\* nftl_get_free_block returns 0xffff.
NoFree == free_blkcnt = 0 \/ Reachable = {}

\* nftl_get_free_block returns b.
GetsFree(b) ==
  /\ free_blkcnt # 0
  /\ b \in Reachable
  /\ \A c \in Reachable : Dist(b) <= Dist(c)

\* nftl_set_block_nofree(b)
SetBlockNoFree(b) ==
  /\ blockstatus' = [blockstatus EXCEPT ![b] = FALSE]
  /\ free_blkcnt' = (free_blkcnt - 1) % UINT16
  /\ lastfree' = b

\* Mutant: the erased block is not counted.
SetBlockFreeUncounted(b) ==
  /\ blockstatus' = [blockstatus EXCEPT ![b] = TRUE]
  /\ UNCHANGED <<free_blkcnt, lastfree>>

\* nftl_set_block_free(b): a block that is free already is left alone.
SetBlockFree(b) ==
  /\ blockstatus' = [blockstatus EXCEPT ![b] = TRUE]
  /\ free_blkcnt' = IF blockstatus[b] THEN free_blkcnt
                                      ELSE (free_blkcnt + 1) % UINT16
  /\ UNCHANGED lastfree

\* Mutant: the count is signed.
SetBlockBadSigned(b) ==
  /\ blockstatus' = [blockstatus EXCEPT ![b] = FALSE]
  /\ free_blkcnt' = free_blkcnt - 1
  /\ media' = [media EXCEPT ![b] = "bad"]
  /\ marked' = marked \cup {b}
  /\ UNCHANGED lastfree

\* nftl_set_block_bad(b) with mtd->block_markbad: the count goes down whether
\* or not the block was counted as free.
SetBlockBad(b) ==
  /\ blockstatus' = [blockstatus EXCEPT ![b] = FALSE]
  /\ free_blkcnt' = (free_blkcnt - 1) % UINT16
  /\ media' = [media EXCEPT ![b] = "bad"]
  /\ marked' = marked \cup {b}
  /\ UNCHANGED lastfree

\* One round of the retry loop of nftl_write_error and nftl_copyback_error that
\* succeeds: backup block n takes over, block b is marked bad.
Replace(b, n, m) ==
  /\ GetsFree(n)
  /\ blockstatus' = [blockstatus EXCEPT ![n] = FALSE, ![b] = FALSE]
  /\ free_blkcnt' = (free_blkcnt - 2) % UINT16
  /\ lastfree' = n
  /\ media' = [media EXCEPT ![n] = m, ![b] = "bad"]
  /\ marked' = marked \cup {b}

\* One round of that loop that fails: the backup block is marked bad.
SpoilBackup(n) ==
  /\ GetsFree(n)
  /\ blockstatus' = [blockstatus EXCEPT ![n] = FALSE]
  /\ free_blkcnt' = (free_blkcnt - 2) % UINT16
  /\ lastfree' = n
  /\ media' = [media EXCEPT ![n] = "bad"]
  /\ marked' = marked \cup {n}

-----------------------------------------------------------------------------
(***************************************************************************)
(* The users of the pool                                                   *)
(***************************************************************************)

\* nftl_get_free_block called for a MapTab, MTLog, DataLog or Data block.
Alloc(b) ==
  /\ gcpc = "idle"
  /\ GetsFree(b)
  /\ SetBlockNoFree(b)
  /\ held' = held \cup {b}
  /\ UNCHANGED <<media, gtlog, gt_pbas, gt_pgcnt, gar_pbas, gcVars, marked>>

\* The first page of a held block is programmed.
FirstProgram(b) ==
  /\ gcpc = "idle"
  /\ b \in held /\ media[b] = "blank"
  /\ media' = [media EXCEPT ![b] = "used"]
  /\ UNCHANGED <<gtlog, ramVars, gcVars, held, marked>>

\* Programming a held block failed and nftl_write_error moved it to n.
UserReplace(b, n) ==
  /\ gcpc = "idle"
  /\ b \in held
  /\ Replace(b, n, "used")
  /\ held' = (held \ {b}) \cup {n}
  /\ UNCHANGED <<gtlog, gt_pbas, gt_pgcnt, gar_pbas, gcVars>>

\* Programming a held block failed, and so did its backup block n.
UserSpoil(n) ==
  /\ gcpc = "idle"
  /\ held # {}
  /\ SpoilBackup(n)
  /\ UNCHANGED <<gtlog, gt_pbas, gt_pgcnt, gar_pbas, gcVars, held>>

-----------------------------------------------------------------------------
(***************************************************************************)
(* nftl_addto_gt and nftl_reclaim_garbages                                 *)
(***************************************************************************)

\* Mutant: a GarbageTab block that is half full is no reason to reclaim.
MustReclaimLate(pgcnt, gar, free) ==
  /\ Len(gar) > 0
  /\ Len(gar) >= GARBAGE_LIMIT \/ free <= MINI_FREE_BLOCK

\* The three conditions under which nftl_addto_gt goes on to reclaim, for the
\* page count, the garbage list and the free count it has reached by then.
MustReclaim(pgcnt, gar, free) ==
  /\ Len(gar) > 0
  /\ \/ pgcnt >= PagesPerBlock \div 2
     \/ Len(gar) >= GARBAGE_LIMIT
     \/ free <= MINI_FREE_BLOCK

\* Control after the GarbageTab page is dealt with.
AfterGtPage ==
  /\ gt_pgcnt' = gt_pgcnt + 1
  /\ gcpc' = IF MustReclaim(gt_pgcnt', gar_pbas', free_blkcnt')
             THEN "reclaim" ELSE "idle"
  /\ gcidx' = 1
  /\ gcpend' = <<>>

\* Blocks g become garbage.  They enter gar_pbas before the page is written.
EnterGarbage(g) ==
  /\ gcpc = "idle"
  /\ gar_pbas' = gar_pbas \o g
  /\ held' = held \ Elems(g)

\* nftl_addto_gt with a GarbageTab block at hand.
AddToGt(g) ==
  /\ gt_pbas # NoBlock
  /\ EnterGarbage(g)
  /\ gtlog' = [gtlog EXCEPT ![gt_pbas] = WithPage(@, g)]
  /\ UNCHANGED <<media, blockstatus, free_blkcnt, lastfree, gt_pbas, marked>>
  /\ AfterGtPage

\* nftl_addto_gt that first takes free block b as the GarbageTab block.  Only
\* page 0 says what a block is, and it is written only if gt_pgcnt is 0.
AddToNewGt(g, b) ==
  /\ gt_pbas = NoBlock
  /\ GetsFree(b)
  /\ EnterGarbage(g)
  /\ SetBlockNoFree(b)
  /\ gt_pbas' = b
  /\ media' = [media EXCEPT ![b] = IF gt_pgcnt = 0 THEN "gt" ELSE @]
  /\ gtlog' = [gtlog EXCEPT ![b] = WithPage(NoPages, g)]
  /\ UNCHANGED marked
  /\ AfterGtPage

\* nftl_addto_gt with no block left for the GarbageTab: the program to block
\* 0xffff fails, nftl_write_error finds no backup, and the list stays in RAM.
AddToNoGt(g) ==
  /\ gt_pbas = NoBlock /\ NoFree
  /\ EnterGarbage(g)
  /\ UNCHANGED <<media, gtlog, blockstatus, free_blkcnt, lastfree, gt_pbas, marked>>
  /\ AfterGtPage

\* The program of the GarbageTab page fails (on the old block or a new one b).
AddToGtFails(g, b) ==
  /\ \/ /\ b = gt_pbas
        /\ UNCHANGED <<blockstatus, free_blkcnt, lastfree, gt_pbas>>
     \/ /\ gt_pbas = NoBlock /\ gt_pbas' = b
        /\ GetsFree(b)
        /\ SetBlockNoFree(b)
  /\ EnterGarbage(g)
  /\ gcpc' = "gterr" /\ gcpend' = g
  /\ UNCHANGED <<media, gtlog, gt_pgcnt, gcidx, marked>>

\* nftl_write_error for the GarbageTab: backup n receives the earlier pages and
\* the new one.
GtReplace(n) ==
  /\ gcpc = "gterr"
  /\ Replace(gt_pbas, n, IF gt_pgcnt = 0 THEN "gt" ELSE media[gt_pbas])
  /\ gt_pbas' = n
  /\ gtlog' = [gtlog EXCEPT ![n] = WithPage(gtlog[gt_pbas], gcpend)]
  /\ UNCHANGED <<gar_pbas, held>>
  /\ AfterGtPage

\* nftl_write_error for the GarbageTab: backup n fails too.
GtSpoil(n) ==
  /\ gcpc = "gterr"
  /\ SpoilBackup(n)
  /\ UNCHANGED <<gtlog, gt_pbas, gt_pgcnt, gar_pbas, gcVars, held>>

\* Mutant: nftl_write_error goes on asking for a backup block.
GtNeverGivesUp ==
  /\ gcpc = "gterr" /\ NoFree
  /\ UNCHANGED poolVars

\* nftl_write_error for the GarbageTab: no backup is left, gt_pbas = 0xffff.
GtGiveUp ==
  /\ gcpc = "gterr" /\ NoFree
  /\ gt_pbas' = NoBlock
  /\ UNCHANGED <<media, gtlog, blockstatus, free_blkcnt, lastfree, gar_pbas, held, marked>>
  /\ AfterGtPage

\* One turn of the first loop of nftl_reclaim_garbages: the erase succeeds.
EraseGarbage ==
  /\ gcpc = "reclaim" /\ gcidx <= Len(gar_pbas)
  /\ LET b == gar_pbas[gcidx] IN
       /\ SetBlockFree(b)
       /\ media' = [media EXCEPT ![b] = "blank"]
       /\ gtlog' = [gtlog EXCEPT ![b] = NoPages]
  /\ gcidx' = gcidx + 1
  /\ UNCHANGED <<gt_pbas, gt_pgcnt, gar_pbas, gcpc, gcpend, held, marked>>

\* One turn of that loop: the erase fails and nftl_erase_error marks the block.
EraseGarbageFails ==
  /\ gcpc = "reclaim" /\ gcidx <= Len(gar_pbas)
  /\ SetBlockBad(gar_pbas[gcidx])
  /\ gcidx' = gcidx + 1
  /\ UNCHANGED <<gtlog, gt_pbas, gt_pgcnt, gar_pbas, gcpc, gcpend, held>>

\* Mutant: gar_blkcnt is not reset.
ReclaimKeepsList ==
  /\ gcpc = "reclaim" /\ gcidx > Len(gar_pbas)
  /\ gt_pbas' = NoBlock /\ gt_pgcnt' = 0
  /\ gcpc' = "idle" /\ gcidx' = 1
  /\ UNCHANGED <<gar_pbas, gcpend, held>>

\* The end of nftl_reclaim_garbages, after the GarbageTab block is dealt with.
ReclaimDone ==
  /\ gcpc = "reclaim" /\ gcidx > Len(gar_pbas)
  /\ gt_pbas' = NoBlock /\ gt_pgcnt' = 0 /\ gar_pbas' = <<>>
  /\ gcpc' = "idle" /\ gcidx' = 1
  /\ UNCHANGED <<gcpend, held>>

\* The GarbageTab block itself is erased.
EraseGt ==
  /\ ReclaimDone
  /\ gt_pbas # NoBlock
  /\ SetBlockFree(gt_pbas)
  /\ media' = [media EXCEPT ![gt_pbas] = "blank"]
  /\ gtlog' = [gtlog EXCEPT ![gt_pbas] = NoPages]
  /\ UNCHANGED marked

\* Erasing the GarbageTab block fails.
EraseGtFails ==
  /\ ReclaimDone
  /\ gt_pbas # NoBlock
  /\ SetBlockBad(gt_pbas)
  /\ UNCHANGED gtlog

\* There is no GarbageTab block to erase.
EraseNoGt ==
  /\ ReclaimDone
  /\ gt_pbas = NoBlock
  /\ UNCHANGED <<media, gtlog, blockstatus, free_blkcnt, lastfree, marked>>

-----------------------------------------------------------------------------
(***************************************************************************)
(* Power cut and the next NFTL_mount                                       *)
(***************************************************************************)

\* The blocks scan 1 of NFTL_mount takes for a GarbageTab; the last one wins.
GtCandidates == {b \in Block : media[b] = "gt"}

FoundGt == IF GtCandidates = {} THEN NoBlock
           ELSE CHOOSE b \in GtCandidates : \A c \in GtCandidates : c <= b

\* Mutant: only the newest entry of the GarbageTab is loaded.
FoundNewestGarbage ==
  IF FoundGt = NoBlock \/ gtlog[FoundGt].list = <<>> THEN <<>>
  ELSE <<gtlog[FoundGt].list[Len(gtlog[FoundGt].list)]>>

\* nftl_get_gar_blks: the garbage listed in that block.
FoundGarbage == IF FoundGt = NoBlock THEN <<>> ELSE gtlog[FoundGt].list

\* RAM is lost; NFTL_mount finds the GarbageTab, loads its pages, and marks the
\* blocks whose page 0 is blank as free before it looks at the garbage list.
\* lf is the lastfree stored with MapTab block 0.
PoolMount(lf) ==
  /\ gt_pbas' = FoundGt
  /\ gt_pgcnt' = IF FoundGt = NoBlock THEN 0 ELSE gtlog[FoundGt].pages
  /\ gar_pbas' = FoundGarbage
  /\ blockstatus' = [b \in Block |-> media[b] = "blank"]
  /\ free_blkcnt' = Cardinality({b \in Block : media[b] = "blank"})
  /\ lastfree' = lf
  /\ held' = {b \in Block : media[b] = "used"} \ Elems(FoundGarbage)
  /\ gcpc' = "idle" /\ gcidx' = 1 /\ gcpend' = <<>>
  /\ marked' = {}
  /\ UNCHANGED <<media, gtlog>>

-----------------------------------------------------------------------------

\* NFTL_mount of an erased device.
PoolInit ==
  /\ media = [b \in Block |-> IF b \in FactoryBad THEN "bad" ELSE "blank"]
  /\ gtlog = [b \in Block |-> NoPages]
  /\ blockstatus = [b \in Block |-> b \notin FactoryBad]
  /\ free_blkcnt = Cardinality(Block \ FactoryBad)
  /\ lastfree = 0
  /\ gt_pbas = NoBlock /\ gt_pgcnt = 0 /\ gar_pbas = <<>>
  /\ gcpc = "idle" /\ gcidx = 1 /\ gcpend = <<>>
  /\ held = {} /\ marked = {}

\* What one call of nftl_addto_gt may be given: one or two programmed blocks.
Retirable ==
  LET H == {b \in held : media[b] = "used"}
  IN {<<b>> : b \in H} \cup {g \in H \X H : g[1] # g[2]}

\* The steps of a device that never fails.
GoodStep ==
  \/ \E b \in Block : Alloc(b) \/ FirstProgram(b)
  \/ \E g \in Retirable : AddToGt(g) \/ AddToNoGt(g) \/ \E b \in Block : AddToNewGt(g, b)
  \/ EraseGarbage \/ EraseGt \/ EraseNoGt

\* The steps in which a program or an erase fails.
FaultStep ==
  \/ \E b, n \in Block : UserReplace(b, n)
  \/ \E n \in Block : UserSpoil(n) \/ GtReplace(n) \/ GtSpoil(n)
  \/ \E g \in Retirable, b \in Block : AddToGtFails(g, b)
  \/ GtGiveUp \/ EraseGarbageFails \/ EraseGtFails

\* A power cut, or an orderly restart, followed by the next mount.
PowerCut == \E lf \in Block : PoolMount(lf)

\* A restart that does not interrupt nftl_addto_gt or nftl_reclaim_garbages.
Restart == gcpc = "idle" /\ PowerCut

\* The pool between one mount and the next power cut, with failing flash.
PoolSpec == PoolInit /\ [][GoodStep \/ FaultStep]_poolVars

\* The pool of a sound device that is restarted while no block is retired.
RestartSpec == PoolInit /\ [][GoodStep \/ Restart]_poolVars

\* The pool of a sound device whose power may be cut at any moment.
CutSpec == PoolInit /\ [][GoodStep \/ PowerCut]_poolVars

\* The thread that runs nftl_addto_gt goes on until it returns.
FairSpec == PoolSpec /\ WF_poolVars(gcpc # "idle" /\ (GoodStep \/ FaultStep))

-----------------------------------------------------------------------------
(***************************************************************************)
(* Properties                                                              *)
(***************************************************************************)

\* Types.  Every address in the RAM tables is a block of the device, and
\* free_blkcnt, a uint16_t, stays one through every decrement.
TypeOK ==
  /\ media \in [Block -> Media]
  /\ gtlog \in [Block -> [pages : Nat, list : Seq(Block)]]
  /\ blockstatus \in [Block -> BOOLEAN]
  /\ free_blkcnt \in 0..(UINT16 - 1)
  /\ lastfree \in Block
  /\ gt_pbas \in Block \cup {NoBlock}
  /\ gt_pgcnt \in Nat
  /\ gar_pbas \in Seq(Block)
  /\ gcpc \in {"idle", "gterr", "reclaim"}
  /\ gcidx \in Nat \ {0}
  /\ gcpend \in Seq(Block)
  /\ held \subseteq Block
  /\ marked \subseteq Block

\* The garbage that nftl_reclaim_garbages has still to erase.
Waiting == {gar_pbas[i] : i \in {j \in 1..Len(gar_pbas) :
                                    gcpc = "reclaim" => j >= gcidx}}

\* A block serves one purpose: it is free, or held by a user, or the GarbageTab
\* block, or garbage, or bad.  nftl_get_free_block relies on it (a block handed
\* out twice holds two tables) and so does nftl_reclaim_garbages (it erases
\* what gar_pbas names without looking).
OneRole ==
  /\ \A b \in held : ~blockstatus[b] /\ b \notin Waiting /\ b # gt_pbas /\ media[b] # "bad"
  /\ \A b \in Waiting : ~blockstatus[b] /\ b # gt_pbas /\ media[b] # "bad"
  /\ gt_pbas # NoBlock => ~blockstatus[gt_pbas] /\ media[gt_pbas] # "bad"
  /\ \A b \in Block : blockstatus[b] => media[b] # "bad"

\* free_blkcnt, the "total number of Free blocks on Nand Flash" that the merge and
\* reclaim policies look at, follows the free blocks, but for one too few for
\* every block marked bad since the mount (nftl_set_block_bad takes one off
\* although the block was not counted), in 16-bit arithmetic.
FreeCountDrift ==
  (free_blkcnt + Cardinality(marked)) % UINT16 = Cardinality(FreeBlocks)

\* gt_pgcnt / nr_pgsinblk indexes the one-element array gt_pbas, and the page
\* that nftl_addto_gt programs next is one that was not programmed since the
\* last erase.
GtRoom ==
  gcpc = "idle" =>
    /\ gt_pgcnt < PagesPerBlock
    /\ gt_pbas # NoBlock => gtlog[gt_pbas].pages <= gt_pgcnt

\* No erase ever hits a block that a user holds and has programmed: "erase those
\* garbage block" erases garbage only.
EraseSpares ==
  [][\A b \in held : media[b] = "used" => media'[b] # "blank"]_poolVars

\* A mount rebuilds the RAM tables it lost: the same garbage, the same users'
\* blocks, the same GarbageTab, and every other good block free (blocks handed
\* out and never programmed included).
MountRebuilds ==
  [][Restart => /\ gar_pbas' = gar_pbas
                /\ gt_pbas' = gt_pbas /\ gt_pgcnt' = gt_pgcnt
                /\ held' = {b \in held : media[b] = "used"}
                /\ FreeBlocks' = FreeBlocks \cup {b \in held : media[b] = "blank"}
    ]_poolVars

\* Once nftl_addto_gt is under way it returns: the retries over bad backup
\* blocks and the reclaim loop both end.
AddToGtReturns == gcpc # "idle" ~> gcpc = "idle"

===============================================================================
