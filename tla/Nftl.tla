--------------------------------- MODULE Nftl ---------------------------------
(***************************************************************************)
(* The NAND flash translation layer (BSP/oss/nftl/nftlmount.c): logical    *)
(* pages stored in Data and DataLog blocks, the mapping table in MapTab    *)
(* and MTLog blocks, over the block pool of module NftlPool.               *)
(*                                                                         *)
(* One thread runs in this code, under dev->lock (module NftlCore has the  *)
(* flush that takes no lock).  What it has still to do is "todo", a stack  *)
(* of tasks; a step takes the task on top and does at most one flash       *)
(* operation, so that a power cut may fall between any two of them.  A     *)
(* loop that fills a fresh block page by page is one step: NFTL_mount      *)
(* looks at no page but the first of the blocks so filled.                 *)
(*                                                                         *)
(* The mapping table fits one page (nr_blks <= mtd->writesize / 2).        *)
(***************************************************************************)
EXTENDS NftlPool

CONSTANTS
  NLba,                \* logical blocks
  Data,                \* what the host may write
  HostWrites(_),       \* ... to this logical page
  Erased,              \* what an erased or unmapped page reads as (0xff...)
  Junk,                \* what an uninitialized buffer holds
  DL_MAX_BLOCKS,       \* entries of dl_blocktab
  DL_BLOCKS_HIGH,      \* DL_MAX_BLOCKS_DIV4
  DL_BLOCKS_LOW,       \* DL_MAX_BLOCKS_DIV8
  DL_PAGES_HIGH,       \* DL_MAX_PAGES_DIV4
  DL_PAGES_LOW,        \* DL_MAX_PAGES_DIV8
  TailRewrites,        \* does the host rewrite a page of a block whose log holds,
                       \* in order, all its pages but the last?
  MaxMoves             \* bound: reads that find a block near the ECC limit

ASSUME NftlAssumption ==
  /\ NLba \in 1..NBlocks
  /\ PagesPerBlock <= 128       \* MAX_PAGES_IN_BLOCK
  /\ \A lpa \in 0..(NLba * PagesPerBlock - 1) : HostWrites(lpa) \subseteq Data
  /\ Erased \notin Data /\ Junk \notin Data \cup {Erased}
  /\ DL_MAX_BLOCKS \in Nat /\ DL_BLOCKS_LOW \in Nat
  /\ DL_BLOCKS_HIGH \in Nat /\ DL_BLOCKS_HIGH < DL_MAX_BLOCKS
  /\ DL_PAGES_HIGH \in Nat /\ DL_PAGES_LOW \in Nat
  /\ TailRewrites \in BOOLEAN
  /\ MaxMoves \in Nat

Lba    == 0..(NLba - 1)
Page   == 0..(PagesPerBlock - 1)
NoPage == 255                                  \* 0xff
NoKey  == -1                                   \* 0xffffffff, as no lpa is
Lpa    == 0..(NLba * PagesPerBlock - 1)

LbaOf(lpa) == lpa \div PagesPerBlock
OfsOf(lpa) == lpa % PagesPerBlock

VARIABLES
  flash,     \* page contents with their spare area (GarbageTab pages are in gtlog)
  mt_pbas,   \* RAM: the MapTab block (mt_blkcnt = 1)
  mtl,       \* RAM: mtl_blocktab, one record per MTLog block
  mt_cache,  \* RAM: mt_readcache with its key mt_cacheblock, mt_cachepage
  dl,        \* RAM: dl_blocktab with, per block, its part of dl_transtab
  todo,      \* the stack of tasks of the running call
  wr,        \* the write in progress
  moves,     \* blocks moved so far because of the ECC limit
  last       \* what each logical page may read as, given the writes so far

vars == <<poolVars, flash, mt_pbas, mtl, mt_cache, dl, todo, wr, moves, last>>

-----------------------------------------------------------------------------
(***************************************************************************)
(* Pages                                                                   *)
(***************************************************************************)

NoMap == [l \in Lba |-> NoBlock]

\* The spare area (block_info: the type, and the lpa or for a MapTab page
\* lastfree) and the data of a page: user data d, or a page of the mapping table.
BlankPage         == [t |-> "free", k |-> NoKey, d |-> Erased, map |-> NoMap]
UserPage(t, k, d) == [t |-> t, k |-> k, d |-> d, map |-> NoMap]
MapPage(t, k, m)  == [t |-> t, k |-> k, d |-> Erased, map |-> m]

\* A page whose data and spare nobody set.  Only a mount looks at the spare of such a
\* page, and the model takes it for one that no scan knows.
JunkPage == UserPage("junk", NoKey, Junk)

\* nftl_copyback to a block of type t: the spare goes along, the type is set.
CopyAs(t, c) == [c EXCEPT !.t = t]

-----------------------------------------------------------------------------
(***************************************************************************)
(* Lookups                                                                 *)
(***************************************************************************)

\* nftl_get_physical_mt: the newest page of the MTLog block if there is one, the
\* MapTab page otherwise.
PhysicalMt == IF mtl # <<>> THEN <<mtl[1].pba, mtl[1].used - 1>> ELSE <<mt_pbas, 0>>

\* The mapping table as nftl_lba_to_pba and nftl_update_mt see it, and the read
\* cache after they have looked.
MapTable == IF mt_cache.at = PhysicalMt THEN mt_cache.map
            ELSE flash[PhysicalMt[1]][PhysicalMt[2]].map
FillCache == mt_cache' = [at |-> PhysicalMt, map |-> MapTable]

\* nftl_find_lba_in_dl: the index in dl_blocktab, 0 if there is none.
DlIndex(lba) ==
  LET I == {i \in 1..Len(dl) : dl[i].lba = lba}
  IN IF I = {} THEN 0 ELSE CHOOSE i \in I : \A j \in I : i <= j

\* nftl_read_logicpage finds the page in dl_transtab (nftl_find_lpa_in_dl).
InLog(lpa) == LET i == DlIndex(LbaOf(lpa))
              IN i # 0 /\ dl[i].ppa[OfsOf(lpa)] # NoPage

\* What nftl_read_logicpage returns: the page in the log, else the page in the
\* Data block, else all 0xff.  A block that does not exist cannot be read.
ReadLogicPage(lpa) ==
  LET e == dl[DlIndex(LbaOf(lpa))]
      o == OfsOf(lpa)
      b == IF InLog(lpa) THEN e.pba ELSE MapTable[LbaOf(lpa)]
  IN IF b = NoBlock
     THEN IF InLog(lpa) THEN Junk ELSE Erased
     ELSE flash[b][IF InLog(lpa) THEN e.ppa[o] ELSE o].d

\* dl_pgcnt: the pages in the logs that are the newest of their lpa.
DlPages == Cardinality({x \in (1..Len(dl)) \X Page : dl[x[1]].ppa[x[2]] # NoPage})

\* The DataLog block that the three merge policies of nftl_write_logicpage end
\* up with: the first whose logical block also has a Data block.
Mergeable  == {i \in 1..Len(dl) : MapTable[dl[i].lba] # NoBlock}
MergeFirst == CHOOSE i \in Mergeable : \A j \in Mergeable : i <= j

\* The check for a conversion: one page is left, the others lie in order.
InOrder(e) ==
  /\ e.used = PagesPerBlock - 1
  /\ \A p \in 0..(PagesPerBlock - 2) : e.ppa[p] = p

-----------------------------------------------------------------------------
(***************************************************************************)
(* Tasks                                                                   *)
(***************************************************************************)

Idle == todo = <<>> /\ gcpc = "idle"

Task == Head(todo)

\* The next task is op, and no nftl_addto_gt is under way.
Top(op) == gcpc = "idle" /\ todo # <<>> /\ Task.op = op

\* The task is done but for the tasks ts.
Then(ts) == todo' = ts \o Tail(todo)

T(op)           == [op |-> op]
OnLog(op, i)    == [op |-> op, i |-> i]
AddGt(g)        == [op |-> "addgt", g |-> g]
UpdMt(lba, pba) == [op |-> "updmt", lba |-> lba, pba |-> pba]
When(c, t)      == IF c THEN <<t>> ELSE <<>>

\* Nothing but these tables changes (each action names the ones it leaves).
Quiet == UNCHANGED <<moves, last>>

\* nftl_write_logicpage returns an error: the page reads as before, as written,
\* or not at all.
Fail ==
  /\ todo' = <<>> /\ wr' = <<>>
  /\ last' = [last EXCEPT ![wr[1]] = @ \cup {wr[2], Junk}]

-----------------------------------------------------------------------------
(***************************************************************************)
(* nftl_write_logicpage                                                    *)
(***************************************************************************)

\* The host writes d to lpa.  No log begins when dl_blocktab is full: the code would
\* store outside the table.
WriteLogicPage(lpa, d) ==
  LET i == DlIndex(LbaOf(lpa)) IN
  /\ Idle
  /\ i # 0 => TailRewrites \/ (InOrder(dl[i]) => OfsOf(lpa) = PagesPerBlock - 1)
  /\ i = 0 => Len(dl) < DL_MAX_BLOCKS
  /\ wr' = <<lpa, d>>
  /\ todo' = When(Len(dl) >= DL_BLOCKS_HIGH, T("blockloop"))
             \o <<T("pages"), T("put"), T("low"), T("ack")>>
  /\ UNCHANGED <<poolVars, flash, mt_pbas, mtl, mt_cache, dl>> /\ Quiet

\* "if(dl_pgcnt >= DL_MAX_PAGES_DIV4)"
ManyPages ==
  /\ Top("pages")
  /\ Then(When(DlPages >= DL_PAGES_HIGH, T("pageloop")))
  /\ UNCHANGED <<poolVars, flash, mt_pbas, mtl, mt_cache, dl, wr>> /\ Quiet

\* Mutant: the loops do not end when no DataLog block qualifies.
MergeLoopInsists ==
  /\ Top("blockloop") \/ Top("pageloop")
  /\ LET more == IF Task.op = "blockloop" THEN Len(dl) > DL_BLOCKS_LOW
                                          ELSE DlPages > DL_PAGES_LOW
     IN /\ todo' = IF ~more THEN Tail(todo)
                   ELSE When(Mergeable # {}, OnLog("merge", MergeFirst)) \o todo
        /\ IF more THEN FillCache ELSE UNCHANGED mt_cache
  /\ UNCHANGED <<poolVars, flash, mt_pbas, mtl, dl, wr>> /\ Quiet

\* One turn of "while(dl_blkcnt > DL_MAX_BLOCKS_DIV8)" or of "while(dl_pgcnt >
\* DL_MAX_PAGES_DIV8)": merge one DataLog block, or give up if none qualifies.
MergeLoop ==
  /\ Top("blockloop") \/ Top("pageloop")
  /\ LET more == IF Task.op = "blockloop" THEN Len(dl) > DL_BLOCKS_LOW
                                          ELSE DlPages > DL_PAGES_LOW
     IN /\ todo' = IF more /\ Mergeable # {}
                   THEN <<OnLog("merge", MergeFirst)>> \o todo ELSE Tail(todo)
        /\ IF more THEN FillCache ELSE UNCHANGED mt_cache
  /\ UNCHANGED <<poolVars, flash, mt_pbas, mtl, dl, wr>> /\ Quiet

\* The logical block has a DataLog block: its next page is programmed, as the
\* last page of a Data block if the pages before it lie in order.
PutInLog ==
  /\ Top("put")
  /\ LET i == DlIndex(LbaOf(wr[1]))
         e == dl[i]
     IN
       /\ i # 0 /\ e.pba # NoBlock /\ e.used < PagesPerBlock
       /\ flash' = [flash EXCEPT ![e.pba][e.used] =
                      UserPage(IF InOrder(e) THEN "data" ELSE "log", wr[1], wr[2])]
       /\ IF InOrder(e)
          THEN /\ Then(<<OnLog("convert", i), OnLog("full", i)>>)
               /\ UNCHANGED dl
          ELSE /\ Then(<<OnLog("full", i)>>)
               /\ dl' = [dl EXCEPT ![i].used = @ + 1, ![i].ppa[OfsOf(wr[1])] = e.used]
  /\ UNCHANGED <<poolVars, mt_pbas, mtl, mt_cache, wr>> /\ Quiet

\* nftl_update_dl_ram(INSERT_OPERATION) for a log that nftl_write_error moved to b.
LogTaking(e, b) == [e EXCEPT !.pba = b, !.used = @ + 1, !.ppa[OfsOf(wr[1])] = e.used]

\* It has none: a free block becomes its DataLog block.
PutAlloc(b) ==
  /\ Top("put")
  /\ DlIndex(LbaOf(wr[1])) = 0
  /\ Alloc(b)
  /\ Then(<<[op |-> "append", blk |-> b]>>)
  /\ UNCHANGED <<flash, mt_pbas, mtl, mt_cache, dl, wr>> /\ Quiet

NewLog(b) == [lba |-> LbaOf(wr[1]), pba |-> b, used |-> 1,
              ppa |-> [p \in Page |-> IF p = OfsOf(wr[1]) THEN 0 ELSE NoPage]]

PutAppend ==
  /\ Top("append")
  /\ FirstProgram(Task.blk)
  /\ flash' = [flash EXCEPT ![Task.blk][0] = UserPage("log", wr[1], wr[2])]
  /\ dl' = Append(dl, NewLog(Task.blk))
  /\ Then(<<>>)
  /\ UNCHANGED <<mt_pbas, mtl, mt_cache, wr>> /\ Quiet

\* No block is free: the program to block 0xffff fails, nftl_write_error finds no
\* backup, "assume we have solved the problem": the DataLog block is 0xffff.
PutNowhere ==
  /\ Top("put")
  /\ DlIndex(LbaOf(wr[1])) = 0 /\ NoFree
  /\ dl' = Append(dl, NewLog(NoBlock))
  /\ Then(<<>>)
  /\ UNCHANGED <<poolVars, flash, mt_pbas, mtl, mt_cache, wr>> /\ Quiet

\* The DataLog block is 0xffff and a block is free by now: the program fails and
\* nftl_write_error takes that block as the backup.
PutHoleAlloc(b) ==
  /\ Top("put")
  /\ LET i == DlIndex(LbaOf(wr[1])) IN
       /\ i # 0 /\ dl[i].pba = NoBlock /\ dl[i].used < PagesPerBlock
       /\ Then(<<[op |-> "holewrite", i |-> i, blk |-> b]>>)
  /\ Alloc(b)
  /\ UNCHANGED <<flash, mt_pbas, mtl, mt_cache, dl, wr>> /\ Quiet

\* nftl_block_replace copies the earlier pages out of buffers that the failed reads
\* of block 0xffff left as they were; then the page of the write is programmed, and
\* nftl_set_block_bad(0xffff) returns at its check of the range.  For a conversion
\* the code only hands the block on: the entry set here is deleted next.
PutHoleWrite ==
  /\ Top("holewrite")
  /\ FirstProgram(Task.blk)
  /\ LET i == Task.i
         e == dl[i]
         t == IF InOrder(e) THEN "data" ELSE "log"
     IN
       /\ flash' = [flash EXCEPT ![Task.blk] =
            [p \in Page |-> CASE p < e.used -> JunkPage
                              [] p = e.used -> UserPage(t, wr[1], wr[2])
                              [] p > e.used -> BlankPage]]
       /\ Then(When(InOrder(e), OnLog("convert", i)) \o <<OnLog("full", i)>>)
       /\ dl' = IF InOrder(e) THEN [dl EXCEPT ![i].pba = Task.blk]
                ELSE [dl EXCEPT ![i] = LogTaking(e, Task.blk)]
  /\ UNCHANGED <<mt_pbas, mtl, mt_cache, wr>> /\ Quiet

\* Still no block is free: the log takes the page and stays block 0xffff.
PutHoleNowhere ==
  /\ Top("put") /\ NoFree
  /\ LET i == DlIndex(LbaOf(wr[1]))
         e == dl[i]
     IN
       /\ i # 0 /\ e.pba = NoBlock /\ e.used < PagesPerBlock
       /\ Then(When(InOrder(e), OnLog("convert", i)) \o <<OnLog("full", i)>>)
       /\ dl' = IF InOrder(e) THEN dl ELSE [dl EXCEPT ![i] = LogTaking(e, NoBlock)]
  /\ UNCHANGED <<poolVars, flash, mt_pbas, mtl, mt_cache, wr>> /\ Quiet

\* A merge that found no block has left the log full: page nr_pgsinblk of the log is
\* page 0 of the block after it, whoever has that block, and what was in that page is
\* lost.  If there is no block after it (the log is the last block, or 0xffff),
\* nftl_write_error goes on to do the same behind its backup block.  Either way
\* pages are programmed that the tables know nothing of: the model stops here.
PutOverrun ==
  /\ Top("put")
  /\ LET i == DlIndex(LbaOf(wr[1]))
         b == dl[i].pba + 1
     IN
       /\ i # 0 /\ dl[i].used = PagesPerBlock
       /\ flash' = IF b \notin Block THEN flash
                   ELSE [flash EXCEPT ![b][0] = IF @ = BlankPage THEN UserPage("log", wr[1], wr[2])
                                                                 ELSE JunkPage]
       /\ media' = IF b \in Block /\ media[b] = "blank" THEN [media EXCEPT ![b] = "used"] ELSE media
  /\ todo' = <<T("lost")>>
  /\ UNCHANGED <<gtlog, ramVars, gcVars, held, marked>>
  /\ UNCHANGED <<mt_pbas, mtl, mt_cache, dl, wr>> /\ Quiet

\* Mutant: the old Data block is forgotten.
ConvertLeaks ==
  /\ Top("convert")
  /\ Then(<<UpdMt(dl[Task.i].lba, dl[Task.i].pba), OnLog("dldel", Task.i)>>)
  /\ FillCache
  /\ UNCHANGED <<poolVars, flash, mt_pbas, mtl, dl, wr>> /\ Quiet

\* need_convert: the DataLog block becomes the Data block.
Convert ==
  /\ Top("convert")
  /\ LET e   == dl[Task.i]
         old == MapTable[e.lba]
     IN Then(When(old # NoBlock, AddGt(<<old>>))
             \o <<UpdMt(e.lba, e.pba), OnLog("dldel", Task.i)>>)
  /\ FillCache
  /\ UNCHANGED <<poolVars, flash, mt_pbas, mtl, dl, wr>> /\ Quiet

\* nftl_update_dl_ram(DEL_OPERATION, i)
DeleteLog ==
  /\ Top("dldel")
  /\ dl' = SubSeq(dl, 1, Task.i - 1) \o SubSeq(dl, Task.i + 1, Len(dl))
  /\ Then(<<>>)
  /\ UNCHANGED <<poolVars, flash, mt_pbas, mtl, mt_cache, wr>> /\ Quiet

\* Mutant: a full log is not merged.
FullLogStays ==
  /\ Top("full")
  /\ Then(<<>>)
  /\ UNCHANGED <<poolVars, flash, mt_pbas, mtl, mt_cache, dl, wr>> /\ Quiet

\* The entry at this index (after a conversion, the one that moved up) is full.
FullLog ==
  /\ Top("full")
  /\ Then(When(Task.i <= Len(dl) /\ dl[Task.i].used = PagesPerBlock,
               OnLog("merge", Task.i)))
  /\ UNCHANGED <<poolVars, flash, mt_pbas, mtl, mt_cache, dl, wr>> /\ Quiet

\* "if (free_blkcnt <= MINI_FREE_BLOCK)" one more block is merged.
LowSpace ==
  /\ Top("low")
  /\ LET low == free_blkcnt <= MINI_FREE_BLOCK /\ dl # <<>>
     IN /\ Then(When(low /\ Mergeable # {}, OnLog("merge", MergeFirst)))
        /\ IF low THEN FillCache ELSE UNCHANGED mt_cache
  /\ UNCHANGED <<poolVars, flash, mt_pbas, mtl, dl, wr>> /\ Quiet

\* nftl_write_logicpage returns 0.
WriteReturns ==
  /\ Top("ack")
  /\ last' = [last EXCEPT ![wr[1]] = {wr[2]}]
  /\ todo' = <<>> /\ wr' = <<>>
  /\ UNCHANGED <<poolVars, flash, mt_pbas, mtl, mt_cache, dl, moves>>

-----------------------------------------------------------------------------
(***************************************************************************)
(* nftl_merge_dlblk                                                        *)
(***************************************************************************)

MergeAlloc(b) ==
  /\ Top("merge")
  /\ Alloc(b)
  /\ FillCache
  /\ Then(<<[op |-> "mergecopy", i |-> Task.i, old |-> MapTable[dl[Task.i].lba], blk |-> b]>>)
  /\ UNCHANGED <<flash, mt_pbas, mtl, dl, wr>> /\ Quiet

\* No block for the merge: it returns -1 and so does nftl_write_logicpage.
MergeNoFree ==
  /\ Top("merge") /\ NoFree
  /\ FillCache
  /\ Fail
  /\ UNCHANGED <<poolVars, flash, mt_pbas, mtl, dl, moves>>

\* Mutant: the old Data block takes precedence over the log.
MergedOldPage(e, old, p) ==
  IF old # NoBlock THEN CopyAs("data", flash[old][p])
  ELSE IF e.ppa[p] # NoPage THEN CopyAs("data", flash[e.pba][e.ppa[p]])
  ELSE IF p = 0 THEN UserPage("data", NoKey, Junk) ELSE BlankPage

\* Page p of the merged block: from the log, else from the old Data block, else
\* left blank, but for page 0, which must say that this is a Data block and is
\* programmed from a buffer that nobody filled.
MergedPage(e, old, p) ==
  IF e.ppa[p] # NoPage THEN CopyAs("data", flash[e.pba][e.ppa[p]])
  ELSE IF old # NoBlock THEN CopyAs("data", flash[old][p])
  ELSE IF p = 0 THEN UserPage("data", NoKey, Junk) ELSE BlankPage

\* The log and the old Data block are entered as garbage before the mapping
\* table is changed.
MergeCopy ==
  /\ Top("mergecopy")
  /\ LET e == dl[Task.i] IN
       /\ e.pba # NoBlock
       /\ FirstProgram(Task.blk)
       /\ flash' = [flash EXCEPT ![Task.blk] = [p \in Page |-> MergedPage(e, Task.old, p)]]
       /\ Then(<<AddGt(<<e.pba>> \o When(Task.old # NoBlock, Task.old)),
                 UpdMt(e.lba, Task.blk), OnLog("dldel", Task.i)>>)
  /\ UNCHANGED <<mt_pbas, mtl, mt_cache, dl, wr>> /\ Quiet

\* The log is block 0xffff: the first copy out of it returns EIO.  The new block, with
\* the pages before that one, is neither used nor given back.
MergeEio ==
  /\ Top("mergecopy")
  /\ LET e    == dl[Task.i]
         done == {p \in Page : \A q \in 0..p : e.ppa[q] = NoPage}
     IN /\ e.pba = NoBlock
        /\ IF done = {} THEN UNCHANGED <<poolVars, flash>>
           ELSE /\ FirstProgram(Task.blk)
                /\ flash' = [flash EXCEPT ![Task.blk] =
                     [p \in Page |-> IF p \in done THEN MergedPage(e, Task.old, p) ELSE BlankPage]]
  /\ Fail
  /\ UNCHANGED <<mt_pbas, mtl, mt_cache, dl, moves>>

-----------------------------------------------------------------------------
(***************************************************************************)
(* nftl_update_mt and nftl_merge_mtlblk                                    *)
(***************************************************************************)

NewMap == [MapTable EXCEPT ![Task.lba] = Task.pba]

\* The MTLog block exists: its next page takes the new table.
UpdateMtInsert ==
  /\ Top("updmt")
  /\ mtl # <<>> /\ mtl[1].used < PagesPerBlock
  /\ LET p == mtl[1].used IN
       /\ flash' = [flash EXCEPT ![mtl[1].pba][p] = MapPage("mtlog", 0, NewMap)]
       /\ mt_cache' = [at |-> <<mtl[1].pba, p>>, map |-> NewMap]
       /\ mtl' = [mtl EXCEPT ![1].used = p + 1]
       /\ Then(When(p + 1 = PagesPerBlock, T("mtmerge")))
  /\ UNCHANGED <<poolVars, mt_pbas, dl, wr>> /\ Quiet

\* It does not: a free block becomes the MTLog block.
UpdateMtAlloc(b) ==
  /\ Top("updmt")
  /\ mtl = <<>>
  /\ Alloc(b)
  /\ FillCache
  /\ Then(<<[op |-> "mtappend", lba |-> Task.lba, pba |-> Task.pba, blk |-> b]>>)
  /\ UNCHANGED <<flash, mt_pbas, mtl, dl, wr>> /\ Quiet

UpdateMtAppend ==
  /\ Top("mtappend")
  /\ FirstProgram(Task.blk)
  /\ flash' = [flash EXCEPT ![Task.blk][0] = MapPage("mtlog", 0, NewMap)]
  /\ mt_cache' = [at |-> <<Task.blk, 0>>, map |-> NewMap]
  /\ mtl' = <<[pba |-> Task.blk, used |-> 1]>>
  /\ Then(<<>>)
  /\ UNCHANGED <<mt_pbas, dl, wr>> /\ Quiet

\* No block for the MTLog: the table is programmed to block 0xffff, "assume we
\* have solved the problem", and lives in the read cache alone.
UpdateMtNowhere ==
  /\ Top("updmt")
  /\ mtl = <<>> /\ NoFree
  /\ mt_cache' = [at |-> <<NoBlock, 0>>, map |-> NewMap]
  /\ mtl' = <<[pba |-> NoBlock, used |-> 1]>>
  /\ todo' = <<T("lost")>>
  /\ UNCHANGED <<poolVars, flash, mt_pbas, dl, wr>> /\ Quiet

MtMergeAlloc(b) ==
  /\ Top("mtmerge")
  /\ Alloc(b)
  /\ Then(<<[op |-> "mtcopy", blk |-> b]>>)
  /\ UNCHANGED <<flash, mt_pbas, mtl, mt_cache, dl, wr>> /\ Quiet

\* The newest MTLog page becomes page 0 of a new MapTab block (its spare's
\* pageofs, 0, in the place of lastfree); the other pages are copied too.
MtMergeCopy ==
  /\ Top("mtcopy")
  /\ FirstProgram(Task.blk)
  /\ flash' = [flash EXCEPT ![Task.blk] =
       [p \in Page |-> CopyAs("map", IF p = 0 THEN flash[mtl[1].pba][mtl[1].used - 1]
                                              ELSE flash[mt_pbas][p])]]
  /\ Then(<<AddGt(<<mt_pbas, mtl[1].pba>>), [op |-> "mtset", blk |-> Task.blk]>>)
  /\ UNCHANGED <<mt_pbas, mtl, mt_cache, dl, wr>> /\ Quiet

\* Mutant: mt_pbas still names the old MapTab block.
MtMergeForgets ==
  /\ Top("mtset")
  /\ mtl' = Tail(mtl)
  /\ Then(<<>>)
  /\ UNCHANGED <<poolVars, flash, mt_pbas, mt_cache, dl, wr>> /\ Quiet

\* mt_pbas and mtl_blocktab follow.
MtMergeSet ==
  /\ Top("mtset")
  /\ mt_pbas' = Task.blk
  /\ mtl' = Tail(mtl)
  /\ Then(<<>>)
  /\ UNCHANGED <<poolVars, flash, mt_cache, dl, wr>> /\ Quiet

\* No block for the new MapTab: every copy fails, the old MapTab and MTLog blocks
\* become garbage all the same, and the MapTab is block 0xffff.
MtMergeNowhere ==
  /\ Top("mtmerge") /\ NoFree
  /\ todo' = <<AddGt(<<mt_pbas, mtl[1].pba>>), T("lost")>>
  /\ UNCHANGED <<poolVars, flash, mt_pbas, mtl, mt_cache, dl, wr>> /\ Quiet

-----------------------------------------------------------------------------
(***************************************************************************)
(* nftl_addto_gt and nftl_reclaim_garbages                                 *)
(***************************************************************************)

AddGarbage ==
  /\ Top("addgt")
  /\ AddToGt(Task.g) \/ AddToNoGt(Task.g) \/ \E b \in Block : AddToNewGt(Task.g, b)
  /\ Then(<<>>)
  /\ UNCHANGED <<flash, mt_pbas, mtl, mt_cache, dl, wr>> /\ Quiet

Reclaim ==
  /\ \/ /\ EraseGarbage
        /\ flash' = [flash EXCEPT ![gar_pbas[gcidx]] = [p \in Page |-> BlankPage]]
     \/ (EraseGt \/ EraseNoGt) /\ UNCHANGED flash
  /\ UNCHANGED <<mt_pbas, mtl, mt_cache, dl, todo, wr>> /\ Quiet

-----------------------------------------------------------------------------
(***************************************************************************)
(* nftl_read_logicpage and the moves of blocks near the ECC limit          *)
(***************************************************************************)

\* A read leaves a trace only if it looks the page up in the mapping table.
Read(lpa) ==
  /\ Idle
  /\ ~InLog(lpa) /\ FillCache
  /\ UNCHANGED <<poolVars, flash, mt_pbas, mtl, dl, todo, wr>> /\ Quiet

\* A read of block src corrected more than ECC_ERR_LIMIT bits: block b takes its
\* place.  what says who owns src.
StartMove(what, src, b) ==
  /\ moves < MaxMoves /\ moves' = moves + 1
  /\ Alloc(b)
  /\ todo' = <<[op |-> "move", what |-> what, src |-> src, blk |-> b]>> \o todo
  /\ UNCHANGED <<flash, mt_pbas, mtl, dl, wr, last>>

\* nftl_read_logicpage, on the log and on the Data block.
MoveLog(lpa, b) ==
  /\ Idle /\ InLog(lpa)
  /\ LET i == DlIndex(LbaOf(lpa))
     IN dl[i].pba # NoBlock /\ StartMove(OnLog("log", i), dl[i].pba, b)
  /\ UNCHANGED mt_cache
MoveData(lpa, b) ==
  /\ Idle /\ ~InLog(lpa)
  /\ MapTable[LbaOf(lpa)] # NoBlock
  /\ StartMove([op |-> "data", lba |-> LbaOf(lpa)], MapTable[LbaOf(lpa)], b)
  /\ FillCache

\* nftl_lba_to_pba, called by a read, a merge policy, a merge or a conversion.
MoveMap(b) ==
  /\ Idle \/ \E op \in {"blockloop", "pageloop", "merge", "convert", "low"} : Top(op)
  /\ PhysicalMt[1] # NoBlock
  /\ StartMove(T(IF mtl # <<>> THEN "mtl" ELSE "mt"), PhysicalMt[1], b)
  /\ FillCache

\* nftl_block_replace, with the update of the RAM table that names the block.
\* Only the used pages of a log are copied; a Data block needs nftl_update_mt.
MoveCopy ==
  /\ Top("move")
  /\ FirstProgram(Task.blk)
  /\ LET w == Task.what.op
         n == CASE w = "log" -> dl[Task.what.i].used
                [] w = "mtl" -> mtl[1].used
                [] OTHER     -> PagesPerBlock
     IN
       /\ flash' = [flash EXCEPT ![Task.blk] =
                      [p \in Page |-> IF p < n THEN flash[Task.src][p] ELSE BlankPage]]
       /\ dl' = IF w = "log" THEN [dl EXCEPT ![Task.what.i].pba = Task.blk] ELSE dl
       /\ mtl' = IF w = "mtl" THEN [mtl EXCEPT ![1].pba = Task.blk] ELSE mtl
       /\ mt_pbas' = IF w = "mt" THEN Task.blk ELSE mt_pbas
       /\ Then(When(w = "data", UpdMt(Task.what.lba, Task.blk)) \o <<AddGt(<<Task.src>>)>>)
  /\ UNCHANGED <<mt_cache, wr>> /\ Quiet

-----------------------------------------------------------------------------
(***************************************************************************)
(* NFTL_mount                                                              *)
(***************************************************************************)

\* The first mount makes a MapTab of one page; its spare records lastfree.
FormatAlloc(b) ==
  /\ Top("format")
  /\ Alloc(b)
  /\ Then(<<[op |-> "mapwrite", blk |-> b]>>)
  /\ UNCHANGED <<flash, mt_pbas, mtl, mt_cache, dl, wr>> /\ Quiet
FormatWrite ==
  /\ Top("mapwrite")
  /\ FirstProgram(Task.blk)
  /\ flash' = [flash EXCEPT ![Task.blk][0] = MapPage("map", lastfree, NoMap)]
  /\ mt_pbas' = Task.blk
  /\ Then(<<>>)
  /\ UNCHANGED <<mtl, mt_cache, dl, wr>> /\ Quiet

\* The pages that the scan of a log block counts as used.
Used(b) == CHOOSE n \in 0..PagesPerBlock :
             /\ \A p \in 0..(n - 1) : flash[b][p].k # NoKey
             /\ n < PagesPerBlock => flash[b][n].k = NoKey

\* Mutant: the scan counts one page too few.
ScanLogShort(b) ==
  LET At(o) == {p \in 0..(Used(b) - 1) : OfsOf(flash[b][p].k) = o}
  IN [lba |-> LbaOf(flash[b][0].k), pba |-> b, used |-> Used(b) - 1,
      ppa |-> [o \in Page |-> IF At(o) = {} THEN NoPage
                              ELSE CHOOSE p \in At(o) : \A q \in At(o) : q <= p]]

\* What the scan finds in a DataLog block: per page offset, the newest page.
ScanLog(b) ==
  LET At(o) == {p \in 0..(Used(b) - 1) : OfsOf(flash[b][p].k) = o}
  IN [lba |-> LbaOf(flash[b][0].k), pba |-> b, used |-> Used(b),
      ppa |-> [o \in Page |-> IF At(o) = {} THEN NoPage
                              ELSE CHOOSE p \in At(o) : \A q \in At(o) : q <= p]]

\* The blocks of this type that scan 2 does not skip, in ascending order.
Scanned(t) == {b \in Block : /\ media[b] = "used" /\ flash[b][0].t = t
                             /\ b \notin Elems(FoundGarbage)}
Ascending(S) == CHOOSE s \in [1..Cardinality(S) -> S] :
                  \A i, j \in 1..Cardinality(S) : i < j => s[i] < s[j]

\* The RAM tables are rebuilt from the flash; the last MapTab block found wins.
MountScan ==
  LET maps == Ascending(Scanned("map"))
      mtls == Ascending(Scanned("mtlog"))
      logs == Ascending({b \in Scanned("log") : flash[b][PagesPerBlock - 1].t # "data"})
  IN /\ mt_pbas' = maps[Len(maps)]
     /\ PoolMount(flash[maps[Len(maps)]][0].k)
     /\ mtl' = [i \in 1..Len(mtls) |-> [pba |-> mtls[i], used |-> Used(mtls[i])]]
     /\ dl' = [i \in 1..Len(logs) |-> ScanLog(logs[i])]
     /\ mt_cache' = [at |-> <<NoBlock, NoPage>>, map |-> NoMap]
     /\ todo' = <<>> /\ wr' = <<>>
     /\ UNCHANGED <<flash, moves>>

\* The module is unloaded and loaded again between two calls.
Remount == Idle /\ MountScan /\ UNCHANGED last

\* The power fails at any moment after the first mount; the page of an unfinished
\* write may or may not be stored.
PowerLoss ==
  /\ mt_pbas # NoBlock
  /\ MountScan
  /\ last' = IF wr = <<>> THEN last ELSE [last EXCEPT ![wr[1]] = @ \cup {wr[2]}]

-----------------------------------------------------------------------------

\* NFTL_mount of an erased device, up to the creation of the MapTab.
Init ==
  /\ PoolInit
  /\ flash = [b \in Block |-> [p \in Page |-> BlankPage]]
  /\ mt_pbas = NoBlock /\ mtl = <<>> /\ dl = <<>>
  /\ mt_cache = [at |-> <<NoBlock, NoPage>>, map |-> NoMap]
  /\ todo = <<T("format")>> /\ wr = <<>> /\ moves = 0
  /\ last = [lpa \in Lpa |-> {Erased, Junk}]

\* The block layer calls in.
Call ==
  \/ \E lpa \in Lpa : \E d \in HostWrites(lpa) : WriteLogicPage(lpa, d)
  \/ \E lpa \in Lpa : Read(lpa) \/ \E b \in Block : MoveLog(lpa, b) \/ MoveData(lpa, b)

\* The call in progress goes on.
Proceed ==
  \/ ManyPages \/ MergeLoop \/ PutInLog \/ PutAppend \/ PutNowhere
  \/ PutHoleWrite \/ PutHoleNowhere \/ PutOverrun
  \/ Convert \/ DeleteLog \/ FullLog \/ LowSpace \/ WriteReturns
  \/ MergeNoFree \/ MergeCopy \/ MergeEio
  \/ UpdateMtInsert \/ UpdateMtAppend \/ UpdateMtNowhere
  \/ MtMergeCopy \/ MtMergeSet \/ MtMergeNowhere
  \/ AddGarbage \/ Reclaim \/ MoveCopy \/ FormatWrite
  \/ \E b \in Block : \/ PutAlloc(b) \/ PutHoleAlloc(b) \/ MergeAlloc(b)
                      \/ UpdateMtAlloc(b) \/ MtMergeAlloc(b) \/ FormatAlloc(b)

Next == Call \/ Proceed \/ \E b \in Block : MoveMap(b)

\* Between two mounts.
Spec == Init /\ [][Next]_vars

\* With orderly restarts.
RestartsSpec == Init /\ [][Next \/ Remount]_vars

\* With power failures.
LossSpec == Init /\ [][Next \/ PowerLoss]_vars

\* The thread that made a call runs it to its end.
FairProceed == Spec /\ WF_vars(Proceed)

-----------------------------------------------------------------------------
(***************************************************************************)
(* Properties                                                              *)
(***************************************************************************)

\* Between two calls every logical page reads as what was last written to it,
\* wherever logs, merges, conversions, moves and reclaims have put it since.
ReadBack == Idle => \A lpa \in Lpa : ReadLogicPage(lpa) \in last[lpa]

\* The entries of the tables that name a block, and the block each of them names.
Entries == {<<"mt", 1>>} \cup {<<"mtl", i>> : i \in 1..Len(mtl)}
           \cup {<<"log", i>> : i \in 1..Len(dl)}
           \cup {<<"map", l>> : l \in {m \in Lba : MapTable[m] # NoBlock}}
Named(n) == CASE n[1] = "mt"  -> mt_pbas
              [] n[1] = "mtl" -> mtl[n[2]].pba
              [] n[1] = "log" -> dl[n[2]].pba
              [] n[1] = "map" -> MapTable[n[2]]

\* Between two calls every block a user holds is named by exactly one entry of
\* the tables: no block is leaked by a merge, a conversion or a move, and none
\* is named twice or named after it was given up as garbage.
Accounted ==
  Idle => /\ {Named(n) : n \in Entries} = held
          /\ \A m, n \in Entries : Named(m) = Named(n) => m = n

\* Between two calls each log has a page left: "if the used page of log block is
\* up to the maxmum page, then merge it".  Otherwise the next write programs
\* page nr_pgsinblk of the log, which is page 0 of the block after it.
LogHasRoom ==
  Idle => /\ \A i \in 1..Len(dl) : dl[i].used < PagesPerBlock
          /\ \A i \in 1..Len(mtl) : mtl[i].used < PagesPerBlock

\* A page is programmed once between two erases of its block.
ProgramOnce ==
  [][\A b \in Block, p \in Page :
        flash[b][p] # BlankPage => flash'[b][p] \in {flash[b][p], BlankPage}]_vars

\* The translation layer uses the pool as module NftlPool says its users do: it
\* programs a block it was handed once, and gives back programmed blocks that it
\* holds, each of them once.  This is NftlPool's RestartSpec, with the steps that leave
\* the pool alone named first.
UsesPool == PoolInit /\ [][UNCHANGED poolVars \/ GoodStep \/ Restart]_poolVars

\* The same where the free blocks run out: but for the write to a log that a merge
\* left full, every step uses the pool as NftlPool says, the ones with block 0xffff
\* in the place of a log, a table or the GarbageTab included.
UsesPoolToOverrun == PoolInit /\ [][PutOverrun \/ UNCHANGED poolVars \/ GoodStep]_vars

\* A free block is there whenever nftl_get_free_block is called for a log, a merge
\* or the mapping table: garbage is reclaimed and logs are merged in time.  Where
\* it is not, the code goes on with block 0xffff, and the properties above fail.
NeverStarved ==
  gcpc = "idle" /\ todo # <<>> /\ NoFree =>
    /\ Task.op \notin {"merge", "mtmerge"}
    /\ Task.op = "put" => DlIndex(LbaOf(wr[1])) # 0
    /\ Task.op = "updmt" => mtl # <<>>

\* Where the model stops: the MapTab itself went to block 0xffff, or a write has
\* overrun its log.
TablesLost == todo # <<>> /\ Head(todo).op = "lost"

\* A call that nftl_write_logicpage or nftl_read_logicpage has begun returns: the
\* merge loops end, also when no log qualifies or the free blocks run out.
CallReturns == todo # <<>> ~> (todo = <<>> \/ TablesLost)

===============================================================================
