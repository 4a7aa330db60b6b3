------------------------------- MODULE NftlCore -------------------------------
(***************************************************************************)
(* The block-device side of the translation layer                          *)
(* (BSP/oss/nftl/nftlcore.c): a write-back cache of one page and a read    *)
(* cache of one page before the logical pages of module Nftl, used by the  *)
(* request thread of mtd_blkdevs.c under dev->lock and by the BLKFLSBUF    *)
(* ioctl without it.                                                       *)
(*                                                                         *)
(* nftl_read and nftl_write sleep; a step ends where one of them returns.  *)
(* Requests come in pieces of one sector (bio segments are at most a page, *)
(* so nsect is 1 and nftl_readsects, nftl_writesects are never called),    *)
(* and a sector is a whole number of pages: page_offset is 0.              *)
(***************************************************************************)
EXTENDS Integers

CONSTANTS
  NSect,          \* sectors of the exported device
  SectPages,      \* SECTORSIZE / mtd->writesize
  PagesPerBlock,  \* nr_pgsinblk
  NLpa,           \* maxlp: logical pages that nftlmount.c accepts
  Data,           \* what a page may hold
  Fresh           \* what a page holds that was never written

ASSUME CoreAssumption ==
  /\ NSect \in Nat \ {0}
  /\ SectPages \in Nat \ {0}
  /\ PagesPerBlock \in Nat /\ PagesPerBlock >= 2
  /\ NLpa \in Nat /\ NSect * SectPages < NLpa   \* 1 MB is not exported
  /\ NLpa % PagesPerBlock = 0
  /\ Fresh \notin Data

Lpa     == 0..(NLpa - 1)
Sect    == 0..(NSect - 1)
Content == Data \cup {Fresh}
None    == 0 - 1                 \* 0xffff, 0xff: no page

VARIABLES
  store,         \* the logical pages, as nftl_read_logicpage returns them
  l_writeblock,  \* the key of the write cache, in two halves
  l_writepage,
  write_buffer,
  l_read,        \* the key of the read cache (l_readblock and l_readpage)
  read_buffer,
  req,           \* the request the thread serves
  flusher,       \* where nftl_flush, called by the ioctl, stands
  last           \* what each page may read as, given the requests that returned

vars == <<store, l_writeblock, l_writepage, write_buffer, l_read, read_buffer,
          req, flusher, last>>

-----------------------------------------------------------------------------

\* The page the write cache holds, if both halves of its key are set.
KeySet == l_writeblock # None /\ l_writepage # None
Key    == l_writeblock * PagesPerBlock + l_writepage
Hits(p) == KeySet /\ Key = p

\* Mutant: the page after the last of a block is taken for one of that block.
SetKeyNoCarry(p) == /\ l_writeblock' = (p - 1) \div PagesPerBlock
                    /\ l_writepage' = ((p - 1) % PagesPerBlock) + 1

\* The two halves of the key.
SetKey(p) == /\ l_writeblock' = p \div PagesPerBlock
             /\ l_writepage' = p % PagesPerBlock
DropKey   == l_writeblock' = None /\ l_writepage' = None

\* nftl_write of the cached page.
WriteBack == store' = IF KeySet THEN [store EXCEPT ![Key] = write_buffer] ELSE store

\* A request is idle, or has n pages left, the next of them p; it began at
\* page "first" and writes d.
Idle      == [pc |-> "idle", first |-> 0, p |-> 0, n |-> 0, d |-> Fresh]
InRequest == {q \in Lpa : req.first <= q /\ q < req.first + SectPages}

\* The request returns 0; it returns -1.
Done == /\ req' = Idle
        /\ last' = [q \in Lpa |-> IF q \in InRequest THEN {req.d} ELSE last[q]]
Fail == /\ req' = Idle
        /\ last' = [q \in Lpa |-> IF q \in InRequest /\ req.pc # "read"
                                  THEN last[q] \cup {req.d} ELSE last[q]]

-----------------------------------------------------------------------------
(***************************************************************************)
(* nftl_writesect                                                          *)
(***************************************************************************)

\* The sector's first page is in the write cache.  A sector of one page goes no
\* further: it is written back some other time.
WriteHit(s, d) ==
  LET p == s * SectPages IN
  /\ req = Idle
  /\ Hits(p)
  /\ write_buffer' = d
  /\ IF SectPages = 1
     THEN /\ req' = req
          /\ last' = [last EXCEPT ![p] = {d}]
     ELSE /\ req' = [pc |-> "old", first |-> p, p |-> p + 1, n |-> SectPages - 1, d |-> d]
          /\ last' = last
  /\ UNCHANGED <<store, l_writeblock, l_writepage, l_read, read_buffer, flusher>>

WriteMiss(s, d) ==
  LET p == s * SectPages IN
  /\ req = Idle
  /\ ~Hits(p)
  /\ req' = [pc |-> "old", first |-> p, p |-> p, n |-> SectPages, d |-> d]
  /\ UNCHANGED <<store, l_writeblock, l_writepage, write_buffer, l_read, read_buffer,
                 flusher, last>>

\* Mutant: the old cache is dropped.
WriteOldSkipped ==
  /\ req.pc = "old"
  /\ req' = [req EXCEPT !.pc = "pages"]
  /\ UNCHANGED <<store, l_writeblock, l_writepage, write_buffer, l_read, read_buffer,
                 flusher, last>>

\* "if cache not hit, write old cache first"
WriteOld ==
  /\ req.pc = "old"
  /\ WriteBack
  /\ req' = [req EXCEPT !.pc = "pages"]
  /\ UNCHANGED <<l_writeblock, l_writepage, write_buffer, l_read, read_buffer, flusher, last>>

\* The pages of the request pass through the write buffer; l_writeblock moves
\* only when a block ends.
WritePage ==
  /\ req.pc = "pages" /\ req.n > 0
  /\ write_buffer' = req.d
  /\ store' = [store EXCEPT ![req.p] = req.d]
  /\ l_writepage' = req.p % PagesPerBlock
  /\ l_writeblock' = IF (req.p + 1) % PagesPerBlock = 0 THEN req.p \div PagesPerBlock
                                                       ELSE l_writeblock
  /\ req' = [req EXCEPT !.p = @ + 1, !.n = @ - 1]
  /\ UNCHANGED <<l_read, read_buffer, flusher, last>>

\* The page after the request is read into the write cache.
CacheNext ==
  /\ req.pc = "pages" /\ req.n = 0
  /\ write_buffer' = store[req.p]
  /\ SetKey(req.p)
  /\ Done
  /\ UNCHANGED <<store, l_read, read_buffer, flusher>>

-----------------------------------------------------------------------------
(***************************************************************************)
(* nftl_readsect                                                           *)
(***************************************************************************)

ReadStart(s) ==
  /\ req = Idle
  /\ req' = [Idle EXCEPT !.pc = "read", !.first = s * SectPages,
                         !.p = s * SectPages, !.n = SectPages]
  /\ UNCHANGED <<store, l_writeblock, l_writepage, write_buffer, l_read, read_buffer,
                 flusher, last>>

\* Mutant: a read does not look at the write cache.
ReadPageUnder ==
  /\ req.pc = "read"
  /\ read_buffer' = IF l_read = req.p THEN read_buffer ELSE store[req.p]
  /\ l_read' = req.p
  /\ req' = IF req.n = 1 THEN Idle ELSE [req EXCEPT !.p = @ + 1, !.n = @ - 1]
  /\ UNCHANGED <<store, l_writeblock, l_writepage, write_buffer, flusher, last>>

\* One page: from the write cache, else from the read cache, else from the flash.
ReadPage ==
  /\ req.pc = "read"
  /\ read_buffer' = IF Hits(req.p) THEN write_buffer
                    ELSE IF l_read = req.p THEN read_buffer ELSE store[req.p]
  /\ l_read' = req.p
  /\ req' = IF req.n = 1 THEN Idle ELSE [req EXCEPT !.p = @ + 1, !.n = @ - 1]
  /\ UNCHANGED <<store, l_writeblock, l_writepage, write_buffer, flusher, last>>

-----------------------------------------------------------------------------
(***************************************************************************)
(* nftl_flush and nftl_remove_dev                                          *)
(***************************************************************************)

\* nftl_flush writes the page back, and forgets it once nftl_write has returned.
FlushWrite ==
  /\ flusher = "out" /\ KeySet
  /\ WriteBack
  /\ flusher' = "written"
  /\ UNCHANGED <<l_writeblock, l_writepage, write_buffer, l_read, read_buffer, req, last>>
FlushForget ==
  /\ flusher = "written"
  /\ DropKey
  /\ flusher' = "out"
  /\ UNCHANGED <<store, write_buffer, l_read, read_buffer, req, last>>

\* nftl_remove_dev, then the module is loaded again.
Reload ==
  /\ req = Idle /\ flusher = "out"
  /\ WriteBack
  /\ DropKey
  /\ l_read' = None
  /\ UNCHANGED <<write_buffer, read_buffer, req, flusher, last>>

-----------------------------------------------------------------------------
(***************************************************************************)
(* Calls of nftl_write and nftl_read that return an error.  The page may   *)
(* have been stored all the same, and a buffer may have been filled.       *)
(***************************************************************************)

WriteOldFails ==
  /\ req.pc = "old" /\ KeySet
  /\ UNCHANGED store \/ WriteBack
  /\ Fail
  /\ UNCHANGED <<l_writeblock, l_writepage, write_buffer, l_read, read_buffer, flusher>>

WritePageFails ==
  /\ req.pc = "pages" /\ req.n > 0
  /\ write_buffer' = req.d
  /\ UNCHANGED store \/ store' = [store EXCEPT ![req.p] = req.d]
  /\ Fail
  /\ UNCHANGED <<l_writeblock, l_writepage, l_read, read_buffer, flusher>>

CacheNextFails ==
  /\ req.pc = "pages" /\ req.n = 0
  /\ write_buffer' \in {write_buffer, store[req.p]}
  /\ Fail
  /\ UNCHANGED <<store, l_writeblock, l_writepage, l_read, read_buffer, flusher>>

ReadPageFails ==
  /\ req.pc = "read"
  /\ ~Hits(req.p) /\ l_read # req.p
  /\ read_buffer' \in {read_buffer, store[req.p]}
  /\ Fail
  /\ UNCHANGED <<store, l_writeblock, l_writepage, write_buffer, l_read, flusher>>

\* nftl_flush ignores the error and forgets the page.
FlushFails ==
  /\ flusher = "out" /\ KeySet
  /\ flusher' = "written"
  /\ UNCHANGED <<store, l_writeblock, l_writepage, write_buffer, l_read, read_buffer, req, last>>

-----------------------------------------------------------------------------

Init ==
  /\ store = [p \in Lpa |-> Fresh]
  /\ l_writeblock = None /\ l_writepage = None /\ write_buffer = Fresh
  /\ l_read = None /\ read_buffer = Fresh
  /\ req = Idle /\ flusher = "out"
  /\ last = [p \in Lpa |-> {Fresh}]

\* The request thread, which holds dev->lock.
ThreadStep ==
  \/ \E s \in Sect, d \in Data : WriteHit(s, d) \/ WriteMiss(s, d)
  \/ WriteOld \/ WritePage \/ CacheNext
  \/ \E s \in Sect : ReadStart(s)
  \/ ReadPage

FaultStep ==
  WriteOldFails \/ WritePageFails \/ CacheNextFails \/ ReadPageFails \/ FlushFails

\* No BLKFLSBUF while a request is served, nor a request while nftl_flush runs.
SerialNext ==
  \/ flusher = "out" /\ ThreadStep
  \/ req = Idle /\ (FlushWrite \/ FlushForget)
  \/ Reload

\* BLKFLSBUF at any moment: blktrans_ioctl takes no lock.
RacingNext == ThreadStep \/ FlushWrite \/ FlushForget \/ Reload

\* Calls one after the other, none of which fails.
SerialSpec == Init /\ [][SerialNext]_vars

\* Failing calls, and flushes in the middle of requests.
WildSpec == Init /\ [][RacingNext \/ FaultStep]_vars

-----------------------------------------------------------------------------
(***************************************************************************)
(* Properties                                                              *)
(***************************************************************************)

\* Types.  The key of the write cache names a block and a page of the device even
\* when its halves come from two requests, and no request leaves the device.
TypeOK ==
  /\ store \in [Lpa -> Content]
  /\ l_writeblock \in 0..(NLpa \div PagesPerBlock - 1) \cup {None}
  /\ l_writepage \in 0..(PagesPerBlock - 1) \cup {None}
  /\ write_buffer \in Content /\ read_buffer \in Content
  /\ l_read \in Lpa \cup {None}
  /\ req \in [pc : {"idle", "old", "pages", "read"}, first : Lpa, p : Lpa,
              n : 0..SectPages, d : Content]
  /\ flusher \in {"out", "written"}
  /\ last \in [Lpa -> SUBSET Content]

\* What a page is worth: the write cache overrides the flash.
Current(p) == IF Hits(p) THEN write_buffer ELSE store[p]

\* Between two calls no acknowledged write is lost or misplaced: each page is
\* worth what was last written to it, in the write cache or in the flash.
Overlay == req = Idle /\ flusher = "out" => \A p \in Lpa : Current(p) \in last[p]

\* A read that does not find its page in the read cache returns what was last
\* written to the page.
ReadsThrough == [][ReadPage /\ l_read # req.p => read_buffer' \in last[req.p]]_vars

\* A page is read as what was last written to it: only when "both read/write
\* cahce missed" the flash has to be read.
ReadsLatest == [][ReadPage => read_buffer' \in last[req.p]]_vars

===============================================================================
