# Verification of the flash, mailbox and SD drivers of the SSD1935 board support package

The repository is "U-MEDIA Embedded Linux for SSD1935": a board support package (`src/BSP`), a
patched Linux 2.6.24 (`src/linux-2.6.24-ssl`), a boot loader and a large amount of vendored user
space. This project models the parts of it whose correctness is hardest to see and hardest to test:

- the NAND flash translation layer **NFTL** (`src/BSP/oss/nftl`), which keeps a file system's
  sectors on raw flash that wears out, fails and loses power;
- the mailbox **PIU** (`src/BSP/oss/piu`) between the ARM and the DSP, where senders, a timer, an
  interrupt handler and a library thread meet without a common lock;
- the **SD host** driver (`src/BSP/oss/sdhc`) with the part of the kernel's mmc core that drives
  it, where a request is cut into commands that go on from the interrupt handler.

## 1. Inventory

| Component | State it keeps | Operations | Talks to | What is hard | What makes it correct |
|---|---|---|---|---|---|
| NFTL block pool (`nftl/nftlmount.c`, 780-1540) | `blockstatus`, `free_blkcnt`, `lastfree`; `gt_pbas`, `gt_pgcnt`, `gar_pbas`; on flash the bad-block markers and the GarbageTab pages | take a free block, retire blocks into the GarbageTab, reclaim garbage, replace a block whose program failed, mark bad | MTD driver below, mapping above | retries over failing backup blocks, 16-bit count, power cut inside a reclaim | a block has one role; no erase hits live data; the count follows the blocks; the mount rebuilds what RAM knew |
| NFTL mapping (`nftl/nftlmount.c`, 1540-3200) | `dl_blocktab`/`dl_transtab` (logs), `mt_pbas`, `mtl_blocktab` (mapping table and its log), `mt_readcache` | `nftl_read_logicpage`, `nftl_write_logicpage`, merges, conversion, `nftl_update_mt`, moves for the ECC limit, `NFTL_mount` | block pool, MTD | nested operations that change each other's tables; out of space; power cut between any two programs | a page reads as last written; every held block is named once; no log overruns; every call returns |
| NFTL block device (`nftl/nftlcore.c`) | one-page write-back cache (`l_writeblock`, `l_writepage`, `write_buffer`), one-page read cache | `nftl_readsect`, `nftl_writesect`, `nftl_flush`, `nftl_remove_dev` | mapping below, `mtd_blkdevs.c` above | flush without the lock; errors in the middle of a request; two-part key | the cache loses and misplaces no acknowledged write; reads see the cache |
| Application-partition NFTL (`src/BSP/oss/nftl` copies) | as above | as above | as above | as above | as above |
| Block translation layer (`drivers/mtd/mtd_blkdevs.c`) | request queue, `dev->lock` | request thread, ioctl, open, release | NFTL block device | thread and ioctl race | requests are served one at a time |
| PIU mailbox (`src/BSP/oss/piu`) | semaphore and timer of the sending slot, a shared buffer, `raise_block`, `raise_nonblock`, `block_first`, the interrupt mask, the library's flag | `piu_tx`, `piu_release_tx`, `piu_handler`, `piu_rx`, `piulib_enable`, `piulib_disable` | DSP, applications, the codec's thread | lost and late answers, the mask written without a lock, two receiving slots and one order | one message at a time owns the channel and lets go of it; messages are fetched in order; blocking ones are answered |
| SD host (`src/BSP/oss/sdhc`) | the command with its place on the card and in the scatter list, the slots `cmd` and `dat`, a timer | `sslsd_request`, `sdhc_cmd`, `sdhc_isr`, `sslsd_cmd_done`, `sdhc_flush` | mmc core, controller, card | partial transfers, aborts, interrupts of the command before, a wait shorter than the driver's timer | what is counted is in its place; an interrupt finds its request; a request is completed once, while it is waited for |
| Audio codec and PCM (`wm8978`, `magus-pcm`, `i2s`) | codec registers, DMA position, one slot for a worker thread | set, play, stop | ALSA core | slot overwritten before the thread reads it | the last setting wins |
| Touch screen (`tsc2007`) | pen state, completion | open, close, poll thread | input core | little | an up event follows every down event |
| Backlight, GPIO, AV DSP glue | registers | read, write | hardware | nothing | straight-line code |
| Boot loader, parameters (`nboot`, `nval.c`) | parameter copies on NAND | load, save | NAND | the maintenance of copies is not called | |
| Linux, U-Boot, BusyBox, libraries, wireless drivers | | | | | third-party code, out of scope |

`PROJECT.json` lists the same components with their source files and status, and the hazards with
the line at which each of them bites.

The parts interact at three places. The file system's requests reach `nftlcore.c` through the
request thread of `mtd_blkdevs.c`, and its pages go to `nftlmount.c`, whose blocks come from the
pool. The codec's thread sends its commands with `piu_tx`, beside the applications. The mmc block
driver's requests reach `ssl_sd.c` through `mmc_wait_for_req`.

### How NFTL works

A logical block is stored in a *Data* block (page *n* at place *n*) and, for what was written since,
in a *DataLog* block (pages in the order of their writing, with the logical page number in the
spare area). A full log, or a log chosen because there are many logs or few free blocks, is *merged*
with the Data block into a fresh block; a log whose pages happen to lie in order is *converted*
into the Data block. The mapping table (logical to physical block) is a page of the *MapTab* block;
new versions go to an *MTLog* block, which is merged into a new MapTab when it is full. Blocks no
longer needed are appended to the *GarbageTab* block and to `gar_pbas` in RAM and are erased
together later. Nothing is erased before that. The tables in RAM are rebuilt by `NFTL_mount`, which
looks at the spare areas of all blocks.

### How the mailbox works

To send, a task takes the semaphore, starts a timer of one second, fills the shared buffer and
writes COM0. It does not wait: the interrupt of the DSP's answer stops the timer and gives the
semaphore back, or else the timer does. The DSP's messages come in two slots, one for messages the
ARM must answer and one for those it need not. The interrupt handler masks the slot, sets flags and
signals the library's thread, which fetches one message per signal (`piu_rx`) and unmasks the slot.
`piulib_disable` and `piulib_enable` mask and unmask all of them and clear the flags.

### How the SD driver works

The controller moves one contiguous piece of memory per command, so a request with a scatter list
becomes several commands. The interrupt handler of each (`sdhc_isr`) ends in `sslsd_cmd_done`,
which counts the blocks moved, advances in the list and issues the next command; an error after
some progress continues from there, and one without progress is tried once more. A command is in
the slot `cmd` until its response and then, if it has data, in `dat`. A timer of two seconds
empties the slots.

## 2. Modules

| Module | What it is |
|---|---|
| `NftlPool` | the block pool; also the abstract specification of what `Nftl` does with its blocks |
| `Nftl` | the mapping, the logs and the mount; extends `NftlPool` and takes its actions as conjuncts |
| `NftlCore` | the block device with its caches, over an abstract store of logical pages |
| `Piu` | the mailbox: driver, register layer, library and what the driver presumes of the DSP |
| `TxChannel` | the abstract specification of the sending side of `Piu` |
| `SdHost` | the SD driver with the mmc core above and the controller below |
| `MCNftlPool`, `MCNftl`, `MCNftlCore`, `MCPiu`, `MCSdHost` | instances for TLC |
| `NftlPoolProofs`, `NftlCoreProofs`, `PiuProofs`, `SdHostProofs` | theorems about these components and their proofs |
| `NftlProofs`, `NftlTableProofs`, `NftlDataProofs`, `NftlSpaceProofs` | theorems about `Nftl`, each module on top of the one before: the inductive invariant with the lemmas about stacks and tables, and the steps that leave the tables alone; the steps that change them and the mount; what holds while free blocks are found, the refinement of the pool included; from which size of the device on they always are |

Some definitions in the component modules are marked "Mutant" or, in `Piu`, have an underscore and a
slip in their name: each is a plausible slip in the code
(a dropped reset, a missed merge, a wrong precedence). They are used in no specification; replacing
the definition that follows a mutant by it makes a property of a run fail, which shows that the
property depends on that line of the code.

### NftlPool

| Model | Code |
|---|---|
| `media[b]` | what page 0's spare area and the bad-block marker say of a block: blank, used by a user, GarbageTab, bad |
| `gtlog[b]` | the pages of a GarbageTab block: how many, and the addresses in them |
| `blockstatus`, `free_blkcnt`, `lastfree`, `gt_pbas`, `gt_pgcnt`, `gar_pbas` | the variables of the same names (`free_blkcnt` modulo 2^16; `gar_blkcnt` is the length) |
| `gcpc`, `gcidx`, `gcpend` | where the thread is inside `nftl_addto_gt`, `nftl_write_error` or `nftl_reclaim_garbages` |
| `held`, `marked` | history: blocks handed out and not returned; blocks marked bad since the mount |
| `GetsFree`, `NoFree` | `nftl_get_free_block`, with the scan's own wrap-around (after slot `nr_blks`) and its own bound |
| `Alloc`, `FirstProgram`, `UserReplace`, `UserSpoil` | a user takes a block, programs it, has it replaced after a failed program; a backup fails too |
| `AddToGt`, `AddToNewGt`, `AddToNoGt`, `AddToGtFails`, `GtReplace`, `GtSpoil`, `GtGiveUp` | `nftl_addto_gt` with and without a GarbageTab block, and the error paths of its page program |
| `EraseGarbage`, `EraseGarbageFails`, `EraseGt`, `EraseGtFails`, `EraseNoGt` | `nftl_reclaim_garbages`, one step per erase |
| `PoolMount` | the part of `NFTL_mount` that rebuilds these variables |

Every step contains at most one flash operation, so `PowerCut` can fall between any two. The
specifications differ in their environment: `PoolSpec` (failing programs and erases, no power cut),
`RestartSpec` (a sound device, restarted when no block is being retired), `CutSpec` (a sound device,
power cut at any moment), `FairSpec` (`PoolSpec` with fairness).

### Nftl

`flash` is the contents of every page with its spare area; `mt_pbas`, `mtl`, `mt_cache`, `dl` are
the RAM tables; `todo` is the call stack of the one thread that is inside `nftlmount.c`, one task
per function or statement still to be done. `nftlmount.c` has no lock of its own; the request
thread runs it under `dev->lock`, and a flush that BLKFLSBUF runs at the same time is outside this
module. A step
takes the task on top: for instance `MergeCopy` pushes the tasks "retire the log and the old
block", "update the map", "delete the log entry", in the code's order, and each of these may in
turn push others (a map update may fill the MTLog, whose merge retires two more blocks, which may
start a reclaim). `wr` and `last` are history: the write in progress, and for each logical page
what it may read as.

Actions by function: `WriteLogicPage`, `ManyPages`, `MergeLoop`, `PutInLog`, `PutAlloc`,
`PutAppend`, `PutNowhere`, `FullLog`, `LowSpace`, `WriteReturns` are `nftl_write_logicpage`;
`PutHoleAlloc`, `PutHoleWrite`, `PutHoleNowhere` its write to a log whose block is 0xffff, with what
`nftl_write_error` makes of it, and `PutOverrun` its write to a log that a merge left full;
`Convert`, `DeleteLog` its conversion branch; `MergeAlloc`, `MergeCopy`, `MergeNoFree`, `MergeEio`
`nftl_merge_dlblk`; `UpdateMt*` `nftl_update_mt`; `MtMerge*` `nftl_merge_mtlblk`; `AddGarbage`,
`Reclaim` `nftl_addto_gt` and `nftl_reclaim_garbages` through the pool's actions; `Read`,
`MoveLog`, `MoveData`, `MoveMap`, `MoveCopy` `nftl_read_logicpage`, `nftl_lba_to_pba` and
`nftl_block_replace`; `Format*` and `MountScan` `NFTL_mount`. An unfilled buffer that the code
programs (page 0 of a merged block that never had a page 0, the pages that `nftl_write_error` copies
out of block 0xffff) is the value `Junk`.

### NftlCore

`store` stands for the logical pages of `Nftl`. The request thread (`ThreadStep`) and the ioctl
(`FlushWrite`, `FlushForget`) interleave where `nftl_read` and `nftl_write` sleep. The two halves of
the write cache's key are two variables, as in the code, because `nftl_writesect` sets one of them
page by page and the other only at the end of a block. A call of `nftl_write` changes `store` in one
step, also when two threads are in it. `SerialSpec`: flushes only between requests, nothing fails.
`WildSpec`: BLKFLSBUF at any moment and any call may fail.

### Piu and TxChannel

| Model | Code |
|---|---|
| `mutex`, `timer`, `pc[s]` | `piu_dev.mutex`, `piu_dev.timer`, the statement of `piu_tx` that a sender has reached |
| `txbuf`, `awaited` | whose message the shared buffer holds; whose answer is due (history) |
| `com0`, `dspTx`, `rep0`, `dspRx`, `rep2`, `stat`, `mask` | the registers, and the messages the DSP has in hand |
| `raise_block`, `raise_nonblock`, `block_first` | the variables of the same names; `arrived` is the order they stand for (history) |
| `signals`, `rpc` | the real-time signals queued for the library's thread, and where it is |
| `lib` | where the application is in `piulib_disable` and `piulib_enable` |
| `rmw[a]` | a copy of the interrupt mask that was read and not yet written back |
| `TxCall` .. `TxRing` | `piu_tx` of the library and of the driver, statement by statement |
| `TimerExpires`, `TimerReleases` | `piu_release_tx` |
| `Isr`, `AckIn` | `piu_isr` and `piu_handler` for all pending bits at once |
| `SigWait`, `RxPick`, `RxCopy`, `RxEnable` | `piulib_sig` and `piu_rx` |
| `Lib*` | the ioctl calls of `piulib_disable` and `piulib_enable` |
| `Dsp*` | the DSP (external) |

One processor with a preemptible kernel: ioctl calls exclude one another except while one sleeps on
the semaphore, the codec's thread does not take part in that, the timer's function stops all tasks and
the interrupt handler stops everything. The two mask updates of PIU_IOCTL_ENA and PIU_IOCTL_DIS are
one: the timer or the handler between them leads to what they lead to before or after both.
`LateAnswers = FALSE` means that a message is answered within its second or never seen by the DSP;
`TRUE` leaves the DSP free. `EnableRace = FALSE` means further that the second of a message does not
end between the CLR_STATUS and the ENA of `piulib_enable` while its answer is pending and masked
there; `TRUE` lets the timer expire then, as the code does (section 5). `TxChannel` has one variable,
the owner of the channel, which a sender acquires when it is free and must release; `Holder` is the
refinement mapping: the sender past the semaphore, or else the one whose answer is due.

### SdHost

`phase` and `retries` are the request as the mmc core sees it; `kind`, `rt`, `arg` are `tcmd`,
`count`, `actual` `tdat`; `pages`, `sg`, `sgofs`, `retry`, `xfered` the walk through the scatter
list; `cmd`, `dat`, `fins` fields of `sdhc_t`. `line` and `hw` are the controller: what it is doing
and the registers of the last command. `step` is the part of `sdhc_isr` (or `sdhc_flush`) that
comes next, `sub` the function that it calls: `sdhc_cmd` ("submit", "next"), `sslsd_cmd_done`
("done"), `mmc_request_done` ("finish"), or any of them for a request that is not the one in
progress ("stray"). The parts of the handler are steps, since the events that it reports issue
commands, change the slots that later parts look at, and meet a controller that goes on. `mem` is
history: which block of the card came to which block of memory for this request; `missed` is history
too: since the last command was issued an error was reported while the command was in the slot that
the error's branch of the handler does not look at. A scatter list is
given by the block with which each page begins, and the end.

`PromptSpec`: every command is answered, well or not. `Spec` adds commands that stay unanswered,
the core that gives up after a second and the driver's timer a second later. Assumed of the
controller: a block is in memory only if its check sum was good; an interrupt of each kind is
pending once.

## 3. Runs

| Run | Bounds | Checks | Shows |
|---|---|---|---|
| `pool_faults` | 4 blocks of 4 pages, reclaim at 3 garbage blocks | `TypeOK`, `OneRole`, `FreeCountDrift`, `AddToGtReturns` | with programs and erases failing at will, blocks keep one role, the count is off by exactly the blocks marked bad, and retiring a block returns |
| `pool_restart` | 7 blocks, one bad from the factory, reclaim at 5 | `OneRole`, `GtRoom`, `EraseSpares`, `MountRebuilds` | on a sound device a mount between calls rebuilds the tables; the GarbageTab never overflows; erases hit garbage only |
| `nftl_logs` | 6 blocks of 2 pages, 2 logical blocks of which three pages are written, `MINI_FREE_BLOCK` 2 (the least that satisfies `Roomy`, section 4), two values for the page followed, 1 move, restarts | `ReadBack`, `Accounted`, `LogHasRoom`, `NeverStarved`, `ProgramOnce`, `UsesPool` | two logical blocks compete for logs and free blocks, with a block moved at any lookup and mounts between calls: the data stays, nothing leaks, nothing is programmed twice, a free block is there whenever a log, a merge or the map needs one; `Nftl` implements `NftlPool`'s `RestartSpec` |
| `nftl_full` | 4 blocks of 2 pages, 3 logical blocks (too many), some pages never written | `UsesPoolToOverrun`, `CallReturns` | the paths without a free block: every step but the write to a full log still uses the pool as `NftlPool` says; calls return, or end where the model stops (see "lost") |
| `core_serial` | 4 sectors of 1 page, blocks of 2 pages, 6 logical pages | `TypeOK`, `Overlay`, `ReadsThrough` | the write cache across hits, misses, block boundaries, flushes and reloads; with sectors of one page a write that hits stays in the cache |
| `piu_prompt` | 1 application, 1 kernel thread, blocking messages for the library and for the codec, non-blocking ones for the library, 1 signal more than those of blocking messages; answers in time or lost, no `EnableRace` | `TypeOK`, `TxOneAtATime`, `TxIntact`, `TxNeverStuck`, `RxOrder`, `RxAnswered`, `ImplementsChannel` | the sending side implements `TxChannel` with its liveness; messages are fetched in order and blocking ones answered |
| `sd_transfer` | scatter lists of one page of two blocks, two pages of one, and pages of two and one; 1 retry for plain commands | `TypeOK`, `PlacedIfAccepted`, `OneSlot`, `NoStray`, `RequestEnds` | errors at any block, aborts, stop errors, retries and card changes: what is counted is in its place, and requests end unless an error was looked for in the wrong slot (`ErrorDropped`) |
| `nftl_tail` | 6 blocks of 3 pages, 1 logical block, tail rewrites | `ReadBack` is violated | section 5 |
| `nftl_loss` | 6 blocks of 3 pages, power loss | `ReadBack` is violated | section 5 |
| `core_stale` | 3 sectors of 1 page | `ReadsLatest` is violated | section 5 |
| `piu_late` | as `piu_prompt`, late answers and `EnableRace`, no messages of the DSP | `TxOneAtATime` is violated | section 5 |
| `sd_slow` | as `sd_transfer`, unanswered commands | `NoStray` is violated | section 5 |

**Why the bounds are enough.** In the pool, four blocks are the least with which a GarbageTab, its
backup, the backup's backup and a user's block exist at once; seven with five garbage blocks let
one GarbageTab collect several pages, a restart fall between them, and the half-full condition
(`gt_pgcnt >= nr_pgsinblk / 2`) start a reclaim before the garbage limit does. In `Nftl`, two pages
per block make merges, conversions, MTLog merges and full logs frequent (three, in the two runs of
section 5, also make logs that are neither empty, in order nor full); six blocks are the least on
which two logical blocks work without
running out (MapTab, MTLog, two Data blocks or logs, GarbageTab and a merge target), so that every
free-space condition is crossed. With two pages the GarbageTab is "half full" at once and
garbage is erased in the call that makes it: garbage that waits across a mount occurs in
`pool_restart`, not in the runs of `Nftl`. The code never looks at the data it stores, so it is
enough to
follow one logical page with two values while the others get a third: a stale, lost or misplaced
copy of that page differs from what was written. `SYMMETRY` permutes those two values and is not
used where liveness is checked. In `Piu` two senders, one under the ioctl lock and one outside, are
enough for every pair of places in `piu_tx`; the proofs lift the bound. In `SdHost` the lists have
a page with a rest to retry, a step to the next page, and both.

Named bounds: `MaxMoves` (moves for the ECC limit per behaviour), `TailRewrites` (whether the host
may do the rewrite that section 5 is about; the passing runs leave it out, since everything after
it is wrong), `MaxSignals` (non-blocking messages are not sent while more signals wait),
`MaxRetries` (retries that the mmc core asks for). A run of `Nftl` stops at the task "lost": the
mapping table went to block 0xffff, or a write overran a full log (section 5), and nothing is
claimed after that.

**Deadlock** is checked in `nftl_logs`, `core_serial`, `piu_prompt` and `sd_transfer`. It is not in
the pool's runs (a device whose blocks are all bad, or all held, has no step left) and in
`nftl_full` (see "lost").

**Fairness.** `AddToGtReturns` assumes that the thread inside `nftl_addto_gt` goes on
(`WF` of the steps with `gcpc # "idle"`); whether a program fails stays the environment's choice,
and every behaviour ends since each failing round uses up a free block. `CallReturns` assumes
`WF` of `Proceed`: a kernel thread that is inside a call is scheduled until it returns. No fairness
is assumed of the host or of the flash.

In `Piu`, interrupts are taken, the timer expires, and the DSP answers what it has taken (`WF`); it
need not take anything. Tasks get `SF`: a task is disabled again and again, by the timer's function or
by another ioctl, and still runs, since those that wait for the big kernel lock are queued and the
scheduler does not pass over one that is ready. That a sender gets the semaphore is not assumed. A
call of `piulib_enable` or `piulib_disable` that has begun ends. In `SdHost`, `WF` for the code that
runs with interrupts off and for the controller (`PromptSpec` presumes that it answers), and `SF` for
the task that submits, which interrupts delay.

## 4. Proofs

All theorems hold for every number and size of blocks, pages and sectors that the assumptions
`PoolAssumption` (at most 4096 blocks, the size of `blockstatus`; at least two pages per block) and
`CoreAssumption` (the exported sectors end before the last logical page, which
`nftl_add_mtd` ensures by keeping 1 MB back; whole blocks) admit, for any senders (`PiuAssumption`:
applications and kernel threads are different tasks) and for all scatter lists (`SdAssumption`:
pages are not empty). `NftlAssumption` adds that a block has at most 128 pages
(`MAX_PAGES_IN_BLOCK`), so that no page number is the mark 0xff of an empty entry.

- `PoolTypes`: `TypeOK` under `PoolSpec` and under `CutSpec`. The strengthening `TypeInv` adds that
  the GarbageTab has a block while its failed page is redone.
- `PoolOneRole`: `[]OneRole` under `PoolSpec`. `OneRole` alone is not inductive: nothing in it forbids
  a garbage block from being listed twice, and then the second erase would hit a block that is free or
  in use. `RoleInv` adds `GarbageOnce` (no block twice among the garbage still to be erased).
- `PoolEraseSpares`: no erase hits a programmed block that a user holds; from `RoleInv`, one step
  per erase.
- `PoolFreeCount`: `free_blkcnt` plus the blocks marked bad is the number of free blocks modulo
  2^16. `DriftInv` adds that blocks marked bad are bad, so that none is marked twice; the lemmas
  `OneLess`, `OneMore`, `OneMarked` say how the two cardinalities move, `ModShift` how the 16-bit
  count does.
- `MountOneRole`, `MountGtRoom`, `MountEraseSpares`, `MountRestores`: the pool under `RestartSpec`. The
  invariant `SoundInv` ties RAM to the flash, since a mount replaces the one by the other: `Shown`
  says that what is on the flash tells the role of each block, but for a block handed out and not
  yet programmed, which still looks free (a mount makes it free again); `Logged` that whenever no
  `nftl_addto_gt` is under way the pages of the GarbageTab block list exactly the garbage in RAM, and
  are fewer than half of the block. `RoleInv` alone knows nothing of the flash, and `Logged` is not
  inductive without `Shown`: a second block that looks like a GarbageTab would be taken for it.
  `MountGtRoom` follows from `Logged`.
- `NftlUsesPool`: `RestartsSpec /\ []NeverStarved => UsesPool`, a step simulation of `NftlPool` by
  `Nftl`. The hypothesis says that a free block is found whenever a log, a merge or the map needs one.
  It is needed: a merge that finds none leaves its log full, and the next write to it programs a page
  of another block (`PutOverrun`, section 5). It is enough, since with it every log has a block with a
  page left (`FedInv` below), and `FedInv` is proved by one induction together with `NftlInv`. The
  pool lets its users program only a block they took and give back only blocks that they hold, each
  once, so the proof must know who names which block at every moment of a nested call. `NftlInv`
  therefore speaks of the tables *as they will be when the tasks on the stack are done*: the mapping
  table with the update that `nftl_update_mt` has still to make (`Map`), the logs without the one
  about to be deleted (`Logs`), the MapTab block that `nftl_merge_mtlblk` is about to name
  (`MtBlock`). For these, `Owned` holds in every state: logs, map, MapTab and MTLog and the blocks
  about to become garbage name every programmed block exactly once. The other parts say which stacks
  occur (`StackOK`, a grammar of the tasks), what each task's arguments are (`TaskOK`, `GarbLists`,
  `Indices`), that a log's entries and the spare areas on its pages agree, so that a mount finds the
  same log (`LogsOK`), that Data and map blocks are recognised by a mount (`DataOK`, `MtOK`), and that
  the read cache of the map agrees with the flash when its key matches (`CacheOK`, `CacheHot`).
  `Remount` is the hardest step: the tables rebuilt from page 0 of every block and from the spare
  areas of the logs are the tables that RAM held.
- `NftlRoles`: the pool's theorems, carried over the refinement, under the same hypothesis.
- `NftlProgramsOnce`: `ProgramOnce` under the same hypothesis and from the same invariant: a page that
  is programmed lies in a block just taken, or behind the last used page of its log (`LogsOK`,
  `MtOK`).
- `NftlLogHasRoom`, `NftlAccounted`: under `RestartsSpec` and `[]NeverStarved`. The hypothesis is
  needed: without a free block the code programs block 0xffff, takes that as solved, and a merge that
  gives up leaves a full log behind and, if the log is block 0xffff, a block unnamed (`MergeEio`).
  Whether a free block is found depends on the sizes of the device and on the limits
  (`NftlNeverStarved` below; `nftl_full` is an instance on which it is not). `FedInv` says that a
  block held and not programmed is about to be (`Spent`), and that a log or an MTLog block without a
  page left has its merge on the stack (`Room`, `MtRoom`; after a conversion `nftl_write_logicpage`
  looks at the index that the converted log had, `SameLog`). `Accounted` then is `Owned` read between
  two calls, when the tables are what they will be.
- `NftlReadBack`: under `RestartsSpec`, `[]NeverStarved` and `~TailRewrites`, every logical page
  reads as what was last written to it. Both hypotheses are needed: block 0xffff takes data and keeps
  none of it, and a tail rewrite makes the code lose a page (run `nftl_tail`, section 5).
  `DataInv` says it for every state inside a call: `Reads` is what a page
  reads as from the logs, the Data blocks and the table that the tasks on the stack will leave (a log
  that is about to become a Data block already counts its pages in order, `Place`), `Allowed` is what
  it may read as (the new value as soon as only the return of the write is left, `Written`), and
  `TailOK` excludes the write that the conversion would hide. `FedInv` is needed since a log without a
  block, or a full one, would send a page nowhere. Most steps leave every page where it is
  (`Unmoved`, or the same pages in another block); what remains is the write, which puts its page
  behind the used ones, the merge, which copies from the log where it has the page and from the Data
  block elsewhere, the conversion, and a new log, which is in front of its Data block but empty.
- `NftlNeverStarved`: `Roomy => (RestartsSpec => []NeverStarved)`. `Roomy` is a condition on the
  constants alone: `MINI_FREE_BLOCK` is at least 2, and there are at least
  `NLba + 4 + GarbageRoom` good blocks, where `GarbageRoom` is what garbage and GarbageTab may occupy
  between two calls of `nftl_addto_gt` (less than `GARBAGE_LIMIT`, and at most two blocks for every
  GarbageTab page below half a block). The four are the MapTab and MTLog blocks and the two blocks
  that a write may take before it looks whether blocks are scarce. The argument counts twice. `Spared`
  counts the good blocks that hold no data: at least 4, and 3 from the moment a new log took one until
  the check for scarce blocks, at the end of the write, has made up for it (`Tight`). That check merges
  a log whose logical block has a Data block too, which gains a block (`LastMerge`); where there is no
  such log, no logical block has two blocks, at most `NLba` are in use and `Roomy` gives the four
  (`OnePerLba`, `Unmixed`). `Stocked` turns this into free blocks: where no block is about to be
  retired there are at least 2, or 1 while `Tight`, and one more where the map needs a new MTLog block;
  a step that takes a block uses up this stock, and `nftl_addto_gt` restores it, since afterwards either
  the garbage fits `GarbageRoom` (`Tidy`) and the rest of `Spare` is free (`Census`), or everything was
  reclaimed. `Unspoilt` says that no block goes bad (`Nftl` has no failing programs), `Resumes` that a
  reclaim returns to nothing that has taken a block. `SpaceInv`, the conjunction of these parts, holds
  together with `NftlInv` and `FedInv`: each step of these needs `NeverStarved`, which follows from both.
- `NftlRoomyPool`, `NftlRoomyTables`, `NftlRoomyReadBack`: on a device that satisfies `Roomy`, `UsesPool`,
  `ProgramOnce`, `OneRole`, `EraseSpares`, `LogHasRoom`, `Accounted` and (with `~TailRewrites`) `ReadBack`
  under `RestartsSpec`, without a hypothesis on behaviours.

  How far the code's own numbers satisfy `Roomy`: `nftl_add_mtd` keeps 1 MB back, `MINI_FREE_BLOCK` is
  20 and `GARBAGE_MAX_CNT_DIV2` is 128. With blocks of 16 KB and 32 pages the reserve is 64 blocks and 35
  are needed: the theorems apply as long as at most 29 blocks are bad. With blocks of 128 KB and 64 pages
  the reserve is 8 blocks and 67 would be needed, so nothing is claimed there: garbage is reclaimed only
  by a call of `nftl_addto_gt`, and the first write of a logical block makes none, so that free blocks
  can run out while garbage waits. The condition is sharp on the instances tried: with one block
  less than `Roomy` asks for, TLC finds a state that violates `NeverStarved`, with 2 pages per block
  (`nftl_logs` with 5 blocks) and with 4 (4 logical blocks, 10 blocks).
- `CoreTypes`: `TypeOK` under `WildSpec`, with the position of a request tied to its first page
  (`RequestOK`).
- `CoreOverlay`: under `SerialSpec` no acknowledged write is lost or misplaced. The invariant says
  what holds inside a request: before the old cache is written (`OldKept`), while pages pass
  through the buffer and the key is meaningless but the store already right (`PagesKept`), and
  while a flush is between its two steps (`FlushKept`). The lemma `KeyOf` shows that the two halves
  of a key set together name the page.
- `CoreReadsThrough`: a read that misses the read cache returns what was last written, from the
  same invariant.

- `PiuTypes`, `PiuRxOrder`, `PiuNeverStuck` hold whether or not the DSP is in time. `BaseInv` is
  `Order` (the five states of the queue and what the flags say in each), the types, and `Masks`: who
  has an unwritten copy of the interrupt mask, and that the copies and the mask enable the interrupt
  of the answer exactly while the library has not masked it. `PiuNeverStuck` is inductive with the
  types alone: who lowers the semaphore to zero is about to start the timer, and who stops the timer
  raises it.
- `PiuOneAtATime`, `PiuIntact`, `PiuChannel` assume `LateAnswers = FALSE` and `EnableRace = FALSE`; with
  either of them `TRUE` TLC finds `TxOneAtATime` violated. `Sem` says that whoever
  lowered the semaphore is in `piu_tx` or awaits an answer with the timer running, `Answer` that a
  pending interrupt of an answer is the answer awaited; neither is inductive without the other, and
  `Masks` is needed since `piulib_disable` leaves an old answer pending until `piulib_enable` clears the
  status (`Cleared` is where it has), and since the timer may expire over an answer that is masked.
  `PiuChannel` then shows that every step is a step of `TxChannel` or leaves `Holder` as it is.
- `SdTypes`, `SdPlaced`, `SdOneSlot`, `SdNoStray` under `PromptSpec`. That a counted block is in its
  place depends on the whole chain: the walk is within the list (`Walk`), a transfer is submitted
  once (`Once`), card address, place in memory and count go together (`InStep`), a command in a slot
  is the one in the registers (`Loaded`), what moved lies where the registers say (`Moved`), and what
  is about to be counted has moved (`Credited`); `Slots` says which of these is the case when.

Only model-checked: the liveness properties
(`AddToGtReturns`, `CallReturns`, `RxAnswered`, `RequestEnds` and the fairness part of
`ImplementsChannel`), which are outside what the prover handles.

## 5. Where code and documentation disagree

- `nftl_tail`: a log that holds all pages but the last in order is converted whatever page is
  written next; a rewrite of an earlier page lands at the place of the last.
- `nftl_loss`: the converting page is programmed before the map names the block; after a power cut
  in between the mount takes the log for a Data block that no map entry names.
- `core_stale`: writes do not invalidate the read cache.
- `piu_late`: the mailbox's readme says that the channel is not released before the answer. After a
  second it is, the message stays in COM0 (the call that would withdraw it clears a bit outside its
  mask), and an answer that still comes releases the channel again, for a message that is not
  answered.
- `sd_slow`: `mmc_wait_for_req` is documented to wait for the command to complete. It waits one
  second; the driver's timer runs for two and then completes a request that was on the stack of a
  caller long gone, or the request that is being prepared meanwhile.

More facts limit what is claimed. `nftl_reclaim_garbages` erases the garbage first and the
GarbageTab that lists it last; after a power cut in between the mount takes the erased blocks for
free ones and also loads them as garbage, so that blocks handed out since are erased in use:
`EraseSpares` is violated under `CutSpec`, and the run checks it under `RestartSpec`. A request whose
first SD command is refused (the card has just gone, or the line stays busy) is counted with the
`actual` of an earlier transfer: `Placed` without the exception of `PlacedIfAccepted` is violated. A
blocking message that arrives between the two ioctl
calls of `piulib_enable` may be forgotten: `RxAnswered` is about a library that stays enabled.

`sdhc_isr` looks for the command of an error in one slot only. An error of the data or of the automatic
stop command that one interrupt reports together with the response finds the command still in `cmd`
(1008-1032; 1119 moves it to `dat` later), and a response error finds it in `dat` if the response to a
cancelled command was taken for this one's before (932-944). Such an error is dropped, and no further
interrupt comes: the exception `ErrorDropped` of `RequestEnds`, which holds only where `missed` says that
this has happened. The two-second timer ends the request if the command was its first one. For a later
command nothing of the driver does, since `sslsd_cmd_done` has deleted the timer (`ssl_sd.c` 189) and
starts none: the core returns after its second and leaves the request in the slot.

A merge that finds no free block gives up and leaves its log full (`nftlmount.c` 2345), and the next
write to that logical block does not look: it programs page `nr_pgsinblk` of the log, which is page 0 of
the block after it, whoever has that block, or fails there and goes on in the same way behind a backup
block (2740-2760, 901-946). `PutOverrun` does the first program and stops the model: what the code does
with pages that no table knows of is not claimed. A log whose own block is 0xffff, since none was free
for it, takes pages too: each write fails and is tried on a backup block, behind pages copied from an
unfilled buffer, or is taken as solved if there is none (`PutHoleWrite`, `PutHoleNowhere`). None of this
happens while `NeverStarved` holds, and on a device that satisfies `Roomy` it always does.

`piulib_enable` clears the pending interrupts (CLR_STATUS) and unmasks them in a second call (ENA). An
answer in between is in time and stays pending. If its second ends before the ENA, the timer raises the
semaphore, and the handler raises it again as soon as the ENA unmasks the answer: with `EnableRace = TRUE`
TLC finds `TxOneAtATime` violated although every answer is in time, as with the late answer of `piu_late`.
The run `piu_prompt` and three theorems exclude this window (two consecutive system calls) by
`EnableRace = FALSE`.

A flush that races a request can forget a page the request has
just cached, and a failed call leaves the buffer under a key of another page: `Overlay` does not
hold under `WildSpec`, and is stated for `SerialSpec`. A power cut that falls before the merge of a
full log leaves a full log after the mount: `LogHasRoom` does not hold under `LossSpec`. Only logs
whose logical block has a Data block are merged, so first writes to more than `DL_MAX_BLOCKS` fresh
logical blocks would not fit `dl_blocktab`: in the model no write that needs a new log begins when the
table is full, and nothing is claimed of what the code does then. The
comment that `free_blkcnt` is the "total number of Free blocks" is true only until a block is
marked bad; `FreeCountDrift` says by how much it is off.

## 6. What is left out of the models

- Mapping tables of more than one page (`nr_blks > writesize / 2`), and hence more than one MapTab
  or MTLog block at a time.
- In `Nftl`: failing programs, copies and reads but for those of block 0xffff (they are modelled in
  the pool for the blocks, and in `NftlCore` for the calls). An ECC move that finds no free block.
- `nftl_readsects`, `nftl_writesects` and sectors smaller than a page: the block layer hands over
  bio segments of at most a page, so they are not reached; the models assume whole pages.
- The loop that fills a fresh block page by page is one step: the mount looks only at the first
  page of such a block. The exception is a moved log, whose pages the mount does scan: the run with
  power losses has no moves (`MaxMoves = 0`).
- Two threads inside `nftlmount.c` at once (the request thread and an unlocked BLKFLSBUF).
- In `Piu`: `sslpiu_open` and `sslpiu_release` with their count of users, a mailbox nobody listens
  to, messages longer than the buffer (the handler then returns without an answer), the ioctl calls
  IRQENA and IRQDIS, and a second process that is signalled for the same message.
- In `SdHost`: R2 responses, SDIO cards, programmed I/O (`sdhc_pio`), a scatter list of which the
  kernel maps only a part, clock, power and bus settings, suspend. Reads and writes are not told
  apart: for writes the controller's position may run ahead of the card's. The path of a refused
  first command runs with interrupts on in the code; the model lets it finish first.
- Start-up and shut-down of the modules (`nftl_add_mtd`, registration), the proc entries and
  the debugging output.
- The components marked `not_modelled` in `PROJECT.json`: the application partition's NFTL is a copy
  of the one modelled; the codec's worker thread serves one command slot, which the next command
  overwrites, so what it does depends on how the DSP, whose code is not in the repository, spaces
  its commands (its answers go through `piu_tx`, where it is one of the kernel threads); the touch
  screen's thread polls every 10 ms and is started and stopped under one semaphore; backlight and
  GPIO drivers have no state of their own; the maintenance of
  parameter copies in `nval.c` is not called; the rest is third-party code.

## 7. Plan

1. Done: `NftlPool`, `Nftl`, `NftlCore`, `Piu` with `TxChannel`, `SdHost`, their runs and the theorems
   of section 4, `ReadBack` and the size condition of `NeverStarved` included.
2. Error paths of `Nftl`: failed programs of users' pages (`nftl_write_error` and
   `nftl_copyback_error` for MTLog, DataLog and Data blocks), failed reads and the key of
   `mt_readcache`.
