------------------------------ MODULE NftlProofs ------------------------------
(***************************************************************************)
(* Proofs about module Nftl: the tables and the tasks in progress name     *)
(* every programmed block exactly once, so that, as long as free blocks    *)
(* last (module NftlDataProofs), the translation layer uses the pool as    *)
(* NftlPool says and programs no page twice.  Here the invariant NftlInv,  *)
(* the lemmas about stacks and tables, and the steps that leave the tables *)
(* alone.                                                                  *)
(***************************************************************************)
EXTENDS Nftl, NftlPoolProofs, WellFoundedInduction

-----------------------------------------------------------------------------
(***************************************************************************)
(* What may be on the stack                                                *)
(***************************************************************************)

BlockX == Block \cup {NoBlock}

\* The parts of a write that are still to be done.
AckK       == <<T("ack")>>
LowK       == <<T("low")>> \o AckK
PutK       == <<T("put")>> \o LowK
PagesK     == <<T("pages")>> \o PutK
PageLoopK  == <<T("pageloop")>> \o PutK
BlockLoopK == <<T("blockloop")>> \o PagesK

\* What a merge returns to, and a conversion.
RetK  == {BlockLoopK, PageLoopK, LowK, AckK}
FullK == {<<OnLog("full", i)>> \o LowK : i \in Nat}

\* What nftl_update_mt returns to: the end of a merge or of a conversion, or of
\* the move of a Data block.
DelK == {<<OnLog("dldel", i)>> \o k : i \in Nat, k \in RetK \cup FullK}
UpdK == DelK \cup {<<AddGt(<<b>>)>> : b \in Block}

\* What the move of a MapTab or MTLog block returns to.
MergeK   == {<<OnLog("merge", i)>> \o k : i \in Nat, k \in RetK}
ConvertK == {<<OnLog("convert", i)>> \o k : i \in Nat, k \in FullK}
MoveK    == {<<>>, BlockLoopK, PageLoopK, LowK} \cup MergeK \cup ConvertK

UpdMts == [op : {"updmt"}, lba : Lba, pba : Block]
MtSets == [op : {"mtset"}, blk : Block]

\* What nftl_addto_gt returns to.
UpdMtK == UNION {{<<u>> \o k : k \in DelK} : u \in UpdMts}
MtSetK == UNION {{<<m>> \o k : k \in UpdK} : m \in MtSets}
AddK   == MoveK \cup UpdMtK \cup MtSetK \cup {<<T("lost")>>}

\* The task t may lie on k.
Lies(t, k) ==
  \/ t = T("blockloop") /\ k = PagesK
  \/ t = T("pages") /\ k = PutK
  \/ t = T("pageloop") /\ k = PutK
  \/ t = T("put") /\ k = LowK
  \/ t = T("low") /\ k = AckK
  \/ t \in {T("ack"), T("format"), T("lost")} /\ k = <<>>
  \/ t \in [op : {"mapwrite"}, blk : Block] /\ k = <<>>
  \/ t \in [op : {"append"}, blk : Block] /\ k = LowK
  \/ t \in [op : {"full"}, i : Nat] /\ k = LowK
  \/ t \in [op : {"convert"}, i : Nat] /\ k \in FullK
  \/ t \in [op : {"merge"}, i : Nat] /\ k \in RetK
  \/ t \in [op : {"mergecopy"}, i : Nat, old : BlockX, blk : Block] /\ k \in RetK
  \/ t \in [op : {"dldel"}, i : Nat] /\ k \in RetK \cup FullK
  \/ t \in UpdMts /\ k \in UpdK
  \/ t \in [op : {"mtappend"}, lba : Lba, pba : Block, blk : Block] /\ k \in UpdK
  \/ t = T("mtmerge") /\ k \in UpdK
  \/ t \in [op : {"mtcopy"}, blk : Block] /\ k \in UpdK
  \/ t \in MtSets /\ k \in UpdK
  \/ t \in [op : {"addgt"}, g : Seq(Block)] /\ k \in AddK
  \/ t \in [op : {"move"}, what : [op : {"log"}, i : Nat] \cup [op : {"data"}, lba : Lba],
            src : Block, blk : Block] /\ k = <<>>
  \/ t \in [op : {"move"}, what : {T("mt"), T("mtl")}, src : Block, blk : Block] /\ k \in MoveK

GoodStack(q) == q # <<>> => q = <<Head(q)>> \o Tail(q) /\ Lies(Head(q), Tail(q))
StackOK == GoodStack(todo)

-----------------------------------------------------------------------------
(***************************************************************************)
(* The tables as they will be when the tasks in progress are done          *)
(***************************************************************************)

Has(op) == {t \in Elems(todo) : t.op = op}

\* The mapping table went to block 0xffff: nothing is claimed of the tables.
Lost == Has("lost") # {}

\* The MapTab block is merged and the tables in RAM still name the old one.
Closing == Has("mtset") # {}
NextMt  == (CHOOSE t \in Has("mtset") : TRUE).blk

\* The MapTab block, and the blocks of the mapping table.
MtBlock  == IF Closing THEN NextMt ELSE mt_pbas
MtBlocks == IF mt_pbas = NoBlock THEN {}
            ELSE IF Closing THEN {NextMt}
            ELSE {mt_pbas} \cup {mtl[i].pba : i \in 1..Len(mtl)}

\* The mapping table on the flash, and with the change that nftl_update_mt has
\* still to make.
FlashMap == flash[PhysicalMt[1]][PhysicalMt[2]].map
CurMap   == IF mt_pbas = NoBlock THEN NoMap
            ELSE IF Closing THEN flash[NextMt][0].map ELSE FlashMap
Updates  == Has("updmt") \cup Has("mtappend")
Map      == IF Updates = {} THEN CurMap
            ELSE LET u == CHOOSE u \in Updates : TRUE IN [CurMap EXCEPT ![u.lba] = u.pba]

\* The logs but the one that is about to be deleted.
Dying == {t.i : t \in Has("dldel")}
Logs  == {dl[i] : i \in (1..Len(dl)) \ Dying}

\* The blocks about to become garbage.
Garb == UNION {Elems(t.g) : t \in Has("addgt")}

\* The blocks that a user holds and has programmed.
Programmed == {b \in held : media[b] = "used"}

LogBlocks(L)  == {e.pba : e \in L} \ {NoBlock}
DataBlocks(D) == {D[l] : l \in Lba} \ {NoBlock}

\* Logs L, map D, map blocks M and garbage G name each block of U exactly once.
Owned(L, D, M, G, U) ==
  /\ \A e, f \in L : e.pba = f.pba /\ e.pba # NoBlock => e = f
  /\ \A k, l \in Lba : D[k] = D[l] /\ D[k] # NoBlock => k = l
  /\ LogBlocks(L) \cap DataBlocks(D) = {}
  /\ (LogBlocks(L) \cup DataBlocks(D)) \cap M = {}
  /\ (LogBlocks(L) \cup DataBlocks(D) \cup M) \cap G = {}
  /\ LogBlocks(L) \cup DataBlocks(D) \cup M \cup G = U

-----------------------------------------------------------------------------
(***************************************************************************)
(* The inductive invariant                                                 *)
(***************************************************************************)

PageRec == [t : {"free", "data", "log", "map", "mtlog"}, k : Int,
            d : Data \cup {Erased, Junk}, map : [Lba -> BlockX]]
LogRec  == [lba : Lba, pba : BlockX, used : 1..PagesPerBlock, ppa : [Page -> Page \cup {NoPage}]]
MtlRec  == [pba : Block, used : 1..PagesPerBlock]

TypesOK ==
  /\ flash \in [Block -> [Page -> PageRec]]
  /\ mt_cache \in [at : BlockX \X (Page \cup {NoPage}), map : [Lba -> BlockX]]
  /\ dl \in Seq(LogRec)
  /\ ~Lost => /\ mt_pbas \in BlockX
              /\ mtl = <<>> \/ \E m \in MtlRec : mtl = <<m>>

\* Before the first MapTab.
FreshOK ==
  (mt_pbas = NoBlock <=> Has("format") \cup Has("mapwrite") # {})
  /\ (mt_pbas = NoBlock => mtl = <<>> /\ dl = <<>>)

\* A logical block has one log.
OneLog == \A i, j \in 1..Len(dl) : dl[i].lba = dl[j].lba => i = j

\* The tasks know the tables.
Indices == \A t \in Elems(todo) :
             /\ t.op \in {"dldel", "merge", "convert", "mergecopy"} => t.i \in 1..Len(dl)
             /\ t.op = "full" => t.i >= 1

TaskOK ==
  todo # <<>> =>
    /\ Task.op = "mergecopy" => Task.old = Map[dl[Task.i].lba]
    /\ Task.op = "append" => \A i \in 1..Len(dl) : dl[i].lba # LbaOf(wr[1])
    /\ Task.op = "mtappend" => mtl = <<>>
    /\ Task.op = "move" =>
         /\ Task.what.op = "log"  => /\ Task.what.i \in 1..Len(dl)
                                     /\ dl[Task.what.i].pba = Task.src
         /\ Task.what.op = "data" => Map[Task.what.lba] = Task.src
         /\ Task.what.op = "mtl"  => mtl # <<>> /\ mtl[1].pba = Task.src
         /\ Task.what.op = "mt"   => mtl = <<>> /\ mt_pbas = Task.src
    /\ Task.op = "addgt" => \A t \in Elems(Tail(todo)) :
                              t.op = "addgt" => Elems(t.g) \cap Elems(Task.g) = {}

\* What nftl_addto_gt gets: one or two blocks.
GarbLists == \A t \in Has("addgt") :
               /\ Len(t.g) \in 1..2
               /\ Len(t.g) = 2 => t.g[1] # t.g[2]

\* The page that the write in progress goes to is there.
Ready ==
  /\ T("ack") \in Elems(todo) => wr \in Lpa \X Data
  /\ T("put") \in Elems(todo) =>
       \A i \in 1..Len(dl) : dl[i].lba = LbaOf(wr[1]) =>
         dl[i].pba # NoBlock /\ dl[i].used < PagesPerBlock

Tables ==
  /\ Owned(Logs, Map, MtBlocks, Garb, Programmed)
  /\ ~Closing /\ mtl # <<>> => mtl[1].pba # mt_pbas

\* A block that looks blank is blank.
BlankOK == \A b \in Block : media[b] \in {"blank", "gt"} =>
                              flash[b] = [p \in Page |-> BlankPage]

\* The log e in pages F of its block: the pages are those of its logical block, the
\* newest of each offset is known, the rest is blank.
LogOK(e, F) ==
  /\ \A p \in Page : p < e.used => F[p].t = "log" /\ F[p].k \in Lpa /\ LbaOf(F[p].k) = e.lba
  /\ \A p \in Page : p >= e.used => F[p] = BlankPage
  /\ \A o \in Page : e.ppa[o] = NoPage =>
       \A p \in Page : p < e.used => OfsOf(F[p].k) # o
  /\ \A o \in Page : e.ppa[o] # NoPage =>
       /\ e.ppa[o] < e.used /\ OfsOf(F[e.ppa[o]].k) = o
       /\ \A p \in Page : p < e.used /\ p > e.ppa[o] => OfsOf(F[p].k) # o

\* A log whose last page has been programmed as that of a Data block.
TurningOK(e, F) ==
  e.pba # NoBlock /\ F[0].t = "log" /\ F[PagesPerBlock - 1].t = "data"

Turning == {t.i : t \in Has("convert")}

LogsOK ==
  \A i \in (1..Len(dl)) \ Dying :
    IF i \in Turning THEN TurningOK(dl[i], flash[dl[i].pba])
    ELSE dl[i].pba # NoBlock => LogOK(dl[i], flash[dl[i].pba])

\* What makes a mount take a block for a Data block.
IsData(F) == F[0].t = "data" \/ (F[0].t = "log" /\ F[PagesPerBlock - 1].t = "data")

DataOK == \A l \in Lba : Map[l] # NoBlock => IsData(flash[Map[l]])

MtOK ==
  mt_pbas # NoBlock =>
    /\ flash[MtBlock][0].t = "map" /\ flash[MtBlock][0].k \in Block
    /\ ~Closing /\ mtl # <<>> =>
         \A p \in Page : LET c == flash[mtl[1].pba][p]
                         IN IF p < mtl[1].used THEN c.t = "mtlog" /\ c.k = 0
                                               ELSE c = BlankPage

\* The read cache of the mapping table is not stale.
CacheOK ==
  /\ ~Closing /\ mt_cache.at = PhysicalMt => mt_pbas # NoBlock /\ mt_cache.map = FlashMap
  /\ mt_pbas = NoBlock => mt_cache.at = <<NoBlock, NoPage>>

\* It has just been filled when the mapping table is moved or merged.
CacheHot ==
  /\ Closing \/ (todo # <<>> /\ Task.op \in {"mtmerge", "mtcopy"}) =>
       mtl # <<>> /\ mtl[1].used = PagesPerBlock /\ mt_cache.at = PhysicalMt
  /\ todo # <<>> /\ Task.op = "move" /\ Task.what.op \in {"mt", "mtl"} =>
       mt_cache.at = PhysicalMt

NftlInv ==
  /\ SoundInv /\ StackOK /\ TypesOK /\ GarbLists /\ BlankOK
  /\ Lost => Garb \subseteq Programmed
  /\ ~Lost => /\ FreshOK /\ OneLog /\ Tables /\ LogsOK /\ DataOK /\ MtOK /\ CacheOK
              /\ Indices /\ TaskOK /\ Ready /\ CacheHot

-----------------------------------------------------------------------------
(***************************************************************************)
(* Stacks                                                                  *)
(***************************************************************************)

\* A task on a stack.
LEMMA Cons ==
  ASSUME NEW S, NEW k \in Seq(S), NEW t
  PROVE  /\ Head(<<t>> \o k) = t /\ Tail(<<t>> \o k) = k
         /\ <<t>> \o k # <<>> /\ <<t>> \o k \in Seq(S \cup {t})
         /\ Elems(<<t>> \o k) = {t} \cup Elems(k)
  <1> DEFINE s == <<t>> \o k
  <1>1. <<t>> \in Seq(S \cup {t}) /\ k \in Seq(S \cup {t})
    OBVIOUS
  <1>2. s \in Seq(S \cup {t}) /\ Len(s) = 1 + Len(k) /\ Len(k) \in Nat
    BY <1>1
  <1>3. s[1] = t /\ \A i \in 1..Len(k) : s[i + 1] = k[i]
    BY <1>1, <1>2
  <1>4. Tail(s) = k
    <2>1. Tail(s) \in Seq(S \cup {t}) /\ Len(Tail(s)) = Len(k)
      BY <1>2
    <2>2. \A i \in 1..Len(k) : Tail(s)[i] = k[i]
      BY <1>2, <1>3
    <2> QED BY <1>1, <2>1, <2>2
  <1>5. Elems(s) = {t} \cup Elems(k)
    <2> HIDE DEF s
    <2>1. ASSUME NEW x \in Elems(s) PROVE x \in {t} \cup Elems(k)
      <3>1. PICK j \in 1..(1 + Len(k)) : x = s[j]
        BY <1>2, <2>1 DEF Elems
      <3>2. CASE j # 1
        <4>1. j - 1 \in 1..Len(k) /\ j = (j - 1) + 1
          BY <1>2, <3>2
        <4> QED BY <1>3, <3>1, <4>1 DEF Elems
      <3> QED BY <1>3, <3>1, <3>2
    <2>2. ASSUME NEW i \in 1..Len(k) PROVE k[i] \in Elems(s)
      <3>1. i + 1 \in 1..Len(s)
        BY <1>2
      <3> QED BY <1>3, <3>1 DEF Elems
    <2>3. t \in Elems(s)
      <3>1. 1 \in 1..Len(s)
        BY <1>2
      <3> QED BY <1>3, <3>1 DEF Elems
    <2>4. Elems(k) \subseteq Elems(s)
      BY <2>2 DEF Elems
    <2> QED BY <2>1, <2>3, <2>4
  <1> QED BY <1>2, <1>3, <1>4, <1>5

\* The tasks that may lie under another.
Plain == [op : {"blockloop", "pageloop", "pages", "put", "low", "ack"}]
         \cup [op : {"full"}, i : Nat]
Under == Plain \cup {T("lost")} \cup [op : {"dldel", "merge", "convert"}, i : Nat]
         \cup [op : {"addgt"}, g : Seq(Block)] \cup UpdMts \cup MtSets

\* One more plain task.
LEMMA PlainCons ==
  ASSUME NEW k \in Seq(Plain), Elems(k) \subseteq Plain, NEW t \in Plain
  PROVE  /\ <<t>> \o k \in Seq(Plain) /\ Elems(<<t>> \o k) \subseteq Plain
         /\ Elems(<<t>> \o k) = {t} \cup Elems(k)
  <1>1. Plain \cup {t} = Plain
    OBVIOUS
  <1> QED BY <1>1, Cons

\* The rest of a write.
LEMMA PlainStacks ==
  /\ \A k \in {<<>>, AckK, LowK, PutK, PagesK, PageLoopK, BlockLoopK} \cup FullK :
        k \in Seq(Plain) /\ Elems(k) \subseteq Plain
  /\ Elems(<<>>) = {}
  /\ T("ack") \in Elems(AckK) /\ T("ack") \in Elems(LowK) /\ T("ack") \in Elems(PutK)
  /\ T("put") \notin Elems(LowK) /\ T("put") \notin Elems(AckK)
  <1>0. T("ack") \in Plain /\ T("low") \in Plain /\ T("put") \in Plain /\ T("pages") \in Plain
        /\ T("pageloop") \in Plain /\ T("blockloop") \in Plain
        /\ \A i \in Nat : OnLog("full", i) \in Plain
    BY DEF Plain, T, OnLog
  <1>1. <<>> \in Seq(Plain) /\ Elems(<<>>) = {}
    <2>1. Len(<<>>) = 0 /\ 1..0 = {}
      OBVIOUS
    <2>2. Elems(<<>>) = {}
      BY <2>1 DEF Elems
    <2> QED BY <2>2
  <1>2. AckK = <<T("ack")>> \o <<>>
    <2>1. <<T("ack")>> \in Seq(Plain)
      BY <1>0
    <2> QED BY <2>1 DEF AckK
  <1>3. AckK \in Seq(Plain) /\ Elems(AckK) = {T("ack")}
    <2>1. AckK \in Seq(Plain) /\ Elems(AckK) = {T("ack")} \cup Elems(<<>>)
      BY <1>0, <1>1, <1>2, PlainCons
    <2> QED BY <1>1, <2>1
  <1>4. LowK \in Seq(Plain) /\ Elems(LowK) = {T("low"), T("ack")}
    BY <1>0, <1>3, PlainCons DEF LowK
  <1>5. PutK \in Seq(Plain) /\ Elems(PutK) = {T("put"), T("low"), T("ack")}
    BY <1>0, <1>4, PlainCons DEF PutK
  <1>6. PagesK \in Seq(Plain) /\ Elems(PagesK) \subseteq Plain
    BY <1>0, <1>5, PlainCons DEF PagesK
  <1>7. PageLoopK \in Seq(Plain) /\ Elems(PageLoopK) \subseteq Plain
    BY <1>0, <1>5, PlainCons DEF PageLoopK
  <1>8. BlockLoopK \in Seq(Plain) /\ Elems(BlockLoopK) \subseteq Plain
    BY <1>0, <1>6, PlainCons DEF BlockLoopK
  <1>9. \A k \in FullK : k \in Seq(Plain) /\ Elems(k) \subseteq Plain
    <2> TAKE k \in FullK
    <2>1. PICK i \in Nat : k = <<OnLog("full", i)>> \o LowK
      BY DEF FullK
    <2> QED BY <1>0, <1>4, <2>1, PlainCons
  <1>10. T("put") # T("low") /\ T("put") # T("ack")
    BY DEF T
  <1> QED BY <1>0, <1>1, <1>3, <1>4, <1>5, <1>6, <1>7, <1>8, <1>9, <1>10

\* What lies under the tasks of nftl_update_mt: one deletion, or one block to retire.
LEMMA UpdStacks ==
  ASSUME NEW k \in UpdK
  PROVE  /\ k \in Seq(Under)
         /\ \/ \E i \in Nat, r \in RetK \cup FullK :
                 k = <<OnLog("dldel", i)>> \o r /\ Elems(k) = {OnLog("dldel", i)} \cup Elems(r)
            \/ \E b \in Block : k = <<AddGt(<<b>>)>> /\ Elems(k) = {AddGt(<<b>>)}
  <1>1. CASE k \in DelK
    <2>1. PICK i \in Nat, r \in RetK \cup FullK : k = <<OnLog("dldel", i)>> \o r
      BY <1>1 DEF DelK
    <2>2. r \in Seq(Plain)
      BY PlainStacks DEF RetK
    <2>3. Elems(k) = {OnLog("dldel", i)} \cup Elems(r) /\ k \in Seq(Plain \cup {OnLog("dldel", i)})
      BY <2>1, <2>2, Cons
    <2>4. OnLog("dldel", i) \in Under /\ Plain \subseteq Under
      BY DEF Under, OnLog
    <2>5. k \in Seq(Under)
      BY <2>3, <2>4
    <2> QED BY <2>1, <2>3, <2>5
  <1>2. CASE k \notin DelK
    <2>1. PICK b \in Block : k = <<AddGt(<<b>>)>>
      BY <1>2 DEF UpdK
    <2>2. AddGt(<<b>>) \in Under
      BY DEF Under, AddGt
    <2>3. k \in Seq(Under) /\ Elems(k) = {AddGt(<<b>>)}
      BY <2>1, <2>2 DEF Elems
    <2> QED BY <2>1, <2>3
  <1> QED BY <1>1, <1>2

\* What lies under a move.
LEMMA MoveStacks ==
  ASSUME NEW k \in MoveK
  PROVE  /\ k \in Seq(Under)
         /\ \/ Elems(k) \subseteq Plain
            \/ \E i \in Nat, r \in RetK : k = <<OnLog("merge", i)>> \o r
                                        /\ Elems(k) = {OnLog("merge", i)} \cup Elems(r)
            \/ \E i \in Nat, r \in FullK : k = <<OnLog("convert", i)>> \o r
                                        /\ Elems(k) = {OnLog("convert", i)} \cup Elems(r)
  <1>0. Plain \subseteq Under /\ \A i \in Nat : OnLog("merge", i) \in Under /\ OnLog("convert", i) \in Under
    BY DEF Under, OnLog
  <1>1. CASE k \in {<<>>, BlockLoopK, PageLoopK, LowK}
    <2>1. k \in Seq(Plain) /\ Elems(k) \subseteq Plain
      BY <1>1, PlainStacks
    <2> QED BY <1>0, <2>1
  <1>2. ASSUME NEW i \in Nat, NEW r \in RetK, k = <<OnLog("merge", i)>> \o r
        PROVE  k \in Seq(Under) /\ Elems(k) = {OnLog("merge", i)} \cup Elems(r)
    <2>1. r \in Seq(Plain)
      BY PlainStacks DEF RetK
    <2>2. k \in Seq(Plain \cup {OnLog("merge", i)}) /\ Elems(k) = {OnLog("merge", i)} \cup Elems(r)
      BY <1>2, <2>1, Cons
    <2> QED BY <1>0, <2>2
  <1>3. ASSUME NEW i \in Nat, NEW r \in FullK, k = <<OnLog("convert", i)>> \o r
        PROVE  k \in Seq(Under) /\ Elems(k) = {OnLog("convert", i)} \cup Elems(r)
    <2>1. r \in Seq(Plain)
      BY PlainStacks
    <2>2. k \in Seq(Plain \cup {OnLog("convert", i)}) /\ Elems(k) = {OnLog("convert", i)} \cup Elems(r)
      BY <1>3, <2>1, Cons
    <2> QED BY <1>0, <2>2
  <1>4. CASE k \in MergeK
    <2>1. PICK i \in Nat, r \in RetK : k = <<OnLog("merge", i)>> \o r
      BY <1>4, SMTT(40) DEF MergeK
    <2> QED BY <1>2, <2>1
  <1>5. CASE k \in ConvertK
    <2>1. PICK i \in Nat, r \in FullK : k = <<OnLog("convert", i)>> \o r
      BY <1>5, SMTT(40) DEF ConvertK
    <2> QED BY <1>3, <2>1
  <1> QED BY <1>1, <1>4, <1>5 DEF MoveK

\* What lies under nftl_addto_gt.
LEMMA AddStacks ==
  ASSUME NEW k \in AddK
  PROVE  /\ k \in Seq(Under)
         /\ \/ k \in MoveK
            \/ \E u \in UpdMts, r \in DelK : k = <<u>> \o r /\ Elems(k) = {u} \cup Elems(r)
            \/ \E m \in MtSets, r \in UpdK : k = <<m>> \o r /\ Elems(k) = {m} \cup Elems(r)
            \/ k = <<T("lost")>> /\ Elems(k) = {T("lost")}
  <1>0. UpdMts \subseteq Under /\ MtSets \subseteq Under /\ T("lost") \in Under
    BY DEF Under
  <1>1. CASE k \in MoveK
    BY <1>1, MoveStacks
  <1>2. CASE k \in UpdMtK
    <2>1. PICK u \in UpdMts, r \in DelK : k = <<u>> \o r
      BY <1>2 DEF UpdMtK
    <2>2. r \in Seq(Under)
      BY UpdStacks DEF UpdK
    <2>3. Elems(k) = {u} \cup Elems(r) /\ k \in Seq(Under \cup {u}) /\ Under \cup {u} = Under
      BY <1>0, <2>1, <2>2, Cons
    <2> QED BY <2>1, <2>3
  <1>3. CASE k \in MtSetK
    <2>1. PICK m \in MtSets, r \in UpdK : k = <<m>> \o r
      BY <1>3 DEF MtSetK
    <2>2. r \in Seq(Under)
      BY UpdStacks
    <2>3. Elems(k) = {m} \cup Elems(r) /\ k \in Seq(Under \cup {m}) /\ Under \cup {m} = Under
      BY <1>0, <2>1, <2>2, Cons
    <2> QED BY <2>1, <2>3
  <1>4. CASE k = <<T("lost")>>
    <2>1. Elems(k) = {T("lost")}
      BY <1>4 DEF Elems
    <2> QED BY <1>0, <1>4, <2>1
  <1> QED BY <1>1, <1>2, <1>3, <1>4 DEF AddK

\* The stack is the task on top and what is under it, and what there may be.
LEMMA Stack ==
  ASSUME StackOK, todo # <<>>
  PROVE  /\ Tail(todo) \in Seq(Under)
         /\ Elems(todo) = {Task} \cup Elems(Tail(todo))
         /\ Lies(Task, Tail(todo))
  <1>1. todo = <<Task>> \o Tail(todo) /\ Lies(Task, Tail(todo))
    BY DEF StackOK, GoodStack, Task
  <1>2. \A k \in {<<>>, AckK, LowK, PutK, PagesK} \cup RetK \cup FullK : k \in Seq(Under)
    <2>1. Plain \subseteq Under
      BY DEF Under
    <2> TAKE k \in {<<>>, AckK, LowK, PutK, PagesK} \cup RetK \cup FullK
    <2>2. k \in Seq(Plain)
      BY PlainStacks DEF RetK
    <2> QED BY <2>1, <2>2
  <1>3. \A k \in UpdK \cup AddK \cup MoveK : k \in Seq(Under)
    BY UpdStacks, MoveStacks, AddStacks
  <1>4. Tail(todo) \in Seq(Under)
    BY <1>1, <1>2, <1>3 DEF Lies
  <1> DEFINE k == Tail(todo)
  <1>5. k \in Seq(Under) /\ todo = <<Task>> \o k
    BY <1>1, <1>4
  <1> HIDE DEF k
  <1>6. Elems(<<Task>> \o k) = {Task} \cup Elems(k)
    BY <1>5, Cons
  <1>7. Elems(todo) = {Task} \cup Elems(k)
    BY <1>5, <1>6
  <1> QED BY <1>1, <1>4, <1>7 DEF k

\* A task is put on a stack.
LEMMA Push ==
  ASSUME NEW k \in Seq(Under), NEW t, Lies(t, k)
  PROVE  /\ GoodStack(<<t>> \o k) /\ Elems(<<t>> \o k) = {t} \cup Elems(k)
         /\ Head(<<t>> \o k) = t /\ Tail(<<t>> \o k) = k /\ <<t>> \o k # <<>>
  BY Cons DEF GoodStack

\* Sequences with the same elements.
LEMMA SameSeq ==
  ASSUME NEW S, NEW s \in Seq(S), NEW q \in Seq(S), Len(s) = Len(q),
         \A i \in 1..Len(s) : s[i] = q[i]
  PROVE  s = q
  OBVIOUS

\* Two tasks, and three.
LEMMA Twice ==
  ASSUME NEW S, NEW k \in Seq(S), NEW t, NEW u
  PROVE  <<t, u>> \o k = <<t>> \o (<<u>> \o k)
  <1> DEFINE Q == S \cup {t, u}
  <1>1. <<t>> \in Seq(Q) /\ <<u>> \in Seq(Q) /\ k \in Seq(Q)
    OBVIOUS
  <1>2. (<<t>> \o <<u>>) \o k = <<t>> \o (<<u>> \o k)
    BY <1>1
  <1>3. <<t>> \o <<u>> = <<t, u>>
    <2>1. <<t, u>> \in Seq(Q) /\ <<t>> \o <<u>> \in Seq(Q)
          /\ Len(<<t>> \o <<u>>) = 2 /\ Len(<<t, u>>) = 2
      BY <1>1
    <2>2. (<<t>> \o <<u>>)[1] = t /\ (<<t>> \o <<u>>)[2] = u
      BY <1>1
    <2>3. \A i \in 1..2 : (<<t>> \o <<u>>)[i] = <<t, u>>[i]
      BY <2>2
    <2> QED BY <2>1, <2>3, SameSeq
  <1> QED BY <1>2, <1>3

LEMMA Thrice ==
  ASSUME NEW S, NEW k \in Seq(S), NEW t, NEW u, NEW v
  PROVE  <<t, u, v>> \o k = <<t>> \o (<<u>> \o (<<v>> \o k))
  <1> DEFINE Q == S \cup {t, u, v}
  <1>1. <<t>> \in Seq(Q) /\ <<u, v>> \in Seq(Q) /\ k \in Seq(Q)
    OBVIOUS
  <1>2. (<<t>> \o <<u, v>>) \o k = <<t>> \o (<<u, v>> \o k)
    BY <1>1
  <1>3. <<t>> \o <<u, v>> = <<t, u, v>>
    <2>1. <<t, u, v>> \in Seq(Q) /\ <<t>> \o <<u, v>> \in Seq(Q)
          /\ Len(<<t>> \o <<u, v>>) = 3 /\ Len(<<t, u, v>>) = 3
      BY <1>1
    <2>2. /\ (<<t>> \o <<u, v>>)[1] = t /\ (<<t>> \o <<u, v>>)[2] = u
          /\ (<<t>> \o <<u, v>>)[3] = v
      BY <1>1
    <2>3. \A i \in 1..3 : (<<t>> \o <<u, v>>)[i] = <<t, u, v>>[i]
      BY <2>2
    <2> QED BY <2>1, <2>3, SameSeq
  <1>4. <<u, v>> \o k = <<u>> \o (<<v>> \o k)
    BY Twice
  <1> QED BY <1>2, <1>3, <1>4

\* What lies under a task is a stack.
LEMMA PlainGood ==
  \A k \in {<<>>, AckK, LowK, PutK, PagesK, PageLoopK, BlockLoopK} \cup FullK : GoodStack(k)
  <1>0. \A k \in {<<>>, AckK, LowK, PutK, PagesK} : k \in Seq(Under)
    <2>1. Plain \subseteq Under
      BY DEF Under
    <2> TAKE k \in {<<>>, AckK, LowK, PutK, PagesK}
    <2>2. k \in Seq(Plain)
      BY PlainStacks
    <2> QED BY <2>1, <2>2
  <1>1. GoodStack(<<>>)
    BY DEF GoodStack
  <1>2. GoodStack(AckK)
    <2>1. AckK = <<T("ack")>> \o <<>> /\ Lies(T("ack"), <<>>)
      <3>1. <<T("ack")>> \in Seq({T("ack")})
        OBVIOUS
      <3> QED BY <3>1 DEF AckK, Lies
    <2> QED BY <1>0, <2>1, Push
  <1>3. GoodStack(LowK)
    <2>1. Lies(T("low"), AckK)
      BY DEF Lies
    <2> QED BY <1>0, <2>1, Push DEF LowK
  <1>4. GoodStack(PutK)
    <2>1. Lies(T("put"), LowK)
      BY DEF Lies
    <2> QED BY <1>0, <2>1, Push DEF PutK
  <1>5. GoodStack(PagesK)
    <2>1. Lies(T("pages"), PutK)
      BY DEF Lies
    <2> QED BY <1>0, <2>1, Push DEF PagesK
  <1>6. GoodStack(PageLoopK)
    <2>1. Lies(T("pageloop"), PutK)
      BY DEF Lies
    <2> QED BY <1>0, <2>1, Push DEF PageLoopK
  <1>7. GoodStack(BlockLoopK)
    <2>1. Lies(T("blockloop"), PagesK)
      BY DEF Lies
    <2> QED BY <1>0, <2>1, Push DEF BlockLoopK
  <1>8. ASSUME NEW k \in FullK PROVE GoodStack(k)
    <2>1. PICK i \in Nat : k = <<OnLog("full", i)>> \o LowK
      BY DEF FullK
    <2>2. OnLog("full", i) \in [op : {"full"}, i : Nat]
      BY DEF OnLog
    <2>3. Lies(OnLog("full", i), LowK)
      BY <2>2 DEF Lies
    <2> QED BY <1>0, <2>1, <2>3, Push
  <1> QED BY <1>1, <1>2, <1>3, <1>4, <1>5, <1>6, <1>7, <1>8

LEMMA UpdGood == \A k \in UpdK : GoodStack(k)
  <1> TAKE k \in UpdK
  <1>1. ASSUME NEW i \in Nat, NEW r \in RetK \cup FullK, k = <<OnLog("dldel", i)>> \o r
        PROVE  GoodStack(k)
    <2>1. r \in Seq(Plain) /\ Plain \subseteq Under
      BY PlainStacks DEF RetK, Under
    <2>2. r \in Seq(Under)
      BY <2>1
    <2>3. OnLog("dldel", i) \in [op : {"dldel"}, i : Nat]
      BY DEF OnLog
    <2>4. Lies(OnLog("dldel", i), r)
      BY <2>3 DEF Lies
    <2> QED BY <1>1, <2>2, <2>4, Push
  <1>2. ASSUME NEW b \in Block, k = <<AddGt(<<b>>)>>
        PROVE  GoodStack(k)
    <2>1. k = <<AddGt(<<b>>)>> \o <<>> /\ <<>> \in Seq(Under)
      <3>1. <<AddGt(<<b>>)>> \in Seq({AddGt(<<b>>)})
        OBVIOUS
      <3> QED BY <1>2, <3>1
    <2>2. AddGt(<<b>>) \in [op : {"addgt"}, g : Seq(Block)] /\ <<>> \in AddK
      BY DEF AddGt, AddK, MoveK
    <2>3. Lies(AddGt(<<b>>), <<>>)
      BY <2>2 DEF Lies
    <2> QED BY <2>1, <2>3, Push
  <1> QED BY <1>1, <1>2, UpdStacks

LEMMA MoveGood == \A k \in MoveK : GoodStack(k)
  <1> TAKE k \in MoveK
  <1>0. \A r \in RetK \cup FullK : r \in Seq(Under)
    <2>1. \A r \in RetK \cup FullK : r \in Seq(Plain)
      BY PlainStacks DEF RetK
    <2>2. Plain \subseteq Under
      BY DEF Under
    <2> QED BY <2>1, <2>2
  <1>1. CASE k \in {<<>>, BlockLoopK, PageLoopK, LowK}
    BY <1>1, PlainGood
  <1>2. CASE k \in MergeK
    <2>1. PICK i \in Nat, r \in RetK : k = <<OnLog("merge", i)>> \o r
      BY <1>2, SMTT(40) DEF MergeK
    <2>2. OnLog("merge", i) \in [op : {"merge"}, i : Nat]
      BY DEF OnLog
    <2>3. Lies(OnLog("merge", i), r)
      BY <2>2 DEF Lies
    <2> QED BY <1>0, <2>1, <2>3, Push
  <1>3. CASE k \in ConvertK
    <2>1. PICK i \in Nat, r \in FullK : k = <<OnLog("convert", i)>> \o r
      BY <1>3, SMTT(40) DEF ConvertK
    <2>2. OnLog("convert", i) \in [op : {"convert"}, i : Nat]
      BY DEF OnLog
    <2>3. Lies(OnLog("convert", i), r)
      BY <2>2 DEF Lies
    <2> QED BY <1>0, <2>1, <2>3, Push
  <1> QED BY <1>1, <1>2, <1>3 DEF MoveK

LEMMA AddGood == \A k \in AddK : GoodStack(k)
  <1> TAKE k \in AddK
  <1>1. CASE k \in MoveK
    BY <1>1, MoveGood
  <1>2. ASSUME NEW u \in UpdMts, NEW r \in DelK, k = <<u>> \o r PROVE GoodStack(k)
    <2>1. r \in UpdK /\ r \in Seq(Under)
      BY UpdStacks DEF UpdK
    <2>2. Lies(u, r)
      BY <2>1 DEF Lies
    <2> QED BY <1>2, <2>1, <2>2, Push
  <1>3. ASSUME NEW m \in MtSets, NEW r \in UpdK, k = <<m>> \o r PROVE GoodStack(k)
    <2>1. r \in Seq(Under) /\ Lies(m, r)
      BY UpdStacks DEF Lies
    <2> QED BY <1>3, <2>1, Push
  <1>4. CASE k = <<T("lost")>>
    <2>1. k = <<T("lost")>> \o <<>> /\ <<>> \in Seq(Under) /\ Lies(T("lost"), <<>>)
      <3>1. <<T("lost")>> \in Seq({T("lost")})
        OBVIOUS
      <3> QED BY <1>4, <3>1 DEF Lies
    <2> QED BY <2>1, Push
  <1> QED BY <1>1, <1>2, <1>3, <1>4, AddStacks

\* What is under the task on top is a stack.
LEMMA UnderGood ==
  ASSUME StackOK, todo # <<>>
  PROVE  GoodStack(Tail(todo))
  <1>1. Lies(Task, Tail(todo))
    BY Stack
  <1>2. \A k \in RetK : GoodStack(k)
    BY PlainGood DEF RetK
  <1> QED BY <1>1, <1>2, PlainGood, UpdGood, MoveGood, AddGood DEF Lies

\* The task on top is done.
LEMMA Popped ==
  ASSUME StackOK, todo # <<>>, Then(<<>>)
  PROVE  todo' = Tail(todo) /\ StackOK' /\ Elems(todo') = Elems(Tail(todo))
  <1>1. Tail(todo) \in Seq(Under) /\ GoodStack(Tail(todo))
    BY Stack, UnderGood
  <1>2. todo' = Tail(todo)
    BY <1>1 DEF Then
  <1>3. StackOK'
    BY <1>1, <1>2 DEF StackOK, GoodStack
  <1> QED BY <1>2, <1>3

\* ... but for another one,
LEMMA Swapped ==
  ASSUME StackOK, todo # <<>>, NEW t, Lies(t, Tail(todo)), Then(<<t>>)
  PROVE  /\ StackOK' /\ todo' # <<>> /\ Task' = t /\ Tail(todo') = Tail(todo)
         /\ Elems(todo') = {t} \cup Elems(Tail(todo))
  <1> DEFINE k == Tail(todo)
  <1>1. k \in Seq(Under) /\ todo' = <<t>> \o k /\ Lies(t, k)
    BY Stack DEF Then
  <1> HIDE DEF k
  <1>2. /\ GoodStack(todo') /\ todo' # <<>> /\ Head(todo') = t /\ Tail(todo') = k
        /\ Elems(todo') = {t} \cup Elems(k)
    BY <1>1, Push
  <1>3. StackOK'
    BY <1>2 DEF StackOK, GoodStack
  <1> QED BY <1>2, <1>3 DEF k, Task

\* ... or for two,
LEMMA Swapped2 ==
  ASSUME StackOK, todo # <<>>, NEW t, NEW u \in Under, Lies(u, Tail(todo)),
         Lies(t, <<u>> \o Tail(todo)), Then(<<t, u>>)
  PROVE  /\ StackOK' /\ todo' # <<>> /\ Task' = t /\ Tail(todo') = <<u>> \o Tail(todo)
         /\ Elems(todo') = {t, u} \cup Elems(Tail(todo))
         /\ Elems(Tail(todo')) = {u} \cup Elems(Tail(todo))
  <1> DEFINE k == Tail(todo)
             m == <<u>> \o k
  <1>1. k \in Seq(Under) /\ todo' = <<t, u>> \o k /\ Lies(t, m)
    BY Stack DEF Then
  <1> HIDE DEF k
  <1>2. todo' = <<t>> \o m /\ Under \cup {u} = Under
    BY <1>1, Twice
  <1>3. m \in Seq(Under) /\ Elems(m) = {u} \cup Elems(k)
    BY <1>1, <1>2, Cons
  <1> HIDE DEF m
  <1>4. /\ GoodStack(todo') /\ todo' # <<>> /\ Head(todo') = t /\ Tail(todo') = m
        /\ Elems(todo') = {t} \cup Elems(m)
    BY <1>1, <1>2, <1>3, Push
  <1>5. StackOK'
    BY <1>4 DEF StackOK, GoodStack
  <1>6. Elems(todo') = {t, u} \cup Elems(k)
    BY <1>3, <1>4
  <1> QED BY <1>3, <1>4, <1>5, <1>6 DEF k, m, Task

\* ... or for three.
LEMMA Swapped3 ==
  ASSUME StackOK, todo # <<>>, NEW t, NEW u \in Under, NEW v \in Under,
         Lies(t, <<u>> \o (<<v>> \o Tail(todo))), Then(<<t, u, v>>)
  PROVE  /\ StackOK' /\ todo' # <<>> /\ Task' = t
         /\ Elems(todo') = {t, u, v} \cup Elems(Tail(todo))
         /\ Elems(Tail(todo')) = {u, v} \cup Elems(Tail(todo))
  <1> DEFINE k == Tail(todo)
             n == <<v>> \o k
             m == <<u>> \o n
  <1>1. k \in Seq(Under) /\ todo' = <<t, u, v>> \o k /\ Lies(t, m)
    BY Stack DEF Then
  <1> HIDE DEF k
  <1>a. <<t, u, v>> \o k = <<t>> \o (<<u>> \o (<<v>> \o k))
    <2>1. k \in Seq(Under)
      BY <1>1
    <2> QED BY <2>1, Thrice
  <1>b. Under \cup {u} = Under /\ Under \cup {v} = Under
    OBVIOUS
  <1>2. todo' = <<t>> \o m /\ Under \cup {u} = Under /\ Under \cup {v} = Under
    BY <1>1, <1>a, <1>b
  <1>3. n \in Seq(Under) /\ Elems(n) = {v} \cup Elems(k)
    BY <1>1, <1>2, Cons
  <1> HIDE DEF n
  <1>4. m \in Seq(Under) /\ Elems(m) = {u} \cup Elems(n)
    BY <1>2, <1>3, Cons
  <1> HIDE DEF m
  <1>5. /\ GoodStack(todo') /\ todo' # <<>> /\ Head(todo') = t /\ Tail(todo') = m
        /\ Elems(todo') = {t} \cup Elems(m)
    BY <1>1, <1>2, <1>4, Push
  <1>6. StackOK'
    BY <1>5 DEF StackOK, GoodStack
  <1>7. Elems(todo') = {t, u, v} \cup Elems(k) /\ Elems(Tail(todo')) = {u, v} \cup Elems(k)
    BY <1>3, <1>4, <1>5
  <1> QED BY <1>5, <1>6, <1>7 DEF k, Task

-----------------------------------------------------------------------------
(***************************************************************************)
(* What is pending                                                         *)
(***************************************************************************)

PlainOps == {"blockloop", "pageloop", "pages", "put", "low", "ack", "full"}

\* Under these tasks nothing is pending but parts of the write.
LEMMA PlainUnder ==
  ASSUME StackOK, todo # <<>>,
         Task.op \in PlainOps \cup {"merge", "mergecopy", "convert", "dldel", "append",
                                    "format", "mapwrite", "lost"}
  PROVE  /\ \A t \in Elems(Tail(todo)) : t.op \in PlainOps
         /\ \A op : op \notin PlainOps => Has(op) = {t \in {Task} : t.op = op}
  <1>1. Lies(Task, Tail(todo)) /\ Elems(todo) = {Task} \cup Elems(Tail(todo))
    BY Stack
  <1>2. Tail(todo) \in {<<>>, AckK, LowK, PutK, PagesK} \cup RetK \cup FullK
    BY <1>1 DEF Lies, PlainOps, T, UpdMts, MtSets
  <1>3. Elems(Tail(todo)) \subseteq Plain
    BY <1>2, PlainStacks DEF RetK
  <1>4. \A t \in Plain : t.op \in PlainOps
    BY DEF Plain, PlainOps
  <1>5. \A t \in Elems(Tail(todo)) : t.op \in PlainOps
    BY <1>3, <1>4
  <1> QED BY <1>1, <1>5 DEF Has

\* Under nftl_update_mt and the merge of the MapTab there is one deletion or one
\* block to retire.
LEMMA UpdUnder ==
  ASSUME StackOK, todo # <<>>, Task.op \in {"updmt", "mtappend", "mtmerge", "mtcopy", "mtset"}
  PROVE  /\ Tail(todo) \in UpdK
         /\ \A t \in Elems(Tail(todo)) : t.op \in PlainOps \cup {"dldel", "addgt"}
         /\ \A op : op \notin PlainOps \cup {"dldel", "addgt"} => Has(op) = {t \in {Task} : t.op = op}
         /\ Has("dldel") = {} \/ Has("addgt") = {}
  <1>1. Lies(Task, Tail(todo)) /\ Elems(todo) = {Task} \cup Elems(Tail(todo))
    BY Stack
  <1>2. Tail(todo) \in UpdK
    BY <1>1 DEF Lies, T, UpdMts, MtSets
  <1>3. \A r \in RetK \cup FullK : \A t \in Elems(r) : t.op \in PlainOps
    <2>1. \A r \in RetK \cup FullK : Elems(r) \subseteq Plain
      BY PlainStacks DEF RetK
    <2> QED BY <2>1 DEF Plain, PlainOps
  <1>4. \/ \A t \in Elems(Tail(todo)) : t.op \in PlainOps \cup {"dldel"}
        \/ \A t \in Elems(Tail(todo)) : t.op \in PlainOps \cup {"addgt"}
    <2>1. CASE \E i \in Nat, r \in RetK \cup FullK :
                 Elems(Tail(todo)) = {OnLog("dldel", i)} \cup Elems(r)
      BY <1>3, <2>1 DEF OnLog
    <2>2. CASE \E b \in Block : Elems(Tail(todo)) = {AddGt(<<b>>)}
      BY <2>2 DEF AddGt
    <2> QED BY <1>2, <2>1, <2>2, UpdStacks
  <1>5. "addgt" \notin PlainOps \cup {"dldel"} /\ "dldel" \notin PlainOps \cup {"addgt"}
    BY DEF PlainOps
  <1> QED BY <1>1, <1>2, <1>4, <1>5 DEF Has

-----------------------------------------------------------------------------
(***************************************************************************)
(* Who owns a block                                                        *)
(***************************************************************************)

\* A log goes.
LEMMA LogGoes ==
  ASSUME NEW L, NEW e \in L, e.pba # NoBlock,
         \A f \in L : f.pba = e.pba => f = e
  PROVE  LogBlocks(L \ {e}) = LogBlocks(L) \ {e.pba} /\ e.pba \in LogBlocks(L)
  BY DEF LogBlocks

\* A log comes.
LEMMA LogComes ==
  ASSUME NEW L, NEW e
  PROVE  LogBlocks(L \cup {e}) = LogBlocks(L) \cup ({e.pba} \ {NoBlock})
  BY DEF LogBlocks

\* An entry of the map changes.
LEMMA EntryChanges ==
  ASSUME NEW D \in [Lba -> BlockX], NEW l \in Lba, NEW b \in Block,
         \A k, m \in Lba : D[k] = D[m] /\ D[k] # NoBlock => k = m, NoBlock \notin Block
  PROVE  /\ DataBlocks([D EXCEPT ![l] = b]) = (DataBlocks(D) \ {D[l]}) \cup {b}
         /\ D[l] # NoBlock => D[l] \in DataBlocks(D)
         /\ [D EXCEPT ![l] = b] \in [Lba -> BlockX]
         /\ b \notin DataBlocks(D) =>
              \A k, m \in Lba : [D EXCEPT ![l] = b][k] = [D EXCEPT ![l] = b][m]
                                /\ [D EXCEPT ![l] = b][k] # NoBlock => k = m
  <1> DEFINE E == [D EXCEPT ![l] = b]
  <1>1. E \in [Lba -> BlockX] /\ E[l] = b /\ \A k \in Lba : k # l => E[k] = D[k]
    BY DEF BlockX
  <1>2. \A k \in Lba : k # l /\ D[k] # NoBlock => D[k] # D[l]
    OBVIOUS
  <1> HIDE DEF E
  <1>3. DataBlocks(E) \subseteq (DataBlocks(D) \ {D[l]}) \cup {b}
    BY <1>1, <1>2 DEF DataBlocks
  <1>4. ASSUME NEW x \in DataBlocks(D), x # D[l] PROVE x \in DataBlocks(E)
    <2>1. PICK k \in Lba : x = D[k] /\ x # NoBlock
      BY <1>4 DEF DataBlocks
    <2>2. k # l /\ E[k] = x
      BY <1>1, <1>4, <2>1
    <2> QED BY <2>1, <2>2 DEF DataBlocks
  <1>5. b \in DataBlocks(E)
    BY <1>1 DEF DataBlocks
  <1>6. DataBlocks(E) = (DataBlocks(D) \ {D[l]}) \cup {b}
    BY <1>3, <1>4, <1>5
  <1>7. ASSUME b \notin DataBlocks(D), NEW k \in Lba, NEW m \in Lba, E[k] = E[m], E[k] # NoBlock
        PROVE  k = m
    <2>1. \A n \in Lba : D[n] # b
      BY <1>7 DEF DataBlocks
    <2> QED BY <1>1, <1>7, <2>1
  <1> QED BY <1>1, <1>6, <1>7 DEF E, DataBlocks

\* The map blocks and the garbage trade blocks, and may get new ones.
LEMMA OwnedMap ==
  ASSUME NEW L, NEW D, NEW M, NEW G, NEW U, Owned(L, D, M, G, U),
         NEW M2, NEW G2, NEW B, B \cap U = {}, M2 \cap G2 = {}, M2 \cup G2 = M \cup G \cup B
  PROVE  Owned(L, D, M2, G2, U \cup B)
  BY DEF Owned

\* Garbage is given up.
LEMMA OwnedRetire ==
  ASSUME NEW L, NEW D, NEW M, NEW G, NEW U, Owned(L, D, M, G, U), NEW H, H \subseteq G
  PROVE  Owned(L, D, M, G \ H, U \ H)
  BY DEF Owned

\* A new log.
LEMMA OwnedNewLog ==
  ASSUME NEW L, NEW D, NEW M, NEW G, NEW U, Owned(L, D, M, G, U),
         NEW e, e.pba \notin U
  PROVE  Owned(L \cup {e}, D, M, G, U \cup ({e.pba} \ {NoBlock}))
  <1>1. LogBlocks(L \cup {e}) = LogBlocks(L) \cup ({e.pba} \ {NoBlock})
    BY LogComes
  <1>2. \A f \in L : f.pba # NoBlock => f.pba # e.pba
    BY DEF Owned, LogBlocks
  <1>3. \A f, h \in L \cup {e} : f.pba = h.pba /\ f.pba # NoBlock => f = h
    BY <1>2 DEF Owned
  <1> QED BY <1>1, <1>3 DEF Owned

\* A log goes, and its block with it; garbage gets it.
LEMMA OwnedLessLog ==
  ASSUME NEW L, NEW D, NEW M, NEW G, NEW U, Owned(L, D, M, G, U),
         NEW e \in L, e.pba # NoBlock
  PROVE  /\ Owned(L \ {e}, D, M, G, U \ {e.pba})
         /\ Owned(L \ {e}, D, M, G \cup {e.pba}, U)
         /\ e.pba \in U
  <1>1. LogBlocks(L \ {e}) = LogBlocks(L) \ {e.pba} /\ e.pba \in LogBlocks(L)
    <2>1. \A f \in L : f.pba = e.pba => f = e
      BY DEF Owned
    <2> QED BY <2>1, LogGoes
  <1>2. \A f, h \in L \ {e} : f.pba = h.pba /\ f.pba # NoBlock => f = h
    BY DEF Owned
  <1>3. e.pba \in U /\ e.pba \notin G \cup M \cup DataBlocks(D)
    BY <1>1 DEF Owned
  <1> DEFINE p == e.pba
             A == LogBlocks(L)
             B == DataBlocks(D)
             C == LogBlocks(L \ {e})
  <1>4. /\ \A k, l \in Lba : D[k] = D[l] /\ D[k] # NoBlock => k = l
        /\ A \cap B = {} /\ (A \cup B) \cap M = {} /\ (A \cup B \cup M) \cap G = {}
        /\ A \cup B \cup M \cup G = U /\ C = A \ {p} /\ p \in A
    BY <1>1 DEF Owned
  <1> HIDE DEF p, A, B, C
  <1>5. /\ C \cap B = {} /\ (C \cup B) \cap M = {} /\ (C \cup B \cup M) \cap G = {}
        /\ C \cup B \cup M \cup G = U \ {p}
        /\ (C \cup B \cup M) \cap (G \cup {p}) = {}
        /\ C \cup B \cup M \cup (G \cup {p}) = U
    BY <1>4
  <1>6. Owned(L \ {e}, D, M, G, U \ {e.pba})
    BY <1>2, <1>4, <1>5 DEF Owned, p, B, C
  <1>7. Owned(L \ {e}, D, M, G \cup {e.pba}, U)
    BY <1>2, <1>4, <1>5 DEF Owned, p, B, C
  <1> QED BY <1>3, <1>6, <1>7

\* An entry of the map gets a new block; the old one is garbage.
LEMMA OwnedEntry ==
  ASSUME NEW L, NEW D \in [Lba -> BlockX], NEW M, NEW G, NEW U, Owned(L, D, M, G, U),
         NEW l \in Lba, NEW b \in Block, b \notin U, NoBlock \notin Block
  PROVE  Owned(L, [D EXCEPT ![l] = b], M, G \cup ({D[l]} \ {NoBlock}), U \cup {b})
  <1>0. /\ \A k, m \in Lba : D[k] = D[m] /\ D[k] # NoBlock => k = m
        /\ b \notin DataBlocks(D)
    BY DEF Owned
  <1> DEFINE E == [D EXCEPT ![l] = b]
  <1>1. /\ DataBlocks(E) = (DataBlocks(D) \ {D[l]}) \cup {b}
        /\ D[l] # NoBlock => D[l] \in DataBlocks(D)
        /\ \A k, m \in Lba : E[k] = E[m] /\ E[k] # NoBlock => k = m
    BY <1>0, EntryChanges, ZenonT(40)
  <1>2. NoBlock \notin DataBlocks(D)
    BY DEF DataBlocks
  <1> HIDE DEF E
  <1>3. Owned(L, E, M, G \cup ({D[l]} \ {NoBlock}), U \cup {b})
    BY <1>0, <1>1, <1>2 DEF Owned
  <1> QED BY <1>1, <1>3 DEF E, Owned

-----------------------------------------------------------------------------
(***************************************************************************)
(* Numbers                                                                 *)
(***************************************************************************)

LEMMA Numbers ==
  /\ PagesPerBlock \in Nat /\ PagesPerBlock >= 2
  /\ 0 \in Page /\ PagesPerBlock - 1 \in Page /\ 0 # PagesPerBlock - 1
  /\ Page \subseteq Nat /\ NoPage \notin Page /\ NoPage \in Nat
  /\ NoBlock \notin Block /\ 0 \in Block /\ Block \subseteq Nat
  /\ NLba \in Nat \ {0}
  /\ \A n \in 1..PagesPerBlock : n - 1 \in Page /\ (n < PagesPerBlock => n \in Page)
  /\ BlankPage \in PageRec /\ NoMap \in [Lba -> BlockX]
  <1>1. /\ PagesPerBlock \in Nat /\ PagesPerBlock >= 2 /\ PagesPerBlock <= 128
        /\ NBlocks \in Nat \ {0} /\ NLba \in Nat \ {0} /\ NoBlock \notin Block
    BY PoolAssumption, NftlAssumption, Sizes
  <1>2. /\ 0 \in Page /\ PagesPerBlock - 1 \in Page /\ 0 # PagesPerBlock - 1
        /\ Page \subseteq Nat /\ NoPage \notin Page /\ NoPage \in Nat
        /\ 0 \in Block /\ Block \subseteq Nat
        /\ \A n \in 1..PagesPerBlock : n - 1 \in Page /\ (n < PagesPerBlock => n \in Page)
    BY <1>1 DEF Page, NoPage, Block
  <1>3. NoMap \in [Lba -> BlockX]
    BY DEF NoMap, BlockX
  <1>4. BlankPage \in PageRec
    BY <1>3 DEF BlankPage, PageRec, NoKey
  <1> QED BY <1>1, <1>2, <1>3, <1>4

\* The logical block and the offset of a logical page.
LEMMA Places ==
  ASSUME NEW lpa \in Lpa
  PROVE  /\ LbaOf(lpa) \in Lba /\ OfsOf(lpa) \in Page
         /\ lpa = LbaOf(lpa) * PagesPerBlock + OfsOf(lpa)
  <1> DEFINE P == PagesPerBlock
             q == lpa \div P
             r == lpa % P
  <1>1. lpa \in Int /\ P \in Nat \ {0} /\ NLba \in Nat \ {0} /\ lpa >= 0 /\ lpa < NLba * P
    BY Numbers DEF Lpa
  <1>2. r \in 0..(P - 1) /\ q \in Int /\ lpa = q * P + r
    BY <1>1, DivMod
  <1> HIDE DEF q, r, P
  <1>3. q >= 0
    <2>1. CASE q <= -1
      <3>1. (q + 1) * P <= 0 /\ (q + 1) * P = q * P + P
        BY <1>1, <1>2, <2>1
      <3> QED BY <1>1, <1>2, <3>1
    <2> QED BY <1>2, <2>1
  <1>4. q < NLba
    <2>1. CASE q >= NLba
      <3>1. (q - NLba) * P >= 0 /\ (q - NLba) * P = q * P - NLba * P
        BY <1>1, <1>2, <2>1
      <3>2. q * P \in Int /\ NLba * P \in Int
        BY <1>1, <1>2
      <3> QED BY <1>1, <1>2, <3>1, <3>2
    <2> QED BY <1>1, <1>2, <2>1
  <1>5. q \in Lba
    BY <1>1, <1>2, <1>3, <1>4 DEF Lba
  <1> QED BY <1>2, <1>5 DEF LbaOf, OfsOf, Page, q, r, P

-----------------------------------------------------------------------------
(***************************************************************************)
(* What the invariant says, and steps that leave the tables alone          *)
(***************************************************************************)

LEMMA Parts ==
  ASSUME NftlInv, ~Lost
  PROVE  /\ SoundInv /\ StackOK /\ GarbLists /\ BlankOK
         /\ flash \in [Block -> [Page -> PageRec]]
         /\ mt_cache \in [at : BlockX \X (Page \cup {NoPage}), map : [Lba -> BlockX]]
         /\ dl \in Seq(LogRec) /\ mt_pbas \in BlockX
         /\ mtl = <<>> \/ \E m \in MtlRec : mtl = <<m>>
         /\ FreshOK /\ OneLog /\ Tables /\ LogsOK /\ DataOK /\ MtOK /\ CacheOK
         /\ Indices /\ TaskOK /\ Ready /\ CacheHot
         /\ TypeOK /\ Shown /\ OneRole /\ NoBlock \notin Block
  BY SoundParts DEF NftlInv, TypesOK

\* Where the newest page of the mapping table is.
LEMMA MapPlace ==
  ASSUME mt_pbas \in Block, mtl = <<>> \/ \E m \in MtlRec : mtl = <<m>>
  PROVE  /\ PhysicalMt \in Block \X Page
         /\ mtl = <<>> => PhysicalMt = <<mt_pbas, 0>> /\ Len(mtl) = 0
         /\ mtl # <<>> => /\ PhysicalMt = <<mtl[1].pba, mtl[1].used - 1>> /\ Len(mtl) = 1
                          /\ mtl[1] \in MtlRec /\ mtl[1].pba \in Block
                          /\ mtl[1].used \in 1..PagesPerBlock
  <1>1. CASE mtl = <<>>
    BY <1>1, Numbers DEF PhysicalMt
  <1>2. ASSUME NEW m \in MtlRec, mtl = <<m>>
        PROVE  /\ PhysicalMt = <<m.pba, m.used - 1>> /\ Len(mtl) = 1 /\ mtl[1] = m
               /\ m.pba \in Block /\ m.used \in 1..PagesPerBlock /\ m.used - 1 \in Page
    <2>1. mtl # <<>> /\ mtl[1] = m /\ Len(mtl) = 1
      BY <1>2
    <2> QED BY <2>1, Numbers DEF PhysicalMt, MtlRec
  <1> QED BY <1>1, <1>2

\* The mapping table that the code looks at is the one on the flash.
LEMMA MapSeen ==
  ASSUME NftlInv, ~Lost, mt_pbas # NoBlock
  PROVE  /\ CurMap \in [Lba -> BlockX]
         /\ ~Closing => MapTable = CurMap /\ CurMap = FlashMap
         /\ MapTable \in [Lba -> BlockX]
         /\ PhysicalMt \in Block \X Page
  <1>0. /\ flash \in [Block -> [Page -> PageRec]] /\ mt_pbas \in Block
        /\ mtl = <<>> \/ \E m \in MtlRec : mtl = <<m>>
        /\ mt_cache.map \in [Lba -> BlockX] /\ StackOK /\ CacheOK
    BY Parts DEF BlockX
  <1>1. PhysicalMt \in Block \X Page
    BY <1>0, MapPlace
  <1>2. \A b \in Block, p \in Page : flash[b][p] \in PageRec /\ flash[b][p].map \in [Lba -> BlockX]
    BY <1>0 DEF PageRec
  <1>3. FlashMap \in [Lba -> BlockX] /\ MapTable \in [Lba -> BlockX]
    BY <1>0, <1>1, <1>2 DEF FlashMap, MapTable
  <1>4. CASE Closing
    <2>1. PICK t \in Has("mtset") : TRUE
      BY <1>4 DEF Closing
    <2>2. todo # <<>>
      BY <2>1, PlainStacks DEF Has
    <2>3. \A u \in Has("mtset") : u \in MtSets
      <3>1. \A u \in Under : u.op = "mtset" => u \in MtSets
        BY DEF Under, Plain, T, UpdMts
      <3>2. Task.op = "mtset" => Task \in MtSets
        BY <1>0, <2>2, Stack DEF Lies, T, UpdMts
      <3>3. Tail(todo) \in Seq(Under) /\ Elems(todo) = {Task} \cup Elems(Tail(todo))
        BY <1>0, <2>2, Stack
      <3>4. Elems(Tail(todo)) \subseteq Under
        BY <3>3 DEF Elems
      <3> QED BY <3>1, <3>2, <3>3, <3>4 DEF Has
    <2>4. NextMt \in Block
      BY <2>1, <2>3 DEF NextMt, MtSets
    <2> QED BY <1>1, <1>2, <1>3, <1>4, <2>4, Numbers DEF CurMap
  <1>5. CASE ~Closing
    <2>1. CurMap = FlashMap
      BY <1>5 DEF CurMap
    <2>2. MapTable = FlashMap
      BY <1>0, <1>5 DEF MapTable, CacheOK, FlashMap
    <2> QED BY <1>1, <1>3, <1>5, <2>1, <2>2
  <1> QED BY <1>4, <1>5

TableOps == {"dldel", "addgt", "updmt", "mtappend", "mtset", "convert", "lost", "format",
             "mapwrite"}

\* The tables with their pending changes depend on these things only.
LEMMA SameTables ==
  ASSUME UNCHANGED <<flash, mt_pbas, mtl, dl>>,
         \A op \in {"dldel", "addgt", "mtset", "convert", "lost"} : Has(op)' = Has(op)
  PROVE  /\ Closing' = Closing /\ NextMt' = NextMt /\ MtBlock' = MtBlock
         /\ MtBlocks' = MtBlocks /\ PhysicalMt' = PhysicalMt /\ FlashMap' = FlashMap
         /\ CurMap' = CurMap /\ Dying' = Dying /\ Logs' = Logs
         /\ Garb' = Garb /\ Turning' = Turning /\ Lost' = Lost
  <1>1. /\ Has("mtset")' = Has("mtset") /\ Has("dldel")' = Has("dldel")
        /\ Has("addgt")' = Has("addgt") /\ Has("convert")' = Has("convert")
        /\ Has("lost")' = Has("lost")
    OBVIOUS
  <1>2. Closing' = Closing /\ NextMt' = NextMt /\ Lost' = Lost
    BY <1>1 DEF Closing, NextMt, Lost
  <1>3. PhysicalMt' = PhysicalMt
    BY DEF PhysicalMt
  <1>4. FlashMap' = FlashMap
    BY <1>3 DEF FlashMap
  <1>5. CurMap' = CurMap
    BY <1>2, <1>4 DEF CurMap
  <1>8. Dying' = Dying /\ Garb' = Garb /\ Turning' = Turning
    BY <1>1 DEF Dying, Garb, Turning
  <1>9. Logs' = Logs
    BY <1>8 DEF Logs
  <1>10. MtBlock' = MtBlock /\ MtBlocks' = MtBlocks
    BY <1>2 DEF MtBlock, MtBlocks
  <1> QED BY <1>2, <1>3, <1>4, <1>5, <1>8, <1>9, <1>10

LEMMA SameView ==
  ASSUME UNCHANGED <<flash, mt_pbas, mtl, dl>>, \A op \in TableOps : Has(op)' = Has(op)
  PROVE  /\ Closing' = Closing /\ PhysicalMt' = PhysicalMt /\ Map' = Map
         /\ FreshOK => FreshOK'
  <1>1. \A op \in {"dldel", "addgt", "mtset", "convert", "lost"} : Has(op)' = Has(op)
    BY DEF TableOps
  <1>2. Closing' = Closing /\ PhysicalMt' = PhysicalMt /\ CurMap' = CurMap
    BY <1>1, SameTables
  <1>3. /\ Has("updmt")' = Has("updmt") /\ Has("mtappend")' = Has("mtappend")
        /\ Has("format")' = Has("format") /\ Has("mapwrite")' = Has("mapwrite")
    BY DEF TableOps
  <1>4. Updates' = Updates
    BY <1>3 DEF Updates
  <1>5. Map' = Map
    BY <1>2, <1>4 DEF Map
  <1>6. FreshOK => FreshOK'
    BY <1>3 DEF FreshOK
  <1> QED BY <1>2, <1>5, <1>6

\* What the pool may do in a step.
PoolStep == UNCHANGED poolVars \/ GoodStep \/ Restart

\* A block is taken.
LEMMA Taken ==
  ASSUME SoundInv, NEW b \in Block, Alloc(b)
  PROVE  /\ PoolStep /\ media' = media /\ media[b] = "blank" /\ Programmed' = Programmed
         /\ held' = held \cup {b}
  <1>1. blockstatus[b] /\ media' = media /\ held' = held \cup {b}
    BY FreeFact DEF Alloc
  <1>2. media[b] = "blank"
    BY <1>1, SoundParts DEF Shown
  <1> QED BY <1>1, <1>2 DEF PoolStep, GoodStep, Programmed

\* A block is programmed.
LEMMA Begun ==
  ASSUME SoundInv, NEW b, FirstProgram(b)
  PROVE  /\ PoolStep /\ b \in Block /\ b \in held /\ media[b] = "blank" /\ b \notin Programmed
         /\ media' = [media EXCEPT ![b] = "used"] /\ Programmed' = Programmed \cup {b}
         /\ b # NoBlock
  <1>1. b \in held /\ media[b] = "blank" /\ media' = [media EXCEPT ![b] = "used"] /\ held' = held
    BY DEF FirstProgram
  <1>2. held \subseteq Block /\ media \in [Block -> Media] /\ NoBlock \notin Block
    BY SoundParts DEF TypeOK
  <1>3. Programmed' = Programmed \cup {b}
    BY <1>1, <1>2 DEF Programmed
  <1> QED BY <1>1, <1>2, <1>3 DEF PoolStep, GoodStep, Programmed

\* The pool stays sound.
LEMMA Sound == SoundInv /\ PoolStep => SoundInv'
  BY SoundRestartStep DEF PoolStep

\* Every log and every Data block is where it was, with the pages it had.
TurningLogs == {dl[i] : i \in Turning}
Unmoved == /\ Logs' = Logs /\ Map' = Map /\ TurningLogs' = TurningLogs
           /\ \A x \in LogBlocks(Logs) \cup DataBlocks(Map) : flash'[x] = flash[x]

\* A step that changes the stack and looks at the mapping table, perhaps takes a
\* block, and leaves the tables alone.
LEMMA Steady ==
  ASSUME NftlInv, ~Lost, UNCHANGED <<flash, mt_pbas, mtl, dl>>,
         UNCHANGED poolVars \/ \E b \in Block : Alloc(b),
         \A op \in {"dldel", "addgt", "mtset", "convert", "lost"} : Has(op)' = Has(op),
         Map' = Map, FreshOK',
         UNCHANGED mt_cache \/ (FillCache /\ ~Closing /\ mt_pbas # NoBlock),
         StackOK', Indices', TaskOK', Ready', CacheHot'
  PROVE  NftlInv' /\ PoolStep /\ Unmoved
  <1>0. /\ SoundInv /\ GarbLists /\ BlankOK /\ TypesOK /\ FreshOK /\ OneLog /\ Tables /\ LogsOK
        /\ DataOK /\ MtOK /\ CacheOK
    BY Parts DEF NftlInv
  <1>1. PoolStep /\ media' = media /\ Programmed' = Programmed
    BY <1>0, Taken DEF PoolStep, poolVars, Programmed
  <1>2. SoundInv'
    BY <1>0, <1>1, Sound
  <1>3. /\ Closing' = Closing /\ MtBlock' = MtBlock
        /\ MtBlocks' = MtBlocks /\ PhysicalMt' = PhysicalMt /\ FlashMap' = FlashMap
        /\ Dying' = Dying /\ Logs' = Logs
        /\ Garb' = Garb /\ Turning' = Turning /\ Lost' = Lost
    BY SameTables
  <1>4. GarbLists' /\ BlankOK' /\ OneLog'
    <2>1. Has("addgt")' = Has("addgt")
      OBVIOUS
    <2>2. GarbLists'
      BY <1>0, <2>1 DEF GarbLists
    <2> QED BY <1>0, <1>1, <2>2 DEF BlankOK, OneLog
  <1>5. Tables'
    BY <1>0, <1>1, <1>3 DEF Tables
  <1>6. LogsOK' /\ DataOK' /\ MtOK'
    BY <1>0, <1>3 DEF LogsOK, DataOK, MtOK
  <1>7. CacheOK' /\ TypesOK'
    <2>1. CASE UNCHANGED mt_cache
      BY <1>0, <1>3, <2>1 DEF CacheOK, TypesOK
    <2>2. CASE FillCache /\ ~Closing /\ mt_pbas # NoBlock
      <3>1. /\ MapTable = FlashMap /\ MapTable \in [Lba -> BlockX] /\ PhysicalMt \in Block \X Page
        BY <2>2, MapSeen
      <3>2. mt_cache' = [at |-> PhysicalMt, map |-> MapTable]
        BY <2>2 DEF FillCache
      <3>3. mt_cache' \in [at : BlockX \X (Page \cup {NoPage}), map : [Lba -> BlockX]]
        <4>1. PhysicalMt \in BlockX \X (Page \cup {NoPage})
          BY <3>1 DEF BlockX
        <4> QED BY <3>1, <3>2, <4>1
      <3>4. CacheOK'
        BY <1>3, <2>2, <3>1, <3>2 DEF CacheOK
      <3> QED BY <1>0, <1>3, <3>3, <3>4 DEF TypesOK
    <2> QED BY <2>1, <2>2
  <1>8. Unmoved
    BY <1>3 DEF Unmoved, TurningLogs
  <1> QED BY <1>1, <1>2, <1>3, <1>4, <1>5, <1>6, <1>7, <1>8 DEF NftlInv

\* ... as all steps do that touch none of the tasks of the tables.
LEMMA Silent ==
  ASSUME NftlInv, ~Lost, UNCHANGED <<flash, mt_pbas, mtl, dl>>,
         UNCHANGED poolVars \/ \E b \in Block : Alloc(b),
         \A op \in TableOps : Has(op)' = Has(op),
         UNCHANGED mt_cache \/ (FillCache /\ ~Closing /\ mt_pbas # NoBlock),
         StackOK', Indices', TaskOK', Ready', CacheHot'
  PROVE  NftlInv' /\ PoolStep /\ Unmoved
  <1>1. \A op \in {"dldel", "addgt", "mtset", "convert", "lost"} : Has(op)' = Has(op)
    BY DEF TableOps
  <1>2. Map' = Map /\ FreshOK'
    BY SameView, Parts
  <1> QED BY <1>1, <1>2, Steady

-----------------------------------------------------------------------------
(***************************************************************************)
(* Steps of the stack                                                      *)
(***************************************************************************)

\* Between two calls nothing is pending and the mapping table exists.
LEMMA AtRest ==
  ASSUME NftlInv, todo = <<>>
  PROVE  /\ Elems(todo) = {} /\ (\A op : Has(op) = {}) /\ ~Lost /\ ~Closing /\ mt_pbas # NoBlock
         /\ Dying = {} /\ Garb = {} /\ Turning = {} /\ Updates = {} /\ Map = CurMap
  <1>1. Elems(todo) = {}
    BY PlainStacks
  <1>2. \A op : Has(op) = {}
    BY <1>1 DEF Has
  <1>3. ~Lost /\ ~Closing
    BY <1>2 DEF Lost, Closing
  <1>4. mt_pbas # NoBlock
    BY <1>2, <1>3, Parts DEF FreshOK
  <1> QED BY <1>1, <1>2, <1>3, <1>4 DEF Dying, Garb, Turning, Updates, Map

\* In these tasks nothing is pending but themselves.
LEMMA AtPlain ==
  ASSUME NftlInv, todo # <<>>,
         Task.op \in PlainOps \cup {"merge", "mergecopy", "convert", "append"}
  PROVE  /\ ~Lost /\ ~Closing /\ mt_pbas # NoBlock
         /\ \A op \in TableOps : op # Task.op => Has(op) = {}
         /\ Dying = {} /\ Garb = {} /\ Updates = {} /\ Map = CurMap
         /\ \A t \in Elems(Tail(todo)) : t.op \in PlainOps
  <1>1. StackOK
    BY DEF NftlInv
  <1>2. /\ \A t \in Elems(Tail(todo)) : t.op \in PlainOps
        /\ \A op : op \notin PlainOps => Has(op) = {t \in {Task} : t.op = op}
    BY <1>1, PlainUnder
  <1>3. \A op \in TableOps : op # Task.op => Has(op) = {}
    <2>1. \A op \in TableOps : op \notin PlainOps
      BY DEF TableOps, PlainOps
    <2> QED BY <1>2, <2>1
  <1>4. /\ Has("lost") = {} /\ Has("mtset") = {} /\ Has("format") = {} /\ Has("mapwrite") = {}
        /\ Has("dldel") = {} /\ Has("addgt") = {} /\ Has("updmt") = {} /\ Has("mtappend") = {}
    BY <1>3 DEF TableOps, PlainOps
  <1>5. ~Lost /\ ~Closing
    BY <1>4 DEF Lost, Closing
  <1>6. mt_pbas # NoBlock
    BY <1>4, <1>5, Parts DEF FreshOK
  <1> QED BY <1>2, <1>3, <1>4, <1>5, <1>6 DEF Dying, Garb, Updates, Map

\* Tasks that are not of the tables come and go.
LEMMA SameHas ==
  ASSUME NEW E, NEW A, NEW B, Elems(todo) = A \cup E, Elems(todo') = B \cup E,
         \A t \in A \cup B : t.op \notin TableOps
  PROVE  \A op \in TableOps : Has(op)' = Has(op)
  BY DEF Has

\* The write in progress goes on.
LEMMA ReadyOn ==
  ASSUME Ready, UNCHANGED <<wr, dl>>,
         T("ack") \in Elems(todo') => T("ack") \in Elems(todo),
         T("put") \in Elems(todo') => T("put") \in Elems(todo)
  PROVE  Ready'
  BY DEF Ready

\* nftl_find_lba_in_dl
LEMMA Found ==
  ASSUME OneLog, dl \in Seq(LogRec), NEW l
  PROVE  /\ DlIndex(l) = 0 => \A i \in 1..Len(dl) : dl[i].lba # l
         /\ DlIndex(l) # 0 => /\ DlIndex(l) \in 1..Len(dl) /\ dl[DlIndex(l)].lba = l
                              /\ dl[DlIndex(l)] \in LogRec
         /\ \A i \in 1..Len(dl) : dl[i].lba = l => DlIndex(l) = i
  <1> DEFINE I == {i \in 1..Len(dl) : dl[i].lba = l}
  <1>1. \A i, j \in I : i = j
    BY DEF OneLog
  <1>2. I # {} => (CHOOSE i \in I : \A j \in I : i <= j) \in I
    <2> SUFFICES ASSUME NEW i \in I PROVE \E j \in I : \A k \in I : j <= k
      OBVIOUS
    <2>1. \A k \in I : i <= k
      BY <1>1
    <2> QED BY <2>1
  <1>3. DlIndex(l) = IF I = {} THEN 0 ELSE CHOOSE i \in I : \A j \in I : i <= j
    BY DEF DlIndex
  <1>4. \A i \in I : i # 0 /\ dl[i] \in LogRec
    OBVIOUS
  <1> HIDE DEF I
  <1>5. /\ DlIndex(l) = 0 => I = {}
        /\ DlIndex(l) # 0 => DlIndex(l) \in I
        /\ \A i \in I : DlIndex(l) = i
    BY <1>1, <1>2, <1>3, <1>4
  <1> QED BY <1>4, <1>5 DEF I

\* The stack of a write.
LEMMA WriteStack ==
  /\ <<T("pages"), T("put"), T("low"), T("ack")>> = PagesK
  /\ <<T("blockloop")>> \o PagesK = BlockLoopK
  <1> DEFINE S == {T("pages"), T("put"), T("low"), T("ack")}
             q == <<T("pages"), T("put"), T("low")>>
             r == <<T("ack")>>
  <1>1. q \in Seq(S) /\ r \in Seq(S) /\ <<T("pages"), T("put"), T("low"), T("ack")>> \in Seq(S)
    OBVIOUS
  <1>2. q \o r = PagesK
    BY <1>1, Thrice DEF PagesK, PutK, LowK, AckK
  <1>3. q \o r = <<T("pages"), T("put"), T("low"), T("ack")>>
    <2>1. q \o r \in Seq(S) /\ Len(q \o r) = 4
      BY <1>1
    <2>2. /\ (q \o r)[1] = T("pages") /\ (q \o r)[2] = T("put")
          /\ (q \o r)[3] = T("low") /\ (q \o r)[4] = T("ack")
      BY <1>1
    <2>3. \A i \in 1..4 : (q \o r)[i] = <<T("pages"), T("put"), T("low"), T("ack")>>[i]
      BY <2>2
    <2> QED BY <1>1, <2>1, <2>3, SameSeq
  <1> QED BY <1>2, <1>3 DEF BlockLoopK

-----------------------------------------------------------------------------
(***************************************************************************)
(* Steps that leave the tables alone                                       *)
(***************************************************************************)

\* A set of numbers has a least one.
LEMMA Least ==
  ASSUME NEW S, S \subseteq Nat, S # {}
  PROVE  /\ (CHOOSE i \in S : \A j \in S : i <= j) \in S
         /\ \A j \in S : (CHOOSE i \in S : \A k \in S : i <= k) <= j
  <1> DEFINE R == OpToRel(<, Nat)
  <1>0. IsWellFoundedOn(R, Nat)
    BY NatLessThanWellFounded
  <1>1. \A i, j \in Nat : j < i => <<j, i>> \in R
    BY DEF OpToRel
  <1> HIDE DEF R
  <1>2. PICK i \in S : \A j \in S : ~(<<j, i>> \in R)
    BY <1>0, WFMin
  <1>3. \A j \in S : i <= j
    <2> TAKE j \in S
    <2>1. i \in Nat /\ j \in Nat /\ ~(j < i)
      BY <1>1, <1>2
    <2> QED BY <2>1
  <1> QED BY <1>3

\* A task is put on the stack.
LEMMA Pushed ==
  ASSUME todo \in Seq(Under), NEW t, Lies(t, todo), todo' = <<t>> \o todo
  PROVE  /\ StackOK' /\ todo' # <<>> /\ Task' = t /\ Tail(todo') = todo
         /\ Elems(todo') = {t} \cup Elems(todo)
  <1> DEFINE k == todo
  <1>1. k \in Seq(Under) /\ todo' = <<t>> \o k /\ Lies(t, k)
    OBVIOUS
  <1> HIDE DEF k
  <1>2. /\ GoodStack(todo') /\ todo' # <<>> /\ Head(todo') = t /\ Tail(todo') = k
        /\ Elems(todo') = {t} \cup Elems(k)
    BY <1>1, Push
  <1>3. StackOK'
    BY <1>2 DEF StackOK, GoodStack
  <1> QED BY <1>2, <1>3 DEF k, Task

\* Tasks that carry nothing about the tables.
LEMMA Calm ==
  ASSUME ~Closing', (todo # <<>> => Task.op \in PlainOps \cup {"merge", "convert", "updmt", "dldel"})'
  PROVE  TaskOK' /\ CacheHot'
  <1>1. \A op \in PlainOps \cup {"merge", "convert", "updmt", "dldel"} :
          op \notin {"mergecopy", "append", "mtappend", "move", "addgt", "mtmerge", "mtcopy"}
    BY DEF PlainOps
  <1> QED BY <1>1 DEF TaskOK, CacheHot

\* The task on top of a stack is one of its tasks.
LEMMA HeadIn ==
  ASSUME NEW S, NEW q \in Seq(S), q # <<>>
  PROVE  Head(q) \in Elems(q)
  <1>1. 1 \in 1..Len(q) /\ Head(q) = q[1]
    OBVIOUS
  <1> QED BY <1>1 DEF Elems

\* The task on top is done, and parts of the write are left.
LEMMA PoppedPlain ==
  ASSUME StackOK, todo # <<>>, Then(<<>>), ~Closing',
         \A t \in Elems(Tail(todo)) : t.op \in PlainOps
  PROVE  todo' = Tail(todo) /\ StackOK' /\ TaskOK' /\ CacheHot'
  <1>1. todo' = Tail(todo) /\ StackOK' /\ Tail(todo) \in Seq(Under)
    BY Popped, Stack
  <1>2. todo' # <<>> => Head(todo') \in Elems(Tail(todo))
    BY <1>1, HeadIn
  <1>3. (todo # <<>> => Task.op \in PlainOps)'
    BY <1>2 DEF Task
  <1>4. TaskOK' /\ CacheHot'
    BY <1>3, Calm
  <1> QED BY <1>1, <1>4

\* A task ends without a change of the tables.
LEMMA SilentPop ==
  ASSUME NftlInv, todo # <<>>, Task.op \in PlainOps \cup {"merge"}, Then(<<>>),
         UNCHANGED <<poolVars, flash, mt_pbas, mtl, dl, wr>>, UNCHANGED mt_cache \/ FillCache
  PROVE  NftlInv' /\ PoolStep /\ Unmoved
  <1>1. /\ ~Lost /\ ~Closing /\ mt_pbas # NoBlock /\ StackOK
        /\ \A t \in Elems(Tail(todo)) : t.op \in PlainOps
    BY AtPlain DEF NftlInv
  <1>2. Indices /\ Ready /\ Elems(todo) = {Task} \cup Elems(Tail(todo))
    BY <1>1, Parts, Stack
  <1>3. StackOK' /\ todo' = Tail(todo) /\ Elems(todo') = {} \cup Elems(Tail(todo))
    BY <1>1, Popped
  <1>4. \A op \in TableOps : Has(op)' = Has(op)
    <2>1. \A t \in {Task} \cup {} : t.op \notin TableOps
      BY DEF TableOps, PlainOps
    <2> QED BY <1>2, <1>3, <2>1, SameHas
  <1>5. ~Closing'
    <2>1. Has("mtset")' = Has("mtset")
      BY <1>4 DEF TableOps
    <2> QED BY <1>1, <2>1 DEF Closing
  <1>6. TaskOK' /\ CacheHot'
    BY <1>1, <1>5, PoppedPlain
  <1>7. Elems(todo') \subseteq Elems(todo)
    BY <1>2, <1>3
  <1>8. Indices' /\ Ready'
    BY <1>2, <1>7, ReadyOn DEF Indices
  <1> QED BY <1>1, <1>3, <1>4, <1>6, <1>8, Silent

\* It ends but for another task.
LEMMA SilentSwap ==
  ASSUME NftlInv, todo # <<>>, Task.op \in PlainOps \cup {"merge"},
         NEW t, t.op \in {"pageloop", "merge"}, Lies(t, Tail(todo)), Then(<<t>>),
         t.op = "merge" => t.i \in 1..Len(dl),
         UNCHANGED <<poolVars, flash, mt_pbas, mtl, dl, wr>>, UNCHANGED mt_cache \/ FillCache
  PROVE  NftlInv' /\ PoolStep /\ Unmoved
  <1>1. /\ ~Lost /\ ~Closing /\ mt_pbas # NoBlock /\ StackOK
    BY AtPlain DEF NftlInv
  <1>2. Indices /\ Ready /\ Elems(todo) = {Task} \cup Elems(Tail(todo))
    BY <1>1, Parts, Stack
  <1>3. StackOK' /\ Task' = t /\ Elems(todo') = {t} \cup Elems(Tail(todo))
    BY <1>1, Swapped
  <1>4. \A op \in TableOps : Has(op)' = Has(op)
    <2>1. \A u \in {Task} \cup {t} : u.op \notin TableOps
      BY DEF TableOps, PlainOps
    <2> QED BY <1>2, <1>3, <2>1, SameHas
  <1>5. ~Closing'
    <2>1. Has("mtset")' = Has("mtset")
      BY <1>4 DEF TableOps
    <2> QED BY <1>1, <2>1 DEF Closing
  <1>6. TaskOK' /\ CacheHot'
    <2>1. (todo # <<>> => Task.op \in PlainOps \cup {"merge"})'
      BY <1>3 DEF PlainOps
    <2> QED BY <1>5, <2>1, Calm
  <1>7. Indices'
    BY <1>2, <1>3 DEF Indices
  <1>8. Ready'
    <2>1. t # T("ack") /\ t # T("put")
      BY DEF T
    <2> QED BY <1>2, <1>3, <2>1, ReadyOn
  <1> QED BY <1>1, <1>3, <1>4, <1>6, <1>7, <1>8, Silent

\* What lies under a plain task.
LEMMA Unders ==
  ASSUME StackOK, todo # <<>>
  PROVE  /\ Task.op = "pages" => Tail(todo) = PutK
         /\ Task.op = "blockloop" => todo = BlockLoopK
         /\ Task.op = "pageloop" => todo = PageLoopK
         /\ Task.op = "low" => todo = LowK /\ Tail(todo) = AckK
         /\ Task.op = "full" => Tail(todo) = LowK /\ Task.i \in Nat
         /\ Task.op = "put" => Tail(todo) = LowK /\ Task = T("put")
         /\ Task.op = "append" => Tail(todo) = LowK /\ Task.blk \in Block
         /\ Task.op = "ack" => todo = AckK
         /\ Task.op = "merge" => todo \in MergeK /\ Tail(todo) \in RetK
         /\ Task.op = "convert" => todo \in ConvertK /\ Tail(todo) \in FullK
         /\ Task.op = "mergecopy" => /\ Tail(todo) \in RetK /\ Task.blk \in Block
                                     /\ Task.old \in BlockX
         /\ Task.op = "dldel" => Tail(todo) \in RetK \cup FullK
         /\ Task.op = "format" => Tail(todo) = <<>>
         /\ Task.op = "mapwrite" => Tail(todo) = <<>> /\ Task.blk \in Block
         /\ Task.op = "lost" => Tail(todo) = <<>>
  <1> DEFINE k == Tail(todo)
  <1>1. Lies(Task, k) /\ todo = <<Task>> \o k
    BY Stack DEF StackOK, GoodStack, Task
  <1> HIDE DEF k
  <1>2. /\ Task.op = "pages" => k = PutK
        /\ Task.op = "blockloop" => Task = T("blockloop") /\ k = PagesK
        /\ Task.op = "pageloop" => Task = T("pageloop") /\ k = PutK
        /\ Task.op = "low" => Task = T("low") /\ k = AckK
        /\ Task.op = "full" => k = LowK /\ Task.i \in Nat
    BY <1>1 DEF Lies, T, UpdMts, MtSets
  <1>3. /\ Task.op = "put" => k = LowK /\ Task = T("put")
        /\ Task.op = "append" => k = LowK /\ Task.blk \in Block
        /\ Task.op = "ack" => Task = T("ack") /\ k = <<>>
        /\ Task.op = "dldel" => k \in RetK \cup FullK
    BY <1>1 DEF Lies, T, UpdMts, MtSets
  <1>4. /\ Task.op = "merge" => Task = OnLog("merge", Task.i) /\ Task.i \in Nat /\ k \in RetK
        /\ Task.op = "convert" => Task = OnLog("convert", Task.i) /\ Task.i \in Nat /\ k \in FullK
        /\ Task.op = "mergecopy" => k \in RetK /\ Task.blk \in Block /\ Task.old \in BlockX
    BY <1>1 DEF Lies, T, UpdMts, MtSets, OnLog
  <1>5. /\ Task.op = "format" => k = <<>>
        /\ Task.op = "mapwrite" => k = <<>> /\ Task.blk \in Block
        /\ Task.op = "lost" => k = <<>>
    BY <1>1 DEF Lies, T, UpdMts, MtSets
  <1>6. Task.op = "ack" => todo = AckK
    <2>1. <<T("ack")>> \o <<>> = <<T("ack")>>
      <3>1. <<T("ack")>> \in Seq({T("ack")})
        OBVIOUS
      <3> QED BY <3>1
    <2> QED BY <1>1, <1>3, <2>1 DEF AckK
  <1>7. Task.op = "merge" => todo \in MergeK
    BY <1>1, <1>4 DEF MergeK
  <1>8. Task.op = "convert" => todo \in ConvertK
    BY <1>1, <1>4 DEF ConvertK
  <1> QED BY <1>1, <1>2, <1>3, <1>4, <1>5, <1>6, <1>7, <1>8 DEF k, BlockLoopK, PageLoopK, LowK

LEMMA ManyPagesOK == NftlInv /\ ManyPages => NftlInv' /\ PoolStep /\ Unmoved
  <1> SUFFICES ASSUME NftlInv, ManyPages PROVE NftlInv' /\ PoolStep /\ Unmoved
    OBVIOUS
  <1>1. /\ todo # <<>> /\ Task.op = "pages" /\ Task.op \in PlainOps /\ StackOK
        /\ UNCHANGED <<poolVars, flash, mt_pbas, mtl, dl, wr>> /\ UNCHANGED mt_cache
        /\ Then(When(DlPages >= DL_PAGES_HIGH, T("pageloop")))
    BY DEF ManyPages, Top, PlainOps, NftlInv
  <1>2. Lies(T("pageloop"), Tail(todo)) /\ T("pageloop").op = "pageloop"
    BY <1>1, Unders DEF Lies, T
  <1>3. CASE DlPages >= DL_PAGES_HIGH
    <2>1. Then(<<T("pageloop")>>)
      BY <1>1, <1>3 DEF When
    <2> QED BY <1>1, <1>2, <2>1, SilentSwap
  <1>4. CASE ~(DlPages >= DL_PAGES_HIGH)
    <2>1. Then(<<>>)
      BY <1>1, <1>4 DEF When
    <2> QED BY <1>1, <2>1, SilentPop
  <1> QED BY <1>3, <1>4

\* The log that is merged is in the table.
LEMMA MergeFirstIn ==
  ASSUME dl \in Seq(LogRec), Mergeable # {}
  PROVE  MergeFirst \in 1..Len(dl) /\ MergeFirst \in Nat
  <1>1. Mergeable \subseteq 1..Len(dl) /\ Len(dl) \in Nat
    BY DEF Mergeable
  <1>2. Mergeable \subseteq Nat
    BY <1>1
  <1>3. MergeFirst \in Mergeable
    BY <1>2, Least DEF MergeFirst
  <1> QED BY <1>1, <1>3

LEMMA FullLogOK == NftlInv /\ FullLog => NftlInv' /\ PoolStep /\ Unmoved
  <1> SUFFICES ASSUME NftlInv, FullLog PROVE NftlInv' /\ PoolStep /\ Unmoved
    OBVIOUS
  <1> DEFINE c == Task.i <= Len(dl) /\ dl[Task.i].used = PagesPerBlock
             t == OnLog("merge", Task.i)
  <1>1. /\ todo # <<>> /\ Task.op = "full" /\ Task.op \in PlainOps /\ StackOK
        /\ UNCHANGED <<poolVars, flash, mt_pbas, mtl, dl, wr>> /\ UNCHANGED mt_cache
        /\ Then(When(c, t))
    BY DEF FullLog, Top, PlainOps, NftlInv
  <1>2. ~Lost
    BY <1>1, AtPlain
  <1>3. Indices /\ dl \in Seq(LogRec) /\ Task \in Elems(todo)
    BY <1>1, <1>2, Parts, Stack
  <1>4. Tail(todo) = LowK /\ Task.i \in Nat /\ Task.i >= 1
    BY <1>1, <1>3, Unders DEF Indices
  <1>5. c => t.i \in 1..Len(dl)
    BY <1>3, <1>4 DEF OnLog
  <1>6. Lies(t, Tail(todo)) /\ t.op = "merge"
    <2>1. t \in [op : {"merge"}, i : Nat] /\ LowK \in RetK
      BY <1>4 DEF OnLog, RetK
    <2> QED BY <1>4, <2>1 DEF Lies
  <1> HIDE DEF c, t
  <1>7. CASE c
    <2>1. Then(<<t>>)
      BY <1>1, <1>7 DEF When
    <2> QED BY <1>1, <1>5, <1>6, <1>7, <2>1, SilentSwap
  <1>8. CASE ~c
    <2>1. Then(<<>>)
      BY <1>1, <1>8 DEF When
    <2> QED BY <1>1, <2>1, SilentPop
  <1> QED BY <1>7, <1>8

LEMMA LowSpaceOK == NftlInv /\ LowSpace => NftlInv' /\ PoolStep /\ Unmoved
  <1> SUFFICES ASSUME NftlInv, LowSpace PROVE NftlInv' /\ PoolStep /\ Unmoved
    OBVIOUS
  <1> DEFINE low == free_blkcnt <= MINI_FREE_BLOCK /\ dl # <<>>
             c == low /\ Mergeable # {}
             t == OnLog("merge", MergeFirst)
  <1>1. /\ todo # <<>> /\ Task.op = "low" /\ Task.op \in PlainOps /\ StackOK
        /\ UNCHANGED <<poolVars, flash, mt_pbas, mtl, dl, wr>> /\ (UNCHANGED mt_cache \/ FillCache)
        /\ Then(When(c, t))
    BY DEF LowSpace, Top, PlainOps, NftlInv
  <1>2. ~Lost
    BY <1>1, AtPlain
  <1>3. dl \in Seq(LogRec)
    BY <1>2, Parts
  <1>4. Tail(todo) = AckK
    BY <1>1, Unders
  <1>5. c => t.i \in 1..Len(dl) /\ MergeFirst \in Nat
    BY <1>3, MergeFirstIn DEF OnLog
  <1>6. c => Lies(t, Tail(todo)) /\ t.op = "merge"
    <2>1. c => t \in [op : {"merge"}, i : Nat] /\ AckK \in RetK /\ t.op = "merge"
      BY <1>5 DEF OnLog, RetK
    <2> QED BY <1>4, <2>1 DEF Lies
  <1> HIDE DEF c, t
  <1>7. CASE c
    <2>1. Then(<<t>>)
      BY <1>1, <1>7 DEF When
    <2> QED BY <1>1, <1>5, <1>6, <1>7, <2>1, SilentSwap
  <1>8. CASE ~c
    <2>1. Then(<<>>)
      BY <1>1, <1>8 DEF When
    <2> QED BY <1>1, <2>1, SilentPop
  <1> QED BY <1>7, <1>8

LEMMA MergeLoopOK == NftlInv /\ MergeLoop => NftlInv' /\ PoolStep /\ Unmoved
  <1> SUFFICES ASSUME NftlInv, MergeLoop PROVE NftlInv' /\ PoolStep /\ Unmoved
    OBVIOUS
  <1> DEFINE more == IF Task.op = "blockloop" THEN Len(dl) > DL_BLOCKS_LOW
                                              ELSE DlPages > DL_PAGES_LOW
             c == more /\ Mergeable # {}
             t == OnLog("merge", MergeFirst)
  <1>1. /\ todo # <<>> /\ Task.op \in {"blockloop", "pageloop"} /\ Task.op \in PlainOps
        /\ UNCHANGED <<poolVars, flash, mt_pbas, mtl, dl, wr>> /\ (UNCHANGED mt_cache \/ FillCache)
        /\ todo' = IF c THEN <<t>> \o todo ELSE Tail(todo)
    BY DEF MergeLoop, Top, PlainOps
  <1>2. /\ ~Lost /\ ~Closing /\ mt_pbas # NoBlock
        /\ \A u \in Elems(Tail(todo)) : u.op \in PlainOps
    BY <1>1, AtPlain
  <1>3. dl \in Seq(LogRec) /\ Indices /\ Ready /\ StackOK
    BY <1>2, Parts
  <1>4. CASE c
    <2>1. todo \in RetK /\ todo \in MoveK
      BY <1>1, <1>3, Unders DEF RetK, MoveK
    <2>2. t.i \in 1..Len(dl) /\ t \in [op : {"merge"}, i : Nat] /\ t.op = "merge"
      BY <1>3, <1>4, MergeFirstIn DEF OnLog
    <2>3. Lies(t, todo) /\ todo \in Seq(Under)
      BY <2>1, <2>2, MoveStacks DEF Lies
    <2>4. todo' = <<t>> \o todo
      BY <1>1, <1>4
    <2> HIDE DEF t
    <2>5. StackOK' /\ Task' = t /\ Elems(todo') = {t} \cup Elems(todo)
      BY <2>3, <2>4, Pushed
    <2>6. \A op \in TableOps : Has(op)' = Has(op)
      <3>1. \A u \in {} \cup {t} : u.op \notin TableOps
        BY <2>2 DEF TableOps
      <3>2. Elems(todo) = {} \cup Elems(todo)
        OBVIOUS
      <3> QED BY <2>5, <3>1, <3>2, SameHas
    <2>7. ~Closing'
      <3>1. Has("mtset")' = Has("mtset")
        BY <2>6 DEF TableOps
      <3> QED BY <1>2, <3>1 DEF Closing
    <2>8. TaskOK' /\ CacheHot'
      <3>1. (todo # <<>> => Task.op \in PlainOps \cup {"merge"})'
        BY <2>2, <2>5 DEF PlainOps
      <3> QED BY <2>7, <3>1, Calm
    <2>9. Indices' /\ Ready'
      <3>1. t # T("ack") /\ t # T("put")
        BY <2>2 DEF T
      <3>2. Ready'
        BY <1>1, <1>3, <2>5, <3>1, ReadyOn
      <3> QED BY <1>1, <1>3, <2>2, <2>5, <3>2 DEF Indices
    <2> QED BY <1>1, <1>2, <2>5, <2>6, <2>8, <2>9, Silent
  <1>5. CASE ~c
    <2>1. Tail(todo) \in Seq(Under)
      BY <1>1, <1>3, Stack
    <2>2. Then(<<>>)
      BY <1>1, <1>5, <2>1 DEF Then
    <2> QED BY <1>1, <2>2, SilentPop
  <1> QED BY <1>4, <1>5

\* A call ends.
LEMMA Ends ==
  ASSUME NftlInv, todo # <<>>, Task.op \in {"ack", "merge", "mergecopy"}, todo' = <<>>,
         UNCHANGED <<poolVars, flash, mt_pbas, mtl, dl>>, UNCHANGED mt_cache \/ FillCache
  PROVE  NftlInv' /\ PoolStep /\ Unmoved
  <1>1. /\ ~Lost /\ ~Closing /\ mt_pbas # NoBlock /\ StackOK
        /\ \A op \in TableOps : op # Task.op => Has(op) = {}
    BY AtPlain DEF NftlInv, PlainOps
  <1>2. Elems(todo') = {}
    BY PlainStacks
  <1>3. \A op \in TableOps : Has(op)' = Has(op)
    <2>1. \A op \in TableOps : Has(op) = {}
      BY <1>1 DEF TableOps
    <2> QED BY <1>2, <2>1 DEF Has
  <1>4. ~Closing'
    BY <1>2 DEF Closing, Has
  <1>5. TaskOK' /\ CacheHot' /\ StackOK'
    BY <1>4, Calm DEF StackOK, GoodStack
  <1>6. Indices' /\ Ready'
    BY <1>2 DEF Indices, Ready
  <1> QED BY <1>1, <1>3, <1>5, <1>6, Silent

LEMMA WriteReturnsOK == NftlInv /\ WriteReturns => NftlInv' /\ PoolStep /\ Unmoved
  BY Ends DEF WriteReturns, Top

\* The tasks of a write that begins.
LEMMA WriteTasks ==
  \A k \in {AckK, LowK, PutK, PagesK, PageLoopK, BlockLoopK} :
    \A t \in Elems(k) : t.op \in PlainOps \ {"full"}
  <1> DEFINE S == {T("ack"), T("low"), T("put"), T("pages"), T("pageloop"), T("blockloop")}
  <1>0. \A k \in {<<>>, AckK, LowK, PutK, PagesK} : k \in Seq(Plain)
    BY PlainStacks
  <1>1. Elems(AckK) \subseteq S
    BY DEF AckK, Elems
  <1>2. Elems(LowK) \subseteq S
    BY <1>0, <1>1, Cons DEF LowK
  <1>3. Elems(PutK) \subseteq S
    BY <1>0, <1>2, Cons DEF PutK
  <1>4. Elems(PagesK) \subseteq S
    BY <1>0, <1>3, Cons DEF PagesK
  <1>5. Elems(PageLoopK) \subseteq S
    BY <1>0, <1>3, Cons DEF PageLoopK
  <1>6. Elems(BlockLoopK) \subseteq S
    BY <1>0, <1>4, Cons DEF BlockLoopK
  <1>7. \A t \in S : t.op \in PlainOps \ {"full"}
    BY DEF T, PlainOps
  <1> QED BY <1>1, <1>2, <1>3, <1>4, <1>5, <1>6, <1>7

\* Every log takes another page.
Writable == \A i \in 1..Len(dl) : dl[i].pba # NoBlock /\ dl[i].used < PagesPerBlock

LEMMA WriteOK ==
  ASSUME NftlInv, Writable, NEW lpa \in Lpa, NEW d \in HostWrites(lpa), WriteLogicPage(lpa, d)
  PROVE  NftlInv' /\ PoolStep /\ Unmoved
  <1>1. /\ todo = <<>> /\ wr' = <<lpa, d>>
        /\ UNCHANGED <<poolVars, flash, mt_pbas, mtl, mt_cache, dl>>
        /\ todo' = When(Len(dl) >= DL_BLOCKS_HIGH, T("blockloop"))
                   \o <<T("pages"), T("put"), T("low"), T("ack")>>
    BY DEF WriteLogicPage, Idle
  <1>2. /\ Elems(todo) = {} /\ (\A op : Has(op) = {}) /\ ~Lost /\ ~Closing /\ mt_pbas # NoBlock
    BY <1>1, AtRest
  <1>3. todo' \in {PagesK, BlockLoopK}
    <2>1. PagesK \in Seq(Plain)
      BY PlainStacks
    <2>2. <<>> \o PagesK = PagesK
      BY <2>1
    <2> QED BY <1>1, <2>2, WriteStack DEF When
  <1>4. StackOK' /\ todo' \in Seq(Plain)
    <2>1. GoodStack(todo') /\ todo' \in Seq(Plain)
      BY <1>3, PlainGood, PlainStacks
    <2> QED BY <2>1 DEF StackOK, GoodStack
  <1>5. \A t \in Elems(todo') : t.op \in PlainOps \ {"full"}
    BY <1>3, WriteTasks
  <1>6. \A op \in TableOps : Has(op)' = Has(op)
    <2>1. \A t \in {} \cup Elems(todo') : t.op \notin TableOps
      BY <1>5 DEF PlainOps, TableOps
    <2>2. Elems(todo) = {} \cup {} /\ Elems(todo') = Elems(todo') \cup {}
      BY <1>2
    <2> QED BY <2>1, <2>2, SameHas
  <1>7. ~Closing'
    <2>1. Has("mtset")' = Has("mtset")
      BY <1>6 DEF TableOps
    <2> QED BY <1>2, <2>1 DEF Closing
  <1>8. TaskOK' /\ CacheHot'
    <2>1. todo' # <<>> => Head(todo') \in Elems(todo')
      BY <1>4, HeadIn
    <2>2. (todo # <<>> => Task.op \in PlainOps)'
      BY <1>5, <2>1 DEF Task
    <2> QED BY <1>7, <2>2, Calm
  <1>9. Indices'
    BY <1>5 DEF Indices, PlainOps
  <1>10. Ready'
    <2>1. wr' \in Lpa \X Data /\ wr'[1] = lpa
      BY <1>1, NftlAssumption DEF Lpa
    <2> QED BY <1>1, <2>1 DEF Ready, Writable
  <1> QED BY <1>1, <1>2, <1>4, <1>6, <1>8, <1>9, <1>10, Silent

LEMMA ReadOK ==
  ASSUME NftlInv, NEW lpa \in Lpa, Read(lpa)
  PROVE  NftlInv' /\ PoolStep /\ Unmoved
  <1>1. /\ todo = <<>> /\ FillCache /\ UNCHANGED <<poolVars, flash, mt_pbas, mtl, dl, todo, wr>>
    BY DEF Read, Idle
  <1>2. ~Lost /\ ~Closing /\ mt_pbas # NoBlock
    BY <1>1, AtRest
  <1>3. \A op \in TableOps : Has(op)' = Has(op)
    BY <1>1 DEF Has
  <1>4. StackOK' /\ Indices' /\ Ready'
    BY <1>1, <1>2, Parts DEF StackOK, Indices, Ready
  <1>5. TaskOK' /\ CacheHot'
    <2>1. ~Closing'
      BY <1>1, <1>2 DEF Closing, Has
    <2> QED BY <1>1, <2>1, Calm
  <1> QED BY <1>1, <1>2, <1>3, <1>4, <1>5, Silent

\* A block is taken for a move.
LEMMA StartMoveOK ==
  ASSUME NftlInv, ~Lost, ~Closing, mt_pbas # NoBlock, NEW what, NEW src \in Block,
         NEW b \in Block, StartMove(what, src, b), UNCHANGED mt_cache \/ FillCache,
         \/ todo = <<>> /\ what \in [op : {"log"}, i : Nat] \cup [op : {"data"}, lba : Lba]
         \/ todo \in MoveK /\ what \in {T("mt"), T("mtl")} /\ FillCache
            /\ src = PhysicalMt[1],
         what.op = "log" => what.i \in 1..Len(dl) /\ dl[what.i].pba = src,
         what.op = "data" => Map[what.lba] = src,
         what.op = "mtl" => mtl # <<>>,
         what.op = "mt" => mtl = <<>>
  PROVE  NftlInv' /\ PoolStep /\ Unmoved
  <1> DEFINE t == [op |-> "move", what |-> what, src |-> src, blk |-> b]
  <1>0. /\ UNCHANGED <<flash, mt_pbas, mtl, dl, wr>> /\ Alloc(b) /\ todo' = <<t>> \o todo
        /\ Indices /\ Ready /\ StackOK
    BY Parts DEF StartMove
  <1>1. Lies(t, todo) /\ todo \in Seq(Under) /\ t.op = "move" /\ t.what = what /\ t.src = src
    <2>0. t.op = "move" /\ t.what = what /\ t.src = src
      OBVIOUS
    <2>1. CASE todo = <<>> /\ what \in [op : {"log"}, i : Nat] \cup [op : {"data"}, lba : Lba]
      BY <2>0, <2>1 DEF Lies
    <2>2. CASE todo \in MoveK /\ what \in {T("mt"), T("mtl")}
      BY <2>0, <2>2, MoveStacks DEF Lies
    <2> QED BY <2>1, <2>2
  <1> HIDE DEF t
  <1>2. StackOK' /\ todo' # <<>> /\ Task' = t /\ Elems(todo') = {t} \cup Elems(todo)
    BY <1>0, <1>1, Pushed
  <1>3. \A op \in TableOps : Has(op)' = Has(op)
    <2>1. \A u \in {} \cup {t} : u.op \notin TableOps
      BY <1>1 DEF TableOps
    <2>2. Elems(todo) = {} \cup Elems(todo)
      OBVIOUS
    <2> QED BY <1>2, <2>1, <2>2, SameHas
  <1>4. ~Closing' /\ Map' = Map /\ PhysicalMt' = PhysicalMt
    BY <1>0, <1>3, SameView
  <1>5. Indices' /\ Ready'
    <2>1. t # T("ack") /\ t # T("put")
      BY <1>1 DEF T
    <2>2. Ready'
      BY <1>0, <1>2, <2>1, ReadyOn
    <2> QED BY <1>0, <1>1, <1>2, <2>2 DEF Indices
  <1>6. TaskOK'
    <2>1. what.op = "mtl" => mtl[1].pba = src
      <3>1. CASE what.op = "mtl"
        <4>1. src = PhysicalMt[1]
          BY <3>1
        <4>2. mtl # <<>>
          BY <3>1
        <4> QED BY <4>1, <4>2 DEF PhysicalMt
      <3> QED BY <3>1
    <2>2. what.op = "mt" => mt_pbas = src
      <3>1. CASE what.op = "mt"
        <4>1. src = PhysicalMt[1]
          BY <3>1
        <4>2. mtl = <<>>
          BY <3>1
        <4> QED BY <4>1, <4>2 DEF PhysicalMt
      <3> QED BY <3>1
    <2> QED BY <1>0, <1>1, <1>2, <1>4, <2>1, <2>2 DEF TaskOK
  <1>7. CacheHot'
    <2>1. what.op \in {"mt", "mtl"} => mt_cache'.at = PhysicalMt
      BY DEF FillCache
    <2> QED BY <1>1, <1>2, <1>4, <2>1 DEF CacheHot
  <1> QED BY <1>0, <1>2, <1>3, <1>5, <1>6, <1>7, Silent

LEMMA MoveLogOK ==
  ASSUME NftlInv, NEW lpa \in Lpa, NEW b \in Block, MoveLog(lpa, b)
  PROVE  NftlInv' /\ PoolStep /\ Unmoved
  <1> DEFINE i == DlIndex(LbaOf(lpa))
             what == OnLog("log", i)
             src == dl[i].pba
  <1>1. /\ todo = <<>> /\ UNCHANGED mt_cache /\ i # 0
        /\ dl[i].pba # NoBlock /\ StartMove(what, src, b)
    BY DEF MoveLog, Idle, InLog
  <1>2. ~Lost /\ ~Closing /\ mt_pbas # NoBlock
    BY <1>1, AtRest
  <1>3. i \in 1..Len(dl) /\ dl[i] \in LogRec /\ Len(dl) \in Nat
    BY <1>1, <1>2, Parts, Found
  <1>4. src \in Block /\ what \in [op : {"log"}, i : Nat] /\ what.op = "log" /\ what.i = i
    BY <1>1, <1>3 DEF LogRec, BlockX, OnLog
  <1> HIDE DEF i, what, src
  <1>5. dl[what.i].pba = src
    BY <1>4 DEF src
  <1> QED BY <1>1, <1>2, <1>3, <1>4, <1>5, StartMoveOK

LEMMA MoveDataOK ==
  ASSUME NftlInv, NEW lpa \in Lpa, NEW b \in Block, MoveData(lpa, b)
  PROVE  NftlInv' /\ PoolStep /\ Unmoved
  <1> DEFINE l == LbaOf(lpa)
             what == [op |-> "data", lba |-> l]
             src == MapTable[l]
  <1>1. todo = <<>> /\ FillCache /\ src # NoBlock /\ StartMove(what, src, b)
    BY DEF MoveData, Idle
  <1>2. ~Lost /\ ~Closing /\ mt_pbas # NoBlock /\ Map = CurMap
    BY <1>1, AtRest
  <1>3. l \in Lba /\ MapTable = CurMap /\ MapTable \in [Lba -> BlockX]
    BY <1>2, Places, MapSeen
  <1>4. /\ src \in Block /\ what \in [op : {"data"}, lba : Lba] /\ what.op = "data"
        /\ Map[what.lba] = src
    BY <1>1, <1>2, <1>3 DEF BlockX
  <1> HIDE DEF what, src
  <1> QED BY <1>1, <1>2, <1>4, StartMoveOK

LEMMA MoveMapOK ==
  ASSUME NftlInv, NEW b \in Block, MoveMap(b)
  PROVE  NftlInv' /\ PoolStep /\ Unmoved
  <1> DEFINE what == T(IF mtl # <<>> THEN "mtl" ELSE "mt")
             src == PhysicalMt[1]
  <1>1. /\ FillCache /\ src # NoBlock /\ StartMove(what, src, b)
        /\ todo = <<>> \/ (todo # <<>> /\
             Task.op \in {"blockloop", "pageloop", "merge", "convert", "low"})
    BY DEF MoveMap, Idle, Top
  <1>2. ~Lost /\ ~Closing /\ mt_pbas # NoBlock /\ todo \in MoveK
    <2>1. CASE todo = <<>>
      BY <2>1, AtRest DEF MoveK
    <2>2. CASE todo # <<>>
      <3>1. Task.op \in PlainOps \cup {"merge", "mergecopy", "convert", "append"}
        BY <1>1, <2>2 DEF PlainOps
      <3>2. ~Lost /\ ~Closing /\ mt_pbas # NoBlock /\ StackOK
        BY <2>2, <3>1, AtPlain DEF NftlInv
      <3>3. todo \in MoveK
        BY <1>1, <2>2, <3>2, Unders DEF MoveK
      <3> QED BY <3>2, <3>3
    <2> QED BY <2>1, <2>2
  <1>3. src \in Block
    BY <1>2, MapSeen
  <1>4. /\ what \in {T("mt"), T("mtl")} /\ what.op # "log" /\ what.op # "data"
        /\ what.op = "mtl" => mtl # <<>>
        /\ what.op = "mt" => mtl = <<>>
    BY DEF T
  <1> HIDE DEF what
  <1> QED BY <1>1, <1>2, <1>3, <1>4, StartMoveOK

\* A block is taken, and the task knows it.
LEMMA TakeOK ==
  ASSUME NftlInv, ~Lost, todo # <<>>, NEW b \in Block, Alloc(b), NEW t,
         Lies(t, Tail(todo)), Then(<<t>>), UNCHANGED <<flash, mt_pbas, mtl, dl, wr>>,
         UNCHANGED mt_cache \/ (FillCache /\ ~Closing /\ mt_pbas # NoBlock),
         Task.op \in {"put", "merge", "mtmerge"}, t.op \in {"append", "mergecopy", "mtcopy"},
         t.op = "mergecopy" => t.i \in 1..Len(dl),
         Task' = t => TaskOK' /\ CacheHot'
  PROVE  NftlInv' /\ PoolStep /\ Unmoved
  <1>1. StackOK /\ Indices /\ Ready /\ Elems(todo) = {Task} \cup Elems(Tail(todo))
    BY Parts, Stack
  <1>2. StackOK' /\ Task' = t /\ Elems(todo') = {t} \cup Elems(Tail(todo))
    BY <1>1, Swapped
  <1>3. \A op \in TableOps : Has(op)' = Has(op)
    <2>1. \A u \in {Task} \cup {t} : u.op \notin TableOps
      BY DEF TableOps
    <2> QED BY <1>1, <1>2, <2>1, SameHas
  <1>4. Ready'
    <2>1. t # T("ack") /\ t # T("put")
      BY DEF T
    <2> QED BY <1>1, <1>2, <2>1, ReadyOn
  <1>5. Indices'
    BY <1>1, <1>2 DEF Indices
  <1> QED BY <1>2, <1>3, <1>4, <1>5, Silent

LEMMA PutAllocOK ==
  ASSUME NftlInv, NEW b \in Block, PutAlloc(b)
  PROVE  NftlInv' /\ PoolStep /\ Unmoved
  <1> DEFINE t == [op |-> "append", blk |-> b]
  <1>1. /\ todo # <<>> /\ Task.op = "put" /\ Alloc(b) /\ Then(<<t>>)
        /\ DlIndex(LbaOf(wr[1])) = 0 /\ UNCHANGED <<flash, mt_pbas, mtl, mt_cache, dl, wr>>
    BY DEF PutAlloc, Top
  <1>2. ~Lost /\ ~Closing /\ StackOK
    BY <1>1, AtPlain DEF NftlInv, PlainOps
  <1>3. Tail(todo) = LowK
    BY <1>1, <1>2, Unders
  <1>4. Lies(t, Tail(todo)) /\ t.op = "append"
    BY <1>3 DEF Lies
  <1>5. \A i \in 1..Len(dl) : dl[i].lba # LbaOf(wr[1])
    BY <1>1, <1>2, Parts, Found
  <1> HIDE DEF t
  <1>6. Task' = t => TaskOK'
    BY <1>1, <1>4, <1>5 DEF TaskOK
  <1>7. Task' = t => CacheHot'
    <2>1. Elems(todo') = {t} \cup Elems(Tail(todo)) /\ Elems(todo) = {Task} \cup Elems(Tail(todo))
      BY <1>1, <1>2, <1>4, Swapped, Stack
    <2>2. ~Closing'
      BY <1>2, <1>4, <2>1 DEF Closing, Has
    <2> QED BY <1>4, <2>2 DEF CacheHot
  <1> QED BY <1>1, <1>2, <1>4, <1>6, <1>7, TakeOK

LEMMA MergeAllocOK ==
  ASSUME NftlInv, NEW b \in Block, MergeAlloc(b)
  PROVE  NftlInv' /\ PoolStep /\ Unmoved
  <1> DEFINE t == [op |-> "mergecopy", i |-> Task.i, old |-> MapTable[dl[Task.i].lba], blk |-> b]
  <1>1. /\ todo # <<>> /\ Task.op = "merge" /\ Alloc(b) /\ Then(<<t>>) /\ FillCache
        /\ UNCHANGED <<flash, mt_pbas, mtl, dl, wr>>
    BY DEF MergeAlloc, Top
  <1>2. /\ ~Lost /\ ~Closing /\ mt_pbas # NoBlock /\ StackOK /\ Map = CurMap
    BY <1>1, AtPlain DEF NftlInv
  <1>3. Tail(todo) \in RetK /\ Task \in Elems(todo) /\ Indices /\ dl \in Seq(LogRec)
    BY <1>1, <1>2, Unders, Stack, Parts
  <1>4. Task.i \in 1..Len(dl) /\ Task.i \in Nat /\ dl[Task.i].lba \in Lba
    <2>1. Task.i \in 1..Len(dl)
      BY <1>1, <1>3 DEF Indices
    <2>2. dl[Task.i] \in LogRec /\ Task.i \in Nat
      BY <1>3, <2>1
    <2> QED BY <2>1, <2>2 DEF LogRec
  <1>5. MapTable = CurMap /\ MapTable \in [Lba -> BlockX]
    BY <1>2, MapSeen
  <1>6. /\ Lies(t, Tail(todo)) /\ t.op = "mergecopy" /\ t.i = Task.i
        /\ t.old = Map[dl[t.i].lba]
    <2>1. t.op = "mergecopy" /\ t.i = Task.i /\ t.old = Map[dl[t.i].lba]
      BY <1>2, <1>5
    <2>2. t \in [op : {"mergecopy"}, i : Nat, old : BlockX, blk : Block]
      BY <1>4, <1>5
    <2> QED BY <1>3, <2>1, <2>2 DEF Lies
  <1> HIDE DEF t
  <1>7. Elems(todo') = {t} \cup Elems(Tail(todo)) /\ Elems(todo) = {Task} \cup Elems(Tail(todo))
    BY <1>1, <1>2, <1>6, Swapped, Stack
  <1>8. \A op \in TableOps : Has(op)' = Has(op)
    <2>1. \A u \in {Task} \cup {t} : u.op \notin TableOps
      BY <1>1, <1>6 DEF TableOps
    <2> QED BY <1>7, <2>1, SameHas
  <1>9. Closing' = Closing /\ Map' = Map
    BY <1>1, <1>8, SameView
  <1>10. Task' = t => TaskOK' /\ CacheHot'
    BY <1>1, <1>2, <1>6, <1>9 DEF TaskOK, CacheHot
  <1> QED BY <1>1, <1>2, <1>4, <1>6, <1>10, TakeOK

LEMMA MtMergeAllocOK ==
  ASSUME NftlInv, NEW b \in Block, MtMergeAlloc(b)
  PROVE  NftlInv' /\ PoolStep /\ Unmoved
  <1> DEFINE t == [op |-> "mtcopy", blk |-> b]
  <1>1. /\ todo # <<>> /\ Task.op = "mtmerge" /\ Alloc(b) /\ Then(<<t>>)
        /\ UNCHANGED <<flash, mt_pbas, mtl, mt_cache, dl, wr>> /\ StackOK
    BY DEF MtMergeAlloc, Top, NftlInv
  <1>2. /\ Tail(todo) \in UpdK
        /\ \A op : op \notin PlainOps \cup {"dldel", "addgt"} => Has(op) = {u \in {Task} : u.op = op}
    BY <1>1, UpdUnder
  <1>3. Has("lost") = {} /\ Has("mtset") = {}
    <2>1. "lost" \notin PlainOps \cup {"dldel", "addgt"} /\ "mtset" \notin PlainOps \cup {"dldel", "addgt"}
      BY DEF PlainOps
    <2> QED BY <1>1, <1>2, <2>1
  <1>4. ~Lost /\ ~Closing
    BY <1>3 DEF Lost, Closing
  <1>5. CacheHot
    BY <1>4, Parts
  <1>6. Lies(t, Tail(todo)) /\ t.op = "mtcopy"
    BY <1>2 DEF Lies
  <1> HIDE DEF t
  <1>7. Elems(todo') = {t} \cup Elems(Tail(todo)) /\ Elems(todo) = {Task} \cup Elems(Tail(todo))
    BY <1>1, <1>6, Swapped, Stack
  <1>8. \A op \in TableOps : Has(op)' = Has(op)
    <2>1. \A u \in {Task} \cup {t} : u.op \notin TableOps
      BY <1>1, <1>6 DEF TableOps
    <2> QED BY <1>7, <2>1, SameHas
  <1>9. Closing' = Closing /\ PhysicalMt' = PhysicalMt
    BY <1>1, <1>8, SameView
  <1>10. Task' = t => TaskOK' /\ CacheHot'
    BY <1>1, <1>4, <1>5, <1>6, <1>9 DEF TaskOK, CacheHot
  <1> QED BY <1>1, <1>4, <1>6, <1>10, TakeOK

LEMMA FormatAllocOK ==
  ASSUME NftlInv, NEW b \in Block, FormatAlloc(b)
  PROVE  NftlInv' /\ PoolStep /\ Unmoved
  <1> DEFINE t == [op |-> "mapwrite", blk |-> b]
  <1>1. /\ todo # <<>> /\ Task.op = "format" /\ Alloc(b) /\ Then(<<t>>)
        /\ UNCHANGED <<flash, mt_pbas, mtl, mt_cache, dl, wr>> /\ StackOK
    BY DEF FormatAlloc, Top, NftlInv
  <1>2. Tail(todo) = <<>>
    BY <1>1, Unders
  <1>3. Lies(t, Tail(todo)) /\ t.op = "mapwrite"
    BY <1>2 DEF Lies
  <1> HIDE DEF t
  <1>4. StackOK' /\ todo' # <<>> /\ Task' = t /\ Elems(todo') = {t} /\ Elems(todo) = {Task}
    BY <1>1, <1>2, <1>3, Swapped, Stack, PlainStacks
  <1>5. /\ \A op : op # "format" => Has(op) = {}
        /\ \A op : op # "mapwrite" => Has(op)' = {}
        /\ Has("mapwrite")' # {} /\ Has("format") # {}
    BY <1>1, <1>3, <1>4 DEF Has
  <1>6. ~Lost /\ ~Closing' /\ \A op \in {"dldel", "addgt", "mtset", "convert", "lost"} : Has(op)' = Has(op)
    BY <1>5 DEF Lost, Closing
  <1>7. FreshOK'
    BY <1>1, <1>5, <1>6, Parts DEF FreshOK
  <1>8. CurMap' = CurMap
    BY <1>1, <1>6, SameTables
  <1>9. Map' = Map
    <2>1. Updates = {} /\ Updates' = {}
      BY <1>5 DEF Updates
    <2> QED BY <1>8, <2>1 DEF Map
  <1>10. TaskOK' /\ CacheHot'
    BY <1>3, <1>4, <1>6 DEF TaskOK, CacheHot
  <1>11. Indices' /\ Ready'
    BY <1>3, <1>4 DEF Indices, Ready, T
  <1> QED BY <1>1, <1>4, <1>6, <1>7, <1>9, <1>10, <1>11, Steady

\* nftl_update_mt and the merge of the MapTab: what is pending.
LEMMA AtUpdate ==
  ASSUME NftlInv, todo # <<>>, Task.op \in {"updmt", "mtappend", "mtmerge", "mtcopy", "mtset"}
  PROVE  /\ ~Lost /\ mt_pbas # NoBlock /\ (Closing <=> Task.op = "mtset")
         /\ Tail(todo) \in UpdK /\ Lies(Task, Tail(todo))
         /\ \A t \in Elems(Tail(todo)) : t.op \in PlainOps \cup {"dldel", "addgt"}
         /\ Has("dldel") = {t \in Elems(Tail(todo)) : t.op = "dldel"}
         /\ Has("addgt") = {t \in Elems(Tail(todo)) : t.op = "addgt"}
         /\ Has("dldel") = {} \/ Has("addgt") = {}
         /\ Has("convert") = {} /\ Has("format") = {} /\ Has("mapwrite") = {} /\ Turning = {}
         /\ Has("mtset") = {t \in {Task} : t.op = "mtset"}
         /\ Has("updmt") = {t \in {Task} : t.op = "updmt"}
         /\ Has("mtappend") = {t \in {Task} : t.op = "mtappend"}
         /\ Updates = {t \in {Task} : t.op \in {"updmt", "mtappend"}}
         /\ Elems(todo) = {Task} \cup Elems(Tail(todo))
  <1>0. StackOK
    BY DEF NftlInv
  <1>1. /\ Tail(todo) \in UpdK /\ Lies(Task, Tail(todo))
        /\ \A t \in Elems(Tail(todo)) : t.op \in PlainOps \cup {"dldel", "addgt"}
        /\ \A op : op \notin PlainOps \cup {"dldel", "addgt"} => Has(op) = {t \in {Task} : t.op = op}
        /\ Has("dldel") = {} \/ Has("addgt") = {}
        /\ Elems(todo) = {Task} \cup Elems(Tail(todo))
    BY <1>0, UpdUnder, Stack
  <1>2. \A op \in {"lost", "convert", "format", "mapwrite", "mtset", "updmt", "mtappend"} :
          Has(op) = {t \in {Task} : t.op = op}
    BY <1>1 DEF PlainOps
  <1>3. Has("lost") = {} /\ Has("convert") = {} /\ Has("format") = {} /\ Has("mapwrite") = {}
    BY <1>2
  <1>4. ~Lost /\ Turning = {} /\ (Closing <=> Task.op = "mtset")
    BY <1>2, <1>3 DEF Lost, Turning, Closing
  <1>5. mt_pbas # NoBlock
    BY <1>3, <1>4, Parts DEF FreshOK
  <1>6. Updates = {t \in {Task} : t.op \in {"updmt", "mtappend"}}
    BY <1>2 DEF Updates
  <1>7. /\ Has("dldel") = {t \in Elems(Tail(todo)) : t.op = "dldel"}
        /\ Has("addgt") = {t \in Elems(Tail(todo)) : t.op = "addgt"}
    BY <1>1 DEF Has
  <1> QED BY <1>1, <1>2, <1>3, <1>4, <1>5, <1>6, <1>7

LEMMA UpdateMtAllocOK ==
  ASSUME NftlInv, NEW b \in Block, UpdateMtAlloc(b)
  PROVE  NftlInv' /\ PoolStep /\ Unmoved
  <1> DEFINE t == [op |-> "mtappend", lba |-> Task.lba, pba |-> Task.pba, blk |-> b]
  <1>1. /\ todo # <<>> /\ Task.op = "updmt" /\ Alloc(b) /\ Then(<<t>>) /\ mtl = <<>> /\ FillCache
        /\ UNCHANGED <<flash, mt_pbas, mtl, dl, wr>> /\ StackOK
    BY DEF UpdateMtAlloc, Top, NftlInv
  <1>2. /\ ~Lost /\ ~Closing /\ mt_pbas # NoBlock /\ Tail(todo) \in UpdK /\ Lies(Task, Tail(todo))
        /\ Elems(todo) = {Task} \cup Elems(Tail(todo)) /\ Updates = {Task}
        /\ Has("format") = {} /\ Has("mapwrite") = {} /\ Has("updmt") = {Task} /\ Has("mtappend") = {}
    BY <1>1, AtUpdate
  <1>3. Task \in UpdMts
    BY <1>1, <1>2 DEF Lies, T, MtSets
  <1>4. Lies(t, Tail(todo)) /\ t.op = "mtappend" /\ t.lba = Task.lba /\ t.pba = Task.pba
    <2>1. t \in [op : {"mtappend"}, lba : Lba, pba : Block, blk : Block]
      BY <1>3 DEF UpdMts
    <2> QED BY <1>2, <2>1 DEF Lies
  <1> HIDE DEF t
  <1>5. StackOK' /\ todo' # <<>> /\ Task' = t /\ Elems(todo') = {t} \cup Elems(Tail(todo))
    BY <1>1, <1>4, Swapped
  <1>6. \A op : op \notin {"updmt", "mtappend"} => Has(op)' = Has(op)
    BY <1>1, <1>2, <1>4, <1>5 DEF Has
  <1>7. /\ \A op \in {"dldel", "addgt", "mtset", "convert", "lost"} : Has(op)' = Has(op)
        /\ Has("format")' = {} /\ Has("mapwrite")' = {}
    BY <1>2, <1>6
  <1>8. Updates' = {t}
    <2>1. \A u \in Elems(Tail(todo)) : u.op \notin {"updmt", "mtappend"}
      BY <1>1, AtUpdate DEF PlainOps
    <2> QED BY <1>4, <1>5, <2>1 DEF Updates, Has
  <1>9. CurMap' = CurMap /\ ~Closing'
    BY <1>1, <1>2, <1>7, SameTables
  <1>10. Map' = Map
    <2>1. (CHOOSE u \in Updates' : TRUE) = t /\ (CHOOSE u \in Updates : TRUE) = Task
      BY <1>2, <1>8
    <2> QED BY <1>2, <1>4, <1>8, <1>9, <2>1 DEF Map
  <1>11. FreshOK' /\ TaskOK' /\ CacheHot'
    <2>1. FreshOK'
      BY <1>1, <1>2, <1>7 DEF FreshOK
    <2> QED BY <1>1, <1>4, <1>5, <1>9, <2>1 DEF TaskOK, CacheHot
  <1>12. Indices' /\ Ready'
    <2>1. t # T("ack") /\ t # T("put") /\ Indices /\ Ready
      BY <1>2, <1>4, Parts DEF T
    <2>2. Ready'
      BY <1>1, <1>2, <1>5, <2>1, ReadyOn
    <2> QED BY <1>1, <1>2, <1>4, <1>5, <2>1, <2>2 DEF Indices
  <1> QED BY <1>1, <1>2, <1>5, <1>7, <1>10, <1>11, <1>12, Steady

-----------------------------------------------------------------------------
(***************************************************************************)
(* What a step leaves alone                                                *)
(***************************************************************************)

\* The blocks that the tables name are programmed.
LEMMA Members ==
  ASSUME NftlInv, ~Lost
  PROVE  /\ LogBlocks(Logs) \cup DataBlocks(Map) \cup MtBlocks \cup Garb = Programmed
         /\ Programmed \subseteq Block /\ NoBlock \notin Programmed
         /\ \A i \in (1..Len(dl)) \ Dying : dl[i].pba # NoBlock =>
              dl[i].pba \in LogBlocks(Logs) /\ dl[i].pba \in Programmed
              /\ dl[i].pba \notin DataBlocks(Map) \cup MtBlocks \cup Garb
         /\ \A l \in Lba : Map[l] # NoBlock =>
              Map[l] \in DataBlocks(Map) /\ Map[l] \in Programmed
              /\ Map[l] \notin LogBlocks(Logs) \cup MtBlocks \cup Garb
         /\ MtBlocks \subseteq Programmed /\ Garb \subseteq Programmed
         /\ MtBlocks \cap Garb = {}
         /\ \A i, j \in (1..Len(dl)) \ Dying : i # j /\ dl[i].pba # NoBlock => dl[i].pba # dl[j].pba
  <1>1. Owned(Logs, Map, MtBlocks, Garb, Programmed) /\ OneLog /\ NoBlock \notin Block /\ held \subseteq Block
    BY Parts DEF Tables, TypeOK
  <1>2. Programmed \subseteq Block /\ NoBlock \notin Programmed
    BY <1>1 DEF Programmed
  <1>3. \A i \in (1..Len(dl)) \ Dying : dl[i] \in Logs /\ (dl[i].pba # NoBlock => dl[i].pba \in LogBlocks(Logs))
    BY DEF LogBlocks, Logs
  <1>4. \A l \in Lba : Map[l] # NoBlock => Map[l] \in DataBlocks(Map)
    BY DEF DataBlocks
  <1>5. ASSUME NEW i \in (1..Len(dl)) \ Dying, NEW j \in (1..Len(dl)) \ Dying, i # j, dl[i].pba # NoBlock
        PROVE dl[i].pba # dl[j].pba
    BY <1>1, <1>3, <1>5 DEF Owned, OneLog
  <1> DEFINE A == LogBlocks(Logs)
             B == DataBlocks(Map)
  <1>6. /\ A \cap B = {} /\ (A \cup B) \cap MtBlocks = {} /\ (A \cup B \cup MtBlocks) \cap Garb = {}
        /\ A \cup B \cup MtBlocks \cup Garb = Programmed
    BY <1>1 DEF Owned
  <1> HIDE DEF A, B
  <1>7. /\ \A x \in A : x \in Programmed /\ x \notin B \cup MtBlocks \cup Garb
        /\ \A x \in B : x \in Programmed /\ x \notin A \cup MtBlocks \cup Garb
        /\ MtBlocks \subseteq Programmed /\ Garb \subseteq Programmed /\ MtBlocks \cap Garb = {}
    BY <1>6
  <1> QED BY <1>2, <1>3, <1>4, <1>5, <1>6, <1>7 DEF A, B

\* Where the mapping table is.
LEMMA MtPlace ==
  ASSUME NftlInv, ~Lost, ~Closing, mt_pbas # NoBlock
  PROVE  /\ mt_pbas \in MtBlocks /\ mt_pbas \in Block /\ PhysicalMt[1] \in MtBlocks
         /\ MtBlock = mt_pbas /\ PhysicalMt \in Block \X Page
         /\ mtl = <<>> => /\ PhysicalMt = <<mt_pbas, 0>> /\ MtBlocks = {mt_pbas}
         /\ mtl # <<>> => /\ PhysicalMt = <<mtl[1].pba, mtl[1].used - 1>>
                          /\ mtl = <<mtl[1]>> /\ Len(mtl) = 1
                          /\ mtl[1] \in MtlRec /\ mtl[1].pba \in Block
                          /\ mtl[1].used \in 1..PagesPerBlock
                          /\ MtBlocks = {mt_pbas, mtl[1].pba}
  <1>1. mt_pbas \in Block /\ (mtl = <<>> \/ \E m \in MtlRec : mtl = <<m>>)
    BY Parts DEF BlockX
  <1>2. MtBlocks = {mt_pbas} \cup {mtl[i].pba : i \in 1..Len(mtl)} /\ MtBlock = mt_pbas
    BY DEF MtBlocks, MtBlock
  <1>3. mtl = <<>> => MtBlocks = {mt_pbas}
    BY <1>2
  <1>4. mtl # <<>> => mtl = <<mtl[1]>> /\ MtBlocks = {mt_pbas, mtl[1].pba}
    <2> SUFFICES ASSUME NEW m \in MtlRec, mtl = <<m>>
                 PROVE  mtl = <<mtl[1]>> /\ MtBlocks = {mt_pbas, mtl[1].pba}
      BY <1>1
    <2>1. Len(mtl) = 1 /\ mtl[1] = m
      OBVIOUS
    <2>2. {mtl[i].pba : i \in 1..Len(mtl)} = {mtl[1].pba}
      BY <2>1
    <2> QED BY <1>2, <2>1, <2>2
  <1> QED BY <1>1, <1>2, <1>3, <1>4, MapPlace

\* A step that does not write to the mapping table.
LEMMA MapKept ==
  ASSUME NftlInv, ~Lost, ~Closing, mt_pbas # NoBlock, ~Closing', UNCHANGED <<mt_pbas, mtl>>,
         \A x \in MtBlocks : flash'[x] = flash[x]
  PROVE  /\ PhysicalMt' = PhysicalMt /\ FlashMap' = FlashMap /\ CurMap' = CurMap
         /\ MtBlocks' = MtBlocks /\ MtBlock' = MtBlock /\ MtOK'
         /\ UNCHANGED mt_cache \/ FillCache => CacheOK'
  <1>1. PhysicalMt' = PhysicalMt /\ MtBlocks' = MtBlocks /\ MtBlock' = MtBlock
    BY DEF PhysicalMt, MtBlocks, MtBlock
  <1>2. mt_pbas \in MtBlocks /\ PhysicalMt[1] \in MtBlocks /\ MtBlock = mt_pbas
        /\ (mtl # <<>> => mtl[1].pba \in MtBlocks)
    BY MtPlace
  <1>3. FlashMap' = FlashMap
    BY <1>1, <1>2 DEF FlashMap
  <1>4. CurMap' = CurMap
    BY <1>3 DEF CurMap
  <1>5. MtOK'
    <2>1. MtOK
      BY Parts
    <2>2. flash'[MtBlock'][0] = flash[MtBlock][0]
      BY <1>1, <1>2
    <2>3. mtl # <<>> => flash'[mtl'[1].pba] = flash[mtl[1].pba] /\ mtl'[1].used = mtl[1].used
      BY <1>2
    <2> QED BY <2>1, <2>2, <2>3 DEF MtOK
  <1>6. UNCHANGED mt_cache => CacheOK'
    <2>1. CacheOK
      BY Parts
    <2> QED BY <1>1, <1>3, <2>1 DEF CacheOK
  <1>7. FillCache => CacheOK'
    <2>1. MapTable = FlashMap
      BY MapSeen
    <2> QED BY <1>1, <1>3, <2>1 DEF CacheOK, FillCache
  <1> QED BY <1>1, <1>3, <1>4, <1>5, <1>6, <1>7

\* A fresh block gets the pages F.
LEMMA Fresh ==
  ASSUME NftlInv, ~Lost, NEW b, FirstProgram(b), NEW F \in [Page -> PageRec],
         flash' = [flash EXCEPT ![b] = F]
  PROVE  /\ PoolStep /\ SoundInv' /\ BlankOK' /\ b \in Block /\ b \notin Programmed
         /\ b # NoBlock /\ Programmed' = Programmed \cup {b}
         /\ flash' \in [Block -> [Page -> PageRec]] /\ flash'[b] = F
         /\ \A x \in Block : x # b => flash'[x] = flash[x]
         /\ \A x \in Programmed : flash'[x] = flash[x]
  <1>1. /\ PoolStep /\ b \in Block /\ media[b] = "blank" /\ b \notin Programmed
        /\ media' = [media EXCEPT ![b] = "used"] /\ Programmed' = Programmed \cup {b}
        /\ b # NoBlock
    BY Parts, Begun
  <1>2. SoundInv'
    BY <1>1, Parts, Sound
  <1>3. /\ flash' \in [Block -> [Page -> PageRec]] /\ flash'[b] = F
        /\ \A x \in Block : x # b => flash'[x] = flash[x]
    BY <1>1, Parts
  <1>4. \A x \in Programmed : flash'[x] = flash[x]
    BY <1>1, <1>3, Members
  <1>5. BlankOK'
    <2>1. BlankOK /\ media \in [Block -> Media]
      BY Parts DEF TypeOK
    <2> QED BY <1>1, <1>3, <2>1 DEF BlankOK
  <1> QED BY <1>1, <1>2, <1>3, <1>4, <1>5

\* Nothing has been written to a block that was just taken.
LEMMA Blank ==
  ASSUME NftlInv, ~Lost, NEW b, FirstProgram(b)
  PROVE  b \in Block /\ flash[b] = [p \in Page |-> BlankPage]
  BY Parts, Begun DEF BlankOK

\* A page of user data.
LEMMA UserPageType ==
  ASSUME NEW t \in {"data", "log"}, NEW k \in Int, NEW d \in Data \cup {Erased, Junk}
  PROVE  /\ UserPage(t, k, d) \in PageRec
         /\ UserPage(t, k, d).t = t /\ UserPage(t, k, d).k = k /\ UserPage(t, k, d).d = d
  BY Numbers DEF UserPage, PageRec

-----------------------------------------------------------------------------
(***************************************************************************)
(* The page of a write                                                     *)
(***************************************************************************)

\* The logs after another one is appended.
LEMMA Appended ==
  ASSUME dl \in Seq(LogRec), NEW e, dl' = Append(dl, e)
  PROVE  /\ Len(dl') = Len(dl) + 1 /\ dl'[Len(dl) + 1] = e /\ Len(dl) \in Nat
         /\ \A i \in 1..Len(dl) : dl'[i] = dl[i]
         /\ 1..Len(dl') = (1..Len(dl)) \cup {Len(dl) + 1}
         /\ {dl'[i] : i \in 1..Len(dl')} = {dl[i] : i \in 1..Len(dl)} \cup {e}
  <1>1. /\ Len(dl') = Len(dl) + 1 /\ dl'[Len(dl) + 1] = e /\ Len(dl) \in Nat
        /\ \A i \in 1..Len(dl) : dl'[i] = dl[i]
    OBVIOUS
  <1>2. 1..Len(dl') = (1..Len(dl)) \cup {Len(dl) + 1}
    BY <1>1
  <1>3. {dl'[i] : i \in 1..Len(dl')} = {dl[i] : i \in 1..Len(dl)} \cup {e}
    BY <1>1, <1>2
  <1> QED BY <1>1, <1>2, <1>3

\* The log of one page that a write makes.
LEMMA NewLogType ==
  ASSUME wr \in Lpa \X Data, NEW b \in BlockX
  PROVE  /\ NewLog(b) \in LogRec /\ NewLog(b).lba = LbaOf(wr[1]) /\ NewLog(b).pba = b
         /\ NewLog(b).used = 1
         /\ NewLog(b).ppa = [p \in Page |-> IF p = OfsOf(wr[1]) THEN 0 ELSE NoPage]
  <1>1. wr[1] \in Lpa
    OBVIOUS
  <1>2. LbaOf(wr[1]) \in Lba
    BY <1>1, Places
  <1>3. 1 \in 1..PagesPerBlock /\ 0 \in Page
    BY Numbers
  <1> QED BY <1>2, <1>3 DEF NewLog, LogRec

\* A new log of one page in block b, and nothing else.
LogComesIn(b) == /\ Logs' = Logs \cup {NewLog(b)} /\ Map' = Map
                 /\ TurningLogs = {} /\ TurningLogs' = {}

\* A log is appended to dl_blocktab.
LEMMA LogAdded ==
  ASSUME NftlInv, todo # <<>>, Task.op \in {"put", "append"}, Then(<<>>),
         \A i \in 1..Len(dl) : dl[i].lba # LbaOf(wr[1]),
         NEW b \in BlockX, dl' = Append(dl, NewLog(b)), UNCHANGED <<mt_pbas, mtl, mt_cache, wr>>,
         SoundInv', BlankOK', flash' \in [Block -> [Page -> PageRec]],
         b \notin Programmed, Programmed' = Programmed \cup ({b} \ {NoBlock}),
         \A x \in Programmed : flash'[x] = flash[x],
         b # NoBlock => LogOK(NewLog(b), flash'[b])
  PROVE  NftlInv' /\ LogComesIn(b)
  <1> DEFINE e == NewLog(b)
  <1>1. /\ ~Lost /\ ~Closing /\ mt_pbas # NoBlock /\ Dying = {} /\ Garb = {} /\ Updates = {}
        /\ Map = CurMap /\ \A t \in Elems(Tail(todo)) : t.op \in PlainOps
    BY AtPlain DEF PlainOps
  <1>2. StackOK /\ dl \in Seq(LogRec) /\ Ready /\ Tables /\ LogsOK /\ DataOK /\ OneLog /\ FreshOK
        /\ TypesOK
    BY <1>1, Parts DEF NftlInv
  <1>3. Tail(todo) = LowK /\ Elems(todo) = {Task} \cup Elems(Tail(todo))
    BY <1>2, Unders, Stack
  <1>4. wr \in Lpa \X Data
    BY <1>2, <1>3, PlainStacks DEF Ready
  <1>5. e \in LogRec /\ e.lba = LbaOf(wr[1]) /\ e.pba = b
    BY <1>4, NewLogType
  <1>6. todo' = LowK /\ StackOK' /\ Elems(todo') = Elems(LowK)
    BY <1>2, <1>3, Popped
  <1>7. \A t \in Elems(todo') : t.op \in PlainOps \ {"full"}
    BY <1>6, WriteTasks
  <1>8. \A op : op \notin PlainOps => Has(op)' = {}
    BY <1>7 DEF Has
  <1>9. /\ Has("lost")' = {} /\ Has("mtset")' = {} /\ Has("format")' = {} /\ Has("mapwrite")' = {}
        /\ Has("dldel")' = {} /\ Has("addgt")' = {} /\ Has("updmt")' = {} /\ Has("mtappend")' = {}
        /\ Has("convert")' = {}
    BY <1>8 DEF PlainOps
  <1>10. /\ ~Lost' /\ ~Closing' /\ Updates' = {} /\ Dying' = {} /\ Garb' = {} /\ Turning' = {}
         /\ Map' = CurMap'
    BY <1>9 DEF Lost, Closing, Updates, Dying, Garb, Turning, Map
  <1>11. Turning = {}
    BY <1>3, <1>1 DEF Turning, Has, PlainOps
  <1>12. MtBlocks \subseteq Programmed
    BY <1>1, Members
  <1>13. /\ PhysicalMt' = PhysicalMt /\ CurMap' = CurMap /\ MtBlocks' = MtBlocks /\ MtOK' /\ CacheOK'
    BY <1>1, <1>10, <1>12, MapKept
  <1>14. Map' = Map
    BY <1>1, <1>10, <1>13
  <1> HIDE DEF e
  <1>15. dl' = Append(dl, e)
    BY DEF e
  <1>16. /\ Len(dl') = Len(dl) + 1 /\ dl'[Len(dl) + 1] = e /\ Len(dl) \in Nat
         /\ \A i \in 1..Len(dl) : dl'[i] = dl[i]
         /\ 1..Len(dl') = (1..Len(dl)) \cup {Len(dl) + 1}
         /\ {dl'[i] : i \in 1..Len(dl')} = {dl[i] : i \in 1..Len(dl)} \cup {e}
    BY <1>2, <1>15, Appended
  <1>17. dl' \in Seq(LogRec)
    BY <1>2, <1>5, <1>15
  <1>18. Logs' = Logs \cup {e}
    BY <1>1, <1>10, <1>16 DEF Logs
  <1>19. OneLog'
    BY <1>2, <1>5, <1>16 DEF OneLog
  <1>20. Tables'
    <2>1. Owned(Logs \cup {e}, Map, MtBlocks, Garb, Programmed \cup ({e.pba} \ {NoBlock}))
      BY <1>2, <1>5, OwnedNewLog DEF Tables
    <2>2. Owned(Logs', Map', MtBlocks', Garb', Programmed')
      BY <1>1, <1>5, <1>10, <1>13, <1>14, <1>18, <2>1
    <2> QED BY <1>1, <1>2, <1>10, <2>2 DEF Tables
  <1>21. LogsOK'
    <2> SUFFICES ASSUME NEW i \in 1..Len(dl'), dl'[i].pba # NoBlock
                 PROVE  LogOK(dl'[i], flash'[dl'[i].pba])
      BY <1>10 DEF LogsOK
    <2>1. CASE i \in 1..Len(dl)
      <3>1. dl'[i] = dl[i] /\ LogOK(dl[i], flash[dl[i].pba])
        BY <1>1, <1>2, <1>11, <1>16, <2>1 DEF LogsOK
      <3>2. dl[i].pba \in Programmed
        BY <1>1, <2>1, <3>1, Members
      <3> QED BY <3>1, <3>2
    <2>2. CASE i = Len(dl) + 1
      BY <1>5, <1>16, <2>2 DEF e
    <2> QED BY <1>16, <2>1, <2>2
  <1>22. DataOK'
    <2> SUFFICES ASSUME NEW l \in Lba, Map[l] # NoBlock PROVE IsData(flash'[Map[l]])
      BY <1>14 DEF DataOK
    <2>1. Map[l] \in Programmed /\ IsData(flash[Map[l]])
      BY <1>1, <1>2, Members DEF DataOK
    <2> QED BY <2>1
  <1>23. TypesOK'
    BY <1>1, <1>2, <1>17 DEF TypesOK
  <1>24. FreshOK' /\ GarbLists'
    BY <1>1, <1>9 DEF FreshOK, GarbLists
  <1>25. TaskOK' /\ CacheHot'
    BY <1>1, <1>2, <1>10, PoppedPlain
  <1>26. Indices'
    BY <1>7 DEF Indices, PlainOps
  <1>27. Ready'
    BY <1>4, <1>6, PlainStacks DEF Ready
  <1>28. LogComesIn(b)
    BY <1>10, <1>11, <1>14, <1>18 DEF LogComesIn, TurningLogs, e
  <1>29. NftlInv'
    BY <1>6, <1>10, <1>13, <1>19, <1>20, <1>21, <1>22, <1>23, <1>24, <1>25, <1>26, <1>27 DEF NftlInv
  <1> QED BY <1>28, <1>29

LEMMA PutAppendOK == NftlInv /\ PutAppend => NftlInv' /\ PoolStep /\ LogComesIn(Task.blk)
  <1> SUFFICES ASSUME NftlInv, PutAppend PROVE NftlInv' /\ PoolStep /\ LogComesIn(Task.blk)
    OBVIOUS
  <1> DEFINE b == Task.blk
             g == UserPage("log", wr[1], wr[2])
             F == [flash[b] EXCEPT ![0] = g]
  <1>1. /\ todo # <<>> /\ Task.op = "append" /\ FirstProgram(b) /\ Then(<<>>)
        /\ flash' = [flash EXCEPT ![b][0] = g]
        /\ dl' = Append(dl, NewLog(b)) /\ UNCHANGED <<mt_pbas, mtl, mt_cache, wr>>
    BY DEF PutAppend, Top
  <1>2. ~Lost /\ StackOK /\ Ready /\ TaskOK /\ flash \in [Block -> [Page -> PageRec]]
    BY <1>1, AtPlain, Parts
  <1>3. wr \in Lpa \X Data /\ \A i \in 1..Len(dl) : dl[i].lba # LbaOf(wr[1])
    <2>1. Tail(todo) = LowK /\ Elems(todo) = {Task} \cup Elems(Tail(todo))
      BY <1>1, <1>2, Unders, Stack
    <2>2. wr \in Lpa \X Data
      BY <1>2, <2>1, PlainStacks DEF Ready
    <2> QED BY <1>1, <1>2, <2>2 DEF TaskOK
  <1>4. b \in Block /\ flash[b] = [p \in Page |-> BlankPage]
    BY <1>1, <1>2, Blank
  <1>5. g \in PageRec /\ g.t = "log" /\ g.k = wr[1] /\ wr[1] \in Lpa
    <2>1. wr[1] \in Lpa /\ wr[2] \in Data /\ Lpa \subseteq Int
      BY <1>3 DEF Lpa
    <2>2. wr[1] \in Int /\ wr[2] \in Data \cup {Erased, Junk} /\ "log" \in {"data", "log"}
      BY <2>1
    <2>3. g \in PageRec /\ g.t = "log" /\ g.k = wr[1]
      BY <2>2, UserPageType
    <2> QED BY <2>1, <2>3
  <1>6. F \in [Page -> PageRec] /\ F[0] = g /\ \A p \in Page : p # 0 => F[p] = BlankPage
    BY <1>2, <1>4, <1>5, Numbers
  <1>7. flash' = [flash EXCEPT ![b] = F]
    BY <1>1
  <1> HIDE DEF b, g, F
  <1>8. /\ PoolStep /\ SoundInv' /\ BlankOK' /\ b \notin Programmed
        /\ b # NoBlock /\ Programmed' = Programmed \cup {b}
        /\ flash' \in [Block -> [Page -> PageRec]] /\ flash'[b] = F
        /\ \A x \in Programmed : flash'[x] = flash[x]
    BY <1>1, <1>2, <1>6, <1>7, Fresh
  <1>9. LogOK(NewLog(b), flash'[b])
    <2> DEFINE e == NewLog(b)
    <2>1. /\ e.lba = LbaOf(wr[1]) /\ e.used = 1
          /\ e.ppa = [p \in Page |-> IF p = OfsOf(wr[1]) THEN 0 ELSE NoPage]
      BY <1>3, <1>4, NewLogType DEF BlockX
    <2> HIDE DEF e
    <2>2. \A p \in Page : (p < 1 <=> p = 0) /\ (p >= 1 <=> p # 0)
      BY DEF Page
    <2>3. 0 \in Page /\ 0 # NoPage /\ ~(0 > 0) /\ \A p \in Page : ~(p < 1 /\ p > 0)
      BY Numbers DEF Page, NoPage
    <2>4. /\ \A p \in Page : p < e.used => F[p].t = "log" /\ F[p].k \in Lpa /\ LbaOf(F[p].k) = e.lba
          /\ \A p \in Page : p >= e.used => F[p] = BlankPage
      BY <1>5, <1>6, <2>1, <2>2
    <2>5. ASSUME NEW o \in Page, e.ppa[o] = NoPage, NEW p \in Page, p < e.used PROVE OfsOf(F[p].k) # o
      BY <1>5, <1>6, <2>1, <2>2, <2>3, <2>5
    <2>6. ASSUME NEW o \in Page, e.ppa[o] # NoPage
          PROVE  /\ e.ppa[o] < e.used /\ OfsOf(F[e.ppa[o]].k) = o
                 /\ \A p \in Page : p < e.used /\ p > e.ppa[o] => OfsOf(F[p].k) # o
      <3>1. o = OfsOf(wr[1]) /\ e.ppa[o] = 0
        BY <2>1, <2>6
      <3> QED BY <1>5, <1>6, <2>1, <2>3, <3>1
    <2> QED BY <1>8, <2>4, <2>5, <2>6 DEF LogOK, e
  <1>10. b \in BlockX /\ {b} \ {NoBlock} = {b}
    BY <1>4, <1>8 DEF BlockX
  <1>11. NftlInv' /\ LogComesIn(b)
    BY <1>1, <1>3, <1>8, <1>9, <1>10, LogAdded
  <1> QED BY <1>8, <1>11 DEF b

\* The entry of a log with one more page,
LEMMA Grown ==
  ASSUME NEW e \in LogRec, e.used < PagesPerBlock, NEW o \in Page
  PROVE  LET f == [e EXCEPT !.used = @ + 1, !.ppa[o] = e.used]
         IN  /\ f \in LogRec /\ f.lba = e.lba /\ f.pba = e.pba /\ f.used = e.used + 1
             /\ f.ppa = [e.ppa EXCEPT ![o] = e.used]
  <1>1. e.used \in Page /\ e.used + 1 \in 1..PagesPerBlock
    BY Numbers DEF LogRec
  <1> QED BY <1>1 DEF LogRec

\* and the log.
LEMMA LogGrows ==
  ASSUME NEW e \in LogRec, NEW F \in [Page -> PageRec], LogOK(e, F), e.used < PagesPerBlock,
         NEW k \in Lpa, LbaOf(k) = e.lba, NEW g, g.t = "log", g.k = k,
         NEW f, f.lba = e.lba, f.used = e.used + 1, f.ppa = [e.ppa EXCEPT ![OfsOf(k)] = e.used]
  PROVE  LogOK(f, [F EXCEPT ![e.used] = g])
  <1> DEFINE n == e.used
             o == OfsOf(k)
             H == [F EXCEPT ![n] = g]
  <1>1. n \in Page /\ n + 1 \in 1..PagesPerBlock /\ n \in Nat /\ o \in Page /\ n # NoPage
    <2>1. n \in 1..PagesPerBlock /\ n < PagesPerBlock
      BY DEF LogRec
    <2> QED BY <2>1, Numbers, Places
  <1>2. /\ f.used = n + 1 /\ f.lba = e.lba
        /\ f.ppa = [e.ppa EXCEPT ![o] = n] /\ e.ppa \in [Page -> Page \cup {NoPage}]
    BY <1>1 DEF LogRec
  <1>4. H[n] = g /\ (\A p \in Page : p # n => H[p] = F[p])
    BY <1>1
  <1>5. \A p \in Page : p \in Nat /\ (p < n + 1 <=> p < n \/ p = n) /\ (p >= n + 1 => p # n /\ p >= n)
    BY <1>1, Numbers
  <1>6. /\ f.ppa[o] = n
        /\ \A q \in Page : q # o => f.ppa[q] = e.ppa[q]
    BY <1>1, <1>2
  <1> HIDE DEF n, o, H
  <1>7. /\ \A p \in Page : p < n => F[p].t = "log" /\ F[p].k \in Lpa /\ LbaOf(F[p].k) = e.lba
        /\ \A p \in Page : p >= n => F[p] = BlankPage
        /\ \A q \in Page : e.ppa[q] = NoPage =>
             \A p \in Page : p < n => OfsOf(F[p].k) # q
        /\ \A q \in Page : e.ppa[q] # NoPage =>
             /\ e.ppa[q] < n /\ OfsOf(F[e.ppa[q]].k) = q
             /\ \A p \in Page : p < n /\ p > e.ppa[q] => OfsOf(F[p].k) # q
    BY DEF LogOK, n
  <1>8. /\ \A p \in Page : p < n + 1 => H[p].t = "log" /\ H[p].k \in Lpa /\ LbaOf(H[p].k) = e.lba
        /\ \A p \in Page : p >= n + 1 => H[p] = BlankPage
    <2>1. \A p \in Page : p < n => p # n
      BY <1>1
    <2> QED BY <1>4, <1>5, <1>7, <2>1
  <1>9. ASSUME NEW q \in Page, f.ppa[q] = NoPage, NEW p \in Page, p < n + 1 PROVE OfsOf(H[p].k) # q
    <2>1. q # o /\ e.ppa[q] = NoPage
      BY <1>1, <1>6, <1>9
    <2>2. CASE p = n
      BY <1>4, <2>1, <2>2 DEF o
    <2>3. CASE p < n
      BY <1>1, <1>4, <1>5, <1>7, <2>1, <2>3
    <2> QED BY <1>5, <1>9, <2>2, <2>3
  <1>10. ASSUME NEW q \in Page, f.ppa[q] # NoPage
         PROVE  /\ f.ppa[q] < n + 1 /\ OfsOf(H[f.ppa[q]].k) = q
                /\ \A p \in Page : p < n + 1 /\ p > f.ppa[q] => OfsOf(H[p].k) # q
    <2>1. CASE q = o
      <3>1. f.ppa[q] = n /\ H[n].k = k /\ o = OfsOf(k)
        BY <1>4, <1>6, <2>1 DEF o
      <3>2. n < n + 1 /\ \A p \in Page : ~(p < n + 1 /\ p > n)
        BY <1>1, <1>5
      <3> QED BY <2>1, <3>1, <3>2
    <2>2. CASE q # o
      <3>1. f.ppa[q] = e.ppa[q] /\ e.ppa[q] \in Page /\ e.ppa[q] < n
        BY <1>2, <1>6, <1>7, <1>10, <2>2
      <3>2. e.ppa[q] < n + 1 /\ H[e.ppa[q]] = F[e.ppa[q]]
        <4>1. e.ppa[q] < n + 1
          BY <1>5, <3>1
        <4>2. \A p \in Page : p < n => p # n
          BY <1>1
        <4> QED BY <1>4, <3>1, <4>1, <4>2
      <3>3. ASSUME NEW p \in Page, p < n + 1, p > e.ppa[q] PROVE OfsOf(H[p].k) # q
        <4>1. CASE p = n
          BY <1>4, <2>2, <4>1 DEF o
        <4>2. CASE p < n
          <5>1. H[p] = F[p]
            BY <1>1, <1>4, <4>2
          <5> QED BY <1>7, <1>10, <3>1, <3>3, <4>2, <5>1
        <4> QED BY <1>5, <3>3, <4>1, <4>2
      <3> QED BY <1>7, <1>10, <3>1, <3>2, <3>3
    <2> QED BY <2>1, <2>2
  <1> QED BY <1>2, <1>8, <1>9, <1>10 DEF LogOK, H, n

\* The next page of a log is programmed, and nothing else.
LEMMA LogPage ==
  ASSUME NftlInv, ~Lost, ~Closing, mt_pbas # NoBlock, ~Closing', Dying = {},
         NEW i \in 1..Len(dl), dl[i].pba # NoBlock,
         NEW n \in Page, NEW g \in PageRec, flash' = [flash EXCEPT ![dl[i].pba][n] = g],
         UNCHANGED <<poolVars, mt_pbas, mtl, mt_cache, wr>>
  PROVE  /\ PoolStep /\ SoundInv' /\ BlankOK' /\ Programmed' = Programmed
         /\ flash' \in [Block -> [Page -> PageRec]]
         /\ dl[i].pba \in Block /\ flash[dl[i].pba] \in [Page -> PageRec]
         /\ flash'[dl[i].pba] = [flash[dl[i].pba] EXCEPT ![n] = g]
         /\ \A x \in Block : x # dl[i].pba => flash'[x] = flash[x]
         /\ \A j \in 1..Len(dl) : j # i /\ dl[j].pba # NoBlock =>
              dl[j].pba # dl[i].pba /\ flash'[dl[j].pba] = flash[dl[j].pba]
         /\ \A l \in Lba : Map[l] # NoBlock => flash'[Map[l]] = flash[Map[l]]
         /\ CurMap' = CurMap /\ MtBlocks' = MtBlocks /\ MtOK' /\ CacheOK'
  <1>0. /\ flash \in [Block -> [Page -> PageRec]] /\ SoundInv /\ BlankOK
    BY Parts
  <1>1. /\ dl[i].pba \in Programmed /\ dl[i].pba \notin DataBlocks(Map) \cup MtBlocks \cup Garb
        /\ \A j \in 1..Len(dl) : j # i /\ dl[j].pba # NoBlock =>
              dl[j].pba # dl[i].pba /\ dl[j].pba \in Programmed
        /\ \A l \in Lba : Map[l] # NoBlock => Map[l] \in DataBlocks(Map) /\ Map[l] \in Programmed
        /\ MtBlocks \subseteq Programmed /\ Programmed \subseteq Block
    BY Members
  <1> DEFINE x == dl[i].pba
  <1>2. /\ flash' \in [Block -> [Page -> PageRec]] /\ x \in Block /\ flash[x] \in [Page -> PageRec]
        /\ flash'[x] = [flash[x] EXCEPT ![n] = g]
        /\ \A y \in Block : y # x => flash'[y] = flash[y]
    BY <1>0, <1>1
  <1>3. \A y \in MtBlocks : flash'[y] = flash[y]
    BY <1>1, <1>2
  <1>4. CurMap' = CurMap /\ MtBlocks' = MtBlocks /\ MtOK' /\ CacheOK'
    BY <1>3, MapKept
  <1>5. PoolStep /\ SoundInv' /\ Programmed' = Programmed /\ media' = media
    BY <1>0, Sound DEF PoolStep, poolVars, Programmed
  <1>6. BlankOK'
    <2>1. media[x] = "used"
      BY <1>1 DEF Programmed
    <2> QED BY <1>0, <1>2, <1>5, <2>1 DEF BlankOK
  <1>7. \A j \in 1..Len(dl) : j # i /\ dl[j].pba # NoBlock =>
          dl[j].pba # x /\ flash'[dl[j].pba] = flash[dl[j].pba]
    BY <1>1, <1>2
  <1>8. \A l \in Lba : Map[l] # NoBlock => flash'[Map[l]] = flash[Map[l]]
    BY <1>1, <1>2
  <1> QED BY <1>2, <1>4, <1>5, <1>6, <1>7, <1>8

\* A log changes in place.
LEMMA LogChanges ==
  ASSUME dl \in Seq(LogRec), OneLog, NEW i \in 1..Len(dl), NEW f \in LogRec,
         f.lba = dl[i].lba, dl' = [dl EXCEPT ![i] = f]
  PROVE  /\ dl' \in Seq(LogRec) /\ Len(dl') = Len(dl) /\ dl'[i] = f
         /\ \A j \in 1..Len(dl) : j # i => dl'[j] = dl[j]
         /\ \A j \in 1..Len(dl) : dl'[j].lba = dl[j].lba
         /\ OneLog'
         /\ {dl'[j] : j \in 1..Len(dl')} = ({dl[j] : j \in 1..Len(dl)} \ {dl[i]}) \cup {f}
  <1>1. /\ dl' \in Seq(LogRec) /\ Len(dl') = Len(dl) /\ dl'[i] = f
        /\ \A j \in 1..Len(dl) : j # i => dl'[j] = dl[j]
    OBVIOUS
  <1>2. \A j \in 1..Len(dl) : dl'[j].lba = dl[j].lba
    BY <1>1
  <1>3. OneLog'
    BY <1>1, <1>2 DEF OneLog
  <1>4. \A j \in 1..Len(dl) : j # i => dl[j] # dl[i]
    BY DEF OneLog
  <1>5. {dl'[j] : j \in 1..Len(dl')} \subseteq ({dl[j] : j \in 1..Len(dl)} \ {dl[i]}) \cup {f}
    BY <1>1, <1>4
  <1>6. ASSUME NEW x \in ({dl[j] : j \in 1..Len(dl)} \ {dl[i]}) \cup {f}
        PROVE  x \in {dl'[j] : j \in 1..Len(dl')}
    <2>1. CASE x = f
      BY <1>1, <2>1
    <2>2. CASE x # f
      <3>1. PICK j \in 1..Len(dl) : x = dl[j] /\ j # i
        BY <1>6, <2>2
      <3> QED BY <1>1, <3>1
    <2> QED BY <2>1, <2>2
  <1> QED BY <1>1, <1>2, <1>3, <1>5, <1>6

\* The log of the page gets one page more, or is about to be converted.
LogTakes ==
  LET e == dl[DlIndex(LbaOf(wr[1]))]
      f == [e EXCEPT !.used = @ + 1, !.ppa[OfsOf(wr[1])] = e.used]
  IN /\ Map' = Map /\ TurningLogs = {}
     /\ InOrder(e) => Logs' = Logs /\ TurningLogs' = {e}
     /\ ~InOrder(e) => Logs' = (Logs \ {e}) \cup {f} /\ TurningLogs' = {}

LEMMA PutInLogOK == NftlInv /\ PutInLog => NftlInv' /\ PoolStep /\ LogTakes
  <1> SUFFICES ASSUME NftlInv, PutInLog PROVE NftlInv' /\ PoolStep /\ LogTakes
    OBVIOUS
  <1> DEFINE i == DlIndex(LbaOf(wr[1]))
             e == dl[i]
             n == e.used
             g == UserPage(IF InOrder(e) THEN "data" ELSE "log", wr[1], wr[2])
             o == OfsOf(wr[1])
             f == [e EXCEPT !.used = @ + 1, !.ppa[o] = n]
  <1>1. /\ todo # <<>> /\ Task.op = "put" /\ i # 0
        /\ flash' = [flash EXCEPT ![e.pba][n] = g]
        /\ UNCHANGED <<poolVars, mt_pbas, mtl, mt_cache, wr>>
        /\ InOrder(e) => Then(<<OnLog("convert", i), OnLog("full", i)>>) /\ dl' = dl
        /\ ~InOrder(e) => /\ Then(<<OnLog("full", i)>>)
                          /\ dl' = [dl EXCEPT ![i].used = @ + 1, ![i].ppa[o] = n]
    BY DEF PutInLog, Top
  <1>2. /\ ~Lost /\ ~Closing /\ mt_pbas # NoBlock /\ Dying = {} /\ Garb = {} /\ Updates = {}
        /\ Map = CurMap /\ \A t \in Elems(Tail(todo)) : t.op \in PlainOps
    BY <1>1, AtPlain DEF PlainOps
  <1>3. StackOK /\ dl \in Seq(LogRec) /\ Ready /\ Tables /\ LogsOK /\ DataOK /\ OneLog /\ FreshOK
        /\ TypesOK
    BY <1>2, Parts DEF NftlInv
  <1>4. /\ Tail(todo) = LowK /\ Elems(todo) = {Task} \cup Elems(LowK) /\ Task = T("put")
        /\ \A t \in Elems(LowK) : t.op \in PlainOps \ {"full"}
    BY <1>1, <1>3, Unders, Stack, WriteTasks
  <1>5. /\ wr \in Lpa \X Data /\ i \in 1..Len(dl) /\ e \in LogRec /\ e.lba = LbaOf(wr[1])
        /\ e.pba # NoBlock /\ n < PagesPerBlock /\ i \in Nat /\ i >= 1
    <2>1. wr \in Lpa \X Data
      BY <1>3, <1>4, PlainStacks DEF Ready
    <2>2. i \in 1..Len(dl) /\ e \in LogRec /\ e.lba = LbaOf(wr[1]) /\ Len(dl) \in Nat
      BY <1>1, <1>3, Found
    <2>3. e.pba # NoBlock /\ n < PagesPerBlock
      BY <1>3, <1>4, <2>2 DEF Ready
    <2> QED BY <2>1, <2>2, <2>3
  <1>6. /\ wr[1] \in Lpa /\ g \in PageRec /\ g.k = wr[1] /\ o \in Page
        /\ g.t = IF InOrder(e) THEN "data" ELSE "log"
    <2>1. wr[1] \in Lpa /\ wr[1] \in Int /\ wr[2] \in Data \cup {Erased, Junk}
      BY <1>5 DEF Lpa
    <2>2. (IF InOrder(e) THEN "data" ELSE "log") \in {"data", "log"}
      OBVIOUS
    <2>3. g \in PageRec /\ g.k = wr[1] /\ g.t = IF InOrder(e) THEN "data" ELSE "log"
      BY <2>1, <2>2, UserPageType
    <2> QED BY <2>1, <2>3, Places
  <1>7. n \in Page /\ n \in 1..PagesPerBlock
    BY <1>5, Numbers DEF LogRec
  <1>8. Turning = {}
    BY <1>2, <1>4 DEF Turning, Has, T, PlainOps
  <1>9. LogOK(e, flash[e.pba])
    BY <1>2, <1>3, <1>5, <1>8 DEF LogsOK
  <1>10. ~InOrder(e) => dl' = [dl EXCEPT ![i] = f]
    BY <1>1, <1>3, <1>5
  <1> HIDE DEF i, n, g, o, f
  <1>11. CASE InOrder(e)
    <2> DEFINE t == OnLog("convert", i)
               u == OnLog("full", i)
    <2>1. /\ u \in Under /\ t.op = "convert" /\ u.op = "full" /\ t.i = i /\ u.i = i
          /\ Lies(u, Tail(todo)) /\ Lies(t, <<u>> \o Tail(todo)) /\ Then(<<t, u>>)
      <3>1. u \in [op : {"full"}, i : Nat] /\ t \in [op : {"convert"}, i : Nat]
        BY <1>5 DEF OnLog
      <3>2. u \in Under
        BY <3>1 DEF Under, Plain
      <3>3. <<u>> \o LowK \in FullK
        BY <1>5 DEF FullK
      <3>4. Lies(u, LowK) /\ Lies(t, <<u>> \o LowK)
        BY <3>1, <3>3 DEF Lies
      <3> QED BY <1>1, <1>4, <1>11, <3>1, <3>2, <3>4 DEF OnLog
    <2> HIDE DEF t, u
    <2>2. StackOK' /\ todo' # <<>> /\ Task' = t /\ Elems(todo') = {t, u} \cup Elems(LowK)
      BY <1>1, <1>3, <1>4, <2>1, Swapped2
    <2>3. Has("convert")' = {t} /\ \A op \in TableOps : op # "convert" => Has(op)' = {}
      BY <1>4, <2>1, <2>2 DEF Has, TableOps, PlainOps
    <2>4. /\ Has("lost")' = {} /\ Has("mtset")' = {} /\ Has("format")' = {} /\ Has("mapwrite")' = {}
          /\ Has("dldel")' = {} /\ Has("addgt")' = {} /\ Has("updmt")' = {} /\ Has("mtappend")' = {}
      BY <2>3 DEF TableOps
    <2>5. /\ ~Lost' /\ ~Closing' /\ Updates' = {} /\ Dying' = {} /\ Garb' = {} /\ Turning' = {i}
          /\ Map' = CurMap'
      BY <2>1, <2>3, <2>4 DEF Lost, Closing, Updates, Dying, Garb, Turning, Map
    <2>6. /\ PoolStep /\ SoundInv' /\ BlankOK' /\ Programmed' = Programmed
          /\ flash' \in [Block -> [Page -> PageRec]]
          /\ e.pba \in Block /\ flash[e.pba] \in [Page -> PageRec]
          /\ flash'[e.pba] = [flash[e.pba] EXCEPT ![n] = g]
          /\ \A j \in 1..Len(dl) : j # i /\ dl[j].pba # NoBlock => flash'[dl[j].pba] = flash[dl[j].pba]
          /\ \A l \in Lba : Map[l] # NoBlock => flash'[Map[l]] = flash[Map[l]]
          /\ CurMap' = CurMap /\ MtBlocks' = MtBlocks /\ MtOK' /\ CacheOK'
      BY <1>1, <1>2, <1>5, <1>6, <1>7, <2>5, LogPage
    <2>7. dl' = dl /\ Map' = Map /\ Logs' = Logs
      BY <1>1, <1>2, <1>11, <2>5, <2>6 DEF Logs
    <2>8. LogsOK'
      <3> SUFFICES ASSUME NEW j \in 1..Len(dl)
                   PROVE  IF j = i THEN TurningOK(dl[j], flash'[dl[j].pba])
                          ELSE dl[j].pba # NoBlock => LogOK(dl[j], flash'[dl[j].pba])
        BY <2>5, <2>7 DEF LogsOK
      <3>1. CASE j # i
        BY <1>2, <1>3, <1>8, <2>6, <3>1 DEF LogsOK
      <3>2. CASE j = i
        <4>1. n = PagesPerBlock - 1 /\ n \in Nat /\ 0 \in Page /\ 0 < n
          BY <1>7, <1>11, Numbers DEF InOrder, n
        <4>2. flash[e.pba][0].t = "log"
          BY <1>9, <4>1 DEF LogOK, n
        <4>3. flash'[e.pba][0].t = "log" /\ flash'[e.pba][PagesPerBlock - 1].t = "data"
          BY <1>6, <1>7, <1>11, <2>6, <4>1, <4>2
        <4> QED BY <1>5, <3>2, <4>3 DEF TurningOK
      <3> QED BY <3>1, <3>2
    <2>9. DataOK'
      BY <1>3, <2>6, <2>7 DEF DataOK
    <2>10. Tables' /\ TypesOK' /\ OneLog' /\ FreshOK' /\ GarbLists'
      <3>1. Tables'
        BY <1>1, <1>2, <1>3, <2>5, <2>6, <2>7 DEF Tables
      <3>2. TypesOK' /\ OneLog'
        BY <1>1, <1>2, <1>3, <2>6, <2>7 DEF TypesOK, OneLog
      <3>3. FreshOK' /\ GarbLists'
        BY <1>1, <1>2, <2>4 DEF FreshOK, GarbLists
      <3> QED BY <3>1, <3>2, <3>3
    <2>11. TaskOK' /\ CacheHot'
      BY <2>1, <2>2, <2>5, Calm
    <2>12. Indices'
      BY <1>4, <1>5, <2>1, <2>2, <2>7 DEF Indices, PlainOps
    <2>13. Ready'
      <3>1. T("put") \notin Elems(todo')
        BY <2>1, <2>2, PlainStacks DEF T
      <3> QED BY <1>1, <1>5, <3>1 DEF Ready
    <2>14. LogTakes
      BY <1>8, <1>11, <2>5, <2>7 DEF LogTakes, TurningLogs, i
    <2>15. NftlInv'
      BY <2>2, <2>5, <2>6, <2>8, <2>9, <2>10, <2>11, <2>12, <2>13 DEF NftlInv
    <2> QED BY <2>6, <2>14, <2>15
  <1>12. CASE ~InOrder(e)
    <2> DEFINE u == OnLog("full", i)
    <2>1. /\ u.op = "full" /\ u.i = i /\ Lies(u, Tail(todo)) /\ Then(<<u>>)
      <3>1. u \in [op : {"full"}, i : Nat]
        BY <1>5 DEF OnLog
      <3>2. Lies(u, LowK)
        BY <3>1 DEF Lies
      <3> QED BY <1>1, <1>4, <1>12, <3>1, <3>2 DEF OnLog
    <2> HIDE DEF u
    <2>2. StackOK' /\ todo' # <<>> /\ Task' = u /\ Elems(todo') = {u} \cup Elems(LowK)
      BY <1>1, <1>3, <1>4, <2>1, Swapped
    <2>3. \A op \in TableOps : Has(op)' = {}
      BY <1>4, <2>1, <2>2 DEF Has, TableOps, PlainOps
    <2>4. /\ Has("lost")' = {} /\ Has("mtset")' = {} /\ Has("format")' = {} /\ Has("mapwrite")' = {}
          /\ Has("dldel")' = {} /\ Has("addgt")' = {} /\ Has("updmt")' = {} /\ Has("mtappend")' = {}
          /\ Has("convert")' = {}
      BY <2>3 DEF TableOps
    <2>5. /\ ~Lost' /\ ~Closing' /\ Updates' = {} /\ Dying' = {} /\ Garb' = {} /\ Turning' = {}
          /\ Map' = CurMap'
      BY <2>4 DEF Lost, Closing, Updates, Dying, Garb, Turning, Map
    <2>6. /\ PoolStep /\ SoundInv' /\ BlankOK' /\ Programmed' = Programmed
          /\ flash' \in [Block -> [Page -> PageRec]]
          /\ e.pba \in Block /\ flash[e.pba] \in [Page -> PageRec]
          /\ flash'[e.pba] = [flash[e.pba] EXCEPT ![n] = g]
          /\ \A j \in 1..Len(dl) : j # i /\ dl[j].pba # NoBlock => flash'[dl[j].pba] = flash[dl[j].pba]
          /\ \A l \in Lba : Map[l] # NoBlock => flash'[Map[l]] = flash[Map[l]]
          /\ CurMap' = CurMap /\ MtBlocks' = MtBlocks /\ MtOK' /\ CacheOK'
      BY <1>1, <1>2, <1>5, <1>6, <1>7, <2>5, LogPage
    <2>7. f \in LogRec /\ LogOK(f, flash'[e.pba]) /\ f.lba = e.lba /\ f.pba = e.pba
      <3>1. f = [e EXCEPT !.used = @ + 1, !.ppa[OfsOf(wr[1])] = e.used]
        BY DEF f, n, o
      <3>2. e.used < PagesPerBlock /\ LbaOf(wr[1]) = e.lba
        BY <1>5 DEF n
      <3>3. flash'[e.pba] = [flash[e.pba] EXCEPT ![e.used] = g] /\ g.t = "log"
        BY <1>6, <1>12, <2>6 DEF n
      <3>4. e \in LogRec /\ flash[e.pba] \in [Page -> PageRec] /\ LogOK(e, flash[e.pba])
            /\ wr[1] \in Lpa /\ g \in PageRec /\ g.k = wr[1]
        BY <1>5, <1>6, <1>9, <2>6
      <3>5. /\ f \in LogRec /\ f.lba = e.lba /\ f.pba = e.pba /\ f.used = e.used + 1
            /\ f.ppa = [e.ppa EXCEPT ![OfsOf(wr[1])] = e.used]
        BY <1>6, <3>1, <3>2, <3>4, Grown DEF o
      <3> HIDE DEF e
      <3>6. LogOK(f, [flash[e.pba] EXCEPT ![e.used] = g])
        BY <3>2, <3>3, <3>4, <3>5, LogGrows
      <3> QED BY <3>3, <3>5, <3>6
    <2>8. /\ dl' \in Seq(LogRec) /\ Len(dl') = Len(dl) /\ dl'[i] = f
          /\ \A j \in 1..Len(dl) : j # i => dl'[j] = dl[j]
          /\ OneLog'
          /\ {dl'[j] : j \in 1..Len(dl')} = ({dl[j] : j \in 1..Len(dl)} \ {dl[i]}) \cup {f}
      BY <1>3, <1>5, <1>10, <1>12, <2>7, LogChanges
    <2>9. Map' = Map /\ Logs' = (Logs \ {e}) \cup {f} /\ e \in Logs
      BY <1>2, <1>5, <2>5, <2>6, <2>8 DEF Logs
    <2>10. Tables'
      <3>0. Owned(Logs, Map, MtBlocks, Garb, Programmed) /\ e \in Logs /\ e.pba # NoBlock
        BY <1>3, <1>5, <2>9 DEF Tables
      <3> HIDE DEF e
      <3>1. Owned(Logs \ {e}, Map, MtBlocks, Garb, Programmed \ {e.pba}) /\ e.pba \in Programmed
        BY <3>0, OwnedLessLog
      <3>2. Owned((Logs \ {e}) \cup {f}, Map, MtBlocks, Garb,
                  (Programmed \ {e.pba}) \cup ({f.pba} \ {NoBlock}))
        BY <2>7, <3>1, OwnedNewLog
      <3>3. (Programmed \ {e.pba}) \cup ({f.pba} \ {NoBlock}) = Programmed
        BY <1>5, <2>7, <3>1
      <3>4. Owned(Logs', Map', MtBlocks', Garb', Programmed')
        BY <1>2, <2>5, <2>6, <2>9, <3>2, <3>3
      <3> QED BY <1>1, <1>2, <1>3, <2>5, <3>4 DEF Tables
    <2>11. LogsOK'
      <3> SUFFICES ASSUME NEW j \in 1..Len(dl), dl'[j].pba # NoBlock
                   PROVE  LogOK(dl'[j], flash'[dl'[j].pba])
        BY <2>5, <2>8 DEF LogsOK
      <3>1. CASE j # i
        BY <1>2, <1>3, <1>8, <2>6, <2>8, <3>1 DEF LogsOK
      <3>2. CASE j = i
        BY <2>7, <2>8, <3>2
      <3> QED BY <3>1, <3>2
    <2>12. DataOK'
      BY <1>3, <2>6, <2>9 DEF DataOK
    <2>13. TypesOK' /\ FreshOK' /\ GarbLists'
      <3>1. TypesOK'
        BY <1>1, <1>2, <1>3, <2>6, <2>8 DEF TypesOK
      <3>2. FreshOK' /\ GarbLists'
        BY <1>1, <1>2, <2>4 DEF FreshOK, GarbLists
      <3> QED BY <3>1, <3>2
    <2>14. TaskOK' /\ CacheHot'
      <3>1. (todo # <<>> => Task.op \in PlainOps)'
        BY <2>1, <2>2 DEF PlainOps
      <3> QED BY <2>5, <3>1, Calm
    <2>15. Indices'
      BY <1>4, <1>5, <2>1, <2>2 DEF Indices, PlainOps
    <2>16. Ready'
      <3>1. T("put") \notin Elems(todo')
        BY <2>1, <2>2, PlainStacks DEF T
      <3> QED BY <1>1, <1>5, <3>1 DEF Ready
    <2>17. LogTakes
      BY <1>8, <1>12, <2>5, <2>9 DEF LogTakes, TurningLogs, i, f, n, o
    <2>18. NftlInv'
      BY <2>2, <2>5, <2>6, <2>8, <2>10, <2>11, <2>12, <2>13, <2>14, <2>15, <2>16 DEF NftlInv
    <2> QED BY <2>6, <2>17, <2>18
  <1> QED BY <1>11, <1>12

===============================================================================
