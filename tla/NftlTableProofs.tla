--------------------------- MODULE NftlTableProofs ----------------------------
(***************************************************************************)
(* Every step of module Nftl keeps NftlInv, continued: the steps that end  *)
(* a log, change the mapping table, retire or move blocks, and mount.      *)
(***************************************************************************)
EXTENDS NftlProofs

-----------------------------------------------------------------------------
(***************************************************************************)
(* The end of a log: a merge or a conversion                               *)
(***************************************************************************)

\* Block b is the Data block of the logical block of log e, and log e is no more.
LogLeaves(e, b) == /\ Logs' = Logs \ {e} /\ Map' = [Map EXCEPT ![e.lba] = b]
                   /\ TurningLogs' = {}

\* Block b takes the place of log i and of the Data block of its logical block.
LEMMA LogEnds ==
  ASSUME NftlInv, todo # <<>>, Task.op \in {"convert", "mergecopy"},
         NEW i \in 1..Len(dl), Turning \subseteq {i}, NEW b \in Block,
         StackOK', todo' # <<>>, UpdMt(dl[i].lba, b) \in Elems(todo'), OnLog("dldel", i) \in Elems(todo'),
         \A t \in Elems(todo') : t.op = "addgt" \/ t = UpdMt(dl[i].lba, b) \/ t = OnLog("dldel", i)
                                \/ t \in Elems(Tail(todo)),
         \A t \in Elems(Tail(todo')) : t.op # "addgt", Task'.op \in {"addgt", "updmt"},
         GarbLists', SoundInv', BlankOK', flash' \in [Block -> [Page -> PageRec]],
         \A x \in Programmed : flash'[x] = flash[x], IsData(flash'[b]),
         Owned(Logs \ {dl[i]}, [Map EXCEPT ![dl[i].lba] = b], MtBlocks, Garb', Programmed'),
         UNCHANGED <<mt_pbas, mtl, dl, wr>>, UNCHANGED mt_cache \/ FillCache
  PROVE  NftlInv' /\ LogLeaves(dl[i], b)
  <1> DEFINE l == dl[i].lba
             u == UpdMt(l, b)
             v == OnLog("dldel", i)
  <1>1. /\ ~Lost /\ ~Closing /\ mt_pbas # NoBlock /\ Dying = {} /\ Garb = {} /\ Updates = {}
        /\ Map = CurMap /\ \A t \in Elems(Tail(todo)) : t.op \in PlainOps
    BY AtPlain
  <1>2. StackOK /\ dl \in Seq(LogRec) /\ Ready /\ Tables /\ LogsOK /\ DataOK /\ OneLog /\ FreshOK
        /\ TypesOK /\ Indices /\ Elems(todo) = {Task} \cup Elems(Tail(todo))
    BY <1>1, Parts, Stack DEF NftlInv
  <1>3. /\ u.op = "updmt" /\ u.lba = l /\ u.pba = b /\ v.op = "dldel" /\ v.i = i
        /\ dl[i] \in LogRec /\ l \in Lba
    <2>0. dl[i] \in LogRec
      BY <1>2
    <2>1. dl[i] \in LogRec /\ l \in Lba
      BY <2>0 DEF LogRec
    <2>2. u.op = "updmt" /\ u.lba = l /\ u.pba = b
      BY DEF UpdMt
    <2>3. v.op = "dldel" /\ v.i = i
      BY DEF OnLog
    <2> QED BY <2>1, <2>2, <2>3
  <1>4. Map \in [Lba -> BlockX] /\ MapTable = CurMap /\ MapTable \in [Lba -> BlockX]
        /\ PhysicalMt \in Block \X Page
    BY <1>1, MapSeen
  <1> HIDE DEF l, u, v
  <1>5. /\ u \in Elems(todo') /\ v \in Elems(todo')
        /\ \A t \in Elems(todo') : t.op = "addgt" \/ t = u \/ t = v \/ t \in Elems(Tail(todo))
    BY DEF u, v, l
  <1>6. /\ Has("updmt")' = {u} /\ Has("dldel")' = {v}
        /\ Has("lost")' = {} /\ Has("mtset")' = {} /\ Has("format")' = {} /\ Has("mapwrite")' = {}
        /\ Has("convert")' = {} /\ Has("mtappend")' = {}
    BY <1>1, <1>3, <1>5 DEF Has, PlainOps
  <1>7. ~Lost' /\ ~Closing' /\ Updates' = {u} /\ Dying' = {i} /\ Turning' = {}
    BY <1>3, <1>6 DEF Lost, Closing, Updates, Dying, Turning
  <1>8. MtBlocks \subseteq Programmed
    BY <1>1, Members
  <1>9. /\ PhysicalMt' = PhysicalMt /\ CurMap' = CurMap /\ MtBlocks' = MtBlocks /\ MtOK' /\ CacheOK'
    BY <1>1, <1>7, <1>8, MapKept
  <1>10. Map' = [Map EXCEPT ![l] = b]
    <2>1. (CHOOSE w \in Updates' : TRUE) = u
      BY <1>7
    <2> QED BY <1>1, <1>3, <1>7, <1>9, <2>1 DEF Map
  <1>11. Logs' = Logs \ {dl[i]}
    <2>1. \A j \in 1..Len(dl) : dl[j] = dl[i] => j = i
      BY <1>2 DEF OneLog
    <2> QED BY <1>1, <1>7, <2>1 DEF Logs
  <1>12. Tables'
    <2>1. Owned(Logs', Map', MtBlocks', Garb', Programmed')
      BY <1>9, <1>10, <1>11 DEF l
    <2> QED BY <1>1, <1>2, <2>1 DEF Tables
  <1>13. LogsOK'
    <2> SUFFICES ASSUME NEW j \in 1..Len(dl), j # i, dl[j].pba # NoBlock
                 PROVE  LogOK(dl[j], flash'[dl[j].pba])
      BY <1>7 DEF LogsOK
    <2>1. LogOK(dl[j], flash[dl[j].pba]) /\ dl[j].pba \in Programmed
      BY <1>1, <1>2, Members DEF LogsOK
    <2> QED BY <2>1
  <1>14. DataOK'
    <2> SUFFICES ASSUME NEW k \in Lba, Map'[k] # NoBlock PROVE IsData(flash'[Map'[k]])
      BY DEF DataOK
    <2>1. CASE k = l
      BY <1>3, <1>4, <1>10, <2>1
    <2>2. CASE k # l
      <3>1. Map'[k] = Map[k]
        BY <1>4, <1>10, <2>2
      <3>2. IsData(flash[Map[k]]) /\ Map[k] \in Programmed
        BY <1>1, <1>2, <3>1, Members DEF DataOK
      <3> QED BY <3>1, <3>2
    <2> QED BY <2>1, <2>2
  <1>15. TypesOK'
    <2>1. mt_cache' \in [at : BlockX \X (Page \cup {NoPage}), map : [Lba -> BlockX]]
      <3>1. CASE UNCHANGED mt_cache
        BY <1>2, <3>1 DEF TypesOK
      <3>2. CASE FillCache
        <4>1. PhysicalMt \in BlockX \X (Page \cup {NoPage})
          BY <1>4 DEF BlockX
        <4> QED BY <1>4, <3>2, <4>1 DEF FillCache
      <3> QED BY <3>1, <3>2
    <2> QED BY <1>1, <1>2, <2>1 DEF TypesOK
  <1>16. FreshOK' /\ OneLog'
    BY <1>1, <1>2, <1>6 DEF FreshOK, OneLog
  <1>17. Indices'
    BY <1>1, <1>2, <1>3, <1>5 DEF Indices, PlainOps
  <1>18. TaskOK' /\ CacheHot'
    BY <1>7 DEF TaskOK, CacheHot
  <1>19. Ready'
    <2>1. \A a \in Elems(todo') : a = T("ack") \/ a = T("put") => a \in Elems(todo)
      BY <1>2, <1>3, <1>5 DEF T
    <2> QED BY <1>2, <2>1, ReadyOn
  <1>20. LogLeaves(dl[i], b)
    BY <1>7, <1>10, <1>11 DEF LogLeaves, TurningLogs, l
  <1>21. NftlInv'
    BY <1>7, <1>9, <1>12, <1>13, <1>14, <1>15, <1>16, <1>17, <1>18, <1>19 DEF NftlInv
  <1> QED BY <1>20, <1>21

\* Short stacks put together.
LEMMA Joined3 ==
  ASSUME NEW t, NEW u, NEW v
  PROVE  <<t>> \o <<u, v>> = <<t, u, v>>
  <1>1. <<t>> \in Seq({t, u, v}) /\ <<u, v>> \in Seq({t, u, v})
    OBVIOUS
  <1>2. <<t>> \o <<u, v>> \in Seq({t, u, v}) /\ <<t, u, v>> \in Seq({t, u, v})
    BY <1>1
  <1>3. Len(<<t>> \o <<u, v>>) = 3 /\ Len(<<t, u, v>>) = 3
    BY <1>1
  <1>4. \A i \in 1..3 : (<<t>> \o <<u, v>>)[i] = <<t, u, v>>[i]
    BY <1>1
  <1> QED BY <1>2, <1>3, <1>4, SameSeq

LEMMA Joined2 ==
  ASSUME NEW t, NEW u
  PROVE  <<t>> \o <<u>> = <<t, u>>
  <1>1. <<t>> \in Seq({t, u}) /\ <<u>> \in Seq({t, u})
    OBVIOUS
  <1>2. <<t>> \o <<u>> \in Seq({t, u}) /\ <<t, u>> \in Seq({t, u})
    BY <1>1
  <1>3. Len(<<t>> \o <<u>>) = 2 /\ Len(<<t, u>>) = 2
    BY <1>1
  <1>4. \A i \in 1..2 : (<<t>> \o <<u>>)[i] = <<t, u>>[i]
    BY <1>1
  <1> QED BY <1>2, <1>3, <1>4, SameSeq

\* Stacks that end a log.
LEMMA DelIn ==
  ASSUME NEW i \in Nat, NEW k \in RetK \cup FullK
  PROVE  <<OnLog("dldel", i)>> \o k \in DelK
  BY DEF DelK

LEMMA UpdMtIn ==
  ASSUME NEW u \in UpdMts, NEW k \in DelK
  PROVE  <<u>> \o k \in AddK
  <1>1. <<u>> \o k \in UpdMtK
    BY DEF UpdMtK
  <1> QED BY <1>1 DEF AddK

\* The block or blocks that nftl_addto_gt gets.
LEMMA Given ==
  ASSUME NEW g, NEW A, A = {AddGt(g)}, Has("addgt")' = A
  PROVE  Garb' = Elems(g)
  <1>1. AddGt(g).g = g
    BY DEF AddGt
  <1> QED BY <1>1 DEF Garb

\* The end of a log on the stack, with nothing to retire and with blocks g.
LEMMA EndStack ==
  ASSUME StackOK, todo # <<>>, Tail(todo) \in RetK \cup FullK,
         \A t \in Elems(Tail(todo)) : t.op \in PlainOps,
         NEW i \in Nat, NEW l \in Lba, NEW b \in Block,
         Then(<<UpdMt(l, b), OnLog("dldel", i)>>)
  PROVE  /\ StackOK' /\ todo' # <<>> /\ Task'.op = "updmt" /\ Garb' = {} /\ GarbLists'
         /\ Elems(todo') = {UpdMt(l, b), OnLog("dldel", i)} \cup Elems(Tail(todo))
         /\ \A t \in Elems(Tail(todo')) : t.op # "addgt"
  <1> DEFINE u == UpdMt(l, b)
             v == OnLog("dldel", i)
  <1>1. u \in UpdMts /\ u.op = "updmt"
    BY DEF UpdMt, UpdMts
  <1>2. v \in [op : {"dldel"}, i : Nat] /\ v.op = "dldel"
    BY DEF OnLog
  <1>3. v \in Under
    BY <1>2 DEF Under
  <1>4. <<v>> \o Tail(todo) \in UpdK
    BY DelIn DEF UpdK
  <1> HIDE DEF u, v
  <1>5. Lies(v, Tail(todo)) /\ Lies(u, <<v>> \o Tail(todo))
    BY <1>1, <1>2, <1>4 DEF Lies
  <1>6. Then(<<u, v>>)
    BY DEF u, v
  <1>7. /\ StackOK' /\ todo' # <<>> /\ Task' = u /\ Elems(todo') = {u, v} \cup Elems(Tail(todo))
        /\ Elems(Tail(todo')) = {v} \cup Elems(Tail(todo))
    BY <1>3, <1>5, <1>6, Swapped2
  <1>8. Has("addgt")' = {}
    BY <1>1, <1>2, <1>7 DEF Has, PlainOps
  <1>9. Garb' = {} /\ GarbLists'
    BY <1>8 DEF Garb, GarbLists
  <1>10. \A t \in Elems(Tail(todo')) : t.op # "addgt"
    BY <1>2, <1>7 DEF PlainOps
  <1> QED BY <1>1, <1>7, <1>9, <1>10 DEF u, v

LEMMA EndStackGiven ==
  ASSUME StackOK, todo # <<>>, Tail(todo) \in RetK \cup FullK,
         \A t \in Elems(Tail(todo)) : t.op \in PlainOps,
         NEW i \in Nat, NEW l \in Lba, NEW b \in Block,
         NEW g \in Seq(Block), Len(g) \in 1..2, Len(g) = 2 => g[1] # g[2],
         Then(<<AddGt(g), UpdMt(l, b), OnLog("dldel", i)>>)
  PROVE  /\ StackOK' /\ todo' # <<>> /\ Task'.op = "addgt" /\ Garb' = Elems(g) /\ GarbLists'
         /\ Elems(todo') = {AddGt(g)} \cup {UpdMt(l, b), OnLog("dldel", i)} \cup Elems(Tail(todo))
         /\ \A t \in Elems(Tail(todo')) : t.op # "addgt"
  <1> DEFINE u == UpdMt(l, b)
             v == OnLog("dldel", i)
             a == AddGt(g)
  <1>0. a \in [op : {"addgt"}, g : Seq(Block)] /\ a.op = "addgt" /\ a.g = g
    BY DEF AddGt
  <1>1. u \in UpdMts /\ u.op = "updmt"
    BY DEF UpdMt, UpdMts
  <1>2. v \in [op : {"dldel"}, i : Nat] /\ v.op = "dldel"
    BY DEF OnLog
  <1>3. v \in Under /\ u \in Under
    BY <1>1, <1>2 DEF Under
  <1>4. <<v>> \o Tail(todo) \in DelK
    BY DelIn
  <1> HIDE DEF u, v, a
  <1>5. <<u>> \o (<<v>> \o Tail(todo)) \in AddK
    BY <1>1, <1>4, UpdMtIn
  <1>6. Lies(a, <<u>> \o (<<v>> \o Tail(todo)))
    BY <1>0, <1>5 DEF Lies
  <1>7. Then(<<a, u, v>>)
    BY DEF u, v, a
  <1>8. /\ StackOK' /\ todo' # <<>> /\ Task' = a /\ Elems(todo') = {a, u, v} \cup Elems(Tail(todo))
        /\ Elems(Tail(todo')) = {u, v} \cup Elems(Tail(todo))
    BY <1>3, <1>6, <1>7, Swapped3
  <1>9. Has("addgt")' = {a}
    BY <1>0, <1>1, <1>2, <1>8 DEF Has, PlainOps
  <1>10. Garb' = Elems(g) /\ GarbLists'
    <2>1. GarbLists'
      BY <1>0, <1>9 DEF GarbLists
    <2> QED BY <1>9, <2>1, Given DEF a
  <1>11. \A t \in Elems(Tail(todo')) : t.op # "addgt"
    BY <1>1, <1>2, <1>8 DEF PlainOps
  <1> QED BY <1>0, <1>8, <1>10, <1>11 DEF u, v, a

LEMMA ConvertOK == NftlInv /\ Convert =>
  NftlInv' /\ PoolStep /\ LogLeaves(dl[Task.i], dl[Task.i].pba) /\ Turning = {Task.i}
  <1> SUFFICES ASSUME NftlInv, Convert
           PROVE  NftlInv' /\ PoolStep /\ LogLeaves(dl[Task.i], dl[Task.i].pba) /\ Turning = {Task.i}
    OBVIOUS
  <1> DEFINE i == Task.i
             e == dl[i]
             l == e.lba
             b == e.pba
             old == Map[l]
  <1>1. /\ todo # <<>> /\ Task.op = "convert" /\ FillCache
        /\ UNCHANGED <<poolVars, flash, mt_pbas, mtl, dl, wr>>
        /\ Then(When(MapTable[l] # NoBlock, AddGt(<<MapTable[l]>>))
                \o <<UpdMt(l, b), OnLog("dldel", i)>>)
    BY DEF Convert, Top
  <1>2. /\ ~Lost /\ ~Closing /\ mt_pbas # NoBlock /\ Dying = {} /\ Garb = {}
        /\ Map = CurMap /\ \A t \in Elems(Tail(todo)) : t.op \in PlainOps
    BY <1>1, AtPlain
  <1>3. StackOK /\ dl \in Seq(LogRec) /\ Tables /\ LogsOK /\ TypesOK /\ Indices /\ SoundInv /\ BlankOK
        /\ OneLog /\ NoBlock \notin Block
    BY <1>2, Parts DEF NftlInv
  <1>4. Tail(todo) \in FullK /\ Elems(todo) = {Task} \cup Elems(Tail(todo))
    BY <1>1, <1>3, Unders, Stack
  <1>5. Turning = {i}
    <2>1. Has("convert") = {Task}
      BY <1>1, <1>2, <1>4 DEF Has, PlainOps
    <2> QED BY <2>1 DEF Turning
  <1>6. i \in 1..Len(dl) /\ i \in Nat
    BY <1>1, <1>3, <1>4 DEF Indices
  <1>7. e \in LogRec
    BY <1>3, <1>6
  <1>8. TurningOK(e, flash[e.pba])
    BY <1>2, <1>3, <1>5, <1>6 DEF LogsOK
  <1>9. l \in Lba /\ b \in Block /\ IsData(flash[b])
    <2>1. l \in Lba /\ b \in BlockX
      BY <1>7 DEF LogRec
    <2> QED BY <1>8, <2>1 DEF TurningOK, IsData, BlockX
  <1>10. Map \in [Lba -> BlockX] /\ MapTable[l] = old
    BY <1>2, MapSeen
  <1>11. e \in Logs
    BY <1>2, <1>6 DEF Logs
  <1>12. PoolStep /\ SoundInv' /\ BlankOK' /\ Programmed' = Programmed
    BY <1>1, <1>3, Sound DEF PoolStep, poolVars, Programmed, BlankOK
  <1>13. /\ Owned(Logs \ {e}, [Map EXCEPT ![l] = b], MtBlocks, {old} \ {NoBlock}, Programmed)
    <2>1. Owned(Logs, Map, MtBlocks, Garb, Programmed)
      BY <1>3 DEF Tables
    <2> HIDE DEF e
    <2>2. Owned(Logs \ {e}, Map, MtBlocks, Garb, Programmed \ {e.pba}) /\ e.pba \in Programmed
      BY <1>3, <1>9, <1>11, <2>1, OwnedLessLog
    <2> HIDE DEF l, b
    <2>3. Owned(Logs \ {e}, [Map EXCEPT ![l] = b], MtBlocks, Garb \cup ({Map[l]} \ {NoBlock}),
                (Programmed \ {e.pba}) \cup {b})
      BY <1>3, <1>9, <1>10, <2>2, OwnedEntry DEF b
    <2>4. (Programmed \ {e.pba}) \cup {b} = Programmed /\ Garb \cup ({Map[l]} \ {NoBlock}) = {old} \ {NoBlock}
      BY <1>2, <2>2 DEF b
    <2> QED BY <2>3, <2>4
  <1>14. flash' \in [Block -> [Page -> PageRec]] /\ IsData(flash'[b])
    BY <1>1, <1>3, <1>9 DEF TypesOK
  <1>15. CASE old = NoBlock
    <2>1. Then(<<UpdMt(l, b), OnLog("dldel", i)>>)
      BY <1>1, <1>10, <1>15 DEF When
    <2> HIDE DEF i, l, b
    <2>2. /\ StackOK' /\ todo' # <<>> /\ Task'.op = "updmt" /\ Garb' = {} /\ GarbLists'
          /\ Elems(todo') = {UpdMt(l, b), OnLog("dldel", i)} \cup Elems(Tail(todo))
          /\ \A t \in Elems(Tail(todo')) : t.op # "addgt"
      BY <1>1, <1>2, <1>3, <1>4, <1>6, <1>9, <2>1, EndStack
    <2>3. Owned(Logs \ {e}, [Map EXCEPT ![l] = b], MtBlocks, Garb', Programmed')
      BY <1>12, <1>13, <1>15, <2>2
    <2>4. /\ UpdMt(l, b) \in Elems(todo') /\ OnLog("dldel", i) \in Elems(todo')
          /\ \A t \in Elems(todo') : t.op = "addgt" \/ t = UpdMt(l, b) \/ t = OnLog("dldel", i)
                                   \/ t \in Elems(Tail(todo))
      BY <2>2
    <2>5. NftlInv' /\ LogLeaves(e, b)
      BY <1>1, <1>5, <1>6, <1>9, <1>12, <1>14, <2>2, <2>3, <2>4, LogEnds DEF l
    <2> QED BY <1>5, <1>12, <2>5 DEF i, b
  <1>16. CASE old # NoBlock
    <2>1. Then(<<AddGt(<<old>>), UpdMt(l, b), OnLog("dldel", i)>>)
      <3>1. Then(<<AddGt(<<old>>)>> \o <<UpdMt(l, b), OnLog("dldel", i)>>)
        BY <1>1, <1>10, <1>16 DEF When
      <3> DEFINE a == AddGt(<<old>>)
                 u == UpdMt(l, b)
                 v == OnLog("dldel", i)
      <3> HIDE DEF a, u, v
      <3>2. <<a>> \o <<u, v>> = <<a, u, v>>
        BY Joined3
      <3> QED BY <3>1, <3>2 DEF a, u, v
    <2>2. old \in Block
      BY <1>9, <1>10, <1>16 DEF BlockX
    <2> HIDE DEF i, l, b, old
    <2>3. <<old>> \in Seq(Block) /\ Len(<<old>>) = 1 /\ Elems(<<old>>) = {old}
      BY <2>2 DEF Elems
    <2>4. /\ StackOK' /\ todo' # <<>> /\ Task'.op = "addgt" /\ Garb' = {old} /\ GarbLists'
          /\ Elems(todo') = {AddGt(<<old>>)} \cup {UpdMt(l, b), OnLog("dldel", i)} \cup Elems(Tail(todo))
          /\ \A t \in Elems(Tail(todo')) : t.op # "addgt"
      <3> DEFINE g == <<old>>
      <3>1. g \in Seq(Block) /\ Len(g) \in 1..2 /\ Len(g) # 2 /\ Elems(g) = {old}
        BY <2>3
      <3>2. Then(<<AddGt(g), UpdMt(l, b), OnLog("dldel", i)>>)
        BY <2>1
      <3> HIDE DEF g
      <3>3. /\ StackOK' /\ todo' # <<>> /\ Task'.op = "addgt" /\ Garb' = Elems(g) /\ GarbLists'
            /\ Elems(todo') = {AddGt(g)} \cup {UpdMt(l, b), OnLog("dldel", i)} \cup Elems(Tail(todo))
            /\ \A t \in Elems(Tail(todo')) : t.op # "addgt"
        BY <1>1, <1>2, <1>3, <1>4, <1>6, <1>9, <3>1, <3>2, EndStackGiven
      <3> QED BY <3>1, <3>3 DEF g
    <2>5. Owned(Logs \ {e}, [Map EXCEPT ![l] = b], MtBlocks, Garb', Programmed')
      BY <1>12, <1>13, <1>16, <2>4
    <2>6. /\ UpdMt(l, b) \in Elems(todo') /\ OnLog("dldel", i) \in Elems(todo')
          /\ \A t \in Elems(todo') : t.op = "addgt" \/ t = UpdMt(l, b) \/ t = OnLog("dldel", i)
                                   \/ t \in Elems(Tail(todo))
      BY <2>4 DEF AddGt
    <2>7. NftlInv' /\ LogLeaves(e, b)
      BY <1>1, <1>5, <1>6, <1>9, <1>12, <1>14, <2>4, <2>5, <2>6, LogEnds DEF l
    <2> QED BY <1>5, <1>12, <2>7 DEF i, b
  <1> QED BY <1>15, <1>16

\* An entry leaves dl_blocktab.
LEMMA Removed ==
  ASSUME dl \in Seq(LogRec), NEW i \in 1..Len(dl),
         dl' = SubSeq(dl, 1, i - 1) \o SubSeq(dl, i + 1, Len(dl))
  PROVE  /\ dl' \in Seq(LogRec)
         /\ \A j \in 1..Len(dl') : \E k \in (1..Len(dl)) \ {i} :
              dl'[j] = dl[k] /\ k = IF j < i THEN j ELSE j + 1
         /\ {dl'[j] : j \in 1..Len(dl')} = {dl[k] : k \in (1..Len(dl)) \ {i}}
  <1> DEFINE n == Len(dl)
             r == SubSeq(dl, 1, i - 1)
             s == SubSeq(dl, i + 1, n)
  <1>1. n \in Nat /\ i \in Nat /\ i >= 1 /\ i <= n /\ i - 1 \in Nat /\ n - i \in Nat
    OBVIOUS
  <1>2. r \in Seq(LogRec) /\ Len(r) = i - 1 /\ \A j \in 1..(i - 1) : r[j] = dl[j]
    BY <1>1
  <1>3. s \in Seq(LogRec) /\ Len(s) = n - i /\ \A j \in 1..(n - i) : s[j] = dl[i + j]
    <2>1. s \in Seq(LogRec) /\ Len(s) = n - i
      BY <1>1
    <2>2. ASSUME NEW j \in 1..(n - i) PROVE s[j] = dl[i + j]
      <3>1. s[j] = dl[(i + 1) + j - 1] /\ (i + 1) + j - 1 = i + j
        BY <1>1
      <3> QED BY <3>1
    <2> QED BY <2>1, <2>2
  <1> HIDE DEF r, s
  <1>4. dl' = r \o s
    BY DEF r, s
  <1>5. dl' \in Seq(LogRec) /\ Len(dl') = n - 1
    <2>1. r \in Seq(LogRec) /\ s \in Seq(LogRec)
      BY <1>2, <1>3
    <2>2. r \o s \in Seq(LogRec) /\ Len(r \o s) = Len(r) + Len(s)
      BY <2>1, SMTT(40)
    <2>3. Len(r) + Len(s) = n - 1
      BY <1>1, <1>2, <1>3
    <2> QED BY <1>4, <2>2, <2>3
  <1>6. ASSUME NEW j \in 1..(n - 1) PROVE dl'[j] = dl[IF j < i THEN j ELSE j + 1]
    <2>1. CASE j < i
      <3>1. j \in 1..(i - 1) /\ j \in 1..Len(r)
        BY <1>1, <1>2, <2>1
      <3>2. (r \o s)[j] = r[j]
        BY <1>2, <1>3, <3>1
      <3> QED BY <1>2, <1>4, <2>1, <3>1, <3>2
    <2>2. CASE ~(j < i)
      <3>1. j - (i - 1) \in 1..(n - i) /\ i + (j - (i - 1)) = j + 1
        BY <1>1, <2>2
      <3>2. (r \o s)[j] = s[j - (i - 1)]
        BY <1>1, <1>2, <1>3, <2>2, <3>1
      <3> QED BY <1>3, <1>4, <2>2, <3>1, <3>2
    <2> QED BY <2>1, <2>2
  <1>7. \A j \in 1..(n - 1) : (IF j < i THEN j ELSE j + 1) \in (1..n) \ {i}
    BY <1>1
  <1>8. \A j \in 1..Len(dl') : \E k \in (1..n) \ {i} : dl'[j] = dl[k] /\ k = IF j < i THEN j ELSE j + 1
    BY <1>5, <1>6, <1>7
  <1>9. ASSUME NEW k \in (1..n) \ {i} PROVE \E j \in 1..Len(dl') : dl'[j] = dl[k]
    <2>1. CASE k < i
      <3>1. k \in 1..(n - 1)
        BY <1>1, <2>1
      <3> QED BY <1>5, <1>6, <2>1, <3>1
    <2>2. CASE ~(k < i)
      <3>1. k - 1 \in 1..(n - 1) /\ ~(k - 1 < i) /\ (k - 1) + 1 = k
        BY <1>1, <2>2
      <3>2. dl'[k - 1] = dl[(k - 1) + 1]
        BY <1>6, <3>1
      <3> QED BY <1>5, <3>1, <3>2
    <2> QED BY <2>1, <2>2
  <1>10. {dl'[j] : j \in 1..Len(dl')} = {dl[k] : k \in (1..n) \ {i}}
    <2> DEFINE S == {dl'[j] : j \in 1..Len(dl')}
               R == {dl[k] : k \in (1..n) \ {i}}
    <2>1. ASSUME NEW x \in S PROVE x \in R
      <3>1. PICK j \in 1..Len(dl') : x = dl'[j]
        OBVIOUS
      <3>2. PICK k \in (1..n) \ {i} : dl'[j] = dl[k]
        BY <1>8
      <3> QED BY <3>1, <3>2
    <2>2. ASSUME NEW x \in R PROVE x \in S
      <3>1. PICK k \in (1..n) \ {i} : x = dl[k]
        OBVIOUS
      <3>2. PICK j \in 1..Len(dl') : dl'[j] = dl[k]
        BY <1>9
      <3> QED BY <3>1, <3>2
    <2> QED BY <2>1, <2>2
  <1> QED BY <1>5, <1>8, <1>10

LEMMA DeleteLogOK == NftlInv /\ DeleteLog => NftlInv' /\ PoolStep /\ Unmoved
  <1> SUFFICES ASSUME NftlInv, DeleteLog PROVE NftlInv' /\ PoolStep /\ Unmoved
    OBVIOUS
  <1> DEFINE i == Task.i
  <1>1. /\ todo # <<>> /\ Task.op = "dldel" /\ Then(<<>>)
        /\ dl' = SubSeq(dl, 1, i - 1) \o SubSeq(dl, i + 1, Len(dl))
        /\ UNCHANGED <<poolVars, flash, mt_pbas, mtl, mt_cache, wr>> /\ StackOK
    BY DEF DeleteLog, Top, NftlInv
  <1>2. /\ \A t \in Elems(Tail(todo)) : t.op \in PlainOps
        /\ \A op : op \notin PlainOps => Has(op) = {t \in {Task} : t.op = op}
        /\ Elems(todo) = {Task} \cup Elems(Tail(todo))
    BY <1>1, PlainUnder, Stack
  <1>3. /\ Has("lost") = {} /\ Has("mtset") = {} /\ Has("format") = {} /\ Has("mapwrite") = {}
        /\ Has("addgt") = {} /\ Has("updmt") = {} /\ Has("mtappend") = {} /\ Has("convert") = {}
        /\ Has("dldel") = {Task}
    <2>1. \A op \in TableOps : Has(op) = {t \in {Task} : t.op = op}
      BY <1>2 DEF PlainOps, TableOps
    <2> QED BY <1>1, <2>1 DEF TableOps
  <1>4. /\ ~Lost /\ ~Closing /\ Updates = {} /\ Dying = {i} /\ Garb = {} /\ Turning = {}
        /\ Map = CurMap
    BY <1>3 DEF Lost, Closing, Updates, Dying, Garb, Turning, Map
  <1>5. /\ SoundInv /\ BlankOK /\ dl \in Seq(LogRec) /\ Ready /\ Tables /\ LogsOK /\ DataOK
        /\ OneLog /\ FreshOK /\ TypesOK /\ Indices /\ MtOK /\ CacheOK
    BY <1>4, Parts DEF NftlInv
  <1>6. mt_pbas # NoBlock
    BY <1>3, <1>5 DEF FreshOK
  <1>7. todo' = Tail(todo) /\ StackOK' /\ Elems(todo') = Elems(Tail(todo))
    BY <1>1, Popped
  <1>8. /\ Has("lost")' = {} /\ Has("mtset")' = {} /\ Has("format")' = {} /\ Has("mapwrite")' = {}
        /\ Has("addgt")' = {} /\ Has("updmt")' = {} /\ Has("mtappend")' = {} /\ Has("convert")' = {}
        /\ Has("dldel")' = {}
    BY <1>2, <1>7 DEF Has, PlainOps
  <1>9. /\ ~Lost' /\ ~Closing' /\ Updates' = {} /\ Dying' = {} /\ Garb' = {} /\ Turning' = {}
        /\ Map' = CurMap'
    BY <1>8 DEF Lost, Closing, Updates, Dying, Garb, Turning, Map
  <1>10. i \in 1..Len(dl)
    BY <1>1, <1>2, <1>5 DEF Indices
  <1> HIDE DEF i
  <1>11. /\ dl' \in Seq(LogRec)
         /\ \A j \in 1..Len(dl') : \E k \in (1..Len(dl)) \ {i} :
              dl'[j] = dl[k] /\ k = IF j < i THEN j ELSE j + 1
         /\ {dl'[j] : j \in 1..Len(dl')} = {dl[k] : k \in (1..Len(dl)) \ {i}}
    BY <1>1, <1>5, <1>10, Removed
  <1>12. Logs' = Logs
    <2>1. (1..Len(dl')) \ {} = 1..Len(dl')
      OBVIOUS
    <2> QED BY <1>4, <1>9, <1>11, <2>1 DEF Logs
  <1>13. OneLog'
    <2> SUFFICES ASSUME NEW j \in 1..Len(dl'), NEW m \in 1..Len(dl'), dl'[j].lba = dl'[m].lba
                 PROVE  j = m
      BY DEF OneLog
    <2>1. PICK k \in (1..Len(dl)) \ {i} : dl'[j] = dl[k] /\ k = IF j < i THEN j ELSE j + 1
      BY <1>11
    <2>2. PICK n \in (1..Len(dl)) \ {i} : dl'[m] = dl[n] /\ n = IF m < i THEN m ELSE m + 1
      BY <1>11
    <2>3. k = n
      BY <1>5, <2>1, <2>2 DEF OneLog
    <2>4. j \in Int /\ m \in Int /\ i \in Int
      BY <1>10
    <2> QED BY <2>1, <2>2, <2>3, <2>4
  <1>14. PoolStep /\ SoundInv' /\ BlankOK' /\ Programmed' = Programmed
    BY <1>1, <1>5, Sound DEF PoolStep, poolVars, Programmed, BlankOK
  <1>15. CurMap' = CurMap /\ MtBlocks' = MtBlocks /\ MtOK' /\ CacheOK'
    BY <1>1, <1>4, <1>6, <1>9, MapKept
  <1>16. Map' = Map
    BY <1>4, <1>9, <1>15
  <1>17. Tables'
    <2>1. Owned(Logs', Map', MtBlocks', Garb', Programmed')
      BY <1>4, <1>5, <1>9, <1>12, <1>14, <1>15, <1>16 DEF Tables
    <2> QED BY <1>1, <1>4, <1>5, <2>1 DEF Tables
  <1>18. LogsOK'
    <2> SUFFICES ASSUME NEW j \in 1..Len(dl'), dl'[j].pba # NoBlock
                 PROVE  LogOK(dl'[j], flash'[dl'[j].pba])
      BY <1>9 DEF LogsOK
    <2>1. PICK k \in (1..Len(dl)) \ {i} : dl'[j] = dl[k]
      BY <1>11
    <2> QED BY <1>1, <1>4, <1>5, <2>1 DEF LogsOK
  <1>19. DataOK' /\ FreshOK' /\ GarbLists'
    BY <1>1, <1>5, <1>6, <1>8, <1>16 DEF DataOK, FreshOK, GarbLists
  <1>20. TypesOK'
    BY <1>1, <1>4, <1>5, <1>9, <1>11 DEF TypesOK
  <1>21. TaskOK' /\ CacheHot'
    BY <1>1, <1>2, <1>9, PoppedPlain
  <1>22. Indices'
    BY <1>2, <1>5, <1>7 DEF Indices, PlainOps
  <1>23. Ready'
    <2>1. T("ack") \in Elems(todo') => wr' \in Lpa \X Data
      BY <1>1, <1>2, <1>5, <1>7 DEF Ready
    <2>2. ASSUME T("put") \in Elems(todo'), NEW j \in 1..Len(dl'), dl'[j].lba = LbaOf(wr'[1])
          PROVE  dl'[j].pba # NoBlock /\ dl'[j].used < PagesPerBlock
      <3>1. PICK k \in (1..Len(dl)) \ {i} : dl'[j] = dl[k]
        BY <1>11
      <3> QED BY <1>1, <1>2, <1>5, <1>7, <2>2, <3>1 DEF Ready
    <2> QED BY <2>1, <2>2 DEF Ready
  <1>24. Unmoved
    BY <1>1, <1>4, <1>9, <1>12, <1>16 DEF Unmoved, TurningLogs
  <1>25. NftlInv'
    BY <1>7, <1>9, <1>13, <1>14, <1>15, <1>17, <1>18, <1>19, <1>20, <1>21, <1>22, <1>23 DEF NftlInv
  <1> QED BY <1>14, <1>24, <1>25

\* Page 0 of a merged block says that it is a Data block.
LEMMA MergedType ==
  ASSUME flash \in [Block -> [Page -> PageRec]], NEW e \in LogRec, e.pba \in Block,
         NEW old \in BlockX, NEW p \in Page
  PROVE  MergedPage(e, old, p) \in PageRec /\ (p = 0 => MergedPage(e, old, p).t = "data")
  <1>1. \A c \in PageRec : CopyAs("data", c) \in PageRec /\ CopyAs("data", c).t = "data"
    BY DEF CopyAs, PageRec
  <1>2. UserPage("data", NoKey, Junk) \in PageRec /\ UserPage("data", NoKey, Junk).t = "data"
    <2>1. NoKey \in Int
      BY DEF NoKey
    <2> QED BY <2>1, UserPageType
  <1>3. e.ppa[p] # NoPage => e.ppa[p] \in Page /\ flash[e.pba][e.ppa[p]] \in PageRec
    <2>1. e.ppa \in [Page -> Page \cup {NoPage}]
      BY DEF LogRec
    <2> QED BY <2>1
  <1>4. old # NoBlock => flash[old][p] \in PageRec
    BY DEF BlockX
  <1> QED BY <1>1, <1>2, <1>3, <1>4, Numbers DEF MergedPage

LEMMA MergeCopyOK == NftlInv /\ MergeCopy =>
  NftlInv' /\ PoolStep /\ LogLeaves(dl[Task.i], Task.blk) /\ Turning = {}
  <1> SUFFICES ASSUME NftlInv, MergeCopy
           PROVE  NftlInv' /\ PoolStep /\ LogLeaves(dl[Task.i], Task.blk) /\ Turning = {}
    OBVIOUS
  <1> DEFINE i == Task.i
             e == dl[i]
             l == e.lba
             b == Task.blk
             old == Task.old
             g == <<e.pba>> \o When(old # NoBlock, old)
             F == [p \in Page |-> MergedPage(e, old, p)]
  <1>1. /\ todo # <<>> /\ Task.op = "mergecopy" /\ e.pba # NoBlock /\ FirstProgram(b)
        /\ flash' = [flash EXCEPT ![b] = F]
        /\ Then(<<AddGt(g), UpdMt(l, b), OnLog("dldel", i)>>)
        /\ UNCHANGED <<mt_pbas, mtl, mt_cache, dl, wr>>
    BY DEF MergeCopy, Top
  <1>2. /\ ~Lost /\ ~Closing /\ mt_pbas # NoBlock /\ Dying = {} /\ Garb = {}
        /\ Map = CurMap /\ \A t \in Elems(Tail(todo)) : t.op \in PlainOps
    BY <1>1, AtPlain
  <1>3. StackOK /\ dl \in Seq(LogRec) /\ Tables /\ Indices /\ NoBlock \notin Block /\ TaskOK
        /\ flash \in [Block -> [Page -> PageRec]]
    BY <1>2, Parts DEF NftlInv
  <1>4. /\ Tail(todo) \in RetK /\ Elems(todo) = {Task} \cup Elems(Tail(todo)) /\ old \in BlockX
    BY <1>1, <1>3, Unders, Stack
  <1>5. Turning = {}
    <2>1. Has("convert") = {}
      BY <1>1, <1>2, <1>4 DEF Has, PlainOps
    <2> QED BY <2>1 DEF Turning
  <1>6. i \in 1..Len(dl) /\ i \in Nat
    BY <1>1, <1>3, <1>4 DEF Indices
  <1>7. e \in LogRec
    BY <1>3, <1>6
  <1>8. l \in Lba /\ e.pba \in Block
    <2>1. l \in Lba /\ e.pba \in BlockX
      BY <1>7 DEF LogRec
    <2> QED BY <1>1, <2>1 DEF BlockX
  <1>9. old = Map[l]
    BY <1>1, <1>3 DEF TaskOK
  <1>10. e \in Logs /\ e.pba \notin DataBlocks(Map)
    <2>1. e \in Logs
      BY <1>2, <1>6 DEF Logs
    <2>2. i \in (1..Len(dl)) \ Dying
      BY <1>2, <1>6
    <2> QED BY <1>1, <1>2, <2>1, <2>2, Members
  <1>11. F \in [Page -> PageRec] /\ F[0].t = "data"
    <2>1. \A p \in Page : MergedPage(e, old, p) \in PageRec /\ (p = 0 => MergedPage(e, old, p).t = "data")
      BY <1>3, <1>4, <1>7, <1>8, MergedType
    <2> QED BY <2>1, Numbers
  <1>12. Map \in [Lba -> BlockX]
    BY <1>2, MapSeen
  <1>13. g \in Seq(Block) /\ Len(g) \in 1..2 /\ (Len(g) = 2 => g[1] # g[2])
         /\ Elems(g) = {e.pba} \cup ({old} \ {NoBlock})
    <2> DEFINE x == e.pba
    <2>1. CASE old = NoBlock
      <3>1. g = <<x>>
        BY <2>1 DEF When
      <3> HIDE DEF g, x
      <3>2. <<x>> \in Seq(Block) /\ Len(<<x>>) = 1 /\ Elems(<<x>>) = {x}
        BY <1>8 DEF Elems, x
      <3> QED BY <2>1, <3>1, <3>2 DEF x
    <2>2. CASE old # NoBlock
      <3>0. old \in Block /\ old # e.pba
        BY <1>4, <1>8, <1>9, <1>10, <2>2 DEF DataBlocks, BlockX
      <3>1. g = <<x>> \o <<old>>
        BY <2>2 DEF When
      <3> HIDE DEF g, x, old
      <3>2. g = <<x, old>>
        BY <3>1, Joined2
      <3>3. <<x, old>> \in Seq(Block) /\ Len(<<x, old>>) = 2 /\ <<x, old>>[1] = x /\ <<x, old>>[2] = old
        BY <1>8, <3>0 DEF x
      <3>4. Elems(<<x, old>>) = {x, old}
        <4>1. 1..2 = {1, 2}
          OBVIOUS
        <4> QED BY <3>3, <4>1 DEF Elems
      <3> QED BY <2>2, <3>0, <3>2, <3>3, <3>4 DEF x
    <2> QED BY <2>1, <2>2
  <1> HIDE DEF F, g
  <1>14. /\ PoolStep /\ SoundInv' /\ BlankOK' /\ b \in Block /\ b \notin Programmed
         /\ Programmed' = Programmed \cup {b}
         /\ flash' \in [Block -> [Page -> PageRec]] /\ flash'[b] = F
         /\ \A x \in Programmed : flash'[x] = flash[x]
    BY <1>1, <1>2, <1>11, Fresh
  <1>15. IsData(flash'[b])
    BY <1>11, <1>14 DEF IsData
  <1>16. Owned(Logs \ {e}, [Map EXCEPT ![l] = b], MtBlocks, Elems(g), Programmed')
    <2>1. Owned(Logs, Map, MtBlocks, Garb, Programmed)
      BY <1>3 DEF Tables
    <2> HIDE DEF e, l, b, old
    <2>2. Owned(Logs \ {e}, Map, MtBlocks, Garb \cup {e.pba}, Programmed)
      BY <1>1, <1>10, <2>1, OwnedLessLog
    <2>3. Owned(Logs \ {e}, [Map EXCEPT ![l] = b], MtBlocks,
                (Garb \cup {e.pba}) \cup ({Map[l]} \ {NoBlock}), Programmed \cup {b})
      BY <1>3, <1>8, <1>12, <1>14, <2>2, OwnedEntry
    <2>4. (Garb \cup {e.pba}) \cup ({Map[l]} \ {NoBlock}) = Elems(g)
      BY <1>2, <1>9, <1>13
    <2> QED BY <1>14, <2>3, <2>4
  <1> HIDE DEF i, l, b, old
  <1>17. /\ StackOK' /\ todo' # <<>> /\ Task'.op = "addgt" /\ Garb' = Elems(g) /\ GarbLists'
         /\ Elems(todo') = {AddGt(g)} \cup {UpdMt(l, b), OnLog("dldel", i)} \cup Elems(Tail(todo))
         /\ \A t \in Elems(Tail(todo')) : t.op # "addgt"
    BY <1>1, <1>2, <1>3, <1>4, <1>6, <1>8, <1>13, <1>14, EndStackGiven
  <1>18. /\ UpdMt(l, b) \in Elems(todo') /\ OnLog("dldel", i) \in Elems(todo')
         /\ \A t \in Elems(todo') : t.op = "addgt" \/ t = UpdMt(l, b) \/ t = OnLog("dldel", i)
                                  \/ t \in Elems(Tail(todo))
    BY <1>17 DEF AddGt
  <1>19. Owned(Logs \ {e}, [Map EXCEPT ![l] = b], MtBlocks, Garb', Programmed')
    BY <1>16, <1>17
  <1>20. NftlInv' /\ LogLeaves(e, b)
    BY <1>1, <1>5, <1>6, <1>14, <1>15, <1>17, <1>18, <1>19, LogEnds DEF l
  <1> QED BY <1>5, <1>14, <1>20 DEF i, b

-----------------------------------------------------------------------------
(***************************************************************************)
(* Changes of the mapping table                                            *)
(***************************************************************************)

\* nftl_update_mt has done its work: what is left needs no more of the tables.
LEMMA UpdPopped ==
  ASSUME NEW k \in UpdK, todo' = k, ~Closing'
  PROVE  TaskOK' /\ CacheHot'
  <1>1. ASSUME NEW i \in Nat, NEW r \in RetK \cup FullK, k = <<OnLog("dldel", i)>> \o r
        PROVE  TaskOK' /\ CacheHot'
    <2>1. r \in Seq(Plain)
      BY PlainStacks DEF RetK
    <2>2. Head(k) = OnLog("dldel", i)
      BY <1>1, <2>1, Cons
    <2>3. Task'.op = "dldel"
      BY <2>2 DEF Task, OnLog
    <2> QED BY <2>3, Calm
  <1>2. ASSUME NEW b \in Block, k = <<AddGt(<<b>>)>> PROVE TaskOK' /\ CacheHot'
    <2> DEFINE a == AddGt(<<b>>)
    <2>1. a.op = "addgt"
      BY DEF AddGt
    <2> HIDE DEF a
    <2>2. Head(<<a>>) = a /\ Tail(<<a>>) = <<>> /\ <<a>> # <<>>
      OBVIOUS
    <2>3. Task' = a /\ Tail(todo') = <<>> /\ Elems(Tail(todo')) = {}
      BY <1>2, <2>2, PlainStacks DEF Task, a
    <2> QED BY <2>1, <2>3 DEF TaskOK, CacheHot
  <1> QED BY <1>1, <1>2, UpdStacks

\* The table does not change, where it lies does.
LEMMA MapStep ==
  ASSUME NftlInv, todo # <<>>, Task.op \in {"updmt", "mtappend", "mtmerge", "mtcopy", "mtset"},
         UNCHANGED <<dl, wr>>, StackOK', \A t \in Elems(Tail(todo)) : t \in Elems(todo'),
         \A t \in Elems(todo') : t \in Elems(Tail(todo)) \/ t.op \in {"addgt", "mtset", "mtmerge"},
         Map' = Map, flash' \in [Block -> [Page -> PageRec]], SoundInv', BlankOK',
         \A x \in LogBlocks(Logs) \cup DataBlocks(Map) : flash'[x] = flash[x],
         Owned(Logs, Map, MtBlocks', Garb', Programmed'),
         ~Closing' /\ mtl' # <<>> => mtl'[1].pba # mt_pbas', GarbLists',
         MtOK', CacheOK', CacheHot', TaskOK', mt_pbas' \in Block,
         mtl' = <<>> \/ \E m \in MtlRec : mtl' = <<m>>,
         mt_cache' \in [at : BlockX \X (Page \cup {NoPage}), map : [Lba -> BlockX]]
  PROVE  NftlInv' /\ Unmoved
  <1>1. /\ ~Lost /\ mt_pbas # NoBlock
        /\ \A t \in Elems(Tail(todo)) : t.op \in PlainOps \cup {"dldel", "addgt"}
        /\ Has("dldel") = {t \in Elems(Tail(todo)) : t.op = "dldel"} /\ Turning = {}
        /\ Elems(todo) = {Task} \cup Elems(Tail(todo))
    BY AtUpdate
  <1>2. dl \in Seq(LogRec) /\ Ready /\ LogsOK /\ DataOK /\ OneLog /\ Indices /\ TypesOK
        /\ NoBlock \notin Block
    BY <1>1, Parts DEF NftlInv
  <1>3. /\ Has("lost")' = {} /\ Has("convert")' = {} /\ Has("format")' = {} /\ Has("mapwrite")' = {}
        /\ Has("dldel")' = Has("dldel")
    BY <1>1 DEF Has, PlainOps
  <1>4. ~Lost' /\ Turning' = {} /\ Dying' = Dying /\ Logs' = Logs
    BY <1>3 DEF Lost, Turning, Dying, Logs
  <1>5. Tables'
    <2>1. Owned(Logs', Map', MtBlocks', Garb', Programmed')
      BY <1>4
    <2> QED BY <2>1 DEF Tables
  <1>6. LogsOK'
    <2> SUFFICES ASSUME NEW j \in (1..Len(dl)) \ Dying, dl[j].pba # NoBlock
                 PROVE  LogOK(dl[j], flash'[dl[j].pba])
      BY <1>4 DEF LogsOK
    <2>1. LogOK(dl[j], flash[dl[j].pba])
      BY <1>1, <1>2 DEF LogsOK
    <2>2. dl[j].pba \in LogBlocks(Logs)
      BY <1>1, Members
    <2> QED BY <2>1, <2>2
  <1>7. DataOK'
    <2> SUFFICES ASSUME NEW l \in Lba, Map[l] # NoBlock PROVE IsData(flash'[Map[l]])
      BY DEF DataOK
    <2>1. Map[l] \in DataBlocks(Map) /\ IsData(flash[Map[l]])
      BY <1>1, <1>2, Members DEF DataOK
    <2> QED BY <2>1
  <1>8. TypesOK'
    BY <1>2, <1>4 DEF TypesOK, BlockX
  <1>9. FreshOK' /\ OneLog'
    <2>1. FreshOK'
      BY <1>2, <1>3 DEF FreshOK
    <2> QED BY <1>2, <2>1 DEF OneLog
  <1>10. Indices'
    BY <1>1, <1>2 DEF Indices
  <1>11. Ready'
    <2>1. T("ack").op = "ack" /\ T("put").op = "put"
      BY DEF T
    <2> QED BY <1>1, <1>2, <2>1, ReadyOn
  <1>12. Unmoved
    BY <1>1, <1>4 DEF Unmoved, TurningLogs
  <1>13. NftlInv'
    BY <1>4, <1>5, <1>6, <1>7, <1>8, <1>9, <1>10, <1>11 DEF NftlInv
  <1> QED BY <1>12, <1>13

\* The mapping table with the change.
LEMMA NewMapSeen ==
  ASSUME NftlInv, todo # <<>>, Task.op \in {"updmt", "mtappend"}
  PROVE  NewMap = Map /\ Map \in [Lba -> BlockX]
  <1>1. ~Lost /\ mt_pbas # NoBlock /\ ~Closing /\ Updates = {Task} /\ Lies(Task, Tail(todo))
    BY AtUpdate
  <1>2. MapTable = CurMap /\ CurMap \in [Lba -> BlockX]
    BY <1>1, MapSeen
  <1>3. Task.lba \in Lba /\ Task.pba \in Block
    BY <1>1 DEF Lies, T, MtSets, UpdMts
  <1>4. (CHOOSE u \in Updates : TRUE) = Task
    BY <1>1
  <1>5. Map = [CurMap EXCEPT ![Task.lba] = Task.pba]
    BY <1>1, <1>4 DEF Map
  <1>6. Map \in [Lba -> BlockX]
    BY <1>2, <1>3, <1>5 DEF BlockX
  <1> QED BY <1>2, <1>5, <1>6 DEF NewMap

LEMMA MapPageType ==
  ASSUME NEW t \in {"map", "mtlog"}, NEW k \in Int, NEW m \in [Lba -> BlockX]
  PROVE  /\ MapPage(t, k, m) \in PageRec
         /\ MapPage(t, k, m).t = t /\ MapPage(t, k, m).k = k /\ MapPage(t, k, m).map = m
  BY DEF MapPage, PageRec

\* The views of the mapping table when there is an MTLog block.
LEMMA MtAfter ==
  ASSUME NEW m \in MtlRec, mtl' = <<m>>, ~Closing', mt_pbas' # NoBlock
  PROVE  /\ PhysicalMt' = <<m.pba, m.used - 1>> /\ FlashMap' = flash'[m.pba][m.used - 1].map
         /\ CurMap' = FlashMap' /\ MtBlocks' = {mt_pbas', m.pba} /\ MtBlock' = mt_pbas'
  <1>1. mtl' # <<>> /\ mtl'[1] = m /\ Len(mtl') = 1
    OBVIOUS
  <1>2. PhysicalMt' = <<m.pba, m.used - 1>>
    BY <1>1 DEF PhysicalMt
  <1>3. FlashMap' = flash'[m.pba][m.used - 1].map
    BY <1>2 DEF FlashMap
  <1>4. {mtl'[i].pba : i \in 1..Len(mtl')} = {m.pba}
    <2>1. 1..1 = {1}
      OBVIOUS
    <2> QED BY <1>1, <2>1
  <1>5. MtBlocks' = {mt_pbas'} \cup {mtl'[i].pba : i \in 1..Len(mtl')}
    BY DEF MtBlocks
  <1> QED BY <1>2, <1>3, <1>4, <1>5 DEF CurMap, MtBlock

\* ... and its MapTab and MTLog pages.
LEMMA MtAfterOK ==
  ASSUME NEW m \in MtlRec, mtl' = <<m>>, ~Closing', mt_pbas' # NoBlock,
         flash'[mt_pbas'][0].t = "map", flash'[mt_pbas'][0].k \in Block,
         \A p \in Page : IF p < m.used THEN flash'[m.pba][p].t = "mtlog" /\ flash'[m.pba][p].k = 0
                                       ELSE flash'[m.pba][p] = BlankPage
  PROVE  MtOK'
  <1>1. mtl'[1] = m /\ MtBlock' = mt_pbas'
    BY MtAfter
  <1> QED BY <1>1 DEF MtOK

LEMMA UpdateMtInsertOK == NftlInv /\ UpdateMtInsert => NftlInv' /\ PoolStep /\ Unmoved
  <1> SUFFICES ASSUME NftlInv, UpdateMtInsert PROVE NftlInv' /\ PoolStep /\ Unmoved
    OBVIOUS
  <1> DEFINE m == mtl[1]
             p == m.used
             b == m.pba
             g == MapPage("mtlog", 0, Map)
             n == [pba |-> b, used |-> p + 1]
  <1>1. /\ todo # <<>> /\ Task.op = "updmt" /\ mtl # <<>> /\ p < PagesPerBlock
        /\ UNCHANGED <<poolVars, mt_pbas, dl, wr>>
        /\ flash' = [flash EXCEPT ![b][p] = MapPage("mtlog", 0, NewMap)]
        /\ mt_cache' = [at |-> <<b, p>>, map |-> NewMap]
        /\ mtl' = [mtl EXCEPT ![1].used = p + 1]
        /\ Then(When(p + 1 = PagesPerBlock, T("mtmerge")))
    BY DEF UpdateMtInsert, Top
  <1>2. /\ ~Lost /\ mt_pbas # NoBlock /\ ~Closing /\ Tail(todo) \in UpdK
        /\ \A t \in Elems(Tail(todo)) : t.op \in PlainOps \cup {"dldel", "addgt"}
        /\ Has("addgt") = {t \in Elems(Tail(todo)) : t.op = "addgt"}
        /\ Elems(todo) = {Task} \cup Elems(Tail(todo))
    BY <1>1, AtUpdate
  <1>3. SoundInv /\ StackOK /\ flash \in [Block -> [Page -> PageRec]] /\ Tables /\ MtOK /\ GarbLists
        /\ BlankOK /\ NoBlock \notin Block
    BY <1>2, Parts DEF NftlInv
  <1>4. NewMap = Map /\ Map \in [Lba -> BlockX]
    BY <1>1, NewMapSeen
  <1>5. /\ mt_pbas \in Block /\ mtl = <<m>> /\ m \in MtlRec /\ b \in Block /\ p \in 1..PagesPerBlock
        /\ MtBlocks = {mt_pbas, b} /\ MtBlock = mt_pbas
    BY <1>1, <1>2, MtPlace
  <1>6. p \in Page /\ p + 1 \in 1..PagesPerBlock /\ (p + 1) - 1 = p
    BY <1>1, <1>5, Numbers
  <1>7. n \in MtlRec /\ n.pba = b /\ n.used = p + 1
    BY <1>5, <1>6 DEF MtlRec
  <1>8. mtl' = <<n>>
    <2>1. [m EXCEPT !.used = p + 1] = n
      BY <1>5 DEF MtlRec
    <2>2. mtl' = [mtl EXCEPT ![1] = [m EXCEPT !.used = p + 1]]
      BY <1>1
    <2> HIDE DEF n, m
    <2>3. [<<m>> EXCEPT ![1] = n] = <<n>>
      OBVIOUS
    <2> QED BY <1>5, <2>1, <2>2, <2>3
  <1>9. g \in PageRec /\ g.t = "mtlog" /\ g.k = 0 /\ g.map = Map
    BY <1>4, MapPageType
  <1>10. /\ flash' = [flash EXCEPT ![b][p] = g] /\ mt_cache' = [at |-> <<b, p>>, map |-> Map]
    BY <1>1, <1>4
  <1> HIDE DEF g, n, p, b, m
  <1>11. /\ flash' \in [Block -> [Page -> PageRec]] /\ flash'[b] = [flash[b] EXCEPT ![p] = g]
         /\ flash'[b][p] = g /\ \A q \in Page : q # p => flash'[b][q] = flash[b][q]
         /\ \A x \in Block : x # b => flash'[x] = flash[x]
    BY <1>3, <1>5, <1>6, <1>9, <1>10
  <1>12. b # mt_pbas
    BY <1>1, <1>2, <1>3 DEF Tables, b, m
  <1>13. /\ PoolStep /\ SoundInv' /\ Programmed' = Programmed
    BY <1>1, <1>3, Sound DEF PoolStep, poolVars, Programmed
  <1>14. /\ LogBlocks(Logs) \cup DataBlocks(Map) \subseteq Programmed /\ b \in Programmed
         /\ Programmed \subseteq Block /\ b \notin LogBlocks(Logs) \cup DataBlocks(Map)
    <2>1. /\ LogBlocks(Logs) \cup DataBlocks(Map) \cup MtBlocks \cup Garb = Programmed
          /\ Programmed \subseteq Block
      BY <1>2, Members
    <2>2. (LogBlocks(Logs) \cup DataBlocks(Map)) \cap MtBlocks = {}
      BY <1>3 DEF Tables, Owned
    <2> QED BY <1>5, <2>1, <2>2
  <1>15. BlankOK'
    <2>1. media' = media /\ media[b] = "used"
      BY <1>1, <1>14 DEF poolVars, Programmed
    <2> QED BY <1>3, <1>11, <2>1 DEF BlankOK
  <1>16. \A x \in LogBlocks(Logs) \cup DataBlocks(Map) : flash'[x] = flash[x]
    BY <1>11, <1>14
  <1>17. /\ StackOK' /\ \A t \in Elems(Tail(todo)) : t \in Elems(todo')
         /\ \A t \in Elems(todo') : t \in Elems(Tail(todo)) \/ t.op = "mtmerge"
         /\ \/ p + 1 = PagesPerBlock /\ todo' # <<>> /\ Task'.op = "mtmerge"
            \/ todo' = Tail(todo)
    <2>1. CASE p + 1 = PagesPerBlock
      <3>1. Then(<<T("mtmerge")>>)
        BY <1>1, <2>1 DEF When, p, m
      <3>2. Lies(T("mtmerge"), Tail(todo))
        BY <1>2 DEF Lies
      <3>3. T("mtmerge").op = "mtmerge"
        BY DEF T
      <3>4. /\ StackOK' /\ todo' # <<>> /\ Task' = T("mtmerge")
            /\ Elems(todo') = {T("mtmerge")} \cup Elems(Tail(todo))
        BY <1>1, <1>3, <3>1, <3>2, Swapped
      <3> QED BY <2>1, <3>3, <3>4
    <2>2. CASE p + 1 # PagesPerBlock
      <3>1. Then(<<>>)
        BY <1>1, <2>2 DEF When, p, m
      <3> QED BY <1>1, <1>3, <3>1, Popped
    <2> QED BY <2>1, <2>2
  <1>18. /\ Has("mtset")' = {} /\ Has("updmt")' = {} /\ Has("mtappend")' = {}
         /\ Has("addgt")' = Has("addgt")
    BY <1>2, <1>17 DEF Has, PlainOps
  <1>19. ~Closing' /\ Updates' = {} /\ Garb' = Garb /\ GarbLists'
    BY <1>3, <1>18 DEF Closing, Updates, Garb, GarbLists
  <1>20. mt_pbas' = mt_pbas /\ mt_pbas' # NoBlock
    BY <1>1, <1>2
  <1>21. /\ PhysicalMt' = <<b, p>> /\ FlashMap' = Map /\ CurMap' = FlashMap'
         /\ MtBlocks' = {mt_pbas', b}
    <2>1. /\ PhysicalMt' = <<n.pba, n.used - 1>> /\ FlashMap' = flash'[n.pba][n.used - 1].map
          /\ CurMap' = FlashMap' /\ MtBlocks' = {mt_pbas', n.pba}
      BY <1>7, <1>8, <1>19, <1>20, MtAfter
    <2> QED BY <1>6, <1>7, <1>9, <1>11, <2>1
  <1>22. Map' = Map
    BY <1>19, <1>21 DEF Map
  <1>23. Owned(Logs, Map, MtBlocks', Garb', Programmed')
    BY <1>3, <1>5, <1>13, <1>19, <1>20, <1>21 DEF Tables
  <1>24. MtOK'
    <2>1. flash'[mt_pbas'][0].t = "map" /\ flash'[mt_pbas'][0].k \in Block
      BY <1>2, <1>3, <1>5, <1>11, <1>12, <1>20 DEF MtOK
    <2>2. ASSUME NEW q \in Page
          PROVE  IF q < n.used THEN flash'[n.pba][q].t = "mtlog" /\ flash'[n.pba][q].k = 0
                               ELSE flash'[n.pba][q] = BlankPage
      <3>1. IF q < p THEN flash[b][q].t = "mtlog" /\ flash[b][q].k = 0 ELSE flash[b][q] = BlankPage
        BY <1>1, <1>2, <1>3 DEF MtOK, b, p, m
      <3>2. CASE q = p
        <4>1. q < n.used
          BY <1>6, <1>7, <3>2, Numbers
        <4> QED BY <1>7, <1>9, <1>11, <3>2, <4>1
      <3>3. CASE q # p
        <4>1. q < n.used <=> q < p
          BY <1>6, <1>7, <3>3, Numbers
        <4> QED BY <1>7, <1>11, <3>1, <3>3, <4>1
      <3> QED BY <3>2, <3>3
    <2> QED BY <1>7, <1>8, <1>19, <1>20, <2>1, <2>2, MtAfterOK
  <1>25. CacheOK'
    BY <1>10, <1>20, <1>21 DEF CacheOK
  <1>26. CacheHot' /\ TaskOK'
    <2>1. CASE todo' = Tail(todo)
      BY <1>2, <1>19, <2>1, UpdPopped
    <2>2. CASE p + 1 = PagesPerBlock /\ todo' # <<>> /\ Task'.op = "mtmerge"
      <3>1. mtl' # <<>> /\ mtl'[1] = n
        BY <1>8
      <3>2. mt_cache'.at = PhysicalMt'
        BY <1>10, <1>21
      <3> QED BY <1>7, <1>19, <2>2, <3>1, <3>2 DEF CacheHot, TaskOK
    <2> QED BY <1>17, <2>1, <2>2
  <1>27. mtl' # <<>> /\ mtl'[1].pba # mt_pbas'
    BY <1>7, <1>8, <1>12, <1>20
  <1>28. mt_cache' \in [at : BlockX \X (Page \cup {NoPage}), map : [Lba -> BlockX]]
    BY <1>4, <1>5, <1>6, <1>10 DEF BlockX
  <1>29. NftlInv' /\ Unmoved
    BY <1>1, <1>5, <1>7, <1>8, <1>11, <1>13, <1>15, <1>16, <1>17, <1>19, <1>20, <1>22, <1>23, <1>24,
       <1>25, <1>26, <1>27, <1>28, MapStep
  <1> QED BY <1>13, <1>29

LEMMA UpdateMtAppendOK == NftlInv /\ UpdateMtAppend => NftlInv' /\ PoolStep /\ Unmoved
  <1> SUFFICES ASSUME NftlInv, UpdateMtAppend PROVE NftlInv' /\ PoolStep /\ Unmoved
    OBVIOUS
  <1> DEFINE b == Task.blk
             g == MapPage("mtlog", 0, Map)
             n == [pba |-> b, used |-> 1]
             F == [flash[b] EXCEPT ![0] = g]
  <1>1. /\ todo # <<>> /\ Task.op = "mtappend" /\ FirstProgram(b) /\ Then(<<>>)
        /\ UNCHANGED <<mt_pbas, dl, wr>>
        /\ flash' = [flash EXCEPT ![b][0] = MapPage("mtlog", 0, NewMap)]
        /\ mt_cache' = [at |-> <<b, 0>>, map |-> NewMap] /\ mtl' = <<n>>
    BY DEF UpdateMtAppend, Top
  <1>2. /\ ~Lost /\ mt_pbas # NoBlock /\ ~Closing /\ Tail(todo) \in UpdK
        /\ \A t \in Elems(Tail(todo)) : t.op \in PlainOps \cup {"dldel", "addgt"}
        /\ Has("addgt") = {t \in Elems(Tail(todo)) : t.op = "addgt"}
        /\ Elems(todo) = {Task} \cup Elems(Tail(todo))
    BY <1>1, AtUpdate
  <1>3. SoundInv /\ StackOK /\ flash \in [Block -> [Page -> PageRec]] /\ Tables /\ MtOK /\ GarbLists
        /\ TaskOK /\ NoBlock \notin Block
    BY <1>2, Parts DEF NftlInv
  <1>4. NewMap = Map /\ Map \in [Lba -> BlockX]
    BY <1>1, NewMapSeen
  <1>5. mtl = <<>>
    BY <1>1, <1>3 DEF TaskOK
  <1>6. mt_pbas \in Block /\ MtBlocks = {mt_pbas} /\ MtBlock = mt_pbas
    BY <1>2, <1>5, MtPlace
  <1>7. b \in Block /\ flash[b] = [p \in Page |-> BlankPage]
    BY <1>1, <1>2, Blank
  <1>8. g \in PageRec /\ g.t = "mtlog" /\ g.k = 0 /\ g.map = Map
    BY <1>4, MapPageType
  <1>9. n \in MtlRec /\ n.pba = b /\ n.used = 1 /\ n.used - 1 = 0
    BY <1>7, Numbers DEF MtlRec
  <1>10. F \in [Page -> PageRec] /\ F[0] = g /\ \A p \in Page : p # 0 => F[p] = BlankPage
    BY <1>3, <1>7, <1>8, Numbers
  <1>11. flash' = [flash EXCEPT ![b] = F] /\ mt_cache' = [at |-> <<b, 0>>, map |-> Map]
    BY <1>1, <1>3, <1>4, <1>7
  <1> HIDE DEF F, g, n, b
  <1>12. /\ PoolStep /\ SoundInv' /\ BlankOK' /\ b \notin Programmed
         /\ Programmed' = Programmed \cup {b}
         /\ flash' \in [Block -> [Page -> PageRec]] /\ flash'[b] = F
         /\ \A x \in Programmed : flash'[x] = flash[x]
    BY <1>1, <1>2, <1>10, <1>11, Fresh DEF b
  <1>13. /\ LogBlocks(Logs) \cup DataBlocks(Map) \subseteq Programmed /\ mt_pbas \in Programmed
         /\ Garb \subseteq Programmed /\ MtBlocks \cap Garb = {}
    <2>1. /\ LogBlocks(Logs) \cup DataBlocks(Map) \cup MtBlocks \cup Garb = Programmed
          /\ MtBlocks \cap Garb = {}
      BY <1>2, Members
    <2> QED BY <1>6, <2>1
  <1>14. \A x \in LogBlocks(Logs) \cup DataBlocks(Map) : flash'[x] = flash[x]
    BY <1>12, <1>13
  <1>15. todo' = Tail(todo) /\ StackOK' /\ Elems(todo') = Elems(Tail(todo))
    BY <1>1, <1>3, Popped
  <1>16. /\ Has("mtset")' = {} /\ Has("updmt")' = {} /\ Has("mtappend")' = {}
         /\ Has("addgt")' = Has("addgt")
    BY <1>2, <1>15 DEF Has, PlainOps
  <1>17. ~Closing' /\ Updates' = {} /\ Garb' = Garb /\ GarbLists'
    BY <1>3, <1>16 DEF Closing, Updates, Garb, GarbLists
  <1>18. mt_pbas' = mt_pbas /\ mt_pbas' # NoBlock /\ mtl' = <<n>>
    BY <1>1, <1>2 DEF n, b
  <1>19. /\ PhysicalMt' = <<b, 0>> /\ FlashMap' = Map /\ CurMap' = FlashMap'
         /\ MtBlocks' = {mt_pbas', b}
    <2>1. /\ PhysicalMt' = <<n.pba, n.used - 1>> /\ FlashMap' = flash'[n.pba][n.used - 1].map
          /\ CurMap' = FlashMap' /\ MtBlocks' = {mt_pbas', n.pba}
      BY <1>9, <1>17, <1>18, MtAfter
    <2> QED BY <1>8, <1>9, <1>10, <1>12, <2>1
  <1>20. Map' = Map
    BY <1>17, <1>19 DEF Map
  <1>21. Owned(Logs, Map, MtBlocks', Garb', Programmed')
    <2>1. Owned(Logs, Map, MtBlocks, Garb, Programmed)
      BY <1>3 DEF Tables
    <2>2. /\ {b} \cap Programmed = {} /\ {mt_pbas, b} \cap Garb = {}
          /\ {mt_pbas, b} \cup Garb = MtBlocks \cup Garb \cup {b}
      BY <1>6, <1>12, <1>13
    <2>3. Owned(Logs, Map, {mt_pbas, b}, Garb, Programmed \cup {b})
      BY <2>1, <2>2, OwnedMap
    <2> QED BY <1>12, <1>17, <1>18, <1>19, <2>3
  <1>22. MtOK'
    <2>1. flash'[mt_pbas'][0].t = "map" /\ flash'[mt_pbas'][0].k \in Block
      BY <1>2, <1>3, <1>6, <1>12, <1>13, <1>18 DEF MtOK
    <2>2. ASSUME NEW q \in Page
          PROVE  IF q < n.used THEN flash'[n.pba][q].t = "mtlog" /\ flash'[n.pba][q].k = 0
                               ELSE flash'[n.pba][q] = BlankPage
      <3>1. q < n.used <=> q = 0
        BY <1>9, Numbers
      <3> QED BY <1>8, <1>9, <1>10, <1>12, <3>1
    <2> QED BY <1>9, <1>17, <1>18, <2>1, <2>2, MtAfterOK
  <1>23. CacheOK'
    BY <1>11, <1>18, <1>19 DEF CacheOK
  <1>24. CacheHot' /\ TaskOK'
    BY <1>2, <1>15, <1>17, UpdPopped
  <1>25. mtl' # <<>> /\ mtl'[1].pba # mt_pbas'
    BY <1>9, <1>12, <1>13, <1>18
  <1>26. mt_cache' \in [at : BlockX \X (Page \cup {NoPage}), map : [Lba -> BlockX]]
    BY <1>4, <1>7, <1>11, Numbers DEF BlockX
  <1>27. NftlInv' /\ Unmoved
    BY <1>1, <1>6, <1>9, <1>12, <1>14, <1>15, <1>17, <1>18, <1>20, <1>21, <1>22, <1>23, <1>24, <1>25,
       <1>26, MapStep
  <1> QED BY <1>12, <1>27

\* The MapTab block and the MTLog block are two blocks.
LEMMA TwoBlocks ==
  ASSUME NftlInv, ~Lost, ~Closing, mt_pbas # NoBlock, mtl # <<>>, NEW g, g = <<mt_pbas, mtl[1].pba>>
  PROVE  /\ g \in Seq(Block) /\ Len(g) = 2 /\ g[1] # g[2] /\ Elems(g) = MtBlocks
         /\ Elems(g) \subseteq Programmed
  <1>1. mt_pbas \in Block /\ mtl[1].pba \in Block /\ MtBlocks = {mt_pbas, mtl[1].pba}
    BY MtPlace
  <1>2. mtl[1].pba # mt_pbas
    BY Parts DEF Tables
  <1>3. MtBlocks \subseteq Programmed
    BY Members
  <1>4. g \in Seq(Block) /\ Len(g) = 2 /\ g[1] = mt_pbas /\ g[2] = mtl[1].pba
    BY <1>1
  <1>5. Elems(g) = {g[1], g[2]}
    <2>1. 1..2 = {1, 2}
      OBVIOUS
    <2> QED BY <1>4, <2>1 DEF Elems
  <1> QED BY <1>1, <1>2, <1>3, <1>4, <1>5

LEMMA MtSetIn ==
  ASSUME NEW u \in MtSets, NEW k \in UpdK
  PROVE  <<u>> \o k \in AddK
  <1>1. <<u>> \o k \in MtSetK
    BY DEF MtSetK
  <1> QED BY <1>1 DEF AddK

LEMMA MtMergeCopyOK == NftlInv /\ MtMergeCopy => NftlInv' /\ PoolStep /\ Unmoved
  <1> SUFFICES ASSUME NftlInv, MtMergeCopy PROVE NftlInv' /\ PoolStep /\ Unmoved
    OBVIOUS
  <1> DEFINE b == Task.blk
             m == mtl[1]
             g == <<mt_pbas, m.pba>>
             a == AddGt(g)
             u == [op |-> "mtset", blk |-> b]
             F == [p \in Page |-> CopyAs("map", IF p = 0 THEN flash[m.pba][m.used - 1]
                                                         ELSE flash[mt_pbas][p])]
  <1>1. /\ todo # <<>> /\ Task.op = "mtcopy" /\ FirstProgram(b)
        /\ flash' = [flash EXCEPT ![b] = F] /\ Then(<<a, u>>)
        /\ UNCHANGED <<mt_pbas, mtl, mt_cache, dl, wr>>
    BY DEF MtMergeCopy, Top
  <1>2. /\ ~Lost /\ mt_pbas # NoBlock /\ ~Closing /\ Tail(todo) \in UpdK /\ Updates = {}
        /\ \A t \in Elems(Tail(todo)) : t.op \in PlainOps \cup {"dldel", "addgt"}
        /\ Has("addgt") = {t \in Elems(Tail(todo)) : t.op = "addgt"}
        /\ Elems(todo) = {Task} \cup Elems(Tail(todo))
    BY <1>1, AtUpdate
  <1>3. SoundInv /\ StackOK /\ flash \in [Block -> [Page -> PageRec]] /\ Tables /\ MtOK /\ GarbLists
        /\ CacheHot /\ NoBlock \notin Block /\ TypesOK
    BY <1>2, Parts DEF NftlInv
  <1>4. mtl # <<>> /\ m.used = PagesPerBlock /\ mt_cache.at = PhysicalMt
    BY <1>1, <1>3 DEF CacheHot
  <1>5. /\ mt_pbas \in Block /\ mtl = <<m>> /\ m \in MtlRec /\ m.pba \in Block
        /\ m.used \in 1..PagesPerBlock /\ PhysicalMt = <<m.pba, m.used - 1>>
    BY <1>2, <1>4, MtPlace
  <1>6. m.used - 1 \in Page /\ m.used - 1 < m.used
    BY <1>5, Numbers
  <1>7. /\ g \in Seq(Block) /\ Len(g) = 2 /\ g[1] # g[2] /\ Elems(g) = MtBlocks
    BY <1>2, <1>4, TwoBlocks
  <1>8. \A c \in PageRec : /\ CopyAs("map", c) \in PageRec /\ CopyAs("map", c).t = "map"
                           /\ CopyAs("map", c).k = c.k /\ CopyAs("map", c).map = c.map
    BY DEF CopyAs, PageRec
  <1>9. F \in [Page -> PageRec] /\ F[0] = CopyAs("map", flash[m.pba][m.used - 1])
    <2>1. \A p \in Page : (IF p = 0 THEN flash[m.pba][m.used - 1] ELSE flash[mt_pbas][p]) \in PageRec
      BY <1>3, <1>5, <1>6
    <2> QED BY <1>8, <2>1, Numbers
  <1> HIDE DEF F
  <1>10. F[0].t = "map" /\ F[0].k \in Block /\ F[0].map = CurMap
    <2>1. flash[m.pba][m.used - 1] \in PageRec
      BY <1>3, <1>5, <1>6
    <2>2. flash[m.pba][m.used - 1].k = 0
      BY <1>2, <1>3, <1>4, <1>6 DEF MtOK
    <2>3. CurMap = flash[m.pba][m.used - 1].map
      BY <1>2, <1>5 DEF CurMap, FlashMap
    <2> QED BY <1>8, <1>9, <2>1, <2>2, <2>3, Numbers
  <1>11. /\ PoolStep /\ SoundInv' /\ BlankOK' /\ b \in Block /\ b \notin Programmed
         /\ Programmed' = Programmed \cup {b}
         /\ flash' \in [Block -> [Page -> PageRec]] /\ flash'[b] = F
         /\ \A x \in Programmed : flash'[x] = flash[x]
    BY <1>1, <1>2, <1>9, Fresh
  <1>12. a \in [op : {"addgt"}, g : Seq(Block)] /\ a.op = "addgt" /\ a.g = g
    BY <1>7 DEF AddGt
  <1>13. u \in MtSets /\ u.op = "mtset" /\ u.blk = b
    BY <1>11 DEF MtSets
  <1> HIDE DEF a, u, g, b, m
  <1>14. u \in Under /\ Lies(u, Tail(todo))
    BY <1>2, <1>13 DEF Under, Lies
  <1>15. Lies(a, <<u>> \o Tail(todo))
    <2>1. <<u>> \o Tail(todo) \in AddK
      BY <1>2, <1>13, MtSetIn
    <2> QED BY <1>12, <2>1 DEF Lies
  <1>16. /\ StackOK' /\ todo' # <<>> /\ Task' = a /\ Elems(todo') = {a, u} \cup Elems(Tail(todo))
         /\ Elems(Tail(todo')) = {u} \cup Elems(Tail(todo))
    BY <1>1, <1>3, <1>14, <1>15, Swapped2
  <1>17. /\ Has("mtset")' = {u} /\ Has("updmt")' = {} /\ Has("mtappend")' = {}
         /\ Has("addgt")' = {a} \cup Has("addgt")
    BY <1>2, <1>12, <1>13, <1>16 DEF Has, PlainOps
  <1>18. Closing' /\ Updates' = {} /\ NextMt' = b
    BY <1>13, <1>17 DEF Closing, Updates, NextMt
  <1>19. Garb' = Garb \cup MtBlocks /\ GarbLists'
    <2>1. Garb' = Elems(g) \cup Garb
      BY <1>12, <1>17 DEF Garb
    <2>2. GarbLists'
      BY <1>3, <1>7, <1>12, <1>17 DEF GarbLists
    <2> QED BY <1>7, <2>1, <2>2
  <1>20. mt_pbas' = mt_pbas /\ mt_pbas' # NoBlock
    BY <1>1, <1>2
  <1>21. MtBlocks' = {b} /\ CurMap' = CurMap /\ MtBlock' = b
    BY <1>10, <1>11, <1>18, <1>20 DEF MtBlocks, CurMap, MtBlock
  <1>22. Map' = Map
    BY <1>2, <1>18, <1>21 DEF Map
  <1>23. /\ LogBlocks(Logs) \cup DataBlocks(Map) \subseteq Programmed
         /\ Garb \subseteq Programmed /\ MtBlocks \subseteq Programmed /\ MtBlocks \cap Garb = {}
    BY <1>2, Members
  <1>24. \A x \in LogBlocks(Logs) \cup DataBlocks(Map) : flash'[x] = flash[x]
    BY <1>11, <1>23
  <1>25. Owned(Logs, Map, MtBlocks', Garb', Programmed')
    <2>1. Owned(Logs, Map, MtBlocks, Garb, Programmed)
      BY <1>3 DEF Tables
    <2>2. /\ {b} \cap Programmed = {} /\ {b} \cap (Garb \cup MtBlocks) = {}
          /\ {b} \cup (Garb \cup MtBlocks) = MtBlocks \cup Garb \cup {b}
      BY <1>11, <1>23
    <2>3. Owned(Logs, Map, {b}, Garb \cup MtBlocks, Programmed \cup {b})
      BY <2>1, <2>2, OwnedMap
    <2> QED BY <1>11, <1>19, <1>21, <2>3
  <1>26. MtOK' /\ CacheOK'
    BY <1>1, <1>2, <1>10, <1>11, <1>18, <1>21 DEF MtOK, CacheOK
  <1>27. CacheHot'
    <2>1. PhysicalMt' = PhysicalMt
      BY <1>1 DEF PhysicalMt
    <2> QED BY <1>1, <1>4, <1>12, <1>16, <2>1 DEF CacheHot, m
  <1>28. TaskOK'
    <2>1. ASSUME NEW t \in Elems(Tail(todo')), t.op = "addgt" PROVE Elems(t.g) \cap Elems(g) = {}
      <3>1. t \in Has("addgt")
        BY <1>2, <1>13, <1>16, <2>1
      <3>2. Elems(t.g) \subseteq Garb
        BY <3>1 DEF Garb
      <3> QED BY <1>7, <1>23, <3>2
    <2> QED BY <1>12, <1>16, <2>1 DEF TaskOK
  <1>29. mtl' = <<m>> /\ mt_cache' \in [at : BlockX \X (Page \cup {NoPage}), map : [Lba -> BlockX]]
    BY <1>1, <1>3, <1>5 DEF TypesOK
  <1>30. \A t \in Elems(todo') : t \in Elems(Tail(todo)) \/ t.op \in {"addgt", "mtset", "mtmerge"}
    BY <1>12, <1>13, <1>16
  <1>31. NftlInv' /\ Unmoved
    BY <1>1, <1>5, <1>11, <1>16, <1>18, <1>19, <1>20, <1>22, <1>24, <1>25, <1>26, <1>27, <1>28, <1>29,
       <1>30, MapStep
  <1> QED BY <1>11, <1>31

LEMMA MtMergeSetOK == NftlInv /\ MtMergeSet => NftlInv' /\ PoolStep /\ Unmoved
  <1> SUFFICES ASSUME NftlInv, MtMergeSet PROVE NftlInv' /\ PoolStep /\ Unmoved
    OBVIOUS
  <1> DEFINE b == Task.blk
             m == mtl[1]
  <1>1. /\ todo # <<>> /\ Task.op = "mtset" /\ mt_pbas' = b /\ mtl' = Tail(mtl) /\ Then(<<>>)
        /\ UNCHANGED <<poolVars, flash, mt_cache, dl, wr>>
    BY DEF MtMergeSet, Top
  <1>2. /\ ~Lost /\ mt_pbas # NoBlock /\ Closing /\ Tail(todo) \in UpdK /\ Updates = {}
        /\ \A t \in Elems(Tail(todo)) : t.op \in PlainOps \cup {"dldel", "addgt"}
        /\ Has("addgt") = {t \in Elems(Tail(todo)) : t.op = "addgt"} /\ Has("mtset") = {Task}
        /\ Lies(Task, Tail(todo))
    BY <1>1, AtUpdate
  <1>3. SoundInv /\ StackOK /\ flash \in [Block -> [Page -> PageRec]] /\ Tables /\ MtOK /\ GarbLists
        /\ CacheHot /\ NoBlock \notin Block /\ TypesOK /\ mt_pbas \in BlockX /\ BlankOK
        /\ (mtl = <<>> \/ \E n \in MtlRec : mtl = <<n>>)
    BY <1>2, Parts DEF NftlInv
  <1>4. b \in Block /\ b # NoBlock
    <2>1. Task \in MtSets
      BY <1>1, <1>2 DEF Lies, T, UpdMts
    <2> QED BY <1>3, <2>1 DEF MtSets
  <1>5. mtl # <<>> /\ m.used = PagesPerBlock /\ mt_cache.at = PhysicalMt
    BY <1>2, <1>3 DEF CacheHot
  <1>6. NextMt = b
    BY <1>2 DEF NextMt
  <1>7. PhysicalMt = <<m.pba, PagesPerBlock - 1>>
    BY <1>5 DEF PhysicalMt
  <1>8. mtl' = <<>>
    <2>1. PICK n \in MtlRec : mtl = <<n>>
      BY <1>3, <1>5
    <2>2. Tail(<<n>>) = <<>>
      OBVIOUS
    <2> QED BY <1>1, <2>1, <2>2
  <1> HIDE DEF b, m
  <1>9. MtBlocks = {b} /\ CurMap = flash[b][0].map /\ MtBlock = b
    BY <1>2, <1>6 DEF MtBlocks, CurMap, MtBlock
  <1>10. todo' = Tail(todo) /\ StackOK' /\ Elems(todo') = Elems(Tail(todo))
    BY <1>1, <1>3, Popped
  <1>11. /\ Has("mtset")' = {} /\ Has("updmt")' = {} /\ Has("mtappend")' = {}
         /\ Has("addgt")' = Has("addgt")
    BY <1>2, <1>10 DEF Has, PlainOps
  <1>12. ~Closing' /\ Updates' = {} /\ Garb' = Garb /\ GarbLists'
    BY <1>3, <1>11 DEF Closing, Updates, Garb, GarbLists
  <1>13. mt_pbas' = b /\ mt_pbas' # NoBlock
    BY <1>1, <1>4 DEF b
  <1>14. PhysicalMt' = <<b, 0>> /\ MtBlock' = b
    BY <1>8, <1>12, <1>13 DEF PhysicalMt, MtBlock
  <1>15. FlashMap' = flash[b][0].map /\ CurMap' = CurMap
    BY <1>1, <1>9, <1>12, <1>13, <1>14 DEF FlashMap, CurMap
  <1>16. MtBlocks' = {b}
    <2>1. {mtl'[i].pba : i \in 1..Len(mtl')} = {}
      <3>1. Len(<<>>) = 0 /\ 1..0 = {}
        OBVIOUS
      <3> QED BY <1>8, <3>1
    <2> QED BY <1>12, <1>13, <2>1 DEF MtBlocks
  <1>17. Map' = Map
    BY <1>2, <1>12, <1>15 DEF Map
  <1>18. PoolStep /\ SoundInv' /\ BlankOK' /\ Programmed' = Programmed
    BY <1>1, <1>3, Sound DEF PoolStep, poolVars, Programmed, BlankOK
  <1>19. Owned(Logs, Map, MtBlocks', Garb', Programmed')
    BY <1>3, <1>9, <1>12, <1>16, <1>18 DEF Tables
  <1>20. MtOK'
    BY <1>1, <1>2, <1>3, <1>8, <1>9, <1>14 DEF MtOK
  <1>21. CacheOK'
    <2>1. mt_cache'.at # PhysicalMt'
      BY <1>1, <1>5, <1>7, <1>14, Numbers
    <2> QED BY <1>13, <2>1 DEF CacheOK
  <1>22. CacheHot' /\ TaskOK'
    BY <1>2, <1>10, <1>12, UpdPopped
  <1>23. mt_cache' \in [at : BlockX \X (Page \cup {NoPage}), map : [Lba -> BlockX]]
    BY <1>1, <1>3 DEF TypesOK
  <1>24. \A x \in LogBlocks(Logs) \cup DataBlocks(Map) : flash'[x] = flash[x]
    BY <1>1
  <1>25. NftlInv' /\ Unmoved
    BY <1>1, <1>3, <1>4, <1>8, <1>10, <1>12, <1>13, <1>17, <1>18, <1>19, <1>20, <1>21, <1>22, <1>23,
       <1>24, MapStep
  <1> QED BY <1>18, <1>25

-----------------------------------------------------------------------------
(***************************************************************************)
(* Garbage                                                                 *)
(***************************************************************************)

\* What lies under nftl_addto_gt.
LEMMA PlainOp == \A t \in Plain : t.op \in PlainOps
  BY DEF Plain, PlainOps

LEMMA UpdOps ==
  ASSUME NEW k \in UpdK, NEW t \in Elems(k)
  PROVE  t.op \in PlainOps \cup {"dldel", "addgt"}
  <1>1. ASSUME NEW i \in Nat, NEW r \in RetK \cup FullK, Elems(k) = {OnLog("dldel", i)} \cup Elems(r)
        PROVE  t.op \in PlainOps \cup {"dldel", "addgt"}
    <2>1. Elems(r) \subseteq Plain
      BY PlainStacks DEF RetK
    <2> QED BY <1>1, <2>1, PlainOp DEF OnLog
  <1>2. ASSUME NEW b \in Block, Elems(k) = {AddGt(<<b>>)} PROVE t.op \in PlainOps \cup {"dldel", "addgt"}
    BY <1>2 DEF AddGt
  <1> QED BY <1>1, <1>2, UpdStacks

LEMMA MoveOps ==
  ASSUME NEW k \in MoveK, NEW t \in Elems(k)
  PROVE  t.op \in PlainOps \cup {"merge", "convert"}
  <1>1. \A r \in RetK \cup FullK : Elems(r) \subseteq Plain
    BY PlainStacks DEF RetK
  <1>2. ASSUME NEW i \in Nat, NEW r \in RetK, Elems(k) = {OnLog("merge", i)} \cup Elems(r)
        PROVE  t.op \in PlainOps \cup {"merge", "convert"}
    BY <1>1, <1>2, PlainOp DEF OnLog
  <1>3. ASSUME NEW i \in Nat, NEW r \in FullK, Elems(k) = {OnLog("convert", i)} \cup Elems(r)
        PROVE  t.op \in PlainOps \cup {"merge", "convert"}
    BY <1>1, <1>3, PlainOp DEF OnLog
  <1>4. CASE Elems(k) \subseteq Plain
    BY <1>4, PlainOp
  <1>5. ASSUME NEW i \in Nat, NEW r \in RetK, k = <<OnLog("merge", i)>> \o r
                                              /\ Elems(k) = {OnLog("merge", i)} \cup Elems(r)
        PROVE  t.op \in PlainOps \cup {"merge", "convert"}
    BY <1>2, <1>5
  <1>6. ASSUME NEW i \in Nat, NEW r \in FullK, k = <<OnLog("convert", i)>> \o r
                                               /\ Elems(k) = {OnLog("convert", i)} \cup Elems(r)
        PROVE  t.op \in PlainOps \cup {"merge", "convert"}
    BY <1>3, <1>6
  <1> QED BY <1>4, <1>5, <1>6, MoveStacks, Zenon

LEMMA AddOps ==
  ASSUME NEW k \in AddK, k # <<>>
  PROVE  /\ Head(k).op \in PlainOps \cup {"merge", "convert", "updmt", "mtset", "lost"}
         /\ (\E t \in Elems(k) : t.op = "lost") => Elems(k) = {T("lost")}
  <1>0. k \in Seq(Under)
    BY AddStacks
  <1>1. CASE k \in MoveK
    <2>1. \A t \in Elems(k) : t.op \in PlainOps \cup {"merge", "convert"}
      BY <1>1, MoveOps
    <2>2. Head(k) \in Elems(k)
      BY <1>0, HeadIn
    <2> QED BY <2>1, <2>2 DEF PlainOps
  <1>2. ASSUME NEW u \in UpdMts, NEW r \in DelK, k = <<u>> \o r, Elems(k) = {u} \cup Elems(r)
        PROVE  Head(k).op = "updmt" /\ \A t \in Elems(k) : t.op # "lost"
    <2>1. r \in UpdK /\ u.op = "updmt"
      BY DEF UpdK, UpdMts
    <2>2. r \in Seq(Under) /\ \A t \in Elems(r) : t.op \in PlainOps \cup {"dldel", "addgt"}
      BY <2>1, UpdStacks, UpdOps
    <2>3. Head(k) = u
      BY <1>2, <2>2, Cons
    <2> QED BY <1>2, <2>1, <2>2, <2>3 DEF PlainOps
  <1>3. ASSUME NEW u \in MtSets, NEW r \in UpdK, k = <<u>> \o r, Elems(k) = {u} \cup Elems(r)
        PROVE  Head(k).op = "mtset" /\ \A t \in Elems(k) : t.op # "lost"
    <2>1. u.op = "mtset"
      BY DEF MtSets
    <2>2. r \in Seq(Under) /\ \A t \in Elems(r) : t.op \in PlainOps \cup {"dldel", "addgt"}
      BY UpdStacks, UpdOps
    <2>3. Head(k) = u
      BY <1>3, <2>2, Cons
    <2> QED BY <1>3, <2>1, <2>2, <2>3 DEF PlainOps
  <1>4. CASE Elems(k) = {T("lost")}
    <2>1. Head(k) \in Elems(k)
      BY <1>0, HeadIn
    <2> QED BY <1>4, <2>1 DEF T
  <1> QED BY <1>1, <1>2, <1>3, <1>4, AddStacks

\* The list is one that the pool takes.
LEMMA Retires ==
  ASSUME NEW g \in Seq(Block), Len(g) \in 1..2, Len(g) = 2 => g[1] # g[2], Elems(g) \subseteq Programmed
  PROVE  g \in Retirable
  <1> DEFINE H == {b \in held : media[b] = "used"}
  <1>1. \A i \in 1..Len(g) : g[i] \in H
    BY DEF Elems, Programmed
  <1>2. CASE Len(g) = 1
    <2>1. g = <<g[1]>> /\ g[1] \in H
      BY <1>1, <1>2
    <2> QED BY <2>1 DEF Retirable
  <1>3. CASE Len(g) = 2
    <2>1. g = <<g[1], g[2]>> /\ g[1] \in H /\ g[2] \in H /\ g[1] # g[2]
      BY <1>1, <1>3
    <2>2. <<g[1], g[2]>> \in H \X H
      BY <2>1
    <2> QED BY <2>1, <2>2 DEF Retirable
  <1> QED BY <1>2, <1>3

\* Blocks become garbage.
LEMMA Retired ==
  ASSUME SoundInv, BlankOK, UNCHANGED flash, NEW g \in Retirable,
         AddToGt(g) \/ AddToNoGt(g) \/ \E b \in Block : AddToNewGt(g, b)
  PROVE  PoolStep /\ SoundInv' /\ BlankOK' /\ Programmed' = Programmed \ Elems(g)
  <1>1. PoolStep
    BY DEF PoolStep, GoodStep
  <1>2. SoundInv'
    BY <1>1, Sound
  <1>3. TypeOK /\ Shown /\ OneRole
    BY SoundParts
  <1>4. held' = held \ Elems(g)
    BY DEF AddToGt, AddToNoGt, AddToNewGt, EnterGarbage
  <1>5. \/ media' = media
        \/ \E b \in Block : /\ media' = [media EXCEPT ![b] = "gt"] /\ media[b] = "blank"
    <2>1. ASSUME NEW b \in Block, AddToNewGt(g, b)
          PROVE  media' = media \/ (media' = [media EXCEPT ![b] = "gt"] /\ media[b] = "blank")
      <3>1. media' = [media EXCEPT ![b] = IF gt_pgcnt = 0 THEN "gt" ELSE @] /\ GetsFree(b)
        BY <2>1 DEF AddToNewGt
      <3>2. blockstatus[b]
        BY <3>1, FreeFact
      <3>3. media[b] = "blank"
        BY <1>3, <3>2 DEF Shown
      <3>4. media \in [Block -> Media]
        BY <1>3 DEF TypeOK
      <3> QED BY <3>1, <3>3, <3>4
    <2> QED BY <2>1 DEF AddToGt, AddToNoGt
  <1>6. media \in [Block -> Media] /\ held \subseteq Block
    BY <1>3 DEF TypeOK
  <1>7. BlankOK' /\ Programmed' = Programmed \ Elems(g)
    <2>1. CASE media' = media
      BY <1>4, <2>1 DEF BlankOK, Programmed
    <2>2. ASSUME NEW b \in Block, media' = [media EXCEPT ![b] = "gt"], media[b] = "blank"
          PROVE  BlankOK' /\ Programmed' = Programmed \ Elems(g)
      <3>1. media'[b] = "gt" /\ \A c \in Block : c # b => media'[c] = media[c]
        BY <1>6, <2>2
      <3>2. BlankOK'
        BY <2>2, <3>1 DEF BlankOK
      <3>3. \A c \in Block : media'[c] = "used" <=> media[c] = "used"
        BY <2>2, <3>1
      <3> QED BY <1>4, <1>6, <3>2, <3>3 DEF Programmed
    <2> QED BY <1>5, <2>1, <2>2
  <1> QED BY <1>1, <1>2, <1>7

\* The tables do not change, and of the tasks only those of the garbage.
LEMMA SameMaps ==
  ASSUME UNCHANGED <<flash, mt_pbas, mtl, dl>>, \A op : op # "addgt" => Has(op)' = Has(op)
  PROVE  /\ Closing' = Closing /\ MtBlock' = MtBlock /\ MtBlocks' = MtBlocks
         /\ PhysicalMt' = PhysicalMt /\ FlashMap' = FlashMap /\ Map' = Map
         /\ Dying' = Dying /\ Logs' = Logs /\ Turning' = Turning /\ Lost' = Lost
         /\ FreshOK => FreshOK'
  <1>1. /\ Has("mtset")' = Has("mtset") /\ Has("dldel")' = Has("dldel")
        /\ Has("convert")' = Has("convert") /\ Has("lost")' = Has("lost")
        /\ Has("updmt")' = Has("updmt") /\ Has("mtappend")' = Has("mtappend")
        /\ Has("format")' = Has("format") /\ Has("mapwrite")' = Has("mapwrite")
    OBVIOUS
  <1>2. Closing' = Closing /\ NextMt' = NextMt /\ Lost' = Lost /\ Updates' = Updates
    BY <1>1 DEF Closing, NextMt, Lost, Updates
  <1>3. PhysicalMt' = PhysicalMt
    BY DEF PhysicalMt
  <1>4. FlashMap' = FlashMap
    BY <1>3 DEF FlashMap
  <1>5. CurMap' = CurMap
    BY <1>2, <1>4 DEF CurMap
  <1>6. Map' = Map
    BY <1>2, <1>5 DEF Map
  <1>7. Dying' = Dying /\ Turning' = Turning
    BY <1>1 DEF Dying, Turning
  <1>8. Logs' = Logs
    BY <1>7 DEF Logs
  <1>9. MtBlock' = MtBlock /\ MtBlocks' = MtBlocks
    BY <1>2 DEF MtBlock, MtBlocks
  <1>10. FreshOK => FreshOK'
    BY <1>1 DEF FreshOK
  <1> QED BY <1>2, <1>3, <1>4, <1>6, <1>7, <1>8, <1>9, <1>10

LEMMA AddGarbageOK == NftlInv /\ AddGarbage => NftlInv' /\ PoolStep
  <1> SUFFICES ASSUME NftlInv, AddGarbage PROVE NftlInv' /\ PoolStep
    OBVIOUS
  <1> DEFINE g == Task.g
             k == Tail(todo)
  <1>1. /\ todo # <<>> /\ Task.op = "addgt" /\ Then(<<>>)
        /\ AddToGt(g) \/ AddToNoGt(g) \/ \E b \in Block : AddToNewGt(g, b)
        /\ UNCHANGED <<flash, mt_pbas, mtl, mt_cache, dl, wr>>
    BY DEF AddGarbage, Top
  <1>2. SoundInv /\ StackOK /\ TypesOK /\ GarbLists /\ BlankOK
    BY DEF NftlInv
  <1>3. /\ Elems(todo) = {Task} \cup Elems(k) /\ Lies(Task, k)
        /\ todo' = k /\ StackOK' /\ Elems(todo') = Elems(k)
    BY <1>1, <1>2, Stack, Popped
  <1>4. k \in AddK /\ g \in Seq(Block)
    BY <1>1, <1>3 DEF Lies, T, UpdMts, MtSets
  <1>5. Garb \subseteq Programmed
    <2>1. CASE Lost
      BY <2>1 DEF NftlInv
    <2>2. CASE ~Lost
      BY <2>2, Members
    <2> QED BY <2>1, <2>2
  <1>6. /\ Task \in Has("addgt") /\ Has("addgt") = {Task} \cup Has("addgt")'
        /\ \A op : op # "addgt" => Has(op)' = Has(op)
    BY <1>1, <1>3 DEF Has
  <1>7. Garb = Elems(g) \cup Garb'
    BY <1>6 DEF Garb
  <1> HIDE DEF g, k
  <1>8. g \in Retirable
    <2>1. Len(g) \in 1..2 /\ (Len(g) = 2 => g[1] # g[2])
      BY <1>2, <1>6 DEF GarbLists, g
    <2>2. Elems(g) \subseteq Programmed
      BY <1>5, <1>7
    <2> QED BY <1>4, <2>1, <2>2, Retires
  <1>9. PoolStep /\ SoundInv' /\ BlankOK' /\ Programmed' = Programmed \ Elems(g)
    BY <1>1, <1>2, <1>8, Retired
  <1>10. GarbLists'
    BY <1>2, <1>6 DEF GarbLists
  <1>11. /\ Closing' = Closing /\ MtBlock' = MtBlock /\ MtBlocks' = MtBlocks
         /\ PhysicalMt' = PhysicalMt /\ FlashMap' = FlashMap /\ Map' = Map
         /\ Dying' = Dying /\ Logs' = Logs /\ Turning' = Turning /\ Lost' = Lost
         /\ FreshOK => FreshOK'
    BY <1>1, <1>6, SameMaps
  <1>12. TypesOK'
    BY <1>1, <1>2, <1>11 DEF TypesOK
  <1>13. CASE Lost
    <2>1. PICK t \in Elems(todo) : t.op = "lost"
      BY <1>13 DEF Lost, Has
    <2>2. t \in Elems(k)
      BY <1>1, <1>3, <2>1 DEF k
    <2>3. k # <<>>
      BY <2>2, PlainStacks
    <2>4. Elems(k) = {T("lost")}
      BY <1>4, <2>1, <2>2, <2>3, AddOps
    <2>5. Has("addgt")' = {}
      BY <1>3, <2>4 DEF Has, T, k
    <2>6. Garb' = {}
      BY <2>5 DEF Garb
    <2> QED BY <1>3, <1>9, <1>10, <1>11, <1>12, <1>13, <2>6 DEF NftlInv
  <1>14. CASE ~Lost
    <2>1. /\ FreshOK /\ OneLog /\ Tables /\ LogsOK /\ DataOK /\ MtOK /\ CacheOK
          /\ Indices /\ TaskOK /\ Ready /\ CacheHot
      BY <1>14 DEF NftlInv
    <2>2. Garb' = Garb \ Elems(g)
      <3>1. \A t \in Has("addgt")' : Elems(t.g) \cap Elems(g) = {}
        BY <1>1, <1>3, <2>1 DEF TaskOK, Has, g, k
      <3>2. Garb' \cap Elems(g) = {}
        BY <3>1 DEF Garb
      <3> QED BY <1>7, <3>2
    <2>3. Tables'
      <3>1. Owned(Logs, Map, MtBlocks, Garb, Programmed) /\ Elems(g) \subseteq Garb
        BY <1>7, <2>1 DEF Tables
      <3>2. Owned(Logs, Map, MtBlocks, Garb \ Elems(g), Programmed \ Elems(g))
        BY <3>1, OwnedRetire
      <3>3. Owned(Logs', Map', MtBlocks', Garb', Programmed')
        BY <1>9, <1>11, <2>2, <3>2
      <3> QED BY <1>1, <1>11, <2>1, <3>3 DEF Tables
    <2>4. LogsOK' /\ DataOK'
      BY <1>1, <1>11, <2>1 DEF LogsOK, DataOK
    <2>5. MtOK' /\ CacheOK'
      BY <1>1, <1>11, <2>1 DEF MtOK, CacheOK
    <2>6. OneLog' /\ Indices'
      BY <1>1, <1>3, <2>1 DEF OneLog, Indices, k
    <2>7. Ready'
      BY <1>1, <1>3, <2>1, ReadyOn DEF k
    <2>8. todo' # <<>> => Task'.op \in PlainOps \cup {"merge", "convert", "updmt", "mtset", "lost"}
      BY <1>3, <1>4, AddOps DEF Task, k
    <2>9. TaskOK'
      BY <2>8 DEF TaskOK, PlainOps
    <2>10. CacheHot'
      <3>1. Closing' => mtl' # <<>> /\ mtl'[1].used = PagesPerBlock /\ mt_cache'.at = PhysicalMt'
        BY <1>1, <1>11, <2>1 DEF CacheHot
      <3> QED BY <2>8, <3>1 DEF CacheHot, PlainOps
    <2> QED BY <1>3, <1>9, <1>10, <1>11, <1>12, <1>14, <2>1, <2>3, <2>4, <2>5, <2>6, <2>7, <2>9, <2>10
            DEF NftlInv
  <1> QED BY <1>13, <1>14

\* Garbage is erased: no block that is programmed and held is touched.
LEMMA Cleaned ==
  ASSUME SoundInv, BlankOK, flash \in [Block -> [Page -> PageRec]], Reclaim
  PROVE  /\ PoolStep /\ SoundInv' /\ BlankOK' /\ Programmed' = Programmed
         /\ flash' \in [Block -> [Page -> PageRec]]
         /\ \A x \in Programmed : flash'[x] = flash[x]
  <1>1. EraseGarbage \/ EraseGt \/ EraseNoGt
    BY DEF Reclaim
  <1>2. PoolStep
    BY <1>1 DEF PoolStep, GoodStep
  <1>3. SoundInv'
    BY <1>2, Sound
  <1>4. /\ TypeOK /\ Shown /\ OneRole /\ RoleInv /\ NoBlock \notin Block
        /\ media \in [Block -> Media] /\ held \subseteq Block
    BY SoundParts DEF TypeOK
  <1>5. CASE EraseGarbage
    <2> DEFINE b == gar_pbas[gcidx]
    <2>1. /\ media' = [media EXCEPT ![b] = "blank"] /\ held' = held
          /\ gcpc = "reclaim" /\ gcidx <= Len(gar_pbas) /\ gcidx' = gcidx + 1
          /\ gar_pbas' = gar_pbas /\ gcpc' = gcpc
      BY <1>5 DEF EraseGarbage
    <2>2. flash' = [flash EXCEPT ![b] = [p \in Page |-> BlankPage]]
      BY <1>5, <2>1 DEF Reclaim, EraseGt, EraseNoGt, ReclaimDone, TypeOK
    <2>3. b \in Waiting /\ b \in Block
      BY <1>4, <2>1, WaitingErased
    <2> HIDE DEF b
    <2>4. b \notin held
      BY <1>4, <2>3 DEF OneRole
    <2>5. /\ media'[b] = "blank" /\ flash'[b] = [p \in Page |-> BlankPage]
          /\ \A c \in Block : c # b => media'[c] = media[c] /\ flash'[c] = flash[c]
      BY <1>4, <2>1, <2>2, <2>3
    <2>6. flash' \in [Block -> [Page -> PageRec]]
      BY <2>2, <2>3, Numbers
    <2>7. BlankOK'
      BY <2>5 DEF BlankOK
    <2>8. Programmed' = Programmed
      BY <1>4, <2>1, <2>4, <2>5 DEF Programmed
    <2>9. \A x \in Programmed : flash'[x] = flash[x]
      BY <1>4, <2>4, <2>5 DEF Programmed
    <2> QED BY <1>2, <1>3, <2>6, <2>7, <2>8, <2>9
  <1>6. CASE EraseGt
    <2> DEFINE b == gt_pbas
    <2>1. media' = [media EXCEPT ![b] = "blank"] /\ held' = held /\ b # NoBlock /\ ReclaimDone
      BY <1>6 DEF EraseGt, ReclaimDone
    <2>2. flash' = flash
      BY <1>4, <2>1 DEF Reclaim, EraseGarbage, ReclaimDone, TypeOK
    <2>3. b \in Block /\ media[b] = "gt"
      BY <1>4, <2>1 DEF TypeOK, Shown
    <2> HIDE DEF b
    <2>4. media'[b] = "blank" /\ \A c \in Block : c # b => media'[c] = media[c]
      BY <1>4, <2>1, <2>3
    <2>5. BlankOK'
      BY <2>2, <2>3, <2>4 DEF BlankOK
    <2>6. Programmed' = Programmed
      BY <1>4, <2>1, <2>3, <2>4 DEF Programmed
    <2> QED BY <1>2, <1>3, <2>2, <2>5, <2>6
  <1>7. CASE EraseNoGt
    <2>1. media' = media /\ held' = held /\ ReclaimDone
      BY <1>7 DEF EraseNoGt, ReclaimDone
    <2>2. flash' = flash
      BY <1>4, <2>1 DEF Reclaim, EraseGarbage, ReclaimDone, TypeOK
    <2>3. BlankOK' /\ Programmed' = Programmed
      BY <2>1, <2>2 DEF BlankOK, Programmed
    <2> QED BY <1>2, <1>3, <2>2, <2>3
  <1> QED BY <1>1, <1>5, <1>6, <1>7

\* The tables and the tasks do not change, nor do the blocks they name.
LEMMA SameBlocks ==
  ASSUME NftlInv, ~Lost, UNCHANGED <<mt_pbas, mtl, dl, todo>>,
         \A x \in Programmed : flash'[x] = flash[x]
  PROVE  /\ Closing' = Closing /\ MtBlock' = MtBlock /\ MtBlocks' = MtBlocks
         /\ PhysicalMt' = PhysicalMt /\ Map' = Map /\ Garb' = Garb
         /\ ~Closing /\ mt_pbas # NoBlock => FlashMap' = FlashMap
         /\ Dying' = Dying /\ Logs' = Logs /\ Turning' = Turning
         /\ mt_pbas # NoBlock => flash'[MtBlock] = flash[MtBlock]
  <1>1. \A op : Has(op)' = Has(op)
    BY DEF Has
  <1>2. /\ Closing' = Closing /\ NextMt' = NextMt /\ Updates' = Updates
        /\ Dying' = Dying /\ Turning' = Turning /\ Garb' = Garb
    BY <1>1 DEF Closing, NextMt, Updates, Dying, Turning, Garb
  <1>3. Logs' = Logs /\ PhysicalMt' = PhysicalMt /\ MtBlock' = MtBlock /\ MtBlocks' = MtBlocks
    BY <1>2 DEF Logs, PhysicalMt, MtBlock, MtBlocks
  <1>4. MtBlocks \subseteq Programmed
    BY Members
  <1>5. ~Closing /\ mt_pbas # NoBlock => FlashMap' = FlashMap
    BY <1>3, <1>4, MtPlace DEF FlashMap
  <1>6. Closing /\ mt_pbas # NoBlock => NextMt \in MtBlocks
    BY DEF MtBlocks
  <1>7. CurMap' = CurMap
    BY <1>2, <1>4, <1>5, <1>6 DEF CurMap
  <1>8. Map' = Map
    BY <1>2, <1>7 DEF Map
  <1>9. mt_pbas # NoBlock => flash'[MtBlock] = flash[MtBlock]
    BY <1>4, <1>6, MtPlace DEF MtBlock
  <1> QED BY <1>2, <1>3, <1>5, <1>8, <1>9

LEMMA ReclaimOK == NftlInv /\ Reclaim => NftlInv' /\ PoolStep
  <1> SUFFICES ASSUME NftlInv, Reclaim PROVE NftlInv' /\ PoolStep
    OBVIOUS
  <1>1. UNCHANGED <<mt_pbas, mtl, mt_cache, dl, todo, wr>>
    BY DEF Reclaim
  <1>2. /\ SoundInv /\ StackOK /\ TypesOK /\ GarbLists /\ BlankOK
        /\ flash \in [Block -> [Page -> PageRec]]
    BY DEF NftlInv, TypesOK
  <1>3. /\ PoolStep /\ SoundInv' /\ BlankOK' /\ Programmed' = Programmed
        /\ flash' \in [Block -> [Page -> PageRec]]
        /\ \A x \in Programmed : flash'[x] = flash[x]
    BY <1>2, Cleaned
  <1>4. StackOK' /\ GarbLists' /\ Lost' = Lost /\ Garb' = Garb
    BY <1>1, <1>2 DEF StackOK, GoodStack, Lies, GarbLists, Lost, Garb, Has
  <1>5. TypesOK'
    BY <1>1, <1>2, <1>3, <1>4 DEF TypesOK
  <1>6. CASE Lost
    <2>1. Garb' \subseteq Programmed'
      BY <1>3, <1>4, <1>6 DEF NftlInv
    <2> QED BY <1>3, <1>4, <1>5, <1>6, <2>1 DEF NftlInv
  <1>7. CASE ~Lost
    <2>1. /\ FreshOK /\ OneLog /\ Tables /\ LogsOK /\ DataOK /\ MtOK /\ CacheOK
          /\ Indices /\ TaskOK /\ Ready /\ CacheHot
      BY <1>7 DEF NftlInv
    <2>2. /\ Closing' = Closing /\ MtBlock' = MtBlock /\ MtBlocks' = MtBlocks
          /\ PhysicalMt' = PhysicalMt /\ Map' = Map /\ Garb' = Garb
          /\ ~Closing /\ mt_pbas # NoBlock => FlashMap' = FlashMap
          /\ Dying' = Dying /\ Logs' = Logs /\ Turning' = Turning
          /\ mt_pbas # NoBlock => flash'[MtBlock] = flash[MtBlock]
      BY <1>1, <1>3, <1>7, SameBlocks
    <2>3. FreshOK' /\ OneLog' /\ Indices' /\ Ready'
      BY <1>1, <2>1 DEF FreshOK, OneLog, Indices, Ready, Has
    <2>4. Tables'
      <3>1. Owned(Logs', Map', MtBlocks', Garb', Programmed')
        BY <1>3, <2>1, <2>2 DEF Tables
      <3> QED BY <1>1, <2>1, <2>2, <3>1 DEF Tables
    <2>5. LogsOK'
      <3> SUFFICES ASSUME NEW i \in (1..Len(dl)) \ Dying
                   PROVE  IF i \in Turning THEN TurningOK(dl[i], flash'[dl[i].pba])
                          ELSE dl[i].pba # NoBlock => LogOK(dl[i], flash'[dl[i].pba])
        BY <1>1, <2>2 DEF LogsOK
      <3>1. IF i \in Turning THEN TurningOK(dl[i], flash[dl[i].pba])
            ELSE dl[i].pba # NoBlock => LogOK(dl[i], flash[dl[i].pba])
        BY <2>1 DEF LogsOK
      <3>2. dl[i].pba # NoBlock => flash'[dl[i].pba] = flash[dl[i].pba]
        BY <1>3, <1>7, Members
      <3>3. i \in Turning => dl[i].pba # NoBlock
        BY <3>1 DEF TurningOK
      <3> QED BY <3>1, <3>2, <3>3
    <2>6. DataOK'
      <3> SUFFICES ASSUME NEW l \in Lba, Map[l] # NoBlock PROVE IsData(flash'[Map[l]])
        BY <2>2 DEF DataOK
      <3>1. IsData(flash[Map[l]]) /\ Map[l] \in Programmed
        BY <1>7, <2>1, Members DEF DataOK
      <3> QED BY <1>3, <3>1
    <2>7. MtOK'
      <3> SUFFICES ASSUME mt_pbas # NoBlock
                   PROVE  /\ flash'[MtBlock][0].t = "map" /\ flash'[MtBlock][0].k \in Block
                          /\ ~Closing /\ mtl # <<>> =>
                               \A p \in Page : LET c == flash'[mtl[1].pba][p]
                                               IN IF p < mtl[1].used THEN c.t = "mtlog" /\ c.k = 0
                                                                     ELSE c = BlankPage
        BY <1>1, <2>2 DEF MtOK
      <3>1. ~Closing /\ mtl # <<>> => flash'[mtl[1].pba] = flash[mtl[1].pba]
        <4>1. ~Closing /\ mtl # <<>> => mtl[1].pba \in MtBlocks
          BY <1>7, MtPlace
        <4> QED BY <1>3, <1>7, <4>1, Members
      <3> QED BY <2>1, <2>2, <3>1 DEF MtOK
    <2>8. CacheOK'
      BY <1>1, <2>1, <2>2 DEF CacheOK
    <2>9. TaskOK' /\ CacheHot'
      BY <1>1, <2>1, <2>2 DEF TaskOK, CacheHot, Task
    <2> QED BY <1>3, <1>4, <1>5, <1>7, <2>3, <2>4, <2>5, <2>6, <2>7, <2>8, <2>9 DEF NftlInv
  <1> QED BY <1>3, <1>6, <1>7

-----------------------------------------------------------------------------
(***************************************************************************)
(* The first mount                                                         *)
(***************************************************************************)

LEMMA FormatWriteOK == NftlInv /\ FormatWrite => NftlInv' /\ PoolStep /\ Unmoved
  <1> SUFFICES ASSUME NftlInv, FormatWrite PROVE NftlInv' /\ PoolStep /\ Unmoved
    OBVIOUS
  <1> DEFINE b == Task.blk
             g == MapPage("map", lastfree, NoMap)
             F == [flash[b] EXCEPT ![0] = g]
  <1>1. /\ todo # <<>> /\ Task.op = "mapwrite" /\ FirstProgram(b) /\ Then(<<>>)
        /\ flash' = [flash EXCEPT ![b][0] = g]
        /\ mt_pbas' = b /\ UNCHANGED <<mtl, mt_cache, dl, wr>>
    BY DEF FormatWrite, Top
  <1>2. StackOK
    BY DEF NftlInv
  <1>3. Tail(todo) = <<>> /\ Elems(todo) = {Task} \cup Elems(Tail(todo)) /\ Elems(<<>>) = {}
    <2>1. Lies(Task, Tail(todo)) /\ Elems(todo) = {Task} \cup Elems(Tail(todo))
      BY <1>1, <1>2, Stack
    <2>2. Tail(todo) = <<>>
      BY <1>1, <2>1 DEF Lies, T, UpdMts, MtSets
    <2> QED BY <2>1, <2>2, PlainStacks
  <1>4. \A op : Has(op) = {t \in {Task} : t.op = op}
    BY <1>3 DEF Has
  <1>5. /\ ~Lost /\ ~Closing /\ Updates = {} /\ Dying = {} /\ Garb = {} /\ Has("mapwrite") # {}
    BY <1>1, <1>4 DEF Lost, Closing, Updates, Dying, Garb
  <1>6. /\ SoundInv /\ TypeOK /\ flash \in [Block -> [Page -> PageRec]] /\ FreshOK /\ Tables
        /\ mt_cache \in [at : BlockX \X (Page \cup {NoPage}), map : [Lba -> BlockX]] /\ CacheOK
        /\ NoBlock \notin Block
    BY <1>5, Parts
  <1>7. mt_pbas = NoBlock /\ mtl = <<>> /\ dl = <<>>
    BY <1>5, <1>6 DEF FreshOK
  <1>8. b \in Block /\ flash[b] = [p \in Page |-> BlankPage]
    BY <1>1, <1>5, Blank
  <1>9. g \in PageRec /\ g.t = "map" /\ g.k \in Block /\ g.map = NoMap
    <2>1. lastfree \in Block /\ lastfree \in Int /\ NoMap \in [Lba -> BlockX]
      BY <1>6, Numbers DEF TypeOK
    <2> QED BY <2>1, MapPageType
  <1>10. F \in [Page -> PageRec] /\ F[0] = g
    BY <1>6, <1>8, <1>9, Numbers
  <1>11. flash' = [flash EXCEPT ![b] = F]
    BY <1>1
  <1> HIDE DEF b, g, F
  <1>12. /\ PoolStep /\ SoundInv' /\ BlankOK' /\ b \notin Programmed
         /\ b # NoBlock /\ Programmed' = Programmed \cup {b}
         /\ flash' \in [Block -> [Page -> PageRec]] /\ flash'[b] = F
    BY <1>1, <1>5, <1>10, <1>11, Fresh DEF b
  <1>13. todo' = <<>> /\ StackOK' /\ Elems(todo') = {}
    BY <1>1, <1>2, <1>3, Popped
  <1>14. \A op : Has(op)' = {}
    BY <1>13 DEF Has
  <1>15. ~Lost' /\ ~Closing' /\ Updates' = {} /\ Dying' = {} /\ Garb' = {} /\ GarbLists'
    BY <1>14 DEF Lost, Closing, Updates, Dying, Garb, GarbLists
  <1>16. mt_pbas' = b /\ mtl' = <<>> /\ dl' = <<>> /\ UNCHANGED <<mt_cache, wr>>
    BY <1>1, <1>7 DEF b
  <1>17. PhysicalMt' = <<b, 0>> /\ MtBlock' = b /\ FlashMap' = NoMap
    <2>1. PhysicalMt' = <<b, 0>> /\ MtBlock' = b
      BY <1>15, <1>16 DEF PhysicalMt, MtBlock
    <2> QED BY <1>9, <1>10, <1>12, <2>1 DEF FlashMap
  <1>18. Map' = NoMap /\ Map = NoMap /\ Logs' = {} /\ Logs = {}
    BY <1>5, <1>7, <1>12, <1>15, <1>16, <1>17 DEF Map, CurMap, Logs
  <1>19. MtBlocks = {} /\ MtBlocks' = {b}
    <2>1. {mtl'[i].pba : i \in 1..Len(mtl')} = {}
      <3>1. Len(<<>>) = 0 /\ 1..0 = {}
        OBVIOUS
      <3> QED BY <1>16, <3>1
    <2> QED BY <1>7, <1>12, <1>15, <1>16, <2>1 DEF MtBlocks
  <1>20. Tables'
    <2>1. Owned({}, NoMap, {}, {}, Programmed)
      BY <1>5, <1>6, <1>18, <1>19 DEF Tables
    <2>2. {b} \cap Programmed = {} /\ {b} \cap {} = {} /\ {b} \cup {} = {} \cup {} \cup {b}
      BY <1>12
    <2>3. Owned({}, NoMap, {b}, {}, Programmed \cup {b})
      BY <2>1, <2>2, OwnedMap
    <2>4. Owned(Logs', Map', MtBlocks', Garb', Programmed')
      BY <1>12, <1>15, <1>18, <1>19, <2>3
    <2> QED BY <1>16, <2>4 DEF Tables
  <1>21. LogsOK' /\ DataOK' /\ OneLog'
    BY <1>16, <1>18 DEF LogsOK, DataOK, OneLog, NoMap
  <1>22. MtOK'
    BY <1>9, <1>10, <1>12, <1>16, <1>17 DEF MtOK
  <1>23. CacheOK'
    <2>1. mt_cache'.at = <<NoBlock, NoPage>>
      BY <1>6, <1>7, <1>16 DEF CacheOK
    <2> QED BY <1>12, <1>16, <1>17, <2>1 DEF CacheOK
  <1>24. FreshOK' /\ Indices' /\ Ready' /\ TaskOK' /\ CacheHot'
    BY <1>12, <1>13, <1>14, <1>15, <1>16 DEF FreshOK, Indices, Ready, TaskOK, CacheHot
  <1>25. TypesOK'
    BY <1>6, <1>8, <1>12, <1>15, <1>16 DEF TypesOK, BlockX
  <1>26. Unmoved
    <2>1. Turning = {} /\ Turning' = {}
      BY <1>1, <1>4, <1>14 DEF Turning
    <2>2. LogBlocks(Logs) = {} /\ DataBlocks(Map) = {}
      BY <1>18 DEF LogBlocks, DataBlocks, NoMap
    <2> QED BY <1>18, <2>1, <2>2 DEF Unmoved, TurningLogs
  <1>27. NftlInv'
    BY <1>12, <1>13, <1>15, <1>20, <1>21, <1>22, <1>23, <1>24, <1>25 DEF NftlInv
  <1> QED BY <1>12, <1>26, <1>27

-----------------------------------------------------------------------------
(***************************************************************************)
(* Moves of blocks near the ECC limit                                      *)
(***************************************************************************)

\* What is pending when a block is moved.
LEMMA AtMove ==
  ASSUME NftlInv, todo # <<>>, Task.op = "move"
  PROVE  /\ ~Lost /\ ~Closing /\ mt_pbas # NoBlock /\ Dying = {} /\ Garb = {} /\ Updates = {}
         /\ Map = CurMap /\ Tail(todo) \in MoveK
         /\ \A t \in Elems(Tail(todo)) : t.op \in PlainOps \cup {"merge", "convert"}
         /\ Elems(todo) = {Task} \cup Elems(Tail(todo))
         /\ Task.blk \in Block /\ Task.src \in Block
         /\ Task.what.op \in {"log", "data", "mt", "mtl"}
         /\ Task.what.op \in {"log", "data"} => Tail(todo) = <<>>
         /\ Task.what.op = "data" => Task.what.lba \in Lba
  <1>1. StackOK
    BY DEF NftlInv
  <1>2. Lies(Task, Tail(todo)) /\ Elems(todo) = {Task} \cup Elems(Tail(todo))
    BY <1>1, Stack
  <1>3. \/ Task \in [op : {"move"}, what : [op : {"log"}, i : Nat] \cup [op : {"data"}, lba : Lba],
                     src : Block, blk : Block] /\ Tail(todo) = <<>>
        \/ Task \in [op : {"move"}, what : {T("mt"), T("mtl")}, src : Block, blk : Block]
           /\ Tail(todo) \in MoveK
    BY <1>2 DEF Lies, T, UpdMts, MtSets
  <1>4. /\ Tail(todo) \in MoveK /\ Task.blk \in Block /\ Task.src \in Block
        /\ Task.what.op \in {"log", "data", "mt", "mtl"}
        /\ Task.what.op \in {"log", "data"} => Tail(todo) = <<>>
        /\ Task.what.op = "data" => Task.what.lba \in Lba
    BY <1>3 DEF MoveK, T
  <1>5. \A t \in Elems(Tail(todo)) : t.op \in PlainOps \cup {"merge", "convert"}
    BY <1>4, MoveOps
  <1>6. /\ Has("lost") = {} /\ Has("mtset") = {} /\ Has("dldel") = {} /\ Has("addgt") = {}
        /\ Has("updmt") = {} /\ Has("mtappend") = {} /\ Has("format") = {} /\ Has("mapwrite") = {}
    BY <1>2, <1>5 DEF Has, PlainOps
  <1>7. ~Lost /\ ~Closing /\ Dying = {} /\ Garb = {} /\ Updates = {}
    BY <1>6 DEF Lost, Closing, Dying, Garb, Updates
  <1>8. mt_pbas # NoBlock
    BY <1>6, <1>7, Parts DEF FreshOK
  <1>9. Map = CurMap
    BY <1>7 DEF Map
  <1> QED BY <1>2, <1>4, <1>5, <1>7, <1>8, <1>9

\* The block is copied whole: what is not copied is blank.
LEMMA MoveWrites ==
  ASSUME NftlInv, MoveCopy
  PROVE  /\ todo # <<>> /\ Task.op = "move"
         /\ PoolStep /\ SoundInv' /\ BlankOK' /\ Task.blk \notin Programmed
         /\ Programmed' = Programmed \cup {Task.blk} /\ Task.src \in Programmed
         /\ flash' \in [Block -> [Page -> PageRec]] /\ flash'[Task.blk] = flash[Task.src]
         /\ \A x \in Programmed : flash'[x] = flash[x]
  <1> DEFINE w == Task.what.op
             src == Task.src
             n == CASE w = "log" -> dl[Task.what.i].used
                    [] w = "mtl" -> mtl[1].used
                    [] OTHER     -> PagesPerBlock
             F == [p \in Page |-> IF p < n THEN flash[src][p] ELSE BlankPage]
  <1>1. /\ todo # <<>> /\ Task.op = "move" /\ FirstProgram(Task.blk)
        /\ flash' = [flash EXCEPT ![Task.blk] = F]
    BY DEF MoveCopy, Top
  <1>2. /\ ~Lost /\ ~Closing /\ mt_pbas # NoBlock /\ Dying = {} /\ Task.blk \in Block /\ src \in Block
        /\ w \in {"log", "data", "mt", "mtl"} /\ (w \in {"log", "data"} => Tail(todo) = <<>>)
        /\ w = "data" => Task.what.lba \in Lba
        /\ Elems(todo) = {Task} \cup Elems(Tail(todo))
    BY <1>1, AtMove
  <1>3. /\ flash \in [Block -> [Page -> PageRec]] /\ TaskOK /\ LogsOK /\ MtOK /\ Elems(<<>>) = {}
        /\ NoBlock \notin Block
    BY <1>2, Parts, PlainStacks
  <1>4. flash[src] \in [Page -> PageRec] /\ BlankPage \in PageRec
    BY <1>2, <1>3, Numbers
  <1>5. /\ w = "log" => Task.what.i \in 1..Len(dl) /\ dl[Task.what.i].pba = src
        /\ w = "data" => Map[Task.what.lba] = src
        /\ w = "mtl" => mtl # <<>> /\ mtl[1].pba = src
        /\ w = "mt" => mt_pbas = src
    BY <1>1, <1>3 DEF TaskOK
  <1>6. src \in Programmed
    <2>1. CASE w = "log"
      BY <1>2, <1>3, <1>5, <2>1, Members
    <2>2. CASE w = "data"
      BY <1>2, <1>3, <1>5, <2>2, Members
    <2>3. CASE w \in {"mt", "mtl"}
      <3>1. src \in MtBlocks
        BY <1>2, <1>5, <2>3, MtPlace
      <3> QED BY <1>2, <3>1, Members
    <2> QED BY <1>2, <2>1, <2>2, <2>3
  <1>7. \A p \in Page : p < n \/ flash[src][p] = BlankPage
    <2>1. CASE w = "log"
      <3>1. n = dl[Task.what.i].used
        BY <2>1
      <3>2. Turning = {}
        BY <1>1, <1>2, <1>3, <2>1 DEF Turning, Has
      <3>3. LogOK(dl[Task.what.i], flash[src])
        BY <1>2, <1>3, <1>5, <2>1, <3>2 DEF LogsOK
      <3>4. dl[Task.what.i].used \in Nat
        <4>1. dl[Task.what.i] \in LogRec
          BY <1>2, <1>5, <2>1, Parts
        <4> QED BY <4>1, Numbers DEF LogRec
      <3>5. \A p \in Page : p < dl[Task.what.i].used \/ p >= dl[Task.what.i].used
        <4> SUFFICES ASSUME NEW m \in Nat, NEW p \in Page PROVE p < m \/ p >= m
          BY <3>4
        <4>1. p \in Nat
          BY Numbers
        <4> QED BY <4>1
      <3>6. \A p \in Page : p >= dl[Task.what.i].used => flash[src][p] = BlankPage
        BY <3>3 DEF LogOK
      <3> HIDE DEF n
      <3> QED BY <3>1, <3>5, <3>6
    <2>2. CASE w = "mtl"
      <3>1. n = mtl[1].used
        BY <2>2
      <3> QED BY <1>2, <1>3, <1>5, <2>2, <3>1 DEF MtOK
    <2>3. CASE w \in {"mt", "data"}
      <3>1. n = PagesPerBlock
        BY <2>3
      <3> QED BY <3>1, Numbers DEF Page
    <2> QED BY <1>2, <2>1, <2>2, <2>3
  <1>8. F = flash[src]
    BY <1>4, <1>7
  <1> HIDE DEF F, w, src, n
  <1>9. /\ PoolStep /\ SoundInv' /\ BlankOK' /\ Task.blk \notin Programmed
        /\ Programmed' = Programmed \cup {Task.blk}
        /\ flash' \in [Block -> [Page -> PageRec]] /\ flash'[Task.blk] = F
        /\ \A x \in Programmed : flash'[x] = flash[x]
    <2>1. F \in [Page -> PageRec]
      BY <1>4, <1>8
    <2> QED BY <1>1, <1>2, <2>1, Fresh, ZenonT(60)
  <1> QED BY <1>1, <1>6, <1>8, <1>9 DEF src

LEMMA Alone ==
  ASSUME NEW b
  PROVE  Elems(<<b>>) = {b} /\ Len(<<b>>) = 1
  <1>1. Len(<<b>>) = 1 /\ <<b>>[1] = b /\ 1..1 = {1}
    OBVIOUS
  <1> QED BY <1>1 DEF Elems

\* The tasks after a move.
LEMMA MovedTasks ==
  ASSUME NftlInv, todo # <<>>, Task.op = "move",
         Elems(Tail(todo)) \subseteq Elems(todo'), AddGt(<<Task.src>>) \in Elems(todo'),
         \A t \in Elems(todo') : t \in Elems(Tail(todo)) \/ t = AddGt(<<Task.src>>) \/ t.op = "updmt"
  PROVE  /\ ~Lost' /\ ~Closing' /\ Dying' = {} /\ Turning' = Turning /\ Garb' = {Task.src}
         /\ GarbLists' /\ Updates' = Has("updmt")' /\ Has("format")' = {} /\ Has("mapwrite")' = {}
  <1> DEFINE a == AddGt(<<Task.src>>)
  <1>1. a.op = "addgt" /\ a.g = <<Task.src>>
    BY DEF AddGt
  <1>2. Elems(a.g) = {Task.src} /\ Len(a.g) = 1
    BY <1>1, Alone
  <1>3. /\ \A t \in Elems(Tail(todo)) : t.op \in PlainOps \cup {"merge", "convert"}
        /\ Elems(todo) = {Task} \cup Elems(Tail(todo))
    BY AtMove
  <1> HIDE DEF a
  <1>4. \A t \in Elems(todo') : t \in Elems(Tail(todo)) \/ t = a \/ t.op = "updmt"
    BY DEF a
  <1>5. /\ Has("lost")' = {} /\ Has("mtset")' = {} /\ Has("dldel")' = {} /\ Has("mtappend")' = {}
        /\ Has("format")' = {} /\ Has("mapwrite")' = {}
    BY <1>1, <1>3, <1>4 DEF Has, PlainOps
  <1>6. Has("addgt")' = {a}
    BY <1>1, <1>3, <1>4 DEF Has, PlainOps, a
  <1>7. Has("convert")' = Has("convert")
    BY <1>1, <1>3, <1>4 DEF Has, PlainOps
  <1>8. ~Lost' /\ ~Closing' /\ Dying' = {} /\ Turning' = Turning /\ Updates' = Has("updmt")'
    BY <1>5, <1>7 DEF Lost, Closing, Dying, Turning, Updates
  <1>9. Garb' = {Task.src} /\ GarbLists'
    BY <1>2, <1>6 DEF Garb, GarbLists
  <1> QED BY <1>5, <1>8, <1>9

\* The rest of the invariant after a move.
LEMMA MoveEnds ==
  ASSUME NftlInv, todo # <<>>, Task.op = "move",
         Elems(Tail(todo)) \subseteq Elems(todo'), AddGt(<<Task.src>>) \in Elems(todo'),
         \A t \in Elems(todo') : t \in Elems(Tail(todo)) \/ t = AddGt(<<Task.src>>) \/ t.op = "updmt",
         StackOK', todo' # <<>>, Task'.op \in {"addgt", "updmt"},
         Task'.op = "addgt" => \A t \in Elems(Tail(todo')) : t.op # "addgt",
         SoundInv', BlankOK', flash' \in [Block -> [Page -> PageRec]], UNCHANGED <<mt_cache, wr>>,
         dl' \in Seq(LogRec), Len(dl') = Len(dl), OneLog', dl' = dl \/ Tail(todo) = <<>>,
         Tables', LogsOK', DataOK', MtOK', CacheOK', mt_pbas' \in Block,
         mtl' = <<>> \/ \E m \in MtlRec : mtl' = <<m>>
  PROVE  NftlInv'
  <1>1. ~Lost' /\ ~Closing' /\ GarbLists' /\ Has("format")' = {} /\ Has("mapwrite")' = {}
    BY MovedTasks
  <1>2. /\ ~Lost /\ Elems(todo) = {Task} \cup Elems(Tail(todo))
        /\ \A t \in Elems(Tail(todo)) : t.op \in PlainOps \cup {"merge", "convert"}
    BY AtMove
  <1>3. Indices /\ Ready /\ TypesOK /\ NoBlock \notin Block
    BY <1>2, Parts DEF NftlInv
  <1>4. TypesOK'
    BY <1>1, <1>3 DEF TypesOK, BlockX
  <1>5. FreshOK'
    BY <1>1, <1>3 DEF FreshOK
  <1>6. Indices'
    BY <1>2, <1>3 DEF Indices, AddGt
  <1>7. TaskOK' /\ CacheHot'
    BY <1>1 DEF TaskOK, CacheHot
  <1>8. Ready'
    <2>1. /\ T("ack") \in Elems(todo') => T("ack") \in Elems(Tail(todo))
          /\ T("put") \in Elems(todo') => T("put") \in Elems(Tail(todo))
      BY DEF T, AddGt
    <2>2. CASE dl' = dl
      BY <1>2, <1>3, <2>1, <2>2, ReadyOn
    <2>3. CASE Tail(todo) = <<>>
      <3>1. T("ack") \notin Elems(todo') /\ T("put") \notin Elems(todo')
        BY <2>1, <2>3, PlainStacks
      <3> QED BY <3>1 DEF Ready
    <2> QED BY <2>2, <2>3
  <1> QED BY <1>1, <1>4, <1>5, <1>6, <1>7, <1>8 DEF NftlInv

\* What nftl_block_replace leaves to be done.
MovesRest(w, l, b, src) == When(w = "data", UpdMt(l, b)) \o <<AddGt(<<src>>)>>

LEMMA OnlyGarbage ==
  ASSUME NEW w, w # "data", NEW l, NEW b, NEW src
  PROVE  MovesRest(w, l, b, src) = <<AddGt(<<src>>)>>
  <1> DEFINE a == AddGt(<<src>>)
  <1> HIDE DEF a
  <1>1. <<>> \o <<a>> = <<a>>
    OBVIOUS
  <1> QED BY <1>1 DEF MovesRest, When, a

\* A log, a MapTab or an MTLog block has been moved.
LEMMA MoveStack ==
  ASSUME NftlInv, todo # <<>>, Task.op = "move", Then(<<AddGt(<<Task.src>>)>>)
  PROVE  /\ StackOK' /\ todo' # <<>> /\ Task'.op = "addgt"
         /\ \A t \in Elems(Tail(todo')) : t.op # "addgt"
         /\ Elems(Tail(todo)) \subseteq Elems(todo') /\ AddGt(<<Task.src>>) \in Elems(todo')
         /\ \A t \in Elems(todo') : t \in Elems(Tail(todo)) \/ t = AddGt(<<Task.src>>)
  <1> DEFINE a == AddGt(<<Task.src>>)
  <1>1. StackOK
    BY DEF NftlInv
  <1>2. /\ Tail(todo) \in MoveK /\ Task.src \in Block
        /\ \A t \in Elems(Tail(todo)) : t.op \in PlainOps \cup {"merge", "convert"}
    BY AtMove
  <1>3. a \in [op : {"addgt"}, g : Seq(Block)] /\ a.op = "addgt"
    BY <1>2 DEF AddGt
  <1>4. Lies(a, Tail(todo))
    BY <1>2, <1>3 DEF Lies, AddK
  <1> HIDE DEF a
  <1>5. Then(<<a>>)
    BY DEF a
  <1>6. /\ StackOK' /\ todo' # <<>> /\ Task' = a /\ Tail(todo') = Tail(todo)
        /\ Elems(todo') = {a} \cup Elems(Tail(todo))
    BY <1>1, <1>4, <1>5, Swapped
  <1>7. \A t \in Elems(Tail(todo')) : t.op # "addgt"
    BY <1>2, <1>6 DEF PlainOps
  <1> QED BY <1>3, <1>6, <1>7 DEF a

\* A step that does not write to the blocks of the tables.
LEMMA StaysPut ==
  ASSUME NftlInv, ~Lost, UNCHANGED dl, Turning' = Turning, Logs' = Logs, Map' = Map,
         \A x \in Programmed : flash'[x] = flash[x]
  PROVE  Unmoved
  <1>1. LogBlocks(Logs) \cup DataBlocks(Map) \subseteq Programmed
    BY Members
  <1> QED BY <1>1 DEF Unmoved, TurningLogs

LEMMA SameData ==
  ASSUME NftlInv, ~Lost, Dying' = Dying, Turning' = Turning, UNCHANGED dl, Map' = Map,
         \A x \in Programmed : flash'[x] = flash[x]
  PROVE  LogsOK' /\ DataOK' /\ OneLog' /\ Logs' = Logs
  <1>1. LogsOK /\ DataOK /\ OneLog
    BY Parts
  <1>2. LogsOK'
    <2> SUFFICES ASSUME NEW i \in (1..Len(dl)) \ Dying
                 PROVE  IF i \in Turning THEN TurningOK(dl[i], flash'[dl[i].pba])
                        ELSE dl[i].pba # NoBlock => LogOK(dl[i], flash'[dl[i].pba])
      BY DEF LogsOK
    <2>1. IF i \in Turning THEN TurningOK(dl[i], flash[dl[i].pba])
          ELSE dl[i].pba # NoBlock => LogOK(dl[i], flash[dl[i].pba])
      BY <1>1 DEF LogsOK
    <2>2. dl[i].pba # NoBlock => flash'[dl[i].pba] = flash[dl[i].pba]
      BY Members
    <2>3. i \in Turning => dl[i].pba # NoBlock
      BY <2>1 DEF TurningOK
    <2> QED BY <2>1, <2>2, <2>3
  <1>3. DataOK'
    <2> SUFFICES ASSUME NEW l \in Lba, Map[l] # NoBlock PROVE IsData(flash'[Map[l]])
      BY DEF DataOK
    <2>1. IsData(flash[Map[l]]) /\ Map[l] \in Programmed
      BY <1>1, Members DEF DataOK
    <2> QED BY <2>1
  <1> QED BY <1>1, <1>2, <1>3 DEF OneLog, Logs

LEMMA MoveLogCopied ==
  ASSUME NftlInv, MoveCopy, Task.what.op = "log"
  PROVE  /\ NftlInv' /\ Map' = Map /\ TurningLogs = {} /\ TurningLogs' = {}
         /\ Logs' = (Logs \ {dl[Task.what.i]}) \cup {[dl[Task.what.i] EXCEPT !.pba = Task.blk]}
  <1> DEFINE b == Task.blk
             src == Task.src
             i == Task.what.i
             e == dl[i]
             f == [e EXCEPT !.pba = b]
  <1>1. /\ todo # <<>> /\ Task.op = "move" /\ SoundInv' /\ BlankOK' /\ b \notin Programmed
        /\ Programmed' = Programmed \cup {b} /\ src \in Programmed
        /\ flash' \in [Block -> [Page -> PageRec]] /\ flash'[b] = flash[src]
        /\ \A x \in Programmed : flash'[x] = flash[x]
    BY MoveWrites
  <1>2. /\ dl' = [dl EXCEPT ![i].pba = b] /\ UNCHANGED <<mtl, mt_pbas, mt_cache, wr>>
        /\ Then(<<AddGt(<<src>>)>>)
    <2>1. MovesRest("log", Task.what.lba, b, src) = <<AddGt(<<src>>)>>
      BY OnlyGarbage
    <2> QED BY <2>1 DEF MoveCopy, MovesRest
  <1>3. /\ ~Lost /\ ~Closing /\ mt_pbas # NoBlock /\ Dying = {} /\ Garb = {} /\ Updates = {}
        /\ Map = CurMap /\ Tail(todo) = <<>> /\ b \in Block /\ src \in Block
        /\ Elems(todo) = {Task} \cup Elems(Tail(todo))
    BY <1>1, AtMove
  <1>4. /\ dl \in Seq(LogRec) /\ OneLog /\ Tables /\ LogsOK /\ DataOK /\ TaskOK /\ mt_pbas \in BlockX
        /\ mtl = <<>> \/ \E m \in MtlRec : mtl = <<m>>
        /\ NoBlock \notin Block
    BY <1>3, Parts
  <1>5. i \in 1..Len(dl) /\ e.pba = src /\ e \in LogRec
    BY <1>1, <1>4 DEF TaskOK
  <1>6. /\ f \in LogRec /\ f.lba = e.lba /\ f.pba = b /\ f.used = e.used /\ f.ppa = e.ppa
        /\ dl' = [dl EXCEPT ![i] = f]
    BY <1>2, <1>3, <1>4, <1>5 DEF LogRec, BlockX
  <1>7. Turning = {}
    BY <1>1, <1>3, PlainStacks DEF Turning, Has
  <1> HIDE DEF b, src, i, e, f
  <1>8. /\ StackOK' /\ todo' # <<>> /\ Task'.op = "addgt"
        /\ \A t \in Elems(Tail(todo')) : t.op # "addgt"
        /\ Elems(Tail(todo)) \subseteq Elems(todo') /\ AddGt(<<Task.src>>) \in Elems(todo')
        /\ \A t \in Elems(todo') : t \in Elems(Tail(todo)) \/ t = AddGt(<<Task.src>>)
    BY <1>1, <1>2, MoveStack DEF src
  <1>9. /\ ~Closing' /\ Dying' = {} /\ Turning' = {} /\ Garb' = {src} /\ Updates' = {}
    <2>1. /\ ~Closing' /\ Dying' = {} /\ Turning' = Turning /\ Garb' = {src}
          /\ Updates' = Has("updmt")'
      BY <1>1, <1>8, MovedTasks DEF src
    <2>2. AddGt(<<Task.src>>).op = "addgt" /\ Elems(Tail(todo)) = {}
      BY <1>3, PlainStacks DEF AddGt
    <2>3. Has("updmt")' = {}
      BY <1>8, <2>2 DEF Has
    <2> QED BY <1>7, <2>1, <2>3
  <1>10. /\ dl' \in Seq(LogRec) /\ Len(dl') = Len(dl) /\ dl'[i] = f
         /\ \A j \in 1..Len(dl) : j # i => dl'[j] = dl[j]
         /\ OneLog'
         /\ {dl'[j] : j \in 1..Len(dl')} = ({dl[j] : j \in 1..Len(dl)} \ {dl[i]}) \cup {f}
    BY <1>4, <1>5, <1>6, LogChanges DEF e
  <1>11. Logs = {dl[j] : j \in 1..Len(dl)} /\ Logs' = (Logs \ {e}) \cup {f} /\ e \in Logs
    <2>1. Logs = {dl[j] : j \in 1..Len(dl)} /\ Logs' = {dl'[j] : j \in 1..Len(dl')}
      BY <1>3, <1>9 DEF Logs
    <2> QED BY <1>5, <1>10, <2>1 DEF e
  <1>12. CurMap' = CurMap /\ MtBlocks' = MtBlocks /\ MtOK' /\ CacheOK'
    <2>1. \A x \in MtBlocks : flash'[x] = flash[x]
      BY <1>1, <1>3, Members
    <2> QED BY <1>2, <1>3, <1>9, <2>1, MapKept
  <1>13. Map' = Map
    BY <1>3, <1>9, <1>12 DEF Map
  <1>14. Tables'
    <2>1. Owned(Logs, Map, MtBlocks, {}, Programmed)
      BY <1>3, <1>4 DEF Tables
    <2>2. Owned(Logs \ {e}, Map, MtBlocks, {} \cup {src}, Programmed)
      BY <1>3, <1>4, <1>5, <1>11, <2>1, OwnedLessLog
    <2>3. b \notin Programmed /\ f.pba = b
      BY <1>1, <1>6
    <2>4. Owned((Logs \ {e}) \cup {f}, Map, MtBlocks, {} \cup {src}, Programmed \cup ({f.pba} \ {NoBlock}))
      BY <2>2, <2>3, OwnedNewLog
    <2>5. {f.pba} \ {NoBlock} = {b} /\ {} \cup {src} = {src}
      BY <1>3, <1>4, <2>3
    <2>6. Owned(Logs', Map', MtBlocks', Garb', Programmed')
      BY <1>1, <1>9, <1>11, <1>12, <1>13, <2>4, <2>5
    <2> QED BY <1>2, <1>3, <1>4, <2>6 DEF Tables
  <1>15. LogsOK'
    <2> SUFFICES ASSUME NEW j \in 1..Len(dl), dl'[j].pba # NoBlock
                 PROVE  LogOK(dl'[j], flash'[dl'[j].pba])
      BY <1>9, <1>10 DEF LogsOK
    <2>1. CASE j = i
      <3>1. LogOK(e, flash[src])
        BY <1>3, <1>4, <1>5, <1>7 DEF LogsOK, e
      <3>2. LogOK(f, flash'[b])
        BY <1>1, <1>6, <3>1 DEF LogOK
      <3> QED BY <1>6, <1>10, <2>1, <3>2
    <2>2. CASE j # i
      <3>1. dl'[j] = dl[j]
        BY <1>10, <2>2
      <3>2. LogOK(dl[j], flash[dl[j].pba]) /\ dl[j].pba \in Programmed
        BY <1>3, <1>4, <1>7, <3>1, Members DEF LogsOK
      <3> QED BY <1>1, <3>1, <3>2
    <2> QED BY <2>1, <2>2
  <1>16. DataOK'
    <2> SUFFICES ASSUME NEW l \in Lba, Map[l] # NoBlock PROVE IsData(flash'[Map[l]])
      BY <1>13 DEF DataOK
    <2>1. IsData(flash[Map[l]]) /\ Map[l] \in Programmed
      BY <1>3, <1>4, Members DEF DataOK
    <2> QED BY <1>1, <2>1
  <1>17. mt_pbas' \in Block /\ (mtl' = <<>> \/ \E m \in MtlRec : mtl' = <<m>>)
    BY <1>2, <1>3, <1>4 DEF BlockX
  <1>18. NftlInv'
    BY <1>1, <1>2, <1>3, <1>8, <1>10, <1>12, <1>14, <1>15, <1>16, <1>17, MoveEnds
  <1> QED BY <1>7, <1>9, <1>11, <1>13, <1>18 DEF TurningLogs, f, e, i, b

LEMMA MoveMtCopied ==
  ASSUME NftlInv, MoveCopy, Task.what.op = "mt"
  PROVE  NftlInv' /\ Unmoved
  <1> DEFINE b == Task.blk
             src == Task.src
  <1>1. /\ todo # <<>> /\ Task.op = "move" /\ SoundInv' /\ BlankOK' /\ b \notin Programmed
        /\ Programmed' = Programmed \cup {b} /\ src \in Programmed
        /\ flash' \in [Block -> [Page -> PageRec]] /\ flash'[b] = flash[src]
        /\ \A x \in Programmed : flash'[x] = flash[x]
    BY MoveWrites
  <1>2. mt_pbas' = b /\ UNCHANGED <<dl, mtl, mt_cache, wr>> /\ Then(<<AddGt(<<src>>)>>)
    <2>1. MovesRest("mt", Task.what.lba, b, src) = <<AddGt(<<src>>)>>
      BY OnlyGarbage
    <2> QED BY <2>1 DEF MoveCopy, MovesRest
  <1>3. /\ ~Lost /\ ~Closing /\ mt_pbas # NoBlock /\ Dying = {} /\ Garb = {} /\ Updates = {}
        /\ Map = CurMap /\ b \in Block /\ src \in Block
        /\ \A t \in Elems(Tail(todo)) : t.op \in PlainOps \cup {"merge", "convert"}
    BY <1>1, AtMove
  <1>4. dl \in Seq(LogRec) /\ Tables /\ MtOK /\ TaskOK /\ CacheHot /\ NoBlock \notin Block
    BY <1>3, Parts
  <1>5. mtl = <<>> /\ mt_pbas = src /\ mt_cache.at = PhysicalMt
    BY <1>1, <1>4 DEF TaskOK, CacheHot
  <1>6. PhysicalMt = <<src, 0>> /\ MtBlocks = {src} /\ MtBlock = src
    BY <1>3, <1>5, MtPlace
  <1> HIDE DEF b, src
  <1>7. /\ StackOK' /\ todo' # <<>> /\ Task'.op = "addgt"
        /\ \A t \in Elems(Tail(todo')) : t.op # "addgt"
        /\ Elems(Tail(todo)) \subseteq Elems(todo') /\ AddGt(<<Task.src>>) \in Elems(todo')
        /\ \A t \in Elems(todo') : t \in Elems(Tail(todo)) \/ t = AddGt(<<Task.src>>)
    BY <1>1, <1>2, MoveStack DEF src
  <1>8. /\ ~Closing' /\ Dying' = {} /\ Turning' = Turning /\ Garb' = {src} /\ Updates' = {}
    <2>1. /\ ~Closing' /\ Dying' = {} /\ Turning' = Turning /\ Garb' = {src}
          /\ Updates' = Has("updmt")'
      BY <1>1, <1>7, MovedTasks DEF src
    <2>2. AddGt(<<Task.src>>).op = "addgt"
      BY DEF AddGt
    <2>3. Has("updmt")' = {}
      BY <1>3, <1>7, <2>2 DEF Has, PlainOps
    <2> QED BY <2>1, <2>3
  <1>9. PhysicalMt' = <<b, 0>> /\ MtBlock' = b /\ MtBlocks' = {b} /\ b # NoBlock /\ mtl' = <<>>
    <2>1. {mtl'[j].pba : j \in 1..Len(mtl')} = {} /\ mtl' = <<>>
      <3>1. Len(<<>>) = 0 /\ 1..0 = {}
        OBVIOUS
      <3> QED BY <1>2, <1>5, <3>1
    <2>2. b # NoBlock
      BY <1>3, <1>4
    <2> QED BY <1>2, <1>8, <2>1, <2>2 DEF PhysicalMt, MtBlock, MtBlocks
  <1>10. FlashMap' = FlashMap
    BY <1>1, <1>6, <1>9 DEF FlashMap
  <1>11. CurMap' = CurMap /\ Map' = Map
    <2>1. CurMap' = CurMap
      BY <1>2, <1>3, <1>8, <1>9, <1>10 DEF CurMap
    <2> QED BY <1>3, <1>8, <2>1 DEF Map
  <1>12. LogsOK' /\ DataOK' /\ OneLog' /\ Logs' = Logs
    BY <1>1, <1>2, <1>3, <1>8, <1>11, SameData
  <1>13. Tables'
    <2>1. Owned(Logs, Map, {src}, {}, Programmed)
      BY <1>3, <1>4, <1>6 DEF Tables
    <2>2. {b} \cap Programmed = {} /\ {b} \cap {src} = {} /\ {b} \cup {src} = {src} \cup {} \cup {b}
      BY <1>1
    <2>3. Owned(Logs, Map, {b}, {src}, Programmed \cup {b})
      BY <2>1, <2>2, OwnedMap
    <2>4. Owned(Logs', Map', MtBlocks', Garb', Programmed')
      BY <1>1, <1>8, <1>9, <1>11, <1>12, <2>3
    <2> QED BY <1>9, <2>4 DEF Tables
  <1>14. MtOK'
    BY <1>1, <1>3, <1>4, <1>6, <1>9 DEF MtOK
  <1>15. CacheOK'
    <2>1. mt_cache'.at # PhysicalMt'
      BY <1>1, <1>2, <1>5, <1>6, <1>9
    <2> QED BY <1>2, <1>9, <2>1 DEF CacheOK
  <1>16. mt_pbas' \in Block
    BY <1>2, <1>3
  <1>17. Unmoved
    BY <1>1, <1>2, <1>3, <1>8, <1>11, <1>12, StaysPut
  <1>18. NftlInv'
    BY <1>1, <1>2, <1>4, <1>7, <1>9, <1>12, <1>13, <1>14, <1>15, <1>16, MoveEnds
  <1> QED BY <1>17, <1>18

LEMMA MoveMtlCopied ==
  ASSUME NftlInv, MoveCopy, Task.what.op = "mtl"
  PROVE  NftlInv' /\ Unmoved
  <1> DEFINE b == Task.blk
             src == Task.src
             m == mtl[1]
             n == [m EXCEPT !.pba = b]
  <1>1. /\ todo # <<>> /\ Task.op = "move" /\ SoundInv' /\ BlankOK' /\ b \notin Programmed
        /\ Programmed' = Programmed \cup {b} /\ src \in Programmed
        /\ flash' \in [Block -> [Page -> PageRec]] /\ flash'[b] = flash[src]
        /\ \A x \in Programmed : flash'[x] = flash[x]
    BY MoveWrites
  <1>2. /\ mtl' = [mtl EXCEPT ![1].pba = b] /\ UNCHANGED <<dl, mt_pbas, mt_cache, wr>>
        /\ Then(<<AddGt(<<src>>)>>)
    <2>1. MovesRest("mtl", Task.what.lba, b, src) = <<AddGt(<<src>>)>>
      BY OnlyGarbage
    <2> QED BY <2>1 DEF MoveCopy, MovesRest
  <1>3. /\ ~Lost /\ ~Closing /\ mt_pbas # NoBlock /\ Dying = {} /\ Garb = {} /\ Updates = {}
        /\ Map = CurMap /\ b \in Block /\ src \in Block
        /\ \A t \in Elems(Tail(todo)) : t.op \in PlainOps \cup {"merge", "convert"}
    BY <1>1, AtMove
  <1>4. dl \in Seq(LogRec) /\ Tables /\ MtOK /\ TaskOK /\ CacheHot /\ NoBlock \notin Block
    BY <1>3, Parts
  <1>5. mtl # <<>> /\ m.pba = src /\ mt_cache.at = PhysicalMt
    BY <1>1, <1>4 DEF TaskOK, CacheHot
  <1>6. /\ PhysicalMt = <<src, m.used - 1>> /\ MtBlocks = {mt_pbas, src} /\ MtBlock = mt_pbas
        /\ mtl = <<m>> /\ m \in MtlRec /\ mt_pbas \in Block
    BY <1>3, <1>5, MtPlace
  <1>7. n \in MtlRec /\ n.pba = b /\ n.used = m.used /\ mtl' = <<n>>
    <2>1. n \in MtlRec /\ n.pba = b /\ n.used = m.used
      BY <1>3, <1>6 DEF MtlRec
    <2>2. [<<m>> EXCEPT ![1].pba = b] = <<n>>
      OBVIOUS
    <2> QED BY <1>2, <1>6, <2>1, <2>2
  <1> HIDE DEF b, src, m, n
  <1>8. /\ StackOK' /\ todo' # <<>> /\ Task'.op = "addgt"
        /\ \A t \in Elems(Tail(todo')) : t.op # "addgt"
        /\ Elems(Tail(todo)) \subseteq Elems(todo') /\ AddGt(<<Task.src>>) \in Elems(todo')
        /\ \A t \in Elems(todo') : t \in Elems(Tail(todo)) \/ t = AddGt(<<Task.src>>)
    BY <1>1, <1>2, MoveStack DEF src
  <1>9. /\ ~Closing' /\ Dying' = {} /\ Turning' = Turning /\ Garb' = {src} /\ Updates' = {}
    <2>1. /\ ~Closing' /\ Dying' = {} /\ Turning' = Turning /\ Garb' = {src}
          /\ Updates' = Has("updmt")'
      BY <1>1, <1>8, MovedTasks DEF src
    <2>2. AddGt(<<Task.src>>).op = "addgt"
      BY DEF AddGt
    <2>3. Has("updmt")' = {}
      BY <1>3, <1>8, <2>2 DEF Has, PlainOps
    <2> QED BY <2>1, <2>3
  <1>10. /\ PhysicalMt' = <<b, m.used - 1>> /\ FlashMap' = flash'[b][m.used - 1].map
         /\ CurMap' = FlashMap' /\ MtBlocks' = {mt_pbas, b} /\ mt_pbas' # NoBlock
    <2>1. mt_pbas' = mt_pbas /\ mt_pbas' # NoBlock
      BY <1>2, <1>3
    <2>2. /\ PhysicalMt' = <<n.pba, n.used - 1>> /\ FlashMap' = flash'[n.pba][n.used - 1].map
          /\ CurMap' = FlashMap' /\ MtBlocks' = {mt_pbas', n.pba}
      BY <1>7, <1>9, <2>1, MtAfter
    <2> QED BY <1>7, <2>1, <2>2
  <1>11. CurMap' = CurMap
    <2>1. FlashMap = flash[src][m.used - 1].map /\ CurMap = FlashMap
      BY <1>3, <1>6 DEF FlashMap, CurMap
    <2> QED BY <1>1, <1>10, <2>1
  <1>12. Map' = Map
    BY <1>3, <1>9, <1>11 DEF Map
  <1>13. LogsOK' /\ DataOK' /\ OneLog' /\ Logs' = Logs
    BY <1>1, <1>2, <1>3, <1>9, <1>12, SameData
  <1>14. mt_pbas \in Programmed /\ mt_pbas # src /\ mt_pbas # b
    <2>1. mt_pbas \in Programmed
      BY <1>3, <1>6, Members
    <2>2. mt_pbas # src
      BY <1>3, <1>4, <1>5, <1>6 DEF Tables, m
    <2> QED BY <1>1, <2>1, <2>2
  <1>15. Tables'
    <2>1. Owned(Logs, Map, {mt_pbas, src}, {}, Programmed)
      BY <1>3, <1>4, <1>6 DEF Tables
    <2>2. /\ {b} \cap Programmed = {} /\ {mt_pbas, b} \cap {src} = {}
          /\ {mt_pbas, b} \cup {src} = {mt_pbas, src} \cup {} \cup {b}
      BY <1>1, <1>14
    <2>3. Owned(Logs, Map, {mt_pbas, b}, {src}, Programmed \cup {b})
      BY <2>1, <2>2, OwnedMap
    <2>4. Owned(Logs', Map', MtBlocks', Garb', Programmed')
      BY <1>1, <1>9, <1>10, <1>12, <1>13, <2>3
    <2>5. mtl'[1].pba = b
      BY <1>7
    <2> QED BY <1>2, <1>14, <2>4, <2>5 DEF Tables
  <1>16. MtOK'
    <2>1. /\ flash[mt_pbas][0].t = "map" /\ flash[mt_pbas][0].k \in Block
          /\ \A p \in Page : IF p < m.used THEN flash[src][p].t = "mtlog" /\ flash[src][p].k = 0
                                           ELSE flash[src][p] = BlankPage
      BY <1>3, <1>4, <1>5, <1>6 DEF MtOK, m
    <2>2. flash'[mt_pbas'] = flash[mt_pbas]
      BY <1>1, <1>2, <1>14
    <2>3. \A p \in Page : IF p < n.used THEN flash'[n.pba][p].t = "mtlog" /\ flash'[n.pba][p].k = 0
                                        ELSE flash'[n.pba][p] = BlankPage
      BY <1>1, <1>7, <2>1
    <2> QED BY <1>7, <1>9, <1>10, <2>1, <2>2, <2>3, MtAfterOK
  <1>17. CacheOK'
    <2>1. mt_cache'.at # PhysicalMt'
      BY <1>1, <1>2, <1>5, <1>6, <1>10
    <2> QED BY <1>10, <2>1 DEF CacheOK
  <1>18. mt_pbas' \in Block
    BY <1>2, <1>6
  <1>19. Unmoved
    BY <1>1, <1>2, <1>3, <1>9, <1>12, <1>13, StaysPut
  <1>20. NftlInv'
    BY <1>1, <1>2, <1>4, <1>7, <1>8, <1>13, <1>15, <1>16, <1>17, <1>18, MoveEnds
  <1> QED BY <1>19, <1>20

LEMMA MoveDataCopied ==
  ASSUME NftlInv, MoveCopy, Task.what.op = "data"
  PROVE  /\ NftlInv' /\ Logs' = Logs /\ TurningLogs = {} /\ TurningLogs' = {}
         /\ Task.what.lba \in Lba /\ Map[Task.what.lba] = Task.src
         /\ Map' = [Map EXCEPT ![Task.what.lba] = Task.blk]
  <1> DEFINE b == Task.blk
             src == Task.src
             l == Task.what.lba
             u == UpdMt(l, b)
             a == AddGt(<<src>>)
             D == [Map EXCEPT ![l] = b]
  <1>1. /\ todo # <<>> /\ Task.op = "move" /\ SoundInv' /\ BlankOK' /\ b \notin Programmed
        /\ Programmed' = Programmed \cup {b} /\ src \in Programmed
        /\ flash' \in [Block -> [Page -> PageRec]] /\ flash'[b] = flash[src]
        /\ \A x \in Programmed : flash'[x] = flash[x]
    BY MoveWrites
  <1>2. UNCHANGED <<dl, mtl, mt_pbas, mt_cache, wr>> /\ Then(When(TRUE, u) \o <<a>>)
    BY DEF MoveCopy
  <1>3. /\ ~Lost /\ ~Closing /\ mt_pbas # NoBlock /\ Dying = {} /\ Garb = {} /\ Updates = {}
        /\ Map = CurMap /\ Tail(todo) = <<>> /\ b \in Block /\ src \in Block /\ l \in Lba
        /\ Elems(todo) = {Task} \cup Elems(Tail(todo)) /\ Elems(<<>>) = {}
    BY <1>1, AtMove, PlainStacks
  <1>4. /\ StackOK /\ dl \in Seq(LogRec) /\ OneLog /\ Tables /\ LogsOK /\ DataOK /\ TaskOK
        /\ mt_pbas \in BlockX /\ NoBlock \notin Block
        /\ mtl = <<>> \/ \E m \in MtlRec : mtl = <<m>>
    BY <1>3, Parts
  <1>5. Map[l] = src /\ Map \in [Lba -> BlockX]
    BY <1>1, <1>3, <1>4, MapSeen DEF TaskOK
  <1>6. /\ u \in UpdMts /\ u.op = "updmt" /\ u.lba = l /\ u.pba = b
        /\ a \in [op : {"addgt"}, g : Seq(Block)] /\ a.op = "addgt"
    BY <1>3 DEF UpdMt, UpdMts, AddGt
  <1>7. /\ <<a>> \in UpdK /\ a \in Under /\ Lies(a, <<>>) /\ Lies(u, <<a>>)
    <2>1. <<a>> \in UpdK
      BY <1>3 DEF UpdK
    <2>2. Lies(a, <<>>)
      BY <1>6 DEF Lies, AddK, MoveK
    <2> QED BY <1>6, <2>1, <2>2 DEF Lies, Under
  <1> HIDE DEF b, src, l, u, a, D
  <1>8. /\ StackOK' /\ todo' # <<>> /\ Task' = u /\ Elems(todo') = {u, a}
    <2>1. When(TRUE, u) \o <<a>> = <<u, a>>
      BY Joined2 DEF When
    <2>2. <<a>> \o <<>> = <<a>>
      OBVIOUS
    <2>3. Lies(a, Tail(todo)) /\ Lies(u, <<a>> \o Tail(todo)) /\ Then(<<u, a>>)
      BY <1>2, <1>3, <1>7, <2>1, <2>2
    <2>4. StackOK' /\ todo' # <<>> /\ Task' = u /\ Elems(todo') = {u, a} \cup Elems(Tail(todo))
      BY <1>1, <1>4, <1>7, <2>3, Swapped2
    <2> QED BY <1>3, <2>4
  <1>9. /\ Elems(Tail(todo)) \subseteq Elems(todo') /\ AddGt(<<Task.src>>) \in Elems(todo')
        /\ \A t \in Elems(todo') : t \in Elems(Tail(todo)) \/ t = AddGt(<<Task.src>>) \/ t.op = "updmt"
    BY <1>3, <1>6, <1>8 DEF a, src
  <1>10. /\ ~Closing' /\ Dying' = {} /\ Turning' = Turning /\ Garb' = {src} /\ Updates' = {u}
    <2>1. /\ ~Closing' /\ Dying' = {} /\ Turning' = Turning /\ Garb' = {src}
          /\ Updates' = Has("updmt")'
      BY <1>1, <1>9, MovedTasks DEF src
    <2>2. Has("updmt")' = {u}
      BY <1>6, <1>8 DEF Has
    <2> QED BY <2>1, <2>2
  <1>11. CurMap' = CurMap /\ MtBlocks' = MtBlocks /\ MtOK' /\ CacheOK'
    <2>1. \A x \in MtBlocks : flash'[x] = flash[x]
      BY <1>1, <1>3, Members
    <2> QED BY <1>2, <1>3, <1>10, <2>1, MapKept
  <1>12. Map' = D
    <2>1. (CHOOSE v \in Updates' : TRUE) = u /\ Updates' # {}
      BY <1>10
    <2>2. Map' = [CurMap' EXCEPT ![u.lba] = u.pba]
      BY <2>1 DEF Map
    <2> QED BY <1>3, <1>6, <1>11, <2>2 DEF D
  <1>13. /\ Logs' = Logs /\ OneLog'
    BY <1>2, <1>3, <1>4, <1>10 DEF Logs, OneLog
  <1>14. Tables'
    <2>1. Owned(Logs, Map, MtBlocks, {}, Programmed)
      BY <1>3, <1>4 DEF Tables
    <2>2. Owned(Logs, D, MtBlocks, {} \cup ({Map[l]} \ {NoBlock}), Programmed \cup {b})
      BY <1>1, <1>3, <1>4, <1>5, <2>1, OwnedEntry DEF D
    <2>3. {} \cup ({Map[l]} \ {NoBlock}) = {src}
      BY <1>3, <1>4, <1>5
    <2>4. Owned(Logs', Map', MtBlocks', Garb', Programmed')
      BY <1>1, <1>10, <1>11, <1>12, <1>13, <2>2, <2>3
    <2> QED BY <1>2, <1>3, <1>4, <2>4 DEF Tables
  <1>15. LogsOK'
    <2>1. Turning = {}
      BY <1>1, <1>3 DEF Turning, Has
    <2> SUFFICES ASSUME NEW j \in 1..Len(dl), dl[j].pba # NoBlock
                 PROVE  LogOK(dl[j], flash'[dl[j].pba])
      BY <1>2, <1>10, <2>1 DEF LogsOK
    <2>2. LogOK(dl[j], flash[dl[j].pba]) /\ dl[j].pba \in Programmed
      BY <1>3, <1>4, <2>1, Members DEF LogsOK
    <2> QED BY <1>1, <2>2
  <1>16. DataOK'
    <2> SUFFICES ASSUME NEW k \in Lba, D[k] # NoBlock PROVE IsData(flash'[D[k]])
      BY <1>12 DEF DataOK
    <2>1. CASE k = l
      <3>1. D[k] = b
        BY <1>5, <2>1 DEF D
      <3>2. IsData(flash[src])
        BY <1>3, <1>4, <1>5 DEF DataOK
      <3> QED BY <1>1, <3>1, <3>2
    <2>2. CASE k # l
      <3>1. D[k] = Map[k]
        BY <1>3, <1>5, <2>2 DEF D
      <3>2. IsData(flash[Map[k]]) /\ Map[k] \in Programmed
        BY <1>3, <1>4, <3>1, Members DEF DataOK
      <3> QED BY <1>1, <3>1, <3>2
    <2> QED BY <2>1, <2>2
  <1>17. mt_pbas' \in Block /\ (mtl' = <<>> \/ \E m \in MtlRec : mtl' = <<m>>)
    BY <1>2, <1>3, <1>4 DEF BlockX
  <1>18. dl' \in Seq(LogRec) /\ Len(dl') = Len(dl) /\ dl' = dl /\ Task'.op = "updmt"
    BY <1>2, <1>4, <1>6, <1>8
  <1>19. NftlInv'
    BY <1>1, <1>2, <1>8, <1>9, <1>11, <1>13, <1>14, <1>15, <1>16, <1>17, <1>18, MoveEnds
  <1>20. Turning = {}
    BY <1>1, <1>3 DEF Turning, Has
  <1> QED BY <1>3, <1>5, <1>10, <1>12, <1>13, <1>19, <1>20 DEF TurningLogs, D, l, b, src

\* nftl_block_replace and the tables that follow it.
LEMMA MoveCopyOK == NftlInv /\ MoveCopy => NftlInv' /\ PoolStep
  <1> SUFFICES ASSUME NftlInv, MoveCopy PROVE NftlInv' /\ PoolStep
    OBVIOUS
  <1>1. PoolStep /\ Task.what.op \in {"log", "data", "mt", "mtl"}
    BY MoveWrites, AtMove
  <1> QED BY <1>1, MoveLogCopied, MoveDataCopied, MoveMtCopied, MoveMtlCopied

-----------------------------------------------------------------------------
(***************************************************************************)
(* The invariant holds                                                     *)
(***************************************************************************)

\* The erased device.
LEMMA NftlInit == Init => NftlInv
  <1> SUFFICES ASSUME Init PROVE NftlInv
    OBVIOUS
  <1> DEFINE f == T("format")
  <1>1. /\ PoolInit /\ flash = [b \in Block |-> [p \in Page |-> BlankPage]]
        /\ mt_pbas = NoBlock /\ mtl = <<>> /\ dl = <<>>
        /\ mt_cache = [at |-> <<NoBlock, NoPage>>, map |-> NoMap]
        /\ todo = <<f>>
    BY DEF Init
  <1>2. SoundInv
    BY <1>1, SoundInit
  <1>3. f.op = "format" /\ Lies(f, <<>>)
    BY DEF T, Lies
  <1> HIDE DEF f
  <1>4. Head(<<f>>) = f /\ Tail(<<f>>) = <<>> /\ <<f>> # <<>> /\ <<f>> = <<f>> \o <<>>
    OBVIOUS
  <1>5. Elems(todo) = {f} /\ Task = f
    BY <1>1, <1>4, Alone DEF Task
  <1>6. StackOK
    BY <1>1, <1>3, <1>4 DEF StackOK, GoodStack
  <1>7. \A op : op # "format" => Has(op) = {}
    BY <1>3, <1>5 DEF Has
  <1>8. Has("format") # {}
    BY <1>3, <1>5 DEF Has
  <1>9. ~Lost /\ ~Closing /\ Updates = {} /\ Dying = {} /\ Garb = {} /\ GarbLists
    BY <1>7 DEF Lost, Closing, Updates, Dying, Garb, GarbLists
  <1>10. BlankOK
    BY <1>1 DEF BlankOK
  <1>11. TypesOK
    <2>1. flash \in [Block -> [Page -> PageRec]]
      BY <1>1, Numbers
    <2>2. mt_cache \in [at : BlockX \X (Page \cup {NoPage}), map : [Lba -> BlockX]]
      BY <1>1, Numbers DEF BlockX
    <2> QED BY <1>1, <2>1, <2>2 DEF TypesOK, BlockX
  <1>12. Map = NoMap /\ Logs = {} /\ MtBlocks = {} /\ Programmed = {}
    BY <1>1, <1>9 DEF Map, CurMap, Logs, MtBlocks, Programmed, PoolInit
  <1>13. Tables
    <2>1. LogBlocks({}) = {} /\ DataBlocks(NoMap) = {}
      BY DEF LogBlocks, DataBlocks, NoMap
    <2>2. \A k, l \in Lba : NoMap[k] = NoMap[l] /\ NoMap[k] # NoBlock => k = l
      BY DEF NoMap
    <2>3. Owned({}, NoMap, {}, {}, {})
      BY <2>1, <2>2 DEF Owned
    <2> QED BY <1>1, <1>9, <1>12, <2>3 DEF Tables
  <1>14. LogsOK /\ DataOK /\ OneLog
    BY <1>1, <1>12 DEF LogsOK, DataOK, OneLog, NoMap
  <1>15. MtOK
    BY <1>1 DEF MtOK
  <1>16. CacheOK
    <2>1. PhysicalMt = <<NoBlock, 0>>
      BY <1>1 DEF PhysicalMt
    <2>2. mt_cache.at = <<NoBlock, NoPage>> /\ NoPage # 0
      BY <1>1 DEF NoPage
    <2> QED BY <2>1, <2>2 DEF CacheOK
  <1>17. FreshOK /\ Indices
    BY <1>1, <1>3, <1>5, <1>8 DEF FreshOK, Indices
  <1>18. TaskOK /\ CacheHot /\ Ready
    BY <1>3, <1>5, <1>9 DEF TaskOK, CacheHot, Ready, T
  <1> QED BY <1>2, <1>6, <1>9, <1>10, <1>11, <1>13, <1>14, <1>15, <1>16, <1>17, <1>18 DEF NftlInv

\* Nothing happens.
LEMMA NftlStutter == NftlInv /\ UNCHANGED vars => NftlInv'
  <1> SUFFICES ASSUME NftlInv, UNCHANGED vars PROVE NftlInv'
    OBVIOUS
  <1>1. /\ UNCHANGED poolVars /\ UNCHANGED <<flash, mt_pbas, mtl, mt_cache, dl, todo, wr>>
    BY DEF vars
  <1>2. SoundInv /\ StackOK /\ TypesOK /\ GarbLists /\ BlankOK
    BY DEF NftlInv
  <1>3. SoundInv' /\ BlankOK' /\ Programmed' = Programmed
    BY <1>1, <1>2, Sound DEF PoolStep, BlankOK, Programmed, poolVars
  <1>4. \A op : Has(op)' = Has(op)
    BY <1>1 DEF Has
  <1>5. /\ Closing' = Closing /\ MtBlock' = MtBlock /\ MtBlocks' = MtBlocks
        /\ PhysicalMt' = PhysicalMt /\ FlashMap' = FlashMap /\ Map' = Map
        /\ Dying' = Dying /\ Logs' = Logs /\ Turning' = Turning /\ Lost' = Lost
        /\ FreshOK => FreshOK'
    BY <1>1, <1>4, SameMaps
  <1>6. Garb' = Garb /\ GarbLists' /\ TypesOK' /\ StackOK'
    BY <1>1, <1>2, <1>4, <1>5 DEF Garb, GarbLists, TypesOK, StackOK, GoodStack, Lies
  <1>7. CASE Lost
    BY <1>3, <1>5, <1>6, <1>7 DEF NftlInv
  <1>8. CASE ~Lost
    <2>1. /\ FreshOK /\ OneLog /\ Tables /\ LogsOK /\ DataOK /\ MtOK /\ CacheOK
          /\ Indices /\ TaskOK /\ Ready /\ CacheHot
      BY <1>8 DEF NftlInv
    <2>2. Owned(Logs', Map', MtBlocks', Garb', Programmed')
      BY <1>3, <1>5, <1>6, <2>1 DEF Tables
    <2>3. Tables' /\ LogsOK' /\ DataOK'
      BY <1>1, <1>5, <2>1, <2>2 DEF Tables, LogsOK, DataOK
    <2>4. MtOK' /\ CacheOK' /\ CacheHot'
      BY <1>1, <1>5, <2>1 DEF MtOK, CacheOK, CacheHot, Task
    <2>5. OneLog' /\ Indices' /\ Ready'
      BY <1>1, <2>1 DEF OneLog, Indices, Ready
    <2>6. TaskOK'
      BY <1>1, <1>5, <2>1 DEF TaskOK, Task
    <2> QED BY <1>3, <1>5, <1>6, <1>8, <2>1, <2>3, <2>4, <2>5, <2>6 DEF NftlInv
  <1> QED BY <1>7, <1>8

-----------------------------------------------------------------------------
(***************************************************************************)
(* NFTL_mount                                                              *)
(***************************************************************************)

\* A set of blocks has a greatest one.
LEMMA Greatest ==
  ASSUME NEW S, S \subseteq Block, S # {}
  PROVE  \E m \in S : \A b \in S : b <= m
  <1> DEFINE R == {n \in Nat : \A b \in S : b <= n}
  <1>1. S \subseteq Nat /\ \A b \in S : b <= NBlocks
    BY Numbers, Sizes DEF Block
  <1>2. NBlocks \in R
    BY <1>1, Sizes
  <1>3. R \subseteq Nat /\ R # {}
    BY <1>2
  <1>4. PICK n \in R : \A j \in R : n <= j
    BY <1>3, Least
  <1>5. n \in Nat /\ \A b \in S : b <= n
    OBVIOUS
  <1>6. n \in S
    <2> SUFFICES ASSUME n \notin S PROVE FALSE
      OBVIOUS
    <2>1. PICK b \in S : TRUE
      OBVIOUS
    <2>2. n # 0
      BY <1>1, <1>5, <2>1
    <2>3. n - 1 \in Nat /\ \A c \in S : c <= n - 1
      BY <1>1, <1>5, <2>2
    <2>4. n - 1 \in R
      BY <2>3
    <2> HIDE DEF R
    <2>5. n <= n - 1
      BY <1>4, <2>4
    <2> QED BY <1>5, <2>5
  <1> QED BY <1>5, <1>6

Ascends(s, S) ==
  /\ s \in [1..Cardinality(S) -> S]
  /\ \A i, j \in 1..Cardinality(S) : i < j => s[i] < s[j]

\* A set of blocks can be listed in ascending order.
LEMMA Listed ==
  ASSUME NEW S, S \subseteq Block
  PROVE  \E s : Ascends(s, S)
  <1> DEFINE Bad(V) == ~\E s : Ascends(s, V)
             C == {Cardinality(V) : V \in {W \in SUBSET Block : Bad(W)}}
  <1> SUFFICES ASSUME Bad(S) PROVE FALSE
    OBVIOUS
  <1>1. C \subseteq Nat /\ C # {}
    BY CountOf
  <1>2. PICK n \in C : \A j \in C : n <= j
    BY <1>1, Least
  <1>3. PICK V \in SUBSET Block : Bad(V) /\ Cardinality(V) = n
    OBVIOUS
  <1>4. IsFiniteSet(V) /\ n \in Nat
    BY <1>1, <1>3, CountOf
  <1>5. V # {}
    <2> SUFFICES ASSUME V = {} PROVE FALSE
      OBVIOUS
    <2>1. Cardinality(V) = 0 /\ 1..0 = {}
      BY FS_EmptySet
    <2>2. [i \in 1..Cardinality(V) |-> i] \in [1..Cardinality(V) -> V]
      BY <2>1
    <2>3. Ascends([i \in 1..Cardinality(V) |-> i], V)
      BY <2>1, <2>2 DEF Ascends
    <2> QED BY <1>3, <2>3
  <1>6. PICK m \in V : \A b \in V : b <= m
    BY <1>5, Greatest
  <1> DEFINE W == V \ {m}
  <1>7. IsFiniteSet(W) /\ Cardinality(W) = n - 1 /\ W \in SUBSET Block
    BY <1>3, <1>4, FS_RemoveElement
  <1>8. ~Bad(W) /\ n - 1 \in Nat
    <2>1. n - 1 \in Nat
      <3>1. Cardinality(W) \in Nat
        BY <1>7, CountOf
      <3> QED BY <1>7, <3>1
    <2> SUFFICES ASSUME Bad(W) PROVE FALSE
      BY <2>1
    <2>2. n - 1 \in C
      BY <1>7
    <2> HIDE DEF C
    <2>3. n <= n - 1
      BY <1>2, <2>2
    <2> QED BY <1>4, <2>3
  <1>9. PICK s : Ascends(s, W)
    BY <1>8
  <1> DEFINE q == [i \in 1..n |-> IF i = n THEN m ELSE s[i]]
  <1>10. /\ s \in [1..(n - 1) -> W]
         /\ \A i, j \in 1..(n - 1) : i < j => s[i] < s[j]
    BY <1>7, <1>9 DEF Ascends
  <1>11. \A i \in 1..n : i # n => i \in 1..(n - 1)
    BY <1>4
  <1>12. q \in [1..n -> V]
    BY <1>6, <1>10, <1>11
  <1>13. \A b \in W : b < m
    <2>1. V \subseteq Nat
      BY Numbers
    <2> QED BY <1>6, <2>1
  <1>14. ASSUME NEW i \in 1..n, NEW j \in 1..n, i < j PROVE q[i] < q[j]
    <2>1. i # n /\ i \in 1..(n - 1)
      BY <1>4, <1>14
    <2>2. q[i] = s[i] /\ s[i] \in W
      BY <1>10, <2>1
    <2>3. CASE j = n
      BY <1>13, <2>2, <2>3
    <2>4. CASE j # n
      BY <1>10, <1>11, <1>14, <2>1, <2>4
    <2> QED BY <2>3, <2>4
  <1>15. Ascends(q, V)
    BY <1>3, <1>12, <1>14 DEF Ascends
  <1> QED BY <1>3, <1>15

\* The list that the scan makes of a set of blocks names each of them once.
LEMMA Ascended ==
  ASSUME NEW S, S \subseteq Block
  PROVE  /\ Ascending(S) \in Seq(S) /\ Len(Ascending(S)) = Cardinality(S)
         /\ \A b \in S : \E i \in 1..Len(Ascending(S)) : Ascending(S)[i] = b
         /\ \A i, j \in 1..Len(Ascending(S)) : Ascending(S)[i] = Ascending(S)[j] => i = j
  <1> DEFINE s == Ascending(S)
             n == Cardinality(S)
  <1>1. s \in [1..n -> S] /\ \A i, j \in 1..n : i < j => s[i] < s[j]
    BY Listed DEF Ascending, Ascends
  <1>2. IsFiniteSet(S) /\ n \in Nat /\ S \subseteq Nat
    BY CountOf, Numbers
  <1> HIDE DEF s, n
  <1>3. s \in Seq(S) /\ Len(s) = n
    BY <1>1, <1>2
  <1>4. ASSUME NEW i \in 1..n, NEW j \in 1..n, s[i] = s[j] PROVE i = j
    <2>1. s[i] \in Nat /\ s[j] \in Nat /\ i \in Nat /\ j \in Nat
      <3>1. s[i] \in S /\ s[j] \in S
        BY <1>1
      <3>2. i \in Nat /\ j \in Nat
        BY <1>2
      <3> QED BY <1>2, <3>1, <3>2
    <2>2. ~(i < j) /\ ~(j < i)
      BY <1>1, <1>4, <2>1
    <2> QED BY <2>1, <2>2
  <1>5. ASSUME NEW b \in S, \A i \in 1..n : s[i] # b PROVE FALSE
    <2>1. IsFiniteSet(S \ {b}) /\ Cardinality(S \ {b}) = n - 1
      BY <1>2, FS_RemoveElement DEF n
    <2>2. IsFiniteSet(1..n) /\ Cardinality(1..n) = n /\ n - 1 < n
      <3>1. IsFiniteSet(1..n) /\ Cardinality(1..n) = IF 1 > n THEN 0 ELSE n - 1 + 1
        BY <1>2, FS_Interval
      <3> QED BY <1>2, <3>1
    <2>3. s \in [1..n -> S \ {b}]
      BY <1>1, <1>5
    <2> DEFINE A == 1..n
               B == S \ {b}
    <2>4. IsFiniteSet(A) /\ IsFiniteSet(B) /\ Cardinality(B) < Cardinality(A) /\ s \in [A -> B]
      BY <2>1, <2>2, <2>3
    <2> HIDE DEF A, B
    <2>5. \E x, y \in A : x # y /\ s[x] = s[y]
      BY <2>4, FS_PigeonHole
    <2> QED BY <1>4, <2>5 DEF A
  <1> QED BY <1>3, <1>4, <1>5 DEF s, n

\* The scan counts the programmed pages of a log block.
LEMMA UsedIs ==
  ASSUME NEW b, NEW n \in 1..PagesPerBlock,
         \A p \in Page : p < n => flash[b][p].k # NoKey,
         \A p \in Page : p >= n => flash[b][p] = BlankPage
  PROVE  Used(b) = n
  <1> DEFINE Counts(m) == /\ \A p \in 0..(m - 1) : flash[b][p].k # NoKey
                          /\ m < PagesPerBlock => flash[b][m].k = NoKey
  <1>0. PagesPerBlock \in Nat /\ n \in Nat
    BY Numbers
  <1>1. n \in 0..PagesPerBlock /\ Counts(n)
    <2>1. \A p \in 0..(n - 1) : p \in Page /\ p < n
      BY <1>0 DEF Page
    <2>2. n < PagesPerBlock => n \in Page /\ n >= n
      BY <1>0 DEF Page
    <2> QED BY <1>0, <2>1, <2>2 DEF BlankPage
  <1>2. ASSUME NEW m \in 0..PagesPerBlock, Counts(m) PROVE m = n
    <2>1. m \in Nat
      BY <1>0
    <2>2. CASE m < n
      <3>1. m < PagesPerBlock /\ m \in Page
        BY <1>0, <2>1, <2>2 DEF Page
      <3> QED BY <1>2, <2>2, <3>1
    <2>3. CASE n < m
      <3>1. n \in 0..(m - 1) /\ n \in Page /\ n >= n
        BY <1>0, <2>1, <2>3 DEF Page
      <3> QED BY <1>2, <3>1 DEF BlankPage
    <2> QED BY <1>0, <2>1, <2>2, <2>3
  <1>3. Used(b) = CHOOSE m \in 0..PagesPerBlock : Counts(m)
    BY DEF Used
  <1> HIDE DEF Counts
  <1> QED BY <1>1, <1>2, <1>3

\* What the scan finds in a log block is what RAM knew of the log.
LEMMA ScanFinds ==
  ASSUME NEW e \in LogRec, e.pba \in Block, LogOK(e, flash[e.pba])
  PROVE  ScanLog(e.pba) = e
  <1> DEFINE b == e.pba
             F == flash[b]
             At(o) == {p \in 0..(Used(b) - 1) : OfsOf(F[p].k) = o}
  <1>0. /\ PagesPerBlock \in Nat /\ e.used \in 1..PagesPerBlock /\ e.used \in Nat
        /\ Page \subseteq Nat /\ NoPage \notin Page /\ 0 \in Page /\ 0 < e.used
        /\ e.ppa \in [Page -> Page \cup {NoPage}]
    BY Numbers DEF LogRec
  <1>1. /\ \A p \in Page : p < e.used => F[p].k \in Lpa /\ LbaOf(F[p].k) = e.lba
        /\ \A p \in Page : p >= e.used => F[p] = BlankPage
    BY DEF LogOK
  <1>2. \A k \in Lpa : k # NoKey
    BY DEF Lpa, NoKey
  <1>3. Used(b) = e.used
    <2>1. \A p \in Page : p < e.used => F[p].k # NoKey
      BY <1>1, <1>2
    <2> QED BY <1>0, <1>1, <2>1, UsedIs
  <1>4. LbaOf(F[0].k) = e.lba
    BY <1>0, <1>1
  <1>5. \A p : p \in 0..(Used(b) - 1) <=> p \in Page /\ p < e.used
    BY <1>0, <1>3 DEF Page
  <1>6. ASSUME NEW o \in Page
        PROVE  e.ppa[o] = IF At(o) = {} THEN NoPage
                          ELSE CHOOSE p \in At(o) : \A q \in At(o) : q <= p
    <2>1. CASE e.ppa[o] = NoPage
      <3>1. \A p \in Page : p < e.used => OfsOf(F[p].k) # o
        BY <2>1 DEF LogOK
      <3>2. At(o) = {}
        BY <1>5, <3>1
      <3> QED BY <2>1, <3>2
    <2>2. CASE e.ppa[o] # NoPage
      <3> DEFINE m == e.ppa[o]
      <3>1. m \in Page /\ m < e.used /\ OfsOf(F[m].k) = o
        BY <1>0, <2>2 DEF LogOK
      <3>2. \A p \in Page : p < e.used /\ p > m => OfsOf(F[p].k) # o
        BY <2>2 DEF LogOK
      <3>3. m \in At(o)
        BY <1>5, <3>1
      <3>4. \A q \in At(o) : q \in Nat /\ q <= m
        <4> TAKE q \in At(o)
        <4>1. q \in Page /\ q < e.used /\ OfsOf(F[q].k) = o
          BY <1>5
        <4>2. q \in Nat /\ m \in Nat /\ ~(q > m)
          BY <1>0, <3>1, <3>2, <4>1
        <4> QED BY <4>2
      <3>5. \A p \in At(o) : (\A q \in At(o) : q <= p) => p = m
        <4> TAKE p \in At(o)
        <4> HAVE \A q \in At(o) : q <= p
        <4>1. m <= p /\ p <= m /\ p \in Nat /\ m \in Nat
          BY <3>3, <3>4
        <4> HIDE DEF m
        <4> QED BY <4>1
      <3> HIDE DEF m, At
      <3>6. (CHOOSE p \in At(o) : \A q \in At(o) : q <= p) = m
        BY <3>3, <3>4, <3>5
      <3> QED BY <3>3, <3>6 DEF m
    <2> QED BY <2>1, <2>2
  <1>7. e.ppa = [o \in Page |-> IF At(o) = {} THEN NoPage
                                ELSE CHOOSE p \in At(o) : \A q \in At(o) : q <= p]
    <2> HIDE DEF At
    <2> QED BY <1>0, <1>6
  <1>8. ScanLog(b) = [lba |-> LbaOf(F[0].k), pba |-> b, used |-> Used(b),
                      ppa |-> [o \in Page |-> IF At(o) = {} THEN NoPage
                                ELSE CHOOSE p \in At(o) : \A q \in At(o) : q <= p]]
    BY DEF ScanLog
  <1>9. ScanLog(b) = [lba |-> e.lba, pba |-> e.pba, used |-> e.used, ppa |-> e.ppa]
    BY <1>3, <1>4, <1>7, <1>8
  <1> QED BY <1>9 DEF LogRec

\* What the spare areas say of the users' blocks between two calls.
LEMMA Shows ==
  ASSUME NftlInv, Idle
  PROVE  /\ \A e \in Logs : e.pba # NoBlock =>
              /\ e \in LogRec /\ e.pba \in Block /\ LogOK(e, flash[e.pba])
              /\ flash[e.pba][0].t = "log" /\ flash[e.pba][PagesPerBlock - 1].t # "data"
         /\ \A b \in DataBlocks(Map) : IsData(flash[b])
         /\ flash[mt_pbas][0].t = "map" /\ flash[mt_pbas][0].k \in Block
         /\ \A i \in 1..Len(mtl) : flash[mtl[i].pba][0].t = "mtlog" /\ Used(mtl[i].pba) = mtl[i].used
  <1>0. /\ ~Lost /\ ~Closing /\ mt_pbas # NoBlock /\ Dying = {} /\ Turning = {}
    BY AtRest DEF Idle
  <1>1. /\ LogsOK /\ DataOK /\ MtOK /\ dl \in Seq(LogRec) /\ mt_pbas \in Block
        /\ mtl = <<>> \/ \E m \in MtlRec : mtl = <<m>>
    BY <1>0, Parts DEF BlockX
  <1>2. ASSUME NEW e \in Logs, e.pba # NoBlock
        PROVE  /\ e \in LogRec /\ e.pba \in Block /\ LogOK(e, flash[e.pba])
               /\ flash[e.pba][0].t = "log" /\ flash[e.pba][PagesPerBlock - 1].t # "data"
    <2>1. PICK i \in 1..Len(dl) : e = dl[i]
      BY <1>0 DEF Logs
    <2>2. e \in LogRec
      BY <1>1, <2>1
    <2>3. e.pba \in Block /\ e.used \in 1..PagesPerBlock
      BY <1>2, <2>2 DEF LogRec, BlockX
    <2>4. LogOK(e, flash[e.pba])
      BY <1>0, <1>1, <1>2, <2>1 DEF LogsOK
    <2>5. /\ 0 \in Page /\ 0 < e.used /\ PagesPerBlock - 1 \in Page
          /\ PagesPerBlock - 1 < e.used \/ PagesPerBlock - 1 >= e.used
      BY <2>3, Numbers
    <2>6. flash[e.pba][0].t = "log"
      BY <2>4, <2>5 DEF LogOK
    <2>7. flash[e.pba][PagesPerBlock - 1].t # "data"
      BY <2>4, <2>5 DEF LogOK, BlankPage
    <2> QED BY <2>2, <2>3, <2>4, <2>6, <2>7
  <1>3. \A b \in DataBlocks(Map) : IsData(flash[b])
    BY <1>1 DEF DataOK, DataBlocks
  <1>4. flash[mt_pbas][0].t = "map" /\ flash[mt_pbas][0].k \in Block
    BY <1>0, <1>1 DEF MtOK, MtBlock
  <1>5. ASSUME NEW i \in 1..Len(mtl)
        PROVE  flash[mtl[i].pba][0].t = "mtlog" /\ Used(mtl[i].pba) = mtl[i].used
    <2>0. Len(mtl) = 0 \/ (Len(mtl) = 1 /\ mtl # <<>> /\ mtl[1].used \in 1..PagesPerBlock)
      BY <1>1, MapPlace
    <2>1. mtl # <<>> /\ i = 1 /\ mtl[1].used \in 1..PagesPerBlock
      <3>1. ASSUME NEW m \in {0, 1}, NEW j \in 1..m PROVE m = 1 /\ j = 1
        OBVIOUS
      <3>2. Len(mtl) = 1 /\ i = 1
        BY <2>0, <3>1
      <3>3. Len(mtl) # 0
        BY <3>2
      <3> QED BY <2>0, <3>2, <3>3
    <2> DEFINE b == mtl[1].pba
               n == mtl[1].used
    <2>2. \A p \in Page : IF p < n THEN flash[b][p].t = "mtlog" /\ flash[b][p].k = 0
                                   ELSE flash[b][p] = BlankPage
      BY <1>0, <1>1, <2>1 DEF MtOK
    <2>3. n \in Nat /\ 0 < n /\ 0 \in Page /\ Page \subseteq Nat /\ 0 # NoKey
      BY <2>1, Numbers DEF NoKey
    <2>4. /\ \A p \in Page : p < n => flash[b][p].k # NoKey
          /\ \A p \in Page : p >= n => flash[b][p] = BlankPage
      <3>1. \A p \in Page : p >= n => ~(p < n)
        BY <2>3
      <3> QED BY <2>2, <2>3, <3>1
    <2>5. Used(b) = n
      BY <2>1, <2>4, UsedIs
    <2> QED BY <2>1, <2>2, <2>3, <2>5
  <1> QED BY <1>2, <1>3, <1>4, <1>5

\* The blocks that the scan takes for MapTab, MTLog and DataLog blocks are those that
\* the tables in RAM named.
LEMMA ScanSorts ==
  ASSUME NftlInv, Idle
  PROVE  /\ Scanned("map") = {mt_pbas}
         /\ Scanned("mtlog") = {mtl[i].pba : i \in 1..Len(mtl)}
         /\ {b \in Scanned("log") : flash[b][PagesPerBlock - 1].t # "data"} = LogBlocks(Logs)
  <1>0. /\ ~Lost /\ ~Closing /\ mt_pbas # NoBlock /\ Garb = {} /\ SoundInv /\ gcpc = "idle"
    BY AtRest DEF Idle, NftlInv
  <1>1. Owned(Logs, Map, MtBlocks, {}, Programmed)
    BY <1>0, Parts DEF Tables
  <1>2. Programmed = LogBlocks(Logs) \cup DataBlocks(Map) \cup MtBlocks
    BY <1>1 DEF Owned
  <1>3. MtBlocks = {mt_pbas} \cup {mtl[i].pba : i \in 1..Len(mtl)}
    BY <1>0 DEF MtBlocks
  <1>4. \A t : Scanned(t) = {b \in Programmed : flash[b][0].t = t}
    <2> TAKE t
    <2>1. {b \in Block : media[b] = "used"} \ Elems(FoundGarbage) = Programmed
      BY <1>0, MountReads DEF Programmed
    <2> QED BY <2>1 DEF Scanned
  <1>5. \A b \in LogBlocks(Logs) : flash[b][0].t = "log" /\ flash[b][PagesPerBlock - 1].t # "data"
    BY Shows DEF LogBlocks
  <1>6. \A b \in DataBlocks(Map) : \/ flash[b][0].t = "data"
                                   \/ flash[b][0].t = "log" /\ flash[b][PagesPerBlock - 1].t = "data"
    BY Shows DEF IsData
  <1>7. /\ flash[mt_pbas][0].t = "map"
        /\ \A i \in 1..Len(mtl) : flash[mtl[i].pba][0].t = "mtlog"
    BY Shows
  <1> DEFINE N == {mtl[i].pba : i \in 1..Len(mtl)}
             L == LogBlocks(Logs)
             D == DataBlocks(Map)
  <1>8. Programmed = L \cup D \cup {mt_pbas} \cup N
    BY <1>2, <1>3
  <1>9. \A b \in N : flash[b][0].t = "mtlog"
    BY <1>7
  <1> HIDE DEF N, L, D
  <1>10. Scanned("map") = {mt_pbas} /\ Scanned("mtlog") = N
    BY <1>4, <1>5, <1>6, <1>7, <1>8, <1>9 DEF L, D
  <1>11. {b \in Scanned("log") : flash[b][PagesPerBlock - 1].t # "data"} = L
    BY <1>4, <1>5, <1>6, <1>7, <1>8, <1>9 DEF L, D
  <1> QED BY <1>10, <1>11 DEF N, L

\* The list of one block.
LEMMA ListOne ==
  ASSUME NEW b \in Block
  PROVE  Ascending({b}) = <<b>>
  <1>1. Cardinality({b}) = 1 /\ {b} \subseteq Block
    BY FS_Singleton
  <1>2. Ascending({b}) \in Seq({b}) /\ Len(Ascending({b})) = 1
    BY <1>1, Ascended
  <1>3. Ascending({b})[1] = b
    BY <1>2
  <1> QED BY <1>2, <1>3

\* The list of none.
LEMMA ListNone == Ascending({}) = <<>>
  <1>1. Cardinality({}) = 0 /\ {} \subseteq Block
    BY FS_EmptySet
  <1>2. Ascending({}) \in Seq({}) /\ Len(Ascending({})) = 0
    BY <1>1, Ascended
  <1> QED BY <1>2

\* NFTL_mount finds the MapTab and MTLog blocks where RAM had them, and every log
\* but those that are block 0xffff.
LEMMA MountTables ==
  ASSUME NftlInv, Idle, MountScan
  PROVE  /\ mt_pbas' = mt_pbas /\ mtl' = mtl
         /\ \E lf \in Block : PoolMount(lf)
         /\ dl' \in Seq(LogRec)
         /\ \A i \in 1..Len(dl') : dl'[i] \in Logs /\ dl'[i].pba # NoBlock
         /\ \A e \in Logs : e.pba # NoBlock => \E i \in 1..Len(dl') : dl'[i] = e
         /\ \A i, j \in 1..Len(dl') : dl'[i].pba = dl'[j].pba => i = j
  <1> DEFINE maps == Ascending(Scanned("map"))
             mtls == Ascending(Scanned("mtlog"))
             L    == {b \in Scanned("log") : flash[b][PagesPerBlock - 1].t # "data"}
             logs == Ascending(L)
  <1>0. /\ mt_pbas \in Block /\ (mtl = <<>> \/ \E m \in MtlRec : mtl = <<m>>)
        /\ dl \in Seq(LogRec) /\ Owned(Logs, Map, MtBlocks, {}, Programmed)
    <2>1. ~Lost /\ mt_pbas # NoBlock /\ Garb = {}
      BY AtRest DEF Idle
    <2> QED BY <2>1, Parts DEF BlockX, Tables
  <1>1. maps = <<mt_pbas>> /\ maps[Len(maps)] = mt_pbas
    <2>1. maps = <<mt_pbas>>
      BY <1>0, ScanSorts, ListOne
    <2>2. Len(maps) = 1 /\ maps[1] = mt_pbas
      BY <2>1
    <2> QED BY <2>1, <2>2
  <1>2. /\ mt_pbas' = maps[Len(maps)] /\ PoolMount(flash[maps[Len(maps)]][0].k)
        /\ mtl' = [i \in 1..Len(mtls) |-> [pba |-> mtls[i], used |-> Used(mtls[i])]]
        /\ dl' = [i \in 1..Len(logs) |-> ScanLog(logs[i])]
    BY DEF MountScan
  <1>3. mt_pbas' = mt_pbas /\ \E lf \in Block : PoolMount(lf)
    BY <1>1, <1>2, Shows
  <1>4. mtl' = mtl
    <2>1. CASE mtl = <<>>
      <3>1. Len(mtl) = 0 /\ 1..0 = {}
        BY <2>1
      <3>2. Scanned("mtlog") = {}
        BY <3>1, ScanSorts
      <3>3. mtls = <<>> /\ Len(mtls) = 0
        <4>1. mtls = <<>>
          BY <3>2, ListNone
        <4> QED BY <3>1, <4>1, <2>1
      <3> HIDE DEF mtls
      <3>4. mtl' \in [1..0 -> {}]
        BY <1>2, <3>1, <3>3
      <3>5. mtl' \in Seq({}) /\ Len(mtl') = 0
        BY <3>4
      <3> QED BY <2>1, <3>5
    <2>2. ASSUME NEW m \in MtlRec, mtl = <<m>> PROVE mtl' = mtl
      <3>1. Len(mtl) = 1 /\ mtl[1] = m /\ m.pba \in Block
        BY <2>2 DEF MtlRec
      <3>2. {mtl[i].pba : i \in 1..Len(mtl)} = {m.pba}
        BY <3>1
      <3>3. mtls = <<m.pba>>
        BY <3>1, <3>2, ScanSorts, ListOne
      <3>4. Len(mtls) = 1 /\ mtls[1] = m.pba
        BY <3>3
      <3>5. Used(m.pba) = m.used
        <4>1. 1 \in 1..Len(mtl)
          BY <3>1
        <4> QED BY <3>1, <4>1, Shows
      <3> HIDE DEF mtls
      <3>6. mtl' = [i \in 1..1 |-> [pba |-> m.pba, used |-> m.used]]
        BY <1>2, <3>4, <3>5
      <3>7. m = [pba |-> m.pba, used |-> m.used]
        BY DEF MtlRec
      <3>8. mtl' = [i \in 1..1 |-> m]
        BY <3>6, <3>7
      <3>9. mtl' \in Seq({m}) /\ Len(mtl') = 1 /\ mtl'[1] = m
        BY <3>8
      <3> QED BY <2>2, <3>9
    <2> QED BY <1>0, <2>1, <2>2
  <1>5. L = LogBlocks(Logs) /\ L \subseteq Block
    <2>1. L = LogBlocks(Logs)
      BY ScanSorts
    <2>2. \A b \in LogBlocks(Logs) : b \in Block
      BY Shows DEF LogBlocks
    <2> QED BY <2>1, <2>2
  <1>6. /\ logs \in Seq(L) /\ \A b \in L : \E i \in 1..Len(logs) : logs[i] = b
        /\ \A i, j \in 1..Len(logs) : logs[i] = logs[j] => i = j
    BY <1>5, Ascended
  <1> HIDE DEF logs, L
  <1>7. ASSUME NEW e \in Logs, e.pba # NoBlock PROVE e.pba \in L /\ ScanLog(e.pba) = e /\ e \in LogRec
    <2>1. e \in LogRec /\ e.pba \in Block /\ LogOK(e, flash[e.pba])
      BY <1>7, Shows
    <2>2. e.pba \in L
      BY <1>5, <1>7 DEF LogBlocks
    <2> QED BY <2>1, <2>2, ScanFinds
  <1>8. \A b \in L : \E e \in Logs : e.pba = b /\ e.pba # NoBlock
    BY <1>5 DEF LogBlocks
  <1>9. \A b \in L : ScanLog(b) \in Logs /\ ScanLog(b) \in LogRec /\ ScanLog(b).pba = b /\ b # NoBlock
    BY <1>7, <1>8
  <1>10. Len(logs) \in Nat /\ \A i \in 1..Len(logs) : logs[i] \in L
    BY <1>6
  <1>11. dl' \in Seq(LogRec) /\ Len(dl') = Len(logs)
    BY <1>2, <1>9, <1>10
  <1>12. \A i \in 1..Len(dl') : dl'[i] = ScanLog(logs[i]) /\ logs[i] \in L
    BY <1>2, <1>10, <1>11
  <1>13. \A i \in 1..Len(dl') : dl'[i] \in Logs /\ dl'[i].pba = logs[i] /\ dl'[i].pba # NoBlock
    BY <1>9, <1>12
  <1>14. ASSUME NEW e \in Logs, e.pba # NoBlock PROVE \E i \in 1..Len(dl') : dl'[i] = e
    <2>1. PICK i \in 1..Len(logs) : logs[i] = e.pba
      BY <1>6, <1>7, <1>14
    <2>2. i \in 1..Len(dl') /\ dl'[i] = ScanLog(e.pba)
      BY <1>11, <1>12, <2>1
    <2> QED BY <1>7, <1>14, <2>2
  <1>15. \A i, j \in 1..Len(dl') : dl'[i].pba = dl'[j].pba => i = j
    BY <1>6, <1>11, <1>13
  <1> QED BY <1>3, <1>4, <1>11, <1>13, <1>14, <1>15

\* No log is block 0xffff.
NoLogLost == \A e \in Logs : e.pba # NoBlock

\* A restart between two calls keeps the invariant, and is a restart of the pool.
LEMMA RemountOK == NftlInv /\ Remount => NftlInv' /\ PoolStep /\ (NoLogLost => Unmoved)
  <1> SUFFICES ASSUME NftlInv, Remount PROVE NftlInv' /\ PoolStep /\ (NoLogLost => Unmoved)
    OBVIOUS
  <1>0. /\ Idle /\ MountScan /\ todo = <<>> /\ gcpc = "idle" /\ todo' = <<>> /\ flash' = flash
        /\ mt_cache' = [at |-> <<NoBlock, NoPage>>, map |-> NoMap]
    BY DEF Remount, Idle, MountScan
  <1>1. /\ \A op : Has(op) = {} /\ ~Lost /\ ~Closing /\ mt_pbas # NoBlock /\ Dying = {}
        /\ Garb = {} /\ Turning = {} /\ Updates = {} /\ Map = CurMap
    BY <1>0, AtRest
  <1>2. /\ SoundInv /\ BlankOK /\ FreshOK /\ OneLog /\ Tables /\ LogsOK /\ DataOK /\ MtOK
        /\ mt_pbas \in Block /\ (mtl = <<>> \/ \E m \in MtlRec : mtl = <<m>>)
        /\ flash \in [Block -> [Page -> PageRec]]
    BY <1>1, Parts DEF BlockX
  <1>3. /\ mt_pbas' = mt_pbas /\ mtl' = mtl
        /\ dl' \in Seq(LogRec)
        /\ \A i \in 1..Len(dl') : dl'[i] \in Logs /\ dl'[i].pba # NoBlock
        /\ \A e \in Logs : e.pba # NoBlock => \E i \in 1..Len(dl') : dl'[i] = e
        /\ \A i, j \in 1..Len(dl') : dl'[i].pba = dl'[j].pba => i = j
    BY <1>0, MountTables
  <1>4. PICK lf \in Block : PoolMount(lf)
    BY <1>0, MountTables
  <1>5. PoolStep /\ SoundInv' /\ media' = media /\ Programmed' = Programmed
    <2>1. PoolStep
      BY <1>0, <1>4 DEF PoolStep, Restart, PowerCut
    <2>2. SoundInv' /\ held' = {b \in held : media[b] = "used"}
      BY <1>0, <1>2, <1>4, SoundMount, MountFinds
    <2>3. media' = media
      BY <1>4 DEF PoolMount
    <2> QED BY <2>1, <2>2, <2>3 DEF Programmed
  <1>6. /\ Elems(todo)' = {} /\ \A op : Has(op)' = {}
    BY <1>0, PlainStacks DEF Has
  <1>7. ~Lost' /\ ~Closing' /\ Dying' = {} /\ Garb' = {} /\ Turning' = {} /\ Updates' = {}
    BY <1>6 DEF Lost, Closing, Dying, Garb, Turning, Updates
  <1>8. /\ MtBlock' = MtBlock /\ MtBlocks' = MtBlocks /\ PhysicalMt' = PhysicalMt
        /\ FlashMap' = FlashMap /\ CurMap' = CurMap /\ Map' = Map
    <2>1. MtBlock' = MtBlock /\ MtBlocks' = MtBlocks
      BY <1>1, <1>3, <1>7 DEF MtBlock, MtBlocks
    <2>2. PhysicalMt' = PhysicalMt
      BY <1>3 DEF PhysicalMt
    <2>3. FlashMap' = FlashMap
      BY <1>0, <2>2 DEF FlashMap
    <2>4. CurMap' = CurMap
      BY <1>1, <1>3, <1>7, <2>3 DEF CurMap
    <2> QED BY <1>1, <1>7, <2>1, <2>2, <2>3, <2>4 DEF Map
  <1>9. Logs' = {e \in Logs : e.pba # NoBlock}
    <2>1. Logs' = {dl'[i] : i \in 1..Len(dl')}
      BY <1>7 DEF Logs
    <2> QED BY <1>3, <2>1
  <1>10. Tables'
    <2>1. LogBlocks(Logs') = LogBlocks(Logs)
      BY <1>9 DEF LogBlocks
    <2>2. Owned(Logs, Map, MtBlocks, {}, Programmed)
      BY <1>1, <1>2 DEF Tables
    <2>3. Logs' \subseteq Logs
      BY <1>9
    <2>4. Owned(Logs', Map, MtBlocks, {}, Programmed)
      BY <2>1, <2>2, <2>3 DEF Owned
    <2> QED BY <1>1, <1>2, <1>3, <1>5, <1>7, <1>8, <2>4 DEF Tables
  <1>11. OneLog'
    <2> SUFFICES ASSUME NEW i \in 1..Len(dl'), NEW j \in 1..Len(dl'), dl'[i].lba = dl'[j].lba
                 PROVE  i = j
      BY DEF OneLog
    <2>0. ASSUME NEW k \in 1..Len(dl') PROVE \E x \in 1..Len(dl) : dl'[k] = dl[x]
      <3>1. dl'[k] \in Logs
        BY <1>3
      <3>2. \A e \in Logs : \E x \in 1..Len(dl) : e = dl[x]
        BY DEF Logs
      <3> QED BY <3>1, <3>2
    <2>1. PICK x \in 1..Len(dl) : dl'[i] = dl[x]
      BY <2>0
    <2>2. PICK y \in 1..Len(dl) : dl'[j] = dl[y]
      BY <2>0
    <2>3. x = y
      BY <1>2, <2>1, <2>2 DEF OneLog
    <2> QED BY <1>3, <2>1, <2>2, <2>3
  <1>12. LogsOK'
    <2> SUFFICES ASSUME NEW i \in 1..Len(dl') PROVE LogOK(dl'[i], flash'[dl'[i].pba])
      BY <1>7 DEF LogsOK
    <2>1. LogOK(dl'[i], flash[dl'[i].pba])
      BY <1>0, <1>3, Shows
    <2> QED BY <1>0, <2>1
  <1>13. DataOK' /\ MtOK'
    <2>1. DataOK'
      BY <1>0, <1>2, <1>8 DEF DataOK
    <2>2. MtOK'
      BY <1>0, <1>1, <1>2, <1>3, <1>7, <1>8 DEF MtOK
    <2> QED BY <2>1, <2>2
  <1>14. CacheOK'
    <2>1. PhysicalMt \in Block \X Page /\ NoBlock \notin Block
      BY <1>2, MapPlace, Numbers
    <2>2. mt_cache'.at = <<NoBlock, NoPage>> /\ <<NoBlock, NoPage>> # PhysicalMt
      BY <1>0, <2>1
    <2>3. mt_cache'.at # PhysicalMt' /\ mt_pbas' # NoBlock
      BY <1>1, <1>3, <1>8, <2>2
    <2> QED BY <2>3 DEF CacheOK
  <1>15. TypesOK'
    <2>1. NoBlock \in BlockX /\ NoPage \in Page \cup {NoPage} /\ NoMap \in [Lba -> BlockX]
      BY Numbers DEF BlockX
    <2>2. mt_cache' \in [at : BlockX \X (Page \cup {NoPage}), map : [Lba -> BlockX]]
      BY <1>0, <2>1
    <2> QED BY <1>0, <1>2, <1>3, <2>2 DEF TypesOK, BlockX
  <1>16. StackOK' /\ GarbLists' /\ BlankOK' /\ FreshOK'
    <2>1. StackOK' /\ GarbLists'
      BY <1>0, <1>6 DEF StackOK, GoodStack, GarbLists
    <2>2. BlankOK'
      BY <1>0, <1>2, <1>5 DEF BlankOK
    <2>3. FreshOK'
      BY <1>1, <1>3, <1>6 DEF FreshOK
    <2> QED BY <2>1, <2>2, <2>3
  <1>17. Indices' /\ TaskOK' /\ Ready' /\ CacheHot'
    <2>1. Indices' /\ Ready'
      BY <1>6 DEF Indices, Ready
    <2>2. TaskOK' /\ CacheHot'
      BY <1>0, <1>7 DEF TaskOK, CacheHot
    <2> QED BY <2>1, <2>2
  <1>18. NoLogLost => Unmoved
    BY <1>0, <1>1, <1>7, <1>8, <1>9 DEF NoLogLost, Unmoved, TurningLogs
  <1>19. NftlInv'
    BY <1>5, <1>7, <1>10, <1>11, <1>12, <1>13, <1>14, <1>15, <1>16, <1>17 DEF NftlInv
  <1> QED BY <1>5, <1>18, <1>19

-----------------------------------------------------------------------------
(***************************************************************************)
(* Pages are programmed once                                               *)
(***************************************************************************)

\* A step programs no page that was programmed since the last erase of its block.
Once == \A b \in Block, p \in Page :
          flash[b][p] # BlankPage => flash'[b][p] \in {flash[b][p], BlankPage}

\* The pages of a block that was just taken are blank.
LEMMA FreshOnce ==
  ASSUME NftlInv, NEW b, FirstProgram(b), \A x \in Block : x # b => flash'[x] = flash[x]
  PROVE  Once
  <1>1. SoundInv /\ BlankOK
    BY DEF NftlInv
  <1>2. b \in Block /\ media[b] = "blank"
    BY <1>1, Begun
  <1>3. \A p \in Page : flash[b][p] = BlankPage
    BY <1>1, <1>2 DEF BlankOK
  <1> QED BY <1>3 DEF Once

\* So is the next page of a log.
LEMMA PutInLogOnce == NftlInv /\ PutInLog => Once
  <1> SUFFICES ASSUME NftlInv, PutInLog PROVE Once
    OBVIOUS
  <1> DEFINE i == DlIndex(LbaOf(wr[1]))
             e == dl[i]
  <1>1. /\ todo # <<>> /\ Task.op = "put" /\ i # 0
        /\ \E g : flash' = [flash EXCEPT ![e.pba][e.used] = g]
    BY DEF PutInLog, Top
  <1>2. ~Lost /\ Dying = {} /\ \A t \in Elems(Tail(todo)) : t.op \in PlainOps
    BY <1>1, AtPlain DEF PlainOps
  <1>3. StackOK /\ dl \in Seq(LogRec) /\ Ready /\ LogsOK /\ OneLog
        /\ flash \in [Block -> [Page -> PageRec]]
    BY <1>2, Parts
  <1>4. Elems(todo) = {Task} \cup Elems(Tail(todo)) /\ Task = T("put")
    BY <1>1, <1>3, Stack, Unders, WriteTasks
  <1>5. i \in 1..Len(dl) /\ e \in LogRec /\ e.lba = LbaOf(wr[1])
    BY <1>1, <1>3, Found
  <1>6. e.pba # NoBlock /\ e.used < PagesPerBlock
    BY <1>3, <1>4, <1>5 DEF Ready
  <1>7. e.used \in Page /\ e.pba \in Block /\ e.used \in Nat
    BY <1>5, <1>6, Numbers DEF LogRec, BlockX
  <1>8. Turning = {}
    BY <1>2, <1>4 DEF Turning, Has, T, PlainOps
  <1>9. LogOK(e, flash[e.pba])
    BY <1>2, <1>3, <1>5, <1>6, <1>8 DEF LogsOK
  <1>10. flash[e.pba][e.used] = BlankPage
    BY <1>7, <1>9 DEF LogOK
  <1> HIDE DEF e
  <1> QED BY <1>1, <1>3, <1>7, <1>10 DEF Once

\* So is the next page of the MTLog block.
LEMMA UpdateMtOnce == NftlInv /\ UpdateMtInsert => Once
  <1> SUFFICES ASSUME NftlInv, UpdateMtInsert PROVE Once
    OBVIOUS
  <1> DEFINE b == mtl[1].pba
             n == mtl[1].used
  <1>1. /\ todo # <<>> /\ Task.op = "updmt" /\ mtl # <<>> /\ n < PagesPerBlock
        /\ \E g : flash' = [flash EXCEPT ![b][n] = g]
    BY DEF UpdateMtInsert, Top
  <1>2. ~Lost /\ mt_pbas # NoBlock /\ ~Closing
    BY <1>1, AtUpdate
  <1>3. MtOK /\ flash \in [Block -> [Page -> PageRec]]
    BY <1>2, Parts
  <1>4. b \in Block /\ n \in 1..PagesPerBlock
    BY <1>1, <1>2, MtPlace
  <1>5. n \in Page /\ ~(n < n)
    BY <1>1, <1>4, Numbers
  <1>6. flash[b][n] = BlankPage
    BY <1>1, <1>2, <1>3, <1>5 DEF MtOK
  <1> HIDE DEF b, n
  <1> QED BY <1>1, <1>3, <1>4, <1>5, <1>6 DEF Once

\* A reclaim leaves blank pages.
LEMMA ReclaimOnce == NftlInv /\ Reclaim => Once
  <1> SUFFICES ASSUME NftlInv, Reclaim PROVE Once
    OBVIOUS
  <1>1. CASE flash' = flash
    BY <1>1 DEF Once
  <1>2. CASE flash' = [flash EXCEPT ![gar_pbas[gcidx]] = [p \in Page |-> BlankPage]]
    <2> DEFINE c == gar_pbas[gcidx]
    <2>1. flash \in [Block -> [Page -> PageRec]]
      BY DEF NftlInv, TypesOK
    <2> HIDE DEF c
    <2> SUFFICES ASSUME NEW b \in Block, NEW p \in Page
                 PROVE  flash'[b][p] \in {flash[b][p], BlankPage}
      BY DEF Once
    <2>2. CASE b = c
      BY <1>2, <2>1, <2>2 DEF c
    <2>3. CASE b # c
      BY <1>2, <2>1, <2>3 DEF c
    <2> QED BY <2>2, <2>3
  <1> QED BY <1>1, <1>2 DEF Reclaim

===============================================================================
