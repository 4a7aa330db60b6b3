---------------------------- MODULE NftlPoolProofs ----------------------------
(***************************************************************************)
(* Proofs about the block pool of module NftlPool, for a device of any     *)
(* size: types, the roles of blocks, the free count, what is erased, and   *)
(* what NFTL_mount finds of what RAM knew.                                 *)
(***************************************************************************)
EXTENDS NftlPool, FiniteSetTheorems, TLAPS

-----------------------------------------------------------------------------
(***************************************************************************)
(* Blocks, sequences and the 16-bit count                                  *)
(***************************************************************************)

\* The device is small for 16-bit counts and addresses.
LEMMA Sizes ==
  /\ UINT16 \in Nat \ {0} /\ NBlocks \in Nat \ {0} /\ NBlocks < UINT16
  /\ NoBlock \notin Block
  BY PoolAssumption, SMT DEF UINT16, NoBlock, Block

\* Quotient and remainder.
LEMMA DivMod ==
  ASSUME NEW n \in Int, NEW m \in Nat \ {0}
  PROVE  n % m \in 0..(m - 1) /\ n \div m \in Int /\ n = (n \div m) * m + (n % m)
  BY Z3

\* The remainder is the only one.
LEMMA ModIs ==
  ASSUME NEW n \in Int, NEW m \in Nat \ {0}, NEW q \in Int, NEW r \in 0..(m - 1),
         n = q * m + r
  PROVE  n % m = r
  <1> DEFINE s == n % m
             k == n \div m
  <1>1. s \in 0..(m - 1) /\ k \in Int /\ n = k * m + s
    BY DivMod
  <1> SUFFICES s = r
    OBVIOUS
  <1> HIDE DEF s, k
  <1>2. (k - q) * m = r - s
    BY <1>1
  <1>3. r - s < m /\ r - s > -m
    BY <1>1
  <1>4. CASE k - q >= 1
    <2>1. (k - q - 1) * m >= 0 /\ (k - q - 1) * m = (k - q) * m - m
      BY <1>1, <1>4
    <2> QED BY <2>1, <1>1, <1>2, <1>3
  <1>5. CASE k - q <= -1
    <2>1. (q - k - 1) * m >= 0 /\ (q - k - 1) * m = -((k - q) * m) - m
      BY <1>1, <1>5
    <2> QED BY <2>1, <1>1, <1>2, <1>3
  <1>6. CASE k = q
    BY <1>1, <1>6
  <1> QED BY <1>1, <1>4, <1>5, <1>6

\* A set of blocks has few enough members for the 16-bit count.
LEMMA CountOf ==
  ASSUME NEW S, S \subseteq Block
  PROVE  IsFiniteSet(S) /\ Cardinality(S) \in Nat /\ Cardinality(S) \in 0..(UINT16 - 1)
  <1>1. IsFiniteSet(Block) /\ Cardinality(Block) = NBlocks
    BY Sizes, FS_Interval DEF Block
  <1>2. IsFiniteSet(S) /\ Cardinality(S) <= NBlocks
    BY <1>1, FS_Subset
  <1>3. Cardinality(S) \in Nat
    BY <1>2, FS_CardinalityType
  <1> QED BY <1>2, <1>3, Sizes

\* The list of blocks that one call of nftl_addto_gt is given.
LEMMA RetirableList ==
  ASSUME NEW g \in Retirable, held \subseteq Block
  PROVE  /\ g \in Seq(Block) /\ Elems(g) \subseteq {b \in held : media[b] = "used"}
         /\ \A i, j \in 1..Len(g) : i # j => g[i] # g[j]
         /\ Len(g) > 0
  <1> DEFINE H == {b \in held : media[b] = "used"}
  <1>1. CASE \E b \in H : g = <<b>>
    <2> PICK b \in H : g = <<b>>
      BY <1>1
    <2> QED BY DEF Elems
  <1>2. CASE \E b, c \in H : g = <<b, c>> /\ b # c
    <2> PICK b \in H, c \in H : g = <<b, c>> /\ b # c
      BY <1>2
    <2> QED BY DEF Elems
  <1> QED BY <1>1, <1>2 DEF Retirable

\* What a concatenated list names.
LEMMA CatElems ==
  ASSUME NEW s \in Seq(Block), NEW t \in Seq(Block)
  PROVE  s \o t \in Seq(Block) /\ Elems(s \o t) = Elems(s) \cup Elems(t)
  <1>1. /\ s \o t \in Seq(Block) /\ Len(s \o t) = Len(s) + Len(t)
        /\ Len(s) \in Nat /\ Len(t) \in Nat
        /\ \A i \in 1..(Len(s) + Len(t)) :
             (s \o t)[i] = IF i <= Len(s) THEN s[i] ELSE t[i - Len(s)]
    OBVIOUS
  <1>2. Elems(s \o t) \subseteq Elems(s) \cup Elems(t)
    BY <1>1 DEF Elems
  <1>3. Elems(s) \subseteq Elems(s \o t)
    BY <1>1 DEF Elems
  <1>4. ASSUME NEW j \in 1..Len(t)
        PROVE  t[j] \in Elems(s \o t)
    <2>1. j + Len(s) \in 1..(Len(s) + Len(t)) /\ (s \o t)[j + Len(s)] = t[j]
      BY <1>1
    <2> QED BY <1>1, <2>1 DEF Elems
  <1> QED BY <1>1, <1>2, <1>3, <1>4 DEF Elems

-----------------------------------------------------------------------------
(***************************************************************************)
(* Types                                                                   *)
(***************************************************************************)

\* nftl_write_error has a GarbageTab block to replace.
TypeInv == TypeOK /\ (gcpc = "gterr" => gt_pbas \in Block)

AnyStep == GoodStep \/ FaultStep \/ PowerCut

\* The state after the first mount has its type.
LEMMA TypeInit == PoolInit => TypeInv
  <1> SUFFICES ASSUME PoolInit PROVE TypeInv
    OBVIOUS
  <1>1. free_blkcnt \in 0..(UINT16 - 1)
    BY CountOf DEF PoolInit
  <1> QED BY <1>1, PoolAssumption DEF PoolInit, TypeInv, TypeOK, Block, Media, NoPages

\* nftl_get_free_block returns a free block.
LEMMA FreeFact ==
  ASSUME NEW b, GetsFree(b)
  PROVE  b \in Block /\ blockstatus[b]
  BY DEF GetsFree, Reachable, FreeBlocks

\* The count keeps its width.
LEMMA CountStep ==
  ASSUME free_blkcnt \in 0..(UINT16 - 1), NEW d \in Int
  PROVE  (free_blkcnt + d) % UINT16 \in 0..(UINT16 - 1)
  <1>1. free_blkcnt + d \in Int
    BY Sizes
  <1> QED BY <1>1, Sizes, DivMod

\* So does a decrement by one or by two.
LEMMA CountDown ==
  ASSUME free_blkcnt \in 0..(UINT16 - 1)
  PROVE  /\ (free_blkcnt - 1) % UINT16 \in 0..(UINT16 - 1)
         /\ (free_blkcnt - 2) % UINT16 \in 0..(UINT16 - 1)
  <1>1. free_blkcnt - 1 \in Int /\ free_blkcnt - 2 \in Int
    BY Sizes
  <1> QED BY <1>1, Sizes, DivMod

\* A GarbageTab block's contents grow by a page.
LEMMA PageType ==
  ASSUME NEW l \in [pages : Nat, list : Seq(Block)], NEW g \in Seq(Block)
  PROVE  WithPage(l, g) \in [pages : Nat, list : Seq(Block)]
  BY DEF WithPage

\* Every action, a failing flash's and a power cut included, keeps the types.
LEMMA TypeStep == TypeInv /\ [AnyStep]_poolVars => TypeInv'
  <1> SUFFICES ASSUME TypeInv, [AnyStep]_poolVars
               PROVE  TypeInv'
    OBVIOUS
  <1> USE DEF TypeInv, TypeOK
  <1> DEFINE Logs == [pages : Nat, list : Seq(Block)]
  <1>0. NoPages \in Logs
    BY DEF NoPages
  <1>1. ASSUME NEW b \in Block, Alloc(b)
        PROVE  TypeInv'
    BY <1>1, CountDown DEF Alloc, SetBlockNoFree, gcVars
  <1>2. ASSUME NEW b \in Block, FirstProgram(b)
        PROVE  TypeInv'
    BY <1>2 DEF FirstProgram, Media, ramVars, gcVars
  <1>3. ASSUME NEW b \in Block, NEW n \in Block, UserReplace(b, n)
        PROVE  TypeInv'
    BY <1>3, CountDown DEF UserReplace, Replace, Media, gcVars
  <1>4. ASSUME NEW n \in Block, UserSpoil(n)
        PROVE  TypeInv'
    BY <1>4, CountDown DEF UserSpoil, SpoilBackup, Media, gcVars
  <1>5. ASSUME NEW g \in Retirable, EnterGarbage(g)
        PROVE  gar_pbas' \in Seq(Block) /\ held' \subseteq Block /\ g \in Seq(Block)
    BY <1>5, RetirableList, CatElems DEF EnterGarbage
  <1>6. ASSUME AfterGtPage
        PROVE  /\ gt_pgcnt' \in Nat /\ gcidx' \in Nat \ {0} /\ gcpend' \in Seq(Block)
               /\ gcpc' \in {"idle", "gterr", "reclaim"} /\ gcpc' # "gterr"
    BY <1>6 DEF AfterGtPage
  <1>7. ASSUME NEW g \in Retirable, AddToGt(g)
        PROVE  TypeInv'
    <2>1. WithPage(gtlog[gt_pbas], g) \in Logs
      BY <1>5, <1>7, PageType DEF AddToGt
    <2>2. gtlog' \in [Block -> Logs]
      BY <1>7, <2>1 DEF AddToGt
    <2> QED BY <1>5, <1>6, <1>7, <2>2 DEF AddToGt
  <1>8. ASSUME NEW g \in Retirable, NEW b \in Block, AddToNewGt(g, b)
        PROVE  TypeInv'
    <2>1. WithPage(NoPages, g) \in Logs
      BY <1>0, <1>5, <1>8, PageType DEF AddToNewGt
    <2>2. gtlog' \in [Block -> Logs]
      BY <1>8, <2>1 DEF AddToNewGt
    <2> QED BY <1>5, <1>6, <1>8, <2>2, CountDown DEF AddToNewGt, SetBlockNoFree, Media
  <1>9. ASSUME NEW g \in Retirable, AddToNoGt(g)
        PROVE  TypeInv'
    BY <1>5, <1>6, <1>9 DEF AddToNoGt
  <1>10. ASSUME NEW g \in Retirable, NEW b \in Block, AddToGtFails(g, b)
         PROVE  TypeInv'
    BY <1>5, <1>10, CountDown DEF AddToGtFails, SetBlockNoFree
  <1>11. ASSUME NEW n \in Block, GtReplace(n)
         PROVE  TypeInv'
    <2>1. WithPage(gtlog[gt_pbas], gcpend) \in Logs /\ gt_pbas \in Block
      BY <1>11, PageType DEF GtReplace
    <2>2. gtlog' \in [Block -> Logs]
      BY <1>11, <2>1 DEF GtReplace
    <2>3. media' \in [Block -> Media]
      BY <1>11, <2>1 DEF GtReplace, Replace, Media
    <2> QED BY <1>6, <1>11, <2>1, <2>2, <2>3, CountDown DEF GtReplace, Replace
  <1>12. ASSUME NEW n \in Block, GtSpoil(n)
         PROVE  TypeInv'
    BY <1>12, CountDown DEF GtSpoil, SpoilBackup, Media, gcVars
  <1>13. CASE GtGiveUp
    BY <1>6, <1>13 DEF GtGiveUp
  <1>14. CASE EraseGarbage
    <2>1. gar_pbas[gcidx] \in Block
      BY <1>14 DEF EraseGarbage
    <2>2. free_blkcnt' \in 0..(UINT16 - 1)
      BY <1>14, CountStep DEF EraseGarbage, SetBlockFree
    <2>3. gtlog' \in [Block -> Logs]
      BY <1>0, <1>14, <2>1 DEF EraseGarbage
    <2>4. media' \in [Block -> Media] /\ blockstatus' \in [Block -> BOOLEAN]
      BY <1>14, <2>1 DEF EraseGarbage, SetBlockFree, Media
    <2>5. gcidx' \in Nat \ {0}
      BY <1>14 DEF EraseGarbage
    <2>6. /\ lastfree' = lastfree /\ gt_pbas' = gt_pbas /\ gt_pgcnt' = gt_pgcnt
          /\ gar_pbas' = gar_pbas /\ gcpc' = gcpc /\ gcpend' = gcpend
          /\ held' = held /\ marked' = marked
      BY <1>14 DEF EraseGarbage, SetBlockFree
    <2> QED BY <2>2, <2>3, <2>4, <2>5, <2>6
  <1>15. CASE EraseGarbageFails
    <2>1. gar_pbas[gcidx] \in Block
      BY <1>15 DEF EraseGarbageFails
    <2> QED BY <1>15, <2>1, CountDown, SMTT(40) DEF EraseGarbageFails, SetBlockBad, Media
  <1>16. CASE EraseGt
    <2>1. free_blkcnt' \in 0..(UINT16 - 1)
      BY <1>16, CountStep DEF EraseGt, SetBlockFree
    <2> QED BY <1>0, <1>16, <2>1 DEF EraseGt, ReclaimDone, SetBlockFree, Media
  <1>17. CASE EraseGtFails
    BY <1>17, CountDown DEF EraseGtFails, ReclaimDone, SetBlockBad, Media
  <1>18. CASE EraseNoGt
    BY <1>18 DEF EraseNoGt, ReclaimDone
  <1>19. ASSUME NEW lf \in Block, PoolMount(lf)
         PROVE  TypeInv'
    <2>1. FoundGt \in Block \cup {NoBlock}
      BY DEF FoundGt, GtCandidates
    <2>2. FoundGarbage \in Seq(Block)
      BY <2>1 DEF FoundGarbage
    <2>3. free_blkcnt' \in 0..(UINT16 - 1)
      BY <1>19, CountOf DEF PoolMount
    <2> QED BY <1>19, <2>1, <2>2, <2>3 DEF PoolMount
  <1>20. CASE UNCHANGED poolVars
    BY <1>20 DEF poolVars, ramVars, gcVars
  <1> QED
    BY <1>1, <1>2, <1>3, <1>4, <1>7, <1>8, <1>9, <1>10, <1>11, <1>12, <1>13, <1>14,
       <1>15, <1>16, <1>17, <1>18, <1>19, <1>20
    DEF AnyStep, GoodStep, FaultStep, PowerCut

\* Whatever fails and whenever the power is cut: the block addresses that the
\* tables hold are blocks of the device, and free_blkcnt is a uint16_t.
THEOREM PoolTypes ==
  /\ PoolSpec => []TypeOK
  /\ CutSpec => []TypeOK
  <1>1. TypeInv => TypeOK
    BY DEF TypeInv
  <1>2. [GoodStep \/ FaultStep]_poolVars => [AnyStep]_poolVars
    BY DEF AnyStep
  <1>3. [GoodStep \/ PowerCut]_poolVars => [AnyStep]_poolVars
    BY DEF AnyStep
  <1>4. PoolSpec => []TypeOK
    BY <1>1, <1>2, TypeInit, TypeStep, PTL DEF PoolSpec
  <1>5. CutSpec => []TypeOK
    BY <1>1, <1>3, TypeInit, TypeStep, PTL DEF CutSpec
  <1> QED BY <1>4, <1>5

-----------------------------------------------------------------------------
(***************************************************************************)
(* The roles of blocks                                                     *)
(***************************************************************************)

\* No block is garbage twice: the second erase would hit a block in use.
GarbageOnce ==
  \A i, j \in 1..Len(gar_pbas) : i # j => gar_pbas[i] # gar_pbas[j]

RoleInv == TypeInv /\ OneRole /\ GarbageOnce

\* Roles after the first mount.
LEMMA RoleInit == PoolInit => RoleInv
  <1> SUFFICES ASSUME PoolInit PROVE RoleInv
    OBVIOUS
  <1>1. Waiting = {} /\ GarbageOnce
    BY DEF PoolInit, Waiting, GarbageOnce
  <1>2. OneRole
    BY <1>1 DEF PoolInit, OneRole
  <1> QED BY <1>1, <1>2, TypeInit DEF RoleInv

\* Outside nftl_reclaim_garbages all garbage is waiting.
LEMMA WaitingAll ==
  ASSUME gcpc # "reclaim"
  PROVE  Waiting = Elems(gar_pbas)
  BY DEF Waiting, Elems

\* nftl_addto_gt moves blocks from the users to the garbage and nothing else.
LEMMA WaitingEntered ==
  ASSUME RoleInv, NEW g \in Retirable, EnterGarbage(g),
         gcpc' = "reclaim" => gcidx' = 1
  PROVE  /\ Waiting' = Waiting \cup Elems(g) /\ GarbageOnce'
         /\ Elems(g) \subseteq held /\ held' = held \ Elems(g)
  <1>1. g \in Seq(Block) /\ gar_pbas \in Seq(Block) /\ Elems(g) \subseteq held
        /\ \A i, j \in 1..Len(g) : i # j => g[i] # g[j]
    BY RetirableList DEF RoleInv, TypeInv, TypeOK
  <1>2. gar_pbas' = gar_pbas \o g /\ held' = held \ Elems(g) /\ gcpc = "idle"
    BY DEF EnterGarbage
  <1>3. Waiting = Elems(gar_pbas)
    BY <1>2, WaitingAll
  <1>4. Waiting' = Elems(gar_pbas')
    <2>1. gcpc' = "reclaim" => \A j \in 1..Len(gar_pbas') : j >= gcidx'
      BY <1>1, <1>2, CatElems
    <2> QED BY <2>1 DEF Waiting, Elems
  <1>5. Waiting' = Waiting \cup Elems(g)
    BY <1>1, <1>2, <1>3, <1>4, CatElems
  <1>6. GarbageOnce'
    <2> DEFINE n == Len(gar_pbas)
    <2>1. /\ n \in Nat /\ Len(g) \in Nat /\ Len(gar_pbas') = n + Len(g)
          /\ \A i \in 1..(n + Len(g)) :
               gar_pbas'[i] = IF i <= n THEN gar_pbas[i] ELSE g[i - n]
      BY <1>1, <1>2
    <2>2. \A i \in 1..n, j \in 1..Len(g) : gar_pbas[i] # g[j]
      <3>1. \A i \in 1..n : gar_pbas[i] \in Waiting
        BY <1>3 DEF Elems
      <3>2. \A j \in 1..Len(g) : g[j] \in held
        BY <1>1 DEF Elems
      <3> QED BY <3>1, <3>2 DEF RoleInv, OneRole
    <2> SUFFICES ASSUME NEW i \in 1..(n + Len(g)), NEW j \in 1..(n + Len(g)), i # j
                 PROVE  gar_pbas'[i] # gar_pbas'[j]
      BY <2>1 DEF GarbageOnce
    <2>3. CASE i <= n /\ j <= n
      BY <2>1, <2>3 DEF RoleInv, GarbageOnce
    <2>4. CASE i <= n /\ ~(j <= n)
      BY <2>1, <2>2, <2>4
    <2>5. CASE ~(i <= n) /\ j <= n
      BY <2>1, <2>2, <2>5
    <2>6. CASE ~(i <= n) /\ ~(j <= n)
      <3>1. i - n \in 1..Len(g) /\ j - n \in 1..Len(g) /\ i - n # j - n
        BY <2>1, <2>6
      <3> QED BY <1>1, <2>1, <2>6, <3>1
    <2> QED BY <2>3, <2>4, <2>5, <2>6
  <1> QED BY <1>1, <1>2, <1>5, <1>6

\* One turn of the reclaim loop takes one block off what is waiting.
LEMMA WaitingErased ==
  ASSUME RoleInv, gcpc = "reclaim", gcidx <= Len(gar_pbas), gcidx' = gcidx + 1,
         gar_pbas' = gar_pbas, gcpc' = gcpc
  PROVE  /\ gar_pbas[gcidx] \in Waiting /\ gar_pbas[gcidx] \in Block
         /\ Waiting' \subseteq Waiting \ {gar_pbas[gcidx]}
         /\ GarbageOnce'
  <1>1. gar_pbas \in Seq(Block) /\ gcidx \in Nat \ {0} /\ Len(gar_pbas) \in Nat
    BY DEF RoleInv, TypeInv, TypeOK
  <1>2. gcidx \in 1..Len(gar_pbas)
    BY <1>1
  <1>3. gar_pbas[gcidx] \in Waiting /\ gar_pbas[gcidx] \in Block
    BY <1>1, <1>2 DEF Waiting
  <1>4. \A j \in 1..Len(gar_pbas) : j >= gcidx + 1 => j >= gcidx /\ j # gcidx
    BY <1>1
  <1>5. Waiting' \subseteq Waiting \ {gar_pbas[gcidx]}
    BY <1>2, <1>4 DEF Waiting, RoleInv, GarbageOnce
  <1> QED BY <1>3, <1>5 DEF RoleInv, GarbageOnce

\* When nftl_reclaim_garbages returns no garbage is left.
LEMMA WaitingDone ==
  ASSUME RoleInv, ReclaimDone
  PROVE  Waiting = {} /\ Waiting' = {} /\ GarbageOnce'
  <1>1. gar_pbas \in Seq(Block) /\ gcidx \in Nat \ {0} /\ Len(gar_pbas) \in Nat
    BY DEF RoleInv, TypeInv, TypeOK
  <1>2. \A j \in 1..Len(gar_pbas) : ~(j >= gcidx)
    BY <1>1 DEF ReclaimDone
  <1>3. Waiting = {}
    BY <1>2 DEF Waiting, ReclaimDone
  <1>4. Waiting' = {} /\ GarbageOnce'
    BY DEF Waiting, ReclaimDone, GarbageOnce
  <1> QED BY <1>3, <1>4

\* Each action keeps every block in one role.
LEMMA RoleStep == RoleInv /\ [GoodStep \/ FaultStep]_poolVars => RoleInv'
  <1> SUFFICES ASSUME RoleInv, [GoodStep \/ FaultStep]_poolVars
               PROVE  OneRole' /\ GarbageOnce'
    BY TypeStep DEF RoleInv, AnyStep
  <1>0. /\ TypeOK /\ OneRole /\ GarbageOnce
        /\ gcpc = "gterr" => gt_pbas \in Block
        /\ NoBlock \notin Block
    BY Sizes DEF RoleInv, TypeInv
  <1>wait. Waiting \subseteq Block
    BY <1>0 DEF Waiting, TypeOK
  <1> DEFINE SameGarbage == gar_pbas' = gar_pbas /\ gcpc' = gcpc /\ gcidx' = gcidx
  <1>same. ASSUME SameGarbage PROVE Waiting' = Waiting /\ GarbageOnce'
    BY <1>0, <1>same DEF Waiting, GarbageOnce
  <1>1. ASSUME NEW b \in Block, Alloc(b)
        PROVE  OneRole' /\ GarbageOnce'
    <2>1. SameGarbage /\ blockstatus[b]
      BY <1>1, FreeFact DEF Alloc, gcVars
    <2> QED BY <1>0, <1>same, <1>1, <2>1 DEF Alloc, SetBlockNoFree, OneRole, TypeOK
  <1>2. ASSUME NEW b \in Block, FirstProgram(b)
        PROVE  OneRole' /\ GarbageOnce'
    <2>1. SameGarbage
      BY <1>2 DEF FirstProgram, ramVars, gcVars
    <2> QED BY <1>0, <1>same, <1>2, <2>1 DEF FirstProgram, ramVars, OneRole, TypeOK
  <1>3. ASSUME NEW b \in Block, NEW n \in Block, UserReplace(b, n)
        PROVE  OneRole' /\ GarbageOnce'
    <2>1. SameGarbage /\ blockstatus[n]
      BY <1>3, FreeFact DEF UserReplace, Replace, gcVars
    <2> QED BY <1>0, <1>wait, <1>same, <1>3, <2>1 DEF UserReplace, Replace, OneRole, TypeOK
  <1>4. ASSUME NEW n \in Block, UserSpoil(n) \/ GtSpoil(n)
        PROVE  OneRole' /\ GarbageOnce'
    <2>1. SameGarbage /\ blockstatus[n]
      BY <1>4, FreeFact DEF UserSpoil, GtSpoil, SpoilBackup, gcVars
    <2>2. SpoilBackup(n) /\ held' = held /\ gt_pbas' = gt_pbas
      BY <1>4 DEF UserSpoil, GtSpoil
    <2> QED BY <1>0, <1>same, <2>1, <2>2 DEF SpoilBackup, OneRole, TypeOK
  <1>5. ASSUME NEW g \in Retirable, AddToGt(g)
        PROVE  OneRole' /\ GarbageOnce'
    <2>1. EnterGarbage(g) /\ (gcpc' = "reclaim" => gcidx' = 1)
      BY <1>5 DEF AddToGt, AfterGtPage
    <2>2. /\ Waiting' = Waiting \cup Elems(g) /\ GarbageOnce'
          /\ Elems(g) \subseteq held /\ held' = held \ Elems(g)
      BY <2>1, WaitingEntered
    <2> QED BY <1>0, <1>5, <2>2 DEF AddToGt, OneRole, TypeOK
  <1>6. ASSUME NEW g \in Retirable, NEW b \in Block, AddToNewGt(g, b)
        PROVE  OneRole' /\ GarbageOnce'
    <2>1. EnterGarbage(g) /\ (gcpc' = "reclaim" => gcidx' = 1)
      BY <1>6 DEF AddToNewGt, AfterGtPage
    <2>2. /\ Waiting' = Waiting \cup Elems(g) /\ GarbageOnce'
          /\ Elems(g) \subseteq held /\ held' = held \ Elems(g)
      BY <2>1, WaitingEntered
    <2>3. blockstatus[b]
      BY <1>6, FreeFact DEF AddToNewGt
    <2> QED BY <1>0, <1>6, <2>2, <2>3 DEF AddToNewGt, SetBlockNoFree, OneRole, TypeOK
  <1>7. ASSUME NEW g \in Retirable, AddToNoGt(g)
        PROVE  OneRole' /\ GarbageOnce'
    <2>1. EnterGarbage(g) /\ (gcpc' = "reclaim" => gcidx' = 1)
      BY <1>7 DEF AddToNoGt, AfterGtPage
    <2>2. /\ Waiting' = Waiting \cup Elems(g) /\ GarbageOnce'
          /\ Elems(g) \subseteq held /\ held' = held \ Elems(g)
      BY <2>1, WaitingEntered
    <2> QED BY <1>0, <1>7, <2>2 DEF AddToNoGt, OneRole, TypeOK
  <1>8. ASSUME NEW g \in Retirable, NEW b \in Block, AddToGtFails(g, b)
        PROVE  OneRole' /\ GarbageOnce'
    <2>1. EnterGarbage(g) /\ (gcpc' = "reclaim" => gcidx' = 1)
      BY <1>8 DEF AddToGtFails
    <2>2. /\ Waiting' = Waiting \cup Elems(g) /\ GarbageOnce'
          /\ Elems(g) \subseteq held /\ held' = held \ Elems(g)
      BY <2>1, WaitingEntered
    <2>3. CASE b = gt_pbas /\ UNCHANGED <<blockstatus, gt_pbas>>
      BY <1>0, <1>8, <2>2, <2>3 DEF AddToGtFails, OneRole, TypeOK
    <2>4. CASE gt_pbas = NoBlock /\ gt_pbas' = b /\ GetsFree(b) /\ SetBlockNoFree(b)
      <3>1. blockstatus[b]
        BY <2>4, FreeFact
      <3> QED BY <1>0, <1>8, <2>2, <2>4, <3>1 DEF AddToGtFails, SetBlockNoFree, OneRole, TypeOK
    <2> QED BY <1>8, <2>3, <2>4 DEF AddToGtFails
  <1>9. ASSUME gcpc = "gterr", AfterGtPage, gar_pbas' = gar_pbas
        PROVE  Waiting' = Waiting /\ GarbageOnce'
    <2>1. gcpc' = "reclaim" => gcidx' = 1
      BY <1>9 DEF AfterGtPage
    <2>2. Waiting = Elems(gar_pbas)
      BY <1>9, WaitingAll
    <2>3. Waiting' = Elems(gar_pbas)
      BY <1>9, <2>1 DEF Waiting, Elems
    <2> QED BY <1>0, <1>9, <2>2, <2>3 DEF GarbageOnce
  <1>10. ASSUME NEW n \in Block, GtReplace(n)
         PROVE  OneRole' /\ GarbageOnce'
    <2>1. Waiting' = Waiting /\ GarbageOnce'
      BY <1>9, <1>10 DEF GtReplace
    <2>2. blockstatus[n] /\ gt_pbas \in Block /\ n # gt_pbas
      BY <1>0, <1>10, FreeFact DEF GtReplace, Replace, OneRole
    <2> QED BY <1>0, <1>wait, <1>10, <2>1, <2>2 DEF GtReplace, Replace, OneRole, TypeOK
  <1>11. CASE GtGiveUp
    <2>1. Waiting' = Waiting /\ GarbageOnce'
      BY <1>9, <1>11 DEF GtGiveUp
    <2> QED BY <1>0, <1>wait, <1>11, <2>1 DEF GtGiveUp, OneRole, TypeOK
  <1>12. CASE EraseGarbage
    <2>1. /\ gar_pbas[gcidx] \in Waiting /\ gar_pbas[gcidx] \in Block
          /\ Waiting' \subseteq Waiting \ {gar_pbas[gcidx]} /\ GarbageOnce'
      BY <1>12, WaitingErased DEF EraseGarbage
    <2> QED BY <1>0, <1>12, <2>1, SMTT(40) DEF EraseGarbage, SetBlockFree, OneRole, TypeOK
  <1>13. CASE EraseGarbageFails
    <2>1. /\ gar_pbas[gcidx] \in Waiting /\ gar_pbas[gcidx] \in Block
          /\ Waiting' \subseteq Waiting \ {gar_pbas[gcidx]} /\ GarbageOnce'
      BY <1>13, WaitingErased DEF EraseGarbageFails
    <2> QED BY <1>0, <1>13, <2>1 DEF EraseGarbageFails, SetBlockBad, OneRole, TypeOK
  <1>14. CASE EraseGt
    <2>1. Waiting' = {} /\ GarbageOnce' /\ gt_pbas' = NoBlock
      BY <1>14, WaitingDone DEF EraseGt, ReclaimDone
    <2> QED BY <1>0, <1>14, <2>1 DEF EraseGt, ReclaimDone, SetBlockFree, OneRole, TypeOK
  <1>15. CASE EraseGtFails
    <2>1. Waiting' = {} /\ GarbageOnce' /\ gt_pbas' = NoBlock
      BY <1>15, WaitingDone DEF EraseGtFails, ReclaimDone
    <2> QED BY <1>0, <1>15, <2>1 DEF EraseGtFails, ReclaimDone, SetBlockBad, OneRole, TypeOK
  <1>16. CASE EraseNoGt
    <2>1. Waiting' = {} /\ GarbageOnce' /\ gt_pbas' = NoBlock
      BY <1>16, WaitingDone DEF EraseNoGt, ReclaimDone
    <2> QED BY <1>0, <1>16, <2>1 DEF EraseNoGt, ReclaimDone, OneRole, TypeOK
  <1>17. CASE UNCHANGED poolVars
    BY <1>0, <1>same, <1>17 DEF poolVars, ramVars, gcVars, OneRole
  <1> QED
    BY <1>1, <1>2, <1>3, <1>4, <1>5, <1>6, <1>7, <1>8, <1>10, <1>11, <1>12, <1>13,
       <1>14, <1>15, <1>16, <1>17
    DEF GoodStep, FaultStep

\* The inductive invariant holds.
LEMMA RoleInvariant == PoolSpec => []RoleInv
  BY RoleInit, RoleStep, PTL DEF PoolSpec

\* Between two mounts, with programs and erases failing at will and backup blocks
\* failing in their turn, no block is handed out twice, none is garbage while
\* somebody uses it, and none is used after it was marked bad.
THEOREM PoolOneRole == PoolSpec => []OneRole
  <1>1. RoleInv => OneRole
    BY DEF RoleInv
  <1> QED BY <1>1, RoleInvariant, PTL

\* No step erases a programmed block that a user holds.
LEMMA StepSpares ==
  ASSUME RoleInv, GoodStep \/ FaultStep, NEW b \in held, media[b] = "used"
  PROVE  media'[b] # "blank"
  <1>0. TypeOK /\ OneRole /\ b \in Block
    BY DEF RoleInv, TypeInv, TypeOK
  <1> USE DEF TypeOK
  <1>1. ASSUME EraseGarbage PROVE media'[b] # "blank"
    <2>1. gar_pbas[gcidx] \in Waiting
      BY <1>1, WaitingErased DEF EraseGarbage
    <2> QED BY <1>0, <1>1, <2>1 DEF EraseGarbage, OneRole
  <1>2. ASSUME EraseGt PROVE media'[b] # "blank"
    BY <1>0, <1>2 DEF EraseGt, OneRole
  <1>3. ASSUME EraseGarbageFails PROVE media'[b] # "blank"
    BY <1>0, <1>3 DEF EraseGarbageFails, SetBlockBad
  <1>4. ASSUME EraseGtFails PROVE media'[b] # "blank"
    BY <1>0, <1>4 DEF EraseGtFails, SetBlockBad
  <1>5. ASSUME EraseNoGt \/ GtGiveUp PROVE media'[b] # "blank"
    BY <1>0, <1>5 DEF EraseNoGt, GtGiveUp
  <1>6. ASSUME NEW c \in Block, Alloc(c) \/ FirstProgram(c) PROVE media'[b] # "blank"
    BY <1>0, <1>6 DEF Alloc, FirstProgram
  <1>7. ASSUME NEW g \in Retirable, AddToGt(g) \/ AddToNoGt(g) PROVE media'[b] # "blank"
    BY <1>0, <1>7 DEF AddToGt, AddToNoGt
  <1>8. ASSUME NEW g \in Retirable, NEW c \in Block, AddToNewGt(g, c)
        PROVE  media'[b] # "blank"
    BY <1>0, <1>8 DEF AddToNewGt
  <1>9. ASSUME NEW g \in Retirable, NEW c \in Block, AddToGtFails(g, c)
        PROVE  media'[b] # "blank"
    BY <1>0, <1>9 DEF AddToGtFails
  <1>10. ASSUME NEW c \in Block, NEW n \in Block, UserReplace(c, n)
         PROVE  media'[b] # "blank"
    BY <1>0, <1>10 DEF UserReplace, Replace
  <1>11. ASSUME NEW n \in Block, UserSpoil(n) \/ GtSpoil(n) PROVE media'[b] # "blank"
    BY <1>0, <1>11 DEF UserSpoil, GtSpoil, SpoilBackup
  <1>12. ASSUME NEW n \in Block, GtReplace(n) PROVE media'[b] # "blank"
    <2>1. n # b
      BY <1>0, <1>12, FreeFact DEF GtReplace, Replace, OneRole
    <2> QED BY <1>0, <1>12, <2>1 DEF GtReplace, Replace
  <1> QED
    BY <1>1, <1>2, <1>3, <1>4, <1>5, <1>6, <1>7, <1>8, <1>9, <1>10, <1>11, <1>12
    DEF GoodStep, FaultStep

\* Between two mounts nftl_reclaim_garbages erases no block that holds a user's
\* table or data.
THEOREM PoolEraseSpares == PoolSpec => EraseSpares
  <1>1. RoleInv /\ [GoodStep \/ FaultStep]_poolVars =>
          [\A b \in held : media[b] = "used" => media'[b] # "blank"]_poolVars
    BY StepSpares
  <1> QED BY <1>1, RoleInvariant, PTL DEF PoolSpec, EraseSpares

-----------------------------------------------------------------------------
(***************************************************************************)
(* The free count                                                          *)
(***************************************************************************)

\* Reducing a summand first does not change the remainder.
LEMMA ModShift ==
  ASSUME NEW n \in Int, NEW d \in Int, NEW m \in Nat \ {0}
  PROVE  ((n % m) + d) % m = (n + d) % m
  <1> DEFINE s == n % m
             k == n \div m
             r == (s + d) % m
             j == (s + d) \div m
  <1>1. s \in 0..(m - 1) /\ k \in Int /\ n = k * m + s
    BY DivMod
  <1>2. s + d \in Int
    BY <1>1
  <1>3. r \in 0..(m - 1) /\ j \in Int /\ s + d = j * m + r
    BY <1>2, DivMod
  <1> SUFFICES (n + d) % m = r
    OBVIOUS
  <1> HIDE DEF s, k, r, j
  <1>4. k + j \in Int /\ n + d \in Int /\ n + d = (k + j) * m + r
    BY <1>1, <1>2, <1>3
  <1> QED BY <1>3, <1>4, ModIs

\* The count a, the blocks marked bad c and the free blocks f agree; they still
\* do after a block is taken, freed, marked bad, or taken while one is marked bad.
LEMMA Agree ==
  ASSUME NEW a \in Int, NEW c \in Int, NEW f \in 0..(UINT16 - 1),
         (a + c) % UINT16 = f
  PROVE  /\ f >= 1 => (((a - 1) % UINT16) + c) % UINT16 = f - 1
         /\ (((a - 1) % UINT16) + (c + 1)) % UINT16 = f
         /\ f + 1 < UINT16 => (((a + 1) % UINT16) + c) % UINT16 = f + 1
         /\ f >= 1 => (((a - 2) % UINT16) + (c + 1)) % UINT16 = f - 1
  <1> DEFINE m == UINT16
             q == (a + c) \div m
  <1>1. m \in Nat \ {0}
    BY Sizes
  <1> HIDE DEF m
  <1>2. a + c \in Int /\ (a + c) % m = f
    BY DEF m
  <1>3. q \in Int /\ a + c = q * m + f
    BY <1>1, <1>2, DivMod
  <1>4. f \in 0..(m - 1)
    BY DEF m
  <1> HIDE DEF q
  <1>5. ASSUME NEW x \in Int, NEW y \in Int, NEW e \in 0..(m - 1), x + y = q * m + e
        PROVE  ((x % m) + y) % m = e
    <2>1. ((x % m) + y) % m = (x + y) % m
      BY <1>1, ModShift
    <2>2. x + y \in Int
      OBVIOUS
    <2>3. (x + y) % m = e
      BY <1>1, <1>3, <1>5, <2>2, ModIs
    <2> QED BY <2>1, <2>3
  <1>6. f >= 1 => (((a - 1) % m) + c) % m = f - 1
    <2> SUFFICES ASSUME f >= 1 PROVE (((a - 1) % m) + c) % m = f - 1
      OBVIOUS
    <2>1. a - 1 \in Int /\ f - 1 \in 0..(m - 1) /\ (a - 1) + c = q * m + (f - 1)
      BY <1>1, <1>3, <1>4
    <2> QED BY <1>5, <2>1
  <1>7. (((a - 1) % m) + (c + 1)) % m = f
    <2>1. a - 1 \in Int /\ c + 1 \in Int /\ (a - 1) + (c + 1) = q * m + f
      BY <1>1, <1>3, <1>4
    <2> QED BY <1>4, <1>5, <2>1
  <1>8. f + 1 < m => (((a + 1) % m) + c) % m = f + 1
    <2> SUFFICES ASSUME f + 1 < m PROVE (((a + 1) % m) + c) % m = f + 1
      OBVIOUS
    <2>1. a + 1 \in Int /\ f + 1 \in 0..(m - 1) /\ (a + 1) + c = q * m + (f + 1)
      BY <1>1, <1>3, <1>4
    <2> QED BY <1>5, <2>1
  <1>9. f >= 1 => (((a - 2) % m) + (c + 1)) % m = f - 1
    <2> SUFFICES ASSUME f >= 1 PROVE (((a - 2) % m) + (c + 1)) % m = f - 1
      OBVIOUS
    <2>1. /\ a - 2 \in Int /\ c + 1 \in Int /\ f - 1 \in 0..(m - 1)
          /\ (a - 2) + (c + 1) = q * m + (f - 1)
      BY <1>1, <1>3, <1>4
    <2> QED BY <1>5, <2>1
  <1> QED BY <1>6, <1>7, <1>8, <1>9 DEF m

\* Blocks marked bad since the mount are bad.
MarkedBad == \A b \in marked : media[b] = "bad"

DriftInv == RoleInv /\ FreeCountDrift /\ MarkedBad

\* The count after the first mount is exact.
LEMMA DriftInit == PoolInit => DriftInv
  <1> SUFFICES ASSUME PoolInit PROVE FreeCountDrift /\ MarkedBad
    BY RoleInit DEF DriftInv
  <1>1. FreeBlocks = Block \ FactoryBad /\ marked = {} /\ Cardinality(marked) = 0
    BY FS_EmptySet DEF PoolInit, FreeBlocks
  <1> DEFINE f == Cardinality(FreeBlocks)
  <1>2. f \in 0..(UINT16 - 1) /\ free_blkcnt = f
    BY <1>1, CountOf DEF PoolInit
  <1> HIDE DEF f
  <1>3. f + 0 = 0 * UINT16 + f /\ 0 \in Int /\ f + 0 \in Int
    BY <1>2, Sizes
  <1>4. (f + 0) % UINT16 = f
    BY <1>2, <1>3, Sizes, ModIs
  <1> QED BY <1>1, <1>2, <1>4 DEF FreeCountDrift, MarkedBad, PoolInit, f

\* One free block less.
LEMMA OneLess ==
  ASSUME TypeOK, NEW b \in Block, blockstatus[b], FreeBlocks' = FreeBlocks \ {b}
  PROVE  Cardinality(FreeBlocks') = Cardinality(FreeBlocks) - 1
         /\ Cardinality(FreeBlocks) >= 1
  <1>1. IsFiniteSet(FreeBlocks) /\ Cardinality(FreeBlocks) \in Nat /\ b \in FreeBlocks
    BY CountOf DEF FreeBlocks
  <1>2. Cardinality(FreeBlocks \ {b}) = Cardinality(FreeBlocks) - 1
    BY <1>1, FS_RemoveElement
  <1>3. FreeBlocks \ {b} \subseteq Block
    BY DEF FreeBlocks
  <1>4. Cardinality(FreeBlocks \ {b}) \in Nat
    BY <1>3, CountOf
  <1> QED BY <1>1, <1>2, <1>4

\* One free block more.
LEMMA OneMore ==
  ASSUME TypeOK, NEW b \in Block, ~blockstatus[b], FreeBlocks' = FreeBlocks \cup {b}
  PROVE  Cardinality(FreeBlocks') = Cardinality(FreeBlocks) + 1
         /\ Cardinality(FreeBlocks) + 1 < UINT16
  <1>1. IsFiniteSet(FreeBlocks) /\ Cardinality(FreeBlocks) \in Nat /\ b \notin FreeBlocks
    BY CountOf DEF FreeBlocks
  <1>2. Cardinality(FreeBlocks \cup {b}) = Cardinality(FreeBlocks) + 1
    BY <1>1, FS_AddElement
  <1>3. FreeBlocks \cup {b} \subseteq Block
    BY DEF FreeBlocks
  <1>4. Cardinality(FreeBlocks \cup {b}) \in 0..(UINT16 - 1)
    BY <1>3, CountOf
  <1> QED BY <1>1, <1>2, <1>4, Sizes

\* One more block marked bad.
LEMMA OneMarked ==
  ASSUME TypeOK, MarkedBad, NEW b \in Block, media[b] # "bad", marked' = marked \cup {b}
  PROVE  Cardinality(marked') = Cardinality(marked) + 1
  <1>1. IsFiniteSet(marked) /\ b \notin marked
    BY CountOf DEF TypeOK, MarkedBad
  <1> QED BY <1>1, FS_AddElement

\* A free block is taken.
LEMMA DriftTake ==
  ASSUME DriftInv, NEW b \in Block, blockstatus[b], SetBlockNoFree(b), marked' = marked
  PROVE  FreeCountDrift'
  <1>1. TypeOK /\ FreeBlocks' = FreeBlocks \ {b}
    BY DEF DriftInv, RoleInv, TypeInv, TypeOK, SetBlockNoFree, FreeBlocks
  <1>2. Cardinality(FreeBlocks') = Cardinality(FreeBlocks) - 1 /\ Cardinality(FreeBlocks) >= 1
    BY <1>1, OneLess
  <1>3. /\ free_blkcnt \in Int /\ Cardinality(marked) \in Int
        /\ Cardinality(FreeBlocks) \in 0..(UINT16 - 1)
    BY <1>1, CountOf, Sizes DEF TypeOK, FreeBlocks
  <1>4. (((free_blkcnt - 1) % UINT16) + Cardinality(marked)) % UINT16
          = Cardinality(FreeBlocks) - 1
    BY <1>2, <1>3, Agree DEF DriftInv, FreeCountDrift
  <1> QED BY <1>2, <1>4 DEF FreeCountDrift, SetBlockNoFree

\* A block is erased and becomes free.
LEMMA DriftFree ==
  ASSUME DriftInv, NEW b \in Block, ~blockstatus[b], SetBlockFree(b), marked' = marked
  PROVE  FreeCountDrift'
  <1>1. TypeOK /\ FreeBlocks' = FreeBlocks \cup {b}
    BY DEF DriftInv, RoleInv, TypeInv, TypeOK, SetBlockFree, FreeBlocks
  <1>2. /\ Cardinality(FreeBlocks') = Cardinality(FreeBlocks) + 1
        /\ Cardinality(FreeBlocks) + 1 < UINT16
    BY <1>1, OneMore
  <1>3. /\ free_blkcnt \in Int /\ Cardinality(marked) \in Int
        /\ Cardinality(FreeBlocks) \in 0..(UINT16 - 1)
    BY <1>1, CountOf, Sizes DEF TypeOK, FreeBlocks
  <1>4. (((free_blkcnt + 1) % UINT16) + Cardinality(marked)) % UINT16
          = Cardinality(FreeBlocks) + 1
    BY <1>2, <1>3, Agree DEF DriftInv, FreeCountDrift
  <1> QED BY <1>2, <1>4 DEF FreeCountDrift, SetBlockFree

\* A block in use is marked bad.
LEMMA DriftBad ==
  ASSUME DriftInv, NEW b \in Block, ~blockstatus[b], media[b] # "bad", SetBlockBad(b)
  PROVE  FreeCountDrift' /\ MarkedBad'
  <1>1. TypeOK /\ MarkedBad /\ FreeBlocks' = FreeBlocks /\ marked' = marked \cup {b}
    BY DEF DriftInv, RoleInv, TypeInv, TypeOK, SetBlockBad, FreeBlocks
  <1>2. Cardinality(marked') = Cardinality(marked) + 1
    BY <1>1, OneMarked
  <1>3. /\ free_blkcnt \in Int /\ Cardinality(marked) \in Int
        /\ Cardinality(FreeBlocks) \in 0..(UINT16 - 1)
    BY <1>1, CountOf, Sizes DEF TypeOK, FreeBlocks
  <1>4. (((free_blkcnt - 1) % UINT16) + (Cardinality(marked) + 1)) % UINT16
          = Cardinality(FreeBlocks)
    BY <1>3, Agree DEF DriftInv, FreeCountDrift
  <1>5. MarkedBad'
    BY <1>1 DEF MarkedBad, SetBlockBad, TypeOK
  <1> QED BY <1>1, <1>2, <1>4, <1>5 DEF FreeCountDrift, SetBlockBad

\* A round of the retry loop: n is taken and b, which is n or in use, marked bad.
LEMMA DriftRetry ==
  ASSUME DriftInv, NEW n \in Block, NEW b \in Block, blockstatus[n], media[b] # "bad",
         b = n \/ ~blockstatus[b],
         blockstatus' = [blockstatus EXCEPT ![n] = FALSE, ![b] = FALSE],
         free_blkcnt' = (free_blkcnt - 2) % UINT16,
         marked' = marked \cup {b}
  PROVE  FreeCountDrift'
  <1>1. TypeOK /\ MarkedBad /\ FreeBlocks' = FreeBlocks \ {n}
    BY DEF DriftInv, RoleInv, TypeInv, TypeOK, FreeBlocks
  <1>2. Cardinality(FreeBlocks') = Cardinality(FreeBlocks) - 1 /\ Cardinality(FreeBlocks) >= 1
    BY <1>1, OneLess
  <1>3. Cardinality(marked') = Cardinality(marked) + 1
    BY <1>1, OneMarked
  <1>4. /\ free_blkcnt \in Int /\ Cardinality(marked) \in Int
        /\ Cardinality(FreeBlocks) \in 0..(UINT16 - 1)
    BY <1>1, CountOf, Sizes DEF TypeOK, FreeBlocks
  <1>5. (((free_blkcnt - 2) % UINT16) + (Cardinality(marked) + 1)) % UINT16
          = Cardinality(FreeBlocks) - 1
    BY <1>2, <1>4, Agree DEF DriftInv, FreeCountDrift
  <1> QED BY <1>2, <1>3, <1>5 DEF FreeCountDrift

\* Each action keeps the count in step.
LEMMA DriftStep == DriftInv /\ [GoodStep \/ FaultStep]_poolVars => DriftInv'
  <1> SUFFICES ASSUME DriftInv, [GoodStep \/ FaultStep]_poolVars
               PROVE  FreeCountDrift' /\ MarkedBad'
    BY RoleStep DEF DriftInv
  <1>0. /\ RoleInv /\ TypeOK /\ OneRole /\ MarkedBad /\ FreeCountDrift
        /\ gcpc = "gterr" => gt_pbas \in Block
        /\ NoBlock \notin Block
    BY Sizes DEF DriftInv, RoleInv, TypeInv
  <1>same. ASSUME UNCHANGED <<blockstatus, free_blkcnt, marked>>
           PROVE  FreeCountDrift'
    BY <1>0, <1>same DEF FreeCountDrift, FreeBlocks
  <1>1. ASSUME NEW b \in Block, Alloc(b)
        PROVE  FreeCountDrift' /\ MarkedBad'
    BY <1>0, <1>1, FreeFact, DriftTake DEF Alloc, MarkedBad
  <1>2. ASSUME NEW b \in Block, FirstProgram(b)
        PROVE  FreeCountDrift' /\ MarkedBad'
    BY <1>0, <1>same, <1>2 DEF FirstProgram, ramVars, MarkedBad, TypeOK
  <1>3. ASSUME NEW b \in Block, NEW n \in Block, UserReplace(b, n)
        PROVE  FreeCountDrift' /\ MarkedBad'
    <2>1. blockstatus[n] /\ ~blockstatus[b] /\ media[b] # "bad" /\ media[n] # "bad"
      BY <1>0, <1>3, FreeFact DEF UserReplace, Replace, OneRole
    <2>2. FreeCountDrift'
      BY <1>3, <2>1, DriftRetry DEF UserReplace, Replace
    <2>3. MarkedBad'
      BY <1>0, <1>3, <2>1 DEF UserReplace, Replace, MarkedBad, TypeOK
    <2> QED BY <2>2, <2>3
  <1>4. ASSUME NEW n \in Block, SpoilBackup(n)
        PROVE  FreeCountDrift' /\ MarkedBad'
    <2>1. blockstatus[n] /\ media[n] # "bad"
      BY <1>0, <1>4, FreeFact DEF SpoilBackup, OneRole
    <2>2. blockstatus' = [blockstatus EXCEPT ![n] = FALSE, ![n] = FALSE]
      BY <1>0, <1>4 DEF SpoilBackup, TypeOK
    <2>3. FreeCountDrift'
      BY <1>4, <2>1, <2>2, DriftRetry DEF SpoilBackup
    <2>4. MarkedBad'
      BY <1>0, <1>4 DEF SpoilBackup, MarkedBad, TypeOK
    <2> QED BY <2>3, <2>4
  <1>5. ASSUME NEW g \in Retirable, AddToGt(g) \/ AddToNoGt(g)
        PROVE  FreeCountDrift' /\ MarkedBad'
    BY <1>0, <1>same, <1>5 DEF AddToGt, AddToNoGt, MarkedBad
  <1>6. ASSUME NEW g \in Retirable, NEW b \in Block, AddToNewGt(g, b)
        PROVE  FreeCountDrift' /\ MarkedBad'
    <2>1. blockstatus[b] /\ media[b] # "bad"
      BY <1>0, <1>6, FreeFact DEF AddToNewGt, OneRole
    <2>2. FreeCountDrift'
      BY <1>6, <2>1, DriftTake DEF AddToNewGt
    <2>3. MarkedBad'
      BY <1>0, <1>6, <2>1 DEF AddToNewGt, MarkedBad, TypeOK
    <2> QED BY <2>2, <2>3
  <1>7. ASSUME NEW g \in Retirable, NEW b \in Block, AddToGtFails(g, b)
        PROVE  FreeCountDrift' /\ MarkedBad'
    <2>1. CASE UNCHANGED <<blockstatus, free_blkcnt, lastfree, gt_pbas>>
      BY <1>0, <1>same, <1>7, <2>1 DEF AddToGtFails, MarkedBad
    <2>2. CASE GetsFree(b) /\ SetBlockNoFree(b)
      BY <1>0, <1>7, <2>2, FreeFact, DriftTake DEF AddToGtFails, MarkedBad
    <2> QED BY <1>7, <2>1, <2>2 DEF AddToGtFails
  <1>8. ASSUME NEW n \in Block, GtReplace(n)
        PROVE  FreeCountDrift' /\ MarkedBad'
    <2>1. gt_pbas \in Block
      BY <1>0, <1>8 DEF GtReplace
    <2>2. /\ blockstatus[n] /\ ~blockstatus[gt_pbas]
          /\ media[gt_pbas] # "bad" /\ media[n] # "bad"
      BY <1>0, <1>8, <2>1, FreeFact DEF GtReplace, Replace, OneRole
    <2>3. FreeCountDrift'
      BY <1>8, <2>1, <2>2, DriftRetry DEF GtReplace, Replace
    <2>4. MarkedBad'
      BY <1>0, <1>8, <2>1, <2>2 DEF GtReplace, Replace, MarkedBad, TypeOK
    <2> QED BY <2>3, <2>4
  <1>9. CASE GtGiveUp \/ EraseNoGt
    BY <1>0, <1>same, <1>9 DEF GtGiveUp, EraseNoGt, MarkedBad
  <1>10. CASE EraseGarbage
    <2>1. gar_pbas[gcidx] \in Waiting /\ gar_pbas[gcidx] \in Block
      BY <1>0, <1>10, WaitingErased DEF EraseGarbage
    <2>2. ~blockstatus[gar_pbas[gcidx]] /\ media[gar_pbas[gcidx]] # "bad"
      BY <1>0, <2>1 DEF OneRole
    <2>3. FreeCountDrift'
      BY <1>10, <2>1, <2>2, DriftFree DEF EraseGarbage
    <2>4. MarkedBad'
      BY <1>0, <1>10, <2>1, <2>2 DEF EraseGarbage, MarkedBad, TypeOK
    <2> QED BY <2>3, <2>4
  <1>11. CASE EraseGarbageFails
    <2>1. gar_pbas[gcidx] \in Waiting /\ gar_pbas[gcidx] \in Block
      BY <1>0, <1>11, WaitingErased DEF EraseGarbageFails
    <2>2. ~blockstatus[gar_pbas[gcidx]] /\ media[gar_pbas[gcidx]] # "bad"
      BY <1>0, <2>1 DEF OneRole
    <2> QED BY <1>11, <2>1, <2>2, DriftBad DEF EraseGarbageFails
  <1>12. CASE EraseGt
    <2>1. gt_pbas \in Block /\ ~blockstatus[gt_pbas] /\ media[gt_pbas] # "bad"
      BY <1>0, <1>12 DEF EraseGt, OneRole, TypeOK
    <2>2. FreeCountDrift'
      BY <1>12, <2>1, DriftFree DEF EraseGt
    <2>3. MarkedBad'
      BY <1>0, <1>12, <2>1 DEF EraseGt, MarkedBad, TypeOK
    <2> QED BY <2>2, <2>3
  <1>13. CASE EraseGtFails
    <2>1. gt_pbas \in Block /\ ~blockstatus[gt_pbas] /\ media[gt_pbas] # "bad"
      BY <1>0, <1>13 DEF EraseGtFails, OneRole, TypeOK
    <2> QED BY <1>13, <2>1, DriftBad DEF EraseGtFails
  <1>14. CASE UNCHANGED poolVars
    BY <1>0, <1>same, <1>14 DEF poolVars, ramVars, MarkedBad
  <1>15. ASSUME NEW n \in Block, UserSpoil(n) \/ GtSpoil(n)
         PROVE  FreeCountDrift' /\ MarkedBad'
    BY <1>4, <1>15 DEF UserSpoil, GtSpoil
  <1> QED
    BY <1>1, <1>2, <1>3, <1>5, <1>6, <1>7, <1>8, <1>9, <1>10, <1>11, <1>12, <1>13,
       <1>14, <1>15
    DEF GoodStep, FaultStep

\* Between two mounts free_blkcnt is the number of free blocks less one for each
\* block marked bad, modulo 2^16: nothing but nftl_set_block_bad makes it drift.
THEOREM PoolFreeCount == PoolSpec => []FreeCountDrift
  <1>1. DriftInv => FreeCountDrift
    BY DEF DriftInv
  <1> QED BY <1>1, DriftInit, DriftStep, PTL DEF PoolSpec

-----------------------------------------------------------------------------
(***************************************************************************)
(* The search for a free block                                             *)
(***************************************************************************)

\* The scan of nftl_get_free_block, odd wrap and bound included, looks at every
\* free block: it fails only if none is free.
LEMMA ScanIsComplete ==
  ASSUME TypeOK
  PROVE  Reachable = FreeBlocks
  <1> SUFFICES ASSUME NEW b \in FreeBlocks
               PROVE  Dist(b) < 2 * NBlocks - lastfree
    BY DEF Reachable
  <1>1. b \in Block /\ lastfree \in Block /\ NBlocks \in Nat \ {0}
    BY Sizes DEF FreeBlocks, TypeOK
  <1> QED BY <1>1 DEF Dist, Block

\* While nothing was marked bad the count is exact.
LEMMA ExactCount ==
  ASSUME TypeOK, FreeCountDrift, marked = {}
  PROVE  free_blkcnt = Cardinality(FreeBlocks)
  <1>1. Cardinality(marked) = 0 /\ free_blkcnt \in 0..(UINT16 - 1) /\ UINT16 \in Nat \ {0}
    BY FS_EmptySet, Sizes DEF TypeOK
  <1>2. free_blkcnt + 0 \in Int /\ free_blkcnt + 0 = 0 * UINT16 + free_blkcnt /\ 0 \in Int
    BY <1>1
  <1>3. (free_blkcnt + 0) % UINT16 = free_blkcnt
    BY <1>1, <1>2, ModIs
  <1> QED BY <1>1, <1>3 DEF FreeCountDrift

\* Then nftl_get_free_block fails only when the count is zero.
LEMMA NoFreeIsZero ==
  ASSUME TypeOK, FreeCountDrift, marked = {}, NoFree
  PROVE  free_blkcnt = 0
  <1>1. CASE Reachable = {}
    <2>1. FreeBlocks = {}
      BY <1>1, ScanIsComplete
    <2> QED BY <2>1, ExactCount, FS_EmptySet
  <1> QED BY <1>1 DEF NoFree

-----------------------------------------------------------------------------
(***************************************************************************)
(* What the flash shows of the tables in RAM                               *)
(***************************************************************************)

\* The spare areas tell the role of each block, but for a block that was handed
\* out and not yet programmed, which still looks free.
Shown ==
  /\ \A b \in Block :
       /\ blockstatus[b] => media[b] = "blank"
       /\ media[b] = "blank" => blockstatus[b] \/ b \in held
       /\ media[b] = "used" => b \in held \/ b \in Waiting
       /\ media[b] = "gt" => b = gt_pbas
  /\ \A b \in held : media[b] \in {"blank", "used"}
  /\ \A b \in Waiting : media[b] = "used"
  /\ gt_pbas # NoBlock => media[gt_pbas] = "gt"

\* Between two calls of nftl_addto_gt the GarbageTab block holds the garbage list,
\* and there is none if there is no garbage; it is less than half full.
Logged ==
  gcpc = "idle" =>
    /\ gt_pgcnt < PagesPerBlock \div 2
    /\ gt_pbas = NoBlock => gt_pgcnt = 0 /\ gar_pbas = <<>>
    /\ gt_pbas # NoBlock => gtlog[gt_pbas] = [pages |-> gt_pgcnt, list |-> gar_pbas]

SoundInv == DriftInv /\ marked = {} /\ gcpc # "gterr" /\ Shown /\ Logged

\* What SoundInv says, in the parts the steps below need.
LEMMA SoundParts ==
  ASSUME SoundInv
  PROVE  /\ RoleInv /\ TypeOK /\ OneRole /\ GarbageOnce /\ FreeCountDrift /\ MarkedBad
         /\ marked = {} /\ gcpc # "gterr" /\ Shown /\ Logged
         /\ NoBlock \notin Block
         /\ PagesPerBlock \div 2 \in Nat /\ 0 < PagesPerBlock \div 2
         /\ PagesPerBlock \div 2 < PagesPerBlock
  <1>1. PagesPerBlock \in Nat /\ PagesPerBlock >= 2
    BY PoolAssumption
  <1>2. /\ PagesPerBlock \div 2 \in Nat /\ 0 < PagesPerBlock \div 2
        /\ PagesPerBlock \div 2 < PagesPerBlock
    BY <1>1
  <1> QED BY <1>2, Sizes DEF SoundInv, DriftInv, RoleInv, TypeInv

\* The first mount.
LEMMA SoundInit == PoolInit => SoundInv
  <1> SUFFICES ASSUME PoolInit PROVE SoundInv
    OBVIOUS
  <1>1. Waiting = {}
    BY DEF PoolInit, Waiting
  <1>2. Shown
    BY <1>1 DEF PoolInit, Shown
  <1>3. 0 < PagesPerBlock \div 2
    BY PoolAssumption
  <1>4. Logged
    BY <1>3 DEF PoolInit, Logged
  <1> QED BY <1>2, <1>4, DriftInit DEF SoundInv, PoolInit


\* What the scans of NFTL_mount find between two calls: the GarbageTab block, the
\* garbage, and the users' programmed blocks as those that are not garbage.
LEMMA MountReads ==
  ASSUME SoundInv, gcpc = "idle"
  PROVE  /\ FoundGt = gt_pbas /\ FoundGarbage = gar_pbas /\ Waiting = Elems(gar_pbas)
         /\ {b \in Block : media[b] = "used"} \ Elems(FoundGarbage) = {b \in held : media[b] = "used"}
  <1>0. /\ TypeOK /\ OneRole /\ Shown /\ Logged /\ NoBlock \notin Block
    BY SoundParts
  <1>1. FoundGt = gt_pbas
    <2>1. CASE gt_pbas = NoBlock
      <3>1. GtCandidates = {}
        BY <1>0, <2>1 DEF GtCandidates, Shown
      <3> QED BY <2>1, <3>1 DEF FoundGt
    <2>2. CASE gt_pbas # NoBlock
      <3>1. gt_pbas \in Block /\ GtCandidates = {gt_pbas}
        BY <1>0, <2>2 DEF GtCandidates, Shown, TypeOK
      <3>2. \A b \in GtCandidates : (\A c \in GtCandidates : c <= b) => b = gt_pbas
        BY <3>1
      <3>3. gt_pbas <= gt_pbas
        BY <3>1, Sizes DEF Block
      <3> QED BY <3>1, <3>2, <3>3 DEF FoundGt
    <2> QED BY <2>1, <2>2
  <1>2. FoundGarbage = gar_pbas
    BY <1>0, <1>1 DEF FoundGarbage, Logged
  <1>3. Waiting = Elems(gar_pbas)
    BY WaitingAll DEF Waiting, Elems
  <1>4. {b \in Block : media[b] = "used"} \ Waiting = {b \in held : media[b] = "used"}
    BY <1>0 DEF Shown, OneRole, TypeOK
  <1> QED BY <1>1, <1>2, <1>3, <1>4

\* NFTL_mount finds the GarbageTab block, the garbage, the users' programmed blocks
\* and the free blocks, which blocks handed out and never programmed join.
LEMMA MountFinds ==
  ASSUME SoundInv, gcpc = "idle", NEW lf \in Block, PoolMount(lf)
  PROVE  /\ gar_pbas' = gar_pbas /\ gt_pbas' = gt_pbas /\ gt_pgcnt' = gt_pgcnt
         /\ Waiting' = Waiting
         /\ held' = {b \in held : media[b] = "used"}
         /\ blockstatus' = [b \in Block |-> media[b] = "blank"]
         /\ FreeBlocks' = FreeBlocks \cup {b \in held : media[b] = "blank"}
  <1>0. /\ TypeOK /\ Shown /\ Logged
        /\ FoundGt = gt_pbas /\ FoundGarbage = gar_pbas /\ Waiting = Elems(gar_pbas)
    BY SoundParts, MountReads
  <1>1. gar_pbas' = gar_pbas /\ gt_pbas' = gt_pbas /\ gt_pgcnt' = gt_pgcnt /\ gcpc' = "idle"
    BY <1>0 DEF PoolMount, Logged
  <1>2. Waiting' = Waiting
    BY <1>0, <1>1, WaitingAll DEF Waiting, Elems
  <1>3. held' = {b \in held : media[b] = "used"}
    BY MountReads DEF PoolMount
  <1>4. blockstatus' = [b \in Block |-> media[b] = "blank"]
    BY DEF PoolMount
  <1>5. FreeBlocks' = FreeBlocks \cup {b \in held : media[b] = "blank"}
    BY <1>0, <1>4 DEF FreeBlocks, Shown, TypeOK
  <1> QED BY <1>1, <1>2, <1>3, <1>4, <1>5

\* The count that NFTL_mount makes is exact.
LEMMA MountCounts ==
  ASSUME SoundInv, NEW lf \in Block, PoolMount(lf)
  PROVE  FreeCountDrift'
  <1> DEFINE f == Cardinality({b \in Block : media[b] = "blank"})
  <1>1. f \in 0..(UINT16 - 1) /\ free_blkcnt' = f /\ marked' = {}
    BY CountOf DEF PoolMount
  <1>2. FreeBlocks' = {b \in Block : media[b] = "blank"}
    BY DEF FreeBlocks, PoolMount
  <1>3. Cardinality(FreeBlocks') = f /\ Cardinality(marked') = 0
    BY <1>1, <1>2, FS_EmptySet
  <1> HIDE DEF f
  <1>4. f + 0 = 0 * UINT16 + f /\ 0 \in Int /\ f + 0 \in Int
    BY <1>1, Sizes
  <1>5. (f + 0) % UINT16 = f
    BY <1>1, <1>4, Sizes, ModIs
  <1> QED BY <1>1, <1>3, <1>5 DEF FreeCountDrift

\* A mount between calls keeps the invariant.
LEMMA SoundMount ==
  ASSUME SoundInv, gcpc = "idle", NEW lf \in Block, PoolMount(lf)
  PROVE  SoundInv'
  <1>0. /\ TypeOK /\ TypeInv /\ OneRole /\ GarbageOnce /\ Shown /\ Logged
        /\ NoBlock \notin Block
    BY SoundParts DEF RoleInv
  <1>1. /\ gar_pbas' = gar_pbas /\ gt_pbas' = gt_pbas /\ gt_pgcnt' = gt_pgcnt
        /\ Waiting' = Waiting
        /\ held' = {b \in held : media[b] = "used"}
        /\ blockstatus' = [b \in Block |-> media[b] = "blank"]
    BY MountFinds
  <1>2. media' = media /\ gtlog' = gtlog /\ marked' = {} /\ gcpc' = "idle"
    BY DEF PoolMount
  <1>3. TypeInv'
    <2>1. [AnyStep]_poolVars
      BY DEF AnyStep, PowerCut
    <2> QED BY <1>0, <2>1, TypeStep
  <1>4. OneRole' /\ GarbageOnce'
    <2>1. Waiting \subseteq Block
      BY <1>0 DEF Waiting, TypeOK
    <2>2. \A b \in Block : blockstatus'[b] <=> media[b] = "blank"
      BY <1>1
    <2>3. OneRole'
      BY <1>0, <1>1, <1>2, <2>1, <2>2 DEF OneRole, Shown, TypeOK
    <2> QED BY <1>0, <1>1, <2>3 DEF GarbageOnce
  <1>5. Shown'
    BY <1>0, <1>1, <1>2 DEF Shown, OneRole, TypeOK
  <1>6. Logged'
    BY <1>0, <1>1, <1>2 DEF Logged
  <1>7. FreeCountDrift' /\ MarkedBad'
    BY <1>2, MountCounts DEF MarkedBad
  <1> QED BY <1>2, <1>3, <1>4, <1>5, <1>6, <1>7 DEF SoundInv, DriftInv, RoleInv

\* What nftl_addto_gt leaves when it returns without a reclaim.
LEMMA NoReclaim ==
  ASSUME SoundInv, NEW g \in Retirable, EnterGarbage(g), AfterGtPage, gcpc' = "idle"
  PROVE  gt_pgcnt' < PagesPerBlock \div 2 /\ ~(free_blkcnt' <= MINI_FREE_BLOCK)
  <1>1. g \in Seq(Block) /\ Len(g) > 0 /\ gar_pbas \in Seq(Block)
    BY SoundParts, RetirableList DEF TypeOK
  <1>2. gar_pbas' = gar_pbas \o g /\ Len(gar_pbas') > 0
    BY <1>1 DEF EnterGarbage
  <1>3. ~MustReclaim(gt_pgcnt', gar_pbas', free_blkcnt')
    BY DEF AfterGtPage
  <1>4. gt_pgcnt' \in Nat /\ PagesPerBlock \div 2 \in Nat
    BY SoundParts DEF AfterGtPage, TypeOK
  <1> QED BY <1>2, <1>3, <1>4 DEF MustReclaim

\* So does every other step of a sound device.
LEMMA SoundStep == SoundInv /\ [GoodStep]_poolVars => SoundInv'
  <1> SUFFICES ASSUME SoundInv, [GoodStep]_poolVars
               PROVE  marked' = {} /\ gcpc' # "gterr" /\ Shown' /\ Logged'
    BY DriftStep DEF SoundInv
  <1>0. /\ RoleInv /\ TypeOK /\ OneRole /\ Shown /\ Logged /\ marked = {} /\ gcpc # "gterr"
        /\ FreeCountDrift /\ NoBlock \notin Block
        /\ PagesPerBlock \div 2 \in Nat /\ 0 < PagesPerBlock \div 2
    BY SoundParts
  <1>same. ASSUME UNCHANGED <<gar_pbas, gcpc, gcidx>> PROVE Waiting' = Waiting
    BY <1>same DEF Waiting
  <1>1. ASSUME NEW b \in Block, Alloc(b)
        PROVE  marked' = {} /\ gcpc' # "gterr" /\ Shown' /\ Logged'
    <2>1. blockstatus[b] /\ Waiting' = Waiting
      BY <1>same, <1>1, FreeFact DEF Alloc, gcVars
    <2>2. Shown'
      BY <1>0, <1>1, <2>1 DEF Alloc, SetBlockNoFree, Shown, OneRole, TypeOK
    <2> QED BY <1>0, <1>1, <2>2 DEF Alloc, gcVars, Logged
  <1>2. ASSUME NEW b \in Block, FirstProgram(b)
        PROVE  marked' = {} /\ gcpc' # "gterr" /\ Shown' /\ Logged'
    <2>1. Waiting' = Waiting
      BY <1>same, <1>2 DEF FirstProgram, ramVars, gcVars
    <2>2. Shown'
      BY <1>0, <1>2, <2>1 DEF FirstProgram, ramVars, Shown, OneRole, TypeOK
    <2> QED BY <1>0, <1>2, <2>2 DEF FirstProgram, ramVars, gcVars, Logged
  <1>3. ASSUME NEW g \in Retirable, AddToGt(g)
        PROVE  marked' = {} /\ gcpc' # "gterr" /\ Shown' /\ Logged'
    <2>1. EnterGarbage(g) /\ AfterGtPage /\ gcpc = "idle" /\ (gcpc' = "reclaim" => gcidx' = 1)
      BY <1>3 DEF AddToGt, AfterGtPage, EnterGarbage
    <2>2. /\ Waiting' = Waiting \cup Elems(g) /\ Elems(g) \subseteq held
          /\ held' = held \ Elems(g)
      BY <1>0, <2>1, WaitingEntered
    <2>3. Elems(g) \subseteq {b \in held : media[b] = "used"}
      BY <1>0, RetirableList DEF TypeOK
    <2>4. Shown'
      BY <1>0, <1>3, <2>2, <2>3 DEF AddToGt, Shown, TypeOK
    <2>5. gtlog'[gt_pbas] = [pages |-> gt_pgcnt + 1, list |-> gar_pbas \o g]
      <3>1. gt_pbas \in Block /\ gtlog[gt_pbas] = [pages |-> gt_pgcnt, list |-> gar_pbas]
        BY <1>0, <1>3, <2>1 DEF AddToGt, Logged, TypeOK
      <3>2. gtlog'[gt_pbas] = WithPage(gtlog[gt_pbas], g)
        BY <1>0, <1>3, <3>1 DEF AddToGt, TypeOK
      <3> QED BY <3>1, <3>2 DEF WithPage
    <2>6. gt_pbas' = gt_pbas /\ gt_pbas # NoBlock /\ gar_pbas' = gar_pbas \o g
          /\ gt_pgcnt' = gt_pgcnt + 1
      BY <1>3 DEF AddToGt, EnterGarbage, AfterGtPage
    <2>7. Logged'
      BY <2>1, <2>5, <2>6, NoReclaim DEF Logged
    <2> QED BY <1>0, <1>3, <2>1, <2>4, <2>7 DEF AddToGt, AfterGtPage
  <1>4. ASSUME NEW g \in Retirable, NEW b \in Block, AddToNewGt(g, b)
        PROVE  marked' = {} /\ gcpc' # "gterr" /\ Shown' /\ Logged'
    <2>1. EnterGarbage(g) /\ AfterGtPage /\ gcpc = "idle" /\ (gcpc' = "reclaim" => gcidx' = 1)
      BY <1>4 DEF AddToNewGt, AfterGtPage, EnterGarbage
    <2>2. /\ Waiting' = Waiting \cup Elems(g) /\ Elems(g) \subseteq held
          /\ held' = held \ Elems(g)
      BY <1>0, <2>1, WaitingEntered
    <2>3. Elems(g) \subseteq {c \in held : media[c] = "used"}
      BY <1>0, RetirableList DEF TypeOK
    <2>4. gt_pgcnt = 0 /\ gar_pbas = <<>> /\ blockstatus[b]
      BY <1>0, <1>4, <2>1, FreeFact DEF AddToNewGt, Logged
    <2>5. Shown'
      BY <1>0, <1>4, <2>2, <2>3, <2>4 DEF AddToNewGt, SetBlockNoFree, Shown, OneRole, TypeOK
    <2>6. gtlog'[b] = [pages |-> 1, list |-> gar_pbas \o g]
      BY <1>0, <1>4, <2>4 DEF AddToNewGt, WithPage, NoPages, TypeOK
    <2>7. gt_pbas' = b /\ gar_pbas' = gar_pbas \o g /\ gt_pgcnt' = 1 /\ b # NoBlock
      BY <1>0, <1>4, <2>4 DEF AddToNewGt, EnterGarbage, AfterGtPage
    <2>8. Logged'
      BY <2>1, <2>6, <2>7, NoReclaim DEF Logged
    <2> QED BY <1>0, <1>4, <2>1, <2>5, <2>8 DEF AddToNewGt, AfterGtPage
  <1>5. ASSUME NEW g \in Retirable, AddToNoGt(g)
        PROVE  marked' = {} /\ gcpc' # "gterr" /\ Shown' /\ Logged'
    <2>1. EnterGarbage(g) /\ AfterGtPage /\ gcpc = "idle" /\ (gcpc' = "reclaim" => gcidx' = 1)
      BY <1>5 DEF AddToNoGt, AfterGtPage, EnterGarbage
    <2>2. /\ Waiting' = Waiting \cup Elems(g) /\ Elems(g) \subseteq held
          /\ held' = held \ Elems(g)
      BY <1>0, <2>1, WaitingEntered
    <2>3. Elems(g) \subseteq {c \in held : media[c] = "used"}
      BY <1>0, RetirableList DEF TypeOK
    <2>4. Shown'
      BY <1>0, <1>5, <2>2, <2>3 DEF AddToNoGt, Shown, TypeOK
    <2>5. free_blkcnt' = 0 /\ 0 <= MINI_FREE_BLOCK
      BY <1>0, <1>5, NoFreeIsZero, PoolAssumption DEF AddToNoGt
    <2>6. gcpc' # "idle"
      BY <2>1, <2>5, NoReclaim
    <2> QED BY <1>0, <1>5, <2>1, <2>4, <2>6 DEF AddToNoGt, AfterGtPage, Logged
  <1>6. CASE EraseGarbage
    <2>1. /\ gar_pbas[gcidx] \in Waiting /\ gar_pbas[gcidx] \in Block
          /\ Waiting' \subseteq Waiting \ {gar_pbas[gcidx]}
      BY <1>0, <1>6, WaitingErased DEF EraseGarbage
    <2>2. Waiting \subseteq Waiting' \cup {gar_pbas[gcidx]}
      <3>1. gar_pbas \in Seq(Block) /\ gcidx \in Nat \ {0} /\ Len(gar_pbas) \in Nat
        BY <1>0 DEF TypeOK
      <3>2. \A j \in 1..Len(gar_pbas) : j >= gcidx => j >= gcidx + 1 \/ j = gcidx
        BY <3>1
      <3> QED BY <1>6, <3>1, <3>2 DEF EraseGarbage, Waiting
    <2> DEFINE e == gar_pbas[gcidx]
    <2>3. /\ media' = [media EXCEPT ![e] = "blank"] /\ held' = held /\ gt_pbas' = gt_pbas
          /\ blockstatus' = [blockstatus EXCEPT ![e] = TRUE]
      BY <1>6 DEF EraseGarbage, SetBlockFree
    <2>4. e \in Block /\ e \notin held /\ e # gt_pbas /\ Waiting' = Waiting \ {e}
      BY <1>0, <2>1, <2>2 DEF OneRole
    <2> HIDE DEF e
    <2>5. Shown'
      BY <1>0, <2>3, <2>4 DEF Shown, TypeOK
    <2> QED BY <1>0, <1>6, <2>5 DEF EraseGarbage, Logged
  <1>7. CASE EraseGt
    <2>1. Waiting = {} /\ Waiting' = {}
      BY <1>0, <1>7, WaitingDone DEF EraseGt
    <2>2. Shown'
      BY <1>0, <1>7, <2>1 DEF EraseGt, ReclaimDone, SetBlockFree, Shown, OneRole, TypeOK
    <2>3. Logged'
      BY <1>0, <1>7 DEF EraseGt, ReclaimDone, Logged
    <2> QED BY <1>0, <1>7, <2>2, <2>3 DEF EraseGt, ReclaimDone
  <1>8. CASE EraseNoGt
    <2>1. Waiting = {} /\ Waiting' = {}
      BY <1>0, <1>8, WaitingDone DEF EraseNoGt
    <2>2. Shown'
      BY <1>0, <1>8, <2>1 DEF EraseNoGt, ReclaimDone, Shown, TypeOK
    <2>3. Logged'
      BY <1>0, <1>8 DEF EraseNoGt, ReclaimDone, Logged
    <2> QED BY <1>0, <1>8, <2>2, <2>3 DEF EraseNoGt, ReclaimDone
  <1>9. CASE UNCHANGED poolVars
    BY <1>0, <1>same, <1>9 DEF poolVars, ramVars, gcVars, Shown, Logged
  <1> QED BY <1>1, <1>2, <1>3, <1>4, <1>5, <1>6, <1>7, <1>8, <1>9 DEF GoodStep

\* Every step of a sound device that is restarted between calls.
LEMMA SoundRestartStep == SoundInv /\ [GoodStep \/ Restart]_poolVars => SoundInv'
  <1> SUFFICES ASSUME SoundInv, [GoodStep \/ Restart]_poolVars PROVE SoundInv'
    OBVIOUS
  <1>1. CASE Restart
    BY <1>1, SoundMount DEF Restart, PowerCut
  <1>2. CASE [GoodStep]_poolVars
    BY <1>2, SoundStep
  <1> QED BY <1>1, <1>2

\* The inductive invariant holds.
LEMMA SoundInvariant == RestartSpec => []SoundInv
  BY SoundInit, SoundRestartStep, PTL DEF RestartSpec

-----------------------------------------------------------------------------

\* Across restarts of a sound device a block keeps one role: NFTL_mount makes no
\* block free that a table names, and takes none for garbage that is in use.
THEOREM MountOneRole == RestartSpec => []OneRole
  <1>1. SoundInv => OneRole
    BY SoundParts
  <1> QED BY <1>1, SoundInvariant, PTL

\* The GarbageTab never overflows: nftl_addto_gt reclaims when the block is half
\* full, also when it was found so by a mount, and so gt_pgcnt / nr_pgsinblk stays
\* within the array of one entry and each page is programmed once.
THEOREM MountGtRoom == RestartSpec => []GtRoom
  <1>1. SoundInv => GtRoom
    <2> SUFFICES ASSUME SoundInv, gcpc = "idle"
                 PROVE  /\ gt_pgcnt < PagesPerBlock
                        /\ gt_pbas # NoBlock => gtlog[gt_pbas].pages <= gt_pgcnt
      BY DEF GtRoom
    <2>1. /\ Logged /\ gt_pgcnt \in Nat
          /\ PagesPerBlock \div 2 \in Nat /\ PagesPerBlock \div 2 < PagesPerBlock
          /\ PagesPerBlock \in Nat
      BY SoundParts, PoolAssumption DEF TypeOK
    <2> QED BY <2>1 DEF Logged
  <1> QED BY <1>1, SoundInvariant, PTL

\* Across restarts nftl_reclaim_garbages, which erases what the mount has loaded,
\* hits no block that holds a user's table or data.
THEOREM MountEraseSpares == RestartSpec => EraseSpares
  <1>1. SoundInv /\ [GoodStep \/ Restart]_poolVars =>
          [\A b \in held : media[b] = "used" => media'[b] # "blank"]_poolVars
    <2> SUFFICES ASSUME SoundInv, GoodStep \/ Restart, NEW b \in held, media[b] = "used"
                 PROVE  media'[b] # "blank"
      OBVIOUS
    <2>1. CASE Restart
      BY <2>1 DEF Restart, PowerCut, PoolMount
    <2>2. CASE GoodStep
      BY <2>2, SoundParts, StepSpares
    <2> QED BY <2>1, <2>2
  <1> QED BY <1>1, SoundInvariant, PTL DEF RestartSpec, EraseSpares

\* A mount between calls rebuilds what RAM knew: the garbage list, the GarbageTab
\* and its next page, the users' blocks and the free blocks.
THEOREM MountRestores == RestartSpec => MountRebuilds
  <1>1. SoundInv /\ [GoodStep \/ Restart]_poolVars =>
          [Restart => /\ gar_pbas' = gar_pbas
                      /\ gt_pbas' = gt_pbas /\ gt_pgcnt' = gt_pgcnt
                      /\ held' = {b \in held : media[b] = "used"}
                      /\ FreeBlocks' = FreeBlocks \cup {b \in held : media[b] = "blank"}
          ]_poolVars
    BY MountFinds DEF Restart, PowerCut
  <1> QED BY <1>1, SoundInvariant, PTL DEF RestartSpec, MountRebuilds

===============================================================================
