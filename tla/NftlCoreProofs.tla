----------------------------- MODULE NftlCoreProofs -----------------------------
(***************************************************************************)
(* Proofs about the block device of module NftlCore, for pages, blocks,    *)
(* sectors and devices of any size: types, what the write cache keeps and  *)
(* what a read returns.                                                    *)
(***************************************************************************)
EXTENDS NftlCore, TLAPS

-----------------------------------------------------------------------------
(***************************************************************************)
(* Arithmetic of pages, sectors and keys                                   *)
(***************************************************************************)

\* A sector's pages lie within the exported device.
LEMMA SectBound ==
  ASSUME NEW s \in Sect
  PROVE  /\ s * SectPages \in Nat
         /\ s * SectPages + SectPages <= NSect * SectPages
  <1>1. s \in Nat /\ NSect \in Nat /\ SectPages \in Nat /\ NSect - (s + 1) \in Nat
    BY CoreAssumption DEF Sect
  <1>2. (NSect - (s + 1)) * SectPages \in Nat
    BY <1>1
  <1>3. (NSect - (s + 1)) * SectPages = NSect * SectPages - (s * SectPages + SectPages)
    BY <1>1
  <1> QED BY <1>1, <1>2, <1>3

\* Quotient and remainder.
LEMMA DivMod ==
  ASSUME NEW p \in Nat, NEW m \in Nat \ {0}
  PROVE  /\ p % m \in 0..(m - 1)
         /\ p \div m \in Nat
         /\ p = (p \div m) * m + (p % m)
  BY Z3

\* A logical page lies in a logical block of the device.
LEMMA BlockOf ==
  ASSUME NEW p \in Lpa
  PROVE  p \div PagesPerBlock \in 0..(NLpa \div PagesPerBlock - 1)
  <1> DEFINE P == PagesPerBlock
             k == NLpa \div P
             b == p \div P
  <1>1. P \in Nat \ {0} /\ NLpa \in Nat /\ NLpa % P = 0 /\ p \in Nat /\ p < NLpa
    BY CoreAssumption DEF Lpa
  <1>2. k \in Nat /\ NLpa = k * P
    <2>1. /\ k \in Nat
          /\ NLpa = k * P + (NLpa % P)
      BY <1>1, DivMod
    <2>2. k * P \in Nat
      BY <1>1, <2>1
    <2> HIDE DEF k
    <2> QED BY <1>1, <2>1, <2>2
  <1>2a. b \in Nat /\ b * P <= p
    <2>1. /\ b \in Nat
          /\ p % P \in 0..(P-1)
          /\ p = b * P + (p % P)
      BY <1>1, DivMod
    <2>2. b * P \in Nat
      BY <1>1, <2>1
    <2> HIDE DEF b
    <2> QED BY <1>1, <2>1, <2>2
  <1> HIDE DEF k, b
  <1>3. SUFFICES ASSUME b >= k PROVE FALSE
    BY <1>2, <1>2a DEF k, b
  <1>4. (b - k) * P \in Nat
    BY <1>1, <1>2, <1>2a, <1>3
  <1>5. (b - k) * P = b * P - k * P
    BY <1>1, <1>2, <1>2a
  <1> QED BY <1>1, <1>2, <1>2a, <1>4, <1>5

\* The two halves of a key are in range and name the page.
LEMMA KeyOf ==
  ASSUME NEW p \in Lpa
  PROVE  /\ p % PagesPerBlock \in 0..(PagesPerBlock - 1)
         /\ p \div PagesPerBlock \in 0..(NLpa \div PagesPerBlock - 1)
         /\ (p \div PagesPerBlock) * PagesPerBlock + (p % PagesPerBlock) = p
         /\ p % PagesPerBlock # None /\ p \div PagesPerBlock # None
  <1>1. p \in Nat /\ PagesPerBlock \in Nat \ {0}
    BY CoreAssumption DEF Lpa
  <1>2. /\ p % PagesPerBlock \in 0..(PagesPerBlock - 1)
        /\ (p \div PagesPerBlock) * PagesPerBlock + (p % PagesPerBlock) = p
        /\ p \div PagesPerBlock \in Nat
    BY <1>1, DivMod
  <1>3. p % PagesPerBlock # None /\ p \div PagesPerBlock # None
    <2> DEFINE q == p % PagesPerBlock
               r == p \div PagesPerBlock
    <2>1. q \in Nat /\ r \in Nat
      BY <1>1, <1>2
    <2> HIDE DEF q, r
    <2>2. q # None /\ r # None
      BY <2>1 DEF None
    <2> QED BY <2>2 DEF q, r
  <1> QED BY <1>2, <1>3, BlockOf

-----------------------------------------------------------------------------
(***************************************************************************)
(* Types                                                                   *)
(***************************************************************************)

\* A request in progress: n pages from p on are left of the SectPages pages that
\* begin at "first", and the page after them is a logical page too.
RequestOK ==
  /\ req.pc = "idle" => req = Idle
  /\ req.pc # "idle" => /\ req.first <= req.p
                        /\ req.p + req.n = req.first + SectPages
                        /\ req.first + SectPages < NLpa
  /\ req.pc = "read" => req.n >= 1

TypeInv == TypeOK /\ RequestOK

\* An idle thread's request has its type.
LEMMA IdleType ==
  /\ Idle \in [pc : {"idle", "old", "pages", "read"}, first : Lpa, p : Lpa,
               n : 0..SectPages, d : Content]
  /\ Idle.pc = "idle" /\ 0 \in Lpa /\ SectPages \in Nat /\ NLpa \in Nat
  <1>1. NSect * SectPages \in Nat
    BY CoreAssumption
  <1>2. 0 \in Lpa
    BY <1>1, CoreAssumption DEF Lpa
  <1> QED BY <1>2, CoreAssumption DEF Idle, Content

\* The state after loading the module has its type.
LEMMA TypeInit == Init => TypeInv
  BY IdleType, CoreAssumption DEF Init, TypeInv, TypeOK, RequestOK, Content, Idle

\* The pages a request starts with.
LEMMA StartOK ==
  ASSUME NEW s \in Sect
  PROVE  /\ s * SectPages \in Lpa
         /\ s * SectPages + SectPages < NLpa
         /\ SectPages # 1 => s * SectPages + 1 \in Lpa /\ SectPages - 1 \in 0..SectPages
         /\ SectPages \in 1..SectPages
  <1>1. NSect * SectPages \in Nat /\ s * SectPages \in Nat /\ SectPages \in Nat \ {0}
    BY CoreAssumption, SectBound
  <1>2. s * SectPages + SectPages < NLpa
    BY <1>1, CoreAssumption, SectBound
  <1> QED BY <1>1, <1>2, CoreAssumption DEF Lpa

Requests == [pc : {"idle", "old", "pages", "read"}, first : Lpa, p : Lpa,
             n : 0..SectPages, d : Content]

\* Each action of the thread, the flusher and the failing flash keeps the types.
LEMMA TypeStep == TypeInv /\ [RacingNext \/ FaultStep]_vars => TypeInv'
  <1> SUFFICES ASSUME TypeInv, [RacingNext \/ FaultStep]_vars
               PROVE  TypeInv'
    OBVIOUS
  <1> USE IdleType DEF TypeInv, TypeOK, RequestOK
  <1>0. req \in Requests /\ req.p \in Lpa /\ req.n \in 0..SectPages /\ req.first \in Lpa
    BY DEF Requests
  <1>1. ASSUME NEW s \in Sect, NEW d \in Data, WriteHit(s, d)
        PROVE  TypeInv'
    <2>1. CASE SectPages = 1
      BY <1>1, <2>1 DEF WriteHit, Content
    <2>2. CASE SectPages # 1
      <3> DEFINE p == s * SectPages
      <3>1. /\ p \in Lpa /\ p + 1 \in Lpa /\ SectPages - 1 \in 0..SectPages /\ d \in Content
            /\ p + SectPages < NLpa
        BY <2>2, StartOK DEF Content
      <3>2. req' = [pc |-> "old", first |-> p, p |-> p + 1, n |-> SectPages - 1, d |-> d]
        BY <1>1, <2>2 DEF WriteHit
      <3> HIDE DEF p
      <3>3. req' \in Requests
        BY <3>1, <3>2 DEF Requests
      <3>4. RequestOK'
        BY <3>1, <3>2 DEF Lpa
      <3> QED BY <1>1, <2>2, <3>1, <3>3, <3>4 DEF WriteHit, Requests
    <2> QED BY <2>1, <2>2
  <1>2. ASSUME NEW s \in Sect, NEW d \in Data, WriteMiss(s, d)
        PROVE  TypeInv'
    <2> DEFINE p == s * SectPages
    <2>1. p \in Lpa /\ SectPages \in 0..SectPages /\ d \in Content /\ p + SectPages < NLpa
      BY StartOK DEF Content
    <2>2. req' = [pc |-> "old", first |-> p, p |-> p, n |-> SectPages, d |-> d]
      BY <1>2 DEF WriteMiss
    <2> HIDE DEF p
    <2>3. req' \in Requests
      BY <2>1, <2>2 DEF Requests
    <2>4. RequestOK'
      BY <2>1, <2>2 DEF Lpa
    <2> QED BY <1>2, <2>3, <2>4 DEF WriteMiss, Requests
  <1>3. CASE WriteOld
    BY <1>3 DEF WriteOld, WriteBack
  <1>4. CASE WritePage
    <2>1. req.p + 1 \in Lpa /\ req.n - 1 \in 0..SectPages
      BY <1>4, <1>0 DEF WritePage, Lpa
    <2>2. req' = [req EXCEPT !.p = req.p + 1, !.n = req.n - 1]
      BY <1>4 DEF WritePage
    <2>3. req' \in Requests
      BY <1>0, <2>1, <2>2 DEF Requests
    <2>4. /\ req'.pc = "pages" /\ req'.first = req.first
          /\ req'.p = req.p + 1 /\ req'.n = req.n - 1
      BY <1>0, <1>4, <2>2 DEF Requests, WritePage
    <2>5. RequestOK'
      BY <1>0, <1>4, <2>4 DEF Lpa, WritePage
    <2>6. l_writepage' \in 0..(PagesPerBlock - 1) \cup {None}
      BY <1>0, <1>4, KeyOf DEF WritePage
    <2>7. l_writeblock' \in 0..(NLpa \div PagesPerBlock - 1) \cup {None}
      BY <1>0, <1>4, KeyOf DEF WritePage
    <2>8. store' \in [Lpa -> Content] /\ write_buffer' \in Content
      BY <1>4 DEF WritePage
    <2> QED BY <1>4, <2>3, <2>5, <2>6, <2>7, <2>8 DEF WritePage, Requests
  <1>5. CASE CacheNext
    <2>1. l_writepage' \in 0..(PagesPerBlock - 1) \cup {None}
      BY <1>0, <1>5, KeyOf DEF CacheNext, SetKey
    <2>2. l_writeblock' \in 0..(NLpa \div PagesPerBlock - 1) \cup {None}
      BY <1>0, <1>5, KeyOf DEF CacheNext, SetKey
    <2> QED BY <1>5, <2>1, <2>2 DEF CacheNext, Done
  <1>6. ASSUME NEW s \in Sect, ReadStart(s)
        PROVE  TypeInv'
    <2> DEFINE p == s * SectPages
    <2>1. p \in Lpa /\ SectPages \in 1..SectPages /\ p + SectPages < NLpa
      BY StartOK
    <2>2. req' = [pc |-> "read", first |-> p, p |-> p, n |-> SectPages, d |-> Fresh]
      BY <1>6 DEF ReadStart, Idle
    <2> HIDE DEF p
    <2>3. req' \in Requests
      BY <2>1, <2>2 DEF Requests, Content
    <2>4. RequestOK'
      BY <2>1, <2>2 DEF Lpa
    <2> QED BY <1>6, <2>3, <2>4 DEF ReadStart, Requests
  <1>7. CASE ReadPage
    <2>1. CASE req.n = 1
      BY <1>7, <1>0, <2>1 DEF ReadPage
    <2>2. CASE req.n # 1
      <3>0. req.pc = "read" /\ req.n \in Nat /\ req.n >= 1 /\ req.n <= SectPages
        BY <1>7, <1>0 DEF ReadPage
      <3>1. /\ req.p + 1 \in Lpa
            /\ req.n - 1 \in 0..SectPages /\ req.n - 1 >= 1
        BY <3>0, <1>0, <2>2 DEF Lpa
      <3>2. req' = [req EXCEPT !.p = req.p + 1, !.n = req.n - 1]
        BY <1>7, <2>2 DEF ReadPage
      <3>3. req' \in Requests
        BY <1>0, <3>1, <3>2 DEF Requests
      <3>4. /\ req'.pc = "read" /\ req'.first = req.first
            /\ req'.p = req.p + 1 /\ req'.n = req.n - 1
        BY <1>0, <1>7, <3>2 DEF Requests, ReadPage
      <3>5. RequestOK'
        <4>1. /\ req.first <= req.p + 1
              /\ (req.p + 1) + (req.n - 1) = req.first + SectPages
              /\ req.first + SectPages < NLpa
          BY <1>0, <3>0 DEF Lpa
        <4> QED BY <3>1, <3>4, <4>1
      <3>6. read_buffer' \in Content /\ l_read' \in Lpa
        BY <1>7, <1>0 DEF ReadPage
      <3> QED BY <1>7, <3>3, <3>5, <3>6 DEF ReadPage, Requests
    <2> QED BY <2>1, <2>2
  <1>8. CASE FlushWrite
    BY <1>8 DEF FlushWrite, WriteBack
  <1>9. CASE FlushForget
    BY <1>9 DEF FlushForget, DropKey
  <1>10. CASE Reload
    BY <1>10 DEF Reload, WriteBack, DropKey
  <1>11. CASE WriteOldFails
    BY <1>11 DEF WriteOldFails, WriteBack, Fail
  <1>12. CASE WritePageFails
    BY <1>12 DEF WritePageFails, Fail
  <1>13. CASE CacheNextFails
    BY <1>13 DEF CacheNextFails, Fail
  <1>14. CASE ReadPageFails
    BY <1>14 DEF ReadPageFails, Fail
  <1>15. CASE FlushFails
    BY <1>15 DEF FlushFails
  <1>16. CASE UNCHANGED vars
    BY <1>16 DEF vars
  <1> QED
    BY <1>1, <1>2, <1>3, <1>4, <1>5, <1>6, <1>7, <1>8, <1>9, <1>10, <1>11, <1>12,
       <1>13, <1>14, <1>15, <1>16
    DEF RacingNext, ThreadStep, FaultStep

\* Whatever fails and whenever a flush comes, the write cache's key names a
\* block and a page within the device and each request stays within it.
THEOREM CoreTypes == WildSpec => []TypeOK
  <1>1. TypeInv => TypeOK
    BY DEF TypeInv
  <1> QED BY <1>1, TypeInit, TypeStep, PTL DEF WildSpec

-----------------------------------------------------------------------------
(***************************************************************************)
(* Overlay                                                                 *)
(***************************************************************************)

\* Between two requests, and during a read, every page is worth what was last
\* written to it.
AllKept == \A p \in Lpa : Current(p) \in last[p]

\* Before the old cache is written back: the pages of the request that are done
\* are worth its data, the pages outside it what was last written to them.
OldKept == \A p \in Lpa : /\ p \notin InRequest => Current(p) \in last[p]
                          /\ p \in InRequest /\ p < req.p => Current(p) = req.d

\* From then on the flash alone counts, until the write cache is a copy of one
\* of its pages.
PagesKept == \A p \in Lpa : /\ p \notin InRequest => store[p] \in last[p]
                            /\ p \in InRequest /\ p < req.p => store[p] = req.d

\* nftl_flush has written the cached page and is about to forget it.
FlushKept == req = Idle /\ \A p \in Lpa : Hits(p) => store[p] = write_buffer

OverlayInv ==
  /\ flusher = "written" => FlushKept
  /\ req.pc \in {"idle", "read"} => AllKept
  /\ req.pc = "old" => OldKept
  /\ req.pc = "pages" => PagesKept

\* Nothing is lost at the start.
LEMMA OverlayInit == Init => OverlayInv
  BY DEF Init, OverlayInv, AllKept, Current, Hits, KeySet, Idle

\* The key of the write cache is left alone.
LEMMA SameKey ==
  ASSUME UNCHANGED <<l_writeblock, l_writepage>>
  PROVE  KeySet' = KeySet /\ Key' = Key /\ \A p \in Lpa : Hits(p)' = Hits(p)
  BY DEF KeySet, Key, Hits

\* Writing the cached page back changes what no page is worth.
LEMMA WrittenBack ==
  ASSUME TypeOK, WriteBack, NEW p \in Lpa
  PROVE  store'[p] = Current(p)
  BY DEF TypeOK, WriteBack, Current, Hits

\* Each action keeps what the pages are worth, as long as flushes and requests are
\* serialised and no call fails.
LEMMA OverlayStep == TypeInv /\ OverlayInv /\ [SerialNext]_vars => OverlayInv'
  <1> SUFFICES ASSUME TypeInv, OverlayInv, [SerialNext]_vars
               PROVE  OverlayInv'
    OBVIOUS
  <1>0. /\ req \in Requests /\ TypeOK /\ RequestOK /\ req.p \in Lpa
        /\ req.first \in Lpa /\ req.n \in 0..SectPages /\ SectPages \in Nat \ {0}
    BY CoreAssumption DEF TypeInv, TypeOK, Requests
  <1>idle. Idle.pc = "idle"
    BY IdleType
  <1>1. ASSUME NEW s \in Sect, NEW d \in Data, WriteHit(s, d), flusher = "out"
        PROVE  OverlayInv'
    <2> DEFINE p == s * SectPages
    <2>1. p \in Lpa /\ p + SectPages < NLpa
      BY StartOK
    <2>2. AllKept /\ Hits(p)
      BY <1>1, <1>idle DEF WriteHit, OverlayInv
    <2>3. /\ Current(p)' = d
          /\ \A q \in Lpa \ {p} : Current(q)' = Current(q)
      BY <1>1, <2>1, <2>2, SameKey DEF WriteHit, Current, Hits
    <2>4. CASE SectPages = 1
      <3>1. req' = Idle /\ flusher' = "out" /\ last' = [last EXCEPT ![p] = {d}]
        BY <1>1, <2>4 DEF WriteHit
      <3>2. AllKept'
        BY <1>0, <2>1, <2>2, <2>3, <3>1 DEF AllKept, TypeOK
      <3> QED BY <1>idle, <3>1, <3>2 DEF OverlayInv
    <2>5. CASE SectPages # 1
      <3>1. /\ req' = [pc |-> "old", first |-> p, p |-> p + 1, n |-> SectPages - 1, d |-> d]
            /\ flusher' = "out" /\ last' = last
        BY <1>1, <2>5 DEF WriteHit
      <3>2. req'.pc = "old" /\ req'.first = p /\ req'.p = p + 1 /\ req'.d = d
        BY <3>1
      <3> HIDE DEF p
      <3>3. InRequest' = {q \in Lpa : p <= q /\ q < p + SectPages}
        BY <3>2 DEF InRequest
      <3>4. p \in InRequest' /\ \A q \in InRequest' : q < p + 1 => q = p
        BY <1>0, <2>1, <3>3 DEF Lpa
      <3>5. OldKept'
        BY <2>1, <2>2, <2>3, <3>1, <3>2, <3>4 DEF OldKept, AllKept
      <3> QED BY <3>1, <3>2, <3>5 DEF OverlayInv
    <2> QED BY <2>4, <2>5
  <1>2. ASSUME NEW s \in Sect, NEW d \in Data, WriteMiss(s, d), flusher = "out"
        PROVE  OverlayInv'
    <2> DEFINE p == s * SectPages
    <2>1. p \in Lpa
      BY StartOK
    <2>2. AllKept
      BY <1>2, <1>idle DEF WriteMiss, OverlayInv
    <2>3. \A q \in Lpa : Current(q)' = Current(q)
      BY <1>2, SameKey DEF WriteMiss, Current
    <2>4. /\ req' = [pc |-> "old", first |-> p, p |-> p, n |-> SectPages, d |-> d]
          /\ flusher' = "out" /\ last' = last
      BY <1>2 DEF WriteMiss
    <2>5. req'.pc = "old" /\ req'.first = p /\ req'.p = p
      BY <2>4
    <2> HIDE DEF p
    <2>6. \A q \in InRequest' : ~(q < p)
      BY <2>1, <2>5 DEF InRequest, Lpa
    <2>7. OldKept'
      BY <2>2, <2>3, <2>4, <2>5, <2>6 DEF OldKept, AllKept
    <2> QED BY <2>4, <2>5, <2>7 DEF OverlayInv
  <1>3. CASE WriteOld /\ flusher = "out"
    <2>1. OldKept
      BY <1>3 DEF WriteOld, OverlayInv
    <2>2. /\ req'.pc = "pages" /\ req'.first = req.first /\ req'.p = req.p /\ req'.d = req.d
          /\ flusher' = "out" /\ last' = last
      BY <1>0, <1>3 DEF WriteOld, Requests
    <2>3. InRequest' = InRequest
      BY <2>2 DEF InRequest
    <2>4. \A p \in Lpa : store'[p] = Current(p)
      BY <1>0, <1>3, WrittenBack DEF WriteOld
    <2>5. PagesKept'
      BY <2>1, <2>2, <2>3, <2>4 DEF PagesKept, OldKept
    <2> QED BY <2>2, <2>5 DEF OverlayInv
  <1>4. CASE WritePage /\ flusher = "out"
    <2>1. PagesKept
      BY <1>4 DEF WritePage, OverlayInv
    <2>2. /\ req'.pc = "pages" /\ req'.first = req.first /\ req'.p = req.p + 1
          /\ req'.d = req.d /\ flusher' = "out" /\ last' = last
      BY <1>0, <1>4 DEF WritePage, Requests
    <2>3. InRequest' = InRequest
      BY <2>2 DEF InRequest
    <2>4. req.p \in InRequest
      BY <1>0, <1>4 DEF WritePage, RequestOK, InRequest, Lpa
    <2>5. /\ store'[req.p] = req.d
          /\ \A p \in Lpa : p # req.p => store'[p] = store[p]
      BY <1>0, <1>4 DEF WritePage, TypeOK
    <2>6. \A p \in Lpa : p < req.p + 1 => p < req.p \/ p = req.p
      BY <1>0 DEF Lpa
    <2>7. PagesKept'
      BY <2>1, <2>2, <2>3, <2>4, <2>5, <2>6 DEF PagesKept
    <2> QED BY <2>2, <2>7 DEF OverlayInv
  <1>5. CASE CacheNext /\ flusher = "out"
    <2>1. PagesKept
      BY <1>5 DEF CacheNext, OverlayInv
    <2>2. req' = Idle /\ flusher' = "out" /\ store' = store
      BY <1>5 DEF CacheNext, Done
    <2>3. KeySet' /\ Key' = req.p
      BY <1>0, <1>5, KeyOf DEF CacheNext, SetKey, KeySet, Key
    <2>4. \A p \in Lpa : Current(p)' = store[p]
      BY <1>5, <2>2, <2>3 DEF CacheNext, Current, Hits
    <2>5. \A p \in InRequest : p < req.p
      BY <1>0, <1>5 DEF CacheNext, RequestOK, InRequest, Lpa
    <2>6. \A p \in Lpa : last'[p] = IF p \in InRequest THEN {req.d} ELSE last[p]
      BY <1>5 DEF CacheNext, Done
    <2>7. AllKept'
      BY <2>1, <2>4, <2>5, <2>6 DEF AllKept, PagesKept
    <2> QED BY <1>idle, <2>2, <2>7 DEF OverlayInv
  <1>6. ASSUME NEW s \in Sect, ReadStart(s), flusher = "out"
        PROVE  OverlayInv'
    <2>1. AllKept
      BY <1>6, <1>idle DEF ReadStart, OverlayInv
    <2>2. req'.pc = "read" /\ flusher' = "out"
      BY <1>6 DEF ReadStart, Idle
    <2>3. AllKept'
      BY <1>6, <2>1, SameKey DEF ReadStart, AllKept, Current
    <2> QED BY <2>2, <2>3 DEF OverlayInv
  <1>7. CASE ReadPage /\ flusher = "out"
    <2>1. AllKept
      BY <1>7 DEF ReadPage, OverlayInv
    <2>2. req'.pc \in {"idle", "read"} /\ flusher' = "out"
      BY <1>0, <1>7, <1>idle DEF ReadPage, Requests
    <2>3. AllKept'
      BY <1>7, <2>1, SameKey DEF ReadPage, AllKept, Current
    <2> QED BY <2>2, <2>3 DEF OverlayInv
  <1>8. CASE FlushWrite /\ req = Idle
    <2>1. AllKept
      BY <1>8, <1>idle DEF OverlayInv
    <2>2. \A p \in Lpa : store'[p] = Current(p)
      BY <1>0, <1>8, WrittenBack DEF FlushWrite
    <2>3. AllKept'
      BY <1>8, <2>1, <2>2, SameKey DEF FlushWrite, AllKept, Current
    <2>4. FlushKept'
      BY <1>8, <2>2, SameKey DEF FlushWrite, FlushKept, Current
    <2> QED BY <1>8, <1>idle, <2>3, <2>4 DEF FlushWrite, OverlayInv
  <1>9. CASE FlushForget /\ req = Idle
    <2>1. AllKept /\ FlushKept
      BY <1>9, <1>idle DEF FlushForget, OverlayInv
    <2>2. \A p \in Lpa : Current(p)' = store[p] /\ Current(p) = store[p]
      BY <1>9, <2>1 DEF FlushForget, DropKey, FlushKept, Current, Hits, KeySet
    <2>3. AllKept'
      BY <1>9, <2>1, <2>2 DEF FlushForget, AllKept
    <2> QED BY <1>9, <1>idle, <2>3 DEF FlushForget, OverlayInv
  <1>10. CASE Reload
    <2>1. AllKept
      BY <1>10, <1>idle DEF Reload, OverlayInv
    <2>2. \A p \in Lpa : Current(p)' = Current(p)
      BY <1>0, <1>10, WrittenBack DEF Reload, DropKey, Current, Hits, KeySet
    <2>3. AllKept'
      BY <1>10, <2>1, <2>2 DEF Reload, AllKept
    <2> QED BY <1>10, <1>idle, <2>3 DEF Reload, OverlayInv
  <1>11. CASE UNCHANGED vars
    BY <1>11 DEF vars, OverlayInv, AllKept, OldKept, PagesKept, FlushKept, Current,
                 Hits, KeySet, Key, InRequest
  <1> QED
    BY <1>1, <1>2, <1>3, <1>4, <1>5, <1>6, <1>7, <1>8, <1>9, <1>10, <1>11
    DEF SerialNext, ThreadStep

\* The inductive invariant holds.
LEMMA SerialInvariant == SerialSpec => [](TypeInv /\ OverlayInv)
  <1>1. Init => TypeInv /\ OverlayInv
    BY TypeInit, OverlayInit
  <1>2. TypeInv /\ OverlayInv /\ [SerialNext]_vars => (TypeInv /\ OverlayInv)'
    <2>1. [SerialNext]_vars => [RacingNext \/ FaultStep]_vars
      BY DEF SerialNext, RacingNext
    <2> QED BY <2>1, TypeStep, OverlayStep
  <1> QED BY <1>1, <1>2, PTL DEF SerialSpec

\* If no flush comes during a request and no call fails, the one-page write cache
\* loses and misplaces nothing, whatever the sizes of pages, blocks and device.
THEOREM CoreOverlay == SerialSpec => []Overlay
  <1>1. TypeInv /\ OverlayInv => Overlay
    BY IdleType DEF OverlayInv, Overlay, AllKept
  <1> QED BY <1>1, SerialInvariant, PTL

\* A read that misses the read cache returns what was last written.
THEOREM CoreReadsThrough == SerialSpec => ReadsThrough
  <1>1. TypeInv /\ OverlayInv =>
          [ReadPage /\ l_read # req.p => read_buffer' \in last[req.p]]_vars
    <2> SUFFICES ASSUME TypeInv, OverlayInv, ReadPage, l_read # req.p
                 PROVE  read_buffer' \in last[req.p]
      OBVIOUS
    <2>1. AllKept /\ req.p \in Lpa
      BY DEF OverlayInv, ReadPage, TypeInv, TypeOK
    <2>2. read_buffer' = Current(req.p)
      BY DEF ReadPage, Current
    <2> QED BY <2>1, <2>2 DEF AllKept
  <1> QED BY <1>1, SerialInvariant, PTL DEF ReadsThrough

===============================================================================
