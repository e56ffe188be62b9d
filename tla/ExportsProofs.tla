---------------------------- MODULE ExportsProofs ----------------------------
(***************************************************************************)
(* Proofs about Exports, for any players, chunk size, ceiling and lives of *)
(* a copy: the table holds whole copies only, one for each player, and the *)
(* ceiling keeps its shares.                                               *)
(***************************************************************************)
EXTENDS Exports, FiniteSetTheorems, TLAPS

Chunk == [owner : Identities, stamp : Int, index : Nat, total : Nat, names : SUBSET Parties]

(* Two chunks are of one copy if they have a stamp in common, and if they   *)
(* have an owner in common.                                                 *)
CopiesInv ==
  /\ \A c, d \in chunks : c.stamp = d.stamp <=> c.owner = d.owner
  /\ \A c, d \in chunks : c.stamp = d.stamp => c.total = d.total
  /\ \A c, d \in chunks : c.stamp = d.stamp /\ c.index = d.index => c = d
  /\ \A c \in chunks : {d.index : d \in {e \in chunks : e.stamp = c.stamp}} = 0 .. c.total - 1

TableInv == chunks \subseteq Chunk /\ IsFiniteSet(chunks) /\ IsFiniteSet(deals)

Inv == TypeOK /\ TableInv /\ CopiesInv /\ SharesHold

-----------------------------------------------------------------------------
(* What a request adds.                                                     *)

LEMMA CountsAreNumbers ==
  ASSUME TypeOK, IsFiniteSet(deals), NEW p \in Identities
  PROVE  \A k \in 1 .. 3 : ChunkCount(p, Exportable[k]) \in Nat
  <1>1. ASSUME NEW n \in Nat, n # 0 PROVE (n + ChunkRows - 1) \div ChunkRows \in Nat
    <2>1. ChunkRows \in Nat /\ ChunkRows > 0
      BY ExportBounds
    <2> QED BY <1>1, <2>1
  <1>2. ASSUME NEW t \in {"own", "offer", "battle"} PROVE ChunkCount(p, t) \in Nat
    <2>1. RowsOf(p, t) \in SUBSET deals
      BY DEF RowsOf
    <2>2. Cardinality(RowsOf(p, t)) \in Nat
      BY <2>1, FS_Subset, FS_CardinalityType
    <2>3. RowCount(p, t) \in Nat
      BY <2>2, ExportBounds DEF RowCount, TypeOK
    <2> QED BY <1>1, <2>3 DEF ChunkCount
  <1> QED BY <1>2 DEF Exportable

LEMMA TotalIsNumber ==
  ASSUME TypeOK, IsFiniteSet(deals), NEW p \in Identities
  PROVE  Upto(p, 3) \in Nat
  BY CountsAreNumbers DEF Upto

LEMMA NamesAreParties ==
  ASSUME TypeOK, NEW p \in Identities, NEW t
  PROVE  Names(p, t) \subseteq Parties
  BY DEF Names, RowsOf, TypeOK, Deal, Parties

(* A plan is one whole copy.                                                *)
LEMMA PlanIsACopy ==
  ASSUME TypeOK, IsFiniteSet(deals), NEW p \in Identities, NEW stamp \in Int
  PROVE  LET plan == PlanExportChunks(p, stamp)
             total == Upto(p, 3)
         IN /\ plan \subseteq Chunk /\ IsFiniteSet(plan) /\ total \in Nat
            /\ \A c \in plan : c.owner = p /\ c.stamp = stamp /\ c.total = total
            /\ \A c, d \in plan : c.index = d.index => c = d
            /\ {c.index : c \in plan} = 0 .. total - 1
  <1> DEFINE total == Upto(p, 3)
             TableOf(i) == Exportable[CHOOSE k \in 1 .. 3 : Upto(p, k - 1) <= i /\ i < Upto(p, k)]
             chunk(i) == [owner |-> p, stamp |-> stamp, index |-> i, total |-> total,
                          names |-> Names(p, TableOf(i))]
             plan == PlanExportChunks(p, stamp)
  <1>1. total \in Nat
    BY TotalIsNumber
  <1>2. plan = {chunk(i) : i \in 0 .. total - 1}
    BY DEF PlanExportChunks
  <1>3. \A i \in 0 .. total - 1 : Names(p, TableOf(i)) \subseteq Parties
    BY NamesAreParties
  <1> HIDE DEF total, TableOf, plan
  <1>4. \A i \in 0 .. total - 1 : chunk(i) \in Chunk
    BY <1>1, <1>3 DEF Chunk
  <1>5. IsFiniteSet(plan)
    <2> DEFINE f == [i \in 0 .. total - 1 |-> chunk(i)]
    <2>1. f \in Surjection(0 .. total - 1, plan)
      BY <1>2 DEF Surjection
    <2>2. IsFiniteSet(0 .. total - 1)
      BY <1>1, FS_Interval
    <2> QED BY <2>1, <2>2, FS_Surjection
  <1>6. {c.index : c \in plan} = 0 .. total - 1
    <2>1. \A i \in 0 .. total - 1 : chunk(i).index = i /\ chunk(i) \in plan
      BY <1>2
    <2>2. \A c \in plan : c.index \in 0 .. total - 1
      BY <1>2
    <2> HIDE DEF chunk
    <2> QED BY <2>1, <2>2
  <1>7. \A c, d \in plan : c.index = d.index => c = d
    BY <1>2
  <1> QED BY <1>1, <1>2, <1>4, <1>5, <1>6, <1>7 DEF total, plan

-----------------------------------------------------------------------------
(* Whole copies stay whole.                                                 *)

LEMMA WholeCopiesGo ==
  ASSUME CopiesInv, chunks' \subseteq chunks,
         \A c \in chunks', d \in chunks : d.stamp = c.stamp => d \in chunks'
  PROVE  CopiesInv'
  <1>1. ASSUME NEW c \in chunks'
        PROVE  {d.index : d \in {e \in chunks' : e.stamp = c.stamp}} = 0 .. c.total - 1
    <2>1. {e \in chunks' : e.stamp = c.stamp} = {e \in chunks : e.stamp = c.stamp}
      OBVIOUS
    <2> QED BY <2>1 DEF CopiesInv
  <1> QED BY <1>1 DEF CopiesInv

LEMMA PurgeIsWhole ==
  ASSUME CopiesInv, NEW p, chunks' = Purged(p)
  PROVE  CopiesInv'
  <1>1. \A c \in chunks', d \in chunks : d.stamp = c.stamp => d \in chunks'
    BY DEF Purged, ChunksOf, CopiesInv
  <1> QED BY <1>1, WholeCopiesGo DEF Purged

(* The request: the caller's old copy goes, and a copy under an unused      *)
(* stamp comes.                                                             *)
LEMMA RequestCopies ==
  ASSUME TypeOK, TableInv, CopiesInv, NEW p \in Identities, RequestDataExport(p)
  PROVE  CopiesInv' /\ TableInv'
  <1>1. PICK stamp \in MintedStamp(Purged(p)) :
          chunks' = Purged(p) \cup PlanExportChunks(p, stamp)
    BY DEF RequestDataExport
  <1> DEFINE live == Purged(p)
             plan == PlanExportChunks(p, stamp)
             total == Upto(p, 3)
  <1>2. stamp \in Int /\ \A c \in live : c.stamp # stamp /\ c.owner # p
    BY ExportBounds DEF MintedStamp, Stamps, Purged, ChunksOf
  <1>3. /\ plan \subseteq Chunk /\ IsFiniteSet(plan) /\ total \in Nat
        /\ \A c \in plan : c.owner = p /\ c.stamp = stamp /\ c.total = total
        /\ \A c, d \in plan : c.index = d.index => c = d
        /\ {c.index : c \in plan} = 0 .. total - 1
    BY <1>2, PlanIsACopy DEF TableInv
  <1>4. live \subseteq chunks /\ IsFiniteSet(live) /\ chunks' = live \cup plan
    BY <1>1, FS_Subset DEF TableInv, Purged
  <1>5. \A c \in live, d \in chunks : d.stamp = c.stamp => d \in live
    BY DEF Purged, ChunksOf, CopiesInv
  <1> HIDE DEF live, plan, total
  <1>6. TableInv'
    <2>1. deals' = deals
      BY DEF RequestDataExport
    <2> QED BY <1>3, <1>4, <2>1, FS_Union DEF TableInv
  <1>7. ASSUME NEW c \in chunks'
        PROVE  {d.index : d \in {e \in chunks' : e.stamp = c.stamp}} = 0 .. c.total - 1
    <2>1. CASE c \in live
      <3>1. {e \in chunks' : e.stamp = c.stamp} = {e \in chunks : e.stamp = c.stamp}
        BY <1>2, <1>3, <1>4, <1>5, <2>1
      <3> QED BY <1>4, <2>1, <3>1 DEF CopiesInv
    <2>2. CASE c \in plan
      <3>1. {e \in chunks' : e.stamp = c.stamp} = plan
        BY <1>2, <1>3, <1>4, <2>2
      <3> QED BY <1>3, <2>2, <3>1
    <2> QED BY <1>4, <2>1, <2>2
  <1>8. /\ \A c, d \in chunks' : c.stamp = d.stamp <=> c.owner = d.owner
        /\ \A c, d \in chunks' : c.stamp = d.stamp => c.total = d.total
        /\ \A c, d \in chunks' : c.stamp = d.stamp /\ c.index = d.index => c = d
    BY <1>2, <1>3, <1>4 DEF CopiesInv
  <1> QED BY <1>6, <1>7, <1>8 DEF CopiesInv

(* A millisecond: every stamp moves by one.                                 *)
LEMMA TickCopies ==
  ASSUME TableInv, CopiesInv, chunks' = {[c EXCEPT !.stamp = @ - 1] : c \in chunks},
         UNCHANGED deals
  PROVE  CopiesInv' /\ TableInv'
  <1> DEFINE older(c) == [c EXCEPT !.stamp = c.stamp - 1]
             f == [c \in chunks |-> older(c)]
  <1>1. \A c \in chunks : /\ older(c) \in Chunk /\ older(c).stamp = c.stamp - 1
                          /\ older(c).owner = c.owner /\ older(c).index = c.index
                          /\ older(c).total = c.total /\ c.stamp \in Int
    BY DEF TableInv, Chunk
  <1>2. chunks' = {older(c) : c \in chunks}
    OBVIOUS
  <1> HIDE DEF older
  <1>3. TableInv'
    <2>1. f \in Surjection(chunks, chunks')
      BY <1>2 DEF Surjection
    <2>2. IsFiniteSet(chunks')
      BY <2>1, FS_Surjection DEF TableInv
    <2> QED BY <1>1, <1>2, <2>2 DEF TableInv
  <1>4. /\ \A c, d \in chunks' : c.stamp = d.stamp <=> c.owner = d.owner
        /\ \A c, d \in chunks' : c.stamp = d.stamp => c.total = d.total
        /\ \A c, d \in chunks' : c.stamp = d.stamp /\ c.index = d.index => c = d
    <2>1. \A c, d \in chunks : older(c).stamp = older(d).stamp <=> c.stamp = d.stamp
      BY <1>1
    <2> QED BY <1>1, <1>2, <2>1, SMTT(30) DEF CopiesInv
  <1>5. ASSUME NEW c \in chunks
        PROVE  {d.index : d \in {e \in chunks' : e.stamp = older(c).stamp}} = 0 .. older(c).total - 1
    <2>1. {e \in chunks' : e.stamp = older(c).stamp}
            = {older(e) : e \in {x \in chunks : x.stamp = c.stamp}}
      BY <1>1, <1>2
    <2>2. {d.index : d \in {e \in chunks' : e.stamp = older(c).stamp}}
            = {d.index : d \in {e \in chunks : e.stamp = c.stamp}}
      BY <1>1, <2>1
    <2> QED BY <1>1, <2>2 DEF CopiesInv
  <1>6. \A c \in chunks' : {d.index : d \in {e \in chunks' : e.stamp = c.stamp}} = 0 .. c.total - 1
    BY <1>2, <1>5
  <1> QED BY <1>3, <1>4, <1>6 DEF CopiesInv

-----------------------------------------------------------------------------
(* The shares.                                                              *)

Held(who) == {c \in chunks : c.owner \in who}
Anonymous == {p \in Identities : ~IsAccountHolder(p)}

Half == LiveCap \div 2
Quarter == (LiveCap \div 2) \div 2

LEMMA Ceilings == Half \in Nat /\ Quarter \in Nat /\ Quarter <= Half /\ Half <= LiveCap
  <1>1. LiveCap \in Nat
    BY ExportBounds
  <1>2. Half \in Nat /\ Half <= LiveCap
    BY <1>1 DEF Half
  <1>3. Quarter \in Nat /\ Quarter <= Half
    BY <1>2 DEF Half, Quarter
  <1> QED BY <1>2, <1>3

LEMMA SharesSpelledOut ==
  SharesHold <=> /\ Cardinality(Held(Identities)) <= LiveCap
                 /\ Cardinality(Held(Anonymous)) <= Half
                 /\ Cardinality(Held(Anonymous \ wallet)) <= Quarter
  BY DEF SharesHold, Held, Anonymous, Half, Quarter

LEMMA SharesSpelledOutNext ==
  SharesHold' <=> /\ Cardinality(Held(Identities)') <= LiveCap
                  /\ Cardinality(Held(Anonymous)') <= Half
                  /\ Cardinality(Held(Anonymous \ wallet)') <= Quarter
  BY DEF SharesHold, Held, Anonymous, Half, Quarter

LEMMA FewerRows ==
  ASSUME NEW S, NEW T, IsFiniteSet(T), S \subseteq T, NEW n \in Nat, Cardinality(T) <= n
  PROVE  Cardinality(S) <= n
  BY FS_Subset, FS_CardinalityType

(* Copies go, and nobody who keeps one falls into a smaller share.          *)
LEMMA SharesShrink ==
  ASSUME TableInv, SharesHold, chunks' \subseteq chunks,
         \A c \in chunks' : /\ c.owner \in Anonymous' => c.owner \in Anonymous
                            /\ c.owner \in (Anonymous \ wallet)' => c.owner \in Anonymous \ wallet
  PROVE  SharesHold'
  <1>1. /\ Held(Identities)' \subseteq Held(Identities)
        /\ Held(Anonymous)' \subseteq Held(Anonymous)
        /\ Held(Anonymous \ wallet)' \subseteq Held(Anonymous \ wallet)
    BY DEF Held
  <1>2. \A who : IsFiniteSet(Held(who))
    BY FS_Subset DEF TableInv, Held
  <1> QED BY <1>1, <1>2, FewerRows, Ceilings, ExportBounds, SharesSpelledOut, SharesSpelledOutNext

(* The tick keeps every copy with its owner.                                *)
LEMMA SharesTick ==
  ASSUME TableInv, SharesHold, chunks' = {[c EXCEPT !.stamp = @ - 1] : c \in chunks},
         UNCHANGED <<account, wallet>>
  PROVE  SharesHold'
  <1> DEFINE older(c) == [c EXCEPT !.stamp = c.stamp - 1]
  <1>1. \A c \in chunks : older(c).owner = c.owner
    BY DEF TableInv, Chunk
  <1>2. chunks' = {older(c) : c \in chunks}
    OBVIOUS
  <1> HIDE DEF older
  <1>3. ASSUME NEW who
        PROVE  Cardinality({c \in chunks' : c.owner \in who}) <= Cardinality(Held(who))
    <2> DEFINE f == [c \in Held(who) |-> older(c)]
               T == {c \in chunks' : c.owner \in who}
    <2>1. f \in Surjection(Held(who), T)
      BY <1>1, <1>2 DEF Surjection, Held
    <2>2. IsFiniteSet(Held(who))
      BY FS_Subset DEF TableInv, Held
    <2> HIDE DEF f
    <2> QED BY <2>1, <2>2, FS_Surjection
  <1>4. ASSUME NEW who
        PROVE  /\ Cardinality({c \in chunks' : c.owner \in who}) \in Nat
               /\ Cardinality(Held(who)) \in Nat
    <2>1. IsFiniteSet(Held(who)) /\ IsFiniteSet(chunks')
      <3> DEFINE f == [c \in chunks |-> older(c)]
      <3>1. f \in Surjection(chunks, chunks')
        BY <1>2 DEF Surjection
      <3> HIDE DEF f
      <3> QED BY <3>1, FS_Surjection, FS_Subset DEF TableInv, Held
    <2>2. IsFiniteSet({c \in chunks' : c.owner \in who})
      BY <2>1, FS_Subset
    <2> QED BY <2>1, <2>2, FS_CardinalityType
  <1>5. Anonymous' = Anonymous /\ wallet' = wallet /\ Identities' = Identities
    BY DEF Anonymous, IsAccountHolder
  <1>6. /\ Held(Identities)' = {c \in chunks' : c.owner \in Identities}
        /\ Held(Anonymous)' = {c \in chunks' : c.owner \in Anonymous}
        /\ Held(Anonymous \ wallet)' = {c \in chunks' : c.owner \in Anonymous \ wallet}
    BY <1>5 DEF Held
  <1>7. /\ Cardinality(Held(Identities)') <= LiveCap
        /\ Cardinality(Held(Anonymous)') <= Half
        /\ Cardinality(Held(Anonymous \ wallet)') <= Quarter
    <2>1. LiveCap \in Nat /\ Half \in Nat /\ Quarter \in Nat
      BY Ceilings, ExportBounds
    <2>2. \A a, b, c \in Nat : a <= b /\ b <= c => a <= c
      OBVIOUS
    <2> DEFINE moved(who) == Cardinality({c \in chunks' : c.owner \in who})
               held(who) == Cardinality(Held(who))
    <2>3. \A who : moved(who) \in Nat /\ held(who) \in Nat /\ moved(who) <= held(who)
      BY <1>3, <1>4
    <2>4. /\ held(Identities) <= LiveCap /\ held(Anonymous) <= Half
          /\ held(Anonymous \ wallet) <= Quarter
      BY SharesSpelledOut
    <2> HIDE DEF moved, held
    <2>5. /\ moved(Identities) <= LiveCap /\ moved(Anonymous) <= Half
          /\ moved(Anonymous \ wallet) <= Quarter
      BY <2>1, <2>2, <2>3, <2>4
    <2> QED BY <1>6, <2>5 DEF moved
  <1> QED BY <1>7, SharesSpelledOutNext

(* A request fits into what its own share and those around it leave free:   *)
(* all that is held counts against the share of whoever asks.               *)
LEMMA SharesRequest ==
  ASSUME TypeOK, TableInv, SharesHold, NEW p \in Identities, RequestDataExport(p)
  PROVE  SharesHold'
  <1> DEFINE live == Purged(p)
             cap == LiveRowCap(p)
  <1>1. PICK stamp \in MintedStamp(live) :
          /\ Cardinality(live) + Cardinality(PlanExportChunks(p, stamp)) <= cap
          /\ chunks' = live \cup PlanExportChunks(p, stamp)
    BY DEF RequestDataExport, AdmissionOpen
  <1> DEFINE plan == PlanExportChunks(p, stamp)
  <1>2. stamp \in Int
    BY DEF MintedStamp
  <1>3. IsFiniteSet(plan) /\ \A c \in plan : c.owner = p
    BY <1>2, PlanIsACopy DEF TableInv
  <1>4. IsFiniteSet(live) /\ live \subseteq chunks
    BY FS_Subset DEF TableInv, Purged
  <1> HIDE DEF plan, live
  <1>5. Anonymous' = Anonymous /\ wallet' = wallet
    BY DEF RequestDataExport, Anonymous, IsAccountHolder, people
  <1>6. chunks' = live \cup plan /\ IsFiniteSet(chunks')
    BY <1>1, <1>3, <1>4, FS_Union DEF plan
  <1>7. cap \in Nat /\ Cardinality(chunks') <= cap
    <2>1. cap \in Nat
      BY Ceilings, ExportBounds DEF LiveRowCap, Half, Quarter
    <2>2. Cardinality(chunks') = Cardinality(live) + Cardinality(plan) - Cardinality(live \cap plan)
      BY <1>3, <1>4, <1>6, FS_Union
    <2>3. /\ Cardinality(live) \in Nat /\ Cardinality(plan) \in Nat
          /\ Cardinality(live \cap plan) \in Nat
      BY <1>3, <1>4, FS_Subset, FS_Intersection, FS_CardinalityType
    <2>4. Cardinality(live) + Cardinality(plan) <= cap
      BY <1>1 DEF plan, live
    <2> HIDE DEF cap
    <2> QED BY <2>1, <2>2, <2>3, <2>4
  (* Whatever set of owners is asked about holds no more than the table.    *)
  <1>8. ASSUME NEW S, S \subseteq chunks', NEW n \in Nat, cap <= n
        PROVE  Cardinality(S) <= n
    <2>1. Cardinality(S) <= Cardinality(chunks') /\ Cardinality(S) \in Nat /\ Cardinality(chunks') \in Nat
      BY <1>6, <1>8, FS_Subset, FS_CardinalityType
    <2> HIDE DEF cap
    <2> QED BY <1>7, <1>8, <2>1
  (* A share the caller has no part in only loses rows.                     *)
  <1>9. ASSUME NEW who, p \notin who
        PROVE  {c \in chunks' : c.owner \in who} \subseteq Held(who)
    BY <1>3, <1>4, <1>6, <1>9 DEF Held
  <1>10. \A who : IsFiniteSet(Held(who))
    BY FS_Subset DEF TableInv, Held
  <1>11. /\ Held(Identities)' = {c \in chunks' : c.owner \in Identities}
         /\ Held(Anonymous)' = {c \in chunks' : c.owner \in Anonymous}
         /\ Held(Anonymous \ wallet)' = {c \in chunks' : c.owner \in Anonymous \ wallet}
    BY <1>5 DEF Held
  <1>12. LiveCap \in Nat /\ Half \in Nat /\ Quarter \in Nat /\ Quarter <= Half /\ Half <= LiveCap
    BY Ceilings, ExportBounds
  <1>13. cap <= LiveCap
    BY <1>12 DEF LiveRowCap, Half, Quarter
  <1>14. p \in Anonymous => cap <= Half
    BY <1>12 DEF LiveRowCap, Half, Quarter, Anonymous
  <1>15. p \in Anonymous \ wallet => cap <= Quarter
    BY <1>12 DEF LiveRowCap, Quarter, Anonymous
  <1> HIDE DEF cap
  <1>16. Cardinality(Held(Identities)') <= LiveCap
    BY <1>8, <1>11, <1>12, <1>13
  <1>17. Cardinality(Held(Anonymous)') <= Half
    <2>1. CASE p \in Anonymous
      BY <1>8, <1>11, <1>12, <1>14, <2>1
    <2>2. CASE p \notin Anonymous
      BY <1>9, <1>10, <1>11, <1>12, <2>2, FewerRows, SharesSpelledOut
    <2> QED BY <2>1, <2>2
  <1>18. Cardinality(Held(Anonymous \ wallet)') <= Quarter
    <2>1. CASE p \in Anonymous \ wallet
      BY <1>8, <1>11, <1>12, <1>15, <2>1
    <2>2. CASE p \notin Anonymous \ wallet
      BY <1>9, <1>10, <1>11, <1>12, <2>2, FewerRows, SharesSpelledOut
    <2> QED BY <2>1, <2>2
  <1> QED BY <1>16, <1>17, <1>18, SharesSpelledOutNext

-----------------------------------------------------------------------------
(* One lemma for each operation that is more than a line.                   *)

LEMMA InitInv == Init => Inv
  <1> SUFFICES ASSUME Init PROVE Inv
    OBVIOUS
  <1>1. TypeOK
    BY ExportBounds DEF Init, TypeOK
  <1>2. TableInv /\ CopiesInv
    BY FS_EmptySet DEF Init, TableInv, CopiesInv
  <1>3. SharesHold
    <2>1. \A who : Held(who) = {}
      BY DEF Init, Held
    <2> QED BY <2>1, FS_EmptySet, Ceilings, ExportBounds, SharesSpelledOut
  <1> QED BY <1>1, <1>2, <1>3 DEF Inv

LEMMA RequestInv ==
  ASSUME Inv, NEW p \in Identities, RequestDataExport(p)
  PROVE  Inv'
  <1>1. TypeOK'
    BY DEF Inv, TypeOK, RequestDataExport, people, Armed
  <1>2. CopiesInv' /\ TableInv'
    BY RequestCopies DEF Inv
  <1>3. SharesHold'
    BY SharesRequest DEF Inv
  <1> QED BY <1>1, <1>2, <1>3 DEF Inv

(* Rows that leave the table leave it by whole copies.                      *)
LEMMA RowsLeave ==
  ASSUME Inv, TypeOK', IsFiniteSet(deals'), CopiesInv', chunks' \subseteq chunks,
         \A c \in chunks' : /\ c.owner \in Anonymous' => c.owner \in Anonymous
                            /\ c.owner \in (Anonymous \ wallet)' => c.owner \in Anonymous \ wallet
  PROVE  Inv'
  <1>1. TableInv'
    BY FS_Subset DEF Inv, TableInv
  <1>2. SharesHold'
    BY SharesShrink DEF Inv
  <1> QED BY <1>1, <1>2 DEF Inv

LEMMA ReaperInv ==
  ASSUME Inv, ExportBundleReaper
  PROVE  Inv'
  <1>1. chunks' = chunks \ Reaped(chunks)
    BY DEF ExportBundleReaper
  <1>2. CopiesInv'
    <2>1. \A c \in chunks', d \in chunks : d.stamp = c.stamp => d \in chunks'
      BY <1>1 DEF Reaped
    <2> QED BY <1>1, <2>1, WholeCopiesGo DEF Inv
  <1>3. TypeOK' /\ IsFiniteSet(deals')
    BY DEF Inv, TypeOK, TableInv, ExportBundleReaper, people
  <1>4. Anonymous' = Anonymous /\ wallet' = wallet
    BY DEF ExportBundleReaper, Anonymous, IsAccountHolder, people
  <1> QED BY <1>1, <1>2, <1>3, <1>4, RowsLeave

(* Nobody's copy is touched, and who plays falls into no smaller share.     *)
LEMMA CopiesUntouched ==
  ASSUME Inv, TypeOK', IsFiniteSet(deals'), UNCHANGED chunks,
         Anonymous' \subseteq Anonymous, wallet \subseteq wallet'
  PROVE  Inv'
  <1>1. CopiesInv'
    BY DEF Inv, CopiesInv
  <1> QED BY <1>1, RowsLeave

(* A status that says there is an account only shrinks the shares' owners.  *)
LEMMA AccountKept ==
  ASSUME Inv, NEW p \in Holders, NEW status \in {"Active", "PendingDeletion"},
         account' = [account EXCEPT ![p] = status],
         UNCHANGED <<player, wallet, own, deals, chunks, sweeps>>
  PROVE  Inv'
  <1>1. TypeOK' /\ IsFiniteSet(deals')
    BY DEF Inv, TypeOK, TableInv
  <1>2. Anonymous' \subseteq Anonymous
    BY DEF Inv, TypeOK, Anonymous, IsAccountHolder
  <1> QED BY <1>1, <1>2, CopiesUntouched

LEMMA PlayInv ==
  ASSUME Inv, NEW p \in Identities, JoinGame(p) \/ OnDisconnect(p) \/ Play(p) \/ Begin(p)
  PROVE  Inv'
  <1>1. account' = account /\ chunks' = chunks /\ sweeps' = sweeps
    BY DEF JoinGame, OnDisconnect, Play, Begin, people
  <1>2. Anonymous' = Anonymous
    BY <1>1 DEF Anonymous, IsAccountHolder
  <1>3. wallet \subseteq wallet'
    BY DEF JoinGame, OnDisconnect, Play, Begin, people
  <1>4. IsFiniteSet(deals')
    <2>1. CASE JoinGame(p) \/ Play(p)
      BY <2>1 DEF JoinGame, Play, Inv, TableInv
    <2>2. CASE OnDisconnect(p)
      BY <2>2, FS_Subset DEF OnDisconnect, WithoutOffers, Inv, TableInv
    <2>3. CASE Begin(p)
      BY <2>3, FS_AddElement DEF Begin, Inv, TableInv
    <2> QED BY <2>1, <2>2, <2>3
  <1>5. TypeOK'
    <2>1. CASE JoinGame(p)
      BY <2>1, ExportBounds DEF JoinGame, Inv, TypeOK
    <2>2. CASE OnDisconnect(p)
      BY <2>2 DEF OnDisconnect, WithoutOffers, Inv, TypeOK
    <2>3. CASE Play(p)
      BY <2>3, ExportBounds DEF Play, Inv, TypeOK
    <2>4. CASE Begin(p)
      BY <2>4 DEF Begin, Inv, TypeOK, people
    <2> QED BY <2>1, <2>2, <2>3, <2>4
  <1> QED BY <1>1, <1>2, <1>3, <1>4, <1>5, CopiesUntouched

LEMMA EndInv ==
  ASSUME Inv, End
  PROVE  Inv'
  <1>1. TypeOK' /\ IsFiniteSet(deals')
    BY FS_Subset DEF End, Inv, TypeOK, TableInv, people
  <1>2. Anonymous' = Anonymous /\ wallet' = wallet /\ chunks' = chunks
    BY DEF End, Anonymous, IsAccountHolder, people
  <1> QED BY <1>1, <1>2, CopiesUntouched

LEMMA ClaimInv ==
  ASSUME Inv, NEW p \in Holders, NEW g \in Guests, CompleteGuestClaim(p, g)
  PROVE  Inv'
  <1>1. chunks' = Purged(g) /\ CopiesInv'
    BY PurgeIsWhole DEF CompleteGuestClaim, Inv
  <1>2. TypeOK' /\ IsFiniteSet(deals')
    BY ExportIdentities, ExportBounds DEF CompleteGuestClaim, Inv, TypeOK, TableInv, Identities
  <1>3. Anonymous' = Anonymous
    BY DEF CompleteGuestClaim, Anonymous, IsAccountHolder
  <1>4. \A q \in Identities : q # g /\ q \in wallet => q \in wallet'
    BY DEF CompleteGuestClaim
  <1>5. \A c \in chunks' : c.owner # g /\ c \in chunks
    BY <1>1 DEF Purged, ChunksOf
  <1> QED BY <1>1, <1>2, <1>3, <1>4, <1>5, RowsLeave DEF Anonymous

LEMMA ErasureInv ==
  ASSUME Inv, NEW p \in Holders, AccountDeletionReaper(p)
  PROVE  Inv'
  <1> DEFINE kept == WithoutOffers(p)
             f == [d \in kept |-> Anonymized(p, d)]
  <1>1. chunks' = Purged(p) /\ CopiesInv'
    BY PurgeIsWhole DEF AccountDeletionReaper, Inv
  <1>2. \A d \in Deal : Anonymized(p, d) \in Deal
    BY DEF Deal, Anonymized, Parties, Identities
  <1>3. kept \subseteq deals /\ deals' = {Anonymized(p, d) : d \in kept}
    BY DEF AccountDeletionReaper, WithoutOffers
  <1>4. IsFiniteSet(deals')
    <2>1. f \in Surjection(kept, deals')
      BY <1>3 DEF Surjection
    <2>2. IsFiniteSet(kept)
      BY <1>3, FS_Subset DEF Inv, TableInv
    <2> HIDE DEF f
    <2> QED BY <2>1, <2>2, FS_Surjection
  <1>5. TypeOK'
    BY <1>2, <1>3, ExportBounds DEF AccountDeletionReaper, Inv, TypeOK, Identities
  <1>6. Anonymous' = Anonymous /\ p \notin Anonymous
    BY DEF AccountDeletionReaper, Anonymous, IsAccountHolder, Inv, TypeOK
  <1>7. wallet' = wallet \ {p}
    BY DEF AccountDeletionReaper
  <1> QED BY <1>1, <1>4, <1>5, <1>6, <1>7, RowsLeave DEF Purged

LEMMA TickInv ==
  ASSUME Inv, Tick
  PROVE  Inv'
  <1>1. chunks' = {[c EXCEPT !.stamp = @ - 1] : c \in chunks}
    BY DEF Tick
  <1>2. UNCHANGED <<account, player, wallet, own, deals, sweeps>>
    BY DEF Tick, people
  <1>3. TypeOK'
    BY <1>2 DEF Inv, TypeOK
  <1> QED BY <1>1, <1>2, <1>3, TickCopies, SharesTick DEF Inv

LEMMA NextInv == Inv /\ [Next]_vars => Inv'
  <1> SUFFICES ASSUME Inv, [Next]_vars PROVE Inv'
    OBVIOUS
  <1>1. ASSUME NEW p \in Identities, RequestDataExport(p) PROVE Inv'
    BY <1>1, RequestInv
  <1>2. CASE ExportBundleReaper
    BY <1>2, ReaperInv
  <1>3. CASE SyncContent
    <2>1. TypeOK' /\ IsFiniteSet(deals')
      BY <1>3 DEF SyncContent, Armed, Inv, TypeOK, TableInv, people
    <2>2. Anonymous' = Anonymous /\ wallet' = wallet /\ chunks' = chunks
      BY <1>3 DEF SyncContent, Anonymous, IsAccountHolder, people
    <2> QED BY <2>1, <2>2, CopiesUntouched
  <1>4. ASSUME NEW p \in Identities, JoinGame(p) \/ OnDisconnect(p) \/ Play(p) \/ Begin(p)
        PROVE  Inv'
    BY <1>4, PlayInv
  <1>5. ASSUME NEW p \in Holders, OnConnect(p) \/ DeleteAccount(p) \/ CancelAccountDeletion(p)
        PROVE  Inv'
    BY <1>5, AccountKept DEF OnConnect, DeleteAccount, CancelAccountDeletion
  <1>6. ASSUME NEW p \in Holders, AccountDeletionReaper(p) PROVE Inv'
    BY <1>6, ErasureInv
  <1>7. ASSUME NEW p \in Holders, NEW g \in Guests, CompleteGuestClaim(p, g) PROVE Inv'
    BY <1>7, ClaimInv
  <1>8. CASE End
    BY <1>8, EndInv
  <1>9. CASE Tick
    BY <1>9, TickInv
  <1>10. CASE UNCHANGED vars
    <2>1. TypeOK' /\ IsFiniteSet(deals')
      BY <1>10 DEF vars, people, Inv, TypeOK, TableInv
    <2>2. Anonymous' = Anonymous /\ wallet' = wallet /\ chunks' = chunks
      BY <1>10 DEF vars, people, Anonymous, IsAccountHolder
    <2> QED BY <2>1, <2>2, CopiesUntouched
  <1> QED BY <1>1, <1>2, <1>3, <1>4, <1>5, <1>6, <1>7, <1>8, <1>9, <1>10 DEF Next

(* The schedule row stays, and a copy is made in a call that arms it.       *)
LEMMA SweepStays == SweepIsArmed /\ [Next]_vars => SweepIsArmed'
  <1> SUFFICES ASSUME SweepIsArmed, [Next]_vars PROVE SweepIsArmed'
    OBVIOUS
  <1>1. CASE sweeps' = 1
    BY <1>1 DEF SweepIsArmed
  <1>2. CASE sweeps' = sweeps /\ (chunks = {} => chunks' = {})
    BY <1>2 DEF SweepIsArmed
  <1>3. ASSUME NEW p \in Identities, RequestDataExport(p) PROVE sweeps' = 1
    BY <1>3 DEF RequestDataExport, Armed
  <1>4. ASSUME SyncContent PROVE sweeps' = 1
    BY <1>4 DEF SyncContent, Armed
  <1>5. ASSUME \/ ExportBundleReaper \/ End \/ Tick \/ UNCHANGED vars
               \/ \E p \in Identities : JoinGame(p) \/ OnDisconnect(p) \/ Play(p) \/ Begin(p)
               \/ \E p \in Holders :
                    \/ OnConnect(p) \/ DeleteAccount(p) \/ CancelAccountDeletion(p)
                    \/ AccountDeletionReaper(p) \/ \E g \in Guests : CompleteGuestClaim(p, g)
        PROVE  sweeps' = sweeps /\ (chunks = {} => chunks' = {})
    BY <1>5 DEF ExportBundleReaper, End, Tick, JoinGame, OnDisconnect, Play, Begin, OnConnect,
                DeleteAccount, CancelAccountDeletion, AccountDeletionReaper, CompleteGuestClaim,
                Purged, vars, people
  <1> QED BY <1>1, <1>2, <1>3, <1>4, <1>5 DEF Next

LEMMA SpecInv == Spec => []Inv
  BY InitInv, NextInv, PTL DEF Spec

-----------------------------------------------------------------------------
(* What the numbers of a copy's chunks say of how many there are.           *)
LEMMA CopiesAreWhole == Inv => BundlesAreWhole
  <1> SUFFICES ASSUME Inv, NEW c \in chunks
               PROVE  LET bundle == {d \in chunks : d.stamp = c.stamp} IN
                      /\ ChunksOf(c.owner) = bundle
                      /\ {d.index : d \in bundle} = 0 .. c.total - 1
                      /\ Cardinality(bundle) = c.total
    BY DEF BundlesAreWhole
  <1> DEFINE bundle == {d \in chunks : d.stamp = c.stamp}
             f == [d \in bundle |-> d.index]
  <1>1. ChunksOf(c.owner) = bundle
    BY DEF ChunksOf, Inv, CopiesInv
  <1>2. {d.index : d \in bundle} = 0 .. c.total - 1
    BY DEF Inv, CopiesInv
  <1>3. IsFiniteSet(bundle) /\ c.total \in Nat
    BY FS_Subset DEF Inv, TableInv, Chunk
  <1>4. f \in Surjection(bundle, 0 .. c.total - 1)
    BY <1>2 DEF Surjection
  <1>5. \A d, e \in bundle : d.index = e.index => d = e
    BY DEF Inv, CopiesInv
  <1>6. f \in Injection(bundle, 0 .. c.total - 1)
    BY <1>4, <1>5 DEF Surjection, Injection, IsInjective
  <1>7. Cardinality(0 .. c.total - 1) = c.total
    BY <1>3, FS_Interval
  <1> HIDE DEF f, bundle
  <1>8. Cardinality(bundle) = c.total
    BY <1>3, <1>4, <1>6, <1>7, FS_Surjection
  <1> QED BY <1>1, <1>2, <1>8 DEF bundle

(* Whatever is requested, swept, claimed, erased and played, the table      *)
(* `export_bundle` holds whole copies only, at most one for each player,    *)
(* and two copies never share a stamp: the reaper, which knows a copy by    *)
(* its stamp alone, deletes nothing but whole copies.  And while there is a *)
(* copy, its schedule row is there.                                         *)
THEOREM CopiesStayWhole == Spec => []BundlesWellFormed
  <1>1. Inv => TypeOK /\ BundlesAreWhole
    BY CopiesAreWhole DEF Inv
  <1>2. Init => SweepIsArmed
    BY DEF Init, SweepIsArmed
  <1>3. Spec => []SweepIsArmed
    BY <1>2, SweepStays, PTL DEF Spec
  <1> QED BY <1>1, <1>3, SpecInv, PTL DEF BundlesWellFormed

(* However rows are requested and whoever comes and goes between, the       *)
(* players without an account never hold more than half of the ceiling, and *)
(* those of them without a wallet never more than a quarter.                *)
THEOREM SharesAreKept == Spec => []SharesHold
  <1>1. Inv => SharesHold
    BY DEF Inv
  <1> QED BY <1>1, SpecInv, PTL

=============================================================================
