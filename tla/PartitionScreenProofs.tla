------------------------ MODULE PartitionScreenProofs ------------------------
(***************************************************************************)
(* Proofs about the planning of partitions (PartitionScreen): arithmetic   *)
(* of sectors and megabytes, what an operation of the planner leaves, and  *)
(* from them the invariants of the screens.                                *)
(***************************************************************************)
EXTENDS PartitionScreen, FiniteSetTheorems, WellFoundedInduction, TLAPS

\* What the planner leaves: a finite valid plan whose free space is the one
\* computed from its partitions.
Sound(p, d) ==
  /\ p \subseteq Items
  /\ IsFiniteSet(p)
  /\ Valid(p, d)
  /\ p = Rebuild(p, d)

\* Where the partitions of the disk are according to a plan.
Originals(p) ==
  {[start |-> i.start, count |-> i.count] :
     i \in {j \in p : j.state \in {"EXISTING", "DELETED"}}}

\* A complete layout, one new item for each of its roles.
OneEach(L, m) ==
  /\ \A i \in L : i.state = "NEW" /\ i.role \in LayoutRoles(m)
  /\ \A role \in LayoutRoles(m) : \E i \in L : i.role = role
  /\ \A i, j \in L : i.role = j.role => i = j

\* Without a plan nothing is left of an earlier one.
PlanKnown ==
  /\ hasPlan => Sound(plan, disk.sectors)
  /\ ~hasPlan => plan = {} /\ before = {} /\ ~ready

\* A ready plan has a target, and format plans that cover it, on the
\* partition screen too.
ReadyKnown ==
  /\ screen = "PLANNED" => ready
  /\ ready => /\ target # NoItem
              /\ \A i \in Live(plan) : i.role \in roles \union {"GENERIC"}

\* A plan is another one with a complete layout put in.
LaidIn(p, b, m, d) ==
  /\ b = Rebuild(b, d)
  /\ \E L \in SUBSET Placed(p) :
       /\ OneEach(L, m)
       /\ L \intersect b = {}
       /\ p = Rebuild(b \union L, d)

\* Until the next edit the plan is the one before with the layout in it.
LayoutKnown == before # {} => LaidIn(plan, before, mode, disk.sectors)

\* What a new partition is like on a disk that had none: at least a megabyte
\* long, and where it belongs to a layout aligned and clear of both GPTs.
Room(p, d) ==
  \A i \in p : i.state = "NEW" =>
    /\ i.count >= SectorsPerMB
    /\ i.role \in UefiRoles =>
         /\ i.start >= SectorsPerMB
         /\ i.start % SectorsPerMB = 0
         /\ End(i) + SectorsPerMB <= d

RoomKnown == mode = "UEFI" /\ disk.parts = {} => Room(plan, disk.sectors)

PlanInv ==
  /\ TypeOK
  /\ PlanKnown
  /\ OriginalsKept
  /\ TargetCurrent
  /\ ReadyKnown
  /\ LayoutKnown
  /\ RoomKnown

-----------------------------------------------------------------------------
(***************************************************************************)
(* Sectors and megabytes.                                                  *)
(***************************************************************************)
\* A sector number in whole megabytes and what is over.
LEMMA DivMod ==
  ASSUME NEW n \in Nat, NEW S \in Nat \ {0}
  PROVE  /\ n \div S \in Nat
         /\ n % S \in Nat
         /\ n % S < S
         /\ n = (n \div S) * S + (n % S)
OBVIOUS

\* Whole megabytes begin at a multiple of the megabyte.
LEMMA WholeMod ==
  ASSUME NEW q \in Nat, NEW S \in Nat \ {0}
  PROVE  q * S \in Nat /\ (q * S) % S = 0
OBVIOUS

\* Megabytes are at least as long as their number times one.
LEMMA WholeSize ==
  ASSUME NEW q \in Nat \ {0}, NEW S \in Nat \ {0}
  PROVE  q * S >= S
<1>1. PICK k \in Nat : q = k + 1
  <2>1. q - 1 \in Nat /\ q = (q - 1) + 1
    OBVIOUS
  <2> QED
    BY <2>1
<1>2. q * S = k * S + S /\ k * S \in Nat
  BY <1>1
<1> QED
  BY <1>2

\* What follows an aligned sector at a distance of whole megabytes is aligned.
LEMMA WholeAfter ==
  ASSUME NEW S \in Nat \ {0}, NEW a \in Nat, a % S = 0, NEW k \in Nat
  PROVE  (a + k * S) % S = 0
<1>1. PICK q \in Nat : a = q * S
  <2>1. a \div S \in Nat /\ a = (a \div S) * S
    BY DivMod
  <2> QED
    BY <2>1
<1> DEFINE m == q + k
<1>2. m \in Nat /\ a + k * S = m * S
  BY <1>1
<1> HIDE DEF m
<1>3. (m * S) % S = 0
  BY <1>2, WholeMod
<1> QED
  BY <1>2, <1>3

\* A number of megabytes up to what a word can hold does not wrap.
LEMMA NoWrap ==
  ASSUME NEW S \in Nat \ {0}, NEW W \in Nat \ {0},
         NEW mb \in Nat, mb <= (W - 1) \div S
  PROVE  (mb * S) % W = mb * S
<1> DEFINE q == (W - 1) \div S
<1>1. q \in Nat /\ q * S <= W - 1
  <2>1. W - 1 \in Nat
    OBVIOUS
  <2>2. W - 1 = q * S + ((W - 1) % S) /\ q \in Nat /\ (W - 1) % S \in Nat
    BY <2>1, DivMod
  <2> HIDE DEF q
  <2>3. q * S \in Nat
    BY <2>2
  <2> QED
    BY <2>2, <2>3
<1> HIDE DEF q
<1>2. mb <= q
  BY DEF q
<1>3. mb * S <= q * S /\ mb * S \in Nat
  BY <1>1, <1>2
<1> DEFINE p == mb * S
<1>4. p \in Nat /\ p < W
  <2>1. q * S \in Nat
    BY <1>1
  <2> QED
    BY <1>1, <1>3, <2>1
<1> HIDE DEF p
<1>5. p % W = p
  BY <1>4
<1> QED
  BY <1>5 DEF p

\* classicsetup_plan_align_sector goes up, to a whole megabyte.
LEMMA Aligned ==
  ASSUME NEW n \in Nat
  PROVE  /\ AlignUp(n) \in Nat
         /\ AlignUp(n) >= n
         /\ AlignUp(n) % SectorsPerMB = 0
<1> DEFINE S == SectorsPerMB
<1>1. S \in Nat \ {0}
  BY PlanAssumption
<1> HIDE DEF S
<1> SUFFICES ASSUME n % S # 0
    PROVE  LET a == n + (S - (n % S)) IN a \in Nat /\ a >= n /\ a % S = 0
  BY DEF AlignUp, S
<1>2. n % S \in Nat /\ n % S < S /\ n \div S \in Nat /\ n = (n \div S) * S + (n % S)
  BY <1>1, DivMod
<1> DEFINE q == n \div S
           r == n % S
<1>3. q \in Nat /\ r \in Nat /\ r < S /\ n = q * S + r
  BY <1>2
<1> HIDE DEF q, r
<1>4. n + (S - r) = (q + 1) * S /\ q + 1 \in Nat
  BY <1>1, <1>3
<1>5. ((q + 1) * S) % S = 0
  BY <1>1, <1>4, WholeMod
<1>6. n + (S - r) \in Nat /\ n + (S - r) >= n
  BY <1>1, <1>3
<1> QED
  BY <1>4, <1>5, <1>6 DEF r

\* The fixed parts of a layout, in sectors.
LEMMA FixedSizes ==
  /\ EfiMB * SectorsPerMB \in Nat /\ EfiMB * SectorsPerMB >= SectorsPerMB
  /\ MsrMB * SectorsPerMB \in Nat /\ MsrMB * SectorsPerMB >= SectorsPerMB
  /\ RecoveryMB * SectorsPerMB \in Nat /\ RecoveryMB * SectorsPerMB >= SectorsPerMB
  /\ SystemReservedMB * SectorsPerMB \in Nat
  /\ SystemReservedMB * SectorsPerMB >= SectorsPerMB
  /\ MinWindowsMB * SectorsPerMB \in Nat /\ MinWindowsMB * SectorsPerMB >= SectorsPerMB
  /\ UefiFixed = EfiMB * SectorsPerMB + MsrMB * SectorsPerMB + RecoveryMB * SectorsPerMB
  /\ BiosFixed = SystemReservedMB * SectorsPerMB + RecoveryMB * SectorsPerMB
<1>1. \A q \in Nat \ {0} : q * SectorsPerMB \in Nat /\ q * SectorsPerMB >= SectorsPerMB
  BY PlanAssumption, WholeSize, WholeMod
<1>2. UefiFixed = EfiMB * SectorsPerMB + MsrMB * SectorsPerMB + RecoveryMB * SectorsPerMB
  BY PlanAssumption DEF UefiFixed
<1>3. BiosFixed = SystemReservedMB * SectorsPerMB + RecoveryMB * SectorsPerMB
  BY PlanAssumption DEF BiosFixed
<1> QED
  BY <1>1, <1>2, <1>3, PlanAssumption

-----------------------------------------------------------------------------
(***************************************************************************)
(* Free space and rebuilding.                                              *)
(***************************************************************************)
\* A free range is an item, not empty, that ends at a partition or at the end
\* of the disk.
LEMMA GapFacts ==
  ASSUME NEW live \in SUBSET Items, NEW d \in Nat, NEW g \in Gaps(live, d)
  PROVE  /\ g \in Items
         /\ g.state = "UNALLOCATED"
         /\ g.role = "NONE"
         /\ End(g) = d \/ \E i \in live : i.start = End(g)
<1> DEFINE froms == {0} \union {End(i) : i \in live}
           tos   == {d} \union {i.start : i \in live}
<1>1. froms \subseteq Nat /\ tos \subseteq Nat
  BY DEF Items, End
<1>2. PICK h \in froms \X tos :
        h[1] < h[2] /\ g = Item("UNALLOCATED", "NONE", h[1], h[2] - h[1])
  BY DEF Gaps
<1>3. h[1] \in Nat /\ h[2] \in Nat /\ h[2] - h[1] \in Nat
  BY <1>1, <1>2
<1>4. g \in Items /\ g.state = "UNALLOCATED" /\ g.role = "NONE"
  BY <1>2, <1>3 DEF Item, Items, ItemStates
<1>5. End(g) = h[2]
  BY <1>2, <1>3 DEF End, Item
<1>6. h[2] = d \/ \E i \in live : i.start = h[2]
  BY <1>2
<1> QED
  BY <1>4, <1>5, <1>6

\* Rebuilding leaves the partitions, and does it once for all.
LEMMA RebuildFacts ==
  ASSUME NEW p \in SUBSET Items, NEW d \in Nat
  PROVE  /\ Rebuild(p, d) \in SUBSET Items
         /\ Placed(Rebuild(p, d)) = Placed(p)
         /\ Live(Rebuild(p, d)) = Live(p)
         /\ Free(Rebuild(p, d)) = Gaps(Live(p), d)
         /\ Rebuild(Rebuild(p, d), d) = Rebuild(p, d)
         /\ Originals(Rebuild(p, d)) = Originals(p)
<1>1. Live(p) \in SUBSET Items
  BY DEF Live
<1>2. \A g \in Gaps(Live(p), d) : g \in Items /\ g.state = "UNALLOCATED"
  BY <1>1, GapFacts
<1> DEFINE gaps == Gaps(Live(p), d)
<1>3. Rebuild(p, d) = Placed(p) \union gaps
  BY DEF Rebuild
<1>4. \A g \in gaps : g \in Items /\ g.state = "UNALLOCATED"
  BY <1>2
<1> HIDE DEF gaps
<1> DEFINE r == Placed(p) \union gaps
<1>5. r \in SUBSET Items
  BY <1>4 DEF Placed
<1>6. Placed(r) = Placed(p)
  BY <1>4 DEF Placed
<1>7. Live(r) = Live(p)
  BY <1>4 DEF Placed, Live
<1>8. Free(r) = gaps
  BY <1>4 DEF Placed, Free
<1>9. Rebuild(r, d) = r
  BY <1>6, <1>7 DEF Rebuild, gaps
<1>10. Originals(r) = Originals(p)
  <2>1. {j \in r : j.state \in {"EXISTING", "DELETED"}}
          = {j \in p : j.state \in {"EXISTING", "DELETED"}}
    BY <1>4 DEF Placed
  <2> QED
    BY <2>1 DEF Originals
<1> QED
  BY <1>3, <1>5, <1>6, <1>7, <1>8, <1>9, <1>10 DEF gaps

\* The values of a function on a finite set are finitely many.
LEMMA FiniteImage ==
  ASSUME NEW S, IsFiniteSet(S), NEW f, f = [x \in S |-> f[x]]
  PROVE  IsFiniteSet({f[x] : x \in S})
<1> DEFINE T == {f[x] : x \in S}
<1>1. f \in Surjection(S, T)
  BY DEF Surjection
<1> QED
  BY <1>1, FS_Surjection

\* There are finitely many free ranges between finitely many partitions.
LEMMA FiniteRebuild ==
  ASSUME NEW p \in SUBSET Items, IsFiniteSet(p), NEW d \in Nat
  PROVE  IsFiniteSet(Rebuild(p, d))
<1> DEFINE live  == Live(p)
           ends  == [i \in live |-> End(i)]
           begs  == [i \in live |-> i.start]
           froms == {0} \union {ends[i] : i \in live}
           tos   == {d} \union {begs[i] : i \in live}
<1>1. IsFiniteSet(live) /\ IsFiniteSet(Placed(p))
  BY FS_Subset DEF Live, Placed
<1>2. IsFiniteSet({ends[i] : i \in live}) /\ IsFiniteSet({begs[i] : i \in live})
  <2> HIDE DEF live
  <2>1. IsFiniteSet({ends[i] : i \in live})
    BY <1>1, FiniteImage
  <2>2. IsFiniteSet({begs[i] : i \in live})
    BY <1>1, FiniteImage
  <2> QED
    BY <2>1, <2>2
<1>3. IsFiniteSet(froms) /\ IsFiniteSet(tos)
  BY <1>2, FS_Union, FS_Singleton
<1>4. IsFiniteSet(froms \X tos)
  BY <1>3, FS_Product
<1> DEFINE pairs == {h \in froms \X tos :
                       /\ h[1] < h[2]
                       /\ h[2] <= d
                       /\ \A i \in live : i.start >= h[2] \/ h[1] >= End(i)}
           item  == [h \in pairs |-> Item("UNALLOCATED", "NONE", h[1], h[2] - h[1])]
<1>5. IsFiniteSet(pairs)
  BY <1>4, FS_Subset
<1>6. IsFiniteSet({item[h] : h \in pairs})
  <2> HIDE DEF pairs
  <2> QED
    BY <1>5, FiniteImage
<1>7. Gaps(live, d) = {item[h] : h \in pairs}
  <2>1. froms = {0} \union {End(i) : i \in live} /\ tos = {d} \union {i.start : i \in live}
    OBVIOUS
  <2>2. {item[h] : h \in pairs}
          = {Item("UNALLOCATED", "NONE", h[1], h[2] - h[1]) : h \in pairs}
    <3> HIDE DEF pairs
    <3> QED
      OBVIOUS
  <2> HIDE DEF froms, tos
  <2> QED
    BY <2>1, <2>2 DEF Gaps
<1> QED
  BY <1>1, <1>6, <1>7, FS_Union DEF Rebuild

-----------------------------------------------------------------------------
(***************************************************************************)
(* What each operation of the planner leaves.                              *)
(***************************************************************************)
\* An operation that is committed leaves a sound plan with its partitions.
LEMMA CommitSound ==
  ASSUME NEW x \in SUBSET Items, IsFiniteSet(x), NEW d \in Nat, NEW q \in Commit(x, d)
  PROVE  /\ Sound(q, d)
         /\ q = Rebuild(x, d)
         /\ Placed(q) = Placed(x)
         /\ Live(q) = Live(x)
         /\ Originals(q) = Originals(x)
<1>1. q = Rebuild(x, d) /\ Valid(q, d)
  BY DEF Commit
<1> QED
  BY <1>1, RebuildFacts, FiniteRebuild DEF Sound

\* What the validation of a plan says of one item and of two.
LEMMA ValidFacts ==
  ASSUME NEW p, NEW d, Valid(p, d)
  PROVE  /\ \A i \in p : /\ i.count > 0
                         /\ End(i) <= d
                         /\ i.role = "NONE" <=> i.state = "UNALLOCATED"
         /\ \A i, j \in p : /\ i.state # "DELETED" /\ j.state # "DELETED"
                            /\ i # j
                            => ~Overlap(i, j)
BY DEF Valid, Tiles, Gone

\* Free space of a sound plan ends at a partition or at the end of the disk.
LEMMA FreeFacts ==
  ASSUME NEW p, NEW d \in Nat, Sound(p, d), NEW free \in Free(p)
  PROVE  /\ free \in p
         /\ free \in Items
         /\ free.state = "UNALLOCATED"
         /\ free.count > 0
         /\ End(free) <= d
         /\ End(free) = d \/ \E i \in Live(p) : i.start = End(free)
<1>1. free \in p /\ free \in Items /\ free.state = "UNALLOCATED"
  BY DEF Sound, Free
<1>2. free.count > 0 /\ End(free) <= d
  BY <1>1, ValidFacts DEF Sound
<1>3. free \in Gaps(Live(p), d) /\ Live(p) \in SUBSET Items
  <2>1. Free(p) = Gaps(Live(p), d)
    BY RebuildFacts DEF Sound
  <2> QED
    BY <2>1 DEF Live, Sound
<1> QED
  BY <1>1, <1>2, <1>3, GapFacts

\* The first plan of a disk has its partitions and no others.
LEMMA InitialSound ==
  ASSUME NEW d \in Nat, NEW parts \in SUBSET [start: Nat, count: Nat],
         IsFiniteSet(parts), NEW q \in InitialPlan(parts, d)
  PROVE  /\ Sound(q, d)
         /\ Originals(q) = parts
         /\ \A i \in q : i.state # "NEW"
<1> DEFINE item == [p \in parts |-> Item("EXISTING", "GENERIC", p.start, p.count)]
           x    == {item[p] : p \in parts}
<1>1. x = {Item("EXISTING", "GENERIC", p.start, p.count) : p \in parts}
  OBVIOUS
<1>2. IsFiniteSet(x)
  <2> HIDE DEF item
  <2>1. item = [p \in parts |-> item[p]]
    BY DEF item
  <2> QED
    BY <2>1, FiniteImage
<1>3. x \in SUBSET Items
  BY <1>1 DEF Item, Items, ItemStates, Roles
<1>4. \A i \in x : i.state = "EXISTING"
  BY <1>1 DEF Item
<1>5. Originals(x) = parts
  <2>1. {j \in x : j.state \in {"EXISTING", "DELETED"}} = x
    BY <1>4
  <2>2. Originals(x) = {[start |-> i.start, count |-> i.count] : i \in x}
    BY <2>1 DEF Originals
  <2>3. \A p \in parts : p = [start |-> p.start, count |-> p.count]
    OBVIOUS
  <2>4. \A p \in parts : [start |-> item[p].start, count |-> item[p].count] = p
    BY <2>3 DEF Item
  <2>5. \A p \in parts : item[p] \in x
    OBVIOUS
  <2>6. \A i \in x : \E p \in parts : i = item[p]
    OBVIOUS
  <2> HIDE DEF item, x
  <2>7. parts \subseteq Originals(x)
    BY <2>2, <2>4, <2>5
  <2>8. Originals(x) \subseteq parts
    BY <2>2, <2>4, <2>6
  <2> QED
    BY <2>7, <2>8
<1>6. q \in Commit(x, d)
  BY <1>1 DEF InitialPlan
<1> HIDE DEF x
<1>7. Sound(q, d) /\ Originals(q) = Originals(x) /\ Live(q) = Live(x)
  BY <1>2, <1>3, <1>6, CommitSound
<1>8. \A i \in q : i.state # "NEW"
  BY <1>4, <1>7 DEF Live
<1> QED
  BY <1>5, <1>7, <1>8

\* A partition created is of whole megabytes at the start of its free range.
LEMMA CreatedSound ==
  ASSUME NEW p, NEW d \in Nat, Sound(p, d), NEW free, NEW mb \in Nat,
         NEW q \in Created(p, d, free, mb)
  PROVE  /\ Sound(q, d)
         /\ Originals(q) = Originals(p)
         /\ \E new \in Items :
              /\ new.state = "NEW" /\ new.role = "GENERIC"
              /\ new.count >= SectorsPerMB
              /\ Live(q) = Live(p) \union {new}
<1>1. free \in Free(p)
  BY DEF Created
<1>2. PICK sectors \in SizeMbToSectors(mb, free.count) :
        q \in Commit(p \union {Item("NEW", "GENERIC", free.start, sectors)}, d)
  BY DEF Created
<1>3. sectors \in Nat /\ sectors >= SectorsPerMB
  <2>1. sectors = (mb * SectorsPerMB) % WordSize
        /\ mb > 0 /\ mb <= (WordSize - 1) \div SectorsPerMB
    BY DEF SizeMbToSectors
  <2>2. sectors = mb * SectorsPerMB
    BY <2>1, NoWrap, PlanAssumption
  <2>3. mb \in Nat \ {0}
    BY <2>1
  <2> QED
    BY <2>2, <2>3, WholeSize, WholeMod, PlanAssumption
<1> DEFINE new == Item("NEW", "GENERIC", free.start, sectors)
           x   == p \union {new}
<1>4. new \in Items /\ new.state = "NEW" /\ new.role = "GENERIC" /\ new.count = sectors
  BY <1>1, <1>3, FreeFacts DEF Item, Items, ItemStates, Roles
<1> HIDE DEF new
<1>5. x \in SUBSET Items /\ IsFiniteSet(x)
  BY <1>4, FS_AddElement DEF Sound
<1>6. Sound(q, d) /\ Live(q) = Live(x) /\ Originals(q) = Originals(x)
  BY <1>2, <1>5, CommitSound DEF new
<1>7. Live(x) = Live(p) \union {new}
  BY <1>4 DEF Live
<1>8. Originals(x) = Originals(p)
  <2>1. {j \in x : j.state \in {"EXISTING", "DELETED"}}
          = {j \in p : j.state \in {"EXISTING", "DELETED"}}
    BY <1>4
  <2> QED
    BY <2>1 DEF Originals
<1> QED
  BY <1>3, <1>4, <1>6, <1>7, <1>8

\* A partition deleted is live no more; one that the disk had stays known.
LEMMA DeletedSound ==
  ASSUME NEW p, NEW d \in Nat, Sound(p, d), NEW i \in Live(p),
         NEW q \in Deleted(p, d, i)
  PROVE  /\ Sound(q, d)
         /\ Originals(q) = Originals(p)
         /\ Live(q) = Live(p) \ {i}
<1>1. i \in p /\ i \in Items /\ p \in SUBSET Items /\ IsFiniteSet(p)
  BY DEF Live, Sound
<1>2. CASE i.state = "EXISTING"
  <2> DEFINE gone == [i EXCEPT !.state = "DELETED"]
             x    == (p \ {i}) \union {gone}
  <2>1. gone \in Items /\ gone.state = "DELETED"
        /\ gone.start = i.start /\ gone.count = i.count
    BY <1>1 DEF Items, ItemStates
  <2>2. q \in Commit(x, d)
    BY <1>2 DEF Deleted
  <2> HIDE DEF gone
  <2>3. x \in SUBSET Items /\ IsFiniteSet(x)
    BY <1>1, <2>1, FS_AddElement, FS_RemoveElement
  <2>4. Sound(q, d) /\ Live(q) = Live(x) /\ Originals(q) = Originals(x)
    BY <2>2, <2>3, CommitSound
  <2>5. Live(x) = Live(p) \ {i}
    BY <2>1 DEF Live
  <2>6. Originals(x) = Originals(p)
    BY <1>1, <1>2, <2>1 DEF Originals
  <2> QED
    BY <2>4, <2>5, <2>6
<1>3. CASE i.state = "NEW"
  <2> DEFINE x == p \ {i}
  <2>1. q \in Commit(x, d)
    BY <1>3 DEF Deleted
  <2>2. x \in SUBSET Items /\ IsFiniteSet(x)
    BY <1>1, FS_RemoveElement
  <2>3. Sound(q, d) /\ Live(q) = Live(x) /\ Originals(q) = Originals(x)
    BY <2>1, <2>2, CommitSound
  <2>4. Live(x) = Live(p) \ {i}
    BY DEF Live
  <2>5. Originals(x) = Originals(p)
    <3>1. {j \in x : j.state \in {"EXISTING", "DELETED"}}
            = {j \in p : j.state \in {"EXISTING", "DELETED"}}
      BY <1>3
    <3> QED
      BY <3>1 DEF Originals
  <2> QED
    BY <2>3, <2>4, <2>5
<1> QED
  BY <1>2, <1>3 DEF Live

\* The Windows partition of a layout fits beside the others, in megabytes.
LEMMA WindowsFacts ==
  ASSUME NEW from \in Nat, NEW to \in Nat, NEW fixed \in Nat,
         WindowsSectors(from, to, fixed) > 0
  PROVE  /\ WindowsSectors(from, to, fixed) \in Nat
         /\ from + fixed + WindowsSectors(from, to, fixed) <= to
         /\ WindowsSectors(from, to, fixed) >= SectorsPerMB
         /\ \E k \in Nat : WindowsSectors(from, to, fixed) = k * SectorsPerMB
<1> DEFINE rest == to - from - fixed
           k    == rest \div SectorsPerMB
<1>1. from + fixed <= to /\ WindowsSectors(from, to, fixed) = k * SectorsPerMB
  BY DEF WindowsSectors
<1>2. rest \in Nat
  BY <1>1
<1>3. k \in Nat /\ rest % SectorsPerMB \in Nat /\ rest = k * SectorsPerMB + (rest % SectorsPerMB)
  BY <1>2, DivMod, PlanAssumption
<1> HIDE DEF k
<1>4. k * SectorsPerMB \in Nat
  BY <1>3, WholeMod, PlanAssumption
<1>5. k # 0
  BY <1>1, PlanAssumption
<1>6. k * SectorsPerMB >= SectorsPerMB
  BY <1>3, <1>5, WholeSize, PlanAssumption
<1>7. k * SectorsPerMB <= rest
  BY <1>2, <1>3, <1>4
<1> QED
  BY <1>1, <1>3, <1>4, <1>6, <1>7

\* A layout begins on a whole megabyte of the free range, not the first.
LEMMA LayoutStartFacts ==
  ASSUME NEW free \in Items
  PROVE  /\ LayoutStart(free) \in Nat
         /\ LayoutStart(free) >= free.start
         /\ LayoutStart(free) >= SectorsPerMB
         /\ LayoutStart(free) % SectorsPerMB = 0
<1> DEFINE n == IF free.start < SectorsPerMB THEN SectorsPerMB ELSE free.start
<1>1. free.start \in Nat /\ SectorsPerMB \in Nat
  BY PlanAssumption DEF Items
<1>2. n \in Nat /\ n >= free.start /\ n >= SectorsPerMB
  BY <1>1
<1>3. LayoutStart(free) = AlignUp(n)
  BY DEF LayoutStart
<1> HIDE DEF n
<1>4. AlignUp(n) \in Nat /\ AlignUp(n) >= n /\ AlignUp(n) % SectorsPerMB = 0
  BY <1>2, Aligned
<1> QED
  BY <1>1, <1>2, <1>3, <1>4

\* A UEFI layout: one aligned partition for each role, between its start and
\* the sum of their sizes.
LEMMA UefiItemsFacts ==
  ASSUME NEW start \in Nat, start % SectorsPerMB = 0,
         NEW k \in Nat, NEW windows, windows = k * SectorsPerMB, windows >= SectorsPerMB
  PROVE  LET L == UefiItems(start, windows)
         IN  /\ L \in SUBSET Items
             /\ IsFiniteSet(L)
             /\ OneEach(L, "UEFI")
             /\ \A i \in L : /\ i.count >= SectorsPerMB
                             /\ i.start >= start
                             /\ i.start % SectorsPerMB = 0
                             /\ End(i) <= start + UefiFixed + windows
<1> DEFINE e == EfiMB * SectorsPerMB
           m == MsrMB * SectorsPerMB
           r == RecoveryMB * SectorsPerMB
           i1 == Item("NEW", "EFI",      start,                   e)
           i2 == Item("NEW", "MSR",      start + e,               m)
           i3 == Item("NEW", "WINDOWS",  start + e + m,           windows)
           i4 == Item("NEW", "RECOVERY", start + e + m + windows, r)
           L  == UefiItems(start, windows)
<1>1. /\ e \in Nat /\ e >= SectorsPerMB
      /\ m \in Nat /\ m >= SectorsPerMB
      /\ r \in Nat /\ r >= SectorsPerMB
      /\ UefiFixed = e + m + r
      /\ windows \in Nat
      /\ SectorsPerMB \in Nat \ {0}
  BY FixedSizes, WholeMod, PlanAssumption
<1>2. L = {i1, i2, i3, i4}
  BY DEF UefiItems
<1>3. /\ (start + e) % SectorsPerMB = 0
      /\ (start + e + m) % SectorsPerMB = 0
      /\ (start + e + m + windows) % SectorsPerMB = 0
  <2>1. (start + e) % SectorsPerMB = 0
    BY WholeAfter, PlanAssumption
  <2> DEFINE a == start + e
             b == start + e + m
  <2>2. a \in Nat /\ b \in Nat /\ b = a + m
    BY <1>1
  <2>3. (a + m) % SectorsPerMB = 0
    <3> HIDE DEF a
    <3>1. a % SectorsPerMB = 0
      BY <2>1 DEF a
    <3> QED
      BY <2>2, <3>1, WholeAfter, PlanAssumption
  <2>4. b % SectorsPerMB = 0
    BY <2>2, <2>3
  <2>5. (b + windows) % SectorsPerMB = 0
    <3> HIDE DEF b
    <3> QED
      BY <2>2, <2>4, WholeAfter, PlanAssumption
  <2> QED
    BY <2>1, <2>4, <2>5
<1> HIDE DEF e, m, r, L
<1>4. /\ i1 \in Items /\ i2 \in Items /\ i3 \in Items /\ i4 \in Items
  BY <1>1 DEF Item, Items, ItemStates, Roles, UefiRoles, BiosRoles
<1>5. IsFiniteSet({i1, i2, i3, i4})
  <2> HIDE DEF i1, i2, i3, i4
  <2>1. IsFiniteSet({i1}) /\ IsFiniteSet({i2}) /\ IsFiniteSet({i3}) /\ IsFiniteSet({i4})
    BY FS_Singleton
  <2>2. IsFiniteSet({i1} \union {i2}) /\ IsFiniteSet({i3} \union {i4})
    BY <2>1, FS_Union
  <2>3. IsFiniteSet(({i1} \union {i2}) \union ({i3} \union {i4}))
    BY <2>2, FS_Union
  <2>4. {i1, i2, i3, i4} = ({i1} \union {i2}) \union ({i3} \union {i4})
    OBVIOUS
  <2> QED
    BY <2>3, <2>4
<1>6. OneEach({i1, i2, i3, i4}, "UEFI")
  BY DEF OneEach, LayoutRoles, UefiRoles, Item
<1>7. \A i \in {i1, i2, i3, i4} :
        /\ i.count >= SectorsPerMB
        /\ i.start >= start
        /\ i.start % SectorsPerMB = 0
        /\ End(i) <= start + UefiFixed + windows
  BY <1>1, <1>3 DEF Item, End
<1>8. {i1, i2, i3, i4} \in SUBSET Items
  BY <1>4
<1> HIDE DEF i1, i2, i3, i4
<1> QED
  BY <1>2, <1>5, <1>6, <1>7, <1>8 DEF L

\* A BIOS layout likewise, of three partitions.
LEMMA BiosItemsFacts ==
  ASSUME NEW start \in Nat, NEW windows \in Nat, windows >= SectorsPerMB
  PROVE  LET L == BiosItems(start, windows)
         IN  /\ L \in SUBSET Items
             /\ IsFiniteSet(L)
             /\ OneEach(L, "BIOS")
             /\ \A i \in L : /\ i.count >= SectorsPerMB
                             /\ i.start >= start
                             /\ End(i) <= start + BiosFixed + windows
<1> DEFINE s == SystemReservedMB * SectorsPerMB
           r == RecoveryMB * SectorsPerMB
           i1 == Item("NEW", "SYSTEM_RESERVED", start,           s)
           i2 == Item("NEW", "WINDOWS",  start + s,           windows)
           i3 == Item("NEW", "RECOVERY", start + s + windows, r)
           L  == BiosItems(start, windows)
<1>1. /\ s \in Nat /\ s >= SectorsPerMB
      /\ r \in Nat /\ r >= SectorsPerMB
      /\ BiosFixed = s + r
      /\ SectorsPerMB \in Nat \ {0}
  BY FixedSizes, PlanAssumption
<1>2. L = {i1, i2, i3}
  BY DEF BiosItems
<1> HIDE DEF s, r, L
<1>3. {i1, i2, i3} \in SUBSET Items
  BY <1>1 DEF Item, Items, ItemStates, Roles, UefiRoles, BiosRoles
<1>4. IsFiniteSet({i1, i2, i3})
  <2> HIDE DEF i1, i2, i3
  <2>1. IsFiniteSet({i1}) /\ IsFiniteSet({i2}) /\ IsFiniteSet({i3})
    BY FS_Singleton
  <2>2. IsFiniteSet({i1} \union {i2})
    BY <2>1, FS_Union
  <2>3. IsFiniteSet(({i1} \union {i2}) \union {i3})
    BY <2>1, <2>2, FS_Union
  <2>4. {i1, i2, i3} = ({i1} \union {i2}) \union {i3}
    OBVIOUS
  <2> QED
    BY <2>3, <2>4
<1>5. OneEach({i1, i2, i3}, "BIOS")
  BY DEF OneEach, LayoutRoles, BiosRoles, Item
<1>6. \A i \in {i1, i2, i3} :
        /\ i.count >= SectorsPerMB
        /\ i.start >= start
        /\ End(i) <= start + BiosFixed + windows
  BY <1>1 DEF Item, End
<1> HIDE DEF i1, i2, i3
<1> QED
  BY <1>2, <1>3, <1>4, <1>5, <1>6 DEF L

\* What stands in free space is no item of the plan.
LEMMA InFreeIsOther ==
  ASSUME NEW p, NEW d \in Nat, Sound(p, d), NEW free \in Free(p),
         NEW L \in SUBSET Items,
         \A i \in L : /\ i.state = "NEW" /\ i.count > 0
                      /\ i.start >= free.start /\ End(i) <= End(free)
  PROVE  L \intersect p = {}
<1> SUFFICES ASSUME NEW i \in L, i \in p
    PROVE  FALSE
  OBVIOUS
<1>1. free \in p /\ free \in Items /\ free.state = "UNALLOCATED" /\ free.count > 0
  BY FreeFacts
<1>2. i # free /\ i.state = "NEW"
  BY <1>1
<1>3. ~Overlap(i, free)
  BY <1>1, <1>2, ValidFacts DEF Sound
<1>4. Overlap(i, free)
  BY <1>1 DEF Overlap, End, Items
<1> QED
  BY <1>3, <1>4

\* A plan with a complete layout beside the partitions of another.
PutIn(L, p, q, m, d) ==
  /\ OneEach(L, m)
  /\ L \intersect p = {}
  /\ q = Rebuild(p \union L, d)
  /\ Live(q) = Live(p) \union L

\* A UEFI layout in a free range, aligned and clear of both GPTs.
ClearOfGpts(L, free, m, d) ==
  \A i \in L :
    /\ i.count >= SectorsPerMB
    /\ m = "UEFI" =>
         /\ i.start >= SectorsPerMB
         /\ i.start % SectorsPerMB = 0
         /\ End(i) <= End(free)
         /\ End(free) = d => End(i) + SectorsPerMB <= d

\* A plan laid out is the plan before with a layout in its free range: a UEFI
\* one aligned and clear of both GPTs.
LEMMA LaidOutSound ==
  ASSUME NEW p, NEW d \in Nat, Sound(p, d), NEW free, NEW m \in Modes,
         NEW q \in LaidOut(p, d, free, m)
  PROVE  /\ Sound(q, d)
         /\ Originals(q) = Originals(p)
         /\ free \in Free(p)
         /\ \E L \in SUBSET Items : PutIn(L, p, q, m, d) /\ ClearOfGpts(L, free, m, d)
<1>1. free \in Free(p)
  BY DEF LaidOut, UefiLaidOut, BiosLaidOut
<1>2. /\ free \in p /\ free \in Items /\ free.count > 0
      /\ End(free) \in Nat /\ free.start \in Nat
  BY <1>1, FreeFacts DEF End, Items
<1> DEFINE start == LayoutStart(free)
<1>3. start \in Nat /\ start >= free.start /\ start >= SectorsPerMB
      /\ start % SectorsPerMB = 0
  BY <1>2, LayoutStartFacts
<1>4. SectorsPerMB \in Nat \ {0}
  BY PlanAssumption
<1> HIDE DEF start
<1>5. \E L \in SUBSET Items :
        /\ IsFiniteSet(L)
        /\ OneEach(L, m)
        /\ q \in Commit(p \union L, d)
        /\ \A i \in L :
             /\ i.count >= SectorsPerMB
             /\ i.start >= free.start
             /\ End(i) <= End(free)
             /\ m = "UEFI" =>
                  /\ i.start >= SectorsPerMB
                  /\ i.start % SectorsPerMB = 0
                  /\ End(free) = d => End(i) + SectorsPerMB <= d
  <2>1. CASE m = "UEFI"
    <3> DEFINE to      == UefiEnd(free, d)
               windows == WindowsSectors(start, to, UefiFixed)
               L       == UefiItems(start, windows)
    <3>1. windows > 0 /\ q \in Commit(p \union L, d)
      BY <2>1 DEF LaidOut, UefiLaidOut, start
    <3>2. to \in Nat /\ to <= End(free)
      BY <1>2, <1>4 DEF UefiEnd
    <3>3. End(free) = d => to = 0 \/ to + SectorsPerMB = d
      BY <1>2, <1>4 DEF UefiEnd
    <3>4. UefiFixed \in Nat
      BY FixedSizes
    <3> HIDE DEF to
    <3>5. /\ windows \in Nat /\ windows >= SectorsPerMB
          /\ start + UefiFixed + windows <= to
          /\ \E k \in Nat : windows = k * SectorsPerMB
      BY <1>3, <3>1, <3>2, <3>4, WindowsFacts
    <3> HIDE DEF windows
    <3>6. /\ L \in SUBSET Items
          /\ IsFiniteSet(L)
          /\ OneEach(L, "UEFI")
          /\ \A i \in L : /\ i.count >= SectorsPerMB
                          /\ i.start >= start
                          /\ i.start % SectorsPerMB = 0
                          /\ End(i) <= start + UefiFixed + windows
      BY <1>3, <3>5, UefiItemsFacts
    <3> HIDE DEF L
    <3>7. ASSUME NEW i \in L
          PROVE  /\ i.start >= free.start
                 /\ End(i) <= End(free)
                 /\ i.start >= SectorsPerMB
                 /\ End(free) = d => End(i) + SectorsPerMB <= d
      <4>1. i.start \in Nat /\ End(i) \in Nat
        BY <3>6 DEF Items, End
      <4>2. i.start >= start /\ End(i) <= start + UefiFixed + windows
        BY <3>6
      <4>3. End(i) <= to
        BY <1>3, <3>2, <3>4, <3>5, <4>1, <4>2
      <4>4. to # 0
        BY <1>3, <1>4, <3>4, <3>5, <3>2
      <4> QED
        BY <1>2, <1>3, <1>4, <3>2, <3>3, <4>1, <4>2, <4>3, <4>4
    <3> QED
      BY <2>1, <3>1, <3>6, <3>7
  <2>2. CASE m = "BIOS"
    <3> DEFINE windows == WindowsSectors(start, End(free), BiosFixed)
               L       == BiosItems(start, windows)
    <3>1. windows > 0 /\ q \in Commit(p \union L, d)
      BY <2>2 DEF LaidOut, BiosLaidOut, start
    <3>2. BiosFixed \in Nat
      BY FixedSizes
    <3>3. /\ windows \in Nat /\ windows >= SectorsPerMB
          /\ start + BiosFixed + windows <= End(free)
      BY <1>2, <1>3, <3>1, <3>2, WindowsFacts
    <3> HIDE DEF windows
    <3>4. /\ L \in SUBSET Items
          /\ IsFiniteSet(L)
          /\ OneEach(L, "BIOS")
          /\ \A i \in L : /\ i.count >= SectorsPerMB
                          /\ i.start >= start
                          /\ End(i) <= start + BiosFixed + windows
      BY <1>3, <3>3, BiosItemsFacts
    <3> HIDE DEF L
    <3>5. ASSUME NEW i \in L
          PROVE  i.start >= free.start /\ End(i) <= End(free)
      <4>1. i.start \in Nat /\ End(i) \in Nat
        BY <3>4 DEF Items, End
      <4>2. i.start >= start /\ End(i) <= start + BiosFixed + windows
        BY <3>4
      <4> QED
        BY <1>2, <1>3, <3>2, <3>3, <4>1, <4>2
    <3> QED
      BY <2>2, <3>1, <3>4, <3>5
  <2> QED
    BY <2>1, <2>2 DEF Modes
<1>6. PICK L \in SUBSET Items :
        /\ IsFiniteSet(L)
        /\ OneEach(L, m)
        /\ q \in Commit(p \union L, d)
        /\ \A i \in L :
             /\ i.count >= SectorsPerMB
             /\ i.start >= free.start
             /\ End(i) <= End(free)
             /\ m = "UEFI" =>
                  /\ i.start >= SectorsPerMB
                  /\ i.start % SectorsPerMB = 0
                  /\ End(free) = d => End(i) + SectorsPerMB <= d
  BY <1>5
<1>7. \A i \in L : i.state = "NEW" /\ i.count > 0
  BY <1>4, <1>6 DEF OneEach, Items
<1>8. L \intersect p = {}
  BY <1>1, <1>6, <1>7, InFreeIsOther
<1> DEFINE x == p \union L
<1>9. x \in SUBSET Items /\ IsFiniteSet(x)
  BY <1>6, FS_Union DEF Sound
<1>10. Live(x) = Live(p) \union L
  BY <1>7 DEF Live
<1>11. Originals(x) = Originals(p)
  <2>1. {j \in x : j.state \in {"EXISTING", "DELETED"}}
          = {j \in p : j.state \in {"EXISTING", "DELETED"}}
    BY <1>7
  <2> QED
    BY <2>1 DEF Originals
<1>12. q \in Commit(x, d)
  BY <1>6
<1> HIDE DEF x
<1>13. Sound(q, d) /\ q = Rebuild(x, d) /\ Live(q) = Live(x) /\ Originals(q) = Originals(x)
  BY <1>9, <1>12, CommitSound
<1> QED
  BY <1>1, <1>6, <1>8, <1>10, <1>11, <1>13 DEF x, PutIn, ClearOfGpts

\* A plan undone is the plan without its layout, rebuilt.
LEMMA UndoneSound ==
  ASSUME NEW p, NEW d \in Nat, Sound(p, d), NEW m \in Modes, NEW q \in Undone(p, d, m)
  PROVE  /\ HasLayout(p, d, m)
         /\ Sound(q, d)
         /\ Originals(q) = Originals(p)
         /\ q = Rebuild(p \ LayoutItems(p, m), d)
         /\ Live(q) \subseteq Live(p)
<1> DEFINE x == p \ LayoutItems(p, m)
<1>1. HasLayout(p, d, m) /\ q \in Commit(x, d)
  BY DEF Undone
<1>2. \A i \in LayoutItems(p, m) : i.state = "NEW"
  BY DEF LayoutItems, NewWithRole
<1>3. x \in SUBSET Items /\ IsFiniteSet(x)
  <2>1. x \in SUBSET p /\ p \in SUBSET Items /\ IsFiniteSet(p)
    BY DEF Sound
  <2> QED
    BY <2>1, FS_Subset
<1>4. Sound(q, d) /\ q = Rebuild(x, d) /\ Live(q) = Live(x) /\ Originals(q) = Originals(x)
  BY <1>1, <1>3, CommitSound
<1>5. Live(x) \subseteq Live(p)
  BY DEF Live
<1>6. Originals(x) = Originals(p)
  <2>1. {j \in x : j.state \in {"EXISTING", "DELETED"}}
          = {j \in p : j.state \in {"EXISTING", "DELETED"}}
    BY <1>2
  <2> QED
    BY <2>1 DEF Originals
<1> QED
  BY <1>1, <1>4, <1>5, <1>6

\* In a plan with just one new item for each role, a complete layout in it is
\* the layout.
LEMMA OnlyLayout ==
  ASSUME NEW p, IsFiniteSet(p), NEW d, NEW m, HasLayout(p, d, m),
         NEW L \in SUBSET p, OneEach(L, m)
  PROVE  LayoutItems(p, m) = L
<1>1. ASSUME NEW role \in LayoutRoles(m), NEW i \in NewWithRole(p, role)
      PROVE  i \in L
  <2>1. IsFiniteSet(NewWithRole(p, role))
    BY FS_Subset DEF NewWithRole
  <2>2. PICK x : NewWithRole(p, role) = {x}
    BY <2>1, FS_Singleton DEF HasLayout
  <2>3. PICK l \in L : l.role = role
    BY DEF OneEach
  <2>4. l \in NewWithRole(p, role)
    BY <2>3 DEF NewWithRole, OneEach
  <2> QED
    BY <2>2, <2>3, <2>4
<1>2. ASSUME NEW l \in L
      PROVE  l.role \in LayoutRoles(m) /\ l \in NewWithRole(p, l.role)
  BY DEF NewWithRole, OneEach
<1> QED
  BY <1>1, <1>2 DEF LayoutItems

\* Undoing a layout gives back the plan it was put in.
LEMMA UndoneRestores ==
  ASSUME NEW p, NEW d \in Nat, Sound(p, d), NEW m \in Modes,
         NEW b \in SUBSET Items, LaidIn(p, b, m, d), NEW q \in Undone(p, d, m)
  PROVE  q = b
<1>1. HasLayout(p, d, m) /\ q = Rebuild(p \ LayoutItems(p, m), d)
  BY UndoneSound
<1>2. p \in SUBSET Items /\ IsFiniteSet(p)
  BY DEF Sound
<1>3. PICK L \in SUBSET Placed(p) :
        /\ OneEach(L, m)
        /\ L \intersect b = {}
        /\ p = Rebuild(b \union L, d)
  BY DEF LaidIn
<1>4. L \in SUBSET p /\ L \in SUBSET Items
  BY <1>2, <1>3 DEF Placed
<1>5. LayoutItems(p, m) = L
  BY <1>1, <1>2, <1>3, <1>4, OnlyLayout
<1>6. \A i \in L : i.state = "NEW"
  BY <1>3 DEF OneEach
<1>7. Placed(p) = Placed(b) \union L
  <2>1. b \union L \in SUBSET Items
    BY <1>4
  <2>2. Placed(p) = Placed(b \union L)
    BY <1>3, <2>1, RebuildFacts
  <2>3. Placed(b \union L) = Placed(b) \union L
    BY <1>6 DEF Placed
  <2> QED
    BY <2>2, <2>3
<1>8. Placed(p \ L) = Placed(b)
  BY <1>3, <1>7 DEF Placed
<1>9. Live(p \ L) = Live(b)
  <2>1. \A s : Live(s) = Live(Placed(s))
    BY DEF Live, Placed
  <2> QED
    BY <1>8, <2>1
<1>10. Rebuild(p \ L, d) = Rebuild(b, d)
  BY <1>8, <1>9 DEF Rebuild
<1> QED
  BY <1>1, <1>5, <1>10 DEF LaidIn

\* A target prepared is an item of the plan it is prepared in: a partition
\* of the plan that is left as it is, or the Windows partition of a layout.
LEMMA PreparedFacts ==
  ASSUME NEW p, NEW d, NEW i, NEW m, NEW r \in Prepared(p, d, i, m)
  PROVE  /\ i \in p
         /\ InstallTarget(r[2])
         /\ r[2] \in r[1]
         /\ \/ i.state # "UNALLOCATED" /\ r[1] = p
            \/ i.state = "UNALLOCATED" /\ r[1] \in LaidOut(p, d, i, m)
<1>1. i \in p
  BY DEF Prepared
<1>2. CASE InstallTarget(i)
  <2>1. r = <<p, i>>
    BY <1>1, <1>2 DEF Prepared
  <2>2. i.state # "UNALLOCATED"
    BY <1>2 DEF InstallTarget
  <2> QED
    BY <1>1, <1>2, <2>1, <2>2
<1>3. CASE ~InstallTarget(i)
  <2>1. i.state = "UNALLOCATED"
    BY <1>1, <1>3 DEF Prepared
  <2>2. PICK q \in LaidOut(p, d, i, m),
             w \in (UNION {NewWithRole(o, "WINDOWS") : o \in LaidOut(p, d, i, m)})
                   \ NewWithRole(p, "WINDOWS") : r = <<q, w>>
    BY <1>1, <1>3, <2>1 DEF Prepared
  <2>3. PICK o \in LaidOut(p, d, i, m) : w \in NewWithRole(o, "WINDOWS")
    BY <2>2
  <2>4. o = q
    BY <2>2, <2>3 DEF LaidOut, UefiLaidOut, BiosLaidOut, Commit
  <2>5. w \in q /\ InstallTarget(w)
    BY <2>3, <2>4 DEF NewWithRole, InstallTarget
  <2> QED
    BY <1>1, <2>1, <2>2, <2>5
<1> QED
  BY <1>2, <1>3

\* On a disk that had no partitions a layout leaves room for the GPTs.
LEMMA RoomLaidOut ==
  ASSUME NEW p, NEW d \in Nat, Sound(p, d), Originals(p) = {}, Room(p, d),
         NEW m \in Modes, m = "UEFI", NEW free, NEW q \in LaidOut(p, d, free, m)
  PROVE  Room(q, d)
<1>1. Sound(q, d) /\ free \in Free(p)
  BY LaidOutSound
<1>2. PICK L \in SUBSET Items : PutIn(L, p, q, m, d) /\ ClearOfGpts(L, free, m, d)
  BY LaidOutSound
<1>3. End(free) = d \/ End(free) + SectorsPerMB <= d
  <2> SUFFICES ASSUME NEW j \in Live(p), j.start = End(free)
      PROVE  End(free) + SectorsPerMB <= d
    BY <1>1, FreeFacts
  <2>1. j \in p /\ j \in Items
    BY DEF Sound, Live
  <2>2. j.state = "NEW"
    <3>1. \A i \in p : i.state \notin {"EXISTING", "DELETED"}
      BY DEF Originals
    <3> QED
      BY <2>1, <3>1 DEF Live
  <2>3. j.count >= SectorsPerMB /\ End(j) <= d
    BY <2>1, <2>2, ValidFacts DEF Room, Sound
  <2> QED
    BY <2>1, <2>3, PlanAssumption DEF End, Items
<1>4. ASSUME NEW i \in L
      PROVE  End(i) + SectorsPerMB <= d
  <2>1. End(i) \in Nat /\ End(free) \in Nat
    BY <1>1, FreeFacts DEF End, Items
  <2> QED
    BY <1>2, <1>3, <2>1, PlanAssumption DEF ClearOfGpts
<1>5. ASSUME NEW i \in q, i.state = "NEW"
      PROVE  i \in L \/ i \in p
  BY <1>2, <1>5 DEF Live, PutIn
<1> QED
  BY <1>2, <1>4, <1>5 DEF Room, ClearOfGpts

-----------------------------------------------------------------------------
(***************************************************************************)
(* The screens.                                                            *)
(***************************************************************************)
\* The selected disk is one of those there are.
LEMMA DiskFacts ==
  ASSUME TypeOK
  PROVE  /\ disk.sectors \in Nat
         /\ disk.parts \in SUBSET [start: Nat, count: Nat]
         /\ IsFiniteSet(disk.parts)
BY DisksAssumption DEF TypeOK

\* A plan with an item in it is a sound plan of the disk.
LEMMA PlanFacts ==
  ASSUME PlanInv, plan # {}
  PROVE  /\ hasPlan
         /\ Sound(plan, disk.sectors)
         /\ Originals(plan) = disk.parts
         /\ disk.sectors \in Nat
BY DiskFacts DEF PlanInv, PlanKnown, OriginalsKept, Originals

\* Nothing is planned at the start.
LEMMA PlanInit == Init => PlanInv
<1> SUFFICES ASSUME Init
    PROVE  PlanInv
  OBVIOUS
<1> USE DEF Init
<1>1. TypeOK
  BY DEF TypeOK, Screens, Modes, NoItem, Item, Items, ItemStates, Roles
<1>2. PlanKnown /\ OriginalsKept /\ TargetCurrent /\ ReadyKnown /\ LayoutKnown
  BY DEF PlanKnown, OriginalsKept, TargetCurrent, ReadyKnown, LayoutKnown
<1>3. RoomKnown
  BY DEF RoomKnown, Room
<1> QED
  BY <1>1, <1>2, <1>3 DEF PlanInv

\* Another mode or disk: the plan and all that was made with it goes.
LEMMA ResetHolds ==
  ASSUME PlanInv, ChooseMode \/ ChooseDisk
  PROVE  PlanInv'
<1>1. /\ screen = "BEFORE" /\ screen' = "BEFORE"
      /\ mode' \in Modes /\ disk' \in PlanDisks
      /\ ResetPlan
  BY DEF PlanInv, TypeOK, ChooseMode, ChooseDisk
<1>2. /\ hasPlan' = FALSE /\ plan' = {} /\ target' = NoItem /\ before' = {}
      /\ roles' = {} /\ ready' = FALSE
  BY <1>1 DEF ResetPlan, ClearFormatPlans
<1>3. TypeOK'
  BY <1>1, <1>2 DEF TypeOK, Screens, NoItem, Item, Items, ItemStates, Roles
<1>4. PlanKnown' /\ OriginalsKept' /\ TargetCurrent' /\ ReadyKnown' /\ LayoutKnown'
  BY <1>1, <1>2 DEF PlanKnown, OriginalsKept, TargetCurrent, ReadyKnown, LayoutKnown
<1>5. RoomKnown'
  BY <1>2 DEF RoomKnown, Room
<1> QED
  BY <1>3, <1>4, <1>5 DEF PlanInv

\* Entering the partition screen: the plan there is, or the first of the disk.
LEMMA EnterHolds ==
  ASSUME PlanInv, EnterPartition
  PROVE  PlanInv'
<1>1. /\ screen' = "PARTITION"
      /\ UNCHANGED <<mode, disk, target, roles, ready, before>>
  BY DEF EnterPartition
<1>2. CASE UNCHANGED <<hasPlan, plan>>
  <2>1. TypeOK' /\ PlanKnown' /\ OriginalsKept' /\ LayoutKnown' /\ RoomKnown'
    BY <1>1, <1>2 DEF PlanInv, TypeOK, Screens, PlanKnown, OriginalsKept, LayoutKnown, RoomKnown
  <2>2. ReadyKnown' /\ TargetCurrent'
    BY <1>1, <1>2 DEF PlanInv, ReadyKnown, TargetCurrent
  <2> QED
    BY <2>1, <2>2 DEF PlanInv
<1>3. CASE /\ ~hasPlan
           /\ plan' \in InitialPlan(disk.parts, disk.sectors)
           /\ hasPlan' = TRUE
  <2>1. before = {} /\ ~ready
    BY <1>3 DEF PlanInv, PlanKnown
  <2>2. /\ Sound(plan', disk.sectors)
        /\ Originals(plan') = disk.parts
        /\ \A i \in plan' : i.state # "NEW"
    BY <1>3, DiskFacts, InitialSound DEF PlanInv
  <2>3. TypeOK'
    BY <1>1, <1>3, <2>2 DEF PlanInv, TypeOK, Screens, Sound
  <2>4. PlanKnown' /\ LayoutKnown' /\ ReadyKnown' /\ TargetCurrent'
    BY <1>1, <1>3, <2>1, <2>2 DEF PlanKnown, LayoutKnown, ReadyKnown, TargetCurrent
  <2>5. OriginalsKept'
    BY <1>1, <2>2 DEF OriginalsKept, Originals
  <2>6. RoomKnown'
    BY <1>1, <2>2 DEF RoomKnown, Room
  <2> QED
    BY <2>3, <2>4, <2>5, <2>6 DEF PlanInv
<1> QED
  BY <1>2, <1>3 DEF EnterPartition

\* A partition created is GENERIC: no format plan is missing for it.
LEMMA CreateHolds ==
  ASSUME PlanInv, CreatePartition
  PROVE  PlanInv'
<1>1. /\ screen = "PARTITION" /\ screen' = "PARTITION" /\ before' = {}
      /\ UNCHANGED <<mode, disk, hasPlan, target, roles, ready>>
  BY DEF CreatePartition
<1>2. PICK free \in Free(plan), mb \in CreateSizes :
        plan' \in Created(plan, disk.sectors, free, mb)
  BY DEF CreatePartition
<1>3. /\ hasPlan /\ Sound(plan, disk.sectors)
      /\ Originals(plan) = disk.parts /\ disk.sectors \in Nat
  BY <1>2, PlanFacts DEF Free
<1>4. mb \in Nat
  BY <1>2, DisksAssumption
<1>5. Sound(plan', disk.sectors) /\ Originals(plan') = disk.parts
  BY <1>2, <1>3, <1>4, CreatedSound
<1>6. PICK new \in Items :
        /\ new.state = "NEW" /\ new.role = "GENERIC"
        /\ new.count >= SectorsPerMB
        /\ Live(plan') = Live(plan) \union {new}
  BY <1>2, <1>3, <1>4, CreatedSound
<1>7. TypeOK'
  BY <1>1, <1>5 DEF PlanInv, TypeOK, Sound
<1>8. PlanKnown' /\ LayoutKnown' /\ TargetCurrent'
  BY <1>1, <1>3, <1>5 DEF PlanKnown, LayoutKnown, TargetCurrent
<1>9. OriginalsKept'
  BY <1>1, <1>5 DEF OriginalsKept, Originals
<1>10. ReadyKnown'
  BY <1>1, <1>6 DEF PlanInv, ReadyKnown
<1>11. RoomKnown'
  <2> SUFFICES ASSUME mode = "UEFI", disk.parts = {}, Room(plan, disk.sectors)
      PROVE  Room(plan', disk.sectors)
    BY <1>1 DEF PlanInv, RoomKnown
  <2>1. ASSUME NEW i \in plan', i.state = "NEW"
        PROVE  i \in plan \/ i = new
    BY <1>6, <2>1 DEF Live
  <2> QED
    BY <1>6, <2>1 DEF Room, UefiRoles
<1> QED
  BY <1>7, <1>8, <1>9, <1>10, <1>11 DEF PlanInv

\* A partition deleted leaves fewer to be formatted.
LEMMA DeleteHolds ==
  ASSUME PlanInv, DeletePartition
  PROVE  PlanInv'
<1>1. /\ screen = "PARTITION" /\ screen' = "PARTITION" /\ before' = {}
      /\ UNCHANGED <<mode, disk, hasPlan, target, roles, ready>>
  BY DEF DeletePartition
<1>2. PICK i \in Live(plan) : plan' \in Deleted(plan, disk.sectors, i)
  BY DEF DeletePartition
<1>3. /\ hasPlan /\ Sound(plan, disk.sectors)
      /\ Originals(plan) = disk.parts /\ disk.sectors \in Nat
  BY <1>2, PlanFacts DEF Live
<1>4. /\ Sound(plan', disk.sectors) /\ Originals(plan') = disk.parts
      /\ Live(plan') = Live(plan) \ {i}
  BY <1>2, <1>3, DeletedSound
<1>5. TypeOK'
  BY <1>1, <1>4 DEF PlanInv, TypeOK, Sound
<1>6. PlanKnown' /\ LayoutKnown' /\ TargetCurrent'
  BY <1>1, <1>3, <1>4 DEF PlanKnown, LayoutKnown, TargetCurrent
<1>7. OriginalsKept'
  BY <1>1, <1>4 DEF OriginalsKept, Originals
<1>8. ReadyKnown'
  BY <1>1, <1>4 DEF PlanInv, ReadyKnown
<1>9. RoomKnown'
  BY <1>1, <1>4 DEF PlanInv, RoomKnown, Room, Live
<1> QED
  BY <1>5, <1>6, <1>7, <1>8, <1>9 DEF PlanInv

\* A cleared or revalidated target is an item.
LEMMA RevalidatedFacts ==
  ASSUME NEW t \in Items, NEW p
  PROVE  /\ Revalidated(t, p) \in Items
         /\ Revalidated(t, p) # NoItem => Revalidated(t, p) = t /\ t \in p
BY DEF Revalidated, NoItem, Item, Items, ItemStates, Roles

\* Undo Layout drops the format plans with the layout.
LEMMA UndoHolds ==
  ASSUME PlanInv, UndoLayout
  PROVE  PlanInv'
<1>1. /\ screen = "PARTITION" /\ screen' = "PARTITION" /\ before' = {}
      /\ roles' = {} /\ ready' = FALSE
      /\ target' = Revalidated(target, plan')
      /\ plan' \in Undone(plan, disk.sectors, mode)
      /\ UNCHANGED <<mode, disk, hasPlan>>
  BY DEF UndoLayout, ClearFormatPlans
<1>2. plan # {}
  <2> SUFFICES ASSUME plan = {}
      PROVE  FALSE
    OBVIOUS
  <2>1. HasLayout({}, disk.sectors, mode)
    BY <1>1 DEF Undone
  <2>2. Cardinality(NewWithRole({}, "WINDOWS")) = 1
    BY <2>1 DEF HasLayout, LayoutRoles, UefiRoles, BiosRoles
  <2>3. NewWithRole({}, "WINDOWS") = {}
    BY DEF NewWithRole
  <2> QED
    BY <2>2, <2>3, FS_EmptySet
<1>3. /\ hasPlan /\ Sound(plan, disk.sectors)
      /\ Originals(plan) = disk.parts /\ disk.sectors \in Nat
  BY <1>2, PlanFacts
<1>4. /\ Sound(plan', disk.sectors) /\ Originals(plan') = disk.parts
      /\ Live(plan') \subseteq Live(plan)
  BY <1>1, <1>3, UndoneSound DEF PlanInv, TypeOK
<1>5. TypeOK'
  BY <1>1, <1>4, RevalidatedFacts DEF PlanInv, TypeOK, Sound
<1>6. PlanKnown' /\ LayoutKnown' /\ TargetCurrent' /\ ReadyKnown'
  BY <1>1, <1>3, <1>4 DEF PlanKnown, LayoutKnown, TargetCurrent, ReadyKnown
<1>7. OriginalsKept'
  BY <1>1, <1>4 DEF OriginalsKept, Originals
<1>8. RoomKnown'
  BY <1>1, <1>4 DEF PlanInv, RoomKnown, Room, Live
<1> QED
  BY <1>5, <1>6, <1>7, <1>8 DEF PlanInv

\* Choosing a target: the format plans start anew, and a layout put in is
\* remembered with the plan before it.
LEMMA SelectHolds ==
  ASSUME PlanInv, SelectTarget
  PROVE  PlanInv'
<1>1. /\ screen = "PARTITION" /\ screen' = "FORMAT"
      /\ roles' = {} /\ ready' = FALSE
      /\ UNCHANGED <<mode, disk, hasPlan>>
  BY DEF SelectTarget, ClearFormatPlans
<1>2. PICK i \in plan : \E r \in Prepared(plan, disk.sectors, i, mode) :
        /\ plan' = r[1]
        /\ target' = r[2]
        /\ before' = (IF i.state = "UNALLOCATED" THEN plan ELSE before)
  BY DEF SelectTarget
<1>3. /\ hasPlan /\ Sound(plan, disk.sectors)
      /\ Originals(plan) = disk.parts /\ disk.sectors \in Nat
  BY <1>2, PlanFacts
<1>4. mode \in Modes
  BY DEF PlanInv, TypeOK
<1>5. /\ InstallTarget(target') /\ target' \in plan'
      /\ \/ /\ i.state # "UNALLOCATED"
            /\ plan' = plan /\ before' = before
         \/ /\ i.state = "UNALLOCATED"
            /\ plan' \in LaidOut(plan, disk.sectors, i, mode) /\ before' = plan
  BY <1>2, PreparedFacts
<1>6. target' # NoItem
  BY <1>5 DEF InstallTarget, NoItem, Item
<1>7. CASE i.state # "UNALLOCATED"
  <2>1. plan' = plan /\ before' = before
    BY <1>5, <1>7
  <2>2. TypeOK'
    BY <1>1, <1>5, <2>1 DEF PlanInv, TypeOK, Screens
  <2>3. PlanKnown' /\ OriginalsKept' /\ LayoutKnown' /\ RoomKnown'
    BY <1>1, <1>3, <2>1 DEF PlanInv, PlanKnown, OriginalsKept, LayoutKnown, RoomKnown
  <2>4. TargetCurrent' /\ ReadyKnown'
    BY <1>1, <1>5, <1>6 DEF TargetCurrent, ReadyKnown
  <2> QED
    BY <2>2, <2>3, <2>4 DEF PlanInv
<1>8. CASE i.state = "UNALLOCATED"
  <2>1. plan' \in LaidOut(plan, disk.sectors, i, mode) /\ before' = plan
    BY <1>5, <1>8
  <2>2. /\ Sound(plan', disk.sectors)
        /\ Originals(plan') = disk.parts
    BY <1>3, <1>4, <2>1, LaidOutSound
  <2>3. PICK L \in SUBSET Items : PutIn(L, plan, plan', mode, disk.sectors)
    BY <1>3, <1>4, <2>1, LaidOutSound
  <2>4. TypeOK'
    BY <1>1, <1>5, <2>1, <2>2 DEF PlanInv, TypeOK, Screens, Sound
  <2>5. PlanKnown' /\ TargetCurrent' /\ ReadyKnown'
    BY <1>1, <1>3, <1>5, <1>6, <2>2 DEF PlanKnown, TargetCurrent, ReadyKnown
  <2>6. OriginalsKept'
    BY <1>1, <2>2 DEF OriginalsKept, Originals
  <2>7. LayoutKnown'
    <3>1. L \in SUBSET Placed(plan')
      BY <2>3 DEF Live, Placed, PutIn
    <3>2. LaidIn(plan', plan, mode, disk.sectors)
      BY <1>3, <2>3, <3>1 DEF LaidIn, Sound, PutIn
    <3> QED
      BY <1>1, <2>1, <3>2 DEF LayoutKnown
  <2>8. RoomKnown'
    <3> SUFFICES ASSUME mode = "UEFI", disk.parts = {}
        PROVE  Room(plan', disk.sectors)
      BY <1>1 DEF RoomKnown
    <3>1. Room(plan, disk.sectors)
      BY DEF PlanInv, RoomKnown
    <3> QED
      BY <1>3, <1>4, <2>1, <3>1, RoomLaidOut
  <2> QED
    BY <2>4, <2>5, <2>6, <2>7, <2>8 DEF PlanInv
<1> QED
  BY <1>7, <1>8

\* Leaving the partition screen drops a target that is gone, and with it the
\* format plans.
LEMMA LeaveHolds ==
  ASSUME PlanInv, LeavePartition
  PROVE  PlanInv'
<1>1. /\ screen' \in {"BEFORE", "PARTITION"}
      /\ target' = Revalidated(target, plan)
      /\ UNCHANGED <<mode, disk, hasPlan, plan, before>>
  BY DEF LeavePartition
<1>2. \/ roles' = {} /\ ready' = FALSE
      \/ roles' = roles /\ ready' = ready /\ (target # NoItem => target' # NoItem)
  BY DEF LeavePartition, ClearFormatPlans
<1>3. target \in Items /\ roles \subseteq Roles \ {"GENERIC"} /\ ready \in BOOLEAN
  BY DEF PlanInv, TypeOK
<1>4. target' \in Items /\ (target' # NoItem => target' \in plan)
  BY <1>1, <1>3, RevalidatedFacts
<1>5. roles' \subseteq Roles \ {"GENERIC"} /\ ready' \in BOOLEAN /\ (ready' => ready)
  <2>1. CASE roles' = {} /\ ready' = FALSE
    BY <2>1
  <2>2. CASE roles' = roles /\ ready' = ready
    BY <1>3, <2>2
  <2> QED
    BY <1>2, <2>1, <2>2
<1>6. TypeOK'
  BY <1>1, <1>4, <1>5 DEF PlanInv, TypeOK, Screens
<1>7. PlanKnown' /\ OriginalsKept' /\ LayoutKnown' /\ RoomKnown'
  BY <1>1, <1>5 DEF PlanInv, PlanKnown, OriginalsKept, LayoutKnown, RoomKnown
<1>8. TargetCurrent'
  BY <1>1, <1>4 DEF TargetCurrent
<1>9. ReadyKnown'
  BY <1>1, <1>2 DEF PlanInv, ReadyKnown
<1> QED
  BY <1>6, <1>7, <1>8, <1>9 DEF PlanInv

\* Choosing the filesystem makes the format plans of the plan as it is.
LEMMA FormatHolds ==
  ASSUME PlanInv, ChooseFormat
  PROVE  PlanInv'
<1>1. /\ screen = "FORMAT" /\ screen' = "PLANNED"
      /\ hasPlan /\ Valid(plan, disk.sectors) /\ target # NoItem
      /\ roles' = {i.role : i \in Live(plan)} \ {"GENERIC"}
      /\ ready' = TRUE
      /\ UNCHANGED <<mode, disk, hasPlan, plan, target, before>>
  BY DEF ChooseFormat
<1>2. roles' \subseteq Roles \ {"GENERIC"}
  <2> SUFFICES ASSUME NEW i \in Live(plan)
      PROVE  i.role \in Roles
    BY <1>1
  <2>1. i \in plan /\ i.state # "UNALLOCATED"
    BY DEF Live
  <2>2. i.role # "NONE"
    BY <1>1, <2>1, ValidFacts
  <2> QED
    BY <2>1, <2>2 DEF PlanInv, TypeOK, Items
<1>3. TypeOK'
  BY <1>1, <1>2 DEF PlanInv, TypeOK, Screens
<1>4. PlanKnown' /\ OriginalsKept' /\ LayoutKnown' /\ RoomKnown'
  BY <1>1 DEF PlanInv, PlanKnown, OriginalsKept, LayoutKnown, RoomKnown
<1>5. TargetCurrent' /\ ReadyKnown'
  BY <1>1 DEF PlanInv, TargetCurrent, ReadyKnown
<1> QED
  BY <1>3, <1>4, <1>5 DEF PlanInv

\* Going back changes no more than the screen.
LEMMA BackHolds ==
  ASSUME PlanInv, GoBack
  PROVE  PlanInv'
<1>1. /\ \/ screen = "FORMAT"  /\ screen' = "PARTITION"
         \/ screen = "PLANNED" /\ screen' = "FORMAT"
      /\ UNCHANGED <<mode, disk, hasPlan, plan, target, roles, ready, before>>
  BY DEF GoBack
<1>2. TypeOK'
  BY <1>1 DEF PlanInv, TypeOK, Screens
<1>3. PlanKnown' /\ OriginalsKept' /\ LayoutKnown' /\ RoomKnown'
  BY <1>1 DEF PlanInv, PlanKnown, OriginalsKept, LayoutKnown, RoomKnown
<1>4. TargetCurrent' /\ ReadyKnown'
  BY <1>1 DEF PlanInv, TargetCurrent, ReadyKnown
<1> QED
  BY <1>2, <1>3, <1>4 DEF PlanInv

\* Every step keeps the invariant.
LEMMA PlanStep ==
  ASSUME PlanInv, [Next]_vars
  PROVE  PlanInv'
<1>1. CASE UNCHANGED vars
  BY <1>1 DEF vars, PlanInv, TypeOK, PlanKnown, OriginalsKept, TargetCurrent,
              ReadyKnown, LayoutKnown, RoomKnown
<1>2. CASE ChooseMode \/ ChooseDisk
  BY <1>2, ResetHolds
<1>3. CASE EnterPartition
  BY <1>3, EnterHolds
<1>4. CASE CreatePartition
  BY <1>4, CreateHolds
<1>5. CASE DeletePartition
  BY <1>5, DeleteHolds
<1>6. CASE UndoLayout
  BY <1>6, UndoHolds
<1>7. CASE SelectTarget
  BY <1>7, SelectHolds
<1>8. CASE LeavePartition
  BY <1>8, LeaveHolds
<1>9. CASE ChooseFormat
  BY <1>9, FormatHolds
<1>10. CASE GoBack
  BY <1>10, BackHolds
<1> QED
  BY <1>1, <1>2, <1>3, <1>4, <1>5, <1>6, <1>7, <1>8, <1>9, <1>10 DEF Next

\* The inductive invariant of the planning screens: the plan is sound and
\* knows the disk's partitions, its target and format plans are of it, and a
\* layout put in is remembered until the next edit.
THEOREM PlanHolds == Spec => []PlanInv
<1>1. Init => PlanInv
  BY PlanInit
<1>2. PlanInv /\ [Next]_vars => PlanInv'
  BY PlanStep
<1> QED
  BY <1>1, <1>2, PTL DEF Spec

\* The configuration's fields have their types, whatever the screens do
\* (config.c:100-148).
THEOREM PlanTypeCorrect == Spec => []TypeOK
<1>1. PlanInv => TypeOK
  BY DEF PlanInv
<1> QED
  BY <1>1, PlanHolds, PTL

\* No sequence of edits forgets a partition of the disk
\* (partition_plan.c:889-915).
THEOREM PlanOriginalsKept == Spec => []OriginalsKept
<1>1. PlanInv => OriginalsKept
  BY DEF PlanInv
<1> QED
  BY <1>1, PlanHolds, PTL

\* Outside the partition screen the target is an item of the plan
\* (config.c:125-148).
THEOREM PlanTargetCurrent == Spec => []TargetCurrent
<1>1. PlanInv => TargetCurrent
  BY DEF PlanInv
<1> QED
  BY <1>1, PlanHolds, PTL

\* A plan handed on as ready has a filesystem for every role in it
\* (config.c:195-244).
THEOREM PlanReadyCovers == Spec => []ReadyCoversPlan
<1>1. PlanInv => ReadyCoversPlan
  BY DEF PlanInv, ReadyCoversPlan, ReadyKnown, TargetCurrent
<1> QED
  BY <1>1, PlanHolds, PTL

\* A UEFI layout alone on a disk that had no partitions passes the checks of
\* the apply plan.
LEMMA RoomApplies ==
  ASSUME PlanInv
  PROVE  UefiLayoutApplies
<1> SUFFICES ASSUME hasPlan, mode = "UEFI", disk.parts = {},
                    HasLayout(plan, disk.sectors, mode),
                    Placed(plan) = LayoutItems(plan, mode)
    PROVE  ValidGptPlan(Placed(plan), disk.sectors)
  BY DEF UefiLayoutApplies, Applicable
<1>1. Room(plan, disk.sectors) /\ plan \in SUBSET Items /\ disk.sectors \in Nat
  BY DiskFacts DEF PlanInv, RoomKnown, TypeOK
<1>2. ASSUME NEW i \in Placed(plan)
      PROVE  /\ i \in Items
             /\ i.start >= SectorsPerMB
             /\ i.start % SectorsPerMB = 0
             /\ End(i) + SectorsPerMB <= disk.sectors
  <2>1. PICK role \in UefiRoles : i \in NewWithRole(plan, role)
    BY DEF LayoutItems, LayoutRoles
  <2>2. i \in plan /\ i.state = "NEW" /\ i.role \in UefiRoles
    BY <2>1 DEF NewWithRole
  <2> QED
    BY <1>1, <2>2 DEF Room
<1>3. PICK i \in Placed(plan) : TRUE
  <2>1. Cardinality(NewWithRole(plan, "EFI")) = 1
    BY DEF HasLayout, LayoutRoles, UefiRoles
  <2>2. NewWithRole(plan, "EFI") # {}
    BY <2>1, FS_EmptySet
  <2> QED
    BY <2>2 DEF NewWithRole, Placed
<1>4. disk.sectors >= 2 * SectorsPerMB
  BY <1>1, <1>2, <1>3, PlanAssumption DEF End, Items
<1> QED
  BY <1>2, <1>4 DEF ValidGptPlan

\* A UEFI layout alone on an empty disk can be applied, however it was arrived
\* at (partition_plan.c:446-554, apply.c:209-258).
THEOREM PlanUefiLayoutApplies == Spec => []UefiLayoutApplies
<1>1. PlanInv => UefiLayoutApplies
  BY RoomApplies
<1> QED
  BY <1>1, PlanHolds, PTL

\* A step on the partition screen that takes the last new partition of a
\* layout away undoes the layout put in last.
LEMMA UndoStep ==
  ASSUME PlanInv, [Next]_vars,
         screen = "PARTITION", screen' = "PARTITION", plan' # plan, before # {},
         LayoutItems(plan, mode) # {}, LayoutItems(plan', mode) = {}
  PROVE  plan' = before
<1>1. /\ hasPlan /\ Sound(plan, disk.sectors) /\ disk.sectors \in Nat
      /\ mode \in Modes /\ before \in SUBSET Items
      /\ LaidIn(plan, before, mode, disk.sectors)
  <2>1. plan # {}
    BY DEF LayoutItems, NewWithRole
  <2> QED
    BY <2>1, PlanFacts DEF PlanInv, TypeOK, LayoutKnown
<1>2. \A i \in Live(plan') : i.state = "NEW" => i.role \notin LayoutRoles(mode)
  BY DEF LayoutItems, NewWithRole, Live
<1>3. ~CreatePartition
  <2> SUFFICES ASSUME CreatePartition
      PROVE  FALSE
    OBVIOUS
  <2>1. PICK free \in Free(plan), mb \in CreateSizes :
          plan' \in Created(plan, disk.sectors, free, mb)
    BY DEF CreatePartition
  <2>2. mb \in Nat
    BY <2>1, DisksAssumption
  <2>3. Live(plan) \subseteq Live(plan')
    BY <1>1, <2>1, <2>2, CreatedSound
  <2>4. PICK i \in LayoutItems(plan, mode) : TRUE
    OBVIOUS
  <2>5. i \in Live(plan) /\ i.state = "NEW" /\ i.role \in LayoutRoles(mode)
    BY <2>4 DEF LayoutItems, NewWithRole, Live
  <2> QED
    BY <1>2, <2>3, <2>5
<1>4. ~DeletePartition
  <2> SUFFICES ASSUME DeletePartition
      PROVE  FALSE
    OBVIOUS
  <2>1. PICK i \in Live(plan) : plan' \in Deleted(plan, disk.sectors, i)
    BY DEF DeletePartition
  <2>2. Live(plan') = Live(plan) \ {i}
    BY <1>1, <2>1, DeletedSound
  <2>3. PICK L \in SUBSET Placed(plan) : OneEach(L, mode)
    BY <1>1 DEF LaidIn
  <2>4. "WINDOWS" \in LayoutRoles(mode) /\ "RECOVERY" \in LayoutRoles(mode)
    BY DEF LayoutRoles, UefiRoles, BiosRoles
  <2>5. PICK w \in L : w.role = "WINDOWS"
    BY <2>3, <2>4 DEF OneEach
  <2>6. PICK r \in L : r.role = "RECOVERY"
    BY <2>3, <2>4 DEF OneEach
  <2>7. w \in Live(plan) /\ r \in Live(plan) /\ w.state = "NEW" /\ r.state = "NEW"
    BY <2>3, <2>5, <2>6 DEF OneEach, Placed, Live
  <2>8. w # r
    BY <2>5, <2>6
  <2> QED
    BY <1>2, <2>2, <2>4, <2>5, <2>6, <2>7, <2>8
<1>5. CASE UndoLayout
  BY <1>1, <1>5, UndoneRestores DEF UndoLayout
<1> QED
  BY <1>3, <1>4, <1>5
  DEF Next, vars, ChooseMode, ChooseDisk, EnterPartition, SelectTarget,
      LeavePartition, ChooseFormat, GoBack

\* Undoing a Windows layout gives back the plan it was put in
\* (partition_plan.c:825-877).
THEOREM PlanUndoRestores == Spec => UndoRestores
<1>1. PlanInv /\ [Next]_vars =>
        [(/\ screen = "PARTITION" /\ screen' = "PARTITION"
          /\ plan' # plan /\ before # {}
          /\ LayoutItems(plan, mode) # {} /\ LayoutItems(plan', mode) = {})
         => plan' = before]_vars
  BY UndoStep
<1> QED
  BY <1>1, PlanHolds, PTL DEF Spec, UndoRestores

-----------------------------------------------------------------------------
(***************************************************************************)
(* Why an edit is accepted: the rebuilt free space fits the partitions, and *)
(* there is at most one range more than before.                            *)
(***************************************************************************)
\* There is a least of some numbers, and a greatest of those up to a bound.
LEMMA Least ==
  ASSUME NEW T \in SUBSET Nat, T # {}
  PROVE  \E x \in T : \A y \in T : x <= y
<1> DEFINE R == {ss \in Nat \X Nat : ss[1] < ss[2]}
<1>1. IsWellFoundedOn(R, Nat)
  BY NatLessThanWellFounded DEF OpToRel
<1>2. PICK x \in T : \A y \in T : <<y, x>> \notin R
  <2> HIDE DEF R
  <2> QED
    BY <1>1, WFMin
<1>3. ASSUME NEW y \in T
      PROVE  x <= y
  <2>1. x \in Nat /\ y \in Nat
    OBVIOUS
  <2>2. <<y, x>> \notin R
    BY <1>2
  <2>3. ~(y < x)
    BY <2>1, <2>2
  <2> QED
    BY <2>1, <2>3
<1> QED
  BY <1>3

\* The greatest of some numbers up to a bound.
LEMMA Greatest ==
  ASSUME NEW T \in SUBSET Nat, T # {}, NEW s \in Nat, \A t \in T : t <= s
  PROVE  \E x \in T : \A y \in T : y <= x
<1> DEFINE U == {s - t : t \in T}
<1>1. U \in SUBSET Nat /\ U # {}
  <2>1. \A t \in T : s - t \in Nat
    <3> SUFFICES ASSUME NEW t \in T
        PROVE  s - t \in Nat
      OBVIOUS
    <3>1. t \in Nat /\ t <= s
      OBVIOUS
    <3> QED
      BY <3>1
  <2> QED
    BY <2>1
<1>2. PICK u \in U : \A v \in U : u <= v
  <2> HIDE DEF U
  <2> QED
    BY <1>1, Least
<1>3. PICK x \in T : u = s - x
  OBVIOUS
<1>4. ASSUME NEW y \in T
      PROVE  y <= x
  <2>1. s - y \in U
    OBVIOUS
  <2>2. s - x <= s - y
    BY <1>2, <1>3, <2>1
  <2>3. x \in Nat /\ y \in Nat
    OBVIOUS
  <2> QED
    BY <2>2, <2>3
<1> QED
  BY <1>4

\* A free range by its ends: not empty, within the disk, between partitions
\* or the ends of the disk, and clear of every partition.
LEMMA GapElim ==
  ASSUME NEW live \in SUBSET Items, NEW d \in Nat, NEW g \in Gaps(live, d)
  PROVE  /\ g \in Items /\ g.start \in Nat /\ End(g) \in Nat
         /\ g = Item("UNALLOCATED", "NONE", g.start, End(g) - g.start)
         /\ g.start < End(g)
         /\ End(g) <= d
         /\ g.start = 0 \/ \E i \in live : End(i) = g.start
         /\ End(g) = d \/ \E i \in live : i.start = End(g)
         /\ \A i \in live : i.start >= End(g) \/ g.start >= End(i)
<1> DEFINE froms == {0} \union {End(i) : i \in live}
           tos   == {d} \union {i.start : i \in live}
<1>1. froms \subseteq Nat /\ tos \subseteq Nat
  BY DEF Items, End
<1>2. PICK h \in froms \X tos :
        /\ h[1] < h[2]
        /\ h[2] <= d
        /\ \A i \in live : i.start >= h[2] \/ h[1] >= End(i)
        /\ g = Item("UNALLOCATED", "NONE", h[1], h[2] - h[1])
  BY DEF Gaps
<1>3. h[1] \in Nat /\ h[2] \in Nat
  BY <1>1
<1>4. g.start = h[1] /\ End(g) = h[2]
  BY <1>2, <1>3 DEF End, Item
<1>5. g \in Items
  BY GapFacts
<1>6. /\ h[1] = 0 \/ \E i \in live : End(i) = h[1]
      /\ h[2] = d \/ \E i \in live : i.start = h[2]
  OBVIOUS
<1> QED
  BY <1>2, <1>3, <1>4, <1>5, <1>6

\* Two sectors between which nothing is, and beyond which something is or
\* the disk ends.
FreeBetween(live, d, a, b) ==
  /\ a < b /\ b <= d
  /\ a = 0 \/ \E i \in live : End(i) = a
  /\ b = d \/ \E i \in live : i.start = b
  /\ \A i \in live : i.start >= b \/ a >= End(i)

\* The range between them is free.
LEMMA GapIntro ==
  ASSUME NEW live \in SUBSET Items, NEW d \in Nat, NEW a \in Nat, NEW b \in Nat,
         FreeBetween(live, d, a, b)
  PROVE  /\ Item("UNALLOCATED", "NONE", a, b - a) \in Gaps(live, d)
         /\ Item("UNALLOCATED", "NONE", a, b - a).start = a
         /\ End(Item("UNALLOCATED", "NONE", a, b - a)) = b
<1> DEFINE froms == {0} \union {End(i) : i \in live}
           tos   == {d} \union {i.start : i \in live}
           h     == <<a, b>>
<1>1. h \in froms \X tos /\ h[1] = a /\ h[2] = b
  BY DEF FreeBetween
<1> HIDE DEF h
<1>2. Item("UNALLOCATED", "NONE", h[1], h[2] - h[1]) \in Gaps(live, d)
  BY <1>1 DEF Gaps, FreeBetween
<1> QED
  BY <1>1, <1>2 DEF Item, End, FreeBetween

\* Partitions of a plan: not empty, within the disk.
Within(live, d) == live \subseteq Items /\ \A i \in live : i.count > 0 /\ End(i) <= d

\* No two of some items share a sector.
Apart(items) == \A i, j \in items : i = j \/ ~Overlap(i, j)

\* Two free ranges that share a sector are one.
LEMMA GapsApart ==
  ASSUME NEW d \in Nat, NEW live, Within(live, d),
         NEW g \in Gaps(live, d), NEW h \in Gaps(live, d), Overlap(g, h)
  PROVE  g = h
<1>1. live \in SUBSET Items /\ \A i \in live : i.start \in Nat /\ End(i) \in Nat /\ i.start < End(i)
  BY DEF Within, Items, End
<1>2. /\ g.start \in Nat /\ End(g) \in Nat /\ g.start < End(g) /\ End(g) <= d
      /\ g.start = 0 \/ \E i \in live : End(i) = g.start
      /\ End(g) = d \/ \E i \in live : i.start = End(g)
      /\ \A i \in live : i.start >= End(g) \/ g.start >= End(i)
      /\ g = Item("UNALLOCATED", "NONE", g.start, End(g) - g.start)
  BY <1>1, GapElim
<1>3. /\ h.start \in Nat /\ End(h) \in Nat /\ h.start < End(h) /\ End(h) <= d
      /\ h.start = 0 \/ \E i \in live : End(i) = h.start
      /\ End(h) = d \/ \E i \in live : i.start = End(h)
      /\ \A i \in live : i.start >= End(h) \/ h.start >= End(i)
      /\ h = Item("UNALLOCATED", "NONE", h.start, End(h) - h.start)
  BY <1>1, GapElim
<1>4. g.start < End(h) /\ h.start < End(g)
  BY DEF Overlap
<1>5. ~(g.start < h.start)
  BY <1>1, <1>2, <1>3, <1>4
<1>6. ~(h.start < g.start)
  BY <1>1, <1>2, <1>3, <1>4
<1>7. ~(End(g) < End(h))
  BY <1>1, <1>2, <1>3, <1>4
<1>8. ~(End(h) < End(g))
  BY <1>1, <1>2, <1>3, <1>4
<1>9. g.start = h.start /\ End(g) = End(h)
  BY <1>2, <1>3, <1>5, <1>6, <1>7, <1>8
<1> QED
  BY <1>2, <1>3, <1>9

\* A sector no partition holds is in a free range.
LEMMA GapAt ==
  ASSUME NEW d \in Nat, NEW live, Within(live, d), NEW s \in Nat, s < d,
         \A i \in live : i.start > s \/ End(i) <= s
  PROVE  \E g \in Gaps(live, d) : g.start <= s /\ s < End(g)
<1>1. live \in SUBSET Items /\ \A i \in live : i.start \in Nat /\ End(i) \in Nat /\ i.start < End(i)
  BY DEF Within, Items, End
<1> DEFINE froms == {a \in Nat : a <= s /\ (a = 0 \/ \E i \in live : End(i) = a)}
           tos   == {b \in Nat : s < b /\ b <= d /\ (b = d \/ \E i \in live : i.start = b)}
<1>2. PICK a \in Nat : a \in froms /\ \A y \in froms : y <= a
  <2>1. froms \in SUBSET Nat /\ 0 \in froms /\ \A y \in froms : y <= s
    OBVIOUS
  <2> HIDE DEF froms
  <2> QED
    BY <2>1, Greatest
<1>3. PICK b \in Nat : b \in tos /\ \A y \in tos : b <= y
  <2>1. tos \in SUBSET Nat /\ d \in tos
    OBVIOUS
  <2> HIDE DEF tos
  <2> QED
    BY <2>1, Least
<1>4. /\ a <= s /\ (a = 0 \/ \E i \in live : End(i) = a)
      /\ s < b /\ b <= d /\ (b = d \/ \E i \in live : i.start = b)
  BY <1>2, <1>3
<1>5. ASSUME NEW i \in live
      PROVE  i.start >= b \/ a >= End(i)
  <2>1. CASE i.start > s
    <3>1. i.start <= d
      BY <1>1 DEF Within
    <3>2. i.start \in tos
      BY <1>1, <2>1, <3>1
    <3> QED
      BY <1>1, <1>3, <1>4, <3>2
  <2>2. CASE End(i) <= s
    <3>1. End(i) \in froms
      BY <1>1, <2>2
    <3> QED
      BY <1>1, <1>2, <1>4, <3>1
  <2> QED
    BY <2>1, <2>2
<1> HIDE DEF froms, tos
<1> DEFINE g == Item("UNALLOCATED", "NONE", a, b - a)
<1>6. live \in SUBSET Items
  BY <1>1
<1>7. FreeBetween(live, d, a, b)
  BY <1>4, <1>5 DEF FreeBetween
<1>8. g \in Gaps(live, d) /\ g.start = a /\ End(g) = b
  BY <1>6, <1>7, GapIntro
<1> HIDE DEF g
<1> QED
  BY <1>4, <1>8

\* The items of a plan to be rebuilt: as valid as each can be alone, and those
\* that will be live apart from one another.
Plannable(x, d) ==
  /\ x \subseteq Items
  /\ IsFiniteSet(x)
  /\ \A i \in x : /\ i.count > 0
                  /\ End(i) <= d
                  /\ i.role = "NONE" <=> i.state = "UNALLOCATED"
  /\ Apart(Live(x))

\* A sound plan can be rebuilt again, and so can any part of it.
LEMMA SoundPlannable ==
  ASSUME NEW p, NEW d \in Nat, Sound(p, d), NEW x \in SUBSET p
  PROVE  Plannable(x, d)
<1>1. x \in SUBSET Items /\ IsFiniteSet(x)
  BY FS_Subset DEF Sound
<1>2. \A i \in x : /\ i.count > 0
                   /\ End(i) <= d
                   /\ i.role = "NONE" <=> i.state = "UNALLOCATED"
  BY ValidFacts DEF Sound
<1>3. Apart(Live(x))
  BY ValidFacts DEF Sound, Apart, Live
<1> QED
  BY <1>1, <1>2, <1>3 DEF Plannable

\* What is live in a plan to be rebuilt lies within the disk.
LEMMA LiveWithin ==
  ASSUME NEW x, NEW d \in Nat, Plannable(x, d)
  PROVE  /\ Within(Live(x), d)
         /\ \A i \in Live(x) : i.start \in Nat /\ End(i) \in Nat /\ i.start < End(i)
BY DEF Plannable, Within, Live, Items, End

\* The rebuilt free space fills the disk around the partitions.
LEMMA RebuiltTiles ==
  ASSUME NEW x, NEW d \in Nat, Plannable(x, d)
  PROVE  Tiles(Rebuild(x, d), d)
<1> DEFINE live  == Live(x)
           gaps  == Gaps(live, d)
           shown == live \union gaps
<1>1. /\ Within(live, d)
      /\ live \in SUBSET Items
      /\ \A i \in live : /\ i.start \in Nat /\ End(i) \in Nat
                         /\ i.start < End(i) /\ End(i) <= d
  BY LiveWithin DEF Within
<1>2. \A g \in gaps : /\ g.start \in Nat /\ End(g) \in Nat
                      /\ g.start < End(g) /\ End(g) <= d
                      /\ g.state = "UNALLOCATED"
                      /\ g.start = 0 \/ \E i \in live : End(i) = g.start
                      /\ \A i \in live : i.start >= End(g) \/ g.start >= End(i)
  BY <1>1, GapElim, GapFacts
<1>3. Rebuild(x, d) \ Gone(Rebuild(x, d)) = shown
  <2> HIDE DEF gaps
  <2>1. Rebuild(x, d) = Placed(x) \union gaps
    BY DEF Rebuild, gaps
  <2>2. \A i \in x : i.state \in ItemStates
    BY DEF Plannable, Items
  <2> QED
    BY <1>2, <2>1, <2>2 DEF Gone, Placed, Live, ItemStates
<1>4. Apart(live)
  BY DEF Plannable
<1>5. \A g, h \in gaps : g = h \/ ~Overlap(g, h)
  BY <1>1, GapsApart
<1> HIDE DEF live, gaps
<1>6. \A i, j \in shown : i = j \/ ~Overlap(i, j)
  <2>1. ASSUME NEW i \in live, NEW g \in gaps
        PROVE  ~Overlap(i, g) /\ ~Overlap(g, i)
    BY <1>1, <1>2 DEF Overlap
  <2> QED
    BY <1>4, <1>5, <2>1 DEF Apart
<1>7. ASSUME NEW s \in Nat, s < d
      PROVE  \E j \in shown : j.start <= s /\ s < End(j)
  <2>1. CASE \A i \in live : i.start > s \/ End(i) <= s
    <3>1. \E g \in gaps : g.start <= s /\ s < End(g)
      BY <1>1, <1>7, <2>1, GapAt DEF gaps
    <3> QED
      BY <3>1
  <2>2. CASE ~(\A i \in live : i.start > s \/ End(i) <= s)
    BY <1>1, <2>2
  <2> QED
    BY <2>1, <2>2
<1>8. \A j \in shown : j.start \in Nat /\ End(j) \in Nat /\ j.start < End(j) /\ End(j) <= d
  BY <1>1, <1>2
<1>9. ASSUME NEW i \in shown, i.start # 0
      PROVE  \E j \in shown : End(j) = i.start
  <2>1. i.start \in Nat /\ i.start - 1 \in Nat /\ i.start - 1 < d
    BY <1>8, <1>9
  <2>2. PICK j \in shown : j.start <= i.start - 1 /\ i.start - 1 < End(j)
    BY <1>7, <2>1
  <2>3. i # j /\ ~Overlap(i, j)
    BY <1>6, <1>8, <2>1, <2>2
  <2>4. End(j) = i.start
    BY <1>8, <2>1, <2>2, <2>3 DEF Overlap
  <2> QED
    BY <2>4
<1>10. d = 0 \/ \E i \in shown : End(i) = d
  <2> SUFFICES ASSUME d # 0
      PROVE  \E i \in shown : End(i) = d
    OBVIOUS
  <2>1. PICK j \in shown : j.start <= d - 1 /\ d - 1 < End(j)
    BY <1>7
  <2>2. End(j) = d
    BY <1>8, <2>1
  <2> QED
    BY <2>2
<1> HIDE DEF shown
<1> QED
  BY <1>3, <1>6, <1>9, <1>10 DEF Tiles

\* A plan rebuilt is kept if the item array is long enough.
LEMMA Committed ==
  ASSUME NEW x, NEW d \in Nat, Plannable(x, d),
         Cardinality(Rebuild(x, d)) <= MaxItems
  PROVE  Commit(x, d) = {Rebuild(x, d)}
<1>1. Within(Live(x), d) /\ Live(x) \in SUBSET Items
  BY LiveWithin DEF Within
<1> DEFINE gaps == Gaps(Live(x), d)
<1>2. \A g \in gaps : /\ g.state = "UNALLOCATED" /\ g.role = "NONE"
                      /\ g.start \in Nat /\ g.count \in Nat
                      /\ g.start < End(g) /\ End(g) <= d
  BY <1>1, GapElim, GapFacts DEF Items
<1> HIDE DEF gaps
<1>3. \A g \in gaps : g.count > 0
  BY <1>2 DEF End
<1>4. \A i \in Rebuild(x, d) : /\ i.count > 0
                               /\ End(i) <= d
                               /\ i.role = "NONE" <=> i.state = "UNALLOCATED"
  <2>1. Rebuild(x, d) = Placed(x) \union gaps
    BY DEF Rebuild, gaps
  <2>2. \A i \in Placed(x) : /\ i.count > 0
                             /\ End(i) <= d
                             /\ i.role = "NONE" <=> i.state = "UNALLOCATED"
    BY DEF Placed, Plannable
  <2> QED
    BY <1>2, <1>3, <2>1, <2>2
<1>5. Valid(Rebuild(x, d), d)
  BY <1>4, RebuiltTiles DEF Valid
<1> QED
  BY <1>5 DEF Commit

\* At most one more: all but one are known.
LEMMA OneMore ==
  ASSUME NEW S, IsFiniteSet(S), NEW F, IsFiniteSet(F), NEW A \in SUBSET S,
         S \ A \subseteq F, \A g, h \in A : g = h
  PROVE  Cardinality(S) <= Cardinality(F) + 1
<1>1. IsFiniteSet(S \ A) /\ Cardinality(S \ A) <= Cardinality(F)
  BY FS_Subset
<1>2. Cardinality(S \ A) \in Nat /\ Cardinality(F) \in Nat
  BY <1>1, FS_CardinalityType
<1>3. CASE A = {}
  <2>1. S \ A = S
    BY <1>3
  <2> QED
    BY <1>1, <1>2, <2>1
<1>4. CASE A # {}
  <2>1. PICK g \in A : TRUE
    BY <1>4
  <2>2. S = (S \ A) \union {g}
    BY <2>1
  <2>3. Cardinality(S) <= Cardinality(S \ A) + 1
    BY <1>1, <1>2, <2>2, FS_AddElement
  <2>4. Cardinality(S) \in Nat
    BY FS_CardinalityType
  <2> QED
    BY <1>1, <1>2, <2>3, <2>4
<1> QED
  BY <1>3, <1>4

\* A sound plan is its partitions and its free ranges.
LEMMA SoundSize ==
  ASSUME NEW p, NEW d \in Nat, Sound(p, d)
  PROVE  /\ IsFiniteSet(Placed(p)) /\ Cardinality(Placed(p)) \in Nat
         /\ IsFiniteSet(Free(p)) /\ Cardinality(Free(p)) \in Nat
         /\ Free(p) = Gaps(Live(p), d)
         /\ Cardinality(p) = Cardinality(Placed(p)) + Cardinality(Free(p))
<1>1. p \in SUBSET Items /\ IsFiniteSet(p) /\ p = Rebuild(p, d)
  BY DEF Sound
<1>2. IsFiniteSet(Placed(p)) /\ IsFiniteSet(Free(p))
  BY <1>1, FS_Subset DEF Placed, Free
<1>3. Free(p) = Gaps(Live(p), d)
  BY <1>1, RebuildFacts
<1>4. p = Placed(p) \union Free(p) /\ Placed(p) \intersect Free(p) = {}
  BY DEF Placed, Free
<1>5. Cardinality(p) = Cardinality(Placed(p)) + Cardinality(Free(p)) - Cardinality({})
  BY <1>2, <1>4, FS_Union
<1>6. Cardinality({}) = 0
  BY FS_EmptySet
<1>7. Cardinality(Placed(p)) \in Nat /\ Cardinality(Free(p)) \in Nat
  BY <1>2, FS_CardinalityType
<1> QED
  BY <1>2, <1>3, <1>5, <1>6, <1>7

\* A plan rebuilt is no longer than its partitions and its free ranges.
LEMMA RebuiltSize ==
  ASSUME NEW x, NEW d \in Nat, Plannable(x, d)
  PROVE  /\ IsFiniteSet(Gaps(Live(x), d))
         /\ Cardinality(Gaps(Live(x), d)) \in Nat
         /\ IsFiniteSet(Placed(x))
         /\ Cardinality(Placed(x)) \in Nat
         /\ Cardinality(Rebuild(x, d))
              <= Cardinality(Placed(x)) + Cardinality(Gaps(Live(x), d))
<1> DEFINE gaps == Gaps(Live(x), d)
<1>1. x \in SUBSET Items /\ IsFiniteSet(x)
  BY DEF Plannable
<1>2. IsFiniteSet(Rebuild(x, d))
  BY <1>1, FiniteRebuild
<1>3. Rebuild(x, d) = Placed(x) \union gaps
  BY DEF Rebuild
<1> HIDE DEF gaps
<1>4. IsFiniteSet(gaps) /\ IsFiniteSet(Placed(x))
  BY <1>2, <1>3, FS_Subset
<1>5. IsFiniteSet(Placed(x) \intersect gaps)
  BY <1>4, FS_Subset
<1>6. /\ Cardinality(gaps) \in Nat /\ Cardinality(Placed(x)) \in Nat
      /\ Cardinality(Placed(x) \intersect gaps) \in Nat
  BY <1>4, <1>5, FS_CardinalityType
<1>7. Cardinality(Rebuild(x, d))
        = Cardinality(Placed(x)) + Cardinality(gaps) - Cardinality(Placed(x) \intersect gaps)
  BY <1>3, <1>4, FS_Union
<1>8. Cardinality(Rebuild(x, d)) <= Cardinality(Placed(x)) + Cardinality(gaps)
  BY <1>6, <1>7
<1> QED
  BY <1>4, <1>6, <1>8 DEF gaps

\* Free ranges of a plan to be rebuilt that end at a partition of a sound plan
\* on both sides and are clear of its partitions are free there already.
LEMMA OldGap ==
  ASSUME NEW p, NEW d \in Nat, Sound(p, d), NEW live \in SUBSET Items,
         NEW g \in Gaps(live, d),
         g.start = 0 \/ \E i \in Live(p) : End(i) = g.start,
         End(g) = d \/ \E i \in Live(p) : i.start = End(g),
         \A i \in Live(p) : i.start >= End(g) \/ g.start >= End(i)
  PROVE  g \in Free(p)
<1>1. /\ g.start \in Nat /\ End(g) \in Nat
      /\ g.start < End(g) /\ End(g) <= d
      /\ g = Item("UNALLOCATED", "NONE", g.start, End(g) - g.start)
  BY GapElim
<1> DEFINE a == g.start
           b == End(g)
<1>2. FreeBetween(Live(p), d, a, b)
  BY <1>1 DEF FreeBetween
<1>3. Live(p) \in SUBSET Items
  BY DEF Sound, Live
<1>4. a \in Nat /\ b \in Nat
  BY <1>1
<1>5. g = Item("UNALLOCATED", "NONE", a, b - a)
  BY <1>1
<1> HIDE DEF a, b
<1>6. Item("UNALLOCATED", "NONE", a, b - a) \in Gaps(Live(p), d)
  BY <1>2, <1>3, <1>4, GapIntro
<1> QED
  BY <1>5, <1>6, SoundSize

\* Deleting a partition joins the free space around it: at most one range is
\* new.
LEMMA DeletedFits ==
  ASSUME NEW p, NEW d \in Nat, Sound(p, d), Cardinality(p) < MaxItems,
         NEW i \in Live(p)
  PROVE  Deleted(p, d, i) # {}
<1>1. PICK x : /\ Deleted(p, d, i) = Commit(x, d)
               /\ Plannable(x, d)
               /\ Live(x) = Live(p) \ {i}
               /\ Cardinality(Placed(x)) <= Cardinality(Placed(p))
  <2>1. i \in p /\ i \in Items /\ i \in Placed(p) /\ Valid(p, d)
    BY DEF Live, Sound, Placed
  <2>2. IsFiniteSet(Placed(p)) /\ Cardinality(Placed(p)) \in Nat
    BY SoundSize
  <2>3. /\ IsFiniteSet(Placed(p) \ {i})
        /\ Cardinality(Placed(p) \ {i}) \in Nat
        /\ Cardinality(Placed(p) \ {i}) + 1 = Cardinality(Placed(p))
    <3>1. IsFiniteSet(Placed(p) \ {i})
          /\ Cardinality(Placed(p) \ {i}) = Cardinality(Placed(p)) - 1
      BY <2>1, <2>2, FS_RemoveElement
    <3>2. Cardinality(Placed(p) \ {i}) \in Nat
      BY <3>1, FS_CardinalityType
    <3> QED
      BY <2>2, <3>1, <3>2
  <2>4. Plannable(p \ {i}, d) /\ Live(p \ {i}) = Live(p) \ {i}
    BY SoundPlannable DEF Live
  <2>5. CASE i.state = "NEW"
    <3>1. Deleted(p, d, i) = Commit(p \ {i}, d)
      BY <2>1, <2>5 DEF Deleted
    <3>2. Placed(p \ {i}) = Placed(p) \ {i}
      BY DEF Placed
    <3>3. Cardinality(Placed(p \ {i})) <= Cardinality(Placed(p))
      BY <2>2, <2>3, <3>2
    <3> QED
      BY <2>4, <3>1, <3>3
  <2>6. CASE i.state = "EXISTING"
    <3> DEFINE gone == [i EXCEPT !.state = "DELETED"]
               x    == (p \ {i}) \union {gone}
    <3>1. gone \in Items /\ gone.state = "DELETED" /\ gone.role = i.role
          /\ gone.count = i.count /\ End(gone) = End(i)
      BY <2>1 DEF Items, ItemStates, End
    <3>2. Deleted(p, d, i) = Commit(x, d)
      BY <2>1, <2>6 DEF Deleted
    <3> HIDE DEF gone
    <3>3. Live(x) = Live(p) \ {i}
      BY <3>1 DEF Live
    <3>4. Placed(x) = (Placed(p) \ {i}) \union {gone}
      BY <3>1 DEF Placed
    <3>5. /\ i.count > 0 /\ End(i) <= d
          /\ i.role = "NONE" <=> i.state = "UNALLOCATED"
      BY <2>1, ValidFacts
    <3>6. Plannable(x, d)
      <4>1. x \in SUBSET Items /\ IsFiniteSet(x)
        BY <2>4, <3>1, FS_AddElement DEF Plannable
      <4>2. Apart(Live(x))
        BY <2>4, <3>3 DEF Plannable
      <4> QED
        BY <2>4, <2>6, <3>1, <3>5, <4>1, <4>2 DEF Plannable
    <3>7. Cardinality(Placed(x)) <= Cardinality(Placed(p))
      <4> DEFINE rest == Placed(p) \ {i}
      <4>1. /\ IsFiniteSet(rest) /\ Cardinality(rest) \in Nat
            /\ Cardinality(rest) + 1 = Cardinality(Placed(p))
            /\ Placed(x) = rest \union {gone}
        BY <2>3, <3>4
      <4> HIDE DEF rest, x
      <4>2. \/ Cardinality(rest \union {gone}) = Cardinality(rest)
            \/ Cardinality(rest \union {gone}) = Cardinality(rest) + 1
        BY <4>1, FS_AddElement
      <4> QED
        BY <2>2, <4>1, <4>2
    <3> QED
      BY <3>2, <3>3, <3>6, <3>7
  <2> QED
    BY <2>5, <2>6 DEF Live
<1> DEFINE gaps == Gaps(Live(x), d)
           A    == {g \in gaps : Overlap(g, i)}
<1>2. /\ Live(x) \in SUBSET Items /\ Within(Live(x), d)
      /\ \A j \in Live(p) : j.start \in Nat /\ End(j) \in Nat /\ j.start < End(j)
      /\ \A j, k \in Live(p) : j = k \/ ~Overlap(j, k)
  <2>1. Plannable(p, d)
    BY SoundPlannable
  <2> QED
    BY <1>1, <2>1, LiveWithin DEF Within, Plannable, Apart
<1>3. \A g \in gaps :
        /\ g.start \in Nat /\ End(g) \in Nat
        /\ g.start < End(g) /\ End(g) <= d
        /\ g.start = 0 \/ \E j \in Live(x) : End(j) = g.start
        /\ End(g) = d \/ \E j \in Live(x) : j.start = End(g)
        /\ \A j \in Live(x) : j.start >= End(g) \/ g.start >= End(j)
  BY <1>2, GapElim
<1>4. gaps \ A \subseteq Free(p)
  <2> SUFFICES ASSUME NEW g \in gaps, ~Overlap(g, i)
      PROVE  g \in Free(p)
    OBVIOUS
  <2>1. /\ g.start = 0 \/ \E j \in Live(p) : End(j) = g.start
        /\ End(g) = d \/ \E j \in Live(p) : j.start = End(g)
    BY <1>1, <1>3
  <2>2. i.start >= End(g) \/ g.start >= End(i)
    BY <1>2, <1>3 DEF Overlap
  <2>3. \A j \in Live(p) : j.start >= End(g) \/ g.start >= End(j)
    <3> SUFFICES ASSUME NEW j \in Live(p), j # i
        PROVE  j.start >= End(g) \/ g.start >= End(j)
      BY <2>2
    <3>1. j \in Live(x)
      BY <1>1
    <3> QED
      BY <1>3, <3>1
  <2> QED
    BY <1>2, <2>1, <2>3, OldGap
<1>5. \A g, h \in A : g = h
  <2> SUFFICES ASSUME NEW g \in gaps, NEW h \in gaps, Overlap(g, i), Overlap(h, i)
      PROVE  Overlap(g, h)
    BY <1>2, GapsApart
  <2>1. ASSUME NEW a \in gaps, NEW b \in gaps, Overlap(a, i), Overlap(b, i)
        PROVE  ~(End(a) <= b.start)
    <3> SUFFICES ASSUME End(a) <= b.start
        PROVE  FALSE
      OBVIOUS
    <3>1. PICK j \in Live(x) : End(j) = b.start
      BY <1>3
    <3>2. j \in Live(p) /\ j # i /\ ~Overlap(i, j)
      BY <1>1, <1>2, <3>1
    <3> QED
      BY <1>2, <1>3, <2>1, <3>1, <3>2 DEF Overlap
  <2> QED
    BY <1>3, <2>1 DEF Overlap
<1>6. Cardinality(gaps) <= Cardinality(Free(p)) + 1
  <2>1. IsFiniteSet(gaps) /\ IsFiniteSet(Free(p))
    BY <1>1, RebuiltSize, SoundSize
  <2>2. A \in SUBSET gaps
    OBVIOUS
  <2> HIDE DEF gaps, A
  <2> QED
    BY <1>4, <1>5, <2>1, <2>2, OneMore
<1>7. Cardinality(Rebuild(x, d)) <= MaxItems
  <2>1. /\ Cardinality(Rebuild(x, d)) <= Cardinality(Placed(x)) + Cardinality(gaps)
        /\ Cardinality(Placed(x)) \in Nat /\ Cardinality(gaps) \in Nat
        /\ IsFiniteSet(Rebuild(x, d))
    BY <1>1, RebuiltSize, FiniteRebuild DEF Plannable
  <2>2. Cardinality(Rebuild(x, d)) \in Nat
    BY <2>1, FS_CardinalityType
  <2>3. /\ Cardinality(p) = Cardinality(Placed(p)) + Cardinality(Free(p))
        /\ Cardinality(Placed(p)) \in Nat /\ Cardinality(Free(p)) \in Nat
    BY SoundSize
  <2> HIDE DEF gaps
  <2> QED
    BY <1>1, <1>6, <2>1, <2>2, <2>3, PlanAssumption
<1> QED
  BY <1>1, <1>7, Committed

\* So many megabytes fit in so many sectors.
LEMMA DivBound ==
  ASSUME NEW n \in Nat, NEW S \in Nat \ {0}, NEW mb \in Nat
  PROVE  mb <= n \div S <=> mb * S <= n
<1> DEFINE q == n \div S
<1>1. q \in Nat /\ n % S \in Nat /\ n % S < S /\ n = q * S + (n % S)
  BY DivMod
<1> HIDE DEF q
<1>2. q * S \in Nat /\ mb * S \in Nat /\ (q + 1) * S = q * S + S
  BY <1>1
<1>3. CASE mb <= q
  <2>1. mb * S <= q * S
    BY <1>1, <1>3
  <2>2. mb * S <= n
    BY <1>1, <1>2, <2>1
  <2> QED
    BY <1>3, <2>2 DEF q
<1>4. CASE ~(mb <= q)
  <2>1. mb >= q + 1
    BY <1>1, <1>4
  <2>2. mb * S >= (q + 1) * S
    BY <1>1, <2>1
  <2>3. ~(mb * S <= n)
    BY <1>1, <1>2, <2>2
  <2> QED
    BY <1>4, <2>3 DEF q
<1> QED
  BY <1>3, <1>4

\* The sizes accepted are those of at least one megabyte that fit, whatever
\* wraps.
LEMMA SizesAccepted ==
  ASSUME NEW available \in Nat, available < WordSize, NEW mb \in Nat \ {0}
  PROVE  SizeMbToSectors(mb, available)
           = IF mb <= available \div SectorsPerMB THEN {mb * SectorsPerMB} ELSE {}
<1>1. SectorsPerMB \in Nat \ {0} /\ WordSize \in Nat \ {0} /\ WordSize - 1 \in Nat
  BY PlanAssumption
<1> DEFINE sectors == mb * SectorsPerMB
<1>2. /\ mb <= available \div SectorsPerMB <=> sectors <= available
      /\ mb <= (WordSize - 1) \div SectorsPerMB <=> sectors <= WordSize - 1
  BY <1>1, DivBound
<1>3. mb <= (WordSize - 1) \div SectorsPerMB => (mb * SectorsPerMB) % WordSize = sectors
  BY <1>1, NoWrap
<1>4. sectors \in Nat
  BY <1>1
<1> HIDE DEF sectors
<1>5. CASE sectors <= available
  <2>1. sectors <= WordSize - 1
    BY <1>1, <1>4, <1>5
  <2>2. /\ mb <= available \div SectorsPerMB
        /\ mb <= (WordSize - 1) \div SectorsPerMB
        /\ (mb * SectorsPerMB) % WordSize = sectors
        /\ mb > 0
    BY <1>2, <1>3, <1>5, <2>1
  <2>3. SizeMbToSectors(mb, available) = {sectors}
    BY <1>5, <2>2 DEF SizeMbToSectors
  <2> QED
    BY <2>2, <2>3 DEF sectors
<1>6. CASE ~(sectors <= available)
  <2>1. SizeMbToSectors(mb, available) = {}
    BY <1>3, <1>6 DEF SizeMbToSectors
  <2> QED
    BY <1>2, <1>6, <2>1
<1> QED
  BY <1>5, <1>6

\* A partition created takes its free range, and leaves at most one range
\* after it.
LEMMA CreatedFits ==
  ASSUME NEW p, NEW d \in Nat, Sound(p, d), Cardinality(p) < MaxItems, d < WordSize,
         NEW free \in Free(p), NEW mb \in Nat \ {0},
         mb <= free.count \div SectorsPerMB
  PROVE  Created(p, d, free, mb) # {}
<1>1. /\ free \in p /\ free \in Items /\ free.state = "UNALLOCATED"
      /\ free.start \in Nat /\ free.count \in Nat /\ End(free) <= d
      /\ End(free) = free.start + free.count
      /\ Live(p) \in SUBSET Items
  BY FreeFacts DEF Items, End, Sound, Live
<1> DEFINE sectors == mb * SectorsPerMB
           new     == Item("NEW", "GENERIC", free.start, sectors)
           x       == p \union {new}
           gaps    == Gaps(Live(x), d)
           A       == {g \in gaps : g.start = End(new)}
<1>2. sectors \in Nat /\ sectors > 0 /\ sectors <= free.count
  BY <1>1, DivBound, WholeSize, PlanAssumption
<1>3. SizeMbToSectors(mb, free.count) = {sectors}
  <2>1. free.count < WordSize
    BY <1>1, PlanAssumption
  <2> QED
    BY <1>1, <2>1, SizesAccepted
<1>4. Created(p, d, free, mb) = Commit(x, d)
  BY <1>3 DEF Created, Sound
<1> HIDE DEF sectors
<1>5. /\ new \in Items /\ new.state = "NEW" /\ new.role = "GENERIC"
      /\ new.start = free.start /\ new.count = sectors
      /\ End(new) = free.start + sectors
  BY <1>1, <1>2 DEF Item, Items, ItemStates, Roles, End
<1> HIDE DEF new
<1>6. Live(x) = Live(p) \union {new}
  BY <1>5 DEF Live
<1>7. /\ \A j, k \in Live(p) : j = k \/ ~Overlap(j, k)
      /\ \A j \in Live(p) : ~Overlap(j, free) /\ ~Overlap(free, j)
      /\ \A j \in Live(p) : j.start \in Nat /\ End(j) \in Nat /\ j.start < End(j)
  <2>1. Plannable(p, d)
    BY SoundPlannable
  <2>2. \A j \in Live(p) : ~Overlap(j, free) /\ ~Overlap(free, j)
    BY <1>1, ValidFacts DEF Live, Sound
  <2> QED
    BY <2>1, <2>2, LiveWithin DEF Plannable, Apart
<1>8. Plannable(x, d)
  <2>1. Plannable(p, d)
    BY SoundPlannable
  <2>2. x \in SUBSET Items /\ IsFiniteSet(x)
    BY <1>5, <2>1, FS_AddElement DEF Plannable
  <2>3. ASSUME NEW j \in Live(p)
        PROVE  ~Overlap(j, new) /\ ~Overlap(new, j)
    BY <1>1, <1>2, <1>5, <1>7 DEF Overlap
  <2>4. Apart(Live(x))
    BY <1>6, <1>7, <2>3 DEF Apart
  <2>5. new.count > 0 /\ End(new) <= d
    BY <1>1, <1>2, <1>5
  <2> QED
    BY <1>5, <2>1, <2>2, <2>4, <2>5 DEF Plannable
<1>9. Within(Live(x), d) /\ Live(x) \in SUBSET Items
  BY <1>8, LiveWithin DEF Within
<1> HIDE DEF x
<1>10. \A g \in gaps :
        /\ g.start \in Nat /\ End(g) \in Nat
        /\ g.start < End(g) /\ End(g) <= d
        /\ g.start = 0 \/ \E j \in Live(x) : End(j) = g.start
        /\ End(g) = d \/ \E j \in Live(x) : j.start = End(g)
        /\ \A j \in Live(x) : j.start >= End(g) \/ g.start >= End(j)
  BY <1>9, GapElim
<1>11. free.start = 0 \/ \E k \in Live(p) : End(k) = free.start
  <2>1. free \in Gaps(Live(p), d)
    BY SoundSize
  <2> QED
    BY <1>1, <2>1, GapElim
<1>12. gaps \ A \subseteq Free(p) \ {free}
  <2> SUFFICES ASSUME NEW g \in gaps, g.start # End(new)
      PROVE  g \in Free(p) /\ g # free
    OBVIOUS
  <2>1. \A j \in Live(p) : j.start >= End(g) \/ g.start >= End(j)
    BY <1>6, <1>10
  <2>2. new.start >= End(g) \/ g.start >= End(new)
    BY <1>6, <1>10
  <2>3. g.start = 0 \/ \E j \in Live(p) : End(j) = g.start
    BY <1>6, <1>10
  <2>4. End(g) # free.start
    <3> SUFFICES ASSUME End(g) = free.start
        PROVE  FALSE
      OBVIOUS
    <3>1. PICK k \in Live(p) : End(k) = free.start
      BY <1>10, <1>11
    <3>2. k.start >= End(g) \/ g.start >= End(k)
      BY <2>1
    <3>3. g.start \in Nat /\ End(g) \in Nat /\ g.start < End(g)
      BY <1>10
    <3>4. k.start \in Nat /\ End(k) \in Nat /\ k.start < End(k)
      BY <1>7
    <3> QED
      BY <3>1, <3>2, <3>3, <3>4
  <2>5. End(g) = d \/ \E j \in Live(p) : j.start = End(g)
    BY <1>5, <1>6, <1>10, <2>4
  <2>6. g \in Free(p)
    BY <1>9, <2>1, <2>3, <2>5, OldGap
  <2>7. g # free
    BY <1>1, <1>2, <1>5, <1>10, <2>2
  <2> QED
    BY <2>6, <2>7
<1>13. \A g, h \in A : g = h
  <2> SUFFICES ASSUME NEW g \in gaps, NEW h \in gaps, g.start = End(new), h.start = End(new)
      PROVE  Overlap(g, h)
    BY <1>9, GapsApart
  <2> QED
    BY <1>10 DEF Overlap
<1>14. Cardinality(gaps) <= Cardinality(Free(p))
  <2>1. IsFiniteSet(gaps) /\ IsFiniteSet(Free(p)) /\ Cardinality(gaps) \in Nat
        /\ Cardinality(Free(p)) \in Nat
    BY <1>8, RebuiltSize, SoundSize
  <2>2. A \in SUBSET gaps
    OBVIOUS
  <2>3. IsFiniteSet(Free(p) \ {free}) /\ Cardinality(Free(p) \ {free}) = Cardinality(Free(p)) - 1
    BY <2>1, FS_RemoveElement
  <2> HIDE DEF gaps, A
  <2>4. Cardinality(gaps) <= Cardinality(Free(p) \ {free}) + 1
    BY <1>12, <1>13, <2>1, <2>2, <2>3, OneMore
  <2> QED
    BY <2>1, <2>3, <2>4
<1>15. Cardinality(Placed(x)) <= Cardinality(Placed(p)) + 1
  <2>1. Placed(x) = Placed(p) \union {new}
    BY <1>5 DEF Placed, x
  <2>2. IsFiniteSet(Placed(p)) /\ Cardinality(Placed(p)) \in Nat
    BY SoundSize
  <2>3. \/ Cardinality(Placed(p) \union {new}) = Cardinality(Placed(p))
        \/ Cardinality(Placed(p) \union {new}) = Cardinality(Placed(p)) + 1
    BY <2>2, FS_AddElement
  <2> QED
    BY <2>1, <2>2, <2>3
<1>16. Cardinality(Rebuild(x, d)) <= MaxItems
  <2>1. /\ Cardinality(Rebuild(x, d)) <= Cardinality(Placed(x)) + Cardinality(gaps)
        /\ Cardinality(Placed(x)) \in Nat /\ Cardinality(gaps) \in Nat
        /\ IsFiniteSet(Rebuild(x, d))
    BY <1>8, RebuiltSize, FiniteRebuild DEF Plannable
  <2>2. Cardinality(Rebuild(x, d)) \in Nat
    BY <2>1, FS_CardinalityType
  <2>3. /\ Cardinality(p) = Cardinality(Placed(p)) + Cardinality(Free(p))
        /\ Cardinality(Placed(p)) \in Nat /\ Cardinality(Free(p)) \in Nat
    BY SoundSize
  <2> HIDE DEF gaps
  <2> QED
    BY <1>14, <1>15, <2>1, <2>2, <2>3, PlanAssumption
<1> QED
  BY <1>4, <1>8, <1>16, Committed

\* Items of which none stands between two of the others, the first of them.
Block(L, others, first) ==
  /\ first \in L
  /\ \A i \in L : first.start <= i.start
  /\ \A j \in others : \A k, l \in L : ~(End(k) <= j.start /\ End(j) <= l.start)

\* Four items one directly after another are a block among others that are
\* apart from them.
LEMMA ChainOfFour ==
  ASSUME NEW a \in Items, NEW b \in Items, NEW c \in Items, NEW e \in Items,
         \A i \in {a, b, c, e} : i.count > 0,
         End(a) = b.start, End(b) = c.start, End(c) = e.start,
         NEW others \in SUBSET Items,
         \A j \in others : j.count > 0 /\ \A i \in {a, b, c, e} : ~Overlap(j, i)
  PROVE  Block({a, b, c, e}, others, a)
<1>1. /\ a.start \in Nat /\ End(a) \in Nat /\ a.start < End(a)
      /\ b.start \in Nat /\ End(b) \in Nat /\ b.start < End(b)
      /\ c.start \in Nat /\ End(c) \in Nat /\ c.start < End(c)
      /\ e.start \in Nat /\ End(e) \in Nat /\ e.start < End(e)
  BY DEF Items, End
<1>2. \A i \in {a, b, c, e} : a.start <= i.start
  BY <1>1
<1>3. ASSUME NEW j \in others, NEW k \in {a, b, c, e}, NEW l \in {a, b, c, e},
             End(k) <= j.start, End(j) <= l.start
      PROVE  FALSE
  <2>1. j.start \in Nat /\ End(j) \in Nat /\ j.start < End(j)
    BY DEF Items, End
  <2>2. /\ ~Overlap(j, a) /\ ~Overlap(j, b) /\ ~Overlap(j, c) /\ ~Overlap(j, e)
    OBVIOUS
  <2> QED
    BY <1>1, <1>3, <2>1, <2>2 DEF Overlap
<1> QED
  BY <1>2, <1>3 DEF Block

\* And so are three.
LEMMA ChainOfThree ==
  ASSUME NEW a \in Items, NEW b \in Items, NEW c \in Items,
         \A i \in {a, b, c} : i.count > 0,
         End(a) = b.start, End(b) = c.start,
         NEW others \in SUBSET Items,
         \A j \in others : j.count > 0 /\ \A i \in {a, b, c} : ~Overlap(j, i)
  PROVE  Block({a, b, c}, others, a)
<1>1. /\ a.start \in Nat /\ End(a) \in Nat /\ a.start < End(a)
      /\ b.start \in Nat /\ End(b) \in Nat /\ b.start < End(b)
      /\ c.start \in Nat /\ End(c) \in Nat /\ c.start < End(c)
  BY DEF Items, End
<1>2. \A i \in {a, b, c} : a.start <= i.start
  BY <1>1
<1>3. ASSUME NEW j \in others, NEW k \in {a, b, c}, NEW l \in {a, b, c},
             End(k) <= j.start, End(j) <= l.start
      PROVE  FALSE
  <2>1. j.start \in Nat /\ End(j) \in Nat /\ j.start < End(j)
    BY DEF Items, End
  <2>2. /\ ~Overlap(j, a) /\ ~Overlap(j, b) /\ ~Overlap(j, c)
    OBVIOUS
  <2> QED
    BY <1>1, <1>3, <2>1, <2>2 DEF Overlap
<1> QED
  BY <1>2, <1>3 DEF Block

\* A layout has as many roles as partitions.
LEMMA RoleCounts == Cardinality(UefiRoles) = 4 /\ Cardinality(BiosRoles) = 3
<1> DEFINE u1 == {} \union {"EFI"}
           u2 == u1 \union {"MSR"}
           u3 == u2 \union {"WINDOWS"}
           u4 == u3 \union {"RECOVERY"}
           b1 == {} \union {"SYSTEM_RESERVED"}
           b2 == b1 \union {"WINDOWS"}
           b3 == b2 \union {"RECOVERY"}
<1>1. IsFiniteSet(u1) /\ Cardinality(u1) = 1 /\ IsFiniteSet(b1) /\ Cardinality(b1) = 1
  <2>1. u1 = {"EFI"} /\ b1 = {"SYSTEM_RESERVED"}
    OBVIOUS
  <2> QED
    BY <2>1, FS_Singleton
<1>2. "MSR" \notin u1 /\ "WINDOWS" \notin b1
  OBVIOUS
<1>3. "WINDOWS" \notin u2 /\ "RECOVERY" \notin b2
  OBVIOUS
<1>4. "RECOVERY" \notin u3
  OBVIOUS
<1>5. UefiRoles = u4 /\ BiosRoles = b3
  BY DEF UefiRoles, BiosRoles
<1> HIDE DEF u1, b1
<1>6. IsFiniteSet(u2) /\ Cardinality(u2) = 2 /\ IsFiniteSet(b2) /\ Cardinality(b2) = 2
  BY <1>1, <1>2, FS_AddElement
<1> HIDE DEF u2, b2
<1>7. IsFiniteSet(u3) /\ Cardinality(u3) = 3 /\ IsFiniteSet(b3) /\ Cardinality(b3) = 3
  BY <1>3, <1>6, FS_AddElement
<1> HIDE DEF u3, b3
<1>8. Cardinality(u4) = 4
  BY <1>4, <1>7, FS_AddElement
<1> QED
  BY <1>5, <1>7, <1>8

\* The layout a plan has is a block of its live partitions.
LEMMA LayoutBlock ==
  ASSUME NEW p, NEW d \in Nat, Sound(p, d), NEW m \in Modes, HasLayout(p, d, m)
  PROVE  \E first \in LayoutItems(p, m) :
           Block(LayoutItems(p, m), Live(p) \ LayoutItems(p, m), first)
<1> DEFINE L == LayoutItems(p, m)
           others == Live(p) \ L
<1>1. p \in SUBSET Items /\ IsFiniteSet(p) /\ others \in SUBSET Items
      /\ \A i \in p : i.count > 0
  BY ValidFacts DEF Sound, Live
<1>2. L \in SUBSET Live(p)
  BY DEF LayoutItems, NewWithRole, Live
<1>3. \A j \in others : j.count > 0 /\ \A i \in L : ~Overlap(j, i)
  <2>1. Plannable(p, d)
    BY SoundPlannable
  <2>2. \A j, k \in Live(p) : j = k \/ ~Overlap(j, k)
    BY <2>1 DEF Plannable, Apart
  <2>3. \A j \in Live(p) : j.count > 0
    BY <1>1 DEF Live
  <2> QED
    BY <1>2, <2>2, <2>3
<1>4. ASSUME NEW role \in LayoutRoles(m)
      PROVE  \E i \in p : NewWithRole(p, role) = {i}
  <2>1. IsFiniteSet(NewWithRole(p, role)) /\ Cardinality(NewWithRole(p, role)) = 1
    BY <1>1, FS_Subset DEF NewWithRole, HasLayout
  <2>2. PICK i : NewWithRole(p, role) = {i}
    BY <2>1, FS_Singleton
  <2> QED
    BY <2>2 DEF NewWithRole
<1>5. \A k \in 1..(Cardinality(LayoutRoles(m)) - 1) :
        \E i \in NewWithRole(p, LayoutOrder(m)[k]),
           j \in NewWithRole(p, LayoutOrder(m)[k + 1]) : End(i) = j.start
  BY DEF HasLayout
<1>6. CASE m = "UEFI"
  <2>1. PICK a \in p : NewWithRole(p, "EFI") = {a}
    BY <1>4, <1>6 DEF LayoutRoles, UefiRoles
  <2>2. PICK b \in p : NewWithRole(p, "MSR") = {b}
    BY <1>4, <1>6 DEF LayoutRoles, UefiRoles
  <2>3. PICK c \in p : NewWithRole(p, "WINDOWS") = {c}
    BY <1>4, <1>6 DEF LayoutRoles, UefiRoles
  <2>4. PICK e \in p : NewWithRole(p, "RECOVERY") = {e}
    BY <1>4, <1>6 DEF LayoutRoles, UefiRoles
  <2>5. L = {a, b, c, e}
    BY <1>6, <2>1, <2>2, <2>3, <2>4 DEF LayoutItems, LayoutRoles, UefiRoles
  <2>6. 1 \in 1..(Cardinality(LayoutRoles(m)) - 1)
        /\ 2 \in 1..(Cardinality(LayoutRoles(m)) - 1)
        /\ 3 \in 1..(Cardinality(LayoutRoles(m)) - 1)
    BY <1>6, RoleCounts DEF LayoutRoles
  <2>7. /\ LayoutOrder(m)[1] = "EFI" /\ LayoutOrder(m)[2] = "MSR"
        /\ LayoutOrder(m)[3] = "WINDOWS" /\ LayoutOrder(m)[4] = "RECOVERY"
    BY <1>6 DEF LayoutOrder
  <2>8. End(a) = b.start
    BY <1>5, <2>1, <2>2, <2>6, <2>7
  <2>9. End(b) = c.start
    BY <1>5, <2>2, <2>3, <2>6, <2>7
  <2>10. End(c) = e.start
    BY <1>5, <2>3, <2>4, <2>6, <2>7
  <2> HIDE DEF L, others
  <2>11. Block({a, b, c, e}, others, a)
    BY <1>1, <1>3, <2>5, <2>8, <2>9, <2>10, ChainOfFour
  <2> QED
    BY <2>5, <2>11 DEF L, others
<1>7. CASE m = "BIOS"
  <2>1. PICK a \in p : NewWithRole(p, "SYSTEM_RESERVED") = {a}
    BY <1>4, <1>7 DEF LayoutRoles, BiosRoles
  <2>2. PICK b \in p : NewWithRole(p, "WINDOWS") = {b}
    BY <1>4, <1>7 DEF LayoutRoles, BiosRoles
  <2>3. PICK c \in p : NewWithRole(p, "RECOVERY") = {c}
    BY <1>4, <1>7 DEF LayoutRoles, BiosRoles
  <2>4. L = {a, b, c}
    BY <1>7, <2>1, <2>2, <2>3 DEF LayoutItems, LayoutRoles, BiosRoles
  <2>5. 1 \in 1..(Cardinality(LayoutRoles(m)) - 1)
        /\ 2 \in 1..(Cardinality(LayoutRoles(m)) - 1)
    BY <1>7, RoleCounts DEF LayoutRoles
  <2>6. /\ LayoutOrder(m)[1] = "SYSTEM_RESERVED" /\ LayoutOrder(m)[2] = "WINDOWS"
        /\ LayoutOrder(m)[3] = "RECOVERY"
    BY <1>7 DEF LayoutOrder
  <2>7. End(a) = b.start
    BY <1>5, <2>1, <2>2, <2>5, <2>6
  <2>8. End(b) = c.start
    BY <1>5, <2>2, <2>3, <2>5, <2>6
  <2> HIDE DEF L, others
  <2>9. Block({a, b, c}, others, a)
    BY <1>1, <1>3, <2>4, <2>7, <2>8, ChainOfThree
  <2> QED
    BY <2>4, <2>9 DEF L, others
<1> QED
  BY <1>6, <1>7 DEF Modes

\* Undoing a layout joins the free space around it to one range, in which its
\* first sector is free.
LEMMA UndoneFits ==
  ASSUME NEW p, NEW d \in Nat, Sound(p, d), Cardinality(p) < MaxItems,
         NEW m \in Modes, HasLayout(p, d, m)
  PROVE  Undone(p, d, m) # {}
<1> DEFINE L    == LayoutItems(p, m)
           x    == p \ L
           gaps == Gaps(Live(x), d)
           A    == {g \in gaps : \E l \in L : Overlap(g, l)}
<1>1. /\ \A j, k \in Live(p) : j = k \/ ~Overlap(j, k)
      /\ \A j \in Live(p) : j.start \in Nat /\ End(j) \in Nat /\ j.start < End(j) /\ End(j) <= d
  <2>1. Plannable(p, d)
    BY SoundPlannable
  <2> QED
    BY <2>1, LiveWithin DEF Plannable, Apart, Within
<1>2. L \in SUBSET Live(p) /\ Live(x) = Live(p) \ L
  BY DEF LayoutItems, NewWithRole, Live
<1>3. Plannable(x, d)
  BY SoundPlannable
<1>4. PICK first \in L : Block(L, Live(p) \ L, first)
  BY LayoutBlock
<1> HIDE DEF L, x
<1>5. Within(Live(x), d) /\ Live(x) \in SUBSET Items
  BY <1>3, LiveWithin DEF Within
<1>6. \A g \in gaps :
        /\ g.start \in Nat /\ End(g) \in Nat
        /\ g.start < End(g) /\ End(g) <= d
        /\ g.start = 0 \/ \E j \in Live(x) : End(j) = g.start
        /\ End(g) = d \/ \E j \in Live(x) : j.start = End(g)
        /\ \A j \in Live(x) : j.start >= End(g) \/ g.start >= End(j)
  BY <1>5, GapElim
<1>7. gaps \ A \subseteq Free(p)
  <2> SUFFICES ASSUME NEW g \in gaps, \A l \in L : ~Overlap(g, l)
      PROVE  g \in Free(p)
    OBVIOUS
  <2>1. /\ g.start = 0 \/ \E j \in Live(p) : End(j) = g.start
        /\ End(g) = d \/ \E j \in Live(p) : j.start = End(g)
    BY <1>2, <1>6
  <2>2. ASSUME NEW j \in Live(p)
        PROVE  j.start >= End(g) \/ g.start >= End(j)
    <3>1. CASE j \in L
      BY <1>1, <1>6, <3>1 DEF Overlap
    <3>2. CASE j \notin L
      BY <1>2, <1>6, <3>2
    <3> QED
      BY <3>1, <3>2
  <2> QED
    BY <1>5, <2>1, <2>2, OldGap
<1>8. \A g, h \in A : g = h
  <2> SUFFICES ASSUME NEW g \in A, NEW h \in A
      PROVE  Overlap(g, h)
    BY <1>5, GapsApart
  <2>1. ASSUME NEW a \in A, NEW b \in A
        PROVE  ~(End(a) <= b.start)
    <3> SUFFICES ASSUME End(a) <= b.start
        PROVE  FALSE
      OBVIOUS
    <3>1. /\ a.start \in Nat /\ End(a) \in Nat /\ a.start < End(a)
          /\ b.start \in Nat /\ End(b) \in Nat /\ b.start < End(b)
      BY <1>6
    <3>2. PICK k \in L : Overlap(a, k)
      OBVIOUS
    <3>3. PICK l \in L : Overlap(b, l)
      OBVIOUS
    <3>4. PICK j \in Live(x) : End(j) = b.start
      BY <1>6, <3>1
    <3>5. /\ j \in Live(p) \ L
          /\ ~Overlap(j, k) /\ ~Overlap(j, l)
      BY <1>1, <1>2
    <3>6. /\ j.start \in Nat /\ End(j) \in Nat /\ j.start < End(j)
          /\ k.start \in Nat /\ End(k) \in Nat /\ k.start < End(k)
          /\ l.start \in Nat /\ End(l) \in Nat /\ l.start < End(l)
      BY <1>1, <1>2
    <3>7. End(k) <= j.start /\ End(j) <= l.start
      BY <3>1, <3>2, <3>3, <3>4, <3>5, <3>6 DEF Overlap
    <3> QED
      BY <1>4, <3>5, <3>7 DEF Block
  <2> QED
    BY <1>6, <2>1 DEF Overlap
<1>9. Cardinality(gaps) <= Cardinality(Free(p)) + 1
  <2>1. IsFiniteSet(gaps) /\ IsFiniteSet(Free(p))
    BY <1>3, RebuiltSize, SoundSize
  <2>2. A \in SUBSET gaps
    OBVIOUS
  <2> HIDE DEF gaps, A
  <2> QED
    BY <1>7, <1>8, <2>1, <2>2, OneMore
<1>10. Cardinality(Rebuild(x, d)) <= MaxItems
  <2>1. /\ Cardinality(Rebuild(x, d)) <= Cardinality(Placed(x)) + Cardinality(gaps)
        /\ Cardinality(Placed(x)) \in Nat /\ Cardinality(gaps) \in Nat
        /\ IsFiniteSet(Rebuild(x, d))
    BY <1>3, RebuiltSize, FiniteRebuild DEF Plannable
  <2>2. Cardinality(Rebuild(x, d)) \in Nat
    BY <2>1, FS_CardinalityType
  <2>3. /\ Cardinality(p) = Cardinality(Placed(p)) + Cardinality(Free(p))
        /\ Cardinality(Placed(p)) \in Nat /\ Cardinality(Free(p)) \in Nat
        /\ IsFiniteSet(Placed(p))
    BY SoundSize
  <2>4. Cardinality(Placed(x)) <= Cardinality(Placed(p))
    <3>1. Placed(x) \in SUBSET Placed(p)
      BY DEF Placed, x
    <3> QED
      BY <2>3, <3>1, FS_Subset
  <2> HIDE DEF gaps
  <2> QED
    BY <1>9, <2>1, <2>2, <2>3, <2>4, PlanAssumption
<1>11. Commit(x, d) = {Rebuild(x, d)}
  BY <1>3, <1>10, Committed
<1>12. \E free \in Free(Rebuild(x, d)) :
         free.start <= first.start /\ first.start < End(free)
  <2>1. first \in Live(p) /\ first.start \in Nat /\ first.start < d
    BY <1>1, <1>2
  <2>2. ASSUME NEW j \in Live(x)
        PROVE  j.start > first.start \/ End(j) <= first.start
    <3>1. j \in Live(p) /\ j # first
      BY <1>2
    <3>2. ~Overlap(j, first)
      BY <1>1, <2>1, <3>1
    <3> QED
      BY <1>1, <2>1, <3>1, <3>2 DEF Overlap
  <2>3. \E g \in gaps : g.start <= first.start /\ first.start < End(g)
    BY <1>5, <2>1, <2>2, GapAt
  <2>4. Free(Rebuild(x, d)) = gaps
    BY <1>3, RebuildFacts DEF Plannable
  <2> QED
    BY <2>3, <2>4
<1>13. Rebuild(x, d) \in Undone(p, d, m)
  BY <1>4, <1>11, <1>12 DEF Undone, Block, L, x
<1> QED
  BY <1>13

\* Every edit the screen offers is accepted.
LEMMA EditsFit ==
  ASSUME PlanInv
  PROVE  EditsAccepted
<1> SUFFICES ASSUME hasPlan, Cardinality(plan) < MaxItems
    PROVE  /\ \A free \in Free(plan) : \A mb \in 1..(WordSize - 1) :
                IF mb <= free.count \div SectorsPerMB
                THEN Created(plan, disk.sectors, free, mb) # {}
                ELSE SizeMbToSectors(mb, free.count) = {}
           /\ \A i \in Live(plan) : Deleted(plan, disk.sectors, i) # {}
           /\ HasLayout(plan, disk.sectors, mode) =>
                Undone(plan, disk.sectors, mode) # {}
  BY DEF EditsAccepted
<1>1. /\ Sound(plan, disk.sectors) /\ disk.sectors \in Nat
      /\ disk.sectors < WordSize /\ mode \in Modes
  BY DiskFacts, DisksAssumption DEF PlanInv, PlanKnown, TypeOK
<1>2. ASSUME NEW free \in Free(plan), NEW mb \in 1..(WordSize - 1)
      PROVE  IF mb <= free.count \div SectorsPerMB
             THEN Created(plan, disk.sectors, free, mb) # {}
             ELSE SizeMbToSectors(mb, free.count) = {}
  <2>1. mb \in Nat \ {0}
    BY PlanAssumption
  <2>2. free.count \in Nat /\ free.count < WordSize
    <3>1. free \in Items /\ End(free) <= disk.sectors
      BY <1>1, FreeFacts
    <3> QED
      BY <1>1, <3>1, PlanAssumption DEF End, Items
  <2>3. CASE mb <= free.count \div SectorsPerMB
    BY <1>1, <2>1, <2>3, CreatedFits
  <2>4. CASE ~(mb <= free.count \div SectorsPerMB)
    BY <2>1, <2>2, <2>4, SizesAccepted
  <2> QED
    BY <2>3, <2>4
<1>3. \A i \in Live(plan) : Deleted(plan, disk.sectors, i) # {}
  BY <1>1, DeletedFits
<1>4. HasLayout(plan, disk.sectors, mode) => Undone(plan, disk.sectors, mode) # {}
  BY <1>1, UndoneFits
<1> QED
  BY <1>2, <1>3, <1>4

\* No edit the screen offers ends in an invalid plan while the item array has
\* room, and just the sizes up to the maximum shown are sizes
\* (partition_plan.c:170-236, 280-297).
THEOREM PlanEditsAccepted == Spec => []EditsAccepted
<1>1. PlanInv => EditsAccepted
  BY EditsFit
<1> QED
  BY <1>1, PlanHolds, PTL
=============================================================================
