---------------------------- MODULE PartitionPlan ----------------------------
(***************************************************************************)
(* The partition plan (src/src/core/partition_plan.c) and the apply plan   *)
(* built from it (src/src/core/apply.c), as operators.                     *)
(*                                                                         *)
(* A plan is the set of its items; the order of the array is that of the   *)
(* items' first sectors, so an index of the code is an item here.  An      *)
(* operation that the code may refuse is the set of the plans it can       *)
(* leave: empty when it returns -1, in which case the plan is untouched.   *)
(***************************************************************************)
EXTENDS Naturals, FiniteSets

CONSTANTS
  SectorsPerMB, EfiMB, MsrMB, RecoveryMB, SystemReservedMB, MinWindowsMB,
  MaxItems,        \* capacity of the item array
  WordSize,        \* 2^64: what unsigned long long wraps at
  MbrMaxSectors    \* largest disk a BIOS layout is planned on

ASSUME PlanAssumption ==
  /\ SectorsPerMB \in Nat \ {0}
  /\ EfiMB \in Nat \ {0}
  /\ MsrMB \in Nat \ {0}
  /\ RecoveryMB \in Nat \ {0}
  /\ SystemReservedMB \in Nat \ {0}
  /\ MinWindowsMB \in Nat \ {0}
  /\ MaxItems \in Nat
  /\ WordSize \in Nat \ {0}
  /\ MbrMaxSectors \in Nat

ItemStates == {"EXISTING", "NEW", "DELETED", "UNALLOCATED"}

UefiRoles == {"EFI", "MSR", "WINDOWS", "RECOVERY"}
BiosRoles == {"SYSTEM_RESERVED", "WINDOWS", "RECOVERY"}
Roles     == {"GENERIC"} \union UefiRoles \union BiosRoles

LayoutRoles(mode) == IF mode = "UEFI" THEN UefiRoles ELSE BiosRoles

Item(state, role, start, count) ==
  [state |-> state, role |-> role, start |-> start, count |-> count]

Items == [state: ItemStates, role: Roles \union {"NONE"}, start: Nat, count: Nat]

End(i) == i.start + i.count

Overlap(i, j) == i.start < End(j) /\ j.start < End(i)

Placed(items) == {i \in items : i.state # "UNALLOCATED"}
Live(items)   == {i \in items : i.state \in {"EXISTING", "NEW"}}
Free(items)   == {i \in items : i.state = "UNALLOCATED"}
Gone(items)   == {i \in items : i.state = "DELETED"}

-----------------------------------------------------------------------------
\* The ranges between the live partitions, and before and after them.
Gaps(live, disk) ==
  LET froms == {0} \union {End(i) : i \in live}
      tos   == {disk} \union {i.start : i \in live}
  IN  {Item("UNALLOCATED", "NONE", g[1], g[2] - g[1]) :
         g \in {h \in froms \X tos :
                  /\ h[1] < h[2]
                  /\ h[2] <= disk
                  /\ \A i \in live : i.start >= h[2] \/ h[1] >= End(i)}}

\* Mutant: the space of deleted partitions stays taken.
RebuildKeepsDeleted(items, disk) ==
  Placed(items) \union Gaps(Placed(items), disk)

\* classicsetup_plan_rebuild_unallocated, its merging included: free space is
\* computed anew, deleted partitions taking none.
Rebuild(items, disk) == Placed(items) \union Gaps(Live(items), disk)

\* Live partitions and free space follow one another from sector 0 to the
\* end of the disk.
Tiles(items, disk) ==
  LET shown == items \ Gone(items)
  IN  /\ \A i, j \in shown : i = j \/ ~Overlap(i, j)
      /\ \A i \in shown : i.start = 0 \/ \E j \in shown : End(j) = i.start
      /\ disk = 0 \/ \E i \in shown : End(i) = disk

\* classicsetup_plan_validate.
Valid(items, disk) ==
  /\ Cardinality(items) <= MaxItems
  /\ \A i \in items :
       /\ i.count > 0
       /\ End(i) <= disk
       /\ i.role = "NONE" <=> i.state = "UNALLOCATED"
  /\ Tiles(items, disk)

\* How every operation ends: rebuild a copy and keep it only if it is valid.
Commit(items, disk) == {p \in {Rebuild(items, disk)} : Valid(p, disk)}

\* classicsetup_plan_init on what the partition scan listed.
InitialPlan(partitions, disk) ==
  Commit({Item("EXISTING", "GENERIC", p.start, p.count) : p \in partitions},
         disk)

\* classicsetup_plan_size_mb_to_sectors: any number of 64 bits can be typed,
\* and its product wraps; only sectors of the disk enter other sums, and a
\* disk's size in bytes is a word already.
SizeMbToSectors(mb, available) ==
  {sectors \in {(mb * SectorsPerMB) % WordSize} :
     /\ mb > 0 /\ mb <= (WordSize - 1) \div SectorsPerMB
     /\ sectors <= available}

\* classicsetup_plan_create_partition.
Created(items, disk, free, mb) ==
  IF /\ Valid(items, disk)
     /\ free \in Free(items)
     /\ Cardinality(items) < MaxItems
  THEN UNION {Commit(items \union {Item("NEW", "GENERIC", free.start, sectors)}, disk) :
                sectors \in SizeMbToSectors(mb, free.count)}
  ELSE {}

\* Mutant: an existing partition is removed from the plan like a new one.
DeletedForgets(items, disk, i) ==
  IF i.state \in {"EXISTING", "NEW"} /\ Valid(items, disk)
  THEN Commit(items \ {i}, disk)
  ELSE {}

\* classicsetup_plan_delete_partition: an existing partition is marked, a new
\* one removed.
Deleted(items, disk, i) ==
  IF ~Valid(items, disk) THEN {}
  ELSE IF i.state = "EXISTING"
  THEN Commit((items \ {i}) \union {[i EXCEPT !.state = "DELETED"]}, disk)
  ELSE IF i.state = "NEW" THEN Commit(items \ {i}, disk)
  ELSE {}

-----------------------------------------------------------------------------
(***************************************************************************)
(* The Windows layouts.                                                    *)
(***************************************************************************)
\* classicsetup_plan_align_sector, to the next megabyte.
AlignUp(sector) ==
  IF sector % SectorsPerMB = 0 THEN sector
  ELSE sector + (SectorsPerMB - (sector % SectorsPerMB))

LayoutStart(free) ==
  AlignUp(IF free.start < SectorsPerMB THEN SectorsPerMB ELSE free.start)

\* Mutant: no room is left for the backup GPT at the end of the disk.
UefiEndWhole(free, disk) == End(free)

\* A UEFI layout leaves the last megabyte of the disk to the backup GPT.
UefiEnd(free, disk) ==
  IF End(free) # disk THEN End(free)
  ELSE IF End(free) < SectorsPerMB THEN 0
  ELSE End(free) - SectorsPerMB

\* What is left for Windows between two sectors beside the fixed sizes, in
\* whole megabytes; 0 when the layout does not fit.
WindowsSectors(from, to, fixed) ==
  IF /\ from + fixed <= to
     /\ MinWindowsMB * SectorsPerMB <= to - from - fixed
  THEN ((to - from - fixed) \div SectorsPerMB) * SectorsPerMB
  ELSE 0

UefiFixed == (EfiMB + MsrMB + RecoveryMB) * SectorsPerMB
BiosFixed == (SystemReservedMB + RecoveryMB) * SectorsPerMB

UefiItems(start, windows) ==
  LET msr == start + EfiMB * SectorsPerMB
      win == msr + MsrMB * SectorsPerMB
  IN  {Item("NEW", "EFI",      start,         EfiMB * SectorsPerMB),
       Item("NEW", "MSR",      msr,           MsrMB * SectorsPerMB),
       Item("NEW", "WINDOWS",  win,           windows),
       Item("NEW", "RECOVERY", win + windows, RecoveryMB * SectorsPerMB)}

BiosItems(start, windows) ==
  LET win == start + SystemReservedMB * SectorsPerMB
  IN  {Item("NEW", "SYSTEM_RESERVED", start, SystemReservedMB * SectorsPerMB),
       Item("NEW", "WINDOWS",  win,           windows),
       Item("NEW", "RECOVERY", win + windows, RecoveryMB * SectorsPerMB)}

\* classicsetup_plan_create_uefi_windows_layout.
UefiLaidOut(items, disk, free) ==
  LET start   == LayoutStart(free)
      windows == WindowsSectors(start, UefiEnd(free, disk), UefiFixed)
  IN  IF /\ Valid(items, disk)
         /\ free \in Free(items)
         /\ Cardinality(items) + 4 <= MaxItems
         /\ windows > 0
      THEN Commit(items \union UefiItems(start, windows), disk)
      ELSE {}

\* classicsetup_plan_create_bios_windows_layout: at most one partition may
\* stand beside the layout.
BiosLaidOut(items, disk, free) ==
  LET start   == LayoutStart(free)
      windows == WindowsSectors(start, End(free), BiosFixed)
  IN  IF /\ Valid(items, disk)
         /\ disk <= MbrMaxSectors
         /\ Cardinality(Live(items)) <= 1
         /\ free \in Free(items)
         /\ Cardinality(items) + 3 <= MaxItems
         /\ windows > 0
      THEN Commit(items \union BiosItems(start, windows), disk)
      ELSE {}

LaidOut(items, disk, free, mode) ==
  IF mode = "UEFI" THEN UefiLaidOut(items, disk, free)
  ELSE BiosLaidOut(items, disk, free)

NewWithRole(items, role) == {i \in items : i.state = "NEW" /\ i.role = role}

LayoutItems(items, mode) ==
  UNION {NewWithRole(items, role) : role \in LayoutRoles(mode)}

\* The order the roles of a layout stand in on the disk.
LayoutOrder(mode) ==
  IF mode = "UEFI" THEN <<"EFI", "MSR", "WINDOWS", "RECOVERY">>
  ELSE <<"SYSTEM_RESERVED", "WINDOWS", "RECOVERY">>

\* classicsetup_plan_has_windows_layout_for_mode: one new partition for every
\* role, one directly after another, and none for a role of the other mode.
HasLayout(items, disk, mode) ==
  LET order == LayoutOrder(mode)
  IN  /\ Valid(items, disk)
      /\ IF mode = "UEFI" THEN NewWithRole(items, "SYSTEM_RESERVED") = {}
         ELSE /\ NewWithRole(items, "EFI") \union NewWithRole(items, "MSR") = {}
              /\ disk <= MbrMaxSectors
      /\ \A role \in LayoutRoles(mode) : Cardinality(NewWithRole(items, role)) = 1
      /\ \A k \in 1..(Cardinality(LayoutRoles(mode)) - 1) :
           \E i \in NewWithRole(items, order[k]),
              j \in NewWithRole(items, order[k + 1]) : End(i) = j.start

\* Mutant: Undo removes every new partition.
UndoneAllNew(items, disk, mode) ==
  IF HasLayout(items, disk, mode)
  THEN Commit({i \in items : i.state # "NEW"}, disk)
  ELSE {}

\* classicsetup_plan_undo_windows_layout_for_mode: the first sector of the
\* layout must be free afterwards.
Undone(items, disk, mode) ==
  IF HasLayout(items, disk, mode)
  THEN {p \in Commit(items \ LayoutItems(items, mode), disk) :
          \E free \in Free(p) : \E first \in LayoutItems(items, mode) :
            /\ \A i \in LayoutItems(items, mode) : first.start <= i.start
            /\ free.start <= first.start /\ first.start < End(free)}
  ELSE {}

\* classicsetup_plan_item_is_install_target.
InstallTarget(i) ==
  i.state \in {"EXISTING", "NEW"} /\ i.role \in {"GENERIC", "WINDOWS"}

\* classicsetup_plan_prepare_install_target_for_mode: the plan left, with the
\* item to install to; a free range gets a layout and its Windows partition.
Prepared(items, disk, i, mode) ==
  IF ~Valid(items, disk) \/ i \notin items THEN {}
  ELSE IF InstallTarget(i) THEN {<<items, i>>}
  ELSE IF i.state = "UNALLOCATED"
  THEN {<<p, w>> : p \in LaidOut(items, disk, i, mode),
                   w \in (UNION {NewWithRole(q, "WINDOWS") :
                                   q \in LaidOut(items, disk, i, mode)})
                         \ NewWithRole(items, "WINDOWS")}
  ELSE {}

-----------------------------------------------------------------------------
(***************************************************************************)
(* The apply plan.                                                         *)
(***************************************************************************)
\* validate_gpt_apply_plan and validate_mbr_apply_plan, on the partitions in
\* disk order.
ValidGptPlan(parts, disk) ==
  /\ disk >= 2 * SectorsPerMB
  /\ \A i \in parts :
       /\ i.start >= SectorsPerMB
       /\ i.start % SectorsPerMB = 0
       /\ End(i) + SectorsPerMB <= disk

ValidMbrPlan(parts, disk) ==
  /\ disk <= MbrMaxSectors
  /\ \A i \in parts :
       /\ i.start % SectorsPerMB = 0
       /\ End(i) <= disk
       /\ i.role = "SYSTEM_RESERVED" =>
            i.start = SectorsPerMB /\ i.count = SystemReservedMB * SectorsPerMB
       /\ i.role = "WINDOWS"  => i.count >= MinWindowsMB * SectorsPerMB
       /\ i.role = "RECOVERY" => i.count = RecoveryMB * SectorsPerMB

\* classicsetup_build_apply_plan_for_mode on the disk the plan was made for:
\* only on a disk that had no partitions, and only for a plan that holds the
\* layout and nothing else.
Applicable(items, disk, originals, mode) ==
  /\ originals = 0
  /\ HasLayout(items, disk, mode)
  /\ Placed(items) = LayoutItems(items, mode)
  /\ IF mode = "UEFI" THEN ValidGptPlan(Placed(items), disk)
     ELSE ValidMbrPlan(Placed(items), disk)
=============================================================================
