--------------------------- MODULE PartitionScreen ---------------------------
(***************************************************************************)
(* Planning an Advanced installation: the install mode, disk, partition    *)
(* and format screens (src/src/tui/partition_selection.c, src/src/app.c)   *)
(* over the fields of the configuration they share (src/src/config.c).     *)
(* Screens before the partition screen are BEFORE, those after the format  *)
(* screen PLANNED.  No disk changes: what was applied is modelled          *)
(* elsewhere.                                                              *)
(***************************************************************************)
EXTENDS PartitionPlan

CONSTANTS
  PlanDisks,    \* disks: [sectors: Nat, parts: set of [start, count]]
  CreateSizes   \* sizes in megabytes asked for at the size prompt

\* A scan lists finitely many partitions; a disk's size, even in bytes, is a
\* word (disk.c:52-70).
ASSUME DisksAssumption ==
  /\ PlanDisks \subseteq [sectors: Nat, parts: SUBSET [start: Nat, count: Nat]]
  /\ \A d \in PlanDisks : IsFiniteSet(d.parts) /\ d.sectors < WordSize
  /\ CreateSizes \subseteq Nat

VARIABLES
  screen,
  mode,     \* install_mode
  disk,     \* selected_disk
  hasPlan,  \* has_partition_plan
  plan,     \* partition_plan
  target,   \* selected_plan_target, NoItem when there is none
  roles,    \* the roles with a format plan in role_format_plans
  ready,    \* advanced_storage_plan_ready
  before    \* history: the plan the last layout was put in, {} after an edit

vars == <<screen, mode, disk, hasPlan, plan, target, roles, ready, before>>

Screens == {"BEFORE", "PARTITION", "FORMAT", "PLANNED"}
Modes   == {"UEFI", "BIOS"}

\* A target cleared with memset.
NoItem == Item("EXISTING", "NONE", 0, 0)

\* classicsetup_config_revalidate_plan_selection for a target and a plan.
Revalidated(t, p) == IF t \in p /\ InstallTarget(t) THEN t ELSE NoItem

ClearFormatPlans == roles' = {} /\ ready' = FALSE

\* classicsetup_config_reset_partition_plan.
ResetPlan ==
  /\ hasPlan' = FALSE
  /\ plan' = {}
  /\ target' = NoItem
  /\ before' = {}
  /\ ClearFormatPlans

-----------------------------------------------------------------------------
\* Choosing another install mode or another disk forgets the plan.
ChooseMode ==
  /\ screen = "BEFORE"
  /\ mode' \in Modes \ {mode}
  /\ ResetPlan
  /\ UNCHANGED <<screen, disk>>

ChooseDisk ==
  /\ screen = "BEFORE"
  /\ disk' \in PlanDisks \ {disk}
  /\ ResetPlan
  /\ UNCHANGED <<screen, mode>>

\* Entering the partition screen scans the disk unless there is a plan; when
\* the scan fails or cannot be planned on, the screen has nothing to edit.
EnterPartition ==
  /\ screen = "BEFORE"
  /\ screen' = "PARTITION"
  /\ \/ UNCHANGED <<hasPlan, plan>>
     \/ /\ ~hasPlan
        /\ plan' \in InitialPlan(disk.parts, disk.sectors)
        /\ hasPlan' = TRUE
  /\ UNCHANGED <<mode, disk, target, roles, ready, before>>

\* C: a partition of so many megabytes at the start of a free range.
CreatePartition ==
  /\ screen = "PARTITION"
  /\ \E free \in Free(plan) :
     \E mb \in CreateSizes :
       plan' \in Created(plan, disk.sectors, free, mb)
  /\ before' = {}
  /\ UNCHANGED <<screen, mode, disk, hasPlan, target, roles, ready>>

\* D, confirmed.
DeletePartition ==
  /\ screen = "PARTITION"
  /\ \E i \in Live(plan) : plan' \in Deleted(plan, disk.sectors, i)
  /\ before' = {}
  /\ UNCHANGED <<screen, mode, disk, hasPlan, target, roles, ready>>

\* Mutant: the format plans outlive the layout.
UndoLayoutKeepsFormats ==
  /\ screen = "PARTITION"
  /\ plan' \in Undone(plan, disk.sectors, mode)
  /\ target' = Revalidated(target, plan')
  /\ before' = {}
  /\ UNCHANGED <<screen, mode, disk, hasPlan, roles, ready>>

\* U, confirmed: classicsetup_config_undo_windows_layout.
UndoLayout ==
  /\ screen = "PARTITION"
  /\ plan' \in Undone(plan, disk.sectors, mode)
  /\ target' = Revalidated(target, plan')
  /\ before' = {}
  /\ ClearFormatPlans
  /\ UNCHANGED <<screen, mode, disk, hasPlan>>

\* ENTER on an item: prepare it and select it as the target.
SelectTarget ==
  /\ screen = "PARTITION"
  /\ \E i \in plan : \E r \in Prepared(plan, disk.sectors, i, mode) :
       /\ plan' = r[1]
       /\ target' = r[2]
       /\ before' = (IF i.state = "UNALLOCATED" THEN plan ELSE before)
  /\ ClearFormatPlans
  /\ screen' = "FORMAT"
  /\ UNCHANGED <<mode, disk, hasPlan>>

\* Mutant: leaving by B or Q does not look at the target again.
LeavePartitionUnchecked ==
  /\ screen = "PARTITION"
  /\ screen' = "BEFORE"
  /\ UNCHANGED <<mode, disk, hasPlan, plan, target, roles, ready, before>>

\* B, or Q that is not confirmed, which shows the screen again.
LeavePartition ==
  /\ screen = "PARTITION"
  /\ screen' \in {"BEFORE", "PARTITION"}
  /\ target' = Revalidated(target, plan)
  /\ IF target # NoItem /\ target' = NoItem THEN ClearFormatPlans
     ELSE UNCHANGED <<roles, ready>>
  /\ UNCHANGED <<mode, disk, hasPlan, plan, before>>

\* Mutant: free space gets a format plan too.
ChooseFormatEveryItem ==
  /\ screen = "FORMAT"
  /\ hasPlan /\ Valid(plan, disk.sectors)
  /\ target # NoItem /\ InstallTarget(target)
  /\ roles' = {i.role : i \in plan} \ {"GENERIC"}
  /\ ready' = TRUE
  /\ screen' = "PLANNED"
  /\ UNCHANGED <<mode, disk, hasPlan, plan, target, before>>

\* classicsetup_config_set_format_plan: a policy for every role of the plan.
ChooseFormat ==
  /\ screen = "FORMAT"
  /\ hasPlan /\ Valid(plan, disk.sectors)
  /\ target # NoItem /\ InstallTarget(target)
  /\ roles' = {i.role : i \in Live(plan)} \ {"GENERIC"}
  /\ ready' = TRUE
  /\ screen' = "PLANNED"
  /\ UNCHANGED <<mode, disk, hasPlan, plan, target, before>>

GoBack ==
  /\ \/ screen = "FORMAT"  /\ screen' = "PARTITION"
     \/ screen = "PLANNED" /\ screen' = "FORMAT"
  /\ UNCHANGED <<mode, disk, hasPlan, plan, target, roles, ready, before>>

Init ==
  /\ screen = "BEFORE"
  /\ mode = "UEFI"
  /\ disk \in PlanDisks
  /\ hasPlan = FALSE
  /\ plan = {}
  /\ target = NoItem
  /\ roles = {}
  /\ ready = FALSE
  /\ before = {}

Next ==
  \/ ChooseMode \/ ChooseDisk \/ EnterPartition
  \/ CreatePartition \/ DeletePartition \/ UndoLayout \/ SelectTarget
  \/ LeavePartition \/ ChooseFormat \/ GoBack

Spec == Init /\ [][Next]_vars

-----------------------------------------------------------------------------
\* Types of the configuration's fields.
TypeOK ==
  /\ screen \in Screens
  /\ mode \in Modes
  /\ disk \in PlanDisks
  /\ hasPlan \in BOOLEAN
  /\ plan \subseteq Items
  /\ target \in Items
  /\ roles \subseteq Roles \ {"GENERIC"}
  /\ ready \in BOOLEAN
  /\ before \subseteq Items

\* Whatever edits were made, the plan still knows every partition the disk
\* had, at its place and size, kept or marked for deletion: what is shown and
\* later refused or applied rests on it (partition_plan.c:889-915).
OriginalsKept ==
  hasPlan =>
    {[start |-> i.start, count |-> i.count] :
       i \in {j \in plan : j.state \in {"EXISTING", "DELETED"}}} = disk.parts

\* No edit the screen offers is refused at its end for leaving an invalid
\* plan, as long as the item array has room: the free space computed after
\* any history of edits fits the partitions exactly (partition_plan.c:170-236).
\* Of the numbers that can be typed exactly those up to the maximum shown are
\* sizes, also of those whose sectors would wrap (partition_plan.c:280-297).
EditsAccepted ==
  hasPlan /\ Cardinality(plan) < MaxItems =>
    /\ \A free \in Free(plan) : \A mb \in 1..(WordSize - 1) :
         IF mb <= free.count \div SectorsPerMB
         THEN Created(plan, disk.sectors, free, mb) # {}
         ELSE SizeMbToSectors(mb, free.count) = {}
    /\ \A i \in Live(plan) : Deleted(plan, disk.sectors, i) # {}
    /\ HasLayout(plan, disk.sectors, mode) =>
         Undone(plan, disk.sectors, mode) # {}

\* Undoing a Windows layout gives back the plan it was put in, whatever was
\* planned by hand before it (partition_plan.c:825-877).
UndoRestores ==
  [][(/\ screen = "PARTITION" /\ screen' = "PARTITION"
      /\ plan' # plan /\ before # {}
      /\ LayoutItems(plan, mode) # {} /\ LayoutItems(plan', mode) = {})
     => plan' = before]_vars

\* On a disk that had no partitions, a plan holding a UEFI layout and nothing
\* else can be applied, however it was arrived at: the planner and the checks
\* of the apply plan agree on alignment and on the room both GPTs need
\* (partition_plan.c:446-554, apply.c:209-258).
UefiLayoutApplies ==
  hasPlan /\ mode = "UEFI" /\ disk.parts = {}
  /\ HasLayout(plan, disk.sectors, mode)
  /\ Placed(plan) = LayoutItems(plan, mode)
    => Applicable(plan, disk.sectors, 0, mode)

\* Outside the partition screen the installation target is an item of the
\* plan; past it, there is one (config.c:125-148).
TargetCurrent ==
  /\ screen # "PARTITION" /\ target # NoItem => target \in plan
  /\ screen \in {"FORMAT", "PLANNED"} => target # NoItem

\* A plan handed on as ready has a target in it and a filesystem for every
\* role it contains (config.c:195-244).
ReadyCoversPlan ==
  /\ screen = "PLANNED" => ready
  /\ ready /\ screen # "PARTITION" =>
       /\ target \in plan
       /\ \A i \in Live(plan) : i.role \in roles \union {"GENERIC"}
=============================================================================
