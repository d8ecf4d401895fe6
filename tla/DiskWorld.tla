------------------------------ MODULE DiskWorld ------------------------------
(***************************************************************************)
(* The machine ClassicSetup runs on, as the destructive executors see it:  *)
(* the disk behind the target's kernel name, its partition table and       *)
(* filesystems, the kernel's listing of its partitions, the mounts, and    *)
(* the facts of the host that do not change while Setup runs.              *)
(*                                                                         *)
(* Every probe of the code (disk scan, partition scan, mountinfo) is an    *)
(* operator giving the SET of answers it may return in the current state,  *)
(* failures included.  Everything another process or a person at the       *)
(* machine may do meanwhile is an action of Environment.                   *)
(***************************************************************************)
EXTENDS Naturals

CONSTANTS
  Disks,        \* physical disks
  NoDisk,       \* nothing is attached under the target's name
  Selected,     \* the disk the user selected and confirmed
  Imposters,    \* other disks whose recorded identity equals Selected's
  Hosts,        \* the hosts a behaviour may start on
  StartTables,  \* the partition tables disks may start with
  Residues,     \* the filesystem signatures left where partitions will be
  MayWipe,      \* whether another program may wipe the disk clean
  MaxEvents     \* bound on the number of outside events

Environments == {"WSL", "VM", "OTHER"}
Tables       == {"NONE", "DATA", "LAYOUT", "RENUMBERED", "OTHER"}
Slots        == {"EFI", "MSR", "WINDOWS", "RECOVERY"}
Filesystems  == {"NONE", "FAT32", "NTFS", "FOREIGN"}
SystemStatus == {"SAFE", "IN_USE", "UNKNOWN"}

\* What is fixed for a whole execution: the detected environment, the unlock
\* variable, the installed tools, the disk's sector size and role, the table
\* type of the plan to be applied, and whether single partition entries of
\* sysfs may be unreadable.
AllHosts ==
  [env: Environments, unlocked: BOOLEAN, sfdisk: BOOLEAN, mkfs: BOOLEAN,
   blkid: BOOLEAN, sector512: BOOLEAN, systemDisk: BOOLEAN,
   planTable: {"GPT", "MBR"}, hidesEntries: BOOLEAN]

ASSUME WorldAssumption ==
  /\ Selected \in Disks
  /\ NoDisk \notin Disks
  /\ Imposters \subseteq Disks \ {Selected}
  /\ Hosts \subseteq AllHosts
  /\ StartTables \subseteq Tables
  /\ Residues \subseteq Filesystems
  /\ MayWipe \in BOOLEAN
  /\ MaxEvents \in Nat

VARIABLES
  host,       \* the host facts, fixed at the start
  attached,   \* the disk now behind the target's kernel name, or NoDisk
  table,      \* partition table on each disk
  fs,         \* filesystem signature in each slot of each disk
  listed,     \* partitions the kernel lists for the attached disk
  mounted,    \* what is mounted of the attached disk: slots, or the whole
  events,     \* number of outside events so far
  disturbed,  \* history: did the world change since the last check began?
  raced       \* history: a write or a verification ran while disturbed?

worldVars == <<host, attached, table, fs, listed, mounted, events,
               disturbed, raced>>

(***************************************************************************)
(* Tables.  NONE: no table and no data.  DATA: nothing a partition scan    *)
(* can list, yet contents (a filesystem on the whole disk, an LVM volume). *)
(* LAYOUT: exactly the ranges of the apply plan.  RENUMBERED: those ranges *)
(* under permuted device names.  OTHER: any other partitions.              *)
(***************************************************************************)
RangesMatch(t) == t \in {"LAYOUT", "RENUMBERED"}

Listing(t) == IF t \in {"NONE", "DATA"} THEN "NONE" ELSE t

\* classicsetup_disk_identity_matches on the disk found under the name.
IdentityMatches == attached \in {Selected} \union Imposters

\* classicsetup_revalidate_target_disk: succeeds only on a matching disk, and
\* may fail on it (the disk scan or the stat of the node fails).
RevalidateResults == {FALSE, IdentityMatches}

\* classicsetup_check_system_disk: any mount on the disk, or the running
\* system living there; unreadable or unresolvable mounts answer UNKNOWN.
SystemResults ==
  {"UNKNOWN",
   IF mounted # {} \/ (host.systemDisk /\ attached = Selected)
   THEN "IN_USE" ELSE "SAFE"}

\* Mutant: a scan that cannot be made shows an empty disk.
ScanResultsEmptyOnFailure ==
  IF attached = NoDisk THEN {"FAIL"} ELSE {"NONE", listed}

\* classicsetup_scan_partitions on the target's name: fails as a whole, or
\* lists what the kernel lists, except that an entry whose attributes cannot
\* be read is skipped without an error: partitions look like none, like
\* others, or, an extra one being hidden, like the layout.
ScanResults ==
  {"FAIL"} \union
  (IF attached = NoDisk THEN {}
   ELSE IF ~host.hidesEntries \/ listed = "NONE" THEN {listed}
   ELSE IF RangesMatch(listed) THEN {listed, "NONE", "OTHER"}
   ELSE {"NONE", "OTHER", "LAYOUT", "RENUMBERED"})

\* classicsetup_check_device_mounted for the partition in slot s.
MountResults(s) ==
  {"UNKNOWN", IF s \in mounted THEN "MOUNTED" ELSE "NOT_MOUNTED"}

\* The safety code of a check: the first objection in the order the code
\* tests them, OK when there is none.
Clear(objections) == \A c \in DOMAIN objections : ~objections[c]

FirstObjection(objections, order) ==
  order[CHOOSE i \in DOMAIN order :
          /\ objections[order[i]]
          /\ \A j \in 1..(i - 1) : ~objections[order[j]]]

-----------------------------------------------------------------------------
(***************************************************************************)
(* The environment.                                                        *)
(***************************************************************************)
Event ==
  /\ events < MaxEvents
  /\ events' = events + 1
  /\ disturbed' = TRUE
  /\ UNCHANGED <<host, raced>>

\* The disk is pulled, or a disk appears under the target's name.
Attach(d) ==
  /\ d # attached
  /\ attached' = d
  /\ listed' = (IF d = NoDisk THEN "NONE" ELSE Listing(table[d]))
  /\ mounted' = {}
  /\ Event
  /\ UNCHANGED <<table, fs>>

\* Another program writes a partition table of its own.
Repartition ==
  /\ attached # NoDisk
  /\ mounted = {}
  /\ table' = [table EXCEPT ![attached] = "OTHER"]
  /\ listed' = "OTHER"
  /\ Event
  /\ UNCHANGED <<attached, fs, mounted>>

Blank == [s \in Slots |-> "NONE"]

\* Another program wipes the disk: no table and no filesystem is left.
Wipe ==
  /\ MayWipe
  /\ attached # NoDisk
  /\ mounted = {}
  /\ table' = [table EXCEPT ![attached] = "NONE"]
  /\ fs' = [fs EXCEPT ![attached] = Blank]
  /\ listed' = "NONE"
  /\ Event
  /\ UNCHANGED <<attached, mounted>>

\* The same ranges come back under other partition numbers.
Renumber ==
  /\ attached # NoDisk
  /\ mounted = {}
  /\ table[attached] = "LAYOUT"
  /\ table' = [table EXCEPT ![attached] = "RENUMBERED"]
  /\ listed' = "RENUMBERED"
  /\ Event
  /\ UNCHANGED <<attached, fs, mounted>>

\* A filesystem of the attached disk is mounted by the desktop or a person.
Mount(s) ==
  /\ attached # NoDisk
  /\ s \notin mounted
  /\ IF s = "DISK"
     THEN table[attached] = "DATA"
     ELSE RangesMatch(listed) /\ fs[attached][s] # "NONE"
  /\ mounted' = mounted \union {s}
  /\ Event
  /\ UNCHANGED <<attached, table, fs, listed>>

Unmount(s) ==
  /\ s \in mounted
  /\ mounted' = mounted \ {s}
  /\ Event
  /\ UNCHANGED <<attached, table, fs, listed>>

\* The kernel catches up with the table last written to the disk.
KernelReread ==
  /\ attached # NoDisk
  /\ listed # Listing(table[attached])
  /\ listed' = Listing(table[attached])
  /\ disturbed' = TRUE
  /\ UNCHANGED <<host, attached, table, fs, mounted, events, raced>>

Environment ==
  \/ \E d \in Disks \union {NoDisk} : Attach(d)
  \/ Repartition
  \/ Wipe
  \/ Renumber
  \/ \E s \in Slots \union {"DISK"} : Mount(s) \/ Unmount(s)
  \/ KernelReread

WorldInit ==
  /\ host \in Hosts
  /\ attached = Selected
  /\ table \in [Disks -> StartTables]
  /\ \E residue \in Residues : fs = [d \in Disks |-> [s \in Slots |-> residue]]
  /\ listed = Listing(table[Selected])
  /\ mounted = {}
  /\ events = 0
  /\ disturbed = FALSE
  /\ raced = FALSE

WorldTypeOK ==
  /\ host \in Hosts
  /\ attached \in Disks \union {NoDisk}
  /\ table \in [Disks -> Tables]
  /\ fs \in [Disks -> [Slots -> Filesystems]]
  /\ listed \in Tables \ {"DATA"}
  /\ mounted \subseteq Slots \union {"DISK"}
  /\ events \in 0..MaxEvents
  /\ disturbed \in BOOLEAN
  /\ raced \in BOOLEAN
=============================================================================
