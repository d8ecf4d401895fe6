--------------------------- MODULE FormatExecutor ----------------------------
(***************************************************************************)
(* classicsetup_execute_format_apply_plan (src/src/core/format_apply.c),   *)
(* one step per probe and tool run: for each partition of the UEFI layout  *)
(* collect and evaluate the safety inputs twice, run the formatter, read   *)
(* the filesystem back; at last check the MSR and see that it holds no     *)
(* signature.  The plan names partitions by device path; fplan remembers   *)
(* the numbering those paths were taken from.                              *)
(***************************************************************************)
EXTENDS DiskWorld

VARIABLES
  fpc,           \* where the executor is
  fslot,         \* index in FormatOrder of the partition worked on
  fcheck,        \* which of the two safety checks is running
  fin,           \* safety inputs collected so far
  fplan,         \* the numbering the plan's device paths were matched in
  fbefore,       \* history: the filesystems when this execution began
  format_result  \* struct classicsetup_format_result

formatVars == <<fpc, fslot, fcheck, fin, fplan, fbefore, format_result>>

\* The partitions in the order of the plan, the MSR last.
FormatOrder == <<"EFI", "WINDOWS", "RECOVERY", "MSR">>

Slot == FormatOrder[fslot]

\* format_policy_matches: the filesystem each role must carry.
Wanted == [EFI |-> "FAT32", WINDOWS |-> "NTFS", RECOVERY |-> "NTFS",
           MSR |-> "NONE"]

FormatCodes ==
  {"NOT_RUN", "BLOCKED", "PROCESS_FAILED", "VERIFY_FAILED", "SUCCESS"}

\* The order of classicsetup_evaluate_format_safety, without INVALID_PLAN,
\* which cannot occur for the valid plan executed here.
FormatSafetyOrder ==
  <<"WSL", "MBR_NOT_ENABLED", "NOT_SUPPORTED_VM", "LOCKED", "DISK_IDENTITY",
    "SYSTEM_DISK", "SYSTEM_DISK_UNKNOWN", "UNSUPPORTED_SECTOR_SIZE",
    "PARTITION_LAYOUT", "PARTITION_DEVICE", "PARTITION_MOUNTED",
    "PARTITION_MOUNT_UNKNOWN", "TOOL_UNAVAILABLE">>

FormatObjections(in) ==
  [WSL                     |-> host.env = "WSL",
   MBR_NOT_ENABLED         |-> host.planTable = "MBR",
   NOT_SUPPORTED_VM        |-> host.env # "VM",
   LOCKED                  |-> ~host.unlocked,
   DISK_IDENTITY           |-> ~in.identity,
   SYSTEM_DISK             |-> in.system = "IN_USE",
   SYSTEM_DISK_UNKNOWN     |-> in.system # "SAFE",
   UNSUPPORTED_SECTOR_SIZE |-> ~host.sector512,
   PARTITION_LAYOUT        |-> ~in.layout,
   PARTITION_DEVICE        |-> ~in.device,
   PARTITION_MOUNTED       |-> in.mount = "MOUNTED",
   PARTITION_MOUNT_UNKNOWN |-> in.mount # "NOT_MOUNTED",
   TOOL_UNAVAILABLE        |-> \/ ~host.mkfs /\ Slot # "MSR"
                               \/ ~host.blkid]

FormatSafetyCodes ==
  {"OK", "INVALID_PLAN", "WSL", "MBR_NOT_ENABLED", "NOT_SUPPORTED_VM",
   "LOCKED", "DISK_IDENTITY", "SYSTEM_DISK", "SYSTEM_DISK_UNKNOWN",
   "UNSUPPORTED_SECTOR_SIZE", "PARTITION_LAYOUT", "PARTITION_DEVICE",
   "PARTITION_MOUNTED", "PARTITION_MOUNT_UNKNOWN", "TOOL_UNAVAILABLE"}

NoFormatInputs ==
  [identity |-> FALSE, system |-> "UNKNOWN", layout |-> FALSE,
   device |-> FALSE, mount |-> "UNKNOWN"]

FormatNotRun ==
  [code |-> "NOT_RUN", safety |-> "INVALID_PLAN", failed_role |-> "NONE",
   completed_count |-> 0]

\* The result the callers clear with memset: its safety code reads OK.
FormatZero == [FormatNotRun EXCEPT !.safety = "OK"]

FinishFormat(code) ==
  /\ fpc' = "DONE"
  /\ format_result' = [format_result EXCEPT !.code = code]

\* The verdict on collected inputs: block, check a second time, or go on to
\* the formatter.  The MSR is not formatted, only looked at.
EvaluateFormat(in) ==
  /\ fin' = in
  /\ IF ~Clear(FormatObjections(in))
     THEN /\ fpc' = "DONE"
          /\ format_result' =
               [format_result EXCEPT
                  !.code   = "BLOCKED",
                  !.safety = FirstObjection(FormatObjections(in), FormatSafetyOrder)]
          /\ UNCHANGED fcheck
     ELSE IF fcheck = 1
     THEN /\ fpc' = "IDENTITY"
          /\ fcheck' = 2
          /\ UNCHANGED format_result
     ELSE /\ fpc' = (IF Slot = "MSR" THEN "VERIFY" ELSE "MKFS")
          /\ UNCHANGED fcheck
          /\ format_result' = [format_result EXCEPT !.safety = "OK"]

\* The partition a device path of the plan denotes now: another one of the
\* layout after the numbers were permuted.
Permuted == [EFI |-> "WINDOWS", WINDOWS |-> "EFI",
             MSR |-> "RECOVERY", RECOVERY |-> "MSR"]

Denoted(s) ==
  IF RangesMatch(listed) /\ listed # fplan THEN Permuted[s] ELSE s

-----------------------------------------------------------------------------
BeginFormat ==
  /\ fpc = "IDLE"
  /\ IF host.planTable = "MBR"
     THEN /\ fpc' = "DONE"
          /\ format_result' = [FormatNotRun EXCEPT !.code   = "BLOCKED",
                                                   !.safety = "MBR_NOT_ENABLED"]
     ELSE /\ fpc' = "IDENTITY"
          /\ format_result' = [FormatNotRun EXCEPT !.failed_role = FormatOrder[1]]
  /\ fslot' = 1
  /\ fcheck' = 1
  /\ fin' = NoFormatInputs
  /\ fbefore' = fs
  /\ UNCHANGED <<fplan, worldVars>>

\* Under WSL the collection stops before the disk is looked at.
FormatIdentity ==
  /\ fpc = "IDENTITY"
  /\ disturbed' = FALSE
  /\ IF host.env = "WSL"
     THEN EvaluateFormat(NoFormatInputs)
     ELSE \E ok \in RevalidateResults :
            /\ fin' = [NoFormatInputs EXCEPT !.identity = ok]
            /\ fpc' = "SYSTEM"
            /\ UNCHANGED <<fcheck, format_result>>
  /\ UNCHANGED <<host, attached, table, fs, listed, mounted, events, raced,
                 fslot, fplan, fbefore>>

FormatSystem ==
  /\ fpc = "SYSTEM"
  /\ \E status \in SystemResults : fin' = [fin EXCEPT !.system = status]
  /\ fpc' = "SCAN"
  /\ UNCHANGED <<fslot, fcheck, fplan, fbefore, format_result, worldVars>>

\* Mutant: the partition's device path is not compared with the plan's.
FormatScanAnyPath ==
  /\ fpc = "SCAN"
  /\ IF fin.identity
     THEN \E scan \in ScanResults :
            LET in == [fin EXCEPT !.layout = RangesMatch(scan),
                                  !.device = RangesMatch(scan)]
            IN  IF in.device
                THEN /\ fpc' = "MOUNT"
                     /\ fin' = in
                     /\ UNCHANGED <<fcheck, format_result>>
                ELSE EvaluateFormat(in)
     ELSE EvaluateFormat(fin)
  /\ UNCHANGED <<fslot, fplan, fbefore, worldVars>>

\* The scan shows whether the disk carries the plan's ranges and whether the
\* partition still has the path of the plan, which must be a block device;
\* only then is the mount table read.
FormatScan ==
  /\ fpc = "SCAN"
  /\ IF fin.identity
     THEN \E scan \in ScanResults :
          \E device \in {FALSE, RangesMatch(scan) /\ scan = fplan} :
            LET in == [fin EXCEPT !.layout = RangesMatch(scan),
                                  !.device = device]
            IN  IF device
                THEN /\ fpc' = "MOUNT"
                     /\ fin' = in
                     /\ UNCHANGED <<fcheck, format_result>>
                ELSE EvaluateFormat(in)
     ELSE EvaluateFormat(fin)
  /\ UNCHANGED <<fslot, fplan, fbefore, worldVars>>

FormatMount ==
  /\ fpc = "MOUNT"
  /\ \E status \in MountResults(Denoted(Slot)) :
       EvaluateFormat([fin EXCEPT !.mount = status])
  /\ UNCHANGED <<fslot, fplan, fbefore, worldVars>>

\* A formatter that fails may have written nothing, or anything.
RunFormatter ==
  /\ fpc = "MKFS"
  /\ \/ /\ listed # "NONE"
        /\ fs' = [fs EXCEPT ![attached][Denoted(Slot)] = Wanted[Slot]]
        /\ fpc' = "VERIFY"
        /\ UNCHANGED format_result
     \/ /\ listed # "NONE"
        /\ \E left \in {"NONE", "FOREIGN", Wanted[Slot]} :
             fs' = [fs EXCEPT ![attached][Denoted(Slot)] = left]
        /\ FinishFormat("PROCESS_FAILED")
     \/ /\ FinishFormat("PROCESS_FAILED")
        /\ UNCHANGED fs
  /\ raced' = (raced \/ disturbed)
  /\ UNCHANGED <<host, attached, table, listed, mounted, events, disturbed,
                 fslot, fcheck, fin, fplan, fbefore>>

\* Mutants: the MSR is counted; the failed role is not advanced.
PartitionVerifiedCountsMsr ==
  IF Slot = "MSR"
  THEN /\ fpc' = "DONE"
       /\ format_result' = [format_result EXCEPT !.code            = "SUCCESS",
                                                 !.completed_count = @ + 1]
       /\ UNCHANGED <<fslot, fcheck>>
  ELSE /\ fpc' = "IDENTITY"
       /\ fslot' = fslot + 1
       /\ fcheck' = 1
       /\ format_result' =
            [format_result EXCEPT !.completed_count = @ + 1,
                                  !.failed_role     = FormatOrder[fslot + 1]]

PartitionVerifiedKeepsRole ==
  IF Slot = "MSR"
  THEN /\ FinishFormat("SUCCESS")
       /\ UNCHANGED <<fslot, fcheck>>
  ELSE /\ fpc' = "IDENTITY"
       /\ fslot' = fslot + 1
       /\ fcheck' = 1
       /\ format_result' = [format_result EXCEPT !.completed_count = @ + 1]

\* The partition is done: count it and turn to the next, or succeed.
PartitionVerified ==
  IF Slot = "MSR"
  THEN /\ fpc' = "DONE"
       /\ format_result' = [format_result EXCEPT !.code        = "SUCCESS",
                                                 !.failed_role = "NONE"]
       /\ UNCHANGED <<fslot, fcheck>>
  ELSE /\ fpc' = "IDENTITY"
       /\ fslot' = fslot + 1
       /\ fcheck' = 1
       /\ format_result' =
            [format_result EXCEPT !.completed_count = @ + 1,
                                  !.failed_role     = FormatOrder[fslot + 1]]

\* Mutant: any answer of blkid will do for the MSR.
VerifyFilesystemNotMsr ==
  /\ fpc = "VERIFY"
  /\ \/ /\ listed # "NONE"
        /\ Slot # "MSR" => fs[attached][Denoted(Slot)] = Wanted[Slot]
        /\ PartitionVerified
     \/ /\ FinishFormat("VERIFY_FAILED")
        /\ UNCHANGED <<fslot, fcheck>>
  /\ raced' = (raced \/ disturbed)
  /\ UNCHANGED <<host, attached, table, fs, listed, mounted, events, disturbed,
                 fin, fplan, fbefore>>

\* Opening the device or running blkid may fail.
VerifyFilesystem ==
  /\ fpc = "VERIFY"
  /\ \/ /\ listed # "NONE"
        /\ fs[attached][Denoted(Slot)] = Wanted[Slot]
        /\ PartitionVerified
     \/ /\ FinishFormat("VERIFY_FAILED")
        /\ UNCHANGED <<fslot, fcheck>>
  /\ raced' = (raced \/ disturbed)
  /\ UNCHANGED <<host, attached, table, fs, listed, mounted, events, disturbed,
                 fin, fplan, fbefore>>

\* The caller is shown the result and may ask for another execution.
DismissFormat ==
  /\ fpc = "DONE"
  /\ fpc' = "IDLE"
  /\ UNCHANGED <<fslot, fcheck, fin, fplan, fbefore, format_result, worldVars>>

FormatStep ==
  \/ FormatIdentity \/ FormatSystem \/ FormatScan \/ FormatMount
  \/ RunFormatter \/ VerifyFilesystem

FormatIdle ==
  /\ fpc = "IDLE"
  /\ fslot = 1
  /\ fcheck = 1
  /\ fin = NoFormatInputs
  /\ fplan = "LAYOUT"
  /\ fbefore = fs
  /\ format_result = FormatNotRun

FormatInit == WorldInit /\ FormatIdle

FormatNext ==
  \/ BeginFormat \/ FormatStep \/ DismissFormat
  \/ Environment /\ UNCHANGED formatVars

FormatSpec ==
  /\ FormatInit
  /\ [][FormatNext]_<<worldVars, formatVars>>

-----------------------------------------------------------------------------
\* Types of the executor's variables.
FormatTypeOK ==
  /\ WorldTypeOK
  /\ fpc \in {"IDLE", "IDENTITY", "SYSTEM", "SCAN", "MOUNT", "MKFS", "VERIFY",
              "DONE"}
  /\ fslot \in 1..4
  /\ fcheck \in 1..2
  /\ fin \in [identity: BOOLEAN, system: SystemStatus, layout: BOOLEAN,
              device: BOOLEAN, mount: {"UNKNOWN", "MOUNTED", "NOT_MOUNTED"}]
  /\ fplan \in {"LAYOUT", "RENUMBERED"}
  /\ fbefore \in [Disks -> [Slots -> Filesystems]]
  /\ format_result \in [code: FormatCodes, safety: FormatSafetyCodes,
                        failed_role: Slots \union {"NONE"},
                        completed_count: 0..3]

\* A formatter is only run in an unlocked VM, and writes only the partition of
\* the plan it was started for, on the confirmed disk with nothing of it
\* mounted, unless the world changed after the last safety check of that
\* partition began; where a scan skips entries it may be another partition.
FormatsOnlyCheckedPartition ==
  [][fpc = "MKFS" /\ fpc' # "MKFS" /\ fs' # fs =>
       /\ host.env = "VM" /\ host.unlocked /\ host.sector512
       /\ \/ disturbed
          \/ /\ IdentityMatches
             /\ mounted = {}
             /\ ~(host.systemDisk /\ attached = Selected)
             /\ \/ host.hidesEntries
                \/ /\ listed = fplan
                   /\ fs' = [fs EXCEPT ![attached][Slot] = fs'[attached][Slot]]
    ]_<<worldVars, formatVars>>

\* What the result tells of a stopped execution is so: the partitions counted
\* as completed carry their filesystems, those beyond the failed one hold what
\* they held before, and no other disk was written, unless a formatter or a
\* verification ran in a changed world or a disk passes for the selected one.
\* A disk another program has wiped is blank, and has lost the layout.
PartialFormatLocated ==
  fpc # "IDLE" /\ ~raced /\ Imposters = {} /\ ~host.hidesEntries =>
    /\ ~MayWipe \/ RangesMatch(table[Selected]) =>
         /\ \A i \in 1..format_result.completed_count :
              fs[Selected][FormatOrder[i]] = Wanted[FormatOrder[i]]
         /\ \A i \in (format_result.completed_count + 1)..4 :
              FormatOrder[i] # format_result.failed_role =>
                fs[Selected][FormatOrder[i]] = fbefore[Selected][FormatOrder[i]]
    /\ \A d \in Disks \ {Selected} :
         fs[d] = fbefore[d] \/ (MayWipe /\ fs[d] = Blank)

\* SUCCESS means that the selected disk carries the layout with the wanted
\* filesystem in every partition and no signature in the MSR, under the same
\* condition.
FormatSuccessMeansInstalled ==
  [][(/\ format_result'.code = "SUCCESS" /\ format_result.code # "SUCCESS"
      /\ ~raced' /\ Imposters = {} /\ ~host.hidesEntries)
     => /\ RangesMatch(table[Selected])
        /\ fs[Selected] = Wanted]_<<worldVars, formatVars>>
=============================================================================
