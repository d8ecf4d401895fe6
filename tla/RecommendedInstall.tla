------------------------- MODULE RecommendedInstall --------------------------
(***************************************************************************)
(* classicsetup_execute_recommended_plan_with_ops with its actual          *)
(* operations (src/src/core/recommended.c) as the Install key of the       *)
(* summary screen runs it: revalidate that the disk is still empty, run    *)
(* the partition executor, match the new partitions, run the format        *)
(* executor.  Both executors run step by step inside this one, and the     *)
(* user may go back from the result and ask for another run.               *)
(***************************************************************************)
EXTENDS ApplyExecutor, FormatExecutor

CONSTANT MaxRuns  \* bound on the number of runs the user starts

ASSUME RunsAssumption == MaxRuns \in Nat

VARIABLES
  rpc,                \* where the orchestration is
  runs,               \* number of runs started
  rsystem,            \* system-disk status collected by the revalidation
  recommended_result  \* enum classicsetup_recommended_result_code

recommendedVars == <<rpc, runs, rsystem, recommended_result>>

vars == <<worldVars, applyVars, formatVars, recommendedVars>>

RecommendedCodes ==
  {"NOT_RUN", "BLOCKED", "PARTITION_FAILED", "FORMAT_PLAN_FAILED",
   "FORMAT_FAILED", "SUCCESS"}

FinishInstall(code) ==
  /\ rpc' = "DONE"
  /\ recommended_result' = code

-----------------------------------------------------------------------------
\* Mutant: the format result of an earlier run is not cleared.
BeginInstallStale ==
  /\ rpc \in {"IDLE", "DONE"}
  /\ runs < MaxRuns
  /\ runs' = runs + 1
  /\ rpc' = "IDENTITY"
  /\ apc' = "IDLE"
  /\ awrote' = FALSE
  /\ apply_result' = ApplyZero
  /\ fpc' = "IDLE"
  /\ UNCHANGED <<rsystem, recommended_result, acheck, ain, attempt, fslot,
                 fcheck, fin, fplan, fbefore, format_result, worldVars>>

\* The results of an earlier run are cleared before anything is looked at.
BeginInstall ==
  /\ rpc \in {"IDLE", "DONE"}
  /\ runs < MaxRuns
  /\ runs' = runs + 1
  /\ rpc' = "IDENTITY"
  /\ apc' = "IDLE"
  /\ awrote' = FALSE
  /\ apply_result' = ApplyZero
  /\ fpc' = "IDLE"
  /\ format_result' = FormatZero
  /\ UNCHANGED <<rsystem, recommended_result, acheck, ain, attempt, fslot,
                 fcheck, fin, fplan, fbefore, worldVars>>

\* actual_revalidate_empty_disk: identity, then the assessment, whose class
\* is RAW_EMPTY only on a disk not in use whose scan shows no partition.
RevalidateIdentity ==
  /\ rpc = "IDENTITY"
  /\ disturbed' = FALSE
  /\ \E ok \in RevalidateResults :
       IF ok THEN rpc' = "ASSESS_SYSTEM" /\ UNCHANGED recommended_result
             ELSE FinishInstall("BLOCKED")
  /\ UNCHANGED <<host, attached, table, fs, listed, mounted, events, raced,
                 runs, rsystem, applyVars, formatVars>>

\* classicsetup_classify_disk_facts and the policy for the class: of the
\* classes these facts can give, RAW_EMPTY alone may be installed to; what the
\* plan says of the disk (its identity, not removable) is as when it was made.
Selectable(system, scan) == system = "SAFE" /\ scan = "NONE"

AssessSystem ==
  /\ rpc = "ASSESS_SYSTEM"
  /\ rsystem' \in SystemResults
  /\ rpc' = "ASSESS_SCAN"
  /\ UNCHANGED <<runs, recommended_result, worldVars, applyVars, formatVars>>

AssessScan ==
  /\ rpc = "ASSESS_SCAN"
  /\ \E scan \in ScanResults :
       IF Selectable(rsystem, scan)
       THEN rpc' = "PARTITION" /\ UNCHANGED recommended_result
       ELSE FinishInstall("BLOCKED")
  /\ UNCHANGED <<runs, rsystem, worldVars, applyVars, formatVars>>

StartPartition ==
  /\ rpc = "PARTITION"
  /\ BeginApply
  /\ UNCHANGED <<recommendedVars, formatVars>>

RunPartition ==
  /\ rpc = "PARTITION"
  /\ ApplyStep
  /\ UNCHANGED <<recommendedVars, formatVars>>

PartitionDone ==
  /\ rpc = "PARTITION"
  /\ apc = "DONE"
  /\ IF apply_result.code = "SUCCESS"
     THEN rpc' = "BUILD" /\ UNCHANGED recommended_result
     ELSE FinishInstall("PARTITION_FAILED")
  /\ UNCHANGED <<runs, rsystem, worldVars, applyVars, formatVars>>

\* actual_build_format_plan: a scan of the target's name, without looking at
\* its identity again; every planned range must be there.
BuildFormat ==
  /\ rpc = "BUILD"
  /\ \E scan \in ScanResults :
       IF RangesMatch(scan)
       THEN /\ rpc' = "FORMAT"
            /\ fplan' = scan
            /\ UNCHANGED recommended_result
       ELSE /\ FinishInstall("FORMAT_PLAN_FAILED")
            /\ UNCHANGED fplan
  /\ UNCHANGED <<runs, rsystem, fpc, fslot, fcheck, fin, fbefore,
                 format_result, worldVars, applyVars>>

StartFormat ==
  /\ rpc = "FORMAT"
  /\ BeginFormat
  /\ UNCHANGED <<recommendedVars, applyVars>>

RunFormat ==
  /\ rpc = "FORMAT"
  /\ FormatStep
  /\ UNCHANGED <<recommendedVars, applyVars>>

\* Mutant: only a formatter that failed makes the run fail.
FormatDoneUnlessFailed ==
  /\ rpc = "FORMAT"
  /\ fpc = "DONE"
  /\ FinishInstall(IF format_result.code = "PROCESS_FAILED" THEN "FORMAT_FAILED"
                   ELSE "SUCCESS")
  /\ UNCHANGED <<runs, rsystem, worldVars, applyVars, formatVars>>

FormatDone ==
  /\ rpc = "FORMAT"
  /\ fpc = "DONE"
  /\ FinishInstall(IF format_result.code = "SUCCESS" THEN "SUCCESS"
                   ELSE "FORMAT_FAILED")
  /\ UNCHANGED <<runs, rsystem, worldVars, applyVars, formatVars>>

InstallStep ==
  \/ RevalidateIdentity \/ AssessSystem \/ AssessScan
  \/ StartPartition \/ RunPartition \/ PartitionDone
  \/ BuildFormat \/ StartFormat \/ RunFormat \/ FormatDone

RecommendedInit ==
  /\ WorldInit /\ ApplyIdle /\ FormatIdle
  /\ rpc = "IDLE"
  /\ runs = 0
  /\ rsystem = "UNKNOWN"
  /\ recommended_result = "NOT_RUN"

RecommendedNext ==
  \/ BeginInstall
  \/ InstallStep
  \/ Environment /\ UNCHANGED <<applyVars, formatVars, recommendedVars>>

RecommendedSpec == RecommendedInit /\ [][RecommendedNext]_vars

\* The run is one thread of a sequential program: it is scheduled, and the
\* tools and probes it waits for return.
FairRecommendedSpec == RecommendedSpec /\ WF_vars(InstallStep)

-----------------------------------------------------------------------------
\* Types of the variables of the orchestration and of its two executors.
RecommendedTypeOK ==
  /\ ApplyTypeOK
  /\ FormatTypeOK
  /\ rpc \in {"IDLE", "IDENTITY", "ASSESS_SYSTEM", "ASSESS_SCAN", "PARTITION",
              "BUILD", "FORMAT", "DONE"}
  /\ runs \in 0..MaxRuns
  /\ rsystem \in SystemStatus
  /\ recommended_result \in RecommendedCodes

\* The code a run ends with tells how far it took the disk: every behaviour
\* is one of the abstract storage installation, under this mapping.
installStage ==
  IF ~awrote THEN 0
  ELSE IF apply_result.code # "SUCCESS" THEN 1
  ELSE IF format_result.code = "SUCCESS" THEN 6
  ELSE 2 + format_result.completed_count

installOutcome ==
  IF rpc = "IDLE" THEN "IDLE"
  ELSE IF rpc = "DONE" THEN recommended_result
  ELSE "RUNNING"

Storage == INSTANCE StorageInstall
             WITH stage <- installStage, outcome <- installOutcome

ImplementsStorageInstall == Storage!Spec

\* A run reported as SUCCESS leaves the selected disk with the layout and all
\* its filesystems, unless a tool or a verification ran in a changed world or
\* another disk passes for the selected one.
InstallSuccessIsReal ==
  [][(/\ recommended_result' = "SUCCESS" /\ rpc = "FORMAT" /\ rpc' = "DONE"
      /\ ~raced /\ ~disturbed /\ Imposters = {} /\ ~host.hidesEntries)
     => /\ RangesMatch(table[Selected])
        /\ fs[Selected] = Wanted]_vars

\* Running Install again never writes a partition table over a disk on which
\* an earlier run has made a filesystem, unless the world changed after the
\* last safety check began or a scan skips partitions it cannot read.
NeverRepartitionsFormatted ==
  [][awrote' /\ ~awrote =>
       \/ disturbed
       \/ host.hidesEntries
       \/ \A s \in Slots : fs[attached][s] \notin {"FAT32", "NTFS"}]_vars

\* Every run ends with a result, however often the executors verify, check a
\* second time or find the world changed (apply.c:660, format_apply.c:816).
InstallTerminates ==
  (rpc \notin {"IDLE", "DONE"}) ~> (rpc = "DONE")

\* README.md:5-6: Recommended only installs to a disk that is safely raw and
\* empty.
PartitionsOnlyRawDisk ==
  [][awrote' /\ ~awrote => disturbed \/ table[attached] = "NONE"]_vars
=============================================================================
