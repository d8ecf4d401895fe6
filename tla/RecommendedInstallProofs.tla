----------------------- MODULE RecommendedInstallProofs -----------------------
(***************************************************************************)
(* The Recommended run with both executors inside it implements the        *)
(* abstract storage installation; a reported SUCCESS is real; a second run *)
(* never repartitions what an earlier one has formatted.                   *)
(***************************************************************************)
EXTENDS RecommendedInstall, ExecutorProofs

-----------------------------------------------------------------------------
(***************************************************************************)
(* The inductive invariant: that of each executor, and which executor may  *)
(* have run at which point of the orchestration.                           *)
(***************************************************************************)
OrchestrationTypeOK ==
  /\ rpc \in {"IDLE", "IDENTITY", "ASSESS_SYSTEM", "ASSESS_SCAN", "PARTITION",
              "BUILD", "FORMAT", "DONE"}
  /\ runs \in 0..MaxRuns
  /\ rsystem \in SystemStatus
  /\ recommended_result \in RecommendedCodes

ApplyPlace ==
  /\ rpc \in {"IDLE", "IDENTITY", "ASSESS_SYSTEM", "ASSESS_SCAN"} =>
       apc = "IDLE" /\ ~awrote
  /\ rpc = "PARTITION" /\ apc = "IDLE" => ~awrote
  /\ rpc \in {"BUILD", "FORMAT"} =>
       apc = "DONE" /\ awrote /\ apply_result.code = "SUCCESS"

FormatPlace ==
  /\ rpc \in {"IDLE", "IDENTITY", "ASSESS_SYSTEM", "ASSESS_SCAN", "PARTITION",
              "BUILD"} => fpc = "IDLE"
  /\ rpc \in {"IDENTITY", "ASSESS_SYSTEM", "ASSESS_SCAN", "PARTITION", "BUILD"}
       => format_result = FormatZero
  /\ rpc = "FORMAT" /\ fpc = "IDLE" => format_result = FormatZero

RecommendedInv ==
  /\ OrchestrationTypeOK /\ ApplyPlace /\ FormatPlace
  /\ ApplyTypeOK /\ ApplyCheckInv
  /\ FormatInv

\* A format executor that is idle after a step holds nothing that speaks of
\* the world.
LEMMA FormatIdleInv ==
  ASSUME FormatTypeOK', ListingHonest', fpc' = "IDLE"
  PROVE  FormatInv'
BY DEF FormatInv, FormatProgress, FormatCheckInv, FormatIdentityKnown,
       FormatSystemKnown, FormatDeviceKnown, FormatTargetKnown,
       FormatContents, PartialFormatLocated, MsrUntouched, SuccessKnown

\* Neither does an apply executor that is idle or done, beyond its result.
LEMMA ApplyRestsKnown ==
  ASSUME apc' \in {"IDLE", "DONE"}, BlockedLeftDiskAlone'
  PROVE  ApplyCheckInv'
BY DEF ApplyCheckInv, IdentityKnown, SystemKnown, TargetKnown,
       VerifiedDiskKnown, WroteKnown

\* sfdisk leaves a listing that is old or of the layout it wrote.
LEMMA ApplyStepListing ==
  ASSUME ApplyTypeOK, ListingHonest, BeginApply \/ ApplyStep
  PROVE  ListingHonest'
<1>1. CASE WriteLayout /\ UNCHANGED attached
  BY <1>1 DEF WriteLayout, ListingHonest, RangesMatch, ApplyTypeOK, WorldTypeOK
<1>2. CASE UNCHANGED <<attached, table, listed>>
  BY <1>2 DEF ListingHonest
<1> QED BY <1>1, <1>2
        DEF BeginApply, ApplyStep, CollectIdentity, CollectSystem,
            CollectPartitions, RunSfdisk, VerifyIdentity, VerifyLayout, worldVars

\* The types of an executor whose own variables did not change.
LEMMA ApplyTypeKept ==
  ASSUME ApplyTypeOK, UNCHANGED applyVars, WorldTypeOK'
  PROVE  ApplyTypeOK'
BY DEF ApplyTypeOK, applyVars

\* The same of the format executor.
LEMMA FormatTypeKept ==
  ASSUME FormatTypeOK, UNCHANGED formatVars, WorldTypeOK'
  PROVE  FormatTypeOK'
BY DEF FormatTypeOK, formatVars

\* A step of the orchestration that only looks at the world.
LEMMA LookingKeepsInv ==
  ASSUME RecommendedInv, UNCHANGED <<applyVars, formatVars>>,
         UNCHANGED <<host, attached, table, fs, listed, mounted, events, raced>>,
         disturbed' \in {disturbed, FALSE},
         rpc \in {"IDENTITY", "ASSESS_SYSTEM", "ASSESS_SCAN"}
  PROVE  ApplyTypeOK' /\ ApplyCheckInv' /\ FormatInv'
<1>1. WorldTypeOK'
  BY DEF RecommendedInv, ApplyTypeOK, WorldTypeOK
<1>2. ApplyTypeOK' /\ FormatTypeOK'
  BY <1>1, ApplyTypeKept, FormatTypeKept DEF RecommendedInv, FormatInv
<1>3. apc' = "IDLE" /\ BlockedLeftDiskAlone'
  BY DEF RecommendedInv, ApplyPlace, applyVars, ApplyCheckInv, WroteKnown,
         BlockedLeftDiskAlone
<1>4. fpc' = "IDLE" /\ ListingHonest'
  BY DEF RecommendedInv, FormatPlace, FormatInv, formatVars, ListingHonest
<1> QED BY <1>2, <1>3, <1>4, ApplyRestsKnown, FormatIdleInv

\* Each step of a run keeps the invariant.
LEMMA InstallStepInv ==
  ASSUME RecommendedInv, InstallStep
  PROVE  RecommendedInv'
<1> USE DEF RecommendedInv
<1>1. CASE RevalidateIdentity
  <2>1. /\ rpc = "IDENTITY" /\ UNCHANGED <<applyVars, formatVars, runs, rsystem>>
        /\ UNCHANGED <<host, attached, table, fs, listed, mounted, events, raced>>
        /\ disturbed' = FALSE
        /\ \/ rpc' = "ASSESS_SYSTEM" /\ UNCHANGED recommended_result
           \/ rpc' = "DONE" /\ recommended_result' = "BLOCKED"
    BY <1>1 DEF RevalidateIdentity, FinishInstall
  <2>2. OrchestrationTypeOK' /\ ApplyPlace' /\ FormatPlace'
    BY <2>1 DEF OrchestrationTypeOK, RecommendedCodes, ApplyPlace, FormatPlace,
                applyVars, formatVars
  <2> QED BY <2>1, <2>2, LookingKeepsInv
<1>2. CASE AssessSystem
  <2>1. SystemResults \subseteq SystemStatus
    BY DEF SystemResults, SystemStatus
  <2>2. /\ rpc = "ASSESS_SYSTEM" /\ rpc' = "ASSESS_SCAN"
        /\ UNCHANGED <<applyVars, formatVars, worldVars, runs, recommended_result>>
        /\ rsystem' \in SystemResults
    BY <1>2 DEF AssessSystem
  <2>3. OrchestrationTypeOK' /\ ApplyPlace' /\ FormatPlace'
    BY <2>1, <2>2 DEF OrchestrationTypeOK, ApplyPlace, FormatPlace, applyVars, formatVars
  <2> QED BY <2>2, <2>3, LookingKeepsInv DEF worldVars
<1>3. CASE AssessScan
  <2>1. /\ rpc = "ASSESS_SCAN"
        /\ UNCHANGED <<applyVars, formatVars, worldVars, runs, rsystem>>
        /\ \/ rpc' = "PARTITION" /\ UNCHANGED recommended_result
           \/ rpc' = "DONE" /\ recommended_result' = "BLOCKED"
    BY <1>3 DEF AssessScan, FinishInstall
  <2>2. OrchestrationTypeOK' /\ ApplyPlace' /\ FormatPlace'
    BY <2>1 DEF OrchestrationTypeOK, RecommendedCodes, ApplyPlace, FormatPlace,
                applyVars, formatVars
  <2> QED BY <2>1, <2>2, LookingKeepsInv DEF worldVars
<1>4. CASE StartPartition \/ RunPartition
  <2>1. /\ rpc = "PARTITION" /\ UNCHANGED <<recommendedVars, formatVars>>
        /\ BeginApply \/ ApplyStep
    BY <1>4 DEF StartPartition, RunPartition
  <2>2. ApplyTypeOK' /\ ApplyCheckInv'
    BY <2>1, ApplyStepType, ApplyStepKnown
  <2>3. fpc' = "IDLE" /\ FormatTypeOK' /\ ListingHonest'
    BY <2>1, <2>2, ApplyStepListing, FormatTypeKept
    DEF FormatPlace, FormatInv, formatVars, ApplyTypeOK
  <2>4. apc' # "IDLE"
    BY <2>1 DEF BeginApply, ApplyStep, CollectIdentity, CollectSystem,
                CollectPartitions, EvaluateApply, RunSfdisk, VerifyIdentity,
                VerifyLayout, RetryVerification, FinishApply
  <2>5. OrchestrationTypeOK' /\ ApplyPlace' /\ FormatPlace'
    BY <2>1, <2>4 DEF OrchestrationTypeOK, ApplyPlace, FormatPlace,
                      recommendedVars, formatVars
  <2> QED BY <2>2, <2>3, <2>5, FormatIdleInv
<1>5. CASE PartitionDone
  <2>1. /\ rpc = "PARTITION" /\ apc = "DONE"
        /\ UNCHANGED <<applyVars, formatVars, worldVars, runs, rsystem>>
        /\ \/ /\ apply_result.code = "SUCCESS" /\ rpc' = "BUILD"
              /\ UNCHANGED recommended_result
           \/ rpc' = "DONE" /\ recommended_result' = "PARTITION_FAILED"
    BY <1>5 DEF PartitionDone, FinishInstall
  <2>2. apply_result.code = "SUCCESS" => awrote
    BY <2>1 DEF ApplyCheckInv, WroteKnown, BlockedLeftDiskAlone
  <2>3. OrchestrationTypeOK' /\ ApplyPlace' /\ FormatPlace'
    BY <2>1, <2>2 DEF OrchestrationTypeOK, RecommendedCodes, ApplyPlace,
                      FormatPlace, applyVars, formatVars
  <2>4. WorldTypeOK'
    BY <2>1 DEF worldVars, ApplyTypeOK, WorldTypeOK
  <2>5. ApplyTypeOK' /\ FormatTypeOK'
    BY <2>1, <2>4, ApplyTypeKept, FormatTypeKept DEF FormatInv
  <2>6. apc' = "DONE" /\ BlockedLeftDiskAlone'
    BY <2>1 DEF applyVars, ApplyCheckInv, WroteKnown, BlockedLeftDiskAlone
  <2>7. fpc' = "IDLE" /\ ListingHonest'
    BY <2>1 DEF FormatPlace, FormatInv, formatVars, worldVars, ListingHonest
  <2> QED BY <2>3, <2>5, <2>6, <2>7, ApplyRestsKnown, FormatIdleInv
<1>6. CASE BuildFormat
  <2>1. PICK scan \in ScanResults :
          IF RangesMatch(scan)
          THEN rpc' = "FORMAT" /\ fplan' = scan /\ UNCHANGED recommended_result
          ELSE FinishInstall("FORMAT_PLAN_FAILED") /\ UNCHANGED fplan
    BY <1>6 DEF BuildFormat
  <2>2. /\ rpc = "BUILD"
        /\ UNCHANGED <<applyVars, worldVars, runs, rsystem, fpc, fslot, fcheck,
                       fin, fbefore, format_result>>
        /\ \/ rpc' = "FORMAT" /\ UNCHANGED recommended_result
           \/ rpc' = "DONE" /\ recommended_result' = "FORMAT_PLAN_FAILED"
    BY <1>6, <2>1 DEF BuildFormat, FinishInstall
  <2>3. fplan' \in {"LAYOUT", "RENUMBERED"}
    BY <2>1 DEF RangesMatch, FormatInv, FormatTypeOK
  <2>4. OrchestrationTypeOK' /\ ApplyPlace' /\ FormatPlace'
    BY <2>2 DEF OrchestrationTypeOK, RecommendedCodes, ApplyPlace, FormatPlace,
                applyVars
  <2>5. WorldTypeOK'
    BY <2>2 DEF worldVars, ApplyTypeOK, WorldTypeOK
  <2>6. ApplyTypeOK' /\ FormatTypeOK'
    BY <2>2, <2>3, <2>5, ApplyTypeKept DEF FormatInv, FormatTypeOK
  <2>7. apc' = "DONE" /\ BlockedLeftDiskAlone'
    BY <2>2 DEF applyVars, ApplyPlace, ApplyCheckInv, WroteKnown, BlockedLeftDiskAlone
  <2>8. fpc' = "IDLE" /\ ListingHonest'
    BY <2>2 DEF FormatPlace, FormatInv, worldVars, ListingHonest
  <2> QED BY <2>4, <2>6, <2>7, <2>8, ApplyRestsKnown, FormatIdleInv
<1>7. CASE StartFormat \/ RunFormat
  <2>1. /\ rpc = "FORMAT" /\ UNCHANGED <<recommendedVars, applyVars>>
        /\ BeginFormat \/ FormatStep
    BY <1>7 DEF StartFormat, RunFormat
  <2>2. FormatInv'
    BY <2>1, FormatStepInv
  <2>3. ApplyTypeOK'
    BY <2>1, <2>2, ApplyTypeKept DEF FormatInv, FormatTypeOK
  <2>4. apc' = "DONE" /\ BlockedLeftDiskAlone'
    BY <2>1 DEF applyVars, ApplyPlace, ApplyCheckInv, WroteKnown, BlockedLeftDiskAlone
  <2>5. fpc' # "IDLE"
    BY <2>1 DEF BeginFormat, FormatStep, FormatIdentity, FormatSystem, FormatScan,
                FormatMount, EvaluateFormat, RunFormatter, VerifyFilesystem,
                PartitionVerified, FinishFormat
  <2>6. OrchestrationTypeOK' /\ ApplyPlace' /\ FormatPlace'
    BY <2>1, <2>5 DEF OrchestrationTypeOK, ApplyPlace, FormatPlace,
                      recommendedVars, applyVars
  <2> QED BY <2>2, <2>3, <2>4, <2>6, ApplyRestsKnown
<1>8. CASE FormatDone
  <2>1. /\ rpc = "FORMAT" /\ rpc' = "DONE"
        /\ recommended_result' \in {"SUCCESS", "FORMAT_FAILED"}
        /\ UNCHANGED <<runs, rsystem, worldVars, applyVars, formatVars>>
    BY <1>8 DEF FormatDone, FinishInstall
  <2>2. OrchestrationTypeOK' /\ ApplyPlace' /\ FormatPlace'
    BY <2>1 DEF OrchestrationTypeOK, RecommendedCodes, ApplyPlace, FormatPlace
  <2>3. FormatInv'
    BY <2>1, FormatStutterInv
  <2>4. ApplyTypeOK'
    BY <2>1, <2>3, ApplyTypeKept DEF FormatInv, FormatTypeOK
  <2>5. apc' = "DONE" /\ BlockedLeftDiskAlone'
    BY <2>1 DEF applyVars, ApplyPlace, ApplyCheckInv, WroteKnown, BlockedLeftDiskAlone
  <2> QED BY <2>2, <2>3, <2>4, <2>5, ApplyRestsKnown
<1> QED
  BY <1>1, <1>2, <1>3, <1>4, <1>5, <1>6, <1>7, <1>8 DEF InstallStep

\* So does the start of another run.
LEMMA BeginInstallInv ==
  ASSUME RecommendedInv, BeginInstall
  PROVE  RecommendedInv'
<1> USE DEF RecommendedInv
<1>1. /\ UNCHANGED <<worldVars, acheck, ain, attempt, fslot, fcheck, fin, fplan,
                     fbefore, rsystem, recommended_result>>
      /\ rpc' = "IDENTITY" /\ apc' = "IDLE" /\ fpc' = "IDLE"
      /\ awrote' = FALSE /\ apply_result' = ApplyZero /\ format_result' = FormatZero
      /\ runs < MaxRuns /\ runs' = runs + 1
  BY DEF BeginInstall
<1>2. OrchestrationTypeOK' /\ ApplyPlace' /\ FormatPlace'
  BY <1>1, RunsAssumption DEF OrchestrationTypeOK, ApplyPlace, FormatPlace
<1>3. WorldTypeOK' /\ ListingHonest'
  BY <1>1 DEF worldVars, ApplyTypeOK, WorldTypeOK, FormatInv, ListingHonest
<1>4. ApplyTypeOK'
  <2>1. apply_result' \in [code: ApplyCodes, safety: ApplySafetyCodes]
    BY <1>1 DEF ApplyZero, ApplyCodes, ApplySafetyCodes
  <2>2. apc' = "IDLE" /\ awrote' \in BOOLEAN
    BY <1>1
  <2> QED BY <1>1, <1>3, <2>1, <2>2 DEF ApplyTypeOK
<1>5. FormatTypeOK'
  <2>1. FormatZero \in FormatResults
    BY DEF FormatZero, FormatNotRun, FormatResults, FormatCodes, FormatSafetyCodes
  <2> QED BY <1>1, <1>3, <2>1 DEF FormatInv, FormatTypeOK, FormatResults
<1>6. BlockedLeftDiskAlone'
  BY <1>1 DEF ApplyZero, BlockedLeftDiskAlone
<1> QED BY <1>1, <1>2, <1>3, <1>4, <1>5, <1>6, ApplyRestsKnown, FormatIdleInv

\* And an outside event.
LEMMA EnvironmentRecommendedInv ==
  ASSUME RecommendedInv, Environment,
         UNCHANGED <<applyVars, formatVars, recommendedVars>>
  PROVE  RecommendedInv'
<1> USE DEF RecommendedInv
<1>1. FormatInv' /\ ApplyCheckInv'
  BY EnvironmentFormatInv, EnvironmentKnown
<1>2. ApplyTypeOK'
  BY EnvironmentType, ApplyTypeKept DEF ApplyTypeOK
<1>3. OrchestrationTypeOK' /\ ApplyPlace' /\ FormatPlace'
  BY DEF OrchestrationTypeOK, ApplyPlace, FormatPlace, recommendedVars,
         applyVars, formatVars
<1> QED BY <1>1, <1>2, <1>3

\* RecommendedInv is an invariant of the run, however often it is repeated.
THEOREM RecommendedHolds == RecommendedSpec => []RecommendedInv
<1>1. RecommendedInit => RecommendedInv
  <2> SUFFICES ASSUME RecommendedInit PROVE RecommendedInv
    OBVIOUS
  <2>1. FormatInv /\ WorldTypeOK
    BY FormatInitInv, WorldInitType DEF RecommendedInit
  <2>2. ApplyTypeOK /\ BlockedLeftDiskAlone
    <3>1. 1 \in 1..VerifyAttempts
      BY VerifyAssumption
    <3>2. ain \in [identity: BOOLEAN, system: SystemStatus, existing: BOOLEAN]
      BY DEF RecommendedInit, ApplyIdle, NothingCollected, SystemStatus
    <3>3. apply_result \in [code: ApplyCodes, safety: ApplySafetyCodes]
          /\ apply_result.code = "NOT_RUN"
      BY DEF RecommendedInit, ApplyIdle, ApplyNotRun, ApplyCodes, ApplySafetyCodes
    <3>4. awrote \in BOOLEAN /\ apc = "IDLE" /\ attempt = 1 /\ acheck = 1
      BY DEF RecommendedInit, ApplyIdle
    <3> QED BY <2>1, <3>1, <3>2, <3>3, <3>4 DEF ApplyTypeOK, BlockedLeftDiskAlone
  <2>3. ApplyCheckInv
    BY <2>2 DEF RecommendedInit, ApplyIdle, ApplyCheckInv, IdentityKnown,
                SystemKnown, TargetKnown, VerifiedDiskKnown, WroteKnown,
                ApplyNotRun
  <2>4. OrchestrationTypeOK /\ ApplyPlace /\ FormatPlace
    BY RunsAssumption
    DEF RecommendedInit, ApplyIdle, FormatIdle, OrchestrationTypeOK, ApplyPlace,
        FormatPlace, SystemStatus, RecommendedCodes
  <2> QED BY <2>1, <2>2, <2>3, <2>4 DEF RecommendedInv
<1>2. RecommendedInv /\ [RecommendedNext]_vars => RecommendedInv'
  <2> SUFFICES ASSUME RecommendedInv, [RecommendedNext]_vars
               PROVE  RecommendedInv'
    OBVIOUS
  <2>1. CASE UNCHANGED vars
    <3>1. UNCHANGED <<worldVars, applyVars, formatVars, recommendedVars>>
      BY <2>1 DEF vars
    <3>2. FormatInv'
      BY <3>1, FormatStutterInv DEF RecommendedInv
    <3>3. ApplyTypeOK'
      BY <3>1, <3>2, ApplyTypeKept DEF RecommendedInv, FormatInv, FormatTypeOK
    <3>4. ApplyCheckInv'
      BY <3>1 DEF RecommendedInv, worldVars, applyVars, ApplyCheckInv,
                  IdentityKnown, SystemKnown, TargetKnown, VerifiedDiskKnown,
                  WroteKnown, BlockedLeftDiskAlone, HostAllows, SystemSafe,
                  NothingListed, IdentityMatches
    <3>5. OrchestrationTypeOK' /\ ApplyPlace' /\ FormatPlace'
      BY <3>1 DEF RecommendedInv, OrchestrationTypeOK, ApplyPlace, FormatPlace,
                  recommendedVars, applyVars, formatVars
    <3> QED BY <3>2, <3>3, <3>4, <3>5 DEF RecommendedInv
  <2> QED BY <2>1, BeginInstallInv, InstallStepInv, EnvironmentRecommendedInv
          DEF RecommendedNext
<1> QED BY <1>1, <1>2, PTL DEF RecommendedSpec

\* Types of the orchestration and of its two executors.
THEOREM RecommendedTypeCorrect == RecommendedSpec => []RecommendedTypeOK
<1>1. RecommendedInv => RecommendedTypeOK
  BY DEF RecommendedInv, FormatInv, OrchestrationTypeOK, RecommendedTypeOK
<1> QED BY <1>1, RecommendedHolds, PTL

-----------------------------------------------------------------------------
(***************************************************************************)
(* Refinement: each step is one of the abstract storage installation, or   *)
(* changes neither its stage nor its outcome.                              *)
(***************************************************************************)
InstallKept == installStage' = installStage /\ installOutcome' = installOutcome

\* sfdisk and a verification each take the disk one stage further.
LEMMA PartitionStepImplements ==
  ASSUME RecommendedInv, StartPartition \/ RunPartition
  PROVE  Storage!Next \/ InstallKept
<1> USE DEF RecommendedInv
<1>1. /\ rpc = "PARTITION"
      /\ BeginApply \/ ApplyStep
      /\ UNCHANGED <<rpc, recommended_result, format_result>>
  BY DEF StartPartition, RunPartition, recommendedVars, formatVars
<1>2. format_result.code # "SUCCESS" /\ format_result.completed_count = 0
  BY <1>1 DEF FormatPlace, FormatZero, FormatNotRun
<1>3. installOutcome = "RUNNING" /\ installOutcome' = "RUNNING"
  BY <1>1 DEF installOutcome
<1>4. CASE BeginApply
  BY <1>1, <1>3, <1>4 DEF BeginApply, ApplyPlace, installStage, InstallKept
<1>5. CASE CollectIdentity \/ CollectSystem \/ CollectPartitions
  <2>1. ~awrote /\ awrote' = awrote
    BY <1>5 DEF CollectIdentity, CollectSystem, CollectPartitions,
                ApplyCheckInv, WroteKnown
  <2> QED BY <1>3, <2>1 DEF installStage, InstallKept
<1>6. CASE RunSfdisk
  <2>1. ~awrote /\ apply_result.code = "NOT_RUN"
    BY <1>6 DEF RunSfdisk, ApplyCheckInv, WroteKnown
  <2>2. awrote' \in BOOLEAN /\ apply_result'.code # "SUCCESS"
    BY <1>6, <2>1 DEF RunSfdisk, WriteLayout, FinishApply, ApplyTypeOK
  <2>3. installStage = 0 /\ installStage' \in {0, 1}
    BY <2>1, <2>2 DEF installStage
  <2> QED BY <1>3, <2>3 DEF InstallKept, Storage!Next, Storage!Advance
<1>7. CASE VerifyIdentity \/ VerifyLayout
  <2>1. /\ awrote /\ awrote' = awrote /\ apply_result.code = "NOT_RUN"
    BY <1>7 DEF VerifyIdentity, VerifyLayout, ApplyCheckInv, WroteKnown
  <2>2. installStage = 1 /\ installStage' \in {1, 2}
    BY <1>1, <1>2, <2>1 DEF installStage
  <2> QED BY <1>3, <2>2 DEF InstallKept, Storage!Next, Storage!Advance
<1> QED BY <1>1, <1>4, <1>5, <1>6, <1>7 DEF ApplyStep

\* A verified partition takes the disk one stage further.
LEMMA FormatStepImplements ==
  ASSUME RecommendedInv, StartFormat \/ RunFormat
  PROVE  Storage!Next \/ InstallKept
<1> USE DEF RecommendedInv, FormatInv
<1>1. /\ rpc = "FORMAT"
      /\ BeginFormat \/ FormatStep
      /\ UNCHANGED <<rpc, recommended_result, awrote, apply_result>>
  BY DEF StartFormat, RunFormat, recommendedVars, applyVars
<1>2. awrote /\ apply_result.code = "SUCCESS"
  BY <1>1 DEF ApplyPlace
<1>3. installOutcome = "RUNNING" /\ installOutcome' = "RUNNING"
  BY <1>1 DEF installOutcome
<1> DEFINE stageOf(result) == IF result.code = "SUCCESS" THEN 6
                              ELSE 2 + result.completed_count
<1>4. installStage = stageOf(format_result) /\ installStage' = stageOf(format_result')
  BY <1>1, <1>2 DEF installStage
<1> HIDE DEF stageOf
<1>5. CASE BeginFormat
  <2>1. stageOf(format_result) = 2
    BY <1>1, <1>5 DEF BeginFormat, FormatPlace, FormatZero, FormatNotRun, stageOf
  <2>2. stageOf(format_result') = 2
    <3>1. \/ format_result' = [FormatNotRun EXCEPT !.code   = "BLOCKED",
                                                  !.safety = "MBR_NOT_ENABLED"]
          \/ format_result' = [FormatNotRun EXCEPT !.failed_role = FormatOrder[1]]
      BY <1>5 DEF BeginFormat
    <3>2. format_result'.code # "SUCCESS" /\ format_result'.completed_count = 0
      BY <3>1 DEF FormatNotRun
    <3> QED BY <3>2 DEF stageOf
  <2> QED BY <1>3, <1>4, <2>1, <2>2 DEF InstallKept
<1>6. ASSUME format_result'.completed_count = format_result.completed_count,
             format_result.code # "SUCCESS", format_result'.code # "SUCCESS"
      PROVE  InstallKept
  BY <1>3, <1>4, <1>6 DEF InstallKept, stageOf
<1>7. fpc \notin {"IDLE", "DONE"} =>
        /\ format_result.code = "NOT_RUN"
        /\ format_result.completed_count = fslot - 1
  BY DEF FormatProgress
<1>8. CASE FormatIdentity \/ FormatSystem \/ FormatScan \/ FormatMount
  <2>1. \A in : EvaluateFormat(in) =>
          /\ format_result'.completed_count = format_result.completed_count
          /\ format_result'.code \in {"BLOCKED", format_result.code}
    BY DEF EvaluateFormat, FormatTypeOK
  <2>2. UNCHANGED format_result \/ \E in : EvaluateFormat(in)
    BY <1>8 DEF FormatIdentity, FormatSystem, FormatScan, FormatMount
  <2>3. fpc \notin {"IDLE", "DONE"}
    BY <1>8 DEF FormatIdentity, FormatSystem, FormatScan, FormatMount
  <2> QED BY <1>6, <1>7, <2>1, <2>2, <2>3
<1>9. ASSUME NEW code \in FormatCodes \ {"SUCCESS"}, FinishFormat(code)
      PROVE  /\ format_result'.completed_count = format_result.completed_count
             /\ format_result'.code # "SUCCESS"
  BY <1>9 DEF FinishFormat, FormatTypeOK
<1>10. CASE RunFormatter
  <2>1. fpc = "MKFS" /\ (UNCHANGED format_result \/ FinishFormat("PROCESS_FAILED"))
    BY <1>10 DEF RunFormatter
  <2>2. "PROCESS_FAILED" \in FormatCodes \ {"SUCCESS"}
    BY DEF FormatCodes
  <2> QED BY <1>6, <1>7, <1>9, <2>1, <2>2
<1>11. CASE VerifyFilesystem
  <2>1. fpc = "VERIFY" /\ (PartitionVerified \/ FinishFormat("VERIFY_FAILED"))
    BY <1>11 DEF VerifyFilesystem
  <2>2. CASE FinishFormat("VERIFY_FAILED")
    <3>1. "VERIFY_FAILED" \in FormatCodes \ {"SUCCESS"}
      BY DEF FormatCodes
    <3> QED BY <1>6, <1>7, <1>9, <2>1, <2>2, <3>1
  <2>3. CASE PartitionVerified
    <3>1. fslot \in 1..4 /\ stageOf(format_result) = fslot + 1
      BY <1>7, <2>1 DEF FormatTypeOK, stageOf
    <3>2. CASE Slot = "MSR"
      <4>1. fslot = 4
        BY <3>1, <3>2, FormatOrderIs DEF Slot
      <4>2. format_result'.code = "SUCCESS"
        BY <2>3, <3>2 DEF PartitionVerified, FormatTypeOK
      <4>3. stageOf(format_result') = 6
        BY <4>2 DEF stageOf
      <4> QED BY <1>3, <1>4, <3>1, <4>1, <4>3 DEF Storage!Next, Storage!Advance
    <3>3. CASE Slot # "MSR"
      <4>1. fslot \in 1..3
        BY <3>1, <3>3, FormatOrderIs DEF Slot
      <4>2. FormatProgress' /\ fslot' = fslot + 1 /\ fpc' = "IDENTITY"
        BY <2>1, <2>3, <3>3, PartitionVerifiedType DEF PartitionVerified
      <4>3. format_result'.completed_count = fslot /\ format_result'.code = "NOT_RUN"
        BY <4>1, <4>2 DEF FormatProgress
      <4>4. stageOf(format_result') = fslot + 2
        BY <4>1, <4>3 DEF stageOf
      <4> QED BY <1>3, <1>4, <3>1, <4>1, <4>4 DEF Storage!Next, Storage!Advance
    <3> QED BY <3>2, <3>3
  <2> QED BY <2>1, <2>2, <2>3
<1> QED BY <1>1, <1>5, <1>8, <1>10, <1>11 DEF FormatStep

\* The other steps of the run report an outcome that tells the stage, or
\* change nothing that is promised.
LEMMA OrchestrationImplements ==
  ASSUME RecommendedInv,
         \/ RevalidateIdentity \/ AssessSystem \/ AssessScan
         \/ PartitionDone \/ BuildFormat \/ FormatDone
  PROVE  Storage!Next \/ InstallKept
<1> USE DEF RecommendedInv
<1>1. /\ rpc \notin {"IDLE", "DONE"}
      /\ UNCHANGED <<awrote, apply_result, format_result>>
  BY DEF RevalidateIdentity, AssessSystem, AssessScan, PartitionDone, BuildFormat,
         FormatDone, applyVars, formatVars
<1>2. installStage' = installStage /\ installOutcome = "RUNNING"
  BY <1>1 DEF installStage, installOutcome
<1>3. ASSUME rpc' \notin {"IDLE", "DONE"}
      PROVE  InstallKept
  BY <1>2, <1>3 DEF InstallKept, installOutcome
<1>4. ASSUME NEW code \in {"BLOCKED", "PARTITION_FAILED", "FORMAT_PLAN_FAILED",
                           "FORMAT_FAILED", "SUCCESS"},
             FinishInstall(code), installStage \in Storage!ReportedAt[code]
      PROVE  Storage!Next
  <2>1. installOutcome' = code
    BY <1>4 DEF FinishInstall, installOutcome
  <2>2. Storage!Report(code)
    BY <1>2, <1>4, <2>1 DEF Storage!Report
  <2>3. code \in DOMAIN Storage!ReportedAt
    BY DEF Storage!ReportedAt
  <2> QED BY <2>2, <2>3 DEF Storage!Next
<1>5. CASE RevalidateIdentity \/ AssessSystem \/ AssessScan
  <2>1. installStage \in Storage!ReportedAt["BLOCKED"]
    BY <1>5 DEF RevalidateIdentity, AssessSystem, AssessScan, ApplyPlace,
                installStage, Storage!ReportedAt
  <2>2. rpc' \in {"ASSESS_SYSTEM", "ASSESS_SCAN", "PARTITION"}
        \/ FinishInstall("BLOCKED")
    BY <1>5 DEF RevalidateIdentity, AssessSystem, AssessScan
  <2> QED BY <1>3, <1>4, <2>1, <2>2
<1>6. CASE PartitionDone
  <2>1. CASE apply_result.code = "SUCCESS"
    BY <1>3, <1>6, <2>1 DEF PartitionDone
  <2>2. CASE apply_result.code # "SUCCESS"
    <3>1. installStage \in Storage!ReportedAt["PARTITION_FAILED"]
      BY <2>2 DEF installStage, Storage!ReportedAt
    <3> QED BY <1>4, <1>6, <2>2, <3>1 DEF PartitionDone
  <2> QED BY <2>1, <2>2
<1>7. CASE BuildFormat
  <2>1. rpc' = "FORMAT" \/ FinishInstall("FORMAT_PLAN_FAILED")
    BY <1>7 DEF BuildFormat
  <2>2. installStage \in Storage!ReportedAt["FORMAT_PLAN_FAILED"]
    BY <1>7 DEF BuildFormat, ApplyPlace, FormatPlace, FormatZero, FormatNotRun,
                installStage, Storage!ReportedAt
  <2> QED BY <1>3, <1>4, <2>1, <2>2
<1>8. CASE FormatDone
  <2>1. awrote /\ apply_result.code = "SUCCESS"
    BY <1>8 DEF FormatDone, ApplyPlace
  <2>2. CASE format_result.code = "SUCCESS"
    <3>1. installStage \in Storage!ReportedAt["SUCCESS"]
      BY <2>1, <2>2 DEF installStage, Storage!ReportedAt
    <3> QED BY <1>4, <1>8, <2>2, <3>1 DEF FormatDone
  <2>3. CASE format_result.code # "SUCCESS"
    <3>1. format_result.completed_count \in 0..3
      BY DEF FormatInv, FormatTypeOK
    <3>2. installStage \in Storage!ReportedAt["FORMAT_FAILED"]
      BY <2>1, <2>3, <3>1 DEF installStage, Storage!ReportedAt
    <3> QED BY <1>4, <1>8, <2>3, <3>2 DEF FormatDone
  <2> QED BY <2>2, <2>3
<1> QED BY <1>5, <1>6, <1>7, <1>8

\* Another run starts over.
LEMMA BeginInstallImplements ==
  ASSUME RecommendedInv, BeginInstall
  PROVE  Storage!Next
<1>1. installOutcome # "RUNNING"
  BY DEF BeginInstall, installOutcome, RecommendedInv, OrchestrationTypeOK,
         RecommendedCodes
<1>2. installStage' = 0 /\ installOutcome' = "RUNNING"
  BY DEF BeginInstall, installStage, installOutcome
<1> QED BY <1>1, <1>2 DEF Storage!Next, Storage!Start

\* Every behaviour of the run is one of the abstract storage installation: the
\* code it ends with tells how far the disk was taken.
THEOREM RecommendedImplements == RecommendedSpec => ImplementsStorageInstall
<1>1. RecommendedInit => Storage!Init
  BY DEF RecommendedInit, ApplyIdle, Storage!Init, installStage, installOutcome
<1>2. RecommendedInv /\ [RecommendedNext]_vars => [Storage!Next]_(Storage!installVars)
  <2> SUFFICES ASSUME RecommendedInv, [RecommendedNext]_vars
               PROVE  Storage!Next \/ InstallKept
    BY DEF InstallKept, Storage!installVars
  <2>1. CASE UNCHANGED <<applyVars, formatVars, recommendedVars>>
    BY <2>1 DEF InstallKept, installStage, installOutcome, applyVars, formatVars,
                recommendedVars
  <2>2. CASE InstallStep
    BY <2>2, PartitionStepImplements, FormatStepImplements, OrchestrationImplements
    DEF InstallStep
  <2> QED BY <2>1, <2>2, BeginInstallImplements DEF RecommendedNext, vars
<1> QED BY <1>1, <1>2, RecommendedHolds, PTL
        DEF RecommendedSpec, ImplementsStorageInstall, Storage!Spec

-----------------------------------------------------------------------------
(***************************************************************************)
(* What a run that is reported as SUCCESS leaves behind.                   *)
(***************************************************************************)

\* Only the end of the format executor turns FORMAT into a result.
LEMMA SuccessComesFromFormat ==
  ASSUME RecommendedNext, recommended_result' = "SUCCESS",
         rpc = "FORMAT", rpc' = "DONE"
  PROVE  FormatDone /\ format_result.code = "SUCCESS"
<1>1. FormatDone
  BY DEF RecommendedNext, BeginInstall, InstallStep, RevalidateIdentity,
         AssessSystem, AssessScan, StartPartition, RunPartition, PartitionDone,
         BuildFormat, StartFormat, RunFormat, recommendedVars
<1> QED BY <1>1 DEF FormatDone, FinishInstall

\* A run reported as SUCCESS leaves the selected disk with the layout and all
\* its filesystems, unless a tool or a verification ran in a changed world,
\* the world has changed since, or another disk passes for the selected one.
THEOREM RecommendedSuccessIsReal == RecommendedSpec => InstallSuccessIsReal
<1>1. ASSUME RecommendedInv, RecommendedNext, recommended_result' = "SUCCESS",
             rpc = "FORMAT", rpc' = "DONE", ~raced, ~disturbed, Imposters = {},
             ~host.hidesEntries
      PROVE  Installed
  <2>1. fpc = "DONE" /\ format_result.code = "SUCCESS"
    BY <1>1, SuccessComesFromFormat DEF FormatDone
  <2> QED BY <1>1, <2>1 DEF RecommendedInv, FormatInv, FormatContents,
                            SuccessKnown, Undeceived
<1>2. RecommendedInv /\ [RecommendedNext]_vars =>
        [(/\ recommended_result' = "SUCCESS" /\ rpc = "FORMAT" /\ rpc' = "DONE"
          /\ ~raced /\ ~disturbed /\ Imposters = {} /\ ~host.hidesEntries)
         => /\ RangesMatch(table[Selected])
            /\ fs[Selected] = Wanted]_vars
  BY <1>1 DEF Installed
<1> QED BY <1>2, RecommendedHolds, PTL DEF RecommendedSpec, InstallSuccessIsReal

-----------------------------------------------------------------------------
(***************************************************************************)
(* Filesystems and listings.  A filesystem that a run has made is on a     *)
(* disk that has partitions, and a disk that is listed as empty carries    *)
(* none: the formatter only writes into partitions the kernel lists.       *)
(* Signatures left where partitions will be must be of other kinds for the *)
(* two to be told apart.                                                   *)
(***************************************************************************)
Made == {"FAT32", "NTFS"}

MadeInPartitions ==
  /\ \A d \in Disks, s \in Slots :
       fs[d][s] \in Made => table[d] \notin {"NONE", "DATA"}
  /\ attached \in Disks /\ listed = "NONE" =>
       \A s \in Slots : fs[attached][s] \notin Made

\* A step that changes no contents and no listing.
LEMMA MadeKept ==
  ASSUME MadeInPartitions, UNCHANGED <<attached, table, fs, listed>>
  PROVE  MadeInPartitions'
BY DEF MadeInPartitions

\* A table is written together with what is found where its partitions are.
LEMMA LayoutKeepsMade ==
  ASSUME Residues \cap Made = {}, WorldTypeOK, MadeInPartitions,
         WriteLayout, attached' = attached
  PROVE  MadeInPartitions'
<1>1. attached \in Disks
  BY DEF WriteLayout, WorldTypeOK
<1>2. PICK residue \in Residues : fs' = [fs EXCEPT ![attached] = [s \in Slots |-> residue]]
  BY DEF WriteLayout
<1>3. \A s \in Slots : fs'[attached][s] \notin Made
  BY <1>1, <1>2 DEF WorldTypeOK
<1>4. ASSUME NEW d \in Disks, NEW s \in Slots, fs'[d][s] \in Made
      PROVE  table'[d] \notin {"NONE", "DATA"}
  <2>1. d # attached /\ fs'[d] = fs[d] /\ table'[d] = table[d]
    BY <1>2, <1>3, <1>4 DEF WorldTypeOK, WriteLayout
  <2> QED BY <1>4, <2>1 DEF MadeInPartitions
<1> QED BY <1>1, <1>3, <1>4 DEF MadeInPartitions

\* A formatter runs only where the kernel lists a partition.
LEMMA FormatterKeepsMade ==
  ASSUME WorldTypeOK, ListingHonest, MadeInPartitions, RunFormatter
  PROVE  MadeInPartitions'
<1>1. UNCHANGED <<attached, table, listed>>
  BY DEF RunFormatter
<1>2. CASE UNCHANGED fs
  BY <1>1, <1>2, MadeKept
<1>3. CASE listed # "NONE"
  <2>1. attached \in Disks /\ table[attached] \notin {"NONE", "DATA"}
    BY <1>3 DEF ListingHonest
  <2>2. \A d \in Disks \ {attached} : fs'[d] = fs[d]
    BY DEF RunFormatter, WorldTypeOK
  <2> QED BY <1>1, <1>3, <2>1, <2>2 DEF MadeInPartitions
<1> QED BY <1>2, <1>3 DEF RunFormatter

\* What happens outside makes no filesystem, and takes partitions away only
\* together with what is in them.
LEMMA EnvironmentKeepsMade ==
  ASSUME WorldTypeOK, MadeInPartitions, Environment
  PROVE  MadeInPartitions'
<1> USE DEF WorldTypeOK, MadeInPartitions, Listing
<1>1. ASSUME NEW d \in Disks \union {NoDisk}, Attach(d)
      PROVE  MadeInPartitions'
  BY <1>1, WorldAssumption DEF Attach
<1>2. CASE Repartition
  BY <1>2 DEF Repartition
<1>3. CASE Renumber
  BY <1>3 DEF Renumber
<1>4. CASE Wipe
  <2>1. \A s \in Slots : Blank[s] \notin Made
    BY DEF Blank, Made
  <2> QED BY <1>4, <2>1 DEF Wipe
<1>5. ASSUME NEW s \in Slots \union {"DISK"}, Mount(s) \/ Unmount(s)
      PROVE  MadeInPartitions'
  BY <1>5 DEF Mount, Unmount
<1>6. CASE KernelReread
  BY <1>6 DEF KernelReread
<1> QED BY <1>1, <1>2, <1>3, <1>4, <1>5, <1>6 DEF Environment

\* Every step of the run keeps filesystems where partitions are.
LEMMA RecommendedKeepsMade ==
  ASSUME Residues \cap Made = {}, RecommendedInv, MadeInPartitions,
         [RecommendedNext]_vars
  PROVE  MadeInPartitions'
<1>1. WorldTypeOK /\ ListingHonest
  BY DEF RecommendedInv, ApplyTypeOK, FormatInv
<1>2. CASE UNCHANGED <<attached, table, fs, listed>>
  BY <1>2, MadeKept
<1>3. CASE RunFormatter
  BY <1>1, <1>3, FormatterKeepsMade
<1>4. CASE WriteLayout /\ attached' = attached
  BY <1>1, <1>4, LayoutKeepsMade
<1>5. CASE Environment
  BY <1>1, <1>5, EnvironmentKeepsMade
<1>6. BeginApply \/ ApplyStep =>
        \/ UNCHANGED <<attached, table, fs, listed>>
        \/ WriteLayout /\ attached' = attached
  BY DEF BeginApply, ApplyStep, CollectIdentity, CollectSystem,
         CollectPartitions, RunSfdisk, VerifyIdentity, VerifyLayout, worldVars
<1>7. BeginFormat \/ FormatStep =>
        UNCHANGED <<attached, table, fs, listed>> \/ RunFormatter
  BY DEF BeginFormat, FormatStep, FormatIdentity, FormatSystem, FormatScan,
         FormatMount, VerifyFilesystem, worldVars
<1>8. InstallStep =>
        \/ UNCHANGED <<attached, table, fs, listed>>
        \/ BeginApply \/ ApplyStep \/ BeginFormat \/ FormatStep
  BY DEF InstallStep, RevalidateIdentity, AssessSystem, AssessScan,
         StartPartition, RunPartition, PartitionDone, BuildFormat, StartFormat,
         RunFormat, FormatDone, worldVars
<1>9. BeginInstall \/ UNCHANGED vars => UNCHANGED <<attached, table, fs, listed>>
  BY DEF BeginInstall, vars, worldVars
<1> QED BY <1>2, <1>3, <1>4, <1>5, <1>6, <1>7, <1>8, <1>9 DEF RecommendedNext

\* Only sfdisk writes, and it does so on a disk the last check found empty.
LEMMA SfdiskTargetEmpty ==
  ASSUME RecommendedInv, MadeInPartitions, RecommendedNext, awrote', ~awrote
  PROVE  disturbed \/ host.hidesEntries
         \/ \A s \in Slots : fs[attached][s] \notin Made
<1>1. RunSfdisk
  <2>1. ~BeginApply
    BY DEF BeginApply
  <2> QED BY <2>1 DEF RecommendedNext, BeginInstall, InstallStep,
         RevalidateIdentity, AssessSystem, AssessScan, StartPartition,
         RunPartition, PartitionDone, BuildFormat, StartFormat, RunFormat,
         FormatDone, applyVars, ApplyStep, CollectIdentity, CollectSystem,
         CollectPartitions, VerifyIdentity, VerifyLayout
<1>2. disturbed \/ NothingListed
  BY <1>1 DEF RunSfdisk, RecommendedInv, ApplyCheckInv, TargetKnown
<1>3. attached \in Disks
  BY <1>1 DEF RunSfdisk, WriteLayout, RecommendedInv, ApplyTypeOK, WorldTypeOK
<1> QED BY <1>2, <1>3 DEF NothingListed, MadeInPartitions

\* Where no old signature looks like a filesystem of the run, no run writes a
\* partition table over a filesystem an earlier one has made.
THEOREM RecommendedNeverRepartitions ==
  ASSUME Residues \cap Made = {}
  PROVE  RecommendedSpec => NeverRepartitionsFormatted
<1>1. RecommendedInit => MadeInPartitions
  <2> SUFFICES ASSUME RecommendedInit PROVE MadeInPartitions
    OBVIOUS
  <2>1. \A d \in Disks, s \in Slots : fs[d][s] \notin Made
    BY DEF RecommendedInit, WorldInit
  <2> QED BY <2>1 DEF MadeInPartitions
<1>2. RecommendedInv /\ MadeInPartitions /\ [RecommendedNext]_vars => MadeInPartitions'
  BY RecommendedKeepsMade
<1>3. RecommendedInv /\ MadeInPartitions /\ [RecommendedNext]_vars =>
        [awrote' /\ ~awrote =>
           \/ disturbed
           \/ host.hidesEntries
           \/ \A s \in Slots : fs[attached][s] \notin {"FAT32", "NTFS"}]_vars
  BY SfdiskTargetEmpty DEF Made
<1> QED BY <1>1, <1>2, <1>3, RecommendedHolds, PTL
        DEF RecommendedSpec, NeverRepartitionsFormatted
=============================================================================
