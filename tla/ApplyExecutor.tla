---------------------------- MODULE ApplyExecutor ----------------------------
(***************************************************************************)
(* classicsetup_execute_apply_plan (src/src/core/apply.c), one step per    *)
(* probe, tool run and verification attempt, so that the environment acts  *)
(* between any two of them: collect and evaluate the safety inputs twice,  *)
(* run sfdisk, then look for the layout at most VerifyAttempts times.      *)
(* The plan itself is a validated one for Selected.                        *)
(***************************************************************************)
EXTENDS DiskWorld

CONSTANT VerifyAttempts

ASSUME VerifyAssumption == VerifyAttempts \in Nat \ {0}

VARIABLES
  apc,           \* where the executor is
  acheck,        \* which of the two safety checks is running
  ain,           \* safety inputs collected so far
  attempt,       \* verification attempt
  awrote,        \* history: did this execution change a partition table?
  apply_result   \* struct classicsetup_apply_result: code and safety code

applyVars == <<apc, acheck, ain, attempt, awrote, apply_result>>

ApplyCodes ==
  {"NOT_RUN", "BLOCKED", "PROCESS_FAILED", "VERIFY_FAILED", "SUCCESS"}

\* The order of classicsetup_evaluate_apply_safety.  INVALID_PLAN cannot
\* occur for the valid plan executed here.
ApplyOrder ==
  <<"WSL", "MBR_NOT_ENABLED", "NOT_SUPPORTED_VM", "LOCKED", "DISK_IDENTITY",
    "SYSTEM_DISK", "SYSTEM_DISK_UNKNOWN", "EXISTING_PARTITIONS",
    "UNSUPPORTED_SECTOR_SIZE", "TOOL_UNAVAILABLE">>

\* Mutant: only a disk known to be in use is objected to.
ApplyObjectionsKnownOnly(in) ==
  [WSL                     |-> host.env = "WSL",
   MBR_NOT_ENABLED         |-> host.planTable = "MBR",
   NOT_SUPPORTED_VM        |-> host.env # "VM",
   LOCKED                  |-> ~host.unlocked,
   DISK_IDENTITY           |-> ~in.identity,
   SYSTEM_DISK             |-> in.system = "IN_USE",
   SYSTEM_DISK_UNKNOWN     |-> FALSE,
   EXISTING_PARTITIONS     |-> in.existing,
   UNSUPPORTED_SECTOR_SIZE |-> ~host.sector512,
   TOOL_UNAVAILABLE        |-> ~host.sfdisk]

ApplyObjections(in) ==
  [WSL                     |-> host.env = "WSL",
   MBR_NOT_ENABLED         |-> host.planTable = "MBR",
   NOT_SUPPORTED_VM        |-> host.env # "VM",
   LOCKED                  |-> ~host.unlocked,
   DISK_IDENTITY           |-> ~in.identity,
   SYSTEM_DISK             |-> in.system = "IN_USE",
   SYSTEM_DISK_UNKNOWN     |-> in.system # "SAFE",
   EXISTING_PARTITIONS     |-> in.existing,
   UNSUPPORTED_SECTOR_SIZE |-> ~host.sector512,
   TOOL_UNAVAILABLE        |-> ~host.sfdisk]

ApplySafetyCodes ==
  {"OK", "INVALID_PLAN", "WSL", "MBR_NOT_ENABLED", "NOT_SUPPORTED_VM",
   "LOCKED", "DISK_IDENTITY", "SYSTEM_DISK", "SYSTEM_DISK_UNKNOWN",
   "EXISTING_PARTITIONS", "UNSUPPORTED_SECTOR_SIZE", "TOOL_UNAVAILABLE"}

NothingCollected ==
  [identity |-> FALSE, system |-> "UNKNOWN", existing |-> FALSE]

ApplyNotRun == [code |-> "NOT_RUN", safety |-> "INVALID_PLAN"]

\* The result the callers clear with memset: its safety code reads OK.
ApplyZero == [code |-> "NOT_RUN", safety |-> "OK"]

FinishApply(code) ==
  /\ apc' = "DONE"
  /\ apply_result' = [apply_result EXCEPT !.code = code]

\* The verdict on collected inputs: block, check a second time, or write.
EvaluateApply(in) ==
  /\ IF ~Clear(ApplyObjections(in))
     THEN /\ apc' = "DONE"
          /\ apply_result' =
               [code   |-> "BLOCKED",
                safety |-> FirstObjection(ApplyObjections(in), ApplyOrder)]
     ELSE /\ apc' = (IF acheck = 1 THEN "IDENTITY" ELSE "SFDISK")
          /\ apply_result' = [apply_result EXCEPT !.safety = "OK"]
  /\ acheck' = 2
  /\ ain' = in

-----------------------------------------------------------------------------
BeginApply ==
  /\ apc = "IDLE"
  /\ IF host.planTable = "MBR"
     THEN /\ apc' = "DONE"
          /\ apply_result' = [code |-> "BLOCKED", safety |-> "MBR_NOT_ENABLED"]
     ELSE /\ apc' = "IDENTITY"
          /\ apply_result' = ApplyNotRun
  /\ acheck' = 1
  /\ ain' = NothingCollected
  /\ attempt' = 1
  /\ awrote' = FALSE
  /\ UNCHANGED worldVars

\* Under WSL the collection stops before the disk is looked at.
CollectIdentity ==
  /\ apc = "IDENTITY"
  /\ disturbed' = FALSE
  /\ IF host.env = "WSL"
     THEN EvaluateApply(NothingCollected)
     ELSE \E ok \in RevalidateResults :
            /\ ain' = [NothingCollected EXCEPT !.identity = ok]
            /\ apc' = "SYSTEM"
            /\ UNCHANGED <<acheck, apply_result>>
  /\ UNCHANGED <<host, attached, table, fs, listed, mounted, events, raced,
                 attempt, awrote>>

CollectSystem ==
  /\ apc = "SYSTEM"
  /\ \E status \in SystemResults : ain' = [ain EXCEPT !.system = status]
  /\ apc' = "SCAN"
  /\ UNCHANGED <<acheck, attempt, awrote, apply_result, worldVars>>

\* A failed scan withdraws the identity; without an identity nothing is
\* scanned and the count stays zero.
CollectPartitions ==
  /\ apc = "SCAN"
  /\ IF ain.identity
     THEN \E scan \in ScanResults :
            EvaluateApply([ain EXCEPT !.identity = scan # "FAIL",
                                      !.existing = scan \notin {"FAIL", "NONE"}])
     ELSE EvaluateApply(ain)
  /\ UNCHANGED <<attempt, awrote, worldVars>>

\* sfdisk --wipe never on the device path: old signatures stay in place.
WriteLayout ==
  /\ attached # NoDisk
  /\ table' = [table EXCEPT ![attached] = "LAYOUT"]
  /\ \E residue \in Residues :
       fs' = [fs EXCEPT ![attached] = [s \in Slots |-> residue]]
  /\ listed' \in {listed, "LAYOUT"}
  /\ awrote' = TRUE
  /\ raced' = (raced \/ disturbed)

\* Mutant: a failed tool is reported as a refusal.
RunSfdiskRefused ==
  /\ apc = "SFDISK"
  /\ \/ /\ WriteLayout
        /\ \/ apc' = "VERIFY_IDENTITY" /\ UNCHANGED apply_result
           \/ FinishApply("BLOCKED")
     \/ /\ FinishApply("BLOCKED")
        /\ UNCHANGED <<table, fs, listed, awrote, raced>>
  /\ attempt' = 1
  /\ UNCHANGED <<acheck, ain, host, attached, mounted, events, disturbed>>

RunSfdisk ==
  /\ apc = "SFDISK"
  /\ \/ /\ WriteLayout
        /\ apc' = "VERIFY_IDENTITY"
        /\ attempt' = 1
        /\ UNCHANGED apply_result
     \/ /\ WriteLayout
        /\ FinishApply("PROCESS_FAILED")
        /\ UNCHANGED attempt
     \/ /\ FinishApply("PROCESS_FAILED")
        /\ UNCHANGED <<attempt, table, fs, listed, awrote, raced>>
  /\ UNCHANGED <<acheck, ain, host, attached, mounted, events, disturbed>>

\* Mutants: one attempt too many; attempts that are not counted.
RetryVerificationOnceMore ==
  IF attempt <= VerifyAttempts
  THEN /\ attempt' = attempt + 1
       /\ apc' = "VERIFY_IDENTITY"
       /\ UNCHANGED apply_result
  ELSE /\ FinishApply("VERIFY_FAILED")
       /\ UNCHANGED attempt

RetryVerificationUncounted ==
  /\ apc' = "VERIFY_IDENTITY"
  /\ UNCHANGED <<attempt, apply_result>>

\* One more attempt after the delay, or give up.
RetryVerification ==
  IF attempt < VerifyAttempts
  THEN /\ attempt' = attempt + 1
       /\ apc' = "VERIFY_IDENTITY"
       /\ UNCHANGED apply_result
  ELSE /\ FinishApply("VERIFY_FAILED")
       /\ UNCHANGED attempt

VerifyIdentity ==
  /\ apc = "VERIFY_IDENTITY"
  /\ disturbed' = FALSE
  /\ \E ok \in RevalidateResults :
       IF ok
       THEN /\ apc' = "VERIFY_SCAN"
            /\ UNCHANGED <<attempt, apply_result>>
       ELSE RetryVerification
  /\ UNCHANGED <<acheck, ain, awrote, host, attached, table, fs, listed,
                 mounted, events, raced>>

\* Mutant: any partitions at all verify the layout.
VerifyAnyPartitions ==
  /\ apc = "VERIFY_SCAN"
  /\ \E scan \in ScanResults :
       IF scan \notin {"FAIL", "NONE"}
       THEN FinishApply("SUCCESS") /\ UNCHANGED attempt
       ELSE RetryVerification
  /\ UNCHANGED <<acheck, ain, awrote, worldVars>>

VerifyLayout ==
  /\ apc = "VERIFY_SCAN"
  /\ \E scan \in ScanResults :
       IF RangesMatch(scan)
       THEN FinishApply("SUCCESS") /\ UNCHANGED attempt
       ELSE RetryVerification
  /\ UNCHANGED <<acheck, ain, awrote, worldVars>>

\* The caller is shown the result and may ask for another execution.
DismissApply ==
  /\ apc = "DONE"
  /\ apc' = "IDLE"
  /\ UNCHANGED <<acheck, ain, attempt, awrote, apply_result, worldVars>>

ApplyStep ==
  \/ CollectIdentity \/ CollectSystem \/ CollectPartitions
  \/ RunSfdisk \/ VerifyIdentity \/ VerifyLayout

ApplyIdle ==
  /\ apc = "IDLE"
  /\ acheck = 1
  /\ ain = NothingCollected
  /\ attempt = 1
  /\ awrote = FALSE
  /\ apply_result = ApplyNotRun

ApplyInit == WorldInit /\ ApplyIdle

ApplyNext ==
  \/ BeginApply \/ ApplyStep \/ DismissApply
  \/ Environment /\ UNCHANGED applyVars

ApplySpec ==
  /\ ApplyInit
  /\ [][ApplyNext]_<<worldVars, applyVars>>

-----------------------------------------------------------------------------
\* Types of the executor's variables.
ApplyTypeOK ==
  /\ WorldTypeOK
  /\ apc \in {"IDLE", "IDENTITY", "SYSTEM", "SCAN", "SFDISK",
              "VERIFY_IDENTITY", "VERIFY_SCAN", "DONE"}
  /\ acheck \in 1..2
  /\ ain \in [identity: BOOLEAN, system: SystemStatus, existing: BOOLEAN]
  /\ attempt \in 1..VerifyAttempts
  /\ awrote \in BOOLEAN
  /\ apply_result \in [code: ApplyCodes, safety: ApplySafetyCodes]

\* sfdisk writes a partition table only on the disk the user confirmed, when
\* the kernel lists no partition of it (and none was hidden from the scan) and
\* nothing of it is mounted, in an unlocked VM with a GPT plan, unless the
\* world changed after the last safety check began: every probe of that check
\* is needed for this.
SfdiskSafe ==
  /\ IdentityMatches
  /\ host.hidesEntries \/ listed = "NONE"
  /\ mounted = {}
  /\ ~(host.systemDisk /\ attached = Selected)
  /\ host.env = "VM" /\ host.unlocked /\ host.sector512
  /\ host.planTable = "GPT"

WritesOnlySafeTarget ==
  [][awrote' /\ ~awrote => disturbed \/ SfdiskSafe]_<<worldVars, applyVars>>

\* SUCCESS is reported only while the confirmed disk carries the layout, unless
\* the world changed after the successful attempt began.
ReportsSuccessTruthfully ==
  [][apply_result'.code = "SUCCESS" /\ apply_result.code # "SUCCESS" =>
       disturbed \/ host.hidesEntries \/ (IdentityMatches /\ RangesMatch(listed))]_<<worldVars, applyVars>>

\* BLOCKED is only ever reported by an execution that left the disk alone and
\* SUCCESS only by one that wrote it; the user reads the former as safe to
\* try again.
BlockedLeftDiskAlone ==
  apc \in {"DONE", "IDLE"} =>
    /\ apply_result.code = "BLOCKED" => ~awrote
    /\ apply_result.code \in {"VERIFY_FAILED", "SUCCESS"} => awrote
=============================================================================
