--------------------------- MODULE ExecutorProofs ---------------------------
(***************************************************************************)
(* The two executors that write to the disk, and the world they share.     *)
(* Both: type correctness, and that a tool runs only on a target every     *)
(* probe of the last check found safe.  The format executor also: a        *)
(* partial failure is located by the result, and SUCCESS means a formatted *)
(* disk.                                                                   *)
(***************************************************************************)
EXTENDS ApplyExecutor, FormatExecutor, TLAPS

-----------------------------------------------------------------------------
(***************************************************************************)
(* The disk world.                                                         *)
(***************************************************************************)

\* Nothing of the disk is in use: what a system status of SAFE stands for.
SystemSafe == mounted = {} /\ ~(host.systemDisk /\ attached = Selected)

\* The kernel lists partitions only of a disk that has some, and the planned
\* ranges only of a disk that carries them, however late it reads a table.
ListingHonest ==
  /\ listed # "NONE" => /\ attached \in Disks
                        /\ table[attached] \notin {"NONE", "DATA"}
  /\ RangesMatch(listed) => RangesMatch(table[attached])

\* An outside event keeps the world's variables in their types.
LEMMA EnvironmentType ==
  ASSUME WorldTypeOK, Environment
  PROVE  WorldTypeOK'
<1> USE DEF WorldTypeOK
<1>1. \A t \in Tables : Listing(t) \in Tables \ {"DATA"}
  BY DEF Listing, Tables
<1>2. "NONE" \in Tables \ {"DATA"} /\ "OTHER" \in Tables \ {"DATA"}
      /\ "RENUMBERED" \in Tables \ {"DATA"}
  BY DEF Tables
<1>3. ASSUME Event
      PROVE  host' \in Hosts /\ events' \in 0..MaxEvents
             /\ disturbed' \in BOOLEAN /\ raced' \in BOOLEAN
  BY <1>3, WorldAssumption DEF Event
<1>4. ASSUME NEW d \in Disks \union {NoDisk}, Attach(d)
      PROVE  WorldTypeOK'
  <2>1. listed' \in Tables \ {"DATA"}
    BY <1>1, <1>2, <1>4 DEF Attach
  <2> QED BY <1>3, <1>4, <2>1 DEF Attach
<1>5. CASE Repartition
  BY <1>2, <1>3, <1>5 DEF Repartition
<1>6. CASE Renumber
  BY <1>2, <1>3, <1>6 DEF Renumber
<1>7. CASE Wipe
  <2>1. Blank \in [Slots -> Filesystems]
    BY DEF Blank, Filesystems
  <2>2. fs' \in [Disks -> [Slots -> Filesystems]]
    BY <1>7, <2>1 DEF Wipe
  <2> QED BY <1>2, <1>3, <1>7, <2>2 DEF Wipe
<1>8. ASSUME NEW s \in Slots \union {"DISK"}, Mount(s) \/ Unmount(s)
      PROVE  WorldTypeOK'
  BY <1>3, <1>8 DEF Mount, Unmount
<1>9. CASE KernelReread
  BY <1>1, <1>9 DEF KernelReread
<1> QED BY <1>4, <1>5, <1>6, <1>7, <1>8, <1>9 DEF Environment

\* Every outside event leaves the world marked as disturbed and keeps the host:
\* what a check has found is void after it.
LEMMA EnvironmentDisturbs ==
  ASSUME Environment
  PROVE  disturbed' /\ host' = host /\ raced' = raced
BY DEF Environment, Attach, Repartition, Wipe, Renumber, Mount, Unmount,
       KernelReread, Event

\* The initial world is of its types.
LEMMA WorldInitType ==
  ASSUME WorldInit
  PROVE  WorldTypeOK
<1>1. Selected \in Disks /\ StartTables \subseteq Tables
      /\ Residues \subseteq Filesystems /\ MaxEvents \in Nat
  BY WorldAssumption
<1>2. table \in [Disks -> Tables]
  BY <1>1 DEF WorldInit
<1>3. fs \in [Disks -> [Slots -> Filesystems]]
  BY <1>1 DEF WorldInit
<1>4. listed \in Tables \ {"DATA"}
  BY <1>1, <1>2 DEF WorldInit, Listing, Tables
<1>5. host \in Hosts /\ attached \in Disks \union {NoDisk}
      /\ mounted = {} /\ events \in 0..MaxEvents
      /\ disturbed = FALSE /\ raced = FALSE
  BY <1>1 DEF WorldInit
<1> QED BY <1>2, <1>3, <1>4, <1>5 DEF WorldTypeOK
\* The initial listing is read from the initial table.
LEMMA WorldInitListing ==
  ASSUME WorldInit
  PROVE  ListingHonest
<1>1. attached = Selected /\ Selected \in Disks /\ listed = Listing(table[Selected])
  BY WorldAssumption DEF WorldInit
<1> QED BY <1>1 DEF ListingHonest, Listing, RangesMatch

\* An outside event keeps the listing honest.
LEMMA EnvironmentListing ==
  ASSUME WorldTypeOK, ListingHonest, Environment
  PROVE  ListingHonest'
<1> USE DEF WorldTypeOK, ListingHonest, Listing, RangesMatch
<1>1. ASSUME NEW d \in Disks \union {NoDisk}, Attach(d)
      PROVE  ListingHonest'
  BY <1>1 DEF Attach
<1>2. CASE Repartition
  BY <1>2 DEF Repartition
<1>3. CASE Renumber
  BY <1>3 DEF Renumber
<1>4. CASE Wipe
  BY <1>4 DEF Wipe
<1>5. ASSUME NEW s \in Slots \union {"DISK"}, Mount(s) \/ Unmount(s)
      PROVE  ListingHonest'
  BY <1>5 DEF Mount, Unmount
<1>6. CASE KernelReread
  BY <1>6 DEF KernelReread
<1> QED BY <1>1, <1>2, <1>3, <1>4, <1>5, <1>6 DEF Environment

\* An outside event leaves the filesystems of a disk alone and gives it no
\* planned ranges it does not have, or wipes the disk.
LEMMA EnvironmentContents ==
  ASSUME WorldTypeOK, Environment, NEW d \in Disks
  PROVE  \/ /\ fs'[d] = fs[d]
            /\ RangesMatch(table'[d]) => RangesMatch(table[d])
            /\ table[d] \notin {"NONE", "DATA"} => table'[d] \notin {"NONE", "DATA"}
         \/ MayWipe /\ fs'[d] = Blank /\ table'[d] = "NONE"
<1> USE DEF WorldTypeOK, RangesMatch
<1>1. ASSUME NEW e \in Disks \union {NoDisk}, Attach(e)
      PROVE  fs' = fs /\ table' = table
  BY <1>1 DEF Attach
<1>2. CASE Repartition
  BY <1>2 DEF Repartition
<1>3. CASE Renumber
  BY <1>3 DEF Renumber
<1>4. CASE Wipe
  BY <1>4 DEF Wipe
<1>5. ASSUME NEW s \in Slots \union {"DISK"}, Mount(s) \/ Unmount(s)
      PROVE  fs' = fs /\ table' = table
  BY <1>5 DEF Mount, Unmount
<1>6. CASE KernelReread
  BY <1>6 DEF KernelReread
<1> QED BY <1>1, <1>2, <1>3, <1>4, <1>5, <1>6 DEF Environment

-----------------------------------------------------------------------------
(***************************************************************************)
(* The partition executor.                                                 *)
(***************************************************************************)

allVars == <<worldVars, applyVars>>

-----------------------------------------------------------------------------
\* The safety code of a refused check is one of the codes of the enumeration.
LEMMA FirstApplyObjection ==
  ASSUME NEW in, ~Clear(ApplyObjections(in))
  PROVE  FirstObjection(ApplyObjections(in), ApplyOrder) \in ApplySafetyCodes
<1> DEFINE objects(i) == ApplyObjections(in)[ApplyOrder[i]]
           first(i) == objects(i) /\ \A j \in 1..(i - 1) : ~objects(j)
<1>1. DOMAIN ApplyOrder = 1..10
  BY DEF ApplyOrder
<1>2. DOMAIN ApplyObjections(in) = {ApplyOrder[i] : i \in 1..10}
  BY DEF ApplyOrder, ApplyObjections
<1>3. PICK k \in 1..10 : objects(k)
  BY <1>2 DEF Clear
<1>4. \E i \in 1..10 : first(i)
  <2> HIDE DEF objects
  <2>1. \/ first(1) \/ first(2) \/ first(3) \/ first(4) \/ first(5)
        \/ first(6) \/ first(7) \/ first(8) \/ first(9) \/ first(10)
    BY <1>3, SMTT(30)
  <2> HIDE DEF first
  <2> QED BY <2>1
<1>5. \A i \in 1..10 : ApplyOrder[i] \in ApplySafetyCodes
  BY DEF ApplyOrder, ApplySafetyCodes
<1> QED
  BY <1>1, <1>4, <1>5 DEF FirstObjection

\* What EvaluateApply leaves in the executor's variables is of their types.
LEMMA EvaluateApplyType ==
  ASSUME ApplyTypeOK,
         NEW in \in [identity: BOOLEAN, system: SystemStatus, existing: BOOLEAN],
         EvaluateApply(in)
  PROVE  /\ apc' \in {"IDENTITY", "SFDISK", "DONE"}
         /\ acheck' \in 1..2
         /\ ain' \in [identity: BOOLEAN, system: SystemStatus, existing: BOOLEAN]
         /\ apply_result' \in [code: ApplyCodes, safety: ApplySafetyCodes]
<1>1. "OK" \in ApplySafetyCodes /\ "BLOCKED" \in ApplyCodes
  BY DEF ApplySafetyCodes, ApplyCodes
<1>2. CASE ~Clear(ApplyObjections(in))
  BY <1>1, <1>2, FirstApplyObjection DEF EvaluateApply
<1>3. CASE Clear(ApplyObjections(in))
  BY <1>1, <1>3 DEF EvaluateApply, ApplyTypeOK
<1> QED BY <1>2, <1>3

\* Each step of the executor keeps the types.
LEMMA ApplyStepType ==
  ASSUME ApplyTypeOK, BeginApply \/ ApplyStep \/ DismissApply
  PROVE  ApplyTypeOK'
<1> USE DEF ApplyTypeOK
<1>1. \A c \in {"NOT_RUN", "BLOCKED", "PROCESS_FAILED", "VERIFY_FAILED",
                "SUCCESS"} : c \in ApplyCodes
  BY DEF ApplyCodes
<1>2. VerifyAttempts \in Nat \ {0}
  BY VerifyAssumption
<1>3. NothingCollected \in
        [identity: BOOLEAN, system: SystemStatus, existing: BOOLEAN]
  BY DEF NothingCollected, SystemStatus
<1>4. CASE BeginApply
  <2>1. WorldTypeOK'
    BY <1>4 DEF BeginApply, worldVars, WorldTypeOK
  <2>2. apply_result' \in [code: ApplyCodes, safety: ApplySafetyCodes]
    BY <1>1, <1>4 DEF BeginApply, ApplyNotRun, ApplySafetyCodes
  <2>3. apc' \in {"DONE", "IDENTITY"}
    BY <1>4 DEF BeginApply
  <2>4. acheck' \in 1..2 /\ attempt' \in 1..VerifyAttempts
    BY <1>2, <1>4 DEF BeginApply
  <2>5. awrote' \in BOOLEAN
    BY <1>4 DEF BeginApply
  <2>6. ain' \in [identity: BOOLEAN, system: SystemStatus, existing: BOOLEAN]
    BY <1>3, <1>4 DEF BeginApply
  <2> QED BY <2>1, <2>2, <2>3, <2>4, <2>5, <2>6
<1>5. CASE CollectIdentity
  <2>1. WorldTypeOK'
    BY <1>5 DEF CollectIdentity, WorldTypeOK
  <2>2. CASE host.env = "WSL"
    <3>1. EvaluateApply(NothingCollected)
      BY <1>5, <2>2 DEF CollectIdentity
    <3> QED BY <1>3, <1>5, <2>1, <3>1, EvaluateApplyType DEF CollectIdentity
  <2>3. CASE host.env # "WSL"
    <3>1. RevalidateResults \subseteq BOOLEAN
      BY DEF RevalidateResults, IdentityMatches
    <3>2. PICK ok \in RevalidateResults :
            ain' = [NothingCollected EXCEPT !.identity = ok]
      BY <1>5, <2>3 DEF CollectIdentity
    <3>3. ain' \in [identity: BOOLEAN, system: SystemStatus, existing: BOOLEAN]
      BY <1>3, <3>1, <3>2
    <3> QED BY <1>5, <2>1, <2>3, <3>3 DEF CollectIdentity
  <2> QED BY <2>2, <2>3
<1>6. CASE CollectSystem
  <2>1. WorldTypeOK'
    BY <1>6 DEF CollectSystem, worldVars, WorldTypeOK
  <2>2. SystemResults \subseteq SystemStatus
    BY DEF SystemResults, SystemStatus
  <2> QED BY <1>6, <2>1, <2>2 DEF CollectSystem
<1>7. CASE CollectPartitions
  <2>1. WorldTypeOK'
    BY <1>7 DEF CollectPartitions, worldVars, WorldTypeOK
  <2>2. PICK in \in [identity: BOOLEAN, system: SystemStatus, existing: BOOLEAN] :
          EvaluateApply(in)
    BY <1>7 DEF CollectPartitions
  <2> QED BY <1>7, <2>1, <2>2, EvaluateApplyType DEF CollectPartitions
<1>8. CASE RunSfdisk
  <2>1. CASE WriteLayout
    <3>1. /\ table' \in [Disks -> Tables]
          /\ fs' \in [Disks -> [Slots -> Filesystems]]
          /\ listed' \in Tables \ {"DATA"}
          /\ raced' \in BOOLEAN
      BY <2>1, WorldAssumption DEF WriteLayout, WorldTypeOK, Tables
    <3>2. WorldTypeOK'
      BY <1>8, <3>1 DEF RunSfdisk, WorldTypeOK
    <3>3. awrote' \in BOOLEAN
      BY <2>1 DEF WriteLayout
    <3>4. /\ apc' \in {"VERIFY_IDENTITY", "DONE"}
          /\ attempt' \in 1..VerifyAttempts
          /\ apply_result' \in [code: ApplyCodes, safety: ApplySafetyCodes]
      BY <1>1, <1>2, <1>8 DEF RunSfdisk, FinishApply
    <3> QED BY <1>8, <3>2, <3>3, <3>4 DEF RunSfdisk
  <2>2. CASE ~WriteLayout
    BY <1>1, <1>8, <2>2 DEF RunSfdisk, FinishApply, WorldTypeOK
  <2> QED BY <2>1, <2>2
<1>9. CASE VerifyIdentity
  <2>1. WorldTypeOK'
    BY <1>9 DEF VerifyIdentity, WorldTypeOK
  <2> QED BY <1>1, <1>2, <1>9, <2>1
          DEF VerifyIdentity, RetryVerification, FinishApply
<1>10. CASE VerifyLayout
  <2>1. WorldTypeOK'
    BY <1>10 DEF VerifyLayout, worldVars, WorldTypeOK
  <2> QED BY <1>1, <1>2, <1>10, <2>1
          DEF VerifyLayout, RetryVerification, FinishApply
<1>11. CASE DismissApply
  BY <1>11 DEF DismissApply, worldVars, WorldTypeOK
<1> QED
  BY <1>4, <1>5, <1>6, <1>7, <1>8, <1>9, <1>10, <1>11 DEF ApplyStep

\* Type correctness of the executor in its world, for every set of disks and
\* hosts and every bound.
THEOREM ApplyTypeCorrect == ApplySpec => []ApplyTypeOK
<1>1. ApplyInit => ApplyTypeOK
  <2> SUFFICES ASSUME WorldInit, ApplyIdle
               PROVE  ApplyTypeOK
    BY DEF ApplyInit
  <2>1. WorldTypeOK
    BY WorldInitType
  <2>2. 1 \in 1..VerifyAttempts
    BY VerifyAssumption
  <2>3. ain \in [identity: BOOLEAN, system: SystemStatus, existing: BOOLEAN]
    BY DEF ApplyIdle, NothingCollected, SystemStatus
  <2>4. apply_result \in [code: ApplyCodes, safety: ApplySafetyCodes]
    BY DEF ApplyIdle, ApplyNotRun, ApplyCodes, ApplySafetyCodes
  <2>5. awrote \in BOOLEAN
    BY DEF ApplyIdle
  <2>6. attempt \in 1..VerifyAttempts /\ acheck \in 1..2
    BY <2>2 DEF ApplyIdle
  <2> QED BY <2>1, <2>3, <2>4, <2>5, <2>6 DEF ApplyIdle, ApplyTypeOK
<1>2. ApplyTypeOK /\ [ApplyNext]_allVars => ApplyTypeOK'
  <2> SUFFICES ASSUME ApplyTypeOK, [ApplyNext]_allVars
               PROVE  ApplyTypeOK'
    OBVIOUS
  <2>1. CASE BeginApply \/ ApplyStep \/ DismissApply
    BY <2>1, ApplyStepType
  <2>2. CASE Environment /\ UNCHANGED applyVars
    BY <2>2, EnvironmentType DEF ApplyTypeOK, applyVars
  <2>3. CASE UNCHANGED allVars
    BY <2>3 DEF allVars, worldVars, applyVars, ApplyTypeOK, WorldTypeOK
  <2> QED BY <2>1, <2>2, <2>3 DEF ApplyNext
<1> QED BY <1>1, <1>2, PTL DEF ApplySpec, allVars

-----------------------------------------------------------------------------
(***************************************************************************)
(* Safety.  WritesOnlySafeTarget speaks of the step that runs sfdisk; what *)
(* carries it there is what each probe of the check has established since  *)
(* the check began, as long as the world has not changed.                  *)
(***************************************************************************)
HostAllows ==
  /\ host.env = "VM" /\ host.unlocked /\ host.sector512
  /\ host.planTable = "GPT"

NothingListed == host.hidesEntries \/ listed = "NONE"

IdentityKnown ==
  apc \in {"SYSTEM", "SCAN"} /\ ain.identity => disturbed \/ IdentityMatches

SystemKnown == apc = "SCAN" /\ ain.system = "SAFE" => disturbed \/ SystemSafe

TargetKnown ==
  apc = "SFDISK" =>
    /\ HostAllows
    /\ disturbed \/ (IdentityMatches /\ SystemSafe /\ NothingListed)

VerifiedDiskKnown == apc = "VERIFY_SCAN" => disturbed \/ IdentityMatches

\* Which results go with a written disk, at every point of the execution.
WroteKnown ==
  /\ apc \in {"IDENTITY", "SYSTEM", "SCAN", "SFDISK"} =>
       ~awrote /\ apply_result.code = "NOT_RUN"
  /\ apc \in {"VERIFY_IDENTITY", "VERIFY_SCAN"} =>
       awrote /\ apply_result.code = "NOT_RUN"
  /\ BlockedLeftDiskAlone

ApplyCheckInv ==
  IdentityKnown /\ SystemKnown /\ TargetKnown /\ VerifiedDiskKnown /\ WroteKnown

\* A check without objection means every probe of it answered well.
LEMMA ClearMeansSafe ==
  ASSUME WorldTypeOK, NEW in, Clear(ApplyObjections(in))
  PROVE  /\ HostAllows
         /\ in.identity /\ in.system = "SAFE" /\ ~in.existing
<1> DEFINE objections == ApplyObjections(in)
<1>1. DOMAIN objections =
        {"WSL", "MBR_NOT_ENABLED", "NOT_SUPPORTED_VM", "LOCKED",
         "DISK_IDENTITY", "SYSTEM_DISK", "SYSTEM_DISK_UNKNOWN",
         "EXISTING_PARTITIONS", "UNSUPPORTED_SECTOR_SIZE", "TOOL_UNAVAILABLE"}
  BY DEF ApplyObjections
<1>2. /\ objections.MBR_NOT_ENABLED = (host.planTable = "MBR")
      /\ objections.NOT_SUPPORTED_VM = (host.env # "VM")
      /\ objections.LOCKED = ~host.unlocked
      /\ objections.DISK_IDENTITY = ~in.identity
      /\ objections.SYSTEM_DISK_UNKNOWN = (in.system # "SAFE")
      /\ objections.EXISTING_PARTITIONS = in.existing
      /\ objections.UNSUPPORTED_SECTOR_SIZE = ~host.sector512
  BY DEF ApplyObjections
<1> HIDE DEF objections
<1>3. /\ ~objections.MBR_NOT_ENABLED /\ ~objections.NOT_SUPPORTED_VM
      /\ ~objections.LOCKED /\ ~objections.DISK_IDENTITY
      /\ ~objections.SYSTEM_DISK_UNKNOWN /\ ~objections.EXISTING_PARTITIONS
      /\ ~objections.UNSUPPORTED_SECTOR_SIZE
  BY <1>1 DEF Clear, objections
<1>4. host.planTable \in {"GPT", "MBR"}
  BY WorldAssumption DEF WorldTypeOK, AllHosts
<1> QED BY <1>2, <1>3, <1>4 DEF HostAllows

\* The verdict keeps what is known of the target, given what the probes of
\* this check have established.
LEMMA EvaluateApplyKnown ==
  ASSUME ApplyTypeOK, NEW in, EvaluateApply(in),
         apc \in {"IDENTITY", "SCAN"}, WroteKnown,
         UNCHANGED <<host, attached, listed, mounted, awrote>>,
         in.identity /\ in.system = "SAFE" /\ ~in.existing =>
           disturbed' \/ (IdentityMatches /\ SystemSafe /\ NothingListed)
  PROVE  ApplyCheckInv'
<1>1. CASE ~Clear(ApplyObjections(in))
  <2>1. apc' = "DONE" /\ apply_result'.code = "BLOCKED" /\ ~awrote'
    BY <1>1 DEF EvaluateApply, WroteKnown
  <2> QED BY <2>1 DEF ApplyCheckInv, IdentityKnown, SystemKnown, TargetKnown,
                VerifiedDiskKnown,
                      WroteKnown, BlockedLeftDiskAlone
<1>2. CASE Clear(ApplyObjections(in))
  <2>1. apc' \in {"IDENTITY", "SFDISK"}
    BY <1>2 DEF EvaluateApply
  <2>2. ~awrote' /\ apply_result'.code = "NOT_RUN"
    BY <1>2 DEF EvaluateApply, WroteKnown, ApplyTypeOK
  <2>3. WroteKnown'
    BY <2>1, <2>2 DEF WroteKnown, BlockedLeftDiskAlone
  <2>4. TargetKnown'
    BY <1>2, ClearMeansSafe
    DEF ApplyTypeOK, TargetKnown, HostAllows, IdentityMatches, SystemSafe, NothingListed
  <2> QED BY <2>1, <2>3, <2>4 DEF ApplyCheckInv, IdentityKnown, SystemKnown,
                                          VerifiedDiskKnown
<1> QED BY <1>1, <1>2

\* Each step of the executor keeps what is known.
LEMMA ApplyStepKnown ==
  ASSUME ApplyTypeOK, ApplyCheckInv, BeginApply \/ ApplyStep \/ DismissApply
  PROVE  ApplyCheckInv'
<1> USE DEF ApplyCheckInv
<1>1. CASE BeginApply
  BY <1>1 DEF BeginApply, ApplyNotRun, IdentityKnown, SystemKnown, VerifiedDiskKnown,
              TargetKnown, WroteKnown, BlockedLeftDiskAlone
<1>2. CASE CollectIdentity
  <2>1. CASE host.env = "WSL"
    <3>1. EvaluateApply(NothingCollected)
      BY <1>2, <2>1 DEF CollectIdentity
    <3> QED BY <1>2, <3>1, EvaluateApplyKnown
            DEF CollectIdentity, NothingCollected
  <2>2. CASE host.env # "WSL"
    <3>1. PICK ok \in RevalidateResults :
            ain' = [NothingCollected EXCEPT !.identity = ok]
      BY <1>2, <2>2 DEF CollectIdentity
    <3>2. ain'.identity = ok
      BY <3>1 DEF NothingCollected
    <3>3. ok => IdentityMatches
      BY DEF RevalidateResults
    <3>4. apc' = "SYSTEM" /\ UNCHANGED <<attached, awrote, apply_result>>
      BY <1>2, <2>2 DEF CollectIdentity
    <3> QED BY <1>2, <3>2, <3>3, <3>4
            DEF CollectIdentity, IdentityKnown, SystemKnown, TargetKnown,
                VerifiedDiskKnown,
                WroteKnown, IdentityMatches, BlockedLeftDiskAlone
  <2> QED BY <2>1, <2>2
<1>3. CASE CollectSystem
  <2>1. PICK status \in SystemResults : ain' = [ain EXCEPT !.system = status]
    BY <1>3 DEF CollectSystem
  <2>2. ain'.identity = ain.identity /\ ain'.system = status
    BY <2>1 DEF ApplyTypeOK
  <2>3. status = "SAFE" => SystemSafe
    BY DEF SystemResults, SystemSafe
  <2> QED BY <1>3, <2>2, <2>3
          DEF CollectSystem, worldVars, IdentityKnown, SystemKnown, VerifiedDiskKnown,
              TargetKnown, WroteKnown, IdentityMatches, SystemSafe,
              BlockedLeftDiskAlone
<1>4. CASE CollectPartitions
  <2>1. /\ UNCHANGED <<host, attached, listed, mounted, awrote>>
        /\ UNCHANGED disturbed /\ apc = "SCAN"
    BY <1>4 DEF CollectPartitions, worldVars
  <2>2. CASE ain.identity
    <3>1. PICK scan \in ScanResults :
            EvaluateApply([ain EXCEPT !.identity = scan # "FAIL",
                                      !.existing = scan \notin {"FAIL", "NONE"}])
      BY <1>4, <2>2 DEF CollectPartitions
    <3> DEFINE in == [ain EXCEPT !.identity = scan # "FAIL",
                                 !.existing = scan \notin {"FAIL", "NONE"}]
    <3>2. /\ in.identity = (scan # "FAIL") /\ in.system = ain.system
          /\ in.existing = (scan \notin {"FAIL", "NONE"})
      BY DEF ApplyTypeOK
    <3>3. scan = "NONE" => NothingListed
      BY DEF ScanResults, NothingListed, RangesMatch
    <3>4. in.identity /\ in.system = "SAFE" /\ ~in.existing =>
            disturbed' \/ (IdentityMatches /\ SystemSafe /\ NothingListed)
      BY <2>1, <2>2, <3>2, <3>3 DEF IdentityKnown, SystemKnown
    <3> HIDE DEF in
    <3> QED BY <2>1, <3>1, <3>4, EvaluateApplyKnown DEF in
  <2>3. CASE ~ain.identity
    <3>1. EvaluateApply(ain)
      BY <1>4, <2>3 DEF CollectPartitions
    <3> QED BY <2>1, <2>3, <3>1, EvaluateApplyKnown
  <2> QED BY <2>2, <2>3
<1>5. CASE RunSfdisk
  <2>1. \/ apc' = "VERIFY_IDENTITY" /\ awrote' /\ UNCHANGED apply_result
        \/ apc' = "DONE" /\ apply_result'.code = "PROCESS_FAILED"
    BY <1>5 DEF RunSfdisk, WriteLayout, FinishApply, ApplyTypeOK
  <2> QED BY <1>5, <2>1 DEF RunSfdisk, IdentityKnown, SystemKnown, VerifiedDiskKnown,
                            TargetKnown, WroteKnown, BlockedLeftDiskAlone
<1>6. CASE VerifyIdentity \/ VerifyLayout
  <2>1. /\ awrote'
        /\ \/ /\ apc' \in {"VERIFY_IDENTITY", "VERIFY_SCAN"}
              /\ UNCHANGED apply_result
           \/ /\ apc' = "DONE"
              /\ apply_result'.code \in {"SUCCESS", "VERIFY_FAILED"}
    BY <1>6 DEF VerifyIdentity, VerifyLayout, RetryVerification, FinishApply,
                WroteKnown, ApplyTypeOK
  <2>2. VerifiedDiskKnown'
    BY <1>6 DEF VerifyIdentity, VerifyLayout, RetryVerification, FinishApply,
                VerifiedDiskKnown, RevalidateResults, IdentityMatches
  <2> QED BY <1>6, <2>1, <2>2 DEF VerifyIdentity, VerifyLayout, IdentityKnown,
                SystemKnown, TargetKnown, WroteKnown, BlockedLeftDiskAlone
<1>7. CASE DismissApply
  BY <1>7 DEF DismissApply, worldVars, IdentityKnown, SystemKnown, TargetKnown,
                VerifiedDiskKnown,
              WroteKnown, BlockedLeftDiskAlone
<1> QED
  BY <1>1, <1>2, <1>3, <1>4, <1>5, <1>6, <1>7 DEF ApplyStep

\* An outside event voids what is known, and the executor then holds nothing
\* that speaks of the world undisturbed.
LEMMA EnvironmentKnown ==
  ASSUME ApplyCheckInv, Environment, UNCHANGED applyVars
  PROVE  ApplyCheckInv'
BY EnvironmentDisturbs
DEF ApplyCheckInv, applyVars, IdentityKnown, SystemKnown, TargetKnown,
                VerifiedDiskKnown,
    HostAllows, WroteKnown, BlockedLeftDiskAlone

\* ApplyCheckInv is an invariant of the executor in its world.
THEOREM ApplyChecksHold == ApplySpec => [](ApplyTypeOK /\ ApplyCheckInv)
<1>1. ApplyInit => ApplyCheckInv
  BY DEF ApplyInit, ApplyIdle, ApplyNotRun, ApplyCheckInv, IdentityKnown, SystemKnown,
         VerifiedDiskKnown,
         TargetKnown, WroteKnown, BlockedLeftDiskAlone
<1>2. ApplyTypeOK /\ ApplyCheckInv /\ [ApplyNext]_allVars => ApplyCheckInv'
  <2> SUFFICES ASSUME ApplyTypeOK, ApplyCheckInv, [ApplyNext]_allVars
               PROVE  ApplyCheckInv'
    OBVIOUS
  <2>1. CASE BeginApply \/ ApplyStep \/ DismissApply
    BY <2>1, ApplyStepKnown
  <2>2. CASE Environment /\ UNCHANGED applyVars
    BY <2>2, EnvironmentKnown
  <2>3. CASE UNCHANGED allVars
    BY <2>3 DEF allVars, worldVars, applyVars, ApplyCheckInv, IdentityKnown,
                SystemKnown, TargetKnown, VerifiedDiskKnown, WroteKnown,
                BlockedLeftDiskAlone, HostAllows, SystemSafe, NothingListed, IdentityMatches
  <2> QED BY <2>1, <2>2, <2>3 DEF ApplyNext
<1> QED BY <1>1, <1>2, ApplyTypeCorrect, PTL DEF ApplySpec, allVars

\* A result of BLOCKED stands for an execution that wrote nothing, and SUCCESS
\* and VERIFY_FAILED for one that did.
THEOREM ApplyBlockedLeftDiskAlone == ApplySpec => []BlockedLeftDiskAlone
<1>1. ApplyCheckInv => BlockedLeftDiskAlone
  BY DEF ApplyCheckInv, WroteKnown
<1> QED BY <1>1, ApplyChecksHold, PTL

\* sfdisk writes only a disk that every probe of the last check found safe,
\* unless the world changed after that check began.
THEOREM ApplyWritesOnlySafeTarget == ApplySpec => WritesOnlySafeTarget
<1>1. ASSUME ApplyTypeOK, ApplyCheckInv, [ApplyNext]_allVars
      PROVE  [awrote' /\ ~awrote => disturbed \/ SfdiskSafe]_allVars
  <2> SUFFICES ASSUME ApplyNext, awrote' /\ ~awrote
               PROVE  disturbed \/ SfdiskSafe
    BY <1>1
  <2>1. RunSfdisk
    BY DEF ApplyNext, ApplyStep, BeginApply, CollectIdentity, CollectSystem,
           CollectPartitions, VerifyIdentity, VerifyLayout, DismissApply,
           applyVars
  <2>2. apc = "SFDISK"
    BY <2>1 DEF RunSfdisk
  <2> QED BY <1>1, <2>2 DEF ApplyCheckInv, TargetKnown, HostAllows, SystemSafe,
                            NothingListed, SfdiskSafe
<1> QED
  BY <1>1, ApplyChecksHold, PTL DEF ApplySpec, WritesOnlySafeTarget, allVars

\* SUCCESS is reported only over a disk that passes for the confirmed one and
\* lists the planned ranges, unless the world changed after the successful
\* verification attempt began.
THEOREM ApplyReportsSuccessTruthfully == ApplySpec => ReportsSuccessTruthfully
<1>1. ASSUME ApplyTypeOK, ApplyCheckInv, [ApplyNext]_allVars
      PROVE  [apply_result'.code = "SUCCESS" /\ apply_result.code # "SUCCESS" =>
                disturbed \/ host.hidesEntries \/ (IdentityMatches /\ RangesMatch(listed))
             ]_allVars
  <2> DEFINE truthful ==
               disturbed \/ host.hidesEntries \/ (IdentityMatches /\ RangesMatch(listed))
  <2> SUFFICES ASSUME ApplyNext,
                      apply_result'.code = "SUCCESS" /\ apply_result.code # "SUCCESS"
               PROVE  truthful
    <3> HIDE DEF truthful
    <3>1. [apply_result'.code = "SUCCESS" /\ apply_result.code # "SUCCESS" =>
             truthful]_allVars
      BY <1>1
    <3> QED BY <3>1 DEF truthful
  <2>1. VerifyLayout
    <3>1. ~BeginApply
      BY DEF BeginApply, ApplyNotRun
    <3>2. ~CollectIdentity /\ ~CollectPartitions
      <4>1. \A in : EvaluateApply(in) => apply_result'.code # "SUCCESS"
        BY <1>1 DEF EvaluateApply, ApplyTypeOK
      <4> QED BY <4>1 DEF CollectIdentity, CollectPartitions
    <3>3. ~CollectSystem /\ ~DismissApply /\ ~(Environment /\ UNCHANGED applyVars)
      BY DEF CollectSystem, DismissApply, applyVars
    <3>4. ~RunSfdisk /\ ~VerifyIdentity
      BY <1>1 DEF RunSfdisk, VerifyIdentity, RetryVerification, FinishApply,
                  ApplyTypeOK
    <3> QED BY <3>1, <3>2, <3>3, <3>4 DEF ApplyNext, ApplyStep
  <2>2. apc = "VERIFY_SCAN"
    BY <2>1 DEF VerifyLayout
  <2>3. \E scan \in ScanResults : RangesMatch(scan)
    BY <1>1, <2>1 DEF VerifyLayout, RetryVerification, FinishApply, ApplyTypeOK
  <2>4. host.hidesEntries \/ RangesMatch(listed)
    BY <2>3 DEF ScanResults, RangesMatch
  <2> QED BY <1>1, <2>2, <2>4 DEF ApplyCheckInv, VerifiedDiskKnown
<1> QED
  BY <1>1, ApplyChecksHold, PTL DEF ApplySpec, ReportsSuccessTruthfully, allVars

-----------------------------------------------------------------------------
(***************************************************************************)
(* The format executor.                                                    *)
(***************************************************************************)

FormatInputs ==
  [identity: BOOLEAN, system: SystemStatus, layout: BOOLEAN,
   device: BOOLEAN, mount: {"UNKNOWN", "MOUNTED", "NOT_MOUNTED"}]

FormatResults ==
  [code: FormatCodes, safety: FormatSafetyCodes,
   failed_role: Slots \union {"NONE"}, completed_count: 0..3]

-----------------------------------------------------------------------------
(***************************************************************************)
(* Types.  The count of completed partitions stays in its range because it *)
(* follows the partition in hand, which FormatProgress states.             *)
(***************************************************************************)
FormatProgress ==
  /\ fpc \notin {"IDLE", "DONE"} =>
       /\ format_result.completed_count = fslot - 1
       /\ format_result.failed_role = Slot
       /\ format_result.code = "NOT_RUN"
  /\ fpc = "MKFS" => fslot \in 1..3
  /\ fpc = "DONE" /\ format_result.code = "SUCCESS" =>
       format_result.completed_count = 3

\* The order of the partitions, position by position.
LEMMA FormatOrderIs ==
  /\ FormatOrder[1] = "EFI" /\ FormatOrder[2] = "WINDOWS"
  /\ FormatOrder[3] = "RECOVERY" /\ FormatOrder[4] = "MSR"
  /\ \A i \in 1..4 : FormatOrder[i] \in Slots
  /\ \A i, j \in 1..4 : FormatOrder[i] = FormatOrder[j] => i = j
  /\ \A i \in 1..4 : FormatOrder[i] = "MSR" <=> i = 4
BY DEF FormatOrder, Slots

\* The safety code of a refused check is one of the codes of the enumeration.
LEMMA FirstFormatObjection ==
  ASSUME NEW in, ~Clear(FormatObjections(in))
  PROVE  FirstObjection(FormatObjections(in), FormatSafetyOrder) \in FormatSafetyCodes
<1> DEFINE objects(i) == FormatObjections(in)[FormatSafetyOrder[i]]
           first(i) == objects(i) /\ \A j \in 1..(i - 1) : ~objects(j)
<1>1. DOMAIN FormatSafetyOrder = 1..13
  BY DEF FormatSafetyOrder
<1>2. DOMAIN FormatObjections(in) = {FormatSafetyOrder[i] : i \in 1..13}
  BY DEF FormatSafetyOrder, FormatObjections
<1>3. PICK k \in 1..13 : objects(k)
  BY <1>2 DEF Clear
<1>4. \E i \in 1..13 : first(i)
  <2> HIDE DEF objects
  <2>1. \/ first(1) \/ first(2) \/ first(3) \/ first(4) \/ first(5)
        \/ first(6) \/ first(7) \/ first(8) \/ first(9) \/ first(10)
        \/ first(11) \/ first(12) \/ first(13)
    BY <1>3, SMTT(30)
  <2> HIDE DEF first
  <2> QED BY <2>1
<1>5. \A i \in 1..13 : FormatSafetyOrder[i] \in FormatSafetyCodes
  BY DEF FormatSafetyOrder, FormatSafetyCodes
<1> QED
  BY <1>1, <1>4, <1>5 DEF FirstObjection

\* What EvaluateFormat leaves: the types, and the place in the execution.
LEMMA EvaluateFormatType ==
  ASSUME FormatTypeOK, FormatProgress, fpc \notin {"IDLE", "DONE"},
         NEW in \in FormatInputs, EvaluateFormat(in), UNCHANGED fslot
  PROVE  /\ fpc' \in {"IDENTITY", "MKFS", "VERIFY", "DONE"}
         /\ fcheck' \in 1..2
         /\ fin' \in FormatInputs
         /\ format_result' \in FormatResults
         /\ FormatProgress'
<1> USE DEF FormatTypeOK, FormatResults
<1>1. "OK" \in FormatSafetyCodes /\ "BLOCKED" \in FormatCodes
  BY DEF FormatSafetyCodes, FormatCodes
<1>2. CASE ~Clear(FormatObjections(in))
  <2> DEFINE code == FirstObjection(FormatObjections(in), FormatSafetyOrder)
  <2>1. /\ fpc' = "DONE" /\ fin' = in /\ fcheck' = fcheck
        /\ format_result' =
             [format_result EXCEPT !.code = "BLOCKED", !.safety = code]
    BY <1>2 DEF EvaluateFormat
  <2>2. code \in FormatSafetyCodes
    BY <1>2, FirstFormatObjection
  <2> HIDE DEF code
  <2>3. format_result' \in FormatResults /\ format_result'.code = "BLOCKED"
    BY <1>1, <2>1, <2>2
  <2> QED BY <2>1, <2>3 DEF FormatProgress
<1>3. CASE Clear(FormatObjections(in))
  <2>1. format_result' = format_result
        \/ format_result' = [format_result EXCEPT !.safety = "OK"]
    BY <1>3 DEF EvaluateFormat
  <2>2. /\ format_result' \in FormatResults
        /\ format_result'.completed_count = format_result.completed_count
        /\ format_result'.failed_role = format_result.failed_role
        /\ format_result'.code = format_result.code
    BY <1>1, <2>1
  <2>3. fpc' \in {"IDENTITY", "MKFS", "VERIFY"} /\ fcheck' \in 1..2 /\ fin' = in
    BY <1>3 DEF EvaluateFormat
  <2>4. fpc' = "MKFS" => fslot' \in 1..3
    BY <1>3, FormatOrderIs DEF EvaluateFormat, Slot
  <2> QED BY <2>2, <2>3, <2>4 DEF FormatProgress, Slot
<1> QED BY <1>2, <1>3

\* The outcome of one partition's verification.
LEMMA PartitionVerifiedType ==
  ASSUME FormatTypeOK, FormatProgress, fpc = "VERIFY", PartitionVerified
  PROVE  /\ fpc' \in {"IDENTITY", "DONE"}
         /\ fslot' \in 1..4
         /\ fcheck' \in 1..2
         /\ format_result' \in FormatResults
         /\ FormatProgress'
<1> USE DEF FormatTypeOK, FormatResults, FormatProgress
<1>1. "SUCCESS" \in FormatCodes
  BY DEF FormatCodes
<1>2. format_result.completed_count = fslot - 1
  OBVIOUS
<1>3. CASE Slot = "MSR"
  <2>1. fslot = 4
    BY <1>3, FormatOrderIs DEF Slot
  <2>2. /\ fpc' = "DONE" /\ UNCHANGED <<fslot, fcheck>>
        /\ format_result' = [format_result EXCEPT !.code        = "SUCCESS",
                                                  !.failed_role = "NONE"]
    BY <1>3 DEF PartitionVerified
  <2>3. format_result' \in FormatResults
    BY <1>1, <2>2
  <2>4. format_result'.completed_count = format_result.completed_count
    BY <2>2
  <2>5. FormatProgress'
    BY <1>2, <2>1, <2>2, <2>4
  <2> QED BY <2>2, <2>3, <2>5
<1>4. CASE Slot # "MSR"
  <2>1. fslot \in 1..3
    BY <1>4, FormatOrderIs DEF Slot
  <2>2. FormatOrder[fslot + 1] \in Slots
    BY <2>1, FormatOrderIs
  <2>3. /\ fpc' = "IDENTITY" /\ fslot' = fslot + 1 /\ fcheck' = 1
        /\ format_result' =
             [format_result EXCEPT !.completed_count = @ + 1,
                                   !.failed_role     = FormatOrder[fslot + 1]]
    BY <1>4 DEF PartitionVerified
  <2> DEFINE counted == [format_result EXCEPT !.completed_count = @ + 1]
  <2>5. fslot \in 0..3 /\ format_result.completed_count + 1 = fslot
    BY <1>2, <2>1
  <2>6. format_result' = [counted EXCEPT !.failed_role = FormatOrder[fslot + 1]]
    BY <2>3
  <2>7. counted \in FormatResults /\ counted.completed_count = fslot
         /\ counted.code = "NOT_RUN"
    BY <2>5
  <2> HIDE DEF counted
  <2>4. /\ format_result' \in FormatResults
        /\ format_result'.completed_count = fslot
        /\ format_result'.failed_role = FormatOrder[fslot']
        /\ format_result'.code = "NOT_RUN"
    BY <2>2, <2>3, <2>6, <2>7
  <2>8. FormatProgress'
    BY <2>3, <2>4 DEF Slot
  <2> QED BY <2>1, <2>3, <2>4, <2>8
<1> QED BY <1>3, <1>4

\* An execution that is given up keeps its place in the result.
LEMMA FinishFormatType ==
  ASSUME FormatTypeOK, FormatProgress, NEW code \in FormatCodes \ {"SUCCESS"},
         FinishFormat(code)
  PROVE  fpc' = "DONE" /\ format_result' \in FormatResults /\ FormatProgress'
BY DEF FormatTypeOK, FormatResults, FormatProgress, FinishFormat

\* What FormatScan does with one answer of the scan and of the device node.
ScanShows(scan, device) ==
  LET in == [fin EXCEPT !.layout = RangesMatch(scan), !.device = device]
  IN  IF device
      THEN fpc' = "MOUNT" /\ fin' = in /\ UNCHANGED <<fcheck, format_result>>
      ELSE EvaluateFormat(in)

\* Each step of the executor keeps the types.
LEMMA FormatStepType ==
  ASSUME FormatTypeOK, FormatProgress,
         BeginFormat \/ FormatStep \/ DismissFormat
  PROVE  FormatTypeOK' /\ FormatProgress'
<1> USE DEF FormatTypeOK
<1>1. \A c \in {"NOT_RUN", "BLOCKED", "PROCESS_FAILED", "VERIFY_FAILED"} :
        c \in FormatCodes \ {"SUCCESS"}
  BY DEF FormatCodes
<1>2. NoFormatInputs \in FormatInputs
  BY DEF NoFormatInputs, FormatInputs, SystemStatus
<1>3. CASE BeginFormat
  <2>1. WorldTypeOK'
    BY <1>3 DEF BeginFormat, worldVars, WorldTypeOK
  <2>2. format_result' \in FormatResults /\ format_result'.completed_count = 0
    <3>1. FormatOrder[1] \in Slots
      BY FormatOrderIs
    <3>2. \/ format_result' = [FormatNotRun EXCEPT !.code   = "BLOCKED",
                                                   !.safety = "MBR_NOT_ENABLED"]
          \/ format_result' = [FormatNotRun EXCEPT !.failed_role = FormatOrder[1]]
      BY <1>3 DEF BeginFormat
    <3>3. FormatNotRun \in FormatResults /\ FormatNotRun.completed_count = 0
      BY <1>1 DEF FormatNotRun, FormatResults, FormatSafetyCodes
    <3>4. "MBR_NOT_ENABLED" \in FormatSafetyCodes
      BY DEF FormatSafetyCodes
    <3> HIDE DEF FormatTypeOK
    <3> QED BY <1>1, <3>1, <3>2, <3>3, <3>4 DEF FormatResults
  <2>3. /\ fpc' \in {"DONE", "IDENTITY"}
        /\ fpc' = "IDENTITY" => /\ format_result'.failed_role = FormatOrder[1]
                                /\ format_result'.code = "NOT_RUN"
        /\ fpc' = "DONE" => format_result'.code = "BLOCKED"
    BY <1>3 DEF BeginFormat, FormatNotRun
  <2>4. fslot' = 1 /\ fcheck' = 1 /\ fin' = NoFormatInputs /\ fbefore' = fs
        /\ fplan' = fplan
    BY <1>3 DEF BeginFormat
  <2>5. FormatProgress'
    BY <2>2, <2>3, <2>4 DEF FormatProgress, Slot
  <2>6. fbefore' \in [Disks -> [Slots -> Filesystems]]
    BY <2>4 DEF WorldTypeOK
  <2> QED BY <1>2, <2>1, <2>2, <2>3, <2>4, <2>5, <2>6 DEF FormatInputs, FormatResults
<1>4. CASE FormatIdentity
  <2>1. WorldTypeOK'
    BY <1>4 DEF FormatIdentity, WorldTypeOK
  <2>2. fslot' = fslot /\ fplan' = fplan /\ fbefore' = fbefore /\ fpc = "IDENTITY"
    BY <1>4 DEF FormatIdentity
  <2>3. CASE host.env = "WSL"
    <3>1. EvaluateFormat(NoFormatInputs)
      BY <1>4, <2>3 DEF FormatIdentity
    <3> QED BY <1>2, <2>1, <2>2, <3>1, EvaluateFormatType
            DEF FormatInputs, FormatResults
  <2>4. CASE host.env # "WSL"
    <3>1. RevalidateResults \subseteq BOOLEAN
      BY DEF RevalidateResults, IdentityMatches
    <3>2. PICK ok \in RevalidateResults :
            fin' = [NoFormatInputs EXCEPT !.identity = ok]
      BY <1>4, <2>4 DEF FormatIdentity
    <3>3. fin' \in FormatInputs
      BY <1>2, <3>1, <3>2 DEF FormatInputs
    <3>4. fpc' = "SYSTEM" /\ UNCHANGED <<fcheck, format_result>>
      BY <1>4, <2>4 DEF FormatIdentity
    <3> QED BY <2>1, <2>2, <3>3, <3>4 DEF FormatInputs, FormatProgress, Slot
  <2> QED BY <2>3, <2>4
<1>5. CASE FormatSystem
  <2>1. WorldTypeOK'
    BY <1>5 DEF FormatSystem, worldVars, WorldTypeOK
  <2>2. SystemResults \subseteq SystemStatus
    BY DEF SystemResults, SystemStatus
  <2>3. PICK status \in SystemResults : fin' = [fin EXCEPT !.system = status]
    BY <1>5 DEF FormatSystem
  <2>4. fin' \in FormatInputs
    BY <2>2, <2>3 DEF FormatInputs
  <2> QED BY <1>5, <2>1, <2>4 DEF FormatSystem, FormatInputs, FormatProgress, Slot
<1>6. CASE FormatScan
  <2>1. WorldTypeOK'
    BY <1>6 DEF FormatScan, worldVars, WorldTypeOK
  <2>2. fslot' = fslot /\ fplan' = fplan /\ fbefore' = fbefore /\ fpc = "SCAN"
    BY <1>6 DEF FormatScan
  <2>3. CASE fin.identity
    <3>0. PICK scan \in ScanResults :
            \E device \in {FALSE, RangesMatch(scan) /\ scan = fplan} :
              ScanShows(scan, device)
      BY <1>6, <2>3 DEF FormatScan, ScanShows
    <3>1. PICK device \in {FALSE, RangesMatch(scan) /\ scan = fplan} :
            ScanShows(scan, device)
      BY <3>0
    <3> DEFINE in == [fin EXCEPT !.layout = RangesMatch(scan), !.device = device]
    <3>2. in \in FormatInputs
      <4>1. RangesMatch(scan) \in BOOLEAN /\ device \in BOOLEAN
        <5>1. RangesMatch(scan) \in BOOLEAN
          BY DEF RangesMatch
        <5>2. (RangesMatch(scan) /\ scan = fplan) \in BOOLEAN
          OBVIOUS
        <5> QED BY <5>1, <5>2
      <4>2. fin \in FormatInputs
        BY DEF FormatInputs
      <4> HIDE DEF FormatTypeOK
      <4> QED BY <4>1, <4>2 DEF FormatInputs
    <3> HIDE DEF in
    <3>3. CASE device
      <4>1. fpc' = "MOUNT" /\ fin' = in /\ UNCHANGED <<fcheck, format_result>>
        BY <3>1, <3>3 DEF in, ScanShows
      <4> QED BY <2>1, <2>2, <3>2, <4>1 DEF FormatInputs, FormatProgress, Slot
    <3>4. CASE ~device
      <4>1. EvaluateFormat(in)
        BY <3>1, <3>4 DEF in, ScanShows
      <4> QED BY <2>1, <2>2, <3>2, <4>1, EvaluateFormatType
              DEF FormatInputs, FormatResults
    <3> QED BY <3>3, <3>4
  <2>4. CASE ~fin.identity
    <3>1. EvaluateFormat(fin)
      BY <1>6, <2>4 DEF FormatScan
    <3>2. fin \in FormatInputs
      BY DEF FormatInputs
    <3> QED BY <2>1, <2>2, <3>1, <3>2, EvaluateFormatType
            DEF FormatInputs, FormatResults
  <2> QED BY <2>3, <2>4
<1>7. CASE FormatMount
  <2>1. WorldTypeOK'
    BY <1>7 DEF FormatMount, worldVars, WorldTypeOK
  <2>2. fslot' = fslot /\ fplan' = fplan /\ fbefore' = fbefore /\ fpc = "MOUNT"
    BY <1>7 DEF FormatMount
  <2>3. PICK status \in MountResults(Denoted(Slot)) :
          EvaluateFormat([fin EXCEPT !.mount = status])
    BY <1>7 DEF FormatMount
  <2>4. [fin EXCEPT !.mount = status] \in FormatInputs
    BY DEF MountResults, FormatInputs
  <2> QED BY <2>1, <2>2, <2>3, <2>4, EvaluateFormatType
          DEF FormatInputs, FormatResults
<1>8. CASE RunFormatter
  <2>1. /\ fslot' = fslot /\ fcheck' = fcheck /\ fin' = fin /\ fplan' = fplan
        /\ fbefore' = fbefore /\ fpc = "MKFS"
    BY <1>8 DEF RunFormatter
  <2>2. \A s \in Slots : Wanted[s] \in Filesystems /\ Denoted(s) \in Slots
    BY DEF Wanted, Filesystems, Slots, Denoted, Permuted
  <2>3. Slot \in Slots
    BY FormatOrderIs DEF Slot
  <2>4. fs' \in [Disks -> [Slots -> Filesystems]]
    <3>1. \/ fs' = fs
          \/ \E left \in {"NONE", "FOREIGN", Wanted[Slot]} :
               fs' = [fs EXCEPT ![attached][Denoted(Slot)] = left]
      BY <1>8 DEF RunFormatter
    <3>2. {"NONE", "FOREIGN", Wanted[Slot]} \subseteq Filesystems
      BY <2>2, <2>3 DEF Filesystems
    <3> QED BY <3>1, <3>2 DEF WorldTypeOK
  <2>5. WorldTypeOK'
    BY <1>8, <2>4 DEF RunFormatter, WorldTypeOK
  <2>6. \/ fpc' = "VERIFY" /\ UNCHANGED format_result
        \/ FinishFormat("PROCESS_FAILED")
    BY <1>8 DEF RunFormatter
  <2>7. CASE fpc' = "VERIFY" /\ UNCHANGED format_result
    BY <2>1, <2>5, <2>7 DEF FormatProgress, Slot
  <2>8. CASE FinishFormat("PROCESS_FAILED")
    BY <1>1, <2>1, <2>5, <2>8, FinishFormatType DEF FormatResults
  <2> QED BY <2>6, <2>7, <2>8
<1>9. CASE VerifyFilesystem
  <2>1. WorldTypeOK'
    BY <1>9 DEF VerifyFilesystem, WorldTypeOK
  <2>2. fin' = fin /\ fplan' = fplan /\ fbefore' = fbefore /\ fpc = "VERIFY"
    BY <1>9 DEF VerifyFilesystem
  <2>3. \/ PartitionVerified
        \/ FinishFormat("VERIFY_FAILED") /\ UNCHANGED <<fslot, fcheck>>
    BY <1>9 DEF VerifyFilesystem
  <2>4. CASE PartitionVerified
    BY <2>1, <2>2, <2>4, PartitionVerifiedType DEF FormatResults
  <2>5. CASE FinishFormat("VERIFY_FAILED") /\ UNCHANGED <<fslot, fcheck>>
    BY <1>1, <2>1, <2>2, <2>5, FinishFormatType DEF FormatResults
  <2> QED BY <2>3, <2>4, <2>5
<1>10. CASE DismissFormat
  BY <1>10 DEF DismissFormat, worldVars, WorldTypeOK, FormatProgress
<1> QED
  BY <1>3, <1>4, <1>5, <1>6, <1>7, <1>8, <1>9, <1>10 DEF FormatStep

\* The idle executor is of its types.
LEMMA FormatIdleType ==
  ASSUME WorldTypeOK, FormatIdle
  PROVE  FormatTypeOK /\ FormatProgress
<1>1. fin \in FormatInputs
  BY DEF FormatIdle, NoFormatInputs, SystemStatus, FormatInputs
<1>2. format_result \in FormatResults
  BY DEF FormatIdle, FormatNotRun, FormatCodes, FormatSafetyCodes, FormatResults
<1>3. fbefore \in [Disks -> [Slots -> Filesystems]]
  BY DEF FormatIdle, WorldTypeOK
<1> QED BY <1>1, <1>2, <1>3
        DEF FormatIdle, FormatTypeOK, FormatProgress, FormatInputs, FormatResults

-----------------------------------------------------------------------------
(***************************************************************************)
(* What the probes of the last check have established is so, as long as    *)
(* the world has not changed since the check began.                        *)
(***************************************************************************)
FormatHostAllows == host.env = "VM" /\ host.unlocked /\ host.sector512

PlanListed == host.hidesEntries \/ listed = fplan

FormatTargetSafe == IdentityMatches /\ SystemSafe /\ PlanListed

FormatIdentityKnown ==
  fpc \in {"SYSTEM", "SCAN", "MOUNT"} /\ fin.identity =>
    disturbed \/ IdentityMatches

FormatSystemKnown ==
  fpc \in {"SCAN", "MOUNT"} /\ fin.system = "SAFE" => disturbed \/ SystemSafe

FormatDeviceKnown == fpc = "MOUNT" => disturbed \/ PlanListed

FormatTargetKnown ==
  fpc \in {"MKFS", "VERIFY"} =>
    FormatHostAllows /\ (disturbed \/ FormatTargetSafe)

FormatCheckInv ==
  FormatIdentityKnown /\ FormatSystemKnown /\ FormatDeviceKnown /\ FormatTargetKnown

\* A check without objection means every probe of it answered well.
LEMMA ClearMeansFormattable ==
  ASSUME NEW in, Clear(FormatObjections(in))
  PROVE  FormatHostAllows /\ in.identity /\ in.system = "SAFE" /\ in.device
<1> DEFINE objections == FormatObjections(in)
<1>1. DOMAIN objections =
        {"WSL", "MBR_NOT_ENABLED", "NOT_SUPPORTED_VM", "LOCKED",
         "DISK_IDENTITY", "SYSTEM_DISK", "SYSTEM_DISK_UNKNOWN",
         "UNSUPPORTED_SECTOR_SIZE", "PARTITION_LAYOUT", "PARTITION_DEVICE",
         "PARTITION_MOUNTED", "PARTITION_MOUNT_UNKNOWN", "TOOL_UNAVAILABLE"}
  BY DEF FormatObjections
<1>2. /\ objections.NOT_SUPPORTED_VM = (host.env # "VM")
      /\ objections.LOCKED = ~host.unlocked
      /\ objections.DISK_IDENTITY = ~in.identity
      /\ objections.SYSTEM_DISK_UNKNOWN = (in.system # "SAFE")
      /\ objections.PARTITION_DEVICE = ~in.device
      /\ objections.UNSUPPORTED_SECTOR_SIZE = ~host.sector512
  BY DEF FormatObjections
<1> HIDE DEF objections
<1>3. /\ ~objections.NOT_SUPPORTED_VM /\ ~objections.LOCKED
      /\ ~objections.DISK_IDENTITY /\ ~objections.SYSTEM_DISK_UNKNOWN
      /\ ~objections.PARTITION_DEVICE /\ ~objections.UNSUPPORTED_SECTOR_SIZE
  BY <1>1 DEF Clear, objections
<1> QED BY <1>2, <1>3 DEF FormatHostAllows

\* The verdict keeps what is known of the target, given what the probes of
\* this check have established.
LEMMA EvaluateFormatKnown ==
  ASSUME NEW in, EvaluateFormat(in),
         UNCHANGED <<host, attached, listed, mounted, fplan>>,
         in.identity /\ in.system = "SAFE" /\ in.device =>
           disturbed' \/ FormatTargetSafe
  PROVE  FormatCheckInv'
<1> USE DEF FormatCheckInv, FormatIdentityKnown, FormatSystemKnown,
            FormatDeviceKnown, FormatTargetKnown
<1>1. CASE ~Clear(FormatObjections(in))
  <2>1. fpc' = "DONE"
    BY <1>1 DEF EvaluateFormat
  <2> QED BY <2>1
<1>2. CASE Clear(FormatObjections(in))
  <2>1. fpc' \in {"IDENTITY", "MKFS", "VERIFY"}
    BY <1>2 DEF EvaluateFormat
  <2>2. FormatHostAllows /\ (disturbed' \/ FormatTargetSafe)
    BY <1>2, ClearMeansFormattable
  <2>3. FormatHostAllows'
    BY <2>2 DEF FormatHostAllows
  <2>4. FormatTargetSafe => FormatTargetSafe'
    BY DEF FormatTargetSafe, IdentityMatches, SystemSafe, PlanListed
  <2> QED BY <2>1, <2>2, <2>3, <2>4
<1> QED BY <1>1, <1>2

\* A scan that shows a partition of the plan under its path has read the
\* kernel's listing, unless it skips entries.
LEMMA ScanShowsPlan ==
  ASSUME FormatTypeOK, fplan \in ScanResults
  PROVE  PlanListed
BY DEF FormatTypeOK, ScanResults, PlanListed

\* Each step of the executor keeps what is known.
LEMMA FormatStepKnown ==
  ASSUME FormatTypeOK, FormatCheckInv,
         BeginFormat \/ FormatStep \/ DismissFormat
  PROVE  FormatCheckInv'
<1> USE DEF FormatCheckInv
<1>1. CASE BeginFormat \/ DismissFormat
  <2>1. fpc' \in {"IDLE", "IDENTITY", "DONE"}
    BY <1>1 DEF BeginFormat, DismissFormat
  <2> QED BY <2>1 DEF FormatIdentityKnown, FormatSystemKnown, FormatDeviceKnown,
                      FormatTargetKnown
<1>2. CASE FormatIdentity
  <2>1. UNCHANGED <<host, attached, listed, mounted, fplan>>
    BY <1>2 DEF FormatIdentity
  <2>2. CASE host.env = "WSL"
    <3>1. EvaluateFormat(NoFormatInputs) /\ ~NoFormatInputs.identity
      BY <1>2, <2>2 DEF FormatIdentity, NoFormatInputs
    <3> QED BY <2>1, <3>1, EvaluateFormatKnown
  <2>3. CASE host.env # "WSL"
    <3>1. PICK ok \in RevalidateResults :
            fin' = [NoFormatInputs EXCEPT !.identity = ok]
      BY <1>2, <2>3 DEF FormatIdentity
    <3>2. fin'.identity = ok
      BY <3>1 DEF NoFormatInputs
    <3>3. ok => IdentityMatches
      BY DEF RevalidateResults
    <3>4. fpc' = "SYSTEM"
      BY <1>2, <2>3 DEF FormatIdentity
    <3> QED BY <2>1, <3>2, <3>3, <3>4
            DEF FormatIdentityKnown, FormatSystemKnown, FormatDeviceKnown,
                FormatTargetKnown, IdentityMatches
  <2> QED BY <2>2, <2>3
<1>3. CASE FormatSystem
  <2>1. PICK status \in SystemResults : fin' = [fin EXCEPT !.system = status]
    BY <1>3 DEF FormatSystem
  <2>2. fin'.identity = fin.identity /\ fin'.system = status
    BY <2>1 DEF FormatTypeOK
  <2>3. status = "SAFE" => SystemSafe
    BY DEF SystemResults, SystemSafe
  <2> QED BY <1>3, <2>2, <2>3
          DEF FormatSystem, worldVars, FormatIdentityKnown, FormatSystemKnown,
              FormatDeviceKnown, FormatTargetKnown, IdentityMatches, SystemSafe
<1>4. CASE FormatScan
  <2>1. UNCHANGED <<host, attached, listed, mounted, disturbed, fplan>> /\ fpc = "SCAN"
    BY <1>4 DEF FormatScan, worldVars
  <2>2. CASE fin.identity
    <3>1. PICK scan \in ScanResults :
            \E device \in {FALSE, RangesMatch(scan) /\ scan = fplan} :
              ScanShows(scan, device)
      BY <1>4, <2>2 DEF FormatScan, ScanShows
    <3>2. PICK device \in {FALSE, RangesMatch(scan) /\ scan = fplan} :
            ScanShows(scan, device)
      BY <3>1
    <3>3. device => PlanListed
      BY ScanShowsPlan
    <3> DEFINE in == [fin EXCEPT !.layout = RangesMatch(scan), !.device = device]
    <3>4. in.identity = fin.identity /\ in.system = fin.system /\ in.device = device
      BY DEF FormatTypeOK
    <3> HIDE DEF in
    <3>5. CASE device
      <4>1. fpc' = "MOUNT" /\ fin' = in
        BY <3>2, <3>5 DEF ScanShows, in
      <4> QED BY <2>1, <3>3, <3>4, <3>5, <4>1
              DEF FormatIdentityKnown, FormatSystemKnown, FormatDeviceKnown,
                  FormatTargetKnown, IdentityMatches, SystemSafe, PlanListed
    <3>6. CASE ~device
      <4>1. EvaluateFormat(in)
        BY <3>2, <3>6 DEF ScanShows, in
      <4> QED BY <2>1, <3>4, <3>6, <4>1, EvaluateFormatKnown
    <3> QED BY <3>5, <3>6
  <2>3. CASE ~fin.identity
    <3>1. EvaluateFormat(fin)
      BY <1>4, <2>3 DEF FormatScan
    <3> QED BY <2>1, <2>3, <3>1, EvaluateFormatKnown
  <2> QED BY <2>2, <2>3
<1>5. CASE FormatMount
  <2>1. UNCHANGED <<host, attached, listed, mounted, disturbed, fplan>> /\ fpc = "MOUNT"
    BY <1>5 DEF FormatMount, worldVars
  <2>2. PICK status \in MountResults(Denoted(Slot)) :
          EvaluateFormat([fin EXCEPT !.mount = status])
    BY <1>5 DEF FormatMount
  <2> DEFINE in == [fin EXCEPT !.mount = status]
  <2>3. in.identity = fin.identity /\ in.system = fin.system
    BY DEF FormatTypeOK
  <2>4. in.identity /\ in.system = "SAFE" => disturbed' \/ FormatTargetSafe
    BY <2>1, <2>3 DEF FormatIdentityKnown, FormatSystemKnown, FormatDeviceKnown,
                      FormatTargetSafe
  <2> HIDE DEF in
  <2> QED BY <2>1, <2>2, <2>4, EvaluateFormatKnown DEF in
<1>6. CASE RunFormatter
  <2>1. fpc = "MKFS" /\ fpc' \in {"VERIFY", "DONE"}
    BY <1>6 DEF RunFormatter, FinishFormat
  <2>2. UNCHANGED <<host, attached, listed, mounted, disturbed, fplan>>
    BY <1>6 DEF RunFormatter
  <2> QED BY <2>1, <2>2
          DEF FormatIdentityKnown, FormatSystemKnown, FormatDeviceKnown,
              FormatTargetKnown, FormatHostAllows, FormatTargetSafe,
              IdentityMatches, SystemSafe, PlanListed
<1>7. CASE VerifyFilesystem
  <2>1. fpc' \in {"IDENTITY", "DONE"}
    BY <1>7 DEF VerifyFilesystem, PartitionVerified, FinishFormat
  <2> QED BY <2>1 DEF FormatIdentityKnown, FormatSystemKnown, FormatDeviceKnown,
                      FormatTargetKnown
<1> QED BY <1>1, <1>2, <1>3, <1>4, <1>5, <1>6, <1>7 DEF FormatStep

\* An outside event voids what is known.
LEMMA EnvironmentFormatKnown ==
  ASSUME FormatCheckInv, Environment, UNCHANGED formatVars
  PROVE  FormatCheckInv'
BY EnvironmentDisturbs
DEF FormatCheckInv, formatVars, FormatIdentityKnown, FormatSystemKnown,
    FormatDeviceKnown, FormatTargetKnown, FormatHostAllows

-----------------------------------------------------------------------------
(***************************************************************************)
(* What is on the disks, in an execution in which no tool and no           *)
(* verification ran in a changed world.  The MSR is never written, so that *)
(* what is verified blank at last has been so from the beginning.          *)
(***************************************************************************)
Undeceived == ~raced /\ Imposters = {} /\ ~host.hidesEntries

MsrUntouched ==
  fpc # "IDLE" /\ Undeceived /\ (~MayWipe \/ RangesMatch(table[Selected])) =>
    fs[Selected]["MSR"] = fbefore[Selected]["MSR"]

Installed == RangesMatch(table[Selected]) /\ fs[Selected] = Wanted

SuccessKnown ==
  fpc = "DONE" /\ format_result.code = "SUCCESS" /\ Undeceived =>
    disturbed \/ Installed

FormatContents == PartialFormatLocated /\ MsrUntouched /\ SuccessKnown

\* A formatter that runs undeceived writes its partition of the selected disk.
LEMMA FormatterWritesSlot ==
  ASSUME FormatTypeOK, FormatProgress, FormatCheckInv, RunFormatter,
         Undeceived'
  PROVE  \/ fs' = fs
         \/ \E left \in Filesystems : fs' = [fs EXCEPT ![Selected][Slot] = left]
<1>1. fpc = "MKFS" /\ ~disturbed /\ ~host.hidesEntries /\ Imposters = {}
  BY DEF RunFormatter, Undeceived
<1>2. attached = Selected /\ listed = fplan
  BY <1>1 DEF FormatCheckInv, FormatTargetKnown, FormatTargetSafe,
              IdentityMatches, PlanListed
<1>3. Denoted(Slot) = Slot
  BY <1>2 DEF Denoted
<1>4. Slot \in Slots
  BY FormatOrderIs DEF FormatTypeOK, Slot
<1>5. {"NONE", "FOREIGN", Wanted[Slot]} \subseteq Filesystems
  BY <1>4 DEF Wanted, Filesystems, Slots
<1> QED BY <1>2, <1>3, <1>5 DEF RunFormatter

\* A verification that runs undeceived reads its partition of the selected
\* disk, which carries the layout.
LEMMA VerificationReadsSlot ==
  ASSUME FormatTypeOK, FormatCheckInv, ListingHonest, VerifyFilesystem,
         PartitionVerified, fpc' # "DONE" \/ format_result'.code = "SUCCESS",
         format_result.code = "NOT_RUN", Undeceived'
  PROVE  /\ fs[Selected][Slot] = Wanted[Slot]
         /\ RangesMatch(table[Selected])
<1>1. fpc = "VERIFY" /\ ~disturbed /\ ~host.hidesEntries /\ Imposters = {}
  BY DEF VerifyFilesystem, Undeceived
<1>2. attached = Selected /\ listed = fplan
  BY <1>1 DEF FormatCheckInv, FormatTargetKnown, FormatTargetSafe,
              IdentityMatches, PlanListed
<1>3. Denoted(Slot) = Slot
  BY <1>2 DEF Denoted
<1>4. ~FinishFormat("VERIFY_FAILED")
  BY DEF FinishFormat, FormatTypeOK
<1>5. fs[attached][Denoted(Slot)] = Wanted[Slot]
  BY <1>4 DEF VerifyFilesystem
<1>6. RangesMatch(table[Selected])
  BY <1>2 DEF ListingHonest, FormatTypeOK, RangesMatch
<1> QED BY <1>2, <1>3, <1>5, <1>6

\* The steps that collect and evaluate leave the contents and the place alone.
LEMMA CollectingKeepsContents ==
  ASSUME FormatTypeOK, FormatProgress, FormatContents,
         FormatIdentity \/ FormatSystem \/ FormatScan \/ FormatMount
  PROVE  FormatContents'
<1>1. \A in : EvaluateFormat(in) =>
        /\ format_result'.completed_count = format_result.completed_count
        /\ format_result'.failed_role = format_result.failed_role
        /\ format_result'.code \in {"BLOCKED", format_result.code}
  BY DEF EvaluateFormat, FormatTypeOK
<1>2. \/ UNCHANGED format_result
      \/ \E in : EvaluateFormat(in)
  BY DEF FormatIdentity, FormatSystem, FormatScan, FormatMount
<1>3. /\ format_result'.completed_count = format_result.completed_count
      /\ format_result'.failed_role = format_result.failed_role
      /\ format_result'.code \in {"BLOCKED", format_result.code}
  BY <1>1, <1>2
<1>4. /\ UNCHANGED <<host, table, fs, raced, fbefore>>
      /\ fpc \notin {"IDLE", "DONE"}
  BY DEF FormatIdentity, FormatSystem, FormatScan, FormatMount, worldVars
<1>5. format_result'.code # "SUCCESS"
  BY <1>3, <1>4 DEF FormatProgress
<1> QED BY <1>3, <1>4, <1>5
        DEF FormatContents, PartialFormatLocated, MsrUntouched, SuccessKnown, Undeceived

\* Each step of the executor keeps what is known of the disks.
LEMMA FormatStepContents ==
  ASSUME FormatTypeOK, FormatProgress, FormatCheckInv, ListingHonest,
         FormatContents, BeginFormat \/ FormatStep \/ DismissFormat
  PROVE  FormatContents'
<1>1. CASE BeginFormat
  <2>1. /\ format_result'.completed_count = 0 /\ format_result'.code # "SUCCESS"
        /\ fbefore' = fs /\ fs' = fs
    BY <1>1 DEF BeginFormat, FormatNotRun, worldVars
  <2>2. MsrUntouched' /\ SuccessKnown'
    BY <2>1 DEF MsrUntouched, SuccessKnown
  <2>3. PartialFormatLocated'
    BY <2>1 DEF PartialFormatLocated
  <2> QED BY <2>2, <2>3 DEF FormatContents
<1>2. CASE FormatIdentity \/ FormatSystem \/ FormatScan \/ FormatMount
  BY <1>2, CollectingKeepsContents
<1>3. CASE RunFormatter
  <2>1. /\ fpc = "MKFS" /\ fpc' \in {"VERIFY", "DONE"}
        /\ UNCHANGED <<host, table, fbefore, fslot>>
        /\ raced' = (raced \/ disturbed)
    BY <1>3 DEF RunFormatter, FinishFormat
  <2>2. /\ format_result'.completed_count = format_result.completed_count
        /\ format_result'.failed_role = format_result.failed_role
        /\ format_result'.code # "SUCCESS"
    BY <1>3, <2>1 DEF RunFormatter, FinishFormat, FormatTypeOK, FormatProgress
  <2>3. SuccessKnown'
    BY <2>2 DEF SuccessKnown
  <2>4. SUFFICES ASSUME Undeceived'
                 PROVE  PartialFormatLocated' /\ MsrUntouched'
    BY <2>3 DEF FormatContents, PartialFormatLocated, MsrUntouched, Undeceived
  <2>5. Undeceived
    BY <2>1, <2>4 DEF Undeceived
  <2>6. \/ fs' = fs
        \/ \E left \in Filesystems : fs' = [fs EXCEPT ![Selected][Slot] = left]
    BY <1>3, <2>4, FormatterWritesSlot
  <2>7. fslot \in 1..3 /\ Slot = FormatOrder[fslot] /\ Slot \in Slots /\ Slot # "MSR"
    BY <2>1, FormatOrderIs DEF FormatProgress, Slot
  <2>8. fs'[Selected]["MSR"] = fs[Selected]["MSR"]
    BY <2>6, <2>7, WorldAssumption DEF FormatTypeOK, WorldTypeOK, Slots
  <2>9. MsrUntouched'
    BY <2>1, <2>5, <2>8 DEF FormatContents, MsrUntouched
  <2>10. \A i \in 1..4 : i # fslot =>
           fs'[Selected][FormatOrder[i]] = fs[Selected][FormatOrder[i]]
    BY <2>6, <2>7, FormatOrderIs, WorldAssumption
    DEF FormatTypeOK, WorldTypeOK
  <2>11. \A d \in Disks \ {Selected} : fs'[d] = fs[d]
    BY <2>6 DEF FormatTypeOK, WorldTypeOK
  <2>12. format_result.completed_count = fslot - 1 /\ format_result.failed_role = Slot
    BY <2>1 DEF FormatProgress
  <2>13. PartialFormatLocated'
    <3> DEFINE carries == ~MayWipe \/ RangesMatch(table[Selected])
    <3>1. ASSUME carries
          PROVE  /\ \A i \in 1..(fslot - 1) :
                      fs'[Selected][FormatOrder[i]] = Wanted[FormatOrder[i]]
                 /\ \A i \in fslot..4 : FormatOrder[i] # Slot =>
                      fs'[Selected][FormatOrder[i]] = fbefore[Selected][FormatOrder[i]]
      <4>1. /\ \A i \in 1..(fslot - 1) :
                 fs[Selected][FormatOrder[i]] = Wanted[FormatOrder[i]]
            /\ \A i \in fslot..4 : FormatOrder[i] # Slot =>
                 fs[Selected][FormatOrder[i]] = fbefore[Selected][FormatOrder[i]]
        BY <2>1, <2>5, <2>7, <2>12, <3>1 DEF FormatContents, PartialFormatLocated, Undeceived
      <4> QED BY <2>7, <2>10, <4>1
    <3>2. \A d \in Disks \ {Selected} :
            fs'[d] = fbefore[d] \/ (MayWipe /\ fs'[d] = Blank)
      BY <2>1, <2>5, <2>11 DEF FormatContents, PartialFormatLocated, Undeceived
    <3> QED BY <2>1, <2>2, <2>7, <2>12, <3>1, <3>2 DEF PartialFormatLocated
  <2> QED BY <2>9, <2>13
<1>4. CASE VerifyFilesystem
  <2>1. /\ fpc = "VERIFY"
        /\ UNCHANGED <<host, table, fs, fbefore, disturbed>>
        /\ raced' = (raced \/ disturbed)
    BY <1>4 DEF VerifyFilesystem
  <2>2. /\ format_result.completed_count = fslot - 1
        /\ format_result.failed_role = Slot /\ format_result.code = "NOT_RUN"
    BY <2>1 DEF FormatProgress
  <2>3. CASE FinishFormat("VERIFY_FAILED")
    <3>1. /\ format_result'.completed_count = format_result.completed_count
          /\ format_result'.failed_role = format_result.failed_role
          /\ format_result'.code # "SUCCESS"
      BY <2>3 DEF FinishFormat, FormatTypeOK
    <3> QED BY <2>1, <3>1 DEF FormatContents, PartialFormatLocated, MsrUntouched,
                              SuccessKnown, Undeceived
  <2>4. CASE PartitionVerified /\ ~FinishFormat("VERIFY_FAILED")
    <3>1. MsrUntouched'
      BY <2>1 DEF FormatContents, MsrUntouched, Undeceived
    <3>2. SUFFICES ASSUME Undeceived'
                   PROVE  PartialFormatLocated' /\ SuccessKnown'
      BY <3>1 DEF FormatContents, PartialFormatLocated, SuccessKnown, Undeceived
    <3>3. Undeceived /\ ~disturbed
      BY <2>1, <3>2 DEF Undeceived
    <3>4. fpc' # "DONE" \/ format_result'.code = "SUCCESS"
      BY <2>4 DEF PartitionVerified, FormatTypeOK
    <3>5. fs[Selected][Slot] = Wanted[Slot] /\ RangesMatch(table[Selected])
      BY <1>4, <2>2, <2>4, <3>2, <3>4, VerificationReadsSlot
    <3>6. /\ \A i \in 1..(fslot - 1) :
               fs[Selected][FormatOrder[i]] = Wanted[FormatOrder[i]]
          /\ \A i \in fslot..4 : FormatOrder[i] # Slot =>
               fs[Selected][FormatOrder[i]] = fbefore[Selected][FormatOrder[i]]
          /\ \A d \in Disks \ {Selected} :
               fs[d] = fbefore[d] \/ (MayWipe /\ fs[d] = Blank)
      BY <2>1, <2>2, <3>3, <3>5 DEF FormatTypeOK, FormatContents, PartialFormatLocated, Undeceived
    <3>7. fslot \in 1..4 /\ Slot = FormatOrder[fslot]
      BY DEF FormatTypeOK, Slot
    <3>8. CASE Slot = "MSR"
      <4>1. fslot = 4
        BY <3>7, <3>8, FormatOrderIs
      <4>2. format_result'.completed_count = 3
        <5>1. format_result' = [format_result EXCEPT !.code        = "SUCCESS",
                                                     !.failed_role = "NONE"]
          BY <2>4, <3>8 DEF PartitionVerified
        <5>2. format_result'.completed_count = format_result.completed_count
          BY <5>1 DEF FormatTypeOK
        <5> QED BY <2>2, <4>1, <5>2
      <4>3. fs[Selected]["MSR"] = fbefore[Selected]["MSR"]
        BY <2>1, <3>3, <3>5 DEF FormatContents, MsrUntouched
      <4>4. \A i \in 4..4 : FormatOrder[i] = "MSR"
        BY FormatOrderIs
      <4>5. PartialFormatLocated'
        BY <2>1, <3>6, <4>1, <4>2, <4>3, <4>4 DEF PartialFormatLocated
      <4>6. /\ fs[Selected]["EFI"] = Wanted["EFI"]
            /\ fs[Selected]["WINDOWS"] = Wanted["WINDOWS"]
            /\ fs[Selected]["RECOVERY"] = Wanted["RECOVERY"]
            /\ fs[Selected]["MSR"] = Wanted["MSR"]
        BY <3>5, <3>6, <3>8, <4>1, FormatOrderIs
      <4>7. fs[Selected] \in [Slots -> Filesystems]
        BY WorldAssumption DEF FormatTypeOK, WorldTypeOK
      <4>8. fs[Selected] = Wanted
        BY <4>6, <4>7 DEF Slots, Wanted
      <4> QED BY <2>1, <3>5, <4>5, <4>8 DEF SuccessKnown, Installed
    <3>9. CASE Slot # "MSR"
      <4>1. /\ fpc' = "IDENTITY"
            /\ format_result'.completed_count = fslot
            /\ format_result'.failed_role = FormatOrder[fslot + 1]
        <5> DEFINE counted == [format_result EXCEPT !.completed_count = @ + 1]
        <5>1. fpc' = "IDENTITY"
              /\ format_result' = [counted EXCEPT !.failed_role = FormatOrder[fslot + 1]]
          BY <2>4, <3>9 DEF PartitionVerified
        <5>2. counted.completed_count = fslot
          BY <2>2, <3>7 DEF FormatTypeOK
        <5>3. counted \in [code: FormatCodes, safety: FormatSafetyCodes,
                           failed_role: Slots \union {"NONE"}, completed_count: Nat]
          BY <2>2, <3>7 DEF FormatTypeOK
        <5> HIDE DEF counted
        <5> QED BY <5>1, <5>2, <5>3
      <4>2. \A i \in 1..fslot :
              fs[Selected][FormatOrder[i]] = Wanted[FormatOrder[i]]
        BY <3>5, <3>6, <3>7
      <4>3. \A i \in (fslot + 1)..4 :
              fs[Selected][FormatOrder[i]] = fbefore[Selected][FormatOrder[i]]
        BY <3>6, <3>7, FormatOrderIs
      <4> QED BY <2>1, <3>6, <4>1, <4>2, <4>3 DEF PartialFormatLocated, SuccessKnown
    <3> QED BY <3>8, <3>9
  <2> QED BY <1>4, <2>3, <2>4 DEF VerifyFilesystem
<1>5. CASE DismissFormat
  BY <1>5 DEF DismissFormat, FormatContents, PartialFormatLocated, MsrUntouched,
              SuccessKnown
<1> QED BY <1>1, <1>2, <1>3, <1>4, <1>5 DEF FormatStep

\* An outside event keeps the contents, or wipes a disk and its layout.
LEMMA EnvironmentFormatContents ==
  ASSUME WorldTypeOK, FormatContents, Environment, UNCHANGED formatVars
  PROVE  FormatContents'
<1>1. disturbed' /\ host' = host /\ raced' = raced
  BY EnvironmentDisturbs
<1>2. UNCHANGED <<fpc, fbefore, format_result>>
  BY DEF formatVars
<1>3. SuccessKnown'
  BY <1>1 DEF SuccessKnown
<1>4. SUFFICES ASSUME Undeceived, fpc # "IDLE"
               PROVE  PartialFormatLocated' /\ MsrUntouched'
  BY <1>1, <1>2, <1>3
  DEF FormatContents, PartialFormatLocated, MsrUntouched, Undeceived
<1> DEFINE carries == ~MayWipe \/ RangesMatch(table[Selected])
<1>5. ASSUME carries'
      PROVE  carries /\ fs'[Selected] = fs[Selected]
  BY <1>5, EnvironmentContents, WorldAssumption DEF RangesMatch
<1>6. \A d \in Disks \ {Selected} :
        fs'[d] = fbefore[d] \/ (MayWipe /\ fs'[d] = Blank)
  BY <1>4, EnvironmentContents DEF FormatContents, PartialFormatLocated, Undeceived
<1>7. carries =>
        /\ \A i \in 1..format_result.completed_count :
             fs[Selected][FormatOrder[i]] = Wanted[FormatOrder[i]]
        /\ \A i \in (format_result.completed_count + 1)..4 :
             FormatOrder[i] # format_result.failed_role =>
               fs[Selected][FormatOrder[i]] = fbefore[Selected][FormatOrder[i]]
        /\ fs[Selected]["MSR"] = fbefore[Selected]["MSR"]
  BY <1>4 DEF FormatContents, PartialFormatLocated, MsrUntouched, Undeceived
<1> QED BY <1>2, <1>5, <1>6, <1>7 DEF PartialFormatLocated, MsrUntouched

-----------------------------------------------------------------------------
FormatInv ==
  /\ FormatTypeOK /\ FormatProgress
  /\ FormatCheckInv /\ ListingHonest /\ FormatContents

\* FormatInv is inductive: each step of the executor keeps it.
LEMMA FormatStepInv ==
  ASSUME FormatInv, BeginFormat \/ FormatStep \/ DismissFormat
  PROVE  FormatInv'
<1>1. FormatTypeOK' /\ FormatProgress' /\ FormatCheckInv' /\ FormatContents'
  BY FormatStepType, FormatStepKnown, FormatStepContents DEF FormatInv
<1>2. UNCHANGED <<attached, table, listed>>
  BY DEF BeginFormat, FormatStep, DismissFormat, FormatIdentity, FormatSystem,
         FormatScan, FormatMount, RunFormatter, VerifyFilesystem, worldVars
<1>3. ListingHonest'
  BY <1>2 DEF FormatInv, ListingHonest
<1> QED BY <1>1, <1>3 DEF FormatInv

\* So does an outside event.
LEMMA EnvironmentFormatInv ==
  ASSUME FormatInv, Environment, UNCHANGED formatVars
  PROVE  FormatInv'
<1>1. WorldTypeOK
  BY DEF FormatInv, FormatTypeOK
<1>2. FormatTypeOK' /\ FormatProgress'
  BY EnvironmentType DEF FormatInv, FormatTypeOK, formatVars, FormatProgress, Slot
<1> QED BY <1>1, <1>2, EnvironmentListing, EnvironmentFormatKnown,
           EnvironmentFormatContents DEF FormatInv

\* It holds of the idle executor in an initial world.
LEMMA FormatInitInv ==
  ASSUME WorldInit, FormatIdle
  PROVE  FormatInv
<1>1. FormatTypeOK /\ FormatProgress /\ ListingHonest
  BY WorldInitType, WorldInitListing, FormatIdleType
<1>2. FormatCheckInv /\ FormatContents
  BY DEF FormatIdle, FormatCheckInv, FormatIdentityKnown, FormatSystemKnown,
         FormatDeviceKnown, FormatTargetKnown, FormatContents,
         PartialFormatLocated, MsrUntouched, SuccessKnown
<1> QED BY <1>1, <1>2 DEF FormatInv

\* A step that changes no variable keeps it.
LEMMA FormatStutterInv ==
  ASSUME FormatInv, UNCHANGED <<worldVars, formatVars>>
  PROVE  FormatInv'
<1>1. FormatTypeOK' /\ FormatProgress'
  BY DEF FormatInv, worldVars, formatVars, FormatTypeOK, WorldTypeOK,
         FormatProgress, Slot
<1>2. FormatCheckInv' /\ ListingHonest'
  BY DEF FormatInv, worldVars, formatVars, FormatCheckInv, FormatIdentityKnown,
         FormatSystemKnown, FormatDeviceKnown, FormatTargetKnown,
         FormatHostAllows, FormatTargetSafe, IdentityMatches, SystemSafe,
         PlanListed, ListingHonest
<1>3. FormatContents'
  BY DEF FormatInv, worldVars, formatVars, FormatContents, PartialFormatLocated,
         MsrUntouched, SuccessKnown, Installed, Undeceived
<1> QED BY <1>1, <1>2, <1>3 DEF FormatInv

\* FormatInv is an invariant of the executor in its world.
THEOREM FormatChecksHold == FormatSpec => []FormatInv
<1>1. FormatInit => FormatInv
  BY FormatInitInv DEF FormatInit
<1>2. FormatInv /\ [FormatNext]_<<worldVars, formatVars>> => FormatInv'
  BY FormatStepInv, EnvironmentFormatInv, FormatStutterInv DEF FormatNext
<1> QED BY <1>1, <1>2, PTL DEF FormatSpec

\* Types of the executor and its world, for all disks, hosts and bounds.
THEOREM FormatTypeCorrect == FormatSpec => []FormatTypeOK
<1>1. FormatInv => FormatTypeOK
  BY DEF FormatInv
<1> QED BY <1>1, FormatChecksHold, PTL

\* What the result tells of a stopped execution is so, in an execution in
\* which no tool ran in a changed world.
THEOREM FormatPartialLocated == FormatSpec => []PartialFormatLocated
<1>1. FormatInv => PartialFormatLocated
  BY DEF FormatInv, FormatContents
<1> QED BY <1>1, FormatChecksHold, PTL

\* A formatter writes only the partition its last safety check was about.
LEMMA FormatterStepChecked ==
  ASSUME FormatInv, FormatNext, fpc = "MKFS", fpc' # "MKFS", fs' # fs
  PROVE  /\ host.env = "VM" /\ host.unlocked /\ host.sector512
         /\ \/ disturbed
            \/ /\ IdentityMatches
               /\ mounted = {}
               /\ ~(host.systemDisk /\ attached = Selected)
               /\ \/ host.hidesEntries
                  \/ /\ listed = fplan
                     /\ fs' = [fs EXCEPT ![attached][Slot] = fs'[attached][Slot]]
<1>1. RunFormatter
  BY DEF FormatNext, FormatStep, BeginFormat, DismissFormat, FormatIdentity,
         FormatSystem, FormatScan, FormatMount, VerifyFilesystem, formatVars
<1>2. FormatHostAllows /\ (disturbed \/ FormatTargetSafe)
  BY DEF FormatInv, FormatCheckInv, FormatTargetKnown
<1>3. ASSUME FormatTargetSafe, listed = fplan
      PROVE  fs' = [fs EXCEPT ![attached][Slot] = fs'[attached][Slot]]
  <2>1. attached \in Disks
    BY <1>3, WorldAssumption DEF FormatTargetSafe, IdentityMatches
  <2>2. Slot \in Slots
    BY FormatOrderIs DEF FormatInv, FormatTypeOK, Slot
  <2>3. PICK left : fs' = [fs EXCEPT ![attached][Slot] = left]
    BY <1>1, <1>3 DEF RunFormatter, Denoted
  <2>4. fs \in [Disks -> [Slots -> Filesystems]]
    BY DEF FormatInv, FormatTypeOK, WorldTypeOK
  <2>5. fs'[attached][Slot] = left
    BY <2>1, <2>2, <2>3, <2>4
  <2> QED BY <2>3, <2>5
<1> QED BY <1>2, <1>3 DEF FormatHostAllows, FormatTargetSafe, SystemSafe, PlanListed

\* The same as a property of every behaviour.
THEOREM FormatterWritesChecked == FormatSpec => FormatsOnlyCheckedPartition
<1> DEFINE checked ==
      /\ host.env = "VM" /\ host.unlocked /\ host.sector512
      /\ \/ disturbed
         \/ /\ IdentityMatches
            /\ mounted = {}
            /\ ~(host.systemDisk /\ attached = Selected)
            /\ \/ host.hidesEntries
               \/ /\ listed = fplan
                  /\ fs' = [fs EXCEPT ![attached][Slot] = fs'[attached][Slot]]
<1>1. FormatInv /\ [FormatNext]_<<worldVars, formatVars>> =>
        [fpc = "MKFS" /\ fpc' # "MKFS" /\ fs' # fs => checked]_<<worldVars, formatVars>>
  BY FormatterStepChecked
<1> QED BY <1>1, FormatChecksHold, PTL DEF FormatSpec, FormatsOnlyCheckedPartition

\* The step that reports SUCCESS leaves the selected disk installed.
LEMMA FormatSuccessStep ==
  ASSUME FormatInv, FormatNext,
         format_result'.code = "SUCCESS", format_result.code # "SUCCESS",
         ~raced', Imposters = {}, ~host.hidesEntries
  PROVE  Installed
<1>1. VerifyFilesystem
  <2>1. ~BeginFormat
    BY DEF BeginFormat, FormatNotRun
  <2>2. \A in : EvaluateFormat(in) => format_result'.code # "SUCCESS"
    BY DEF EvaluateFormat, FormatInv, FormatTypeOK
  <2>3. ~FormatIdentity /\ ~FormatSystem /\ ~FormatScan /\ ~FormatMount
    BY <2>2 DEF FormatIdentity, FormatSystem, FormatScan, FormatMount
  <2>4. ~RunFormatter
    BY DEF RunFormatter, FinishFormat, FormatInv, FormatTypeOK
  <2>5. ~DismissFormat /\ ~(Environment /\ UNCHANGED formatVars)
    BY DEF DismissFormat, formatVars
  <2> QED BY <2>1, <2>3, <2>4, <2>5 DEF FormatNext, FormatStep
<1>2. fpc = "VERIFY" /\ format_result.code = "NOT_RUN"
  BY <1>1 DEF VerifyFilesystem, FormatInv, FormatProgress
<1>3. UNCHANGED <<host, table, fs, disturbed>> /\ ~disturbed
  BY <1>1 DEF VerifyFilesystem
<1>4. fpc' = "DONE"
  BY <1>1, <1>2 DEF VerifyFilesystem, PartitionVerified, FinishFormat,
                    FormatInv, FormatTypeOK
<1>5. FormatInv'
  BY <1>1, FormatStepInv DEF FormatStep
<1> QED BY <1>3, <1>4, <1>5
        DEF FormatInv, FormatContents, SuccessKnown, Undeceived, Installed

\* SUCCESS means that the selected disk carries the layout with the wanted
\* filesystem in every partition and no signature in the MSR.
THEOREM FormatSuccessInstalled == FormatSpec => FormatSuccessMeansInstalled
<1>1. FormatInv /\ [FormatNext]_<<worldVars, formatVars>> =>
        [(/\ format_result'.code = "SUCCESS" /\ format_result.code # "SUCCESS"
          /\ ~raced' /\ Imposters = {} /\ ~host.hidesEntries)
         => /\ RangesMatch(table[Selected])
            /\ fs[Selected] = Wanted]_<<worldVars, formatVars>>
  BY FormatSuccessStep DEF Installed
<1> QED BY <1>1, FormatChecksHold, PTL DEF FormatSpec, FormatSuccessMeansInstalled
=============================================================================
