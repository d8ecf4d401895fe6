--------------------------- MODULE StorageInstall ----------------------------
(***************************************************************************)
(* What the Recommended installation promises of a storage run, without    *)
(* probes, tools or checks: the disk is taken through Stages in order, one *)
(* at a time, and the outcome that is reported tells how far it was taken. *)
(*   0 untouched          1 partition table written   2 layout verified    *)
(*   3, 4, 5 the EFI, Windows and Recovery filesystems verified            *)
(*   6 the reserved partition verified blank                               *)
(***************************************************************************)
EXTENDS Naturals

VARIABLES
  stage,    \* how far this run has taken the disk
  outcome   \* what was reported: IDLE before the first run

installVars == <<stage, outcome>>

Outcomes ==
  {"IDLE", "RUNNING", "BLOCKED", "PARTITION_FAILED", "FORMAT_PLAN_FAILED",
   "FORMAT_FAILED", "SUCCESS"}

\* The stages at which each outcome may be reported.
ReportedAt ==
  [BLOCKED            |-> {0},
   PARTITION_FAILED   |-> {0, 1},
   FORMAT_PLAN_FAILED |-> {2},
   FORMAT_FAILED      |-> 2..5,
   SUCCESS            |-> {6}]

Init == stage = 0 /\ outcome = "IDLE"

\* The user starts a run, the first one or another.
Start ==
  /\ outcome # "RUNNING"
  /\ stage' = 0
  /\ outcome' = "RUNNING"

Advance ==
  /\ outcome = "RUNNING"
  /\ stage < 6
  /\ stage' = stage + 1
  /\ UNCHANGED outcome

Report(code) ==
  /\ outcome = "RUNNING"
  /\ stage \in ReportedAt[code]
  /\ outcome' = code
  /\ UNCHANGED stage

Next == Start \/ Advance \/ \E code \in DOMAIN ReportedAt : Report(code)

Spec == Init /\ [][Next]_installVars

-----------------------------------------------------------------------------
TypeOK == stage \in 0..6 /\ outcome \in Outcomes

\* An outcome says how far the disk was taken: SUCCESS only after every
\* stage, BLOCKED only over an untouched disk (recommended.c:472-516).
OutcomeTellsStage ==
  outcome \in DOMAIN ReportedAt => stage \in ReportedAt[outcome]
=============================================================================
