----------------------------- MODULE WizardProofs -------------------------------
(***************************************************************************)
(* Whatever way the user takes through the screens, the results they show  *)
(* are those of the plan in force and are on the disk, and no disk changes *)
(* that was not confirmed and handed over.                                 *)
(***************************************************************************)
EXTENDS Wizard, TLAPS

-----------------------------------------------------------------------------
(***************************************************************************)
(* The state machine of state.c, apart from what the screens do.           *)
(***************************************************************************)
Events == {"CONTINUE", "BACK", "QUIT", "CANCEL"}

\* Screens shown before the graphical frontend has handed over.
EarlyScreens ==
  {"WELCOME", "LICENSE_AGREEMENT", "SETUP_MODE", "KEYBOARD", "INSTALL_MODE",
   "DISK", "PARTITION", "FORMAT", "GUI_TRANSITION", "EXIT"}

\* Screens of the Advanced mode that need a disk.
DiskScreens == {"PARTITION", "FORMAT"}

\* A screen of a setup mode: the common ones and its own.
Shows(m, s) ==
  /\ s \in States
  /\ s \in AdvancedScreens => m = "ADVANCED"
  /\ s \in RecommendedScreens => m = "RECOMMENDED"

\* Where Enter leads from a screen, and what is behind the screens it leads to.
LEMMA ForwardStep ==
  ASSUME NEW m \in SetupModes, NEW s, Shows(m, s), s # "EXIT",
         NEW t, t = Forward(m = "ADVANCED")[s]
  PROVE  /\ Shows(m, t)
         /\ m = "ADVANCED" /\ t \in PlannedScreens =>
              s \in PlannedScreens \/ s = "FORMAT"
         /\ t \in DiskScreens => s \in DiskScreens \/ s = "DISK"
         /\ t \notin EarlyScreens => s \notin EarlyScreens \/ s = "GUI_TRANSITION"
<1>1. CASE m = "ADVANCED"
  <2>1. s \in AdvancedScreens \cup CommonScreens
    BY <1>1 DEF Shows, States
  <2> QED BY <1>1, <2>1 DEF Forward, Shows, States, AdvancedScreens, RecommendedScreens,
             CommonScreens, PlannedScreens, DiskScreens, EarlyScreens
<1>2. CASE m = "RECOMMENDED"
  <2>1. s \in RecommendedScreens \cup CommonScreens
    BY <1>2 DEF Shows, States
  <2> QED BY <1>2, <2>1 DEF Forward, Shows, States, AdvancedScreens, RecommendedScreens,
             CommonScreens, PlannedScreens, DiskScreens, EarlyScreens
<1> QED BY <1>1, <1>2 DEF SetupModes

\* Where Back leads.
LEMMA BackwardStep ==
  ASSUME NEW m \in SetupModes, NEW s, Shows(m, s), s \notin {"WELCOME", "SETUP_MODE", "EXIT"},
         NEW t, t = Backward(m = "ADVANCED")[s]
  PROVE  /\ Shows(m, t)
         /\ m = "ADVANCED" /\ t \in PlannedScreens => s \in PlannedScreens
         /\ t \in DiskScreens => s \in DiskScreens \/ (m = "ADVANCED" /\ s \in PlannedScreens)
         /\ t \notin EarlyScreens => s \notin EarlyScreens
<1>1. CASE m = "ADVANCED"
  <2>1. s \in AdvancedScreens \cup CommonScreens
    BY <1>1 DEF Shows, States
  <2> QED BY <1>1, <2>1 DEF Backward, Shows, States, AdvancedScreens, RecommendedScreens,
             CommonScreens, PlannedScreens, DiskScreens, EarlyScreens
<1>2. CASE m = "RECOMMENDED"
  <2>1. s \in RecommendedScreens \cup CommonScreens
    BY <1>2 DEF Shows, States
  <2> QED BY <1>2, <2>1 DEF Backward, Shows, States, AdvancedScreens, RecommendedScreens,
             CommonScreens, PlannedScreens, DiskScreens, EarlyScreens
<1> QED BY <1>1, <1>2 DEF SetupModes

-----------------------------------------------------------------------------
(***************************************************************************)
(* The inductive invariant.  Of the screens: which setup mode shows them,  *)
(* and what is behind those past the format screen.  Of the configuration: *)
(* the plan is of the selected disk, plans and results hang together.      *)
(***************************************************************************)
DiskChosen == screen \in DiskScreens => disk # "NONE"

HandedOver == screen \notin EarlyScreens => handed

FlowInv == Shows(setup, screen) /\ ReadyPastFormat /\ DiskChosen /\ HandedOver

PlanOfDisk == plan # NoPlan => plan.disk = disk

\* There is no result without an apply plan, no format plan before its apply
\* plan succeeded, and a recommended plan is the apply plan.
PlansBehind ==
  /\ applyResult.code # "NOT_RUN" \/ formatResult.code # "NOT_RUN" => applyPlan # NoApply
  /\ formatPlan # NoApply => formatPlan = applyPlan /\ applyResult.code = "SUCCESS"
  /\ recommendedPlan # NoApply => recommendedPlan = applyPlan

NoRecommendation ==
  setup = "ADVANCED" => recommendedPlan = NoApply /\ recommendedResult = "NOT_RUN"

DataInv ==
  /\ TypeOK /\ ResultsOfPlanInForce /\ SuccessOnDisk
  /\ PlanOfDisk /\ PlansBehind /\ NoRecommendation

WizardInv == FlowInv /\ DataInv

\* A turn of a screen that is answered with `event`.
LEMMA LeaveInv ==
  ASSUME FlowInv, TypeOK, screen # "EXIT", setup' = setup,
         NEW event \in Events, Leave(event),
         event = "BACK" => screen \notin {"WELCOME", "SETUP_MODE"},
         setup = "ADVANCED" /\ screen \in PlannedScreens => PlanIsReady',
         screen = "FORMAT" /\ event = "CONTINUE" => PlanIsReady',
         screen \in DiskScreens \/ (screen = "DISK" /\ event = "CONTINUE") => disk' # "NONE",
         handed' \in BOOLEAN, handed => handed',
         screen = "GUI_TRANSITION" /\ event = "CONTINUE" => handed'
  PROVE  FlowInv'
<1> DEFINE s == screen
           m == setup
           t == screen'
<1>1. m \in SetupModes /\ Shows(m, s) /\ m' = m
  BY DEF FlowInv, TypeOK
<1>2. /\ m = "ADVANCED" /\ s \in PlannedScreens => PlanIsReady'
      /\ s \in DiskScreens => disk' # "NONE"
      /\ s \notin EarlyScreens => handed'
  BY DEF FlowInv, HandedOver
<1>3. PlanIsReady' => disk' # "NONE"
  BY DEF PlanIsReady
<1>4. CASE t = s \/ t = "EXIT"
  BY <1>1, <1>2, <1>4 DEF FlowInv, Shows, States, CommonScreens, AdvancedScreens, RecommendedScreens,
     ReadyPastFormat, PlannedScreens, DiskChosen, DiskScreens, HandedOver, EarlyScreens
<1>5. CASE event = "CONTINUE" /\ t = Forward(m = "ADVANCED")[s]
  <2>1. /\ Shows(m, t)
        /\ m = "ADVANCED" /\ t \in PlannedScreens => s \in PlannedScreens \/ s = "FORMAT"
        /\ t \in DiskScreens => s \in DiskScreens \/ s = "DISK"
        /\ t \notin EarlyScreens => s \notin EarlyScreens \/ s = "GUI_TRANSITION"
    BY <1>1, <1>5, ForwardStep
  <2> QED BY <1>1, <1>2, <1>5, <2>1 DEF FlowInv, ReadyPastFormat, DiskChosen, HandedOver
<1>6. CASE event = "BACK" /\ t = Backward(m = "ADVANCED")[s]
  <2>1. /\ Shows(m, t)
        /\ m = "ADVANCED" /\ t \in PlannedScreens => s \in PlannedScreens
        /\ t \in DiskScreens => s \in DiskScreens \/ (m = "ADVANCED" /\ s \in PlannedScreens)
        /\ t \notin EarlyScreens => s \notin EarlyScreens
    BY <1>1, <1>6, BackwardStep
  <2> QED BY <1>1, <1>2, <1>3, <1>6, <2>1 DEF FlowInv, ReadyPastFormat, DiskChosen, HandedOver
<1> QED BY <1>4, <1>5, <1>6 DEF Leave, NextState, Events

\* A turn that stores nothing.
LEMMA DataKept ==
  ASSUME DataInv, UNCHANGED <<config, content>>, screen' \in States, handed' \in BOOLEAN
  PROVE  DataInv'
BY DEF DataInv, TypeOK, ResultsOfPlanInForce, SuccessOnDisk, PlanOfDisk, PlansBehind,
   NoRecommendation, BuiltApplyPlan, config, planning, applying, formatting, recommended

\* The names of results and plans that stand for none.
LEMMA NonesTyped ==
  /\ NoApply \in ApplyPlans /\ NotRun \in Results /\ NotRun.code = "NOT_RUN"
  /\ \A p \in ApplyPlans : p # NoApply => p \in [disk : Disks, layout : Layouts, mode : InstallModes]
  /\ \A p \in [disk : Disks, layout : Layouts, mode : InstallModes] : p # NoApply
<1>1. NoApply \in ApplyPlans
  BY DEF ApplyPlans
<1>2. NotRun \in Results /\ NotRun.code = "NOT_RUN"
  BY <1>1 DEF NotRun, Results, Codes
<1>3. \A p \in [disk : Disks, layout : Layouts, mode : InstallModes] : p # NoApply
  BY NamesAssumption DEF NoApply
<1> QED BY <1>1, <1>2, <1>3 DEF ApplyPlans

\* Another setup mode, install mode or disk starts the plan anew.
LEMMA ResetInv ==
  ASSUME DataInv, ResetPartitionPlan, setup' \in SetupModes, mode' \in InstallModes,
         disk' \in Disks \cup {"NONE"}, UNCHANGED content,
         screen' \in States, handed' \in BOOLEAN
  PROVE  DataInv'
<1>1. /\ plan' = NoPlan /\ target' = FALSE /\ ready' = FALSE
      /\ recommendedPlan' = NoApply /\ recommendedResult' = "NOT_RUN"
      /\ applyPlan' = NoApply /\ applyResult' = NotRun
      /\ formatPlan' = NoApply /\ formatResult' = NotRun
  BY DEF ResetPartitionPlan, ClearApplyState, ClearResults, ClearFormatApplyState
<1>2. TypeOK'
  BY <1>1, NonesTyped DEF DataInv, TypeOK, RecommendedCodes
<1> QED BY <1>1, <1>2, NonesTyped DEF DataInv, ResultsOfPlanInForce, SuccessOnDisk, PlanOfDisk,
           PlansBehind, NoRecommendation

-----------------------------------------------------------------------------
(***************************************************************************)
(* What the executors promise.                                             *)
(***************************************************************************)

\* Applying leaves a table, the planned one when it succeeds.
LEMMA AppliesAsPromised ==
  ASSUME NEW p \in [disk : Disks, layout : Layouts, mode : InstallModes],
         NEW c \in Contents, NEW o \in ApplyOutcomes(p, c)
  PROVE  /\ o.code \in Codes \ {"NOT_RUN"} /\ o.left \in Contents
         /\ o.code = "SUCCESS" => o.left.table = p.layout
BY DEF ApplyOutcomes, Outcome, Contents, Codes

\* Formatting leaves the table, and all filesystems when it succeeds.
LEMMA FormatsAsPromised ==
  ASSUME NEW p \in [disk : Disks, layout : Layouts, mode : InstallModes],
         NEW c \in Contents, NEW o \in FormatOutcomes(p, c)
  PROVE  /\ o.code \in Codes \ {"NOT_RUN"} /\ o.left \in Contents
         /\ o.left.table = c.table
         /\ o.code = "SUCCESS" => o.left = [table |-> p.layout, filesystems |-> "ALL"]
BY DEF FormatOutcomes, Outcome, Contents, Codes

\* The installation does both, one after the other.
LEMMA InstallsAsPromised ==
  ASSUME NEW p \in [disk : Disks, layout : Layouts, mode : InstallModes],
         NEW c \in Contents, NEW r \in RecommendedOutcomes(p, c)
  PROVE  /\ r.code \in RecommendedCodes \ {"NOT_RUN"}
         /\ r.apply \in Codes /\ r.format \in Codes /\ r.left \in Contents
         /\ r.apply = "SUCCESS" => r.left.table = p.layout
         /\ r.format = "SUCCESS" => r.left = [table |-> p.layout, filesystems |-> "ALL"]
         /\ r.code \in {"FORMAT_FAILED", "SUCCESS"} => r.apply = "SUCCESS"
         /\ r.code = "SUCCESS" => r.format = "SUCCESS"
<1> DEFINE applied == {o \in ApplyOutcomes(p, c) : o.code = "SUCCESS"}
<1>1. CASE r = Run("BLOCKED", "NOT_RUN", "NOT_RUN", c)
  BY <1>1 DEF Run, RecommendedCodes, Codes
<1>2. CASE \E o \in ApplyOutcomes(p, c) :
             o.code # "SUCCESS" /\ r = Run("PARTITION_FAILED", o.code, "NOT_RUN", o.left)
  <2>1. PICK o \in ApplyOutcomes(p, c) :
          o.code # "SUCCESS" /\ r = Run("PARTITION_FAILED", o.code, "NOT_RUN", o.left)
    BY <1>2
  <2>2. o.code \in Codes /\ o.left \in Contents
    BY AppliesAsPromised
  <2> QED BY <2>1, <2>2 DEF Run, RecommendedCodes, Codes
<1>3. CASE \E o \in ApplyOutcomes(p, c) :
             o.code = "SUCCESS" /\ r = Run("FORMAT_PLAN_FAILED", o.code, "NOT_RUN", o.left)
  <2>1. PICK o \in ApplyOutcomes(p, c) :
          o.code = "SUCCESS" /\ r = Run("FORMAT_PLAN_FAILED", o.code, "NOT_RUN", o.left)
    BY <1>3
  <2>2. o.left \in Contents /\ o.left.table = p.layout
    BY <2>1, AppliesAsPromised
  <2> QED BY <2>1, <2>2 DEF Run, RecommendedCodes, Codes
<1>4. CASE \E o \in ApplyOutcomes(p, c) : \E f \in FormatOutcomes(p, o.left) :
             /\ o.code = "SUCCESS"
             /\ r = Run(IF f.code = "SUCCESS" THEN "SUCCESS" ELSE "FORMAT_FAILED",
                        o.code, f.code, f.left)
  <2>1. PICK o \in ApplyOutcomes(p, c) : \E f \in FormatOutcomes(p, o.left) :
             /\ o.code = "SUCCESS"
             /\ r = Run(IF f.code = "SUCCESS" THEN "SUCCESS" ELSE "FORMAT_FAILED",
                        o.code, f.code, f.left)
    BY <1>4
  <2>2. PICK f \in FormatOutcomes(p, o.left) :
             r = Run(IF f.code = "SUCCESS" THEN "SUCCESS" ELSE "FORMAT_FAILED",
                     o.code, f.code, f.left)
    BY <2>1
  <2>3. o.code = "SUCCESS" /\ o.left \in Contents /\ o.left.table = p.layout
    BY <2>1, AppliesAsPromised
  <2>4. /\ f.code \in Codes /\ f.left \in Contents /\ f.left.table = p.layout
        /\ f.code = "SUCCESS" => f.left = [table |-> p.layout, filesystems |-> "ALL"]
    BY <2>3, FormatsAsPromised
  <2> QED BY <2>2, <2>3, <2>4 DEF Run, RecommendedCodes, Codes
<1> QED BY <1>1, <1>2, <1>3, <1>4 DEF RecommendedOutcomes

-----------------------------------------------------------------------------
(***************************************************************************)
(* The turns of the screens.                                               *)
(***************************************************************************)

\* Turns that store nothing.
LEMMA PlainInv ==
  ASSUME WizardInv, UNCHANGED handed,
         Welcome \/ PlainScreen \/ Declined \/ ResultScreen \/ InstallSummary
  PROVE  WizardInv'
<1>1. UNCHANGED <<config, content>>
  BY DEF Welcome, PlainScreen, Declined, ResultScreen, InstallSummary
<1>2. /\ screen \notin {"EXIT", "SETUP_MODE", "GUI_TRANSITION", "PARTITION"}
      /\ \E event \in Events :
           /\ Leave(event) /\ (event = "BACK" => screen # "WELCOME")
           /\ event = "CONTINUE" => screen \notin {"FORMAT", "DISK"}
  BY DEF Welcome, PlainScreen, Declined, ResultScreen, InstallSummary, Events
<1>3. PICK event \in Events :
        /\ Leave(event) /\ (event = "BACK" => screen # "WELCOME")
        /\ event = "CONTINUE" => screen \notin {"FORMAT", "DISK"}
  BY <1>2
<1>4. setup' = setup /\ PlanIsReady' = PlanIsReady /\ disk' = disk
  BY <1>1 DEF config, planning, PlanIsReady
<1>5. FlowInv /\ TypeOK /\ DataInv
  BY DEF WizardInv, DataInv
<1>6. /\ setup = "ADVANCED" /\ screen \in PlannedScreens => PlanIsReady
      /\ screen \in DiskScreens => disk # "NONE"
  BY <1>5 DEF FlowInv, ReadyPastFormat, DiskChosen
<1>7. FlowInv'
  <2>1. /\ setup = "ADVANCED" /\ screen \in PlannedScreens => PlanIsReady'
        /\ screen \in DiskScreens \/ (screen = "DISK" /\ event = "CONTINUE") => disk' # "NONE"
    BY <1>3, <1>4, <1>6
  <2>2. /\ event = "BACK" => screen \notin {"WELCOME", "SETUP_MODE"}
        /\ ~(screen = "FORMAT" /\ event = "CONTINUE")
        /\ screen # "GUI_TRANSITION" /\ screen # "EXIT"
    BY <1>2, <1>3
  <2>3. Leave(event) /\ handed' = handed /\ handed \in BOOLEAN
    BY <1>3, <1>5 DEF TypeOK
  <2> QED BY <1>4, <1>5, <2>1, <2>2, <2>3, LeaveInv
<1>8. screen' \in States /\ handed' \in BOOLEAN
  BY <1>5, <1>7 DEF FlowInv, Shows, TypeOK
<1> QED BY <1>1, <1>5, <1>7, <1>8, DataKept DEF WizardInv

\* The setup mode: another one starts the configuration anew.
LEMMA SetupModeInv ==
  ASSUME WizardInv, UNCHANGED handed, SetupMode
  PROVE  WizardInv'
<1>1. FlowInv /\ TypeOK /\ DataInv /\ screen = "SETUP_MODE" /\ UNCHANGED content
  BY DEF WizardInv, DataInv, SetupMode
<1>2. CASE UNCHANGED config /\ \E event \in {"CONTINUE", "QUIT"} : Leave(event)
  <2>1. PICK event \in {"CONTINUE", "QUIT"} : Leave(event)
    BY <1>2
  <2>2. setup' = setup /\ event \in Events
    BY <1>2 DEF config, Events
  <2>3. FlowInv'
    BY <1>1, <2>1, <2>2, LeaveInv DEF PlannedScreens, DiskScreens, TypeOK
  <2>4. screen' \in States /\ handed' \in BOOLEAN
    BY <1>1, <2>3 DEF FlowInv, Shows, TypeOK
  <2> QED BY <1>1, <1>2, <2>3, <2>4, DataKept DEF WizardInv
<1>3. CASE /\ setup' \in SetupModes \ {setup} /\ mode' = "UEFI" /\ disk' = "NONE"
           /\ ResetPartitionPlan /\ screen' = NextState(screen, "CONTINUE", setup')
  <2>1. screen' = (IF setup' = "ADVANCED" THEN "KEYBOARD" ELSE "GUI_TRANSITION")
    BY <1>1, <1>3 DEF NextState, Forward
  <2>2. FlowInv'
    BY <1>3, <2>1 DEF FlowInv, Shows, States, AdvancedScreens, RecommendedScreens,
       CommonScreens, SetupModes, ReadyPastFormat, PlannedScreens, DiskChosen, DiskScreens,
       HandedOver, EarlyScreens
  <2>3. screen' \in States /\ handed' \in BOOLEAN
    BY <1>1, <2>2 DEF FlowInv, Shows, TypeOK
  <2>4. DataInv'
    BY <1>1, <1>3, <2>3, ResetInv DEF InstallModes
  <2> QED BY <2>2, <2>4 DEF WizardInv
<1> QED BY <1>2, <1>3 DEF SetupMode

\* The install mode and the disk: another one starts the plan anew.
LEMMA ChoiceInv ==
  ASSUME WizardInv, UNCHANGED handed, InstallMode \/ Disk
  PROVE  WizardInv'
<1>1. /\ FlowInv /\ TypeOK /\ DataInv /\ screen \in {"INSTALL_MODE", "DISK"}
      /\ UNCHANGED content /\ setup' = setup /\ Leave("CONTINUE")
  BY DEF WizardInv, DataInv, InstallMode, Disk, config
<1>2. screen = "DISK" => disk' # "NONE"
  BY NamesAssumption DEF Disk, InstallMode
<1>3. FlowInv'
  <2>1. screen \notin PlannedScreens /\ screen \notin DiskScreens /\ "CONTINUE" \in Events
    BY <1>1 DEF PlannedScreens, DiskScreens, Events
  <2> QED BY <1>1, <1>2, <2>1, LeaveInv DEF TypeOK
<1>4. screen' \in States /\ handed' \in BOOLEAN
  BY <1>1, <1>3 DEF FlowInv, Shows, TypeOK
<1>5. CASE UNCHANGED config
  BY <1>1, <1>3, <1>4, <1>5, DataKept DEF WizardInv
<1>6. CASE ResetPartitionPlan /\ mode' \in InstallModes /\ disk' \in Disks \cup {"NONE"}
  <2>1. setup' \in SetupModes
    BY <1>1 DEF TypeOK
  <2>2. DataInv'
    BY <1>1, <1>4, <1>6, <2>1, ResetInv
  <2> QED BY <1>3, <2>2 DEF WizardInv
<1> QED BY <1>1, <1>5, <1>6 DEF InstallMode, Disk, config, planning, TypeOK

\* Editing the partitions forgets what was applied.
LEMMA PartitionInv ==
  ASSUME WizardInv, UNCHANGED handed, Partition
  PROVE  WizardInv'
<1>1. /\ FlowInv /\ TypeOK /\ DataInv /\ screen = "PARTITION" /\ setup = "ADVANCED"
      /\ disk # "NONE" /\ disk \in Disks
      /\ UNCHANGED <<setup, mode, disk, recommendedPlan, content>>
  BY DEF WizardInv, DataInv, Partition, FlowInv, Shows, AdvancedScreens, DiskChosen, DiskScreens, TypeOK
<1>2. /\ applyPlan' = NoApply /\ applyResult' = NotRun /\ recommendedResult' = "NOT_RUN"
      /\ formatPlan' = NoApply /\ formatResult' = NotRun
  BY DEF Partition, ClearApplyState, ClearResults, ClearFormatApplyState
<1>3. PICK p \in Scanned :
       /\ plan' \in IF p = NoPlan THEN {NoPlan} ELSE Edited(p)
       /\ \/ p # NoPlan /\ target' = TRUE /\ ready' = FALSE /\ Leave("CONTINUE")
          \/ /\ target' \in {FALSE, target}
             /\ ready' \in {FALSE, ready /\ target'}
             /\ \E event \in {"BACK", "QUIT"} : Leave(event)
  BY DEF Partition
<1> DEFINE Plans == [disk: Disks, layout: Layouts \union {"NONE"}, originals: {0, 1}]
<1>4. p \in Plans \cup {NoPlan} /\ (p # NoPlan => p.disk = disk)
  BY <1>1 DEF Scanned, TypeOK, DataInv, PlanOfDisk
<1>5. plan' \in Plans \cup {NoPlan} /\ (plan' # NoPlan => plan'.disk = disk')
  BY <1>1, <1>3, <1>4 DEF Edited
<1>6. target' \in BOOLEAN /\ ready' \in BOOLEAN
  BY <1>1, <1>3 DEF TypeOK
<1>7. PICK event \in {"CONTINUE", "BACK", "QUIT"} : Leave(event)
  BY <1>3
<1>8. FlowInv'
  <2>1. event \in Events /\ screen \notin PlannedScreens
    BY <1>1 DEF Events, PlannedScreens
  <2> QED BY <1>1, <1>7, <2>1, LeaveInv DEF TypeOK
<1>9. screen' \in States /\ handed' \in BOOLEAN
  BY <1>1, <1>8 DEF FlowInv, Shows, TypeOK
<1>10. TypeOK'
  BY <1>1, <1>2, <1>5, <1>6, <1>9, NonesTyped DEF TypeOK, RecommendedCodes
<1>11. DataInv'
  BY <1>1, <1>2, <1>5, <1>10, NonesTyped DEF DataInv, ResultsOfPlanInForce, SuccessOnDisk,
     PlanOfDisk, PlansBehind, NoRecommendation
<1> QED BY <1>8, <1>11 DEF WizardInv

\* A format plan is complete when the screen is left with Enter.
LEMMA FormatInv ==
  ASSUME WizardInv, UNCHANGED handed, Format
  PROVE  WizardInv'
<1>1. /\ FlowInv /\ TypeOK /\ DataInv /\ screen = "FORMAT" /\ disk # "NONE"
      /\ UNCHANGED <<setup, mode, content>>
  BY DEF WizardInv, DataInv, Format, FlowInv, DiskChosen, DiskScreens
<1>2. screen \notin PlannedScreens /\ "CONTINUE" \in Events /\ "CANCEL" \in Events
  BY <1>1 DEF PlannedScreens, Events
<1>3. CASE plan # NoPlan /\ target
  <2>1. /\ ready' = TRUE /\ UNCHANGED <<disk, plan, target, recommendedPlan>>
        /\ applyPlan' = NoApply /\ applyResult' = NotRun /\ recommendedResult' = "NOT_RUN"
        /\ formatPlan' = NoApply /\ formatResult' = NotRun /\ Leave("CONTINUE")
    BY <1>3 DEF Format, ClearApplyState, ClearResults, ClearFormatApplyState
  <2>2. PlanIsReady'
    BY <1>1, <1>3, <2>1 DEF PlanIsReady
  <2>3. FlowInv'
    BY <1>1, <1>2, <2>1, <2>2, LeaveInv DEF TypeOK
  <2>4. screen' \in States /\ handed' \in BOOLEAN
    BY <1>1, <2>3 DEF FlowInv, Shows, TypeOK
  <2>5. TypeOK'
    BY <1>1, <2>1, <2>4, NonesTyped DEF TypeOK, RecommendedCodes
  <2>6. recommendedPlan = NoApply
    BY <1>1 DEF FlowInv, Shows, AdvancedScreens, DataInv, NoRecommendation
  <2>7. DataInv'
    BY <1>1, <2>1, <2>5, <2>6, NonesTyped DEF DataInv, ResultsOfPlanInForce, SuccessOnDisk,
       PlanOfDisk, PlansBehind, NoRecommendation
  <2> QED BY <2>3, <2>7 DEF WizardInv
<1>4. CASE ~(plan # NoPlan /\ target)
  <2>1. UNCHANGED <<config, content>> /\ Leave("CANCEL")
    BY <1>1, <1>4 DEF Format, config
  <2>2. setup' = setup /\ disk' = disk
    BY <2>1 DEF config, planning
  <2>3. FlowInv'
    BY <1>1, <1>2, <2>1, <2>2, LeaveInv DEF TypeOK
  <2>4. screen' \in States /\ handed' \in BOOLEAN
    BY <1>1, <2>3 DEF FlowInv, Shows, TypeOK
  <2> QED BY <1>1, <2>1, <2>3, <2>4, DataKept DEF WizardInv
<1> QED BY <1>3, <1>4

\* The apply plan is that of the partition plan; the graphical part may end the text
\* part's turn for good.
LEMMA GuiTransitionInv ==
  ASSUME WizardInv, GuiTransition
  PROVE  WizardInv'
<1>1. /\ FlowInv /\ TypeOK /\ DataInv /\ screen = "GUI_TRANSITION"
      /\ UNCHANGED <<setup, mode, planning, recommendedPlan, content>>
      /\ disk' = disk /\ PlanIsReady' = PlanIsReady
  BY DEF WizardInv, DataInv, GuiTransition, planning, PlanIsReady
<1>2. /\ setup = "ADVANCED" => PlanIsReady
      /\ screen \in PlannedScreens /\ screen \notin DiskScreens
  BY <1>1 DEF FlowInv, ReadyPastFormat, PlannedScreens, DiskScreens
<1>3. PICK result \in GuiResults :
        /\ \E event \in GuiEvent(result) : Leave(event)
        /\ handed' = (handed \/ result = "FINISHED")
  BY <1>2 DEF GuiTransition
<1>4. PICK event \in GuiEvent(result) : Leave(event)
  BY <1>3
<1>5. /\ event \in Events /\ handed' \in BOOLEAN /\ (handed => handed')
      /\ event = "CONTINUE" => handed'
  <2>1. event \in Events /\ (event = "CONTINUE" => result = "FINISHED")
    BY <1>4, GuiAssumption DEF GuiEvent, Events
  <2> DEFINE over == handed \/ result = "FINISHED"
  <2>2. over \in BOOLEAN /\ (handed => over) /\ (event = "CONTINUE" => over) /\ handed' = over
    BY <1>3, <2>1
  <2> HIDE DEF over
  <2> QED BY <2>1, <2>2
<1>6. FlowInv'
  BY <1>1, <1>2, <1>4, <1>5, LeaveInv
<1>7. screen' \in States
  BY <1>6 DEF FlowInv, Shows
<1>8. CASE setup = "ADVANCED"
  <2>1. /\ applyPlan' = BuiltApplyPlan /\ applyResult' = NotRun /\ recommendedResult' = "NOT_RUN"
        /\ formatPlan' = NoApply /\ formatResult' = NotRun
    BY <1>2, <1>8 DEF GuiTransition, ClearResults, ClearFormatApplyState
  <2>2. BuiltApplyPlan' = BuiltApplyPlan /\ BuiltApplyPlan \in ApplyPlans
        /\ recommendedPlan = NoApply
    <3>1. plan # NoPlan /\ disk \in Disks /\ mode \in InstallModes
      BY <1>1, <1>2, <1>8 DEF TypeOK, PlanIsReady
    <3>2. plan \in [disk: Disks, layout: Layouts \union {"NONE"}, originals: {0, 1}]
      BY <1>1, <3>1 DEF TypeOK
    <3>3. BuiltApplyPlan \in ApplyPlans
      BY <3>1, <3>2 DEF BuiltApplyPlan, ApplyPlans
    <3>4. BuiltApplyPlan' = BuiltApplyPlan
      BY <1>1 DEF BuiltApplyPlan, planning
    <3> QED BY <1>1, <1>8, <3>3, <3>4 DEF DataInv, NoRecommendation
  <2>3. TypeOK'
    <3>1. UNCHANGED <<setup, mode, disk, plan, target, ready, recommendedPlan, content>>
      BY <1>1 DEF planning
    <3>2. "NOT_RUN" \in RecommendedCodes /\ NoApply \in ApplyPlans /\ NotRun \in Results
      BY NonesTyped DEF RecommendedCodes
    <3> QED BY <1>1, <1>5, <1>7, <2>1, <2>2, <3>1, <3>2 DEF TypeOK
  <2>4. DataInv'
    BY <1>1, <2>1, <2>2, <2>3, NonesTyped DEF DataInv, ResultsOfPlanInForce, SuccessOnDisk,
       PlanOfDisk, PlansBehind, NoRecommendation, planning
  <2> QED BY <1>6, <2>4 DEF WizardInv
<1>9. CASE setup # "ADVANCED"
  <2>1. UNCHANGED <<config, content>>
    <3>1. UNCHANGED <<applying, formatting, recommendedResult>>
      BY <1>9 DEF GuiTransition
    <3> QED BY <1>1, <3>1 DEF config, recommended
  <2> QED BY <1>1, <1>5, <1>6, <1>7, <2>1, DataKept DEF WizardInv
<1> QED BY <1>8, <1>9

\* What a screen past the format screen of the Advanced mode counts on.
LEMMA PlannedFacts ==
  ASSUME WizardInv,
         screen \in {"APPLY_PREVIEW", "APPLY_CONFIRMATION", "FORMAT_APPLY_PREVIEW",
                     "FORMAT_APPLY_CONFIRMATION"}
  PROVE  /\ FlowInv /\ TypeOK /\ DataInv /\ setup = "ADVANCED" /\ PlanIsReady
         /\ screen \in PlannedScreens /\ screen \notin DiskScreens
         /\ screen \notin {"EXIT", "WELCOME", "SETUP_MODE", "FORMAT", "DISK", "GUI_TRANSITION"}
         /\ recommendedPlan = NoApply /\ recommendedResult = "NOT_RUN"
         /\ plan # NoPlan /\ plan.disk = disk /\ disk \in Disks
         /\ BuiltApplyPlan \in ApplyPlans
         /\ BuiltApplyPlan # NoApply => BuiltApplyPlan.disk = disk
<1>1. FlowInv /\ TypeOK /\ DataInv
  BY DEF WizardInv, DataInv
<1>2. setup = "ADVANCED" /\ screen \in PlannedScreens /\ screen \notin DiskScreens
  BY <1>1 DEF FlowInv, Shows, AdvancedScreens, PlannedScreens, DiskScreens
<1>3. PlanIsReady /\ recommendedPlan = NoApply /\ recommendedResult = "NOT_RUN"
  BY <1>1, <1>2 DEF FlowInv, ReadyPastFormat, DataInv, NoRecommendation
<1>4. plan # NoPlan /\ plan.disk = disk /\ disk \in Disks
  BY <1>1, <1>3 DEF PlanIsReady, DataInv, PlanOfDisk, TypeOK
<1>5. BuiltApplyPlan \in ApplyPlans /\ (BuiltApplyPlan # NoApply => BuiltApplyPlan.disk = disk)
  BY <1>1, <1>4, NonesTyped DEF BuiltApplyPlan, ApplyPlans, TypeOK
<1> QED BY <1>1, <1>2, <1>3, <1>4, <1>5

\* The turn of such a screen that leaves the partition plan alone.
LEMMA PlannedLeave ==
  ASSUME WizardInv, UNCHANGED <<setup, planning, handed>>,
         screen \in {"APPLY_PREVIEW", "APPLY_CONFIRMATION", "FORMAT_APPLY_PREVIEW",
                     "FORMAT_APPLY_CONFIRMATION"},
         NEW event \in Events, Leave(event)
  PROVE  FlowInv' /\ screen' \in States /\ handed' \in BOOLEAN
<1>1. /\ FlowInv /\ TypeOK /\ PlanIsReady' /\ screen \notin DiskScreens
      /\ screen \notin {"EXIT", "WELCOME", "SETUP_MODE", "FORMAT", "DISK", "GUI_TRANSITION"}
  BY PlannedFacts DEF PlanIsReady, planning
<1>2. FlowInv'
  BY <1>1, LeaveInv DEF TypeOK
<1> QED BY <1>1, <1>2 DEF FlowInv, Shows, TypeOK

\* The preview builds the apply plan again: the same one, if there is a result.
LEMMA ApplyPreviewInv ==
  ASSUME WizardInv, UNCHANGED handed, ApplyPreview
  PROVE  WizardInv'
<1>1. /\ screen = "APPLY_PREVIEW" /\ applyPlan' = BuiltApplyPlan
      /\ UNCHANGED <<setup, mode, planning, applyResult, formatting, recommended, content>>
      /\ \E event \in Events : Leave(event)
  BY DEF ApplyPreview, Events
<1>2. PICK event \in Events : Leave(event)
  BY <1>1
<1>3. FlowInv' /\ screen' \in States /\ handed' \in BOOLEAN
  BY <1>1, <1>2, PlannedLeave
<1>4. /\ TypeOK /\ DataInv /\ BuiltApplyPlan \in ApplyPlans /\ BuiltApplyPlan' = BuiltApplyPlan
      /\ setup = "ADVANCED" /\ recommendedPlan = NoApply /\ recommendedResult = "NOT_RUN"
  BY <1>1, PlannedFacts DEF BuiltApplyPlan, planning
<1>5. applyPlan # NoApply => applyPlan' = applyPlan
  BY <1>1, <1>4 DEF DataInv, ResultsOfPlanInForce
<1>6. TypeOK'
  BY <1>1, <1>3, <1>4 DEF TypeOK, planning, formatting, recommended
<1>7. ResultsOfPlanInForce'
  BY <1>1, <1>4, <1>5 DEF DataInv, ResultsOfPlanInForce, PlansBehind, planning, formatting, recommended
<1>8. SuccessOnDisk' /\ PlanOfDisk' /\ PlansBehind' /\ NoRecommendation'
  BY <1>1, <1>4, <1>5 DEF DataInv, SuccessOnDisk, PlanOfDisk, PlansBehind, NoRecommendation,
     planning, formatting, recommended
<1> QED BY <1>3, <1>6, <1>7, <1>8 DEF WizardInv, DataInv

\* The preview of the format plan, which may be none.
LEMMA FormatApplyPreviewInv ==
  ASSUME WizardInv, UNCHANGED handed, FormatApplyPreview
  PROVE  WizardInv'
<1>1. /\ screen = "FORMAT_APPLY_PREVIEW"
      /\ formatPlan' = NoApply \/ (formatPlan' = applyPlan /\ applyResult.code = "SUCCESS")
      /\ UNCHANGED <<setup, mode, planning, applying, formatResult, recommended, content>>
      /\ \E event \in Events : Leave(event)
  BY DEF FormatApplyPreview, Events
<1>2. PICK event \in Events : Leave(event)
  BY <1>1
<1>3. FlowInv' /\ screen' \in States /\ handed' \in BOOLEAN
  BY <1>1, <1>2, PlannedLeave
<1>4. /\ TypeOK /\ DataInv /\ BuiltApplyPlan' = BuiltApplyPlan
      /\ setup = "ADVANCED" /\ recommendedPlan = NoApply /\ recommendedResult = "NOT_RUN"
  BY <1>1, PlannedFacts DEF BuiltApplyPlan, planning
<1>5. TypeOK'
  BY <1>1, <1>3, <1>4, NonesTyped DEF TypeOK, planning, applying, recommended
<1>6. DataInv'
  BY <1>1, <1>4, <1>5 DEF DataInv, ResultsOfPlanInForce, SuccessOnDisk, PlanOfDisk, PlansBehind,
     NoRecommendation, planning, applying, recommended
<1> QED BY <1>3, <1>6 DEF WizardInv

\* The layout is applied to the disk of the plan, and the result is of the plan.
LEMMA ApplyConfirmationInv ==
  ASSUME WizardInv, UNCHANGED handed, ApplyConfirmation
  PROVE  WizardInv'
<1>1. screen = "APPLY_CONFIRMATION"
  BY DEF ApplyConfirmation
<1>2. /\ TypeOK /\ DataInv /\ setup = "ADVANCED" /\ disk \in Disks
      /\ recommendedPlan = NoApply /\ recommendedResult = "NOT_RUN"
      /\ BuiltApplyPlan # NoApply => BuiltApplyPlan.disk = disk
  BY <1>1, PlannedFacts
<1>3. CASE /\ applyPlan # NoApply
           /\ \E o \in ApplyOutcomes(applyPlan, content[applyPlan.disk]) :
                /\ applyResult' = [code |-> o.code, of |-> applyPlan]
                /\ content' = [content EXCEPT ![applyPlan.disk] = o.left]
           /\ ClearFormatApplyState
           /\ UNCHANGED <<setup, mode, planning, applyPlan, recommended>>
           /\ Leave("CONTINUE")
  <2>1. FlowInv' /\ screen' \in States /\ handed' \in BOOLEAN
    BY <1>1, <1>3, PlannedLeave DEF Events
  <2>2. PICK o \in ApplyOutcomes(applyPlan, content[applyPlan.disk]) :
          /\ applyResult' = [code |-> o.code, of |-> applyPlan]
          /\ content' = [content EXCEPT ![applyPlan.disk] = o.left]
    BY <1>3
  <2>3. /\ applyPlan \in [disk : Disks, layout : Layouts, mode : InstallModes]
        /\ applyPlan = BuiltApplyPlan /\ applyPlan.disk = disk
        /\ content \in [Disks -> Contents] /\ content[disk] \in Contents
    BY <1>2, <1>3, NonesTyped DEF TypeOK, DataInv, ResultsOfPlanInForce
  <2>4. /\ o.code \in Codes \ {"NOT_RUN"} /\ o.left \in Contents
        /\ o.code = "SUCCESS" => o.left.table = applyPlan.layout
    BY <2>2, <2>3, AppliesAsPromised
  <2>5. /\ applyResult' \in Results /\ applyResult'.code = o.code /\ applyResult'.of = applyPlan
        /\ content' \in [Disks -> Contents] /\ content'[disk] = o.left
    BY <1>2, <2>2, <2>3, <2>4 DEF Results, TypeOK
  <2>6. /\ UNCHANGED <<setup, mode, disk, plan, target, ready, applyPlan>>
        /\ UNCHANGED <<recommendedPlan, recommendedResult>>
        /\ formatPlan' = NoApply /\ formatResult' = NotRun /\ BuiltApplyPlan' = BuiltApplyPlan
    BY <1>3 DEF planning, recommended, ClearFormatApplyState, BuiltApplyPlan
  <2>7. TypeOK'
    BY <1>2, <2>1, <2>5, <2>6, NonesTyped DEF TypeOK
  <2>8. ResultsOfPlanInForce' /\ PlanOfDisk' /\ PlansBehind' /\ NoRecommendation'
    BY <1>2, <1>3, <2>3, <2>5, <2>6, NonesTyped DEF DataInv, ResultsOfPlanInForce, PlanOfDisk,
       PlansBehind, NoRecommendation
  <2>9. SuccessOnDisk'
    BY <1>2, <2>4, <2>5, <2>6, NonesTyped DEF SuccessOnDisk
  <2> QED BY <2>1, <2>7, <2>8, <2>9 DEF WizardInv, DataInv
<1>4. CASE UNCHANGED <<config, content>> /\ \E event \in {"BACK", "QUIT"} : Leave(event)
  <2>1. PICK event \in Events : Leave(event)
    BY <1>4 DEF Events
  <2>2. FlowInv' /\ screen' \in States /\ handed' \in BOOLEAN
    BY <1>1, <1>4, <2>1, PlannedLeave DEF config
  <2> QED BY <1>2, <1>4, <2>2, DataKept DEF WizardInv
<1> QED BY <1>3, <1>4 DEF ApplyConfirmation

\* Filesystems are made on the disk whose layout was applied.
LEMMA FormatApplyConfirmationInv ==
  ASSUME WizardInv, UNCHANGED handed, FormatApplyConfirmation
  PROVE  WizardInv'
<1>1. screen = "FORMAT_APPLY_CONFIRMATION"
  BY DEF FormatApplyConfirmation
<1>2. /\ TypeOK /\ DataInv /\ setup = "ADVANCED" /\ disk \in Disks
      /\ recommendedPlan = NoApply /\ recommendedResult = "NOT_RUN"
      /\ BuiltApplyPlan # NoApply => BuiltApplyPlan.disk = disk
  BY <1>1, PlannedFacts
<1>3. CASE /\ formatPlan # NoApply
           /\ \E o \in FormatOutcomes(formatPlan, content[formatPlan.disk]) :
                /\ formatResult' = [code |-> o.code, of |-> formatPlan]
                /\ content' = [content EXCEPT ![formatPlan.disk] = o.left]
           /\ UNCHANGED <<setup, mode, planning, applying, formatPlan, recommended>>
           /\ Leave("CONTINUE")
  <2>1. FlowInv' /\ screen' \in States /\ handed' \in BOOLEAN
    BY <1>1, <1>3, PlannedLeave DEF Events
  <2>2. PICK o \in FormatOutcomes(formatPlan, content[formatPlan.disk]) :
          /\ formatResult' = [code |-> o.code, of |-> formatPlan]
          /\ content' = [content EXCEPT ![formatPlan.disk] = o.left]
    BY <1>3
  <2>3. /\ formatPlan \in [disk : Disks, layout : Layouts, mode : InstallModes]
        /\ formatPlan = applyPlan /\ applyPlan = BuiltApplyPlan /\ formatPlan.disk = disk
        /\ applyResult.code = "SUCCESS" /\ applyResult.of = applyPlan
        /\ content \in [Disks -> Contents] /\ content[disk] \in Contents
    BY <1>2, <1>3, NonesTyped DEF TypeOK, DataInv, ResultsOfPlanInForce, PlansBehind
  <2>4. /\ o.code \in Codes \ {"NOT_RUN"} /\ o.left \in Contents
        /\ o.left.table = content[disk].table
        /\ o.code = "SUCCESS" => o.left = [table |-> formatPlan.layout, filesystems |-> "ALL"]
    BY <2>2, <2>3, FormatsAsPromised
  <2>5. /\ formatResult' \in Results /\ formatResult'.code = o.code
        /\ formatResult'.of = formatPlan
        /\ content' \in [Disks -> Contents] /\ content'[disk] = o.left
    BY <1>2, <2>2, <2>3, <2>4 DEF Results, TypeOK
  <2>6. /\ UNCHANGED <<setup, mode, disk, plan, target, ready, applyPlan, applyResult, formatPlan>>
        /\ UNCHANGED <<recommendedPlan, recommendedResult>> /\ BuiltApplyPlan' = BuiltApplyPlan
    BY <1>3 DEF planning, recommended, applying, BuiltApplyPlan
  <2>7. TypeOK'
    BY <1>2, <2>1, <2>5, <2>6 DEF TypeOK
  <2>8. ResultsOfPlanInForce' /\ PlanOfDisk' /\ PlansBehind' /\ NoRecommendation'
    BY <1>2, <1>3, <2>3, <2>5, <2>6 DEF DataInv, ResultsOfPlanInForce, PlanOfDisk,
       PlansBehind, NoRecommendation
  <2>9. SuccessOnDisk'
    BY <1>2, <2>4, <2>5, <2>6 DEF DataInv, SuccessOnDisk
  <2> QED BY <2>1, <2>7, <2>8, <2>9 DEF WizardInv, DataInv
<1>4. CASE UNCHANGED <<config, content>> /\ \E event \in {"BACK", "QUIT"} : Leave(event)
  <2>1. PICK event \in Events : Leave(event)
    BY <1>4 DEF Events
  <2>2. FlowInv' /\ screen' \in States /\ handed' \in BOOLEAN
    BY <1>1, <1>4, <2>1, PlannedLeave DEF config
  <2> QED BY <1>2, <1>4, <2>2, DataKept DEF WizardInv
<1> QED BY <1>3, <1>4 DEF FormatApplyConfirmation

\* The turn of a screen of the Recommended mode.
LEMMA RecommendedLeave ==
  ASSUME WizardInv, UNCHANGED <<setup, handed>>,
         screen \in {"RECOMMENDED_DISK", "INSTALL_SUMMARY"},
         NEW event \in {"CONTINUE", "CANCEL"}, Leave(event)
  PROVE  /\ setup = "RECOMMENDED"
         /\ FlowInv' /\ screen' \in States /\ handed' \in BOOLEAN
<1>1. FlowInv /\ TypeOK /\ setup = "RECOMMENDED" /\ event \in Events
  BY DEF WizardInv, DataInv, FlowInv, Shows, RecommendedScreens, Events
<1>2. /\ screen \notin {"EXIT", "WELCOME", "SETUP_MODE", "FORMAT", "DISK", "GUI_TRANSITION"}
      /\ screen \notin DiskScreens
  BY DEF DiskScreens
<1>3. FlowInv'
  BY <1>1, <1>2, LeaveInv DEF TypeOK
<1> QED BY <1>1, <1>3 DEF FlowInv, Shows, TypeOK

\* A disk that is chosen gets a plan, which is the apply plan.
LEMMA RecommendedDiskInv ==
  ASSUME WizardInv, UNCHANGED handed, RecommendedDisk
  PROVE  WizardInv'
<1>1. screen = "RECOMMENDED_DISK" /\ UNCHANGED content /\ TypeOK /\ DataInv
  BY DEF RecommendedDisk, WizardInv, DataInv
<1>2. CASE UNCHANGED config /\ Leave("CANCEL")
  <2>1. FlowInv' /\ screen' \in States /\ handed' \in BOOLEAN
    BY <1>1, <1>2, RecommendedLeave DEF config
  <2> QED BY <1>1, <1>2, <2>1, DataKept DEF WizardInv
<1>3. CASE \E d \in Disks : \E l \in Layouts :
             /\ mode' = "UEFI" /\ disk' = d
             /\ plan' = [disk |-> d, layout |-> l, originals |-> 0]
             /\ target' = TRUE /\ ready' = FALSE
             /\ recommendedPlan' = [disk |-> d, layout |-> l, mode |-> "UEFI"]
             /\ applyPlan' = recommendedPlan'
             /\ ClearResults /\ UNCHANGED setup /\ Leave("CONTINUE")
  <2>1. PICK d \in Disks : \E l \in Layouts :
             /\ mode' = "UEFI" /\ disk' = d
             /\ plan' = [disk |-> d, layout |-> l, originals |-> 0]
             /\ target' = TRUE /\ ready' = FALSE
             /\ recommendedPlan' = [disk |-> d, layout |-> l, mode |-> "UEFI"]
             /\ applyPlan' = recommendedPlan'
             /\ ClearResults /\ UNCHANGED setup /\ Leave("CONTINUE")
    BY <1>3
  <2>2. PICK l \in Layouts :
             /\ mode' = "UEFI" /\ disk' = d
             /\ plan' = [disk |-> d, layout |-> l, originals |-> 0]
             /\ target' = TRUE /\ ready' = FALSE
             /\ recommendedPlan' = [disk |-> d, layout |-> l, mode |-> "UEFI"]
             /\ applyPlan' = recommendedPlan'
             /\ ClearResults /\ UNCHANGED setup /\ Leave("CONTINUE")
    BY <2>1
  <2>3. /\ setup = "RECOMMENDED" /\ FlowInv' /\ screen' \in States /\ handed' \in BOOLEAN
    BY <1>1, <2>2, RecommendedLeave
  <2>4. /\ applyResult' = NotRun /\ recommendedResult' = "NOT_RUN"
        /\ formatPlan' = NoApply /\ formatResult' = NotRun
    BY <2>2 DEF ClearResults, ClearFormatApplyState
  <2>5. /\ plan' \in [disk: Disks, layout: Layouts \union {"NONE"}, originals: {0, 1}]
        /\ plan'.disk = d /\ plan'.layout = l /\ plan'.originals = 0
        /\ recommendedPlan' \in [disk : Disks, layout : Layouts, mode : InstallModes]
    BY <2>2 DEF InstallModes
  <2>6. plan' # NoPlan /\ l # "NONE"
    BY <2>5, NamesAssumption DEF NoPlan
  <2>7. BuiltApplyPlan' = recommendedPlan'
    BY <2>2, <2>5, <2>6 DEF BuiltApplyPlan
  <2>8. TypeOK'
    BY <1>1, <2>2, <2>3, <2>4, <2>5, NonesTyped DEF TypeOK, RecommendedCodes, InstallModes, ApplyPlans
  <2>9. DataInv'
    BY <2>2, <2>3, <2>4, <2>5, <2>7, <2>8, NonesTyped DEF DataInv, ResultsOfPlanInForce,
       SuccessOnDisk, PlanOfDisk, PlansBehind, NoRecommendation
  <2> QED BY <2>3, <2>9 DEF WizardInv
<1> QED BY <1>2, <1>3 DEF RecommendedDisk

\* The installation stores the codes of its parts with its own.
LEMMA InstallInv ==
  ASSUME WizardInv, UNCHANGED handed, Install
  PROVE  WizardInv'
<1> DEFINE p == recommendedPlan
           c == content[recommendedPlan.disk]
<1>1. /\ screen = "INSTALL_SUMMARY" /\ TypeOK /\ DataInv /\ p # NoApply /\ Leave("CONTINUE")
      /\ UNCHANGED <<setup, mode, disk, plan, target, ready, applyPlan, recommendedPlan>>
  BY DEF Install, WizardInv, DataInv, planning
<1>2. setup = "RECOMMENDED" /\ FlowInv' /\ screen' \in States /\ handed' \in BOOLEAN
  BY <1>1, RecommendedLeave
<1>3. PICK r \in RecommendedOutcomes(p, c) :
       /\ recommendedResult' = r.code
       /\ applyResult' = IF r.apply = "NOT_RUN" THEN NotRun ELSE [code |-> r.apply, of |-> p]
       /\ formatResult' = IF r.format = "NOT_RUN" THEN NotRun ELSE [code |-> r.format, of |-> p]
       /\ formatPlan' = IF r.code \in {"FORMAT_FAILED", "SUCCESS"} THEN p ELSE NoApply
       /\ content' = [content EXCEPT ![p.disk] = r.left]
  BY DEF Install
<1>4. /\ p \in [disk : Disks, layout : Layouts, mode : InstallModes] /\ p \in ApplyPlans
      /\ p = applyPlan /\ applyPlan = BuiltApplyPlan
      /\ content \in [Disks -> Contents] /\ c \in Contents
  BY <1>1, NonesTyped DEF TypeOK, DataInv, PlansBehind, ResultsOfPlanInForce
<1>5. p.disk = disk /\ disk \in Disks
  BY <1>1, <1>4 DEF BuiltApplyPlan
<1>6. /\ r.code \in RecommendedCodes \ {"NOT_RUN"}
      /\ r.apply \in Codes /\ r.format \in Codes /\ r.left \in Contents
      /\ r.apply = "SUCCESS" => r.left.table = p.layout
      /\ r.format = "SUCCESS" => r.left = [table |-> p.layout, filesystems |-> "ALL"]
      /\ r.code \in {"FORMAT_FAILED", "SUCCESS"} => r.apply = "SUCCESS"
      /\ r.code = "SUCCESS" => r.format = "SUCCESS"
  BY <1>4, InstallsAsPromised
<1> HIDE DEF p, c
<1>7. /\ applyResult' \in Results /\ applyResult'.code = r.apply
      /\ applyResult'.code # "NOT_RUN" => applyResult'.of = p
  BY <1>3, <1>4, <1>6, NonesTyped DEF Results
<1>8. /\ formatResult' \in Results /\ formatResult'.code = r.format
      /\ formatResult'.code # "NOT_RUN" => formatResult'.of = p
  BY <1>3, <1>4, <1>6, NonesTyped DEF Results
<1>9. content' \in [Disks -> Contents] /\ content'[disk] = r.left
  BY <1>3, <1>4, <1>5, <1>6
<1>10. /\ recommendedPlan' = p /\ recommendedPlan = p /\ p # NoApply
       /\ BuiltApplyPlan' = BuiltApplyPlan
       /\ formatPlan' \in {p, NoApply} /\ (formatPlan' # NoApply => r.apply = "SUCCESS")
  BY <1>1, <1>3, <1>6 DEF p, BuiltApplyPlan
<1>11. TypeOK'
  BY <1>1, <1>2, <1>3, <1>4, <1>6, <1>7, <1>8, <1>9, <1>10, NonesTyped DEF TypeOK
<1>12. ResultsOfPlanInForce' /\ PlansBehind'
  BY <1>1, <1>4, <1>7, <1>8, <1>10 DEF ResultsOfPlanInForce, PlansBehind
<1>13. SuccessOnDisk'
  <2>1. applyResult'.code = "SUCCESS" => content'[disk'].table = applyResult'.of.layout
    BY <1>1, <1>6, <1>7, <1>9
  <2>2. formatResult'.code = "SUCCESS" =>
          content'[disk'] = [table |-> formatResult'.of.layout, filesystems |-> "ALL"]
    BY <1>1, <1>6, <1>8, <1>9
  <2>3. recommendedResult' = "SUCCESS" =>
          applyResult'.code = "SUCCESS" /\ formatResult'.code = "SUCCESS"
    BY <1>3, <1>6, <1>7, <1>8
  <2> QED BY <2>1, <2>2, <2>3 DEF SuccessOnDisk
<1>14. PlanOfDisk' /\ NoRecommendation'
  BY <1>1, <1>2 DEF DataInv, PlanOfDisk, NoRecommendation
<1> QED BY <1>2, <1>11, <1>12, <1>13, <1>14 DEF WizardInv, DataInv

-----------------------------------------------------------------------------
(***************************************************************************)
(* The theorems.                                                           *)
(***************************************************************************)

\* The program starts on its first screen with nothing planned.
LEMMA WizardStarts ==
  ASSUME Init
  PROVE  WizardInv
<1>1. TypeOK
  BY NonesTyped DEF Init, TypeOK, States, CommonScreens, SetupModes, InstallModes,
     RecommendedCodes, Contents
<1>2. FlowInv
  BY DEF Init, FlowInv, Shows, States, CommonScreens, AdvancedScreens, RecommendedScreens,
     ReadyPastFormat, DiskChosen, DiskScreens, HandedOver, EarlyScreens
<1>3. DataInv
  BY <1>1, NonesTyped DEF Init, DataInv, ResultsOfPlanInForce, SuccessOnDisk, PlanOfDisk,
     PlansBehind, NoRecommendation
<1> QED BY <1>2, <1>3 DEF WizardInv

\* Every turn of the loop keeps the invariant.
LEMMA WizardStep ==
  ASSUME WizardInv, [Next]_vars
  PROVE  WizardInv'
<1>1. CASE GuiTransition
  BY <1>1, GuiTransitionInv
<1>2. CASE TextTurn /\ UNCHANGED handed
  BY <1>2, PlainInv, SetupModeInv, ChoiceInv, PartitionInv, FormatInv, ApplyPreviewInv,
     ApplyConfirmationInv, FormatApplyPreviewInv, FormatApplyConfirmationInv,
     RecommendedDiskInv, InstallInv DEF TextTurn
<1>3. CASE UNCHANGED vars
  <2>1. UNCHANGED <<screen, setup, handed, config, content>> /\ PlanIsReady' = PlanIsReady
        /\ disk' = disk
    BY <1>3 DEF vars, config, planning, PlanIsReady
  <2>2. FlowInv'
    BY <2>1 DEF WizardInv, FlowInv, ReadyPastFormat, DiskChosen, HandedOver
  <2>3. screen' \in States /\ handed' \in BOOLEAN
    BY <2>1 DEF WizardInv, DataInv, TypeOK
  <2> QED BY <2>1, <2>2, <2>3, DataKept DEF WizardInv
<1> QED BY <1>1, <1>2, <1>3 DEF Next, Ended

\* Whatever screens are shown and whatever they are answered, plans, results, disks and
\* the screens themselves hang together (state.c, config.c, app.c).
THEOREM WizardHolds == Spec => []WizardInv
<1>1. Init => WizardInv
  BY WizardStarts
<1>2. WizardInv /\ [Next]_vars => WizardInv'
  BY WizardStep
<1> QED BY <1>1, <1>2, PTL DEF Spec

\* The state stays within its types.
THEOREM WizardTypeCorrect == Spec => []TypeOK
BY WizardHolds, PTL DEF WizardInv, DataInv

\* The screens of one setup mode are never shown in the other, and an installation plan
\* of the Recommended mode never survives into the Advanced one (state.c, config.c:13).
THEOREM WizardScreensOfMode == Spec => []ScreensOfMode
<1>1. WizardInv => ScreensOfMode
  BY DEF WizardInv, FlowInv, Shows, DataInv, NoRecommendation, ScreensOfMode
<1> QED BY <1>1, WizardHolds, PTL

\* Every Advanced screen after the format screen has a complete plan behind it
\* (app.c:161).
THEOREM WizardReadyPastFormat == Spec => []ReadyPastFormat
<1>1. WizardInv => ReadyPastFormat
  BY DEF WizardInv, FlowInv
<1> QED BY <1>1, WizardHolds, PTL

\* The results that are shown belong to the apply plan in force, and that is what the
\* partition plan now gives for the selected disk (config.c:42-74).
THEOREM WizardResultsOfPlan == Spec => []ResultsOfPlanInForce
<1>1. WizardInv => ResultsOfPlanInForce
  BY DEF WizardInv, DataInv
<1> QED BY <1>1, WizardHolds, PTL

\* A success that can still be shown is on the disk (app.c:517-607).
THEOREM WizardSuccessOnDisk == Spec => []SuccessOnDisk
<1>1. WizardInv => SuccessOnDisk
  BY DEF WizardInv, DataInv
<1> QED BY <1>1, WizardHolds, PTL

\* Only three screens change a disk, and only the one their plan is for.
LEMMA WritersAre ==
  ASSUME WizardInv, [Next]_vars, NEW d \in Disks, content'[d] # content[d]
  PROVE  \/ /\ screen = "APPLY_CONFIRMATION" /\ applyPlan # NoApply /\ d = applyPlan.disk
         \/ /\ screen = "FORMAT_APPLY_CONFIRMATION" /\ formatPlan # NoApply
            /\ d = formatPlan.disk
         \/ /\ screen = "INSTALL_SUMMARY" /\ recommendedPlan # NoApply
            /\ d = recommendedPlan.disk
<1>1. content \in [Disks -> Contents]
  BY DEF WizardInv, DataInv, TypeOK
<1>2. content' # content
  OBVIOUS
<1>3. ApplyConfirmation \/ FormatApplyConfirmation \/ Install
  BY <1>2 DEF Next, vars, GuiTransition, Ended, TextTurn, Welcome, PlainScreen, Declined, SetupMode,
     InstallMode, Disk, Partition, Format, ApplyPreview, ResultScreen, FormatApplyPreview,
     RecommendedDisk, InstallSummary
<1>4. CASE ApplyConfirmation
  <2>1. screen = "APPLY_CONFIRMATION" /\ applyPlan # NoApply
        /\ \E o \in ApplyOutcomes(applyPlan, content[applyPlan.disk]) :
             content' = [content EXCEPT ![applyPlan.disk] = o.left]
    BY <1>2, <1>4 DEF ApplyConfirmation
  <2> QED BY <1>1, <2>1
<1>5. CASE FormatApplyConfirmation
  <2>1. screen = "FORMAT_APPLY_CONFIRMATION" /\ formatPlan # NoApply
        /\ \E o \in FormatOutcomes(formatPlan, content[formatPlan.disk]) :
             content' = [content EXCEPT ![formatPlan.disk] = o.left]
    BY <1>2, <1>5 DEF FormatApplyConfirmation
  <2> QED BY <1>1, <2>1
<1>6. CASE Install
  <2>1. screen = "INSTALL_SUMMARY" /\ recommendedPlan # NoApply
        /\ \E r \in RecommendedOutcomes(recommendedPlan, content[recommendedPlan.disk]) :
             content' = [content EXCEPT ![recommendedPlan.disk] = r.left]
    BY <1>2, <1>6 DEF Install
  <2> QED BY <1>1, <2>1
<1> QED BY <1>3, <1>4, <1>5, <1>6

\* A disk changes only when the user confirms it on a screen that shows this disk, and
\* filesystems are made only after the very plan was applied (app.c:517-607).
THEOREM WizardChangesAreConfirmed == Spec => ChangesAreConfirmed
<1> DEFINE Confirmed ==
             \A d \in Disks : content'[d] # content[d] =>
               /\ d = disk
               /\ \/ screen = "APPLY_CONFIRMATION"
                     /\ plan.disk = d /\ applyPlan = BuiltApplyPlan
                  \/ screen = "FORMAT_APPLY_CONFIRMATION"
                     /\ applyResult = [code |-> "SUCCESS", of |-> formatPlan]
                  \/ screen = "INSTALL_SUMMARY"
                     /\ recommendedPlan.disk = d
<1>1. ASSUME WizardInv, [Next]_vars
      PROVE  Confirmed
  <2> SUFFICES ASSUME NEW d \in Disks, content'[d] # content[d]
               PROVE  /\ d = disk
                      /\ \/ screen = "APPLY_CONFIRMATION"
                            /\ plan.disk = d /\ applyPlan = BuiltApplyPlan
                         \/ screen = "FORMAT_APPLY_CONFIRMATION"
                            /\ applyResult = [code |-> "SUCCESS", of |-> formatPlan]
                         \/ screen = "INSTALL_SUMMARY"
                            /\ recommendedPlan.disk = d
    OBVIOUS
  <2>1. DataInv /\ TypeOK
    BY <1>1 DEF WizardInv, DataInv
  <2>2. CASE screen = "APPLY_CONFIRMATION" /\ applyPlan # NoApply /\ d = applyPlan.disk
    <3>1. applyPlan = BuiltApplyPlan /\ plan.disk = disk
          /\ (BuiltApplyPlan # NoApply => BuiltApplyPlan.disk = disk)
      BY <1>1, <2>1, <2>2, PlannedFacts DEF DataInv, ResultsOfPlanInForce
    <3> QED BY <2>2, <3>1
  <2>3. CASE screen = "FORMAT_APPLY_CONFIRMATION" /\ formatPlan # NoApply
             /\ d = formatPlan.disk
    <3>1. /\ formatPlan = applyPlan /\ applyPlan = BuiltApplyPlan
          /\ (BuiltApplyPlan # NoApply => BuiltApplyPlan.disk = disk)
          /\ applyResult.code = "SUCCESS" /\ applyResult.of = applyPlan
      BY <1>1, <2>1, <2>3, PlannedFacts DEF DataInv, ResultsOfPlanInForce, PlansBehind
    <3>2. applyResult = [code |-> "SUCCESS", of |-> formatPlan]
      BY <2>1, <3>1 DEF TypeOK, Results
    <3> QED BY <2>3, <3>1, <3>2
  <2>4. CASE screen = "INSTALL_SUMMARY" /\ recommendedPlan # NoApply
             /\ d = recommendedPlan.disk
    <3>1. recommendedPlan = applyPlan /\ applyPlan = BuiltApplyPlan
      BY <2>1, <2>4 DEF DataInv, PlansBehind, ResultsOfPlanInForce
    <3>2. recommendedPlan.disk = disk
      BY <2>4, <3>1 DEF BuiltApplyPlan
    <3> QED BY <2>4, <3>2
  <2> QED BY <1>1, <2>2, <2>3, <2>4, WritersAre
<1>2. WizardInv /\ [Next]_vars => [Confirmed]_vars
  BY <1>1
<1> QED BY <1>2, WizardHolds, PTL DEF Spec, ChangesAreConfirmed

\* No disk is changed before the graphical frontend has handed the installation over
\* (state.c:139-150, app.c:152-234).
THEOREM WizardWritesFollowHandOver == Spec => WritesFollowHandOver
<1>1. ASSUME WizardInv, [Next]_vars
      PROVE  [content' # content => handed]_vars
  <2> SUFFICES ASSUME content' # content
               PROVE  handed
    OBVIOUS
  <2>1. ApplyConfirmation \/ FormatApplyConfirmation \/ Install
    BY <1>1 DEF Next, vars, GuiTransition, Ended, TextTurn, Welcome, PlainScreen, Declined,
       SetupMode, InstallMode, Disk, Partition, Format, ApplyPreview, ResultScreen,
       FormatApplyPreview, RecommendedDisk, InstallSummary
  <2>2. screen \notin EarlyScreens
    BY <2>1 DEF ApplyConfirmation, FormatApplyConfirmation, Install, EarlyScreens
  <2> QED BY <1>1, <2>2 DEF WizardInv, FlowInv, HandedOver
<1> QED BY <1>1, WizardHolds, PTL DEF Spec, WritesFollowHandOver
=============================================================================
