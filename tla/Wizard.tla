------------------------------- MODULE Wizard -------------------------------
(***************************************************************************)
(* The setup program's main loop: its screens, the transitions between     *)
(* them (src/src/state.c), what each screen does to the configuration      *)
(* (src/src/app.c, src/src/config.c) and, through the executors, to the    *)
(* disks.  One action is one turn of the loop: a screen is shown, answered *)
(* and left.                                                               *)
(*                                                                         *)
(* The executors, whose steps are modelled elsewhere, are here what they   *)
(* promise, and a partition plan is the Windows layout it can be applied   *)
(* as.  A disk is a device path.                                           *)
(***************************************************************************)
EXTENDS Naturals

CONSTANTS
  Disks,
  Layouts,     \* Windows layouts that can be planned on a disk
  GuiResults   \* what the graphical frontend built in may return

ASSUME GuiAssumption ==
  GuiResults \subseteq {"FINISHED", "BACK", "QUIT", "UNAVAILABLE", "ERROR"}

ASSUME NamesAssumption ==
  /\ "NONE" \notin Disks
  /\ {"NONE", "EMPTY", "OTHER"} \intersect Layouts = {}

VARIABLES
  screen,
  setup, mode,        \* setup_mode, install_mode
  disk,               \* selected_disk
  plan,               \* partition_plan, original_partition_count
  target,             \* has_selected_plan_target
  ready,              \* advanced_storage_plan_ready, the format plans
  applyPlan, applyResult,
  formatPlan, formatResult,
  recommendedPlan, recommendedResult,
  content,            \* what is on the disks
  handed              \* history: the graphical frontend has returned FINISHED

planning    == <<disk, plan, target, ready>>
applying    == <<applyPlan, applyResult>>
formatting  == <<formatPlan, formatResult>>
recommended == <<recommendedPlan, recommendedResult>>
config == <<setup, mode, planning, applying, formatting, recommended>>
vars == <<screen, config, content, handed>>

SetupModes   == {"RECOMMENDED", "ADVANCED"}
InstallModes == {"UEFI", "BIOS"}
Codes        == {"NOT_RUN", "BLOCKED", "PROCESS_FAILED", "VERIFY_FAILED", "SUCCESS"}
RecommendedCodes ==
  {"NOT_RUN", "BLOCKED", "PARTITION_FAILED", "FORMAT_PLAN_FAILED",
   "FORMAT_FAILED", "SUCCESS"}

NoPlan  == [disk |-> "NONE", layout |-> "NONE", originals |-> 0]
NoApply == [disk |-> "NONE", layout |-> "NONE", mode |-> "UEFI"]

\* Results remember, beside their code, the apply plan they were got with.
NotRun == [code |-> "NOT_RUN", of |-> NoApply]

AdvancedScreens ==
  {"KEYBOARD", "INSTALL_MODE", "DISK", "PARTITION", "FORMAT", "APPLY_PREVIEW",
   "APPLY_CONFIRMATION", "APPLY_RESULT", "FORMAT_APPLY_PREVIEW",
   "FORMAT_APPLY_CONFIRMATION", "FORMAT_APPLY_RESULT", "AFTER_FORMAT"}
RecommendedScreens ==
  {"RECOMMENDED_DISK", "NETWORK", "WINDOWS_VERSION", "WINDOWS_DOWNLOAD",
   "INSTALL_OPTIONS", "INSTALL_SUMMARY", "RECOMMENDED_RESULT"}
CommonScreens ==
  {"WELCOME", "LICENSE_AGREEMENT", "SETUP_MODE", "GUI_TRANSITION",
   "NEXT_STAGE", "EXIT"}
States == AdvancedScreens \union RecommendedScreens \union CommonScreens

\* The screens between planning and the end of an Advanced installation.
PlannedScreens ==
  {"GUI_TRANSITION", "NEXT_STAGE", "APPLY_PREVIEW", "APPLY_CONFIRMATION",
   "APPLY_RESULT", "FORMAT_APPLY_PREVIEW", "FORMAT_APPLY_CONFIRMATION",
   "FORMAT_APPLY_RESULT", "AFTER_FORMAT"}

-----------------------------------------------------------------------------
(***************************************************************************)
(* classicsetup_next_state_for_setup_mode                                  *)
(***************************************************************************)
Forward(advanced) ==
  [WELCOME |-> "LICENSE_AGREEMENT",
   LICENSE_AGREEMENT |-> "SETUP_MODE",
   SETUP_MODE |-> IF advanced THEN "KEYBOARD" ELSE "GUI_TRANSITION",
   GUI_TRANSITION |-> "NEXT_STAGE",
   KEYBOARD |-> IF advanced THEN "INSTALL_MODE" ELSE "RECOMMENDED_DISK",
   RECOMMENDED_DISK |-> "NETWORK",
   NETWORK |-> "WINDOWS_VERSION",
   WINDOWS_VERSION |-> "WINDOWS_DOWNLOAD",
   WINDOWS_DOWNLOAD |-> "INSTALL_OPTIONS",
   INSTALL_OPTIONS |-> "INSTALL_SUMMARY",
   INSTALL_SUMMARY |-> "RECOMMENDED_RESULT",
   RECOMMENDED_RESULT |-> "NEXT_STAGE",
   INSTALL_MODE |-> "DISK",
   DISK |-> "PARTITION",
   PARTITION |-> "FORMAT",
   FORMAT |-> "GUI_TRANSITION",
   APPLY_PREVIEW |-> "APPLY_CONFIRMATION",
   APPLY_CONFIRMATION |-> "APPLY_RESULT",
   APPLY_RESULT |-> "FORMAT_APPLY_PREVIEW",
   FORMAT_APPLY_PREVIEW |-> "FORMAT_APPLY_CONFIRMATION",
   FORMAT_APPLY_CONFIRMATION |-> "FORMAT_APPLY_RESULT",
   FORMAT_APPLY_RESULT |-> "GUI_TRANSITION",
   AFTER_FORMAT |-> "NEXT_STAGE",
   NEXT_STAGE |-> "EXIT"]

Backward(advanced) ==
  [LICENSE_AGREEMENT |-> "WELCOME",
   GUI_TRANSITION |-> IF advanced THEN "FORMAT" ELSE "SETUP_MODE",
   KEYBOARD |-> "SETUP_MODE",
   RECOMMENDED_DISK |-> "SETUP_MODE",
   NETWORK |-> "RECOMMENDED_DISK",
   WINDOWS_VERSION |-> "NETWORK",
   WINDOWS_DOWNLOAD |-> "WINDOWS_VERSION",
   INSTALL_OPTIONS |-> "WINDOWS_DOWNLOAD",
   INSTALL_SUMMARY |-> "INSTALL_OPTIONS",
   RECOMMENDED_RESULT |-> "INSTALL_SUMMARY",
   INSTALL_MODE |-> "KEYBOARD",
   DISK |-> "INSTALL_MODE",
   PARTITION |-> "DISK",
   FORMAT |-> "PARTITION",
   APPLY_PREVIEW |-> "FORMAT",
   APPLY_CONFIRMATION |-> "APPLY_PREVIEW",
   APPLY_RESULT |-> "APPLY_PREVIEW",
   FORMAT_APPLY_PREVIEW |-> "APPLY_RESULT",
   FORMAT_APPLY_CONFIRMATION |-> "FORMAT_APPLY_PREVIEW",
   FORMAT_APPLY_RESULT |-> "FORMAT_APPLY_PREVIEW",
   AFTER_FORMAT |-> "FORMAT_APPLY_RESULT",
   NEXT_STAGE |-> IF advanced THEN "AFTER_FORMAT" ELSE "RECOMMENDED_RESULT"]

\* Mutant: the setup mode is taken for the default one, as in
\* classicsetup_next_state.
NextStateDefault(s, event, m) ==
  IF event = "CONTINUE" THEN Forward(FALSE)[s]
  ELSE IF event = "BACK" THEN Backward(FALSE)[s]
  ELSE s

\* Mutant: the Advanced flow the README draws.
NextStateApplies(s, event, m) ==
  IF event = "CONTINUE" /\ s = "FORMAT" THEN "APPLY_PREVIEW"
  ELSE IF event = "CONTINUE" THEN Forward(m = "ADVANCED")[s]
  ELSE IF event = "BACK" THEN Backward(m = "ADVANCED")[s]
  ELSE s

NextState(s, event, m) ==
  IF event = "CONTINUE" THEN Forward(m = "ADVANCED")[s]
  ELSE IF event = "BACK" THEN Backward(m = "ADVANCED")[s]
  ELSE s

\* The end of a turn of the loop; a request to quit is confirmed or not.
Leave(event) ==
  IF event = "QUIT" THEN screen' \in {screen, "EXIT"}
  ELSE screen' = NextState(screen, event, setup)

-----------------------------------------------------------------------------
(***************************************************************************)
(* The configuration's resets.                                             *)
(***************************************************************************)
ClearFormatApplyState == formatPlan' = NoApply /\ formatResult' = NotRun

ClearResults ==
  /\ applyResult' = NotRun
  /\ recommendedResult' = "NOT_RUN"
  /\ ClearFormatApplyState

ClearApplyState == applyPlan' = NoApply /\ ClearResults

ResetPartitionPlan ==
  /\ plan' = NoPlan
  /\ target' = FALSE
  /\ ready' = FALSE
  /\ recommendedPlan' = NoApply
  /\ ClearApplyState

-----------------------------------------------------------------------------
(***************************************************************************)
(* What the executors promise, for one disk: the code and what is left.    *)
(***************************************************************************)
Contents == [table: {"EMPTY", "OTHER"} \union Layouts,
             filesystems: {"NONE", "SOME", "ALL"}]

Outcome(code, table, filesystems) ==
  [code |-> code, left |-> [table |-> table, filesystems |-> filesystems]]

ApplyOutcomes(p, c) ==
  {Outcome("BLOCKED", c.table, c.filesystems)} \union
  IF p.mode = "UEFI" /\ c.table = "EMPTY"
  THEN {Outcome("SUCCESS", p.layout, "NONE"),
        Outcome("PROCESS_FAILED", "EMPTY", "NONE")} \union
       {Outcome(code, table, "NONE") :
          code \in {"PROCESS_FAILED", "VERIFY_FAILED"},
          table \in {p.layout, "OTHER"}}
  ELSE {}

FormatOutcomes(p, c) ==
  {Outcome("BLOCKED", c.table, c.filesystems)} \union
  IF p.mode = "UEFI" /\ c.table = p.layout
  THEN {Outcome("SUCCESS", c.table, "ALL"),
        Outcome("PROCESS_FAILED", c.table, "SOME"),
        Outcome("VERIFY_FAILED", c.table, "SOME")}
  ELSE {}

\* Applying, building the format plan and formatting in one go.
Run(code, apply, format, left) ==
  [code |-> code, apply |-> apply, format |-> format, left |-> left]

RecommendedOutcomes(p, c) ==
  LET applied == {o \in ApplyOutcomes(p, c) : o.code = "SUCCESS"}
  IN  {Run("BLOCKED", "NOT_RUN", "NOT_RUN", c)}
      \union {Run("PARTITION_FAILED", o.code, "NOT_RUN", o.left) :
                o \in ApplyOutcomes(p, c) \ applied}
      \union {Run("FORMAT_PLAN_FAILED", o.code, "NOT_RUN", o.left) : o \in applied}
      \union UNION {{Run(IF f.code = "SUCCESS" THEN "SUCCESS" ELSE "FORMAT_FAILED",
                         o.code, f.code, f.left) : f \in FormatOutcomes(p, o.left)} :
                      o \in applied}

-----------------------------------------------------------------------------
(***************************************************************************)
(* One turn per screen.                                                    *)
(***************************************************************************)
\* Screens that ask and change nothing the model has.
Welcome ==
  /\ screen = "WELCOME"
  /\ UNCHANGED <<config, content>>
  /\ \E event \in {"CONTINUE", "QUIT"} : Leave(event)

PlainScreen ==
  /\ screen \in {"LICENSE_AGREEMENT", "KEYBOARD", "NETWORK", "WINDOWS_VERSION",
                 "WINDOWS_DOWNLOAD", "INSTALL_OPTIONS", "AFTER_FORMAT",
                 "NEXT_STAGE"}
  /\ UNCHANGED <<config, content>>
  /\ \E event \in {"CONTINUE", "BACK", "QUIT"} : Leave(event)

\* Leaving a screen without an answer that it would store.
Declined ==
  /\ screen \in {"RECOMMENDED_DISK", "INSTALL_MODE", "DISK", "FORMAT"}
  /\ UNCHANGED <<config, content>>
  /\ \E event \in {"BACK", "QUIT"} : Leave(event)

\* Mutant: changing the setup mode keeps what was planned in the other one.
SetupModeKeepsPlans ==
  /\ screen = "SETUP_MODE"
  /\ \/ /\ setup' \in SetupModes
        /\ UNCHANGED <<mode, planning, applying, formatting, recommended>>
        /\ screen' = NextState(screen, "CONTINUE", setup')
     \/ UNCHANGED config /\ Leave("QUIT")
  /\ UNCHANGED content

\* Choosing the other setup mode starts the configuration anew.
SetupMode ==
  /\ screen = "SETUP_MODE"
  /\ \/ UNCHANGED config /\ \E event \in {"CONTINUE", "QUIT"} : Leave(event)
     \/ /\ setup' \in SetupModes \ {setup}
        /\ mode' = "UEFI"
        /\ disk' = "NONE"
        /\ ResetPartitionPlan
        /\ screen' = NextState(screen, "CONTINUE", setup')
  /\ UNCHANGED content

InstallMode ==
  /\ screen = "INSTALL_MODE"
  /\ \/ UNCHANGED config
     \/ /\ mode' \in InstallModes \ {mode}
        /\ ResetPartitionPlan
        /\ UNCHANGED <<setup, disk>>
  /\ Leave("CONTINUE")
  /\ UNCHANGED content

\* Mutant: the plan of one disk is kept for another.
DiskKeepsPlan ==
  /\ screen = "DISK"
  /\ disk' \in Disks
  /\ UNCHANGED <<setup, mode, plan, target, ready, applying, formatting, recommended>>
  /\ Leave("CONTINUE")
  /\ UNCHANGED content

\* The plan stays as long as the same device path is chosen.
Disk ==
  /\ screen = "DISK"
  /\ disk' \in Disks
  /\ IF disk' = disk
     THEN UNCHANGED <<plan, target, ready, applying, formatting, recommended>>
     ELSE ResetPartitionPlan
  /\ UNCHANGED <<setup, mode>>
  /\ Leave("CONTINUE")
  /\ UNCHANGED content

\* The plans editing may leave: with another layout, or none to apply.
Edited(p) == {[p EXCEPT !.layout = l] : l \in Layouts \union {"NONE"}}

\* A plan there is is kept; without one the disk is scanned, which may fail.
Scanned ==
  IF plan # NoPlan THEN {plan}
  ELSE {NoPlan, [disk |-> disk, layout |-> "NONE",
                 originals |-> IF content[disk].table = "EMPTY" THEN 0 ELSE 1]}

\* Mutant: what was applied is kept while the plan is edited.
PartitionKeepsApplied ==
  /\ screen = "PARTITION"
  /\ plan' \in UNION {Edited(p) : p \in Scanned \ {NoPlan}}
  /\ \/ target' = TRUE /\ ready' = FALSE /\ Leave("CONTINUE")
     \/ target' = target /\ ready' = ready /\ Leave("BACK")
  /\ UNCHANGED <<setup, mode, disk, applying, formatting, recommended, content>>

\* The partition screen, its edits included: left with a target by ENTER, or
\* by B or Q with the target and the format plans it may have lost.
Partition ==
  /\ screen = "PARTITION"
  /\ ClearApplyState
  /\ \E p \in Scanned :
       /\ plan' \in IF p = NoPlan THEN {NoPlan} ELSE Edited(p)
       /\ \/ p # NoPlan /\ target' = TRUE /\ ready' = FALSE /\ Leave("CONTINUE")
          \/ /\ target' \in {FALSE, target}
             /\ ready' \in {FALSE, ready /\ target'}
             /\ \E event \in {"BACK", "QUIT"} : Leave(event)
  /\ UNCHANGED <<setup, mode, disk, recommendedPlan, content>>

\* ENTER on the format screen; refused, the screen is shown again.
Format ==
  /\ screen = "FORMAT"
  /\ IF plan # NoPlan /\ target
     THEN /\ ready' = TRUE
          /\ ClearApplyState
          /\ UNCHANGED <<disk, plan, target, recommendedPlan>>
          /\ Leave("CONTINUE")
     ELSE UNCHANGED <<planning, applying, formatting, recommended>> /\ Leave("CANCEL")
  /\ UNCHANGED <<setup, mode, content>>

\* classicsetup_build_apply_plan_for_mode.
BuiltApplyPlan ==
  IF plan # NoPlan /\ plan.originals = 0 /\ plan.layout # "NONE"
  THEN [disk |-> disk, layout |-> plan.layout, mode |-> mode]
  ELSE NoApply

\* classicsetup_config_advanced_plan_is_ready.
PlanIsReady == ready /\ disk # "NONE" /\ plan # NoPlan /\ target

\* How the graphical frontend's result leaves the transition screen: a
\* frontend that cannot run is told of on a screen with B and Q.
GuiEvent(result) ==
  CASE result = "FINISHED" -> {"CONTINUE"}
    [] result = "BACK"     -> {"BACK"}
    [] result = "QUIT"     -> {"QUIT"}
    [] OTHER               -> {"BACK", "QUIT"}

GuiTransition ==
  /\ screen = "GUI_TRANSITION"
  /\ IF setup = "ADVANCED" /\ PlanIsReady
     THEN applyPlan' = BuiltApplyPlan /\ ClearResults
     ELSE UNCHANGED <<applying, formatting, recommendedResult>>
  /\ UNCHANGED <<setup, mode, planning, recommendedPlan, content>>
  /\ IF setup = "ADVANCED" /\ ~PlanIsReady THEN Leave("BACK") /\ UNCHANGED handed
     ELSE \E result \in GuiResults :
            /\ \E event \in GuiEvent(result) : Leave(event)
            /\ handed' = (handed \/ result = "FINISHED")

ApplyPreview ==
  /\ screen = "APPLY_PREVIEW"
  /\ applyPlan' = BuiltApplyPlan
  /\ UNCHANGED <<setup, mode, planning, applyResult, formatting, recommended, content>>
  /\ \/ applyPlan' # NoApply /\ Leave("CONTINUE")
     \/ \E event \in {"BACK", "QUIT"} : Leave(event)

ApplyConfirmation ==
  /\ screen = "APPLY_CONFIRMATION"
  /\ \/ /\ applyPlan # NoApply
        /\ \E o \in ApplyOutcomes(applyPlan, content[applyPlan.disk]) :
             /\ applyResult' = [code |-> o.code, of |-> applyPlan]
             /\ content' = [content EXCEPT ![applyPlan.disk] = o.left]
        /\ ClearFormatApplyState
        /\ UNCHANGED <<setup, mode, planning, applyPlan, recommended>>
        /\ Leave("CONTINUE")
     \/ /\ UNCHANGED <<config, content>>
        /\ \E event \in {"BACK", "QUIT"} : Leave(event)

\* The result screens let only a success go on.
ResultScreen ==
  /\ \/ screen = "APPLY_RESULT"
     \/ screen = "FORMAT_APPLY_RESULT"
     \/ screen = "RECOMMENDED_RESULT"
  /\ UNCHANGED <<config, content>>
  /\ \/ /\ CASE screen = "APPLY_RESULT" -> applyResult.code = "SUCCESS"
             [] screen = "FORMAT_APPLY_RESULT" ->
                  applyResult.code = "SUCCESS" /\ formatResult.code = "SUCCESS"
             [] OTHER -> recommendedResult = "SUCCESS"
        /\ Leave("CONTINUE")
     \/ \E event \in {"BACK", "QUIT"} : Leave(event)

\* The format plan is built anew from a scan, which may fail.
FormatApplyPreview ==
  /\ screen = "FORMAT_APPLY_PREVIEW"
  /\ formatPlan' \in {NoApply} \union
       IF /\ applyResult.code = "SUCCESS" /\ applyPlan # NoApply /\ ready
          /\ content[disk].table = applyPlan.layout
       THEN {applyPlan} ELSE {}
  /\ UNCHANGED <<setup, mode, planning, applying, formatResult, recommended, content>>
  /\ \/ formatPlan' # NoApply /\ Leave("CONTINUE")
     \/ \E event \in {"BACK", "QUIT"} : Leave(event)

FormatApplyConfirmation ==
  /\ screen = "FORMAT_APPLY_CONFIRMATION"
  /\ \/ /\ formatPlan # NoApply
        /\ \E o \in FormatOutcomes(formatPlan, content[formatPlan.disk]) :
             /\ formatResult' = [code |-> o.code, of |-> formatPlan]
             /\ content' = [content EXCEPT ![formatPlan.disk] = o.left]
        /\ UNCHANGED <<setup, mode, planning, applying, formatPlan, recommended>>
        /\ Leave("CONTINUE")
     \/ /\ UNCHANGED <<config, content>>
        /\ \E event \in {"BACK", "QUIT"} : Leave(event)

\* A disk shown as selectable gets a plan; when the plan cannot be built or is
\* refused the screen is shown again.
RecommendedDisk ==
  /\ screen = "RECOMMENDED_DISK"
  /\ \/ \E d \in {e \in Disks : content[e].table = "EMPTY"}, l \in Layouts :
          /\ mode' = "UEFI"
          /\ disk' = d
          /\ plan' = [disk |-> d, layout |-> l, originals |-> 0]
          /\ target' = TRUE
          /\ ready' = FALSE
          /\ recommendedPlan' = [disk |-> d, layout |-> l, mode |-> "UEFI"]
          /\ applyPlan' = recommendedPlan'
          /\ ClearResults
          /\ UNCHANGED setup
          /\ Leave("CONTINUE")
     \/ UNCHANGED config /\ Leave("CANCEL")
  /\ UNCHANGED content

\* Mutant: an installation's results are not stored with its code.
InstallKeepsResults ==
  /\ screen = "INSTALL_SUMMARY"
  /\ recommendedPlan # NoApply
  /\ \E r \in RecommendedOutcomes(recommendedPlan, content[recommendedPlan.disk]) :
       /\ recommendedResult' = r.code
       /\ content' = [content EXCEPT ![recommendedPlan.disk] = r.left]
  /\ UNCHANGED <<setup, mode, planning, applying, formatting, recommendedPlan>>
  /\ Leave("CONTINUE")

\* The Install key of the summary.
Install ==
  /\ screen = "INSTALL_SUMMARY"
  /\ recommendedPlan # NoApply
  /\ \E r \in RecommendedOutcomes(recommendedPlan, content[recommendedPlan.disk]) :
       /\ recommendedResult' = r.code
       /\ applyResult' = IF r.apply = "NOT_RUN" THEN NotRun
                         ELSE [code |-> r.apply, of |-> recommendedPlan]
       /\ formatResult' = IF r.format = "NOT_RUN" THEN NotRun
                          ELSE [code |-> r.format, of |-> recommendedPlan]
       /\ formatPlan' = IF r.code \in {"FORMAT_FAILED", "SUCCESS"}
                        THEN recommendedPlan ELSE NoApply
       /\ content' = [content EXCEPT ![recommendedPlan.disk] = r.left]
  /\ UNCHANGED <<setup, mode, planning, applyPlan, recommendedPlan>>
  /\ Leave("CONTINUE")

\* Without a plan the summary is not shown and goes straight back.
InstallSummary ==
  /\ screen = "INSTALL_SUMMARY"
  /\ UNCHANGED <<config, content>>
  /\ \E event \in IF recommendedPlan = NoApply THEN {"BACK"}
                  ELSE {"BACK", "QUIT"} : Leave(event)

Ended == screen = "EXIT" /\ UNCHANGED vars

Init ==
  /\ screen = "WELCOME"
  /\ setup = "RECOMMENDED"
  /\ mode = "UEFI"
  /\ disk = "NONE"
  /\ plan = NoPlan
  /\ target = FALSE
  /\ ready = FALSE
  /\ applyPlan = NoApply /\ applyResult = NotRun
  /\ formatPlan = NoApply /\ formatResult = NotRun
  /\ recommendedPlan = NoApply /\ recommendedResult = "NOT_RUN"
  /\ content \in [Disks -> [table: {"EMPTY", "OTHER"}, filesystems: {"NONE"}]]
  /\ handed = FALSE

\* A turn of any other screen than the graphical part's.
TextTurn ==
  \/ Welcome \/ PlainScreen \/ Declined \/ SetupMode
  \/ InstallMode \/ Disk \/ Partition \/ Format
  \/ ApplyPreview \/ ApplyConfirmation \/ ResultScreen
  \/ FormatApplyPreview \/ FormatApplyConfirmation
  \/ RecommendedDisk \/ Install \/ InstallSummary

Next == GuiTransition \/ (TextTurn /\ UNCHANGED handed) \/ Ended

Spec == Init /\ [][Next]_vars

-----------------------------------------------------------------------------
ApplyPlans == [disk: Disks, layout: Layouts, mode: InstallModes] \union {NoApply}
Results    == [code: Codes, of: ApplyPlans]

\* Types of the loop's state and of the configuration's fields.
TypeOK ==
  /\ screen \in States
  /\ setup \in SetupModes
  /\ mode \in InstallModes
  /\ disk \in Disks \union {"NONE"}
  /\ plan \in [disk: Disks, layout: Layouts \union {"NONE"}, originals: {0, 1}]
              \union {NoPlan}
  /\ target \in BOOLEAN
  /\ ready \in BOOLEAN
  /\ applyPlan \in ApplyPlans
  /\ applyResult \in Results
  /\ formatPlan \in ApplyPlans
  /\ formatResult \in Results
  /\ recommendedPlan \in ApplyPlans
  /\ recommendedResult \in RecommendedCodes
  /\ content \in [Disks -> Contents]
  /\ handed \in BOOLEAN

\* The screens of one setup mode are never shown in the other, whichever way
\* Back and the mode screen are combined, and an installation plan of the
\* Recommended mode never survives into the Advanced one (state.c, config.c:13).
ScreensOfMode ==
  /\ screen \in AdvancedScreens => setup = "ADVANCED"
  /\ screen \in RecommendedScreens => setup = "RECOMMENDED"
  /\ setup = "ADVANCED" => recommendedPlan = NoApply /\ recommendedResult = "NOT_RUN"

\* Every Advanced screen after the format screen has a complete plan behind it:
\* the entry check of the graphical part never has to turn back (app.c:161).
ReadyPastFormat ==
  setup = "ADVANCED" /\ screen \in PlannedScreens => PlanIsReady

\* Whatever plan, disk or mode is changed after a result, the results the
\* screens show belong to the apply plan in force, and that is what the
\* partition plan now gives for the selected disk (config.c:42-74).
ResultsOfPlanInForce ==
  /\ applyPlan \in {NoApply, BuiltApplyPlan}
  /\ applyResult.code # "NOT_RUN" => applyResult.of = applyPlan
  /\ formatResult.code # "NOT_RUN" => formatResult.of = applyPlan
  /\ recommendedResult # "NOT_RUN" => applyPlan = recommendedPlan

\* A success that can still be shown is on the disk: a layout reported as
\* applied is its table, filesystems reported as made are there.
SuccessOnDisk ==
  /\ applyResult.code = "SUCCESS" =>
       content[disk].table = applyResult.of.layout
  /\ formatResult.code = "SUCCESS" =>
       content[disk] = [table |-> formatResult.of.layout, filesystems |-> "ALL"]
  /\ recommendedResult = "SUCCESS" =>
       applyResult.code = "SUCCESS" /\ formatResult.code = "SUCCESS"

\* A disk changes only when the user confirms it on a screen that shows this
\* disk, and is partitioned only as planned for it; filesystems are made only
\* after the very plan was applied (app.c:517-607).
ChangesAreConfirmed ==
  [][\A d \in Disks : content'[d] # content[d] =>
       /\ d = disk
       /\ \/ screen = "APPLY_CONFIRMATION"
             /\ plan.disk = d /\ applyPlan = BuiltApplyPlan
          \/ screen = "FORMAT_APPLY_CONFIRMATION"
             /\ applyResult = [code |-> "SUCCESS", of |-> formatPlan]
          \/ screen = "INSTALL_SUMMARY"
             /\ recommendedPlan.disk = d]_vars

\* The screens that write to a disk are reached only after the graphical
\* frontend has handed the installation over, by returning FINISHED.  No
\* frontend of this source tree does (gui/gtk_frontend.c:3355-3410), so with
\* them no disk is ever changed (state.c:139-150, app.c:152-234).
WritesFollowHandOver == [][content' # content => handed]_vars

\* tui/recommended.c:223: without a frontend the user of the Advanced mode is
\* told to return to the format result screen.
UnavailableReturnsToResult ==
  [][setup = "ADVANCED" /\ screen = "GUI_TRANSITION"
       => screen' \in {"GUI_TRANSITION", "NEXT_STAGE", "FORMAT_APPLY_RESULT", "EXIT"}]_vars
=============================================================================
