# ClassicSetup: TLA+ models, checks and proofs

ClassicSetup is a Windows setup program that runs on a live Linux system: text
screens plan, partition and format a disk, and a GTK front end chooses and
downloads a Windows image. This directory models the parts of it where an order
of events matters: the destructive executors against a machine that changes
under them, the running of external programs, the planning of partitions, the screen
loop with the configuration it keeps, the network page with its controller and
backend, and the graphical session with its workers. Line numbers are those of
`src/`.

## 1. The system and its parts

| Part | Code (`src/src/...`) | State | Operations | Modules |
|---|---|---|---|---|
| Target world | `core/disk.c`, `partition.c`, `system_disk.c`, `environment.c` | the disk behind a kernel name, its table, signatures, kernel listing, mounts | probes: revalidate, scan, system-disk check, mount check | `DiskWorld` |
| Partition executor | `core/apply.c` | collected safety inputs, attempt, result | check, confirm, check again, sfdisk, verify up to 10 times | `ApplyExecutor`, `ExecutorProofs` |
| Format executor | `core/format_apply.c` | partition in hand, inputs, result | for EFI, Windows, Recovery: check, find, mkfs, verify; the MSR: check, verify blank | `FormatExecutor`, `ExecutorProofs` |
| Recommended orchestration | `core/recommended.c` | plan, result | revalidate, assess, partition, build the format plan, format | `RecommendedInstall`, `StorageInstall`, `RecommendedInstallProofs` |
| Partition planning | `core/partition_plan.c`, `core/format.c`, `tui/partition_selection.c`, `tui/format_selection.c` | item table, target, format plans | create, delete, UEFI/BIOS layout, undo, choose target and filesystem, build the apply plan | `PartitionPlan`, `PartitionScreen`, `PartitionScreenProofs` |
| Screen loop | `app.c`, `state.c`, `config.c` | screen, configuration | one turn: show, answer, store, next screen | `Wizard`, `WizardProofs` |
| Text screens | `tui/*.c` | none that lasts | key loops and layout | their results only, in `Wizard` |
| Graphical session | `gui/gtk_frontend.c`, `gui/gui.c`, `gui/session.c` | session, runtime flags, widgets as drawn | discover, select, start, cancel, change source, exit, re-enter | `GuiSession`, `GuiSessionProofs` |
| Download worker | `source/download_curl.c`, `local_iso.c`, `workspace.c`, part of `retail_fido.c` | its request and result, the workspace directory, the cancel flag | resolve, create, transfer, inspect, end | `DownloadWorker`, `GuiSessionProofs` |
| Microsoft page | `source/retail_browser.c`, callbacks of `gtk_frontend.c` | stage, automation, retry | load, fail, automate, capture a download, retry | `RetailBrowser`, `GuiSessionProofs` |
| Windows catalog | `source/windows_source.c`, `microsoft_source_curl.c` | none | parse and select | not modelled |
| UUP | `source/uup.c`, `source/workspace.c` | stage, the files of a workspace | download, inspect, convert, check, extract, verify, promote | `UupAcquire`, `SourceAcquisition`, `UupAcquireProofs` |
| Process runner | `core/process.c` | pipes, child, signals sent, output kept | run with input, run cancellable | `ProcessRunner`, `ProcessRunnerProofs` |
| Network | `network/network.c`, `network_manager_gdbus.c`, pages of `gtk_frontend.c` | busy flags, snapshot, operation in its thread, page shown | refresh, connect, complete, destroy, navigate | `NetworkSession`, `NetworkSessionProofs` |

How they interact. The screen loop calls a screen and waits for it; a screen
that applies calls an executor and waits for that. The executors probe the
kernel and run tools through the process runner. The graphical session is the
one concurrent part: a GTask thread for discovery, one for downloads, one for the
network, all answering through the main loop; an atomic flag cancels the
download. Session and text screens share only what `show_common_gui`
(`app.c:152-233`) copies in and out of the configuration.

Two facts about this commit shape what is reachable. `gtk_frontend.c` returns
only BACK or ERROR and `gtk_stub.c` only UNAVAILABLE, never FINISHED, so no
screen that writes to a disk is reached from the program's start
(`WritesFollowHandOver`). And nothing sets `source_backend` to UUP: `UupAcquire`
models code that is compiled in but not selected.

The hard behaviour, listed line by line under "hazards" in `PROJECT.json`:

* the safety inputs are probed one after another while disks come and go and
  other programs partition and mount; there is no lock and no snapshot;
* a tool may fail after it has written, and the kernel may list late;
* formatting may stop halfway, and an installation may be run again after that;
* plans, targets, results and workspaces are copies that outlive what they were
  copied from, through any sequence of Back, edits and mode changes;
* worker results, cancellations, changes of source, a download captured from a
  web page and the exit race one another in the main loop;
* an external program may never read, never end, ignore SIGTERM, close its output
  or leave a helper that holds it open;
* a network operation outlives the window that started it.

## 2. Modules and how they correspond to the code

`map` in `PROJECT.json` gives the lines of every definition.

**DiskWorld** is the machine. Each probe is an operator giving the *set* of
answers the code may get, failures and silently skipped sysfs entries included
(`partition.c:221`). Everything outside the process is an action of
`Environment`: hot-plug (`Attach`), repartitioning, wiping, renumbering,
mounting, unmounting, the kernel's late re-reading. `disturbed` records whether
anything happened since the last check began and `raced` whether a tool or
verification ran while it had: without a lock the code can promise nothing about
a world that changes between the last probe and sfdisk, so the properties promise
what must hold whenever nothing did. `Imposters` are disks that share the
confirmed disk's recorded identity. `README.md:17` speaks of a strong identity,
but a disk without serial and WWN passes with equal text fields
(`recommended.c:387-388`).

**ApplyExecutor** has one action per probe, tool run and verification attempt of
`classicsetup_execute_apply_plan`: the check is made twice (`acheck`), objections
are evaluated in the order of the code, and every early return is a result.
**FormatExecutor** does the same for `classicsetup_execute_format_apply_plan_with_ops`:
the three filesystems in turn, each with two checks and a verification, then the
MSR. **RecommendedInstall** runs both, as
`classicsetup_execute_recommended_plan_with_ops` does, and may be started again
after a result. **StorageInstall** is its abstract specification: a run takes the
disk through seven stages in order, and each outcome may be reported only at its
stages. The refinement mapping (`installStage`, `installOutcome`) is computed
from nothing but the result structures the program shows and `awrote`.

**PartitionPlan** has the planner's operations as operators from plans to the set
of plans they can leave (empty when the code refuses). A plan is a set of items,
since the code keeps its array sorted by first sector. **PartitionScreen** are the
screens and the configuration fields around it.

**Wizard** has one action per turn of the loop for each screen. The executors are
what section 4 shows them to be (a code, and what it says of the disk), a plan is
the Windows layout it can be applied as, and results carry, as a history
variable, the apply plan they were got with.

**DownloadWorker** is the download thread: `worker.at` is where it is, `mailbox`
the messages it has posted to the main loop. It is first in, first out, because
`g_main_context_invoke` and a GTask's completion have the same default priority in
the same context. **RetailBrowser** is the Microsoft page's stage and its
automation. **GuiSession** composes both with the session and the main loop: one
action per callback, and the redraw that callback ends in is part of it:
`update_download_page` (2709) and with it `UpdateSourceControls` run at the start
of a download, in every progress message and at its end. `ui.editable` is how
the source page's widgets were last drawn, because a widget can be clicked as it
was drawn although the state has moved on; `update_source_controls` draws them
locked while a task runs (566-568). An image without a "Default Language" in its metadata is not
checked for its language; the model's set of images accepted is therefore the one
an inspection may accept.

**ProcessRunner** is one call of `core/process.c`: the parent step by step in both
ways to call, the program and a helper it has left in its process group, both
pipes. What a program is like is chosen at the start: whether it reads its input
before it ends and leaves a helper, and of program and helper each apart, whether
it ends at all and heeds SIGTERM. Whether and when they write or close the output
is open, and they may write for ever: units of output are numbered as they are
written, so that what is kept can be compared with what was written, and from
`MaxWritten` on bear that number. `Grace` counts polls, as the code does, not
time.

**UupAcquire** is the UUP branch of the download worker: a step per tool and per
check, the workspace's files as far as one step can mislead the next (the
converter's temporary directory is the one the image is extracted into). It is
shown to implement **SourceAcquisition**, what the session is promised of a
workspace: complete with the image alone in it, or otherwise empty, and cancelled
only when that was asked for.

**NetworkSession** is the network page's controller and the NetworkManager backend
with its thread and its completion in the main loop, together with the navigation
that asks for a connection. The window can be closed at any moment; the operation
of an entry that has been left (`destroyed`) lives on in its thread, beside the
backend of the next entry.

Modules named MC give TLC its small sets; all but those named Proofs
are model-checked.

## 3. The runs

| Run | Distinct states | Bounds, and why they are enough |
|---|---|---|
| `apply` | 56,091 | two disks, so that one can take the other's name; three outside events, so that a disk can go and another come, and a table be written and re-read; two verification attempts, so that one can fail and the next succeed; a host for each single objection and one without |
| `format` | 5,379,758 | the four partitions of the layout, two disks, three outside events (another program's wiping of the table among them), residual signatures or none, a host for each single objection |
| `recommended` | 716,520 | one disk that starts raw, a good host, two events, two runs one after the other: the second meets what the first left |
| `partition` | 188,603 | three disks of 10, 12 and 14 sectors, two sectors to a megabyte, so that a partition can end between megabytes; beside the odd partition just a BIOS layout fits on one and just a UEFI layout on another; seven items, so that the table fills; hand-made sizes of one and four megabytes, of which the second does not always fit, and one whose sectors wrap a word of four bits |
| `wizard` | 48,716 | two disks, two layouts, both modes, every answer of the graphical part |
| `gui_session` | 301,322 | two releases, one workspace directory; downloads, changes of source, exits and returns as often as one likes |
| `network` | 257,181 | two networks, two entries of the graphical part, so that an operation of the first completes in the second; three attempts to find the connection after a connect, of the code's number |
| `process` | 130,422 | all forty kinds of programs; an input that fills its pipe, any amount of output, of which five units are told apart from the rest, over a pipe of two, of which three are kept, read two at a time: the pipe, the buffer and a chunk each overflow; a grace of two polls |
| `uup` | 1,247 | two builds, of which one is wanted; two candidate directories; any number of tries |

What they show:

* `apply`: sfdisk writes only the confirmed, unmounted, empty disk in an unlocked
  VM (`WritesOnlySafeTarget`); BLOCKED means untouched and VERIFY_FAILED means
  written (`BlockedLeftDiskAlone`); SUCCESS means the layout is there
  (`ReportsSuccessTruthfully`).
* `format`: a formatter writes only the partition checked for it
  (`FormatsOnlyCheckedPartition`); a stopped run says exactly which filesystems
  exist and which partitions are as they were (`PartialFormatLocated`); SUCCESS
  means all of them (`FormatSuccessMeansInstalled`).
* `recommended`: the composition implements the abstract installation
  (`ImplementsStorageInstall`), SUCCESS is real (`InstallSuccessIsReal`), a
  second run never partitions a disk the first has formatted
  (`NeverRepartitionsFormatted`), and every run ends, whichever executor it is in
  (`InstallTerminates`).
* `partition`: no partition of the disk is forgotten (`OriginalsKept`); no edit
  the screen offers ends in an invalid plan, and of all numbers that can be typed
  only those up to the maximum shown are sizes (`EditsAccepted`); a UEFI layout alone
  on an empty disk can always be applied (`UefiLayoutApplies`); the target and the
  format plans are of the plan as it is (`TargetCurrent`, `ReadyCoversPlan`);
  Undo Layout gives back the plan there was (`UndoRestores`).
* `wizard`: screens of one mode never run on the other's plans (`ScreensOfMode`),
  nothing past the format screen lacks a plan (`ReadyPastFormat`), results are of
  the plan in force and on the disk (`ResultsOfPlanInForce`, `SuccessOnDisk`), and
  a disk changes only where the user confirms it (`ChangesAreConfirmed`), and only
  after a graphical frontend has returned FINISHED (`WritesFollowHandOver`).
* `gui_session`: the summary offers the image of the release selected now
  (`SummaryIsReal`); a download ends under the selection it was started for
  (`DownloadOfSelection`); no half-done directory is left without an owner
  (`WorkIsOwned`); a cancel others wait for is neither lost nor overtaken
  (`CancelStands`); there is exactly one download or none (`OneDownload`); an
  exit asked for happens (`ExitHappens`).
* `network`: nobody is past the network page without a connection as last
  reported, however a completion and a click cross (`PastNetwork`); a controller
  or backend is busy exactly while it has an operation, and a completion that
  comes after its window has gone disturbs nothing (`BusyIsOperation`); whatever is
  asked is answered (`Answered`).
* `process`: of the output the callers get the part they look at, with nothing
  missing unnoticed (`OutputKept`); a call with input returns if the program and
  what it leaves behind end (`RunEnds`); a cancelled one returns, whatever the
  program does, with one exception: a helper that has outlived the program without
  a SIGKILL and never stops writing holds it in the loop that reads the rest of the
  output (`CancelReturns`); no signal is sent to a group whose leader has been waited for (`SignalsReachTheProgram`).
* `uup`: the image announced as verified is the one in the workspace
  (`VerifiedIsBuilt`), and the worker keeps the promise of `SourceAcquisition`
  (`Acquires`).

`TypeOK` of `Wizard`, `GuiSession`, `NetworkSession`, `ProcessRunner` and
`UupAcquire` and `RecommendedTypeOK` are conjuncts of the inductive invariants of section 4, where
they are proved; the runs spend their properties elsewhere.

`CHECK_DEADLOCK FALSE` appears in the two configurations of `MCRecommended`, whose
number of runs is bounded, in `MCNetwork`, whose number of entries is, and in
`MCProcess`, where one call ends: there the system really stops.

The selection is fixed during a download, and what fixes it is the redraw, not
the guard in `gui.c`: a worker's last progress message leaves the state COMPLETE,
FAILED or CANCELLED while the result is still on its way, and
`classicsetup_gui_source_change_requirement` then allows a change; the source page's widgets,
drawn locked as long as the task is active, do not. `download_finished` relies on it
when it stores a result under the selection it finds. `Stored` keeps
what the code would do otherwise (a selection that no longer matches its release,
as good as none), and `DownloadOfSelection` shows that it never comes to that.

### Disagreements found

| Run | What the repository says | What the code does |
|---|---|---|
| `raw_disk` | Recommended "only auto-installs to a disk that policy classifies as safely raw and empty" (`README.md:5-6`) | `recommended.c:309` calls a disk raw from its partition count alone; a filesystem or an LVM volume on the whole disk is not seen and is overwritten |
| `gui_unavailable` | "Your completed storage preparation is preserved. Return to the format result screen" (`tui/recommended.c:223`) | `app.c:163` clears the apply and format results, and Back leads to FORMAT |
| `gui_reentry` | the sidebar says "Windows image ready" (`gtk_frontend.c:2689`) | `app.c:204` restores the COMPLETE status but not the verified source: the summary is never ready and the start button stays disabled |

Seen while modelling, and not runs of their own:

* `README.md:44-48` draws the Advanced flow with Partition and Format Apply before
  the GUI transition; `state.c:139` goes from FORMAT to GUI_TRANSITION, and the
  apply screens are reached only backwards from what follows it. The flow drawn is
  the mutant `NextStateApplies`, under which `WritesFollowHandOver` does not hold.
* The state CONNECTED is set with full Internet access only
  (`network_manager_gdbus.c:116-159`), so the page's "Internet access has not been
  verified yet" (`gtk_frontend.c:1449`) is never shown; `tests/network_test.c:108-115`
  makes that combination by hand.
* A download starts on the last snapshot of the network (`gtk_frontend.c:1249`,
  `2391`); nothing asks again.
* `merge_access_point` (`network_manager_gdbus.c:160`) replaces the connected entry
  of a network by a stronger access point of the same name that is not connected.
* A helper that ignores SIGTERM survives a leader that heeds it
  (`process.c:256-272`): SIGKILL is sent only while the leader has not been waited
  for. The loop after that (`process.c:274-279`) reads until the pipe is empty, has
  no bound and asks no cancel callback; if the helper keeps writing, the call stays
  there, cancelled or not. `cancel ~> done` alone is violated for that reason, and
  `CancelReturns` states the exception.
* `classicsetup_uup_discover`, `classicsetup_uup_verify_wim` and the functions for a
  verified `install.wim` are called by tests only. When the promotion of a UUP image
  fails, `verified_source` stays filled in a result that says FAILED.

## 4. What is proved

Every safety property the passing runs check, invariants, action properties and
refinements alike, is also a theorem: TLAPS proves it of the specification
for all values of the constants the assumptions allow. In the table, the inductive
invariant is what the other theorems of the module are drawn from; it is a theorem
itself (`...Hold` or `...Holds`), and TLC was asked first whether it holds on the
run's instance.

| Module | Of | Inductive invariant | Theorems |
|---|---|---|---|
| `ExecutorProofs` | `ApplyExecutor` | `ApplyTypeOK /\ ApplyCheckInv` | `ApplyTypeCorrect`, `ApplyBlockedLeftDiskAlone`, `ApplyWritesOnlySafeTarget`, `ApplyReportsSuccessTruthfully` |
| | `FormatExecutor` | `FormatInv` | `FormatTypeCorrect`, `FormatPartialLocated`, `FormatterWritesChecked`, `FormatSuccessInstalled` |
| `RecommendedInstallProofs` | `RecommendedInstall` | `RecommendedInv` | `RecommendedTypeCorrect`, `RecommendedImplements` (of `StorageInstall`), `RecommendedSuccessIsReal`, `RecommendedNeverRepartitions` |
| `PartitionScreenProofs` | `PartitionScreen` | `PlanInv` | `PlanTypeCorrect`, `PlanOriginalsKept`, `PlanTargetCurrent`, `PlanReadyCovers`, `PlanUefiLayoutApplies`, `PlanUndoRestores`, `PlanEditsAccepted` |
| `WizardProofs` | `Wizard` | `WizardInv` | `WizardTypeCorrect`, `WizardScreensOfMode`, `WizardReadyPastFormat`, `WizardResultsOfPlan`, `WizardSuccessOnDisk`, `WizardChangesAreConfirmed`, `WizardWritesFollowHandOver` |
| `GuiSessionProofs` | `GuiSession` with `DownloadWorker` and `RetailBrowser` | `TypeOK /\ GuiInv` | `GuiTypeCorrect`, `GuiSummaryIsReal`, `GuiDownloadOfSelection`, `GuiWorkIsOwned`, `GuiCancelStands`, `GuiOneDownload` |
| `NetworkSessionProofs` | `NetworkSession` | `NetworkInv` | `NetworkPastNetwork`, `NetworkBusyIsOperation` |
| `ProcessRunnerProofs` | `ProcessRunner` | `RunnerInv` | `RunnerTypeCorrect`, `RunnerOutputKept`, `RunnerSignalsReachProgram` |
| `UupAcquireProofs` | `UupAcquire` | `UupInv` | `UupVerifiedIsBuilt`, `UupAcquires` (of `SourceAcquisition`) |

**Assumptions.** Each module's constants have one, next to their declaration, and
TLC evaluates it in every run: `WorldAssumption` (the selected disk is a disk,
imposters are others), `VerifyAssumption`, `RunsAssumption`, `RunnerAssumption`
(an input fits its pipe, one chunk fits the buffer), `NetworkAssumption`,
`GuiAssumption`, `NamesAssumption`, `WorkerAssumption`, `UupAssumption`,
`PlanAssumption` (sizes are positive) and `DisksAssumption`. The last one says that
a disk's number of sectors is below the size of a word, which `disk.c:52-70` grants
by computing its bytes in one, and that a table lists finitely many partitions.
One theorem has a premiss of its own: `RecommendedNeverRepartitions` supposes that no
signature left over from earlier use is one of FAT32 or NTFS; a filesystem that was
there before could otherwise not be told from one the run has made. The run
`recommended` checks the property with such a choice of `Residues`.

**The executors.** `WritesOnlySafeTarget` speaks of the step that runs sfdisk and is
not inductive: nothing in that step's guard says what was found before.
`ApplyCheckInv` carries it there. `IdentityKnown`, `SystemKnown` and
`TargetKnown` say, at each point past a probe, that what the probe found is so or
the world has been disturbed since the check began; each is established by its
probe's set of answers, kept by the next probe, and made trivially true by every
outside event (`EnvironmentDisturbs`). `ClearMeansSafe` turns "no objection" into
the conjunction of the answers, by evaluating the record of objections.
`VerifiedDiskKnown` does the same for a verification attempt, and `WroteKnown`
ties the result codes to whether a table was written. The second of the two
checks resets `disturbed`, so nothing is assumed of the time before it.
`FormatInv` repeats this for each of the three filesystems (`FormatCheckInv`) and adds
what the contents of the disk are compared with its start: the filesystems
counted as completed are there, those past the failed one and the MSR are as they
were (`FormatContents`), in an execution in which no tool ran in a changed world. A
formatter writes through what the kernel lists, so `ListingHonest` is part of it:
ranges are only listed of a disk whose table has them. That the
formatter's step is the only one of the executor that writes (`CollectingKeepsContents`,
`FormatterWritesSlot`) is what keeps it.

**The installation.** `RecommendedInv` is both invariants and the place of each
executor in the orchestration (`ApplyPlace`, `FormatPlace`): in particular, formatting
is only reached with a partition executor that reported SUCCESS and wrote.
`RecommendedImplements` is the refinement of `StorageInstall`, one lemma for the steps of
each executor and one for the orchestration: every step moves the mapped stage on by
one, reports an outcome the stage allows, or stutters. `NeverRepartitions` needs
one more fact, that filesystems made are only in partitions a table lists; it is
proved from the invariant under the premiss above.

**Planning.** `PlanInv` says that a plan is *sound*: finite, valid, and its free
space the one `Rebuild` computes from its partitions. Without the last part
nothing could be said of an edit, since each starts in an item of free space. The
proof is in layers: sectors and megabytes (rounding, and that the arithmetic of a
word does not wrap for a disk and a size accepted); the gaps between partitions;
what each planner operation leaves; then one lemma per screen action.
`LayoutKnown` (the plan is the earlier one with a complete layout in it) is what
makes `UndoRestores` hold. `EditsAccepted` also asks that whatever the
screen offers leaves a plan, that is that the code's own validation never refuses
it: a gap of free space is found on either side of a new partition as the least and
the greatest number with a property (by well-foundedness of <, as no induction
principle can be cited), and the number of items after an edit is bounded by
cardinality (`OneMore`, `RebuiltSize`).

**The screen loop.** `FlowInv` is about screens (which mode shows them, what they
have behind them), `DataInv` about the configuration: a result has the apply plan in
force, a format plan the same with a successful partition result, and the plan is of the
selected disk. The two depend on each other only through the disk; results are on
the disk because changing the disk or the plan resets them.

**The graphical session.** `GuiInv` says who owns what: a download task is a
running worker or its result, which is the last message (`WorkerInv`); a result and a
session's workspace tell what is in the directory (`ResultInv`, `SessionInv`); a
half-done directory is the worker's, its result's or the session's (`OwnedInv`);
the configuration, which is read once on the way in, says of a directory only what
is so (`ConfigInv`); and while a task is active the widgets of the source are drawn
locked and worker and result have the selection of the session (`ChoiceInv`). The
lemmas take one callback each; those for drawing and for the page show once that
they leave the work alone.

**The network.** Of the operations that may still end, only that of the present
entry is heard (`EntriesInOrder`, `PresentEntry`), a backend is busy exactly while
its operation is in flight (`OperationsKnown`), and the Next button is drawn from the
snapshot still held (`NextAsDrawn`).

**The process runner.** The units of output are numbered, so pipe and buffer are
*windows* of consecutive numbers, and appending, cutting off and dropping the
oldest are three lemmas about windows. `RunnerInv` says which window the pipe is
(the latest, `PipeIsLatest`) and which the output is (the first ones, or the last
ones, by the way of calling, `OutputIsRead`); `CallPlaces` says a leader is waited for
only when nothing is signalled any more. The windows are spoken of as long as fewer
than `MaxWritten` units were written; since `MaxWritten` is any positive number, every
finite output is covered.

**UUP.** What is known of the image grows with the checks (`ImageKnown`). The
refinement maps the workspace's files and the result to what `SourceAcquisition`
promises.

**Only model-checked.** The five liveness properties, `InstallTerminates`, `RunEnds`,
`CancelReturns`, `Answered` and `ExitHappens`: fairness and ENABLED are out of the prover's reach.
The properties of the three runs that expect a violation are false, and have
nothing to prove. What is computed by recursion over data cannot be proved either,
as no installed backend instantiates the induction theorems' operator; no module
here declares a RECURSIVE operator, and where the code has a loop over items the
models quantify over a set, so none is closed to proof.

## 5. Fairness

* `FairRecommendedSpec`: weak fairness of the installation's own next step. It is a sequential program in a running process, and
  the tools and probes it waits for are assumed to return: `classicsetup_run_process`
  has no limit of time, and a hanging tool hangs the program (a listed hazard,
  which `RunEnds` delimits). No fairness is asked of the environment.
* `ProcessRunner!Fairness`: the parent is scheduled; a program that comes to an end
  does so, reads what it is given, and dies of a signal it does not ignore. Nothing
  makes a program write, stop writing, close its output or end otherwise, and nobody
  has to cancel.
* `NetworkSession!Fairness`: the operation's thread goes on, since each of its
  D-Bus calls has a time limit and its attempts are counted, and the main loop
  dispatches completions. Nothing is asked of the user or of the network.
* `GuiSession!Fairness`: weak fairness of the worker and of the main loop's own
  work, none of the user, the page or the network. A transfer without a limit of
  time could stall, but `ExitHappens` starts from a pending exit, whose cancel
  flag curl's progress callback and the process runner poll; `CancelStands` is
  what shows the flag is still set then. Discovery reads a built-in catalog.
* `Wizard` and `PartitionScreen` only move when the user does, and `UupAcquire` is
  shown to be safe: no liveness is claimed of them.

## 6. What is left out, and the plan

Not modelled, and why: parsing of catalogs, links, sysfs and DMI text (functions
of their input, covered by the repository's tests; their possible answers are in
the models); build discovery, the command lines and the parsing of reports of UUP;
drawing and key loops; the disk page of the GUI; the assessment text of the Recommended disk screen; third-party
scripts and build trees. Abstracted: byte counts, curl's retries, hashes; sector
arithmetic is exact where the code's is 64 bits wide with guards, but for the one
number that does not come from a disk, the size typed: a disk's size in bytes is a
word already (`disk.c:52-70`), so sums of sectors within it stay far below 2^64.

The order was chosen by what can be lost: the executors first, then what decides
what they are given, then the session. What comes next, in order:

1. The building of the plan in `recommended.c`, in front of `RecommendedInstall`.
2. `GuiSession` with `NetworkSession`'s controller in place of a connection that
   comes and goes as it likes, if TLC can be kept within its time.
3. Proofs of the safety halves of the liveness properties: that an installation, a
   call of the process runner and a network operation each take a step from every
   state they have not ended in, and that a bound on what is left of them never
   grows.

## 7. Running

In this directory: `tlc -workers 2 -config MCApply.cfg MCApply.tla` (each run's
module and configuration are in `PROJECT.json`), `tlapm ExecutorProofs.tla`.
Each run takes at most about three minutes on two workers, each proof module at
most a few minutes from nothing. `PROJECT.json` also lists,
for every property, a plausible bug in the code (`mutants`) under which TLC finds
that property violated.
