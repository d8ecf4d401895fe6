----------------------------- MODULE GuiSession -----------------------------
(***************************************************************************)
(* The graphical part while the user chooses, downloads, changes his mind  *)
(* or leaves (src/src/gui/gtk_frontend.c, src/src/gui/gui.c), with its     *)
(* download worker, its discovery worker and the Microsoft page: every     *)
(* callback of the main loop is an action, with the redraw it ends in.  Of *)
(* the pages only that of the source is told from the others.  The network *)
(* may allow an operation or not.  The backend is MICROSOFT_RETAIL, the    *)
(* only one the front end ever selects.                                    *)
(***************************************************************************)
EXTENDS DownloadWorker, RetailBrowser, FiniteSets

VARIABLES
  session,   \* struct classicsetup_gui_session
  browser,   \* the Microsoft page
  ui,        \* struct classicsetup_gui_runtime: tasks and pending requests
  config     \* what struct classicsetup_config keeps between two visits

vars == <<session, browser, ui, config, cancel, worker, mailbox, folders>>

Catalogs == {"IDLE", "DISCOVERING", "READY", "ERROR"}

\* The page of the source, or another one.
Pages == {"SOURCE", "OTHER"}

Sessions ==
  [selected : Releases \cup {NoRelease}, mode : Modes,
   localIso : BOOLEAN, fido : BOOLEAN, webview : BOOLEAN,
   catalog : Catalogs, download : States,
   verified : Releases \cup {NoRelease}, workspace : Workspaces]

\* editable: the widgets of the source are sensitive, as they were last drawn.
Runtimes ==
  [running : BOOLEAN, quitting : BOOLEAN, source_task : BOOLEAN,
   download_task : BOOLEAN, exit_pending : BOOLEAN,
   source_change_pending : BOOLEAN, dialog : BOOLEAN, page : Pages,
   editable : BOOLEAN]

Configs ==
  [selected : Releases \cup {NoRelease}, download : States,
   workspace : Workspaces]

GuiTypeOK ==
  session \in Sessions /\ browser \in Browsers /\ ui \in Runtimes
  /\ config \in Configs

TypeOK == WorkerTypeOK /\ GuiTypeOK

Nothing == [selected |-> NoRelease, download |-> "NOT_STARTED",
            workspace |-> NoWorkspace]

\* classicsetup_gui_session_reset_for_entry, and what show_common_gui puts
\* back from the configuration.
Entered(c) ==
  [selected |-> c.selected, mode |-> "AUTOMATIC", localIso |-> FALSE,
   fido |-> FALSE, webview |-> FALSE,
   catalog |-> IF c.selected = NoRelease THEN "IDLE" ELSE "READY",
   download |-> c.download, verified |-> NoRelease, workspace |-> c.workspace]

Opened ==
  [running |-> TRUE, quitting |-> FALSE, source_task |-> FALSE,
   download_task |-> FALSE, exit_pending |-> FALSE,
   source_change_pending |-> FALSE, dialog |-> FALSE, page |-> "OTHER",
   editable |-> FALSE]

(***************************************************************************)
(* gui.c and workspace.c.                                                  *)
(***************************************************************************)
Busy == {"PREPARING", "DOWNLOADING", "VERIFYING"}

\* Mutant: a verified image does not keep its source.
RequirementOfWorkOnly(s) ==
  IF s.download \in Busy THEN "CANCEL_DOWNLOAD" ELSE "ALLOWED"

Requirement(s) ==
  IF s.download \in Busy THEN "CANCEL_DOWNLOAD"
  ELSE IF s.workspace.verified \/ s.verified # NoRelease THEN "DISCARD_VERIFIED"
  ELSE "ALLOWED"

SelectionIsValid(s) ==
  /\ s.selected # NoRelease
  /\ s.mode = "EXISTING_ISO" => s.localIso

SummaryIsReady(s) ==
  /\ SelectionIsValid(s)
  /\ s.download = "COMPLETE"
  /\ s.workspace.verified \/ s.mode = "EXISTING_ISO"
  /\ s.verified # NoRelease

\* classicsetup_workspace_cleanup_after_install(w, false): a rejected image
\* that is kept keeps the directory and the workspace.
CleanedFolders(w) ==
  IF w.folder = NoFolder \/ w.retained THEN folders
  ELSE [folders EXCEPT ![w.folder] = "absent"]

CleanedWorkspace(w) == IF w.retained THEN w ELSE NoWorkspace

\* classicsetup_gui_discard_downloaded_source.
Discarded(s) ==
  [s EXCEPT !.workspace = CleanedWorkspace(@), !.download = "NOT_STARTED",
            !.verified = NoRelease]

\* reset_retail_acquisition.
Reacquire(s) == [s EXCEPT !.fido = FALSE, !.webview = FALSE]

(***************************************************************************)
(* What the user can reach: nothing while a dialog is open or the window   *)
(* waits for its workers, and the source only on its page, as it is drawn. *)
(***************************************************************************)
Runs == ui.running /\ ~ui.quitting

UserActs == Runs /\ ~ui.exit_pending /\ ~ui.dialog

Active == ui.download_task \/ ui.source_task

Idles(u) == ~u.download_task /\ ~u.source_task

\* Mutant: the widgets are drawn as gui.c allows a change, task or not.
EditableDuringTasks(s, u) == Requirement(s) = "ALLOWED"

\* update_source_controls: a choice that is missing is completed with the
\* first one there is, and the widgets are drawn, whatever page is shown.
\* update_download_page ends in it.
Editable(s, u) == Requirement(s) = "ALLOWED" /\ Idles(u)

Completions(s, u) ==
  IF s.catalog = "READY" /\ s.selected = NoRelease /\ Editable(s, u)
  THEN {[Reacquire(s) EXCEPT !.selected = r] : r \in Releases}
  ELSE {s}

Drawn(s, u) == [u EXCEPT !.editable = Editable(s, u)]

UpdateSourceControls(s, b, u) ==
  /\ session' \in Completions(s, u)
  /\ browser' = IF session' = s THEN b ELSE StatusReset(b)
  /\ ui' = Drawn(s, u)

\* A callback that ends in the redraw.
Redraws(s, b) == UpdateSourceControls(s, b, ui) /\ UNCHANGED <<config, workerVars>>

Init ==
  /\ WorkerInit
  /\ config = Nothing
  /\ session = Entered(Nothing)
  /\ browser = NewBrowser
  /\ ui = Drawn(session, Opened)
-----------------------------------------------------------------------------
(***************************************************************************)
(* Discovery of releases, and the choice among them.                       *)
(***************************************************************************)

\* start_source_discovery.
Discover(s, b, u) ==
  IF Active THEN session' = s /\ browser' = b /\ ui' = u
  ELSE UpdateSourceControls(
         [s EXCEPT !.selected = NoRelease, !.catalog = "DISCOVERING"], b,
         [u EXCEPT !.source_task = TRUE])

\* set_page(WINDOWS_VERSION); where a task keeps a discovery from starting
\* the widgets are as they were.
ShowSource ==
  /\ UserActs /\ ui.page = "OTHER"
  /\ LET u == [ui EXCEPT !.page = "SOURCE"]
     IN  IF session.catalog = "IDLE" THEN Discover(session, browser, u)
         ELSE UpdateSourceControls(session, browser, u)
  /\ UNCHANGED <<config, workerVars>>

\* The page of the download, which is redrawn, or any other.
ShowOther ==
  /\ UserActs /\ ui.page = "SOURCE"
  /\ LET u == [ui EXCEPT !.page = "OTHER"]
     IN  \/ UpdateSourceControls(session, browser, u)
         \/ ui' = u /\ UNCHANGED <<session, browser>>
  /\ UNCHANGED <<config, workerVars>>

\* The widgets were drawn editable, and gui.c finds the state of the download
\* to allow the change.
MayChoose ==
  /\ UserActs /\ ui.page = "SOURCE" /\ ui.editable
  /\ Requirement(session) = "ALLOWED"

\* on_version_toggled.
SelectVersion ==
  /\ MayChoose
  /\ Discover([Reacquire(session) EXCEPT !.selected = NoRelease, !.catalog = "IDLE"],
              StatusReset(browser), ui)
  /\ UNCHANGED <<config, workerVars>>

\* Mutant: asked before the task that ends is marked inactive.
FinishExitTooEarly(u) == [u EXCEPT !.quitting = @ \/ (u.exit_pending /\ ~Active)]

\* finish_pending_exit, when no task is active any more.
FinishExit(u) == [u EXCEPT !.quitting = @ \/ u.exit_pending]

\* source_discovery_finished.
DiscoveryFinished ==
  /\ Runs /\ ui.source_task
  /\ \E found \in {"READY", "ERROR"} :
       UpdateSourceControls([session EXCEPT !.catalog = found], browser,
                            FinishExit([ui EXCEPT !.source_task = FALSE]))
  /\ UNCHANGED <<config, workerVars>>

\* on_release_selected and on_language_selected, which leave the rest of the
\* choice to update_source_controls, and on_architecture_selected.
SelectRelease(r) ==
  /\ MayChoose /\ session.catalog = "READY"
  /\ \/ Redraws([Reacquire(session) EXCEPT !.selected = NoRelease],
                StatusReset(browser))
     \/ /\ session' = [Reacquire(session) EXCEPT !.selected = r]
        /\ browser' = StatusReset(browser)
        /\ UNCHANGED <<ui, config, workerVars>>

\* on_retail_source_toggled.  Whether the directory holds an ISO file is seen
\* then.
SelectMode(m) ==
  /\ MayChoose /\ m # session.mode
  /\ \E found \in BOOLEAN :
       Redraws([Reacquire(session) EXCEPT !.mode = m,
                                          !.localIso = m = "EXISTING_ISO" /\ found],
               StatusReset(browser))

\* on_local_iso_refresh_clicked: the selected file is forgotten whatever the
\* state, the first one is selected if gui.c allows the change.
RefreshIso ==
  /\ UserActs /\ ui.page = "SOURCE" /\ ui.editable /\ session.mode = "EXISTING_ISO"
  /\ \E found \in BOOLEAN :
       Redraws([session EXCEPT !.localIso = found /\ Requirement(session) = "ALLOWED"],
               browser)
-----------------------------------------------------------------------------
(***************************************************************************)
(* Starting, watching and ending a download.                               *)
(***************************************************************************)
\* The guards of start_download_release.
CanStart(s, online) ==
  /\ ~Active /\ SelectionIsValid(s)
  /\ s.mode = "EXISTING_ISO" \/ online

\* struct download_task_request of the worker.
Request(s, resolved) ==
  [at |-> IF resolved \/ s.mode = "EXISTING_ISO" THEN "create" ELSE "begin",
   mode |-> s.mode, release |-> s.selected, folder |-> NoFolder]

\* Mutant: an unverified workspace of an earlier try is forgotten.
StartKeepsFolder(s, b, resolved) ==
  /\ UpdateSourceControls(
       [s EXCEPT !.download = "PREPARING", !.workspace = NoWorkspace], b,
       [ui EXCEPT !.download_task = TRUE])
  /\ cancel' = FALSE
  /\ worker' = Request(s, resolved)
  /\ UNCHANGED <<config, mailbox, folders>>

\* start_download_release: the workspace of a download that was not verified
\* is cleaned, the cancel flag cleared, the widgets are drawn locked and the
\* worker is started.
Start(s, b, resolved) ==
  /\ UpdateSourceControls(
       [s EXCEPT !.download = "PREPARING",
                 !.workspace = IF @.verified THEN @ ELSE CleanedWorkspace(@)], b,
       [ui EXCEPT !.download_task = TRUE])
  /\ folders' = IF s.workspace.verified THEN folders ELSE CleanedFolders(s.workspace)
  /\ cancel' = FALSE
  /\ worker' = Request(s, resolved)
  /\ UNCHANGED <<config, mailbox>>

StartOrNot(s, b, resolved, online) ==
  IF CanStart(s, online) THEN Start(s, b, resolved)
  ELSE /\ session' = s /\ browser' = b
       /\ UNCHANGED <<ui, config, workerVars>>

\* start_retail_browser.
OpenPage(s, online) ==
  IF ~ui.download_task /\ SelectionIsValid(s) /\ online
  THEN Redraws([s EXCEPT !.download = "PREPARING"], Load(browser))
  ELSE session' = s /\ UNCHANGED <<browser, ui, config, workerVars>>

\* The start button, as update_download_page leaves it.
StartSensitive ==
  SelectionIsValid(session) /\ ~ui.download_task /\ session.download # "COMPLETE"

\* classicsetup_gui_restart_retail_acquisition, asked for by the button.
Restarts ==
  /\ session.mode = "AUTOMATIC"
  /\ session.download \in {"CANCELLED", "FAILED"}
  /\ Requirement(session) = "ALLOWED"

\* on_download_start_clicked: an existing ISO is verified; AUTOMATIC tries
\* Fido once; then, and in MICROSOFT_PAGE, the page is opened.
ClickStart ==
  /\ UserActs /\ ui.page = "OTHER" /\ StartSensitive
  /\ \E online \in BOOLEAN :
       LET s == IF Restarts THEN [Reacquire(session) EXCEPT !.download = "NOT_STARTED"]
                ELSE session
           b == IF Restarts THEN StatusReset(browser) ELSE browser
           fidoFirst == s.mode = "AUTOMATIC" /\ ~s.fido
       IN  \/ s.mode = "EXISTING_ISO" /\ StartOrNot(s, b, FALSE, online)
           \/ fidoFirst /\ StartOrNot([s EXCEPT !.fido = TRUE], b, FALSE, online)
           \/ /\ s.mode # "EXISTING_ISO" /\ ~fidoFirst
              /\ OpenPage([s EXCEPT !.webview = TRUE], online)

\* on_download_cancel_clicked.
ClickCancel ==
  /\ UserActs /\ ui.page = "OTHER" /\ ui.download_task
  /\ cancel' = TRUE
  /\ UNCHANGED <<session, browser, ui, config, worker, mailbox, folders>>

\* progress_on_main, retail_progress_on_main.
HandleProgress ==
  /\ Runs /\ mailbox # <<>> /\ Head(mailbox).kind = "progress"
  /\ UpdateSourceControls([session EXCEPT !.download = Head(mailbox).state], browser, ui)
  /\ mailbox' = Tail(mailbox)
  /\ UNCHANGED <<config, cancel, worker, folders>>

\* The worker's release is stored at the index selected now: were another
\* one selected, the selection would no longer match its release and be as
\* good as none.
Stored(r) ==
  [session EXCEPT !.download = r.state, !.workspace = r.workspace,
                  !.verified = r.verified,
                  !.selected = IF @ = r.release THEN @ ELSE NoRelease]

\* classicsetup_gui_retail_start_webview_once, asked after a failed Fido.
FallsBack(r) ==
  /\ r.state = "FAILED" /\ r.source
  /\ session.mode = "AUTOMATIC" /\ session.fido /\ ~session.webview

\* download_finished: the result is stored, a change of source that waited
\* for it discards it, the page is redrawn, AUTOMATIC may go on to the
\* Microsoft page, and an exit that waited for it happens.
HandleResult ==
  /\ Runs /\ mailbox # <<>> /\ Head(mailbox).kind = "result"
  /\ LET r == Head(mailbox)
         s == [Stored(r) EXCEPT !.webview = @ \/ FallsBack(r)]
         changes == ui.source_change_pending
         kept == IF changes THEN Discarded(s) ELSE s
         u == [ui EXCEPT !.download_task = FALSE, !.source_change_pending = FALSE]
     IN  \E online \in BOOLEAN, t \in Completions(kept, u) :
           LET opens == FallsBack(r) /\ online /\ SelectionIsValid(t)
               b == IF changes \/ t # kept THEN StatusReset(browser) ELSE Outcome(browser)
           IN  /\ session' = IF opens THEN [t EXCEPT !.download = "PREPARING"] ELSE t
               /\ browser' = IF opens THEN Load(b) ELSE b
               /\ folders' = IF changes THEN CleanedFolders(s.workspace) ELSE folders
               /\ ui' = FinishExit(Drawn(session', u))
  /\ mailbox' = Tail(mailbox)
  /\ UNCHANGED <<config, cancel, worker>>
-----------------------------------------------------------------------------
(***************************************************************************)
(* Changing the source, leaving and coming back.                           *)
(***************************************************************************)

\* on_change_source_clicked opens a modal dialog.
ClickChangeSource ==
  /\ UserActs /\ ui.page = "SOURCE" /\ Requirement(session) # "ALLOWED"
  /\ ui' = [ui EXCEPT !.dialog = TRUE]
  /\ UNCHANGED <<session, browser, config, workerVars>>

\* Mutant: the running worker is not told.
ConfirmChangeSilently ==
  /\ Runs /\ ui.dialog
  /\ IF ui.download_task
     THEN /\ ui' = [ui EXCEPT !.dialog = FALSE, !.source_change_pending = TRUE]
          /\ UNCHANGED <<session, browser, folders>>
     ELSE /\ UpdateSourceControls(Discarded(session), StatusReset(browser),
                                  [ui EXCEPT !.dialog = FALSE])
          /\ folders' = CleanedFolders(session.workspace)
  /\ UNCHANGED <<config, cancel, worker, mailbox>>

\* source_change_confirmed, whatever has happened since the dialog opened.
ConfirmChange ==
  /\ Runs /\ ui.dialog
  /\ IF ui.download_task
     THEN /\ ui' = [ui EXCEPT !.dialog = FALSE, !.source_change_pending = TRUE]
          /\ cancel' = TRUE
          /\ UNCHANGED <<session, browser, folders>>
     ELSE /\ UpdateSourceControls(Discarded(session), StatusReset(browser),
                                  [ui EXCEPT !.dialog = FALSE])
          /\ folders' = CleanedFolders(session.workspace)
          /\ UNCHANGED cancel
  /\ UNCHANGED <<config, worker, mailbox>>

KeepSource ==
  /\ Runs /\ ui.dialog
  /\ ui' = [ui EXCEPT !.dialog = FALSE]
  /\ UNCHANGED <<session, browser, config, workerVars>>

\* Mutant: closing the window a second time does not wait.
RequestExitTwice ==
  /\ Runs
  /\ IF Active /\ ~ui.exit_pending
     THEN ui' = [ui EXCEPT !.exit_pending = TRUE] /\ cancel' = TRUE
     ELSE ui' = [ui EXCEPT !.quitting = TRUE] /\ UNCHANGED cancel
  /\ UNCHANGED <<session, browser, config, worker, mailbox, folders>>

\* request_gui_exit, from Back on the first page or the window's close
\* button; a dialog or an earlier request does not keep the window manager
\* from closing the window.
RequestExit ==
  /\ Runs
  /\ IF Active
     THEN ui' = [ui EXCEPT !.exit_pending = TRUE] /\ cancel' = TRUE
     ELSE ui' = [ui EXCEPT !.quitting = TRUE] /\ UNCHANGED cancel
  /\ UNCHANGED <<session, browser, config, worker, mailbox, folders>>

\* The end of classicsetup_gui_run, and show_common_gui after it: an
\* unverified workspace is removed, the choice and its download are kept.
Leave ==
  /\ ui.running /\ ui.quitting
  /\ LET w == session.workspace
         kept == IF w.verified THEN w ELSE CleanedWorkspace(w)
     IN  /\ folders' = IF w.verified THEN folders ELSE CleanedFolders(w)
         /\ config' = IF session.selected = NoRelease THEN Nothing
                      ELSE [selected |-> session.selected,
                            download |-> session.download, workspace |-> kept]
  /\ session' = Entered(Nothing)
  /\ browser' = NewBrowser
  /\ ui' = [Opened EXCEPT !.running = FALSE]
  /\ UNCHANGED <<cancel, worker, mailbox>>

\* show_common_gui again.  What the configuration keeps is not read before
\* Leave has written it anew.
Enter ==
  /\ ~ui.running
  /\ UpdateSourceControls(Entered(config), browser, Opened)
  /\ config' = Nothing
  /\ cancel' = FALSE
  /\ UNCHANGED <<worker, mailbox, folders>>
-----------------------------------------------------------------------------
(***************************************************************************)
(* The Microsoft page.                                                     *)
(***************************************************************************)
PageLoads ==
  /\ Runs /\ browser.opened
  /\ Redraws(session, Loaded(browser))

\* A failed load is announced first, then finished like any other.
PageFails ==
  /\ Runs /\ browser.opened
  /\ Redraws(session, Loaded(Failure(browser)))

AutomationTick ==
  /\ Runs /\ browser.automation = "timer"
  /\ browser' = Tick(browser, ui.download_task)
  /\ UNCHANGED <<session, ui, config, workerVars>>

AutomationFinished ==
  /\ Runs /\ browser.automation = "script"
  /\ \/ \E b \in ScriptOutcomes(browser) : Redraws(session, b)
     \/ /\ browser' = Rescheduled(browser)
        /\ UNCHANGED <<session, ui, config, workerVars>>

\* start_captured_retail_download, when WebKit announces a download.  The
\* click (or the page's own script) that caused it came some time before; an
\* address that is not Microsoft's is not captured.
CaptureDownload ==
  /\ Runs /\ browser.opened
  /\ IF ui.download_task \/ session.selected = NoRelease
     THEN UNCHANGED vars
     ELSE \/ Redraws(session, Failure(browser))
          \/ /\ Capturable(browser)
             /\ \E online \in BOOLEAN :
                  StartOrNot(session, Captured(browser), TRUE, online)

\* on_retail_retry_clicked.
ClickRetry ==
  /\ UserActs /\ ui.page = "OTHER" /\ browser.retry
  /\ \E online \in BOOLEAN : OpenPage(session, online)
-----------------------------------------------------------------------------
Choose ==
  \/ ShowSource \/ ShowOther \/ SelectVersion \/ RefreshIso
  \/ \E r \in Releases : SelectRelease(r)
  \/ \E m \in Modes : SelectMode(m)
  \/ ClickStart \/ ClickCancel \/ ClickChangeSource
  \/ ConfirmChange \/ KeepSource \/ RequestExit \/ Enter \/ ClickRetry

Page ==
  \/ PageLoads \/ PageFails \/ AutomationTick \/ AutomationFinished
  \/ CaptureDownload

Worker == WorkerStep /\ UNCHANGED <<session, browser, ui, config>>

MainLoop == DiscoveryFinished \/ HandleProgress \/ HandleResult \/ Leave

Next == Choose \/ Page \/ Worker \/ MainLoop

\* The threads run and the main loop turns; nothing is asked of the user,
\* the page or the network.
Fairness == WF_vars(Worker) /\ WF_vars(MainLoop)

Spec == Init /\ [][Next]_vars /\ Fairness
-----------------------------------------------------------------------------
(***************************************************************************)
(* Properties.                                                             *)
(***************************************************************************)

\* What the summary offers to install is what was asked for and is there:
\* the verified image is of the release selected now, through every choice,
\* discovery, change of source and re-entry since it was verified, and an
\* image that was downloaded is in its workspace
\* (classicsetup_gui_summary_is_ready).
SummaryIsReal ==
  SummaryIsReady(session) =>
    /\ session.verified = session.selected
    /\ session.mode # "EXISTING_ISO" =>
         folders[session.workspace.folder] = "image"

Results == {mailbox[i] : i \in {j \in DOMAIN mailbox : mailbox[j].kind = "result"}}

\* A download ends under the selection it was started for: download_finished
\* stores the release, the verified source and the workspace of its result
\* where the selection is then, and decides on the fallback by the mode of
\* then.  A worker's last progress message (COMPLETE, say) makes gui.c
\* allow a change before the result has arrived; only the redraw at the start
\* and in every callback keeps the user from making one meanwhile.
DownloadOfSelection ==
  /\ worker.at # "idle" =>
       worker.release = session.selected /\ worker.mode = session.mode
  /\ \A r \in Results : r.release = session.selected

\* Nothing half done is forgotten: a workspace directory that holds no
\* finished image is that of the worker, of a result on its way or of the
\* session, whose cleaning will remove it; none is left behind in the TUI.
WorkIsOwned ==
  \A d \in Folders : folders[d] \in {"empty", "partial"} =>
    \/ worker.folder = d
    \/ d \in {r.workspace.folder : r \in Results}
    \/ ui.running /\ session.workspace.folder = d

\* A cancellation others wait for stands: while a change of source or an
\* exit is pending there is work it waits for, and the cancel flag has not
\* been cleared by another start (start_download_release).
CancelStands ==
  /\ ui.source_change_pending => ui.download_task /\ cancel
  /\ ui.exit_pending => ui.quitting \/ (Active /\ cancel)

\* A running download is one worker or one result on its way, never two and
\* never none, and when none runs there is neither: the window does not go
\* away under a worker that posts to it, and what the Microsoft page captures
\* meanwhile starts nothing.
OneDownload ==
  Cardinality({i \in DOMAIN mailbox : mailbox[i].kind = "result"})
    + (IF worker.at = "idle" THEN 0 ELSE 1)
  = IF ui.download_task THEN 1 ELSE 0

\* An exit that was asked for happens: the workers it waits for end, and no
\* new one is started meanwhile that would be waited for forever.
ExitHappens == ui.exit_pending ~> ~ui.running

\* "Windows image ready", as the sidebar says of a complete download: there
\* is a verified source behind it (update_download_page).
ImageReadyIsUsable ==
  ui.running /\ ~ui.download_task /\ session.download = "COMPLETE" =>
    session.verified # NoRelease
=============================================================================
