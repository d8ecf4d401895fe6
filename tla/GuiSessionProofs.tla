--------------------------- MODULE GuiSessionProofs ---------------------------
(***************************************************************************)
(* The graphical session with its download worker: one download or none,   *)
(* no half-done directory without an owner, a cancel that stands, a choice *)
(* that a download keeps, and a summary that offers what is there, however *)
(* the callbacks interleave.                                               *)
(***************************************************************************)
EXTENDS GuiSession, FiniteSetTheorems, TLAPS

-----------------------------------------------------------------------------
(***************************************************************************)
(* The inductive invariant.                                                *)
(***************************************************************************)
HalfDone == {"empty", "partial"}

\* A workspace's flags say what its directory holds.
HoldsAs(w, f) ==
  /\ w.verified => w.folder \in Folders /\ f[w.folder] = "image"
  /\ w.retained => w.folder \in Folders /\ f[w.folder] = "rejected"

\* A workspace with a directory has nothing half done in it.
Settled(w, f) == w.folder \in Folders => f[w.folder] \in {"image", "rejected"}

\* The two tasks exclude each other, the window quits without any, and what
\* is pending has a task to wait for that has been told.
TaskInv ==
  /\ ~(ui.download_task /\ ui.source_task)
  /\ ui.quitting => Idles(ui)
  /\ ~ui.running => Idles(ui) /\ ~ui.exit_pending /\ ~ui.source_change_pending
  /\ CancelStands

\* The download task is a worker or its result, which is posted last; the
\* worker has a directory while it fills it.
WorkerInv ==
  /\ ui.download_task <=> worker.at # "idle" \/ mailbox # <<>>
  /\ \A i \in 1..Len(mailbox) :
       mailbox[i].kind = "result" <=> worker.at = "idle" /\ i = Len(mailbox)
  /\ worker.at # "idle" => worker.release \in Releases
  /\ worker.at \in {"transfer", "inspect"} =>
       worker.folder \in Folders /\ folders[worker.folder] \in HalfDone
  /\ worker.at \notin {"transfer", "inspect"} => worker.folder = NoFolder

\* A result tells what was verified and what is in its directory.
ResultHolds(r, f) ==
  /\ HoldsAs(r.workspace, f)
  /\ r.verified # NoRelease => r.verified = r.release

ResultInv ==
  \A i \in 1..Len(mailbox) :
    mailbox[i].kind = "result" => ResultHolds(mailbox[i], folders)

\* What the session holds is so, is of the release selected, and is not left
\* half done under a download.
SessionInv ==
  /\ HoldsAs(session.workspace, folders)
  /\ ui.download_task => Settled(session.workspace, folders)
  /\ session.verified # NoRelease /\ session.selected # NoRelease =>
       session.verified = session.selected

\* The configuration is read once, on the way in.
ConfigInv ==
  /\ ui.running => config = Nothing
  /\ HoldsAs(config.workspace, folders)

\* A directory with something half done belongs to the worker, to its result
\* or to the session.
OwnedInv ==
  \A d \in Folders : folders[d] \in HalfDone =>
    \/ worker.folder = d
    \/ \E i \in 1..Len(mailbox) :
         mailbox[i].kind = "result" /\ mailbox[i].workspace.folder = d
    \/ ui.running /\ session.workspace.folder = d

\* Widgets drawn sensitive mean that no task runs, so what a download was
\* started for stays selected.
ChoiceInv ==
  /\ ui.editable => Idles(ui)
  /\ worker.at # "idle" =>
       worker.release = session.selected /\ worker.mode = session.mode
  /\ \A i \in 1..Len(mailbox) :
       mailbox[i].kind = "result" => mailbox[i].release = session.selected

GuiInv ==
  /\ TaskInv /\ WorkerInv /\ ResultInv /\ SessionInv /\ ConfigInv /\ OwnedInv
  /\ ChoiceInv

-----------------------------------------------------------------------------
(***************************************************************************)
(* What the helpers of gui.c leave alone.                                  *)
(***************************************************************************)
\* The selection may have been dropped, or changed while nothing is verified.
SameWork(s, t) ==
  /\ t.workspace = s.workspace
  /\ t.verified = s.verified
  /\ t.selected = s.selected \/ t.selected = NoRelease \/ s.verified = NoRelease

SameChoice(s, t) == t.selected = s.selected /\ t.mode = s.mode

\* The same tasks, and the same requests waiting for them.
SameTasks(u, v) ==
  /\ v.running = u.running /\ v.quitting = u.quitting
  /\ v.source_task = u.source_task /\ v.download_task = u.download_task
  /\ v.exit_pending = u.exit_pending
  /\ v.source_change_pending = u.source_change_pending

\* The choices of a session that gui.c lets change hold nothing verified.
LEMMA AllowedMeansNothingVerified ==
  ASSUME NEW s \in Sessions, Requirement(s) = "ALLOWED"
  PROVE  s.verified = NoRelease /\ ~s.workspace.verified
BY DEF Requirement, Sessions, Workspaces

\* Completing a missing choice changes the selection only while nothing is
\* verified and no task runs (update_source_controls).
LEMMA CompletionsKeepWork ==
  ASSUME NEW s \in Sessions, NEW u, NEW t \in Completions(s, u)
  PROVE  t \in Sessions /\ SameWork(s, t) /\ (~Idles(u) => t = s)
<1>1. CASE s.catalog = "READY" /\ s.selected = NoRelease /\ Editable(s, u)
  <2>1. PICK r \in Releases : t = [Reacquire(s) EXCEPT !.selected = r]
    BY <1>1 DEF Completions
  <2>2. s.verified = NoRelease
    BY <1>1, AllowedMeansNothingVerified DEF Editable
  <2>3. Idles(u)
    BY <1>1 DEF Editable
  <2> QED BY <2>1, <2>2, <2>3 DEF Sessions, Reacquire, SameWork
<1>2. CASE ~(s.catalog = "READY" /\ s.selected = NoRelease /\ Editable(s, u))
  BY <1>2 DEF Completions, SameWork
<1> QED BY <1>1, <1>2

\* Drawing the widgets starts and ends nothing.
LEMMA DrawnKeepsTasks ==
  ASSUME NEW s, NEW u \in Runtimes
  PROVE  /\ Drawn(s, u) \in Runtimes /\ SameTasks(u, Drawn(s, u))
         /\ Drawn(s, u).editable => Idles(u)
<1> DEFINE e == Editable(s, u)
<1>1. e \in BOOLEAN /\ (e => Idles(u))
  BY DEF Editable
<1>2. Drawn(s, u) = [u EXCEPT !.editable = e]
  BY DEF Drawn
<1> HIDE DEF e
<1> QED BY <1>1, <1>2 DEF Runtimes, SameTasks

\* Whatever is reset or redrawn, a browser stays one.
LEMMA BrowserOperations ==
  ASSUME NEW b \in Browsers
  PROVE  /\ StatusReset(b) \in Browsers
         /\ Load(b) \in Browsers
         /\ Loaded(b) \in Browsers
         /\ Failure(b) \in Browsers
         /\ FallbackToFullPage(b) \in Browsers
         /\ Outcome(b) \in Browsers
         /\ \A a \in BOOLEAN : Tick(b, a) \in Browsers
         /\ \A c \in ScriptOutcomes(b) : c \in Browsers
         /\ Rescheduled(b) \in Browsers /\ Captured(b) \in Browsers
<1>1. StatusReset(b) \in Browsers /\ FallbackToFullPage(b) \in Browsers
  BY DEF Browsers, Stages, StatusReset, FallbackToFullPage
<1>2. Load(b) \in Browsers
  BY <1>1 DEF Load, Browsers
<1>3. Loaded(b) \in Browsers
  BY DEF Loaded, Browsers, Stages
<1>4. Failure(b) \in Browsers
  BY <1>1 DEF Failure, Browsers
<1>5. Outcome(b) \in Browsers
  BY DEF Outcome, Browsers, Stages
<1>6. \A a \in BOOLEAN : Tick(b, a) \in Browsers
  BY DEF Tick, Browsers
<1>7. ASSUME NEW c \in ScriptOutcomes(b) PROVE c \in Browsers
  <2>1. \E next \in {"off", "timer"} :
          \/ c = [FallbackToFullPage(b) EXCEPT !.automation = next]
          \/ c = [b EXCEPT !.stage = "CLICK", !.automation = next]
    BY DEF ScriptOutcomes
  <2>2. ASSUME NEW next \in {"off", "timer"},
               c = [FallbackToFullPage(b) EXCEPT !.automation = next]
        PROVE  c \in Browsers
    BY <1>1, <2>2 DEF Browsers
  <2>3. ASSUME NEW next \in {"off", "timer"},
               c = [b EXCEPT !.stage = "CLICK", !.automation = next]
        PROVE  c \in Browsers
    BY <2>3 DEF Browsers, Stages
  <2> QED BY <2>1, <2>2, <2>3
<1>8. Rescheduled(b) \in Browsers /\ Captured(b) \in Browsers
  BY DEF Rescheduled, Captured, Browsers, Stages
<1> QED BY <1>1, <1>2, <1>3, <1>4, <1>5, <1>6, <1>7, <1>8

\* A redraw after a choice: the session's work and the tasks are the same.
LEMMA UpdateKeepsWork ==
  ASSUME TypeOK, NEW s \in Sessions, NEW b \in Browsers, NEW u \in Runtimes,
         UpdateSourceControls(s, b, u)
  PROVE  /\ session' \in Sessions /\ SameWork(s, session')
         /\ ~Idles(u) => session' = s /\ browser' = b
         /\ browser' \in Browsers
         /\ ui' \in Runtimes /\ SameTasks(u, ui')
         /\ ui'.editable => Idles(ui')
<1>1. /\ session' \in Sessions /\ SameWork(s, session')
      /\ ~Idles(u) => session' = s
  BY CompletionsKeepWork DEF UpdateSourceControls
<1>2. /\ ui' \in Runtimes /\ SameTasks(u, ui')
      /\ ui'.editable => Idles(u)
  BY DrawnKeepsTasks DEF UpdateSourceControls
<1>3. ui'.editable => Idles(ui')
  BY <1>2 DEF SameTasks, Idles
<1>4. browser' \in Browsers /\ (session' = s => browser' = b)
  BY BrowserOperations DEF UpdateSourceControls
<1> QED BY <1>1, <1>2, <1>3, <1>4

\* Keeping the same work is transitive where the first changes at most drop
\* the selection.
LEMMA SameWorkThrough ==
  ASSUME NEW s, NEW t, NEW v, SameWork(s, t), SameWork(t, v)
  PROVE  SameWork(s, v)
BY DEF SameWork

-----------------------------------------------------------------------------
(***************************************************************************)
(* Steps that leave the download's work alone: choices, drawing, the page, *)
(* discovery, and the requests to cancel, to change or to leave.           *)
(***************************************************************************)
\* The work of a download, and the directories, are as they were.
CalmStep ==
  /\ session' \in Sessions /\ SameWork(session, session')
  /\ ui.download_task => SameChoice(session, session')
  /\ browser' \in Browsers
  /\ ui' \in Runtimes /\ (ui'.editable => Idles(ui'))
  /\ ui'.running = ui.running /\ ui'.download_task = ui.download_task
  /\ cancel' \in BOOLEAN
  /\ UNCHANGED <<config, worker, mailbox, folders>>

\* Such a step keeps everything but what TaskInv says of the pending requests.
LEMMA CalmStepHolds ==
  ASSUME TypeOK, GuiInv, CalmStep, TaskInv'
  PROVE  TypeOK' /\ GuiInv'
<1>1. TypeOK'
  BY DEF TypeOK, WorkerTypeOK, GuiTypeOK, CalmStep
<1>2. WorkerInv'
  BY DEF GuiInv, WorkerInv, CalmStep
<1>3. ResultInv'
  BY DEF GuiInv, ResultInv, CalmStep
<1>4. SessionInv'
  BY DEF GuiInv, SessionInv, CalmStep, SameWork
<1>5. ConfigInv'
  BY DEF GuiInv, ConfigInv, CalmStep
<1>6. OwnedInv'
  BY DEF GuiInv, OwnedInv, CalmStep, SameWork
<1>7. ChoiceInv'
  <2>1. CASE ui.download_task
    BY <2>1 DEF GuiInv, ChoiceInv, CalmStep, SameChoice
  <2>2. CASE ~ui.download_task
    <3>1. worker.at = "idle" /\ mailbox = <<>>
      BY <2>2 DEF GuiInv, WorkerInv
    <3> QED BY <3>1 DEF ChoiceInv, CalmStep
  <2> QED BY <2>1, <2>2
<1> QED BY <1>1, <1>2, <1>3, <1>4, <1>5, <1>6, <1>7 DEF GuiInv

\* The tasks and requests are as they were too.
QuietStep ==
  /\ session' \in Sessions /\ SameWork(session, session')
  /\ ui.download_task => SameChoice(session, session')
  /\ browser' \in Browsers
  /\ ui' \in Runtimes /\ SameTasks(ui, ui') /\ (ui'.editable => Idles(ui'))
  /\ UNCHANGED <<config, workerVars>>

\* A step that moves neither task nor workspace keeps the invariant.
LEMMA QuietStepHolds ==
  ASSUME TypeOK, GuiInv, QuietStep
  PROVE  TypeOK' /\ GuiInv'
<1>1. CalmStep
  BY DEF QuietStep, CalmStep, SameTasks, workerVars, TypeOK, WorkerTypeOK
<1>2. TaskInv'
  BY DEF GuiInv, TaskInv, QuietStep, SameTasks, CancelStands, Idles, Active, workerVars
<1> QED BY <1>1, <1>2, CalmStepHolds

\* A redraw after a change that kept the work and the tasks.
LEMMA RedrawHolds ==
  ASSUME TypeOK, GuiInv, NEW s \in Sessions, NEW b \in Browsers, NEW u \in Runtimes,
         SameWork(session, s), ui.download_task => SameChoice(session, s),
         SameTasks(ui, u), UpdateSourceControls(s, b, u),
         UNCHANGED <<config, workerVars>>
  PROVE  TypeOK' /\ GuiInv'
<1>1. /\ session' \in Sessions /\ SameWork(s, session')
      /\ ~Idles(u) => session' = s
      /\ browser' \in Browsers /\ ui' \in Runtimes /\ SameTasks(u, ui')
      /\ ui'.editable => Idles(ui')
  BY UpdateKeepsWork
<1>2. SameWork(session, session')
  BY <1>1, SameWorkThrough
<1>3. SameTasks(ui, ui')
  BY <1>1 DEF SameTasks
<1>4. ui.download_task => SameChoice(session, session')
  BY <1>1 DEF SameTasks, Idles
<1> QED BY <1>1, <1>2, <1>3, <1>4, QuietStepHolds DEF QuietStep

\* start_source_discovery.
LEMMA DiscoverHolds ==
  ASSUME TypeOK, GuiInv, UserActs,
         NEW s \in Sessions, NEW b \in Browsers, NEW u \in Runtimes,
         SameWork(session, s), ui.download_task => SameChoice(session, s),
         SameTasks(ui, u), u.editable = ui.editable, Discover(s, b, u),
         UNCHANGED <<config, workerVars>>
  PROVE  TypeOK' /\ GuiInv'
<1>1. CASE Active
  <2>1. u.editable => Idles(u)
    BY DEF GuiInv, ChoiceInv, Idles, SameTasks
  <2> QED BY <1>1, <2>1, QuietStepHolds DEF Discover, QuietStep
<1>2. CASE ~Active
  <2> DEFINE t == [s EXCEPT !.selected = NoRelease, !.catalog = "DISCOVERING"]
             v == [u EXCEPT !.source_task = TRUE]
  <2>1. t \in Sessions /\ SameWork(s, t)
    BY DEF Sessions, Catalogs, SameWork
  <2>2. /\ v \in Runtimes /\ v.running = ui.running /\ v.quitting = ui.quitting
        /\ v.download_task = ui.download_task /\ v.exit_pending = ui.exit_pending
        /\ v.source_change_pending = ui.source_change_pending
    BY DEF Runtimes, SameTasks
  <2>3. UpdateSourceControls(t, b, v)
    BY <1>2 DEF Discover
  <2> HIDE DEF t, v
  <2>4. /\ session' \in Sessions /\ SameWork(t, session')
        /\ browser' \in Browsers /\ ui' \in Runtimes /\ SameTasks(v, ui')
        /\ ui'.editable => Idles(ui')
    BY <2>1, <2>2, <2>3, UpdateKeepsWork
  <2>5. SameWork(session, session')
    BY <2>1, <2>4, SameWorkThrough
  <2>6. CalmStep
    BY <1>2, <2>2, <2>4, <2>5
       DEF CalmStep, SameTasks, workerVars, TypeOK, WorkerTypeOK, Active
  <2>7. TaskInv'
    BY <1>2, <2>2, <2>4 DEF GuiInv, TaskInv, CancelStands, SameTasks, UserActs, Runs,
       Active, Idles, workerVars
  <2> QED BY <2>6, <2>7, CalmStepHolds
<1> QED BY <1>1, <1>2

\* The choices on the source page, while gui.c allows them.
LEMMA ReacquireKeepsWork ==
  ASSUME NEW s \in Sessions
  PROVE  Reacquire(s) \in Sessions /\ SameWork(s, Reacquire(s))
BY DEF Reacquire, Sessions, SameWork

\* Drawing the pages changes the widgets and may take the image up again.
LEMMA ShowPagesHold ==
  ASSUME TypeOK, GuiInv, ShowSource \/ ShowOther
  PROVE  TypeOK' /\ GuiInv'
<1> USE DEF TypeOK, GuiTypeOK
<1>1. SameWork(session, session) /\ SameChoice(session, session)
  BY DEF SameWork, SameChoice
<1>2. CASE ShowSource
  <2> DEFINE u == [ui EXCEPT !.page = "SOURCE"]
  <2>1. u \in Runtimes /\ SameTasks(ui, u) /\ u.editable = ui.editable
    BY DEF Runtimes, Pages, SameTasks
  <2>2. /\ UserActs /\ UNCHANGED <<config, workerVars>>
        /\ Discover(session, browser, u) \/ UpdateSourceControls(session, browser, u)
    BY <1>2 DEF ShowSource
  <2> HIDE DEF u
  <2> QED BY <1>1, <2>1, <2>2, DiscoverHolds, RedrawHolds
<1>3. CASE ShowOther
  <2> DEFINE u == [ui EXCEPT !.page = "OTHER"]
  <2>1. /\ u \in Runtimes /\ SameTasks(ui, u) /\ u.editable = ui.editable
    BY DEF Runtimes, Pages, SameTasks
  <2>2. u.editable => Idles(u)
    BY <2>1 DEF GuiInv, ChoiceInv, Idles, SameTasks
  <2>3. /\ UNCHANGED <<config, workerVars>>
        /\ \/ UpdateSourceControls(session, browser, u)
           \/ ui' = u /\ UNCHANGED <<session, browser>>
    BY <1>3 DEF ShowOther
  <2> HIDE DEF u
  <2> QED BY <1>1, <2>1, <2>2, <2>3, RedrawHolds, QuietStepHolds DEF QuietStep
<1> QED BY <1>2, <1>3

\* What can be chosen is chosen while no task runs.
LEMMA ChoosingIsIdle ==
  ASSUME TypeOK, GuiInv, MayChoose
  PROVE  ~ui.download_task
BY DEF MayChoose, GuiInv, ChoiceInv, Idles

\* Choosing among releases, files and modes leaves task and workspace alone.
LEMMA ChoicesHold ==
  ASSUME TypeOK, GuiInv,
         \/ SelectVersion \/ RefreshIso
         \/ \E r \in Releases : SelectRelease(r)
         \/ \E m \in Modes : SelectMode(m)
  PROVE  TypeOK' /\ GuiInv'
<1> USE DEF TypeOK, GuiTypeOK
<1> DEFINE s == Reacquire(session)
<1>1. s \in Sessions /\ SameWork(session, s)
  BY ReacquireKeepsWork
<1>2. StatusReset(browser) \in Browsers
  BY BrowserOperations
<1>3. SameTasks(ui, ui)
  BY DEF SameTasks
<1> HIDE DEF s
<1>4. CASE SelectVersion
  <2> DEFINE t == [s EXCEPT !.selected = NoRelease, !.catalog = "IDLE"]
  <2>1. t \in Sessions /\ SameWork(session, t)
    BY <1>1 DEF Sessions, Catalogs, SameWork
  <2>2. /\ UserActs /\ Discover(t, StatusReset(browser), ui)
        /\ UNCHANGED <<config, workerVars>>
    BY <1>4 DEF SelectVersion, MayChoose, s
  <2>3. ~ui.download_task
    BY <1>4, ChoosingIsIdle DEF SelectVersion
  <2> HIDE DEF t
  <2> QED BY <1>2, <1>3, <2>1, <2>2, <2>3, DiscoverHolds
<1>5. CASE RefreshIso
  <2>1. PICK found \in BOOLEAN :
          Redraws([session EXCEPT !.localIso = found /\ Requirement(session) = "ALLOWED"],
                  browser)
    BY <1>5 DEF RefreshIso
  <2> DEFINE allowed == Requirement(session) = "ALLOWED"
             t == [session EXCEPT !.localIso = found /\ allowed]
  <2>2. allowed \in BOOLEAN
    OBVIOUS
  <2>3. UpdateSourceControls(t, browser, ui)
    BY <2>1 DEF Redraws
  <2> HIDE DEF allowed
  <2>4. t \in Sessions /\ SameWork(session, t) /\ SameChoice(session, t)
    BY <2>2 DEF Sessions, SameWork, SameChoice
  <2>5. UNCHANGED <<config, workerVars>>
    BY <2>1 DEF Redraws
  <2> HIDE DEF t
  <2> QED BY <1>3, <2>3, <2>4, <2>5, RedrawHolds
<1>6. ASSUME NEW r \in Releases, SelectRelease(r) PROVE TypeOK' /\ GuiInv'
  <2>1. ~ui.download_task
    BY <1>6, ChoosingIsIdle DEF SelectRelease
  <2>2. CASE Redraws([s EXCEPT !.selected = NoRelease], StatusReset(browser))
    <3> DEFINE t == [s EXCEPT !.selected = NoRelease]
    <3>1. t \in Sessions /\ SameWork(session, t)
      BY <1>1 DEF Sessions, SameWork
    <3>2. /\ UpdateSourceControls(t, StatusReset(browser), ui)
          /\ UNCHANGED <<config, workerVars>>
      BY <2>2 DEF Redraws
    <3> HIDE DEF t
    <3> QED BY <1>2, <1>3, <2>1, <3>1, <3>2, RedrawHolds
  <2>3. CASE /\ session' = [s EXCEPT !.selected = r]
             /\ browser' = StatusReset(browser)
             /\ UNCHANGED <<ui, config, workerVars>>
    <3>1. session.verified = NoRelease
      BY <1>6, AllowedMeansNothingVerified DEF SelectRelease, MayChoose
    <3>2. session' \in Sessions /\ SameWork(session, session')
      BY <1>1, <2>3, <3>1 DEF Sessions, SameWork
    <3>3. ui'.editable => Idles(ui')
      BY <2>3 DEF GuiInv, ChoiceInv, Idles
    <3> QED BY <1>2, <1>3, <2>1, <2>3, <3>2, <3>3, QuietStepHolds DEF QuietStep
  <2> QED BY <1>6, <2>2, <2>3 DEF SelectRelease, s
<1>7. ASSUME NEW m \in Modes, SelectMode(m) PROVE TypeOK' /\ GuiInv'
  <2>1. PICK found \in BOOLEAN :
          Redraws([s EXCEPT !.mode = m, !.localIso = m = "EXISTING_ISO" /\ found],
                  StatusReset(browser))
    BY <1>7 DEF SelectMode, s
  <2> DEFINE existing == m = "EXISTING_ISO"
             t == [s EXCEPT !.mode = m, !.localIso = existing /\ found]
  <2>2. existing \in BOOLEAN
    OBVIOUS
  <2>3. /\ UpdateSourceControls(t, StatusReset(browser), ui)
        /\ UNCHANGED <<config, workerVars>>
    BY <2>1 DEF Redraws
  <2> HIDE DEF existing
  <2>4. t \in Sessions /\ SameWork(session, t)
    BY <1>1, <2>2 DEF Sessions, SameWork
  <2>5. ~ui.download_task
    BY <1>7, ChoosingIsIdle DEF SelectMode
  <2> HIDE DEF t
  <2> QED BY <1>2, <1>3, <2>3, <2>4, <2>5, RedrawHolds
<1> QED BY <1>4, <1>5, <1>6, <1>7

\* The end of a discovery, and the exit that may have waited for it.
LEMMA DiscoveryFinishedHolds ==
  ASSUME TypeOK, GuiInv, DiscoveryFinished
  PROVE  TypeOK' /\ GuiInv'
<1> USE DEF TypeOK, GuiTypeOK
<1>1. PICK found \in {"READY", "ERROR"} :
        UpdateSourceControls([session EXCEPT !.catalog = found], browser,
                             FinishExit([ui EXCEPT !.source_task = FALSE]))
  BY DEF DiscoveryFinished
<1> DEFINE t == [session EXCEPT !.catalog = found]
           u == FinishExit([ui EXCEPT !.source_task = FALSE])
<1>2. t \in Sessions /\ SameWork(session, t)
  BY DEF Sessions, Catalogs, SameWork
<1>3. /\ u \in Runtimes /\ u.running = ui.running /\ u.source_task = FALSE
      /\ u.download_task = ui.download_task /\ u.exit_pending = ui.exit_pending
      /\ u.source_change_pending = ui.source_change_pending
      /\ u.quitting = (ui.quitting \/ ui.exit_pending)
  BY DEF FinishExit, Runtimes
<1>4. UpdateSourceControls(t, browser, u)
  BY <1>1
<1> HIDE DEF t, u
<1>5. /\ session' \in Sessions /\ SameWork(t, session')
      /\ browser' \in Browsers /\ ui' \in Runtimes /\ SameTasks(u, ui')
      /\ ui'.editable => Idles(ui')
  BY <1>2, <1>3, <1>4, UpdateKeepsWork
<1>6. SameWork(session, session')
  BY <1>2, <1>5, SameWorkThrough
<1>7. /\ UNCHANGED <<config, workerVars>> /\ Runs /\ ui.source_task
      /\ ~ui.download_task
  BY DEF DiscoveryFinished, GuiInv, TaskInv
<1>8. CalmStep
  BY <1>3, <1>5, <1>6, <1>7 DEF CalmStep, SameTasks, workerVars, WorkerTypeOK
<1>9. TaskInv'
  BY <1>3, <1>5, <1>7 DEF GuiInv, TaskInv, CancelStands, SameTasks, Runs, Active, Idles,
     workerVars
<1> QED BY <1>8, <1>9, CalmStepHolds

\* The dialog's callbacks that change nothing but the dialog, the cancel
\* button, and the request to leave.
LEMMA RequestsHold ==
  ASSUME TypeOK, GuiInv,
         ClickChangeSource \/ KeepSource \/ ClickCancel \/ RequestExit
  PROVE  TypeOK' /\ GuiInv'
<1> USE DEF TypeOK, GuiTypeOK
<1>1. CASE ClickChangeSource \/ KeepSource
  <2>1. QuietStep
    BY <1>1 DEF ClickChangeSource, KeepSource, QuietStep, SameTasks, SameWork, SameChoice,
       Runtimes, GuiInv, ChoiceInv, Idles
  <2> QED BY <2>1, QuietStepHolds
<1>2. CASE ClickCancel
  <2>1. CalmStep
    BY <1>2 DEF ClickCancel, CalmStep, SameWork, SameChoice, WorkerTypeOK, GuiInv,
       ChoiceInv, Idles
  <2>2. TaskInv'
    BY <1>2 DEF ClickCancel, GuiInv, TaskInv, CancelStands, Idles, Active
  <2> QED BY <2>1, <2>2, CalmStepHolds
<1>3. CASE RequestExit
  <2>1. CalmStep
    BY <1>3 DEF RequestExit, CalmStep, SameWork, SameChoice, Runtimes, WorkerTypeOK,
       GuiInv, ChoiceInv, Idles
  <2>2. TaskInv'
    <3>1. CASE Active
      BY <1>3, <3>1 DEF RequestExit, GuiInv, TaskInv, CancelStands, Idles, Active, Runs,
         Runtimes
    <3>2. CASE ~Active
      BY <1>3, <3>2 DEF RequestExit, GuiInv, TaskInv, CancelStands, Idles, Active, Runs,
         Runtimes
    <3> QED BY <3>1, <3>2
  <2> QED BY <2>1, <2>2, CalmStepHolds
<1> QED BY <1>1, <1>2, <1>3

\* Callbacks of the page change the browser and redraw the rest as it is.
LEMMA PageHolds ==
  ASSUME TypeOK, GuiInv,
         PageLoads \/ PageFails \/ AutomationTick \/ AutomationFinished
  PROVE  TypeOK' /\ GuiInv'
<1> USE DEF TypeOK, GuiTypeOK
<1>1. /\ SameWork(session, session) /\ SameChoice(session, session) /\ SameTasks(ui, ui)
      /\ ui.editable => Idles(ui)
  BY DEF SameWork, SameChoice, SameTasks, GuiInv, ChoiceInv
<1>2. ASSUME NEW b \in Browsers, Redraws(session, b) PROVE TypeOK' /\ GuiInv'
  BY <1>1, <1>2, RedrawHolds DEF Redraws
<1>3. ASSUME browser' \in Browsers, UNCHANGED <<session, ui, config, workerVars>>
      PROVE  TypeOK' /\ GuiInv'
  <2>1. QuietStep
    BY <1>1, <1>3 DEF QuietStep, Idles
  <2> QED BY <2>1, QuietStepHolds
<1>4. CASE PageLoads
  BY <1>2, <1>4, BrowserOperations DEF PageLoads
<1>5. CASE PageFails
  <2>1. Failure(browser) \in Browsers
    BY BrowserOperations
  <2> QED BY <1>2, <1>5, <2>1, BrowserOperations DEF PageFails
<1>6. CASE AutomationTick
  <2>1. ui.download_task \in BOOLEAN
    BY DEF Runtimes
  <2> QED BY <1>3, <1>6, <2>1, BrowserOperations DEF AutomationTick
<1>7. CASE AutomationFinished
  BY <1>2, <1>3, <1>7, BrowserOperations DEF AutomationFinished
<1> QED BY <1>4, <1>5, <1>6, <1>7

-----------------------------------------------------------------------------
(***************************************************************************)
(* Workspaces and their directories.                                       *)
(***************************************************************************)
\* Cleaning removes the directory, or keeps both it and the workspace for a
\* rejected image; nothing half done is left of what the workspace had.
LEMMA CleaningLeavesNothing ==
  ASSUME TypeOK, NEW w \in Workspaces, HoldsAs(w, folders)
  PROVE  /\ CleanedFolders(w) \in [Folders -> Contents]
         /\ CleanedWorkspace(w) \in Workspaces
         /\ HoldsAs(CleanedWorkspace(w), CleanedFolders(w))
         /\ Settled(CleanedWorkspace(w), CleanedFolders(w))
         /\ \A d \in Folders : CleanedFolders(w)[d] \in HalfDone =>
              folders[d] \in HalfDone /\ w.folder # d
<1> USE DEF TypeOK, WorkerTypeOK
<1>1. CASE w.retained
  BY <1>1 DEF CleanedFolders, CleanedWorkspace, HoldsAs, Settled, HalfDone, Workspaces
<1>2. CASE ~w.retained
  <2>1. CleanedWorkspace(w) = NoWorkspace
    BY <1>2 DEF CleanedWorkspace
  <2>2. NoWorkspace \in Workspaces /\ NoFolder \notin Folders
    BY WorkerAssumption DEF NoWorkspace, Workspaces
  <2>3. CASE w.folder = NoFolder
    BY <1>2, <2>1, <2>2, <2>3 DEF CleanedFolders, HoldsAs, Settled, NoWorkspace, HalfDone
  <2>4. CASE w.folder # NoFolder
    <3>1. CleanedFolders(w) = [folders EXCEPT ![w.folder] = "absent"]
      BY <1>2, <2>4 DEF CleanedFolders
    <3>2. CleanedFolders(w) \in [Folders -> Contents]
      BY <3>1 DEF Contents
    <3>3. \A d \in Folders : CleanedFolders(w)[d] \in HalfDone =>
            folders[d] \in HalfDone /\ w.folder # d
      BY <3>1 DEF HalfDone, Workspaces
    <3> QED BY <2>1, <2>2, <3>2, <3>3 DEF HoldsAs, Settled, NoWorkspace
  <2> QED BY <2>3, <2>4
<1> QED BY <1>1, <1>2

\* What the worker does to its own directory concerns no image kept elsewhere.
LEMMA OtherDirectoriesStay ==
  ASSUME TypeOK, NEW d \in Folders, folders[d] \notin {"image", "rejected"},
         NEW c \in Contents, NEW w \in Workspaces
  PROVE  /\ [folders EXCEPT ![d] = c] \in [Folders -> Contents]
         /\ HoldsAs(w, folders) => HoldsAs(w, [folders EXCEPT ![d] = c])
         /\ HoldsAs(w, folders) /\ Settled(w, folders) =>
              Settled(w, [folders EXCEPT ![d] = c])
BY DEF TypeOK, WorkerTypeOK, HoldsAs, Settled

\* Without a download there is neither a worker nor a message.
LEMMA NoDownloadNoWorker ==
  ASSUME TypeOK, GuiInv, ~ui.download_task
  PROVE  worker.at = "idle" /\ worker.folder = NoFolder /\ mailbox = <<>>
BY DEF GuiInv, WorkerInv

\* ... so that what is half done is the session's.
LEMMA NoDownloadSessionOwns ==
  ASSUME TypeOK, GuiInv, ~ui.download_task, NEW d \in Folders, folders[d] \in HalfDone
  PROVE  ui.running /\ session.workspace.folder = d
<1>1. worker.folder # d /\ mailbox = <<>>
  BY NoDownloadNoWorker, WorkerAssumption
<1> QED BY <1>1 DEF GuiInv, OwnedInv

-----------------------------------------------------------------------------
(***************************************************************************)
(* Starting a download.                                                    *)
(***************************************************************************)
\* start_download_release, once its guards have let it pass.
LEMMA StartHolds ==
  ASSUME TypeOK, GuiInv, Runs, ~Active,
         NEW s \in Sessions, SameWork(session, s), s.selected # NoRelease,
         NEW b \in Browsers, NEW resolved \in BOOLEAN, Start(s, b, resolved)
  PROVE  TypeOK' /\ GuiInv'
<1> USE DEF TypeOK, GuiTypeOK
<1> DEFINE kept == IF s.workspace.verified THEN s.workspace
                   ELSE CleanedWorkspace(s.workspace)
           left == IF s.workspace.verified THEN folders ELSE CleanedFolders(s.workspace)
<1>1. /\ worker.at = "idle" /\ worker.folder = NoFolder /\ mailbox = <<>>
      /\ ~ui.download_task /\ ~ui.source_task
  BY NoDownloadNoWorker DEF Active
<1>2. s.workspace = session.workspace /\ s.workspace \in Workspaces
  BY DEF SameWork, Sessions
<1>3. HoldsAs(s.workspace, folders)
  BY <1>2 DEF GuiInv, SessionInv
<1>4. /\ kept \in Workspaces /\ left \in [Folders -> Contents]
      /\ HoldsAs(kept, left) /\ Settled(kept, left)
      /\ \A d \in Folders : left[d] \notin HalfDone
  <2>1. CASE s.workspace.verified
    <3>1. \A d \in Folders : folders[d] \notin HalfDone
      BY <1>1, <1>2, <1>3, <2>1, NoDownloadSessionOwns DEF HoldsAs, HalfDone
    <3> QED BY <1>2, <1>3, <2>1, <3>1 DEF Settled, HoldsAs, WorkerTypeOK
  <2>2. CASE ~s.workspace.verified
    <3>1. kept = CleanedWorkspace(s.workspace) /\ left = CleanedFolders(s.workspace)
      BY <2>2
    <3>2. \A d \in Folders : left[d] \notin HalfDone
      BY <1>1, <1>2, <1>3, <3>1, CleaningLeavesNothing, NoDownloadSessionOwns
    <3> HIDE DEF kept, left
    <3> QED BY <1>2, <1>3, <3>1, <3>2, CleaningLeavesNothing
  <2> QED BY <2>1, <2>2
<1> DEFINE t == [s EXCEPT !.download = "PREPARING", !.workspace = kept]
           v == [ui EXCEPT !.download_task = TRUE]
<1>5. /\ UpdateSourceControls(t, b, v)
      /\ folders' = left
      /\ cancel' = FALSE /\ config' = config /\ mailbox' = mailbox
  BY DEF Start
<1>6. /\ v \in Runtimes /\ ~Idles(v) /\ v.download_task = TRUE
      /\ v.source_task = ui.source_task
      /\ v.running = ui.running /\ v.quitting = ui.quitting
      /\ v.exit_pending = ui.exit_pending
      /\ v.source_change_pending = ui.source_change_pending
  BY DEF Runtimes, Idles
<1>7. /\ worker' \in Workers /\ worker'.at \in {"begin", "create"}
      /\ worker'.release \in Releases /\ worker'.folder = NoFolder
      /\ worker'.release = s.selected /\ worker'.mode = s.mode
  <2>1. s.mode \in Modes /\ s.selected \in Releases
    BY DEF Sessions
  <2>2. worker' = [at |-> IF resolved \/ s.mode = "EXISTING_ISO" THEN "create" ELSE "begin",
                   mode |-> s.mode, release |-> s.selected, folder |-> NoFolder]
    BY DEF Start, Request
  <2> QED BY <2>1, <2>2 DEF Workers
<1> HIDE DEF kept, left
<1>8. /\ t \in Sessions /\ t.workspace = kept /\ t.verified = s.verified
      /\ t.selected = s.selected /\ t.mode = s.mode
  BY <1>4 DEF Sessions, States
<1> HIDE DEF t, v
<1>9. /\ session' = t /\ browser' \in Browsers
      /\ ui' \in Runtimes /\ SameTasks(v, ui') /\ (ui'.editable => Idles(ui'))
  BY <1>5, <1>6, <1>8, UpdateKeepsWork
<1>10. TypeOK'
  BY <1>4, <1>5, <1>7, <1>8, <1>9 DEF WorkerTypeOK
<1>11. ui.running /\ ~ui.quitting
  BY DEF Runs
<1>12. /\ ui'.download_task = TRUE /\ ui'.source_task = ui.source_task
       /\ ui'.running = ui.running /\ ui'.quitting = ui.quitting
       /\ ui'.exit_pending = ui.exit_pending
       /\ ui'.source_change_pending = ui.source_change_pending
  BY <1>6, <1>9 DEF SameTasks
<1>13. TaskInv'
  BY <1>1, <1>11, <1>12 DEF GuiInv, TaskInv, CancelStands, Active, Idles
<1>14. WorkerInv'
  BY <1>1, <1>5, <1>7, <1>12 DEF WorkerInv
<1>15. ResultInv'
  BY <1>1, <1>5 DEF ResultInv
<1>16. SessionInv'
  BY <1>4, <1>5, <1>8, <1>9 DEF GuiInv, SessionInv, SameWork
<1>17. ConfigInv'
  BY <1>5, <1>11 DEF GuiInv, ConfigInv, HoldsAs, Nothing, NoWorkspace
<1>18. OwnedInv'
  BY <1>4, <1>5 DEF OwnedInv
<1>19. ChoiceInv'
  BY <1>1, <1>5, <1>7, <1>8, <1>9 DEF ChoiceInv
<1> QED BY <1>10, <1>13, <1>14, <1>15, <1>16, <1>17, <1>18, <1>19 DEF GuiInv

\* start_download_release, its guards included.
LEMMA StartOrNotHolds ==
  ASSUME TypeOK, GuiInv, Runs,
         NEW s \in Sessions, SameWork(session, s), SameChoice(session, s),
         NEW b \in Browsers, NEW resolved \in BOOLEAN, NEW online \in BOOLEAN,
         StartOrNot(s, b, resolved, online)
  PROVE  TypeOK' /\ GuiInv'
<1>1. CASE CanStart(s, online)
  BY <1>1, StartHolds DEF StartOrNot, CanStart, SelectionIsValid
<1>2. CASE ~CanStart(s, online)
  <2>1. QuietStep
    BY <1>2 DEF StartOrNot, QuietStep, SameTasks, TypeOK, GuiTypeOK, GuiInv, ChoiceInv,
       Idles
  <2> QED BY <2>1, QuietStepHolds
<1> QED BY <1>1, <1>2

\* start_retail_browser.
LEMMA OpenPageHolds ==
  ASSUME TypeOK, GuiInv,
         NEW s \in Sessions, SameWork(session, s), SameChoice(session, s),
         NEW online \in BOOLEAN, OpenPage(s, online)
  PROVE  TypeOK' /\ GuiInv'
<1> USE DEF TypeOK, GuiTypeOK
<1> DEFINE t == [s EXCEPT !.download = "PREPARING"]
<1>1. t \in Sessions /\ SameWork(session, t) /\ SameChoice(session, t)
  BY DEF Sessions, States, SameWork, SameChoice
<1>2. Load(browser) \in Browsers /\ SameTasks(ui, ui)
  BY BrowserOperations DEF SameTasks
<1>3. \/ Redraws(t, Load(browser))
      \/ session' = s /\ UNCHANGED <<browser, ui, config, workerVars>>
  BY DEF OpenPage
<1> HIDE DEF t
<1>4. CASE Redraws(t, Load(browser))
  BY <1>1, <1>2, <1>4, RedrawHolds DEF Redraws
<1>5. CASE session' = s /\ UNCHANGED <<browser, ui, config, workerVars>>
  <2>1. QuietStep
    BY <1>2, <1>5 DEF QuietStep, GuiInv, ChoiceInv, Idles
  <2> QED BY <2>1, QuietStepHolds
<1> QED BY <1>3, <1>4, <1>5

\* The buttons and the capture that may start a download or open the page.
LEMMA StartsHold ==
  ASSUME TypeOK, GuiInv, ClickStart \/ ClickRetry \/ CaptureDownload
  PROVE  TypeOK' /\ GuiInv'
<1> USE DEF TypeOK, GuiTypeOK
<1>1. CASE ClickStart
  <2> DEFINE s == IF Restarts THEN [Reacquire(session) EXCEPT !.download = "NOT_STARTED"]
                  ELSE session
             b == IF Restarts THEN StatusReset(browser) ELSE browser
             f == [s EXCEPT !.fido = TRUE]
             w == [s EXCEPT !.webview = TRUE]
  <2>1. Runs
    BY <1>1 DEF ClickStart, UserActs
  <2>2. s \in Sessions /\ SameWork(session, s) /\ SameChoice(session, s)
    BY DEF Reacquire, Sessions, States, SameWork, SameChoice
  <2>3. b \in Browsers
    BY BrowserOperations
  <2>4. PICK online \in BOOLEAN :
          \/ StartOrNot(s, b, FALSE, online)
          \/ StartOrNot(f, b, FALSE, online)
          \/ OpenPage(w, online)
    BY <1>1 DEF ClickStart
  <2> HIDE DEF s, b
  <2>5. /\ f \in Sessions /\ SameWork(session, f) /\ SameChoice(session, f)
        /\ w \in Sessions /\ SameWork(session, w) /\ SameChoice(session, w)
    BY <2>2 DEF Sessions, SameWork, SameChoice
  <2> HIDE DEF f, w
  <2> QED BY <2>1, <2>2, <2>3, <2>4, <2>5, StartOrNotHolds, OpenPageHolds
<1>2. SameWork(session, session) /\ SameChoice(session, session) /\ SameTasks(ui, ui)
  BY DEF SameWork, SameChoice, SameTasks
<1>3. CASE ClickRetry
  BY <1>2, <1>3, OpenPageHolds DEF ClickRetry
<1>4. CASE CaptureDownload
  <2>1. CASE UNCHANGED vars
    <3>1. QuietStep
      BY <1>2, <2>1 DEF vars, QuietStep, workerVars, GuiInv, ChoiceInv, Idles
    <3> QED BY <3>1, QuietStepHolds
  <2>2. CASE Redraws(session, Failure(browser))
    BY <1>2, <2>2, BrowserOperations, RedrawHolds DEF Redraws
  <2>3. CASE \E online \in BOOLEAN : StartOrNot(session, Captured(browser), TRUE, online)
    <3>1. Captured(browser) \in Browsers
      BY BrowserOperations
    <3>2. Runs
      BY <1>4 DEF CaptureDownload
    <3> QED BY <1>2, <2>3, <3>1, <3>2, StartOrNotHolds
  <2> QED BY <1>4, <2>1, <2>2, <2>3 DEF CaptureDownload
<1> QED BY <1>1, <1>3, <1>4

-----------------------------------------------------------------------------
(***************************************************************************)
(* Changing the source, leaving and entering.                              *)
(***************************************************************************)
\* Discarding a source leaves what cleaning leaves of its workspace.
LEMMA DiscardedIsClean ==
  ASSUME NEW s \in Sessions, CleanedWorkspace(s.workspace) \in Workspaces
  PROVE  /\ Discarded(s) \in Sessions
         /\ Discarded(s).workspace = CleanedWorkspace(s.workspace)
         /\ Discarded(s).verified = NoRelease
         /\ Discarded(s).selected = s.selected
BY DEF Discarded, Sessions, States

\* source_change_confirmed.
LEMMA ConfirmChangeHolds ==
  ASSUME TypeOK, GuiInv, ConfirmChange
  PROVE  TypeOK' /\ GuiInv'
<1> USE DEF TypeOK, GuiTypeOK
<1>1. CASE ui.download_task
  <2>1. CalmStep
    BY <1>1 DEF ConfirmChange, CalmStep, SameWork, SameChoice, Runtimes, WorkerTypeOK,
       GuiInv, ChoiceInv, Idles
  <2>2. TaskInv'
    BY <1>1 DEF ConfirmChange, GuiInv, TaskInv, CancelStands, Idles, Active, Runs, Runtimes
  <2> QED BY <2>1, <2>2, CalmStepHolds
<1>2. CASE ~ui.download_task
  <2> DEFINE w == session.workspace
             s == Discarded(session)
             u == [ui EXCEPT !.dialog = FALSE]
  <2>1. w \in Workspaces /\ HoldsAs(w, folders)
    BY DEF Sessions, GuiInv, SessionInv
  <2>2. /\ CleanedFolders(w) \in [Folders -> Contents]
        /\ CleanedWorkspace(w) \in Workspaces
        /\ HoldsAs(CleanedWorkspace(w), CleanedFolders(w))
    BY <2>1, CleaningLeavesNothing
  <2>3. \A d \in Folders : CleanedFolders(w)[d] \notin HalfDone
    BY <1>2, <2>1, CleaningLeavesNothing, NoDownloadSessionOwns
  <2>4. /\ s \in Sessions /\ s.workspace = CleanedWorkspace(w)
        /\ s.verified = NoRelease
    BY <2>2, DiscardedIsClean
  <2>5. u \in Runtimes /\ SameTasks(ui, u)
    BY DEF Runtimes, SameTasks
  <2>6. /\ UpdateSourceControls(s, StatusReset(browser), u)
        /\ folders' = CleanedFolders(w)
        /\ UNCHANGED <<cancel, config, worker, mailbox>>
        /\ ui.running
    BY <1>2 DEF ConfirmChange, Runs
  <2> HIDE DEF s, u, w
  <2>7. /\ session' \in Sessions /\ SameWork(s, session')
        /\ browser' \in Browsers
        /\ ui' \in Runtimes /\ SameTasks(u, ui') /\ (ui'.editable => Idles(ui'))
    BY <2>4, <2>5, <2>6, BrowserOperations, UpdateKeepsWork
  <2>8. SameTasks(ui, ui')
    BY <2>5, <2>7 DEF SameTasks
  <2>9. TypeOK'
    BY <2>2, <2>6, <2>7 DEF WorkerTypeOK
  <2>10. /\ worker.at = "idle" /\ worker.folder = NoFolder /\ mailbox = <<>>
    BY <1>2, NoDownloadNoWorker
  <2>11. TaskInv'
    BY <2>6, <2>8 DEF GuiInv, TaskInv, CancelStands, SameTasks, Idles, Active
  <2>12. WorkerInv'
    BY <1>2, <2>6, <2>8, <2>10 DEF WorkerInv, SameTasks
  <2>13. ResultInv'
    BY <2>6, <2>10 DEF ResultInv
  <2>14. SessionInv'
    BY <1>2, <2>2, <2>4, <2>6, <2>7, <2>8 DEF SessionInv, SameWork, SameTasks
  <2>15. ConfigInv'
    BY <2>6 DEF GuiInv, ConfigInv, HoldsAs, Nothing, NoWorkspace
  <2>16. OwnedInv'
    BY <2>3, <2>6 DEF OwnedInv
  <2>17. ChoiceInv'
    BY <2>6, <2>7, <2>10 DEF ChoiceInv
  <2> QED BY <2>9, <2>11, <2>12, <2>13, <2>14, <2>15, <2>16, <2>17 DEF GuiInv
<1> QED BY <1>1, <1>2

\* The window has gone: an unverified workspace is cleaned.
LEMMA LeaveHolds ==
  ASSUME TypeOK, GuiInv, Leave
  PROVE  TypeOK' /\ GuiInv'
<1> USE DEF TypeOK, GuiTypeOK
<1> DEFINE w == session.workspace
           kept == IF w.verified THEN w ELSE CleanedWorkspace(w)
           left == IF w.verified THEN folders ELSE CleanedFolders(w)
<1>1. w \in Workspaces /\ HoldsAs(w, folders)
  BY DEF Sessions, GuiInv, SessionInv
<1>2. ~ui.download_task /\ ~ui.source_task
  BY DEF Leave, GuiInv, TaskInv, Idles
<1>3. worker.at = "idle" /\ worker.folder = NoFolder /\ mailbox = <<>>
  BY <1>2, NoDownloadNoWorker
<1>4. /\ kept \in Workspaces /\ left \in [Folders -> Contents]
      /\ HoldsAs(kept, left) /\ \A d \in Folders : left[d] \notin HalfDone
  <2>1. CASE w.verified
    <3>1. \A d \in Folders : folders[d] \notin HalfDone
      BY <1>1, <1>2, <2>1, NoDownloadSessionOwns DEF HoldsAs, HalfDone
    <3> QED BY <1>1, <2>1, <3>1 DEF WorkerTypeOK
  <2>2. CASE ~w.verified
    <3>1. kept = CleanedWorkspace(w) /\ left = CleanedFolders(w)
      BY <2>2
    <3>2. \A d \in Folders : left[d] \notin HalfDone
      BY <1>1, <1>2, <3>1, CleaningLeavesNothing, NoDownloadSessionOwns
    <3> HIDE DEF kept, left, w
    <3> QED BY <1>1, <3>1, <3>2, CleaningLeavesNothing
  <2> QED BY <2>1, <2>2
<1>5. /\ folders' = left
      /\ config' = IF session.selected = NoRelease THEN Nothing
                   ELSE [selected |-> session.selected,
                         download |-> session.download, workspace |-> kept]
      /\ session' = Entered(Nothing)
      /\ browser' = NewBrowser
      /\ ui' = [Opened EXCEPT !.running = FALSE]
      /\ UNCHANGED <<cancel, worker, mailbox>>
  BY DEF Leave
<1> HIDE DEF w, kept, left
<1>6. NoWorkspace \in Workspaces
  BY DEF NoWorkspace, Workspaces
<1>7. config' \in Configs
  BY <1>4, <1>5, <1>6 DEF Configs, Nothing, States, Sessions
<1>8. session' \in Sessions /\ session'.workspace = NoWorkspace
      /\ session'.verified = NoRelease
  BY <1>5, <1>6 DEF Entered, Nothing, Sessions, States, Modes, Catalogs
<1>9. browser' \in Browsers
  BY <1>5 DEF NewBrowser, Browsers, Stages
<1>10. /\ ui' \in Runtimes /\ ui'.running = FALSE /\ ui'.quitting = FALSE
       /\ ui'.download_task = FALSE /\ ui'.source_task = FALSE
       /\ ui'.exit_pending = FALSE /\ ui'.source_change_pending = FALSE
       /\ ui'.editable = FALSE
  BY <1>5 DEF Opened, Runtimes, Pages
<1>11. TypeOK'
  BY <1>4, <1>5, <1>7, <1>8, <1>9, <1>10 DEF WorkerTypeOK
<1>12. TaskInv'
  BY <1>10 DEF TaskInv, CancelStands, Idles
<1>13. WorkerInv'
  BY <1>3, <1>5, <1>10 DEF WorkerInv
<1>14. ResultInv'
  BY <1>3, <1>5 DEF ResultInv
<1>15. SessionInv'
  BY <1>8, <1>10 DEF SessionInv, HoldsAs, NoWorkspace
<1>16. ConfigInv'
  BY <1>4, <1>5, <1>10 DEF ConfigInv, HoldsAs, Nothing, NoWorkspace
<1>17. OwnedInv'
  BY <1>4, <1>5 DEF OwnedInv
<1>18. ChoiceInv'
  BY <1>3, <1>5, <1>10 DEF ChoiceInv
<1> QED BY <1>11, <1>12, <1>13, <1>14, <1>15, <1>16, <1>17, <1>18 DEF GuiInv

\* The way in again.
LEMMA EnterHolds ==
  ASSUME TypeOK, GuiInv, Enter
  PROVE  TypeOK' /\ GuiInv'
<1> USE DEF TypeOK, GuiTypeOK
<1>1. ~ui.download_task /\ ~ui.running
  BY DEF Enter, GuiInv, TaskInv, Idles
<1>2. worker.at = "idle" /\ worker.folder = NoFolder /\ mailbox = <<>>
  BY <1>1, NoDownloadNoWorker
<1>3. \A d \in Folders : folders[d] \notin HalfDone
  BY <1>1, NoDownloadSessionOwns
<1> DEFINE e == Entered(config)
<1>4. /\ UpdateSourceControls(e, browser, Opened) /\ config' = Nothing
      /\ cancel' = FALSE /\ UNCHANGED <<worker, mailbox, folders>>
  BY DEF Enter
<1>5. e \in Sessions /\ e.workspace = config.workspace /\ e.verified = NoRelease
  BY DEF Entered, Sessions, States, Modes, Catalogs, Configs
<1>6. config' \in Configs
  BY <1>4 DEF Configs, Nothing, States, NoWorkspace, Workspaces
<1>7. /\ Opened \in Runtimes /\ Opened.running = TRUE /\ Opened.quitting = FALSE
      /\ Opened.download_task = FALSE /\ Opened.source_task = FALSE
      /\ Opened.exit_pending = FALSE /\ Opened.source_change_pending = FALSE
  BY DEF Opened, Runtimes, Pages
<1> HIDE DEF e
<1>8. /\ session' \in Sessions /\ session'.workspace = config.workspace
      /\ session'.verified = NoRelease
      /\ browser' \in Browsers
      /\ ui' \in Runtimes /\ SameTasks(Opened, ui') /\ (ui'.editable => Idles(ui'))
  BY <1>4, <1>5, <1>7, UpdateKeepsWork DEF SameWork
<1>9. /\ ui'.running = TRUE /\ ui'.quitting = FALSE
      /\ ui'.download_task = FALSE /\ ui'.source_task = FALSE
      /\ ui'.exit_pending = FALSE /\ ui'.source_change_pending = FALSE
  BY <1>7, <1>8 DEF SameTasks
<1>10. TypeOK'
  BY <1>4, <1>6, <1>8 DEF WorkerTypeOK
<1>11. TaskInv'
  BY <1>9 DEF TaskInv, CancelStands, Idles
<1>12. WorkerInv'
  BY <1>2, <1>4, <1>9 DEF WorkerInv
<1>13. ResultInv'
  BY <1>2, <1>4 DEF ResultInv
<1>14. SessionInv'
  BY <1>4, <1>8, <1>9 DEF GuiInv, ConfigInv, SessionInv
<1>15. ConfigInv'
  BY <1>4 DEF ConfigInv, HoldsAs, Nothing, NoWorkspace
<1>16. OwnedInv'
  BY <1>3, <1>4 DEF OwnedInv
<1>17. ChoiceInv'
  BY <1>2, <1>4, <1>8 DEF ChoiceInv
<1> QED BY <1>10, <1>11, <1>12, <1>13, <1>14, <1>15, <1>16, <1>17 DEF GuiInv

-----------------------------------------------------------------------------
(***************************************************************************)
(* What the worker has posted reaches the main loop.                       *)
(***************************************************************************)
\* Messages are progress or results, and say so.
LEMMA MessageKinds ==
  ASSUME NEW m \in Messages
  PROVE  /\ m.kind \in {"progress", "result"}
         /\ m.state \in States
         /\ m.kind = "result" =>
              /\ m.source \in BOOLEAN /\ m.workspace \in Workspaces
              /\ m.verified \in Releases \cup {NoRelease} /\ m.release \in Releases
BY DEF Messages

\* Handling a progress message takes it from the mailbox, no more.
LEMMA HandleProgressHolds ==
  ASSUME TypeOK, GuiInv, HandleProgress
  PROVE  TypeOK' /\ GuiInv'
<1> USE DEF TypeOK, GuiTypeOK
<1>1. /\ mailbox \in Seq(Messages) /\ mailbox # <<>>
      /\ mailbox[1] \in Messages /\ mailbox[1].kind = "progress"
      /\ Head(mailbox) = mailbox[1]
  BY DEF WorkerTypeOK, HandleProgress
<1> DEFINE t == [session EXCEPT !.download = mailbox[1].state]
<1>2. /\ UpdateSourceControls(t, browser, ui)
      /\ mailbox' = Tail(mailbox)
      /\ UNCHANGED <<config, cancel, worker, folders>>
  BY <1>1 DEF HandleProgress
<1>3. /\ Tail(mailbox) \in Seq(Messages) /\ Len(Tail(mailbox)) = Len(mailbox) - 1
      /\ Len(mailbox) \in Nat
      /\ \A i \in 1..Len(Tail(mailbox)) :
           i + 1 \in 1..Len(mailbox) /\ Tail(mailbox)[i] = mailbox[i + 1]
  BY <1>1
<1>4. /\ t \in Sessions /\ SameWork(session, t) /\ SameChoice(session, t)
      /\ ui.download_task /\ ~Idles(ui)
  BY <1>1, MessageKinds DEF Sessions, SameWork, SameChoice, GuiInv, WorkerInv, Idles
<1> HIDE DEF t
<1>5. /\ session' \in Sessions /\ SameWork(session, session')
       /\ SameChoice(session, session')
       /\ browser' \in Browsers
       /\ ui' \in Runtimes /\ SameTasks(ui, ui') /\ (ui'.editable => Idles(ui'))
  BY <1>2, <1>4, UpdateKeepsWork
<1>6. TypeOK'
  BY <1>2, <1>3, <1>5 DEF WorkerTypeOK
<1>7. TaskInv'
  BY <1>2, <1>5 DEF GuiInv, TaskInv, CancelStands, SameTasks, Idles, Active
<1>8. WorkerInv'
  <2>1. ui'.download_task = ui.download_task
    BY <1>5 DEF SameTasks
  <2>2. worker.at = "idle" => Tail(mailbox) # <<>>
    <3>1. ASSUME worker.at = "idle", Len(mailbox) = 1 PROVE FALSE
      BY <1>1, <3>1 DEF GuiInv, WorkerInv
    <3>2. Len(mailbox) # 1 => Len(Tail(mailbox)) # 0
      BY <1>3
    <3>3. Len(<<>>) = 0
      OBVIOUS
    <3> QED BY <3>1, <3>2, <3>3
  <2>3. ASSUME NEW i \in 1..Len(mailbox')
        PROVE  mailbox'[i].kind = "result" <=> worker.at = "idle" /\ i = Len(mailbox')
    <3>1. /\ i \in 1..Len(Tail(mailbox))
          /\ mailbox'[i] = mailbox[i + 1]
          /\ i + 1 \in 1..Len(mailbox)
      BY <1>2, <1>3
    <3>2. mailbox[i + 1].kind = "result" <=> worker.at = "idle" /\ i + 1 = Len(mailbox)
      BY <3>1 DEF GuiInv, WorkerInv
    <3>3. i + 1 = Len(mailbox) <=> i = Len(mailbox')
      BY <1>2, <1>3, <3>1
    <3> QED BY <3>1, <3>2, <3>3, Zenon
  <2> QED BY <1>2, <1>4, <2>1, <2>2, <2>3 DEF GuiInv, WorkerInv
<1>9. ResultInv'
  BY <1>2, <1>3 DEF GuiInv, ResultInv
<1>10. SessionInv'
  BY <1>2, <1>5 DEF GuiInv, SessionInv, SameWork, SameTasks
<1>11. ConfigInv'
  BY <1>2, <1>5 DEF GuiInv, ConfigInv, SameTasks
<1>12. OwnedInv'
  <2>1. SUFFICES ASSUME NEW d \in Folders, folders[d] \in HalfDone
                 PROVE  \/ worker.folder = d
                        \/ \E i \in 1..Len(mailbox') :
                             /\ mailbox'[i].kind = "result"
                             /\ mailbox'[i].workspace.folder = d
                        \/ ui.running /\ session'.workspace.folder = d
    BY <1>2, <1>5 DEF OwnedInv, SameTasks
  <2>2. CASE worker.folder = d \/ (ui.running /\ session.workspace.folder = d)
    BY <1>5, <2>2 DEF SameWork
  <2>3. ASSUME NEW i \in 1..Len(mailbox), mailbox[i].kind = "result",
               mailbox[i].workspace.folder = d
        PROVE  \E j \in 1..Len(mailbox') :
                 mailbox'[j].kind = "result" /\ mailbox'[j].workspace.folder = d
    <3>1. i # 1
      BY <1>1, <2>3
    <3>2. i - 1 \in 1..Len(Tail(mailbox)) /\ Tail(mailbox)[i - 1] = mailbox[i]
      BY <1>3, <3>1
    <3> QED BY <1>2, <2>3, <3>2
  <2> QED BY <2>1, <2>2, <2>3 DEF GuiInv, OwnedInv
<1>13. ChoiceInv'
  BY <1>2, <1>3, <1>5 DEF GuiInv, ChoiceInv, SameChoice
<1> QED BY <1>6, <1>7, <1>8, <1>9, <1>10, <1>11, <1>12, <1>13 DEF GuiInv

\* The result a download task ends with is the last message, and the worker
\* that posted it is gone.
LEMMA ResultIsLast ==
  ASSUME TypeOK, GuiInv, mailbox # <<>>, Head(mailbox).kind = "result"
  PROVE  /\ Head(mailbox) \in Messages
         /\ ResultHolds(Head(mailbox), folders)
         /\ Tail(mailbox) = <<>>
         /\ worker.at = "idle" /\ worker.folder = NoFolder
         /\ ui.download_task /\ ~ui.source_task
         /\ Head(mailbox).release = session.selected
         /\ \A d \in Folders : folders[d] \in HalfDone =>
              Head(mailbox).workspace.folder = d
<1>1. /\ mailbox \in Seq(Messages) /\ Len(mailbox) \in Nat \ {0}
      /\ Head(mailbox) = mailbox[1] /\ mailbox[1] \in Messages
  BY DEF TypeOK, WorkerTypeOK
<1>2. worker.at = "idle" /\ Len(mailbox) = 1
  <2>1. 1 \in 1..Len(mailbox) /\ mailbox[1].kind = "result"
    BY <1>1
  <2> QED BY <2>1 DEF GuiInv, WorkerInv
<1>3. worker.folder = NoFolder /\ ui.download_task /\ ~ui.source_task
  BY <1>2 DEF GuiInv, WorkerInv, TaskInv
<1>4. Tail(mailbox) \in Seq(Messages) /\ Len(Tail(mailbox)) = 0
  BY <1>1, <1>2
<1>5. ResultHolds(Head(mailbox), folders)
  BY <1>1, <1>2 DEF GuiInv, ResultInv
<1>6. ASSUME NEW d \in Folders, folders[d] \in HalfDone
      PROVE  Head(mailbox).workspace.folder = d
  <2>1. worker.folder # d
    BY <1>3, WorkerAssumption
  <2>2. ~(session.workspace.folder = d)
    BY <1>3, <1>6 DEF GuiInv, SessionInv, Settled, HalfDone
  <2>3. \E i \in 1..Len(mailbox) :
          mailbox[i].kind = "result" /\ mailbox[i].workspace.folder = d
    BY <1>6, <2>1, <2>2 DEF GuiInv, OwnedInv
  <2>4. \A i \in 1..Len(mailbox) : i = 1
    BY <1>2
  <2> QED BY <1>1, <2>3, <2>4
<1>7. Tail(mailbox) = <<>>
  <2> DEFINE t == Tail(mailbox)
  <2>1. t \in Seq(Messages) /\ Len(t) = 0
    BY <1>4
  <2> HIDE DEF t
  <2>2. t = <<>>
    BY <2>1
  <2> QED BY <2>2 DEF t
<1>8. Head(mailbox) \in Messages
  BY <1>1
<1>9. Head(mailbox).release = session.selected
  BY <1>1, <1>2 DEF GuiInv, ChoiceInv
<1> QED BY <1>2, <1>3, <1>5, <1>6, <1>7, <1>8, <1>9, Zenon

\* download_finished.
LEMMA HandleResultHolds ==
  ASSUME TypeOK, GuiInv, HandleResult
  PROVE  TypeOK' /\ GuiInv'
<1> USE DEF TypeOK, GuiTypeOK
<1> DEFINE r == Head(mailbox)
           back == FallsBack(r)
           s == [Stored(r) EXCEPT !.webview = @ \/ back]
           changes == ui.source_change_pending
           kept == IF changes THEN Discarded(s) ELSE s
           u == [ui EXCEPT !.download_task = FALSE, !.source_change_pending = FALSE]
           Browser(t) == IF changes \/ t # kept THEN StatusReset(browser)
                         ELSE Outcome(browser)
<1>1. /\ r \in Messages /\ r.kind = "result" /\ ResultHolds(r, folders)
      /\ Tail(mailbox) = <<>>
      /\ worker.at = "idle" /\ worker.folder = NoFolder
      /\ ui.download_task /\ ~ui.source_task
      /\ r.release = session.selected
      /\ \A d \in Folders : folders[d] \in HalfDone => r.workspace.folder = d
  BY ResultIsLast DEF HandleResult
<1>2. /\ r.state \in States /\ r.workspace \in Workspaces
      /\ r.verified \in Releases \cup {NoRelease} /\ r.release \in Releases
      /\ HoldsAs(r.workspace, folders)
  BY <1>1, MessageKinds DEF ResultHolds
<1>3. back \in BOOLEAN /\ changes \in BOOLEAN /\ Runs
  BY DEF FallsBack, Runtimes, HandleResult
<1>4. PICK online \in BOOLEAN, t \in Completions(kept, u) :
        LET opens == back /\ online /\ SelectionIsValid(t)
        IN  /\ session' = IF opens THEN [t EXCEPT !.download = "PREPARING"] ELSE t
            /\ browser' = IF opens THEN Load(Browser(t)) ELSE Browser(t)
            /\ folders' = IF changes THEN CleanedFolders(s.workspace) ELSE folders
            /\ ui' = FinishExit(Drawn(session', u))
  BY DEF HandleResult
<1>5. mailbox' = <<>> /\ UNCHANGED <<config, cancel, worker>>
  BY <1>1 DEF HandleResult
<1>6. Browser(t) \in Browsers
  BY BrowserOperations
<1> HIDE DEF back, Browser
<1>7. /\ s \in Sessions /\ s.workspace = r.workspace /\ s.verified = r.verified
      /\ s.selected = r.release
  BY <1>1, <1>2, <1>3 DEF Stored, Sessions
<1>8. /\ u \in Runtimes /\ u.running = ui.running /\ u.quitting = ui.quitting
      /\ u.download_task = FALSE /\ u.source_task = FALSE
      /\ u.exit_pending = ui.exit_pending /\ u.source_change_pending = FALSE
  BY <1>1 DEF Runtimes
<1> DEFINE opens == back /\ online /\ SelectionIsValid(t)
           v == Drawn(session', u)
<1>9. /\ session' = IF opens THEN [t EXCEPT !.download = "PREPARING"] ELSE t
      /\ browser' = IF opens THEN Load(Browser(t)) ELSE Browser(t)
      /\ folders' = IF changes THEN CleanedFolders(r.workspace) ELSE folders
      /\ ui' = FinishExit(v)
  BY <1>4, <1>7
<1>10. /\ t \in Sessions
       /\ IF changes THEN t.workspace = CleanedWorkspace(r.workspace) /\ t.verified = NoRelease
          ELSE t.workspace = r.workspace /\ t.verified = r.verified
               /\ (r.verified # NoRelease => t.selected = r.release)
  <2>1. CASE changes
    <3>1. Discarded(s) \in Sessions
          /\ Discarded(s).workspace = CleanedWorkspace(r.workspace)
          /\ Discarded(s).verified = NoRelease
      BY <1>2, <1>7, CleaningLeavesNothing, DiscardedIsClean
    <3>2. t \in Completions(Discarded(s), u)
      BY <1>4, <2>1
    <3> HIDE DEF s, u
    <3> QED BY <2>1, <3>1, <3>2, CompletionsKeepWork DEF SameWork
  <2>2. CASE ~changes
    <3>1. t \in Completions(s, u)
      BY <1>4, <2>2
    <3>2. s.selected # NoRelease
      BY <1>2, <1>7, WorkerAssumption
    <3>3. t = s
      BY <3>1, <3>2 DEF Completions
    <3> HIDE DEF s, u
    <3> QED BY <1>7, <2>2, <3>3
  <2> QED BY <2>1, <2>2
<1> HIDE DEF r, s, u, kept, opens
<1>11. /\ folders' \in [Folders -> Contents]
       /\ HoldsAs(t.workspace, folders')
       /\ \A d \in Folders : folders'[d] \in HalfDone => t.workspace.folder = d
  <2>1. CASE changes
    <3>1. /\ CleanedFolders(r.workspace) \in [Folders -> Contents]
          /\ HoldsAs(CleanedWorkspace(r.workspace), CleanedFolders(r.workspace))
          /\ \A d \in Folders : CleanedFolders(r.workspace)[d] \in HalfDone =>
               folders[d] \in HalfDone /\ r.workspace.folder # d
      BY <1>2, CleaningLeavesNothing
    <3> QED BY <1>1, <1>9, <1>10, <2>1, <3>1
  <2>2. CASE ~changes
    BY <1>1, <1>2, <1>9, <1>10, <2>2 DEF WorkerTypeOK
  <2> QED BY <2>1, <2>2
<1>12. t.verified # NoRelease /\ t.selected # NoRelease => t.verified = t.selected
  BY <1>1, <1>10 DEF ResultHolds
<1>13. /\ session' \in Sessions /\ session'.workspace = t.workspace
       /\ session'.verified = t.verified /\ session'.selected = t.selected
  BY <1>9, <1>10 DEF Sessions, States
<1>14. browser' \in Browsers
  BY <1>6, <1>9, BrowserOperations
<1>15. v \in Runtimes /\ SameTasks(u, v)
  BY <1>8, DrawnKeepsTasks DEF SameTasks
<1> HIDE DEF v
<1>16. /\ ui' \in Runtimes /\ ui'.running = ui.running
       /\ ui'.quitting = (ui.quitting \/ ui.exit_pending)
       /\ ui'.download_task = FALSE /\ ui'.source_task = FALSE
       /\ ui'.exit_pending = ui.exit_pending /\ ui'.source_change_pending = FALSE
  BY <1>8, <1>9, <1>15 DEF FinishExit, Runtimes, SameTasks
<1>17. TypeOK'
  BY <1>5, <1>11, <1>13, <1>14, <1>16 DEF WorkerTypeOK
<1>18. TaskInv'
  BY <1>3, <1>16 DEF TaskInv, CancelStands, Idles, Runs
<1>19. WorkerInv'
  BY <1>1, <1>5, <1>16 DEF WorkerInv
<1>20. ResultInv'
  BY <1>5 DEF ResultInv
<1>21. SessionInv'
  BY <1>11, <1>12, <1>13, <1>16 DEF SessionInv
<1>22. ConfigInv'
  BY <1>3, <1>5 DEF GuiInv, ConfigInv, HoldsAs, Nothing, NoWorkspace, Runs
<1>23. OwnedInv'
  BY <1>3, <1>11, <1>13, <1>16 DEF OwnedInv, Runs
<1>24. ChoiceInv'
  BY <1>1, <1>5, <1>16 DEF ChoiceInv, Idles
<1> QED BY <1>17, <1>18, <1>19, <1>20, <1>21, <1>22, <1>23, <1>24 DEF GuiInv

-----------------------------------------------------------------------------
(***************************************************************************)
(* The worker's steps.                                                     *)
(***************************************************************************)
\* While the worker runs, whatever is half done is its own, and nothing but
\* progress is on its way.
LEMMA RunningWorkerOwns ==
  ASSUME TypeOK, GuiInv, worker.at # "idle"
  PROVE  /\ \A d \in Folders : folders[d] \in HalfDone => worker.folder = d
         /\ \A i \in 1..Len(mailbox) : mailbox[i].kind # "result"
         /\ ui.download_task /\ worker.release \in Releases
<1>1. ui.download_task /\ worker.release \in Releases
  BY DEF GuiInv, WorkerInv
<1>2. \A i \in 1..Len(mailbox) : mailbox[i].kind # "result"
  BY DEF GuiInv, WorkerInv
<1>3. \A d \in Folders : folders[d] \in HalfDone => session.workspace.folder # d
  BY <1>1 DEF GuiInv, SessionInv, Settled, HalfDone
<1> QED BY <1>1, <1>2, <1>3 DEF GuiInv, OwnedInv

\* What every workspace says of its directory stays so.
WorkspacesStay ==
  /\ folders' \in [Folders -> Contents]
  /\ \A w \in Workspaces : HoldsAs(w, folders) =>
       HoldsAs(w, folders') /\ (Settled(w, folders) => Settled(w, folders'))

\* Outside the worker and its directory nothing changes.
WorkerAlone ==
  /\ WorkspacesStay
  /\ UNCHANGED <<session, browser, ui, config, cancel>>

\* A step of the worker leaves what the main loop owns as the invariant says.
LEMMA WorkerAloneHolds ==
  ASSUME TypeOK, GuiInv, worker.at # "idle", WorkerAlone
  PROVE  TaskInv' /\ SessionInv' /\ ConfigInv'
<1> USE DEF TypeOK, GuiTypeOK
<1>1. TaskInv'
  BY DEF GuiInv, TaskInv, CancelStands, WorkerAlone, Idles, Active
<1>2. session.workspace \in Workspaces /\ config.workspace \in Workspaces
  BY DEF Sessions, Configs
<1>3. SessionInv'
  BY <1>2 DEF GuiInv, SessionInv, WorkerAlone, WorkspacesStay
<1>4. ConfigInv'
  BY <1>2 DEF GuiInv, ConfigInv, WorkerAlone, WorkspacesStay
<1> QED BY <1>1, <1>3, <1>4

\* The choice a worker was started for is that of the session.
LEMMA WorkerKeepsChoice ==
  ASSUME TypeOK, GuiInv, worker.at # "idle", WorkerAlone
  PROVE  /\ ui'.editable => Idles(ui')
         /\ worker.release = session'.selected /\ worker.mode = session'.mode
BY DEF GuiInv, ChoiceInv, WorkerAlone, Idles

\* The worker goes on, with or without a word of its progress.
LEMMA WorkerGoesOn ==
  ASSUME TypeOK, GuiInv, worker.at # "idle", WorkerAlone,
         worker' \in Workers, worker'.at # "idle", worker'.release = worker.release,
         worker'.mode = worker.mode,
         IF worker'.at \in {"transfer", "inspect"}
         THEN worker'.folder \in Folders /\ folders'[worker'.folder] \in HalfDone
         ELSE worker'.folder = NoFolder,
         \A d \in Folders : folders'[d] \in HalfDone => worker'.folder = d,
         \/ mailbox' = mailbox
         \/ \E state \in States : mailbox' = Append(mailbox, Progress(state))
  PROVE  TypeOK' /\ GuiInv'
<1> USE DEF TypeOK, GuiTypeOK
<1>1. /\ mailbox' \in Seq(Messages)
      /\ \A i \in 1..Len(mailbox') : mailbox'[i].kind # "result"
  <2>1. /\ mailbox \in Seq(Messages)
        /\ \A i \in 1..Len(mailbox) : mailbox[i].kind # "result"
    BY RunningWorkerOwns DEF WorkerTypeOK
  <2>2. CASE mailbox' = mailbox
    BY <2>1, <2>2
  <2>3. ASSUME NEW state \in States, mailbox' = Append(mailbox, Progress(state))
        PROVE  /\ mailbox' \in Seq(Messages)
               /\ \A i \in 1..Len(mailbox') : mailbox'[i].kind # "result"
    <3>1. Progress(state) \in Messages /\ Progress(state).kind = "progress"
      BY <2>3 DEF Progress, Messages
    <3> DEFINE word == Progress(state)
    <3> HIDE DEF word
    <3>2. mailbox' = Append(mailbox, word) /\ word \in Messages /\ word.kind = "progress"
      BY <2>3, <3>1 DEF word
    <3> QED BY <2>1, <3>2
  <2> QED BY <2>2, <2>3
<1>2. TaskInv' /\ SessionInv' /\ ConfigInv'
  BY WorkerAloneHolds
<1>3. TypeOK'
  BY <1>1 DEF WorkerTypeOK, WorkerAlone, WorkspacesStay
<1>4. WorkerInv'
  BY <1>1, RunningWorkerOwns DEF WorkerInv, WorkerAlone
<1>5. ResultInv'
  BY <1>1 DEF ResultInv
<1>6. OwnedInv'
  BY DEF OwnedInv
<1>7. ChoiceInv'
  BY <1>1, WorkerKeepsChoice DEF ChoiceInv
<1> QED BY <1>2, <1>3, <1>4, <1>5, <1>6, <1>7 DEF GuiInv

\* The worker ends: its last words, of which the very last is its result.
LEMMA LastWords ==
  ASSUME NEW box \in Seq(Messages), NEW posts \in Seq(Messages), NEW r \in Messages,
         \A i \in 1..Len(box) : box[i].kind # "result",
         \A i \in 1..Len(posts) : posts[i].kind # "result",
         r.kind = "result",
         NEW all, all = box \o posts \o <<r>>
  PROVE  /\ all \in Seq(Messages) /\ all # <<>>
         /\ all[Len(all)] = r /\ Len(all) \in 1..Len(all)
         /\ \A i \in 1..Len(all) : all[i].kind = "result" <=> i = Len(all)
<1> DEFINE some == box \o posts
<1>1. /\ some \in Seq(Messages) /\ Len(some) = Len(box) + Len(posts)
      /\ \A i \in 1..Len(some) :
           some[i] = IF i <= Len(box) THEN box[i] ELSE posts[i - Len(box)]
  OBVIOUS
<1>2. \A i \in 1..Len(some) : some[i].kind # "result"
  <2>1. SUFFICES ASSUME NEW i \in 1..Len(some) PROVE some[i].kind # "result"
    OBVIOUS
  <2>2. CASE i <= Len(box)
    BY <1>1, <2>1, <2>2
  <2>3. CASE ~(i <= Len(box))
    <3>1. i - Len(box) \in 1..Len(posts)
      BY <1>1, <2>3
    <3> QED BY <1>1, <2>3, <3>1
  <2> QED BY <2>2, <2>3
<1> HIDE DEF some
<1>3. all = Append(some, r)
  BY <1>1 DEF some
<1>4. /\ all \in Seq(Messages) /\ Len(all) = Len(some) + 1 /\ all[Len(all)] = r
      /\ \A i \in 1..Len(some) : all[i] = some[i]
      /\ Len(some) \in Nat
  BY <1>1, <1>3
<1>5. \A i \in 1..Len(all) : all[i].kind = "result" <=> i = Len(all)
  BY <1>2, <1>4
<1> QED BY <1>4, <1>5

\* A worker ends by posting its result last; what it leaves half done is named
\* by the result.
LEMMA WorkerEnds ==
  ASSUME TypeOK, GuiInv, worker.at # "idle", WorkerAlone,
         NEW posts \in Seq(Messages), NEW r \in Messages,
         \A i \in 1..Len(posts) : posts[i].kind # "result",
         r.kind = "result", r.release = worker.release, ResultHolds(r, folders'),
         \A d \in Folders : folders'[d] \in HalfDone => r.workspace.folder = d,
         End(posts, r)
  PROVE  TypeOK' /\ GuiInv'
<1> USE DEF TypeOK, GuiTypeOK
<1>1. /\ mailbox \in Seq(Messages)
      /\ \A i \in 1..Len(mailbox) : mailbox[i].kind # "result"
      /\ ui.download_task
  BY RunningWorkerOwns DEF WorkerTypeOK
<1>2. /\ mailbox' \in Seq(Messages) /\ mailbox' # <<>>
      /\ mailbox'[Len(mailbox')] = r /\ Len(mailbox') \in 1..Len(mailbox')
      /\ \A i \in 1..Len(mailbox') : mailbox'[i].kind = "result" <=> i = Len(mailbox')
  BY <1>1, LastWords DEF End
<1>3. /\ worker' \in Workers /\ worker'.at = "idle" /\ worker'.folder = NoFolder
  BY DEF End, Idle, Workers, Modes
<1>4. TaskInv' /\ SessionInv' /\ ConfigInv'
  BY WorkerAloneHolds
<1>5. TypeOK'
  BY <1>2, <1>3 DEF WorkerTypeOK, WorkerAlone, WorkspacesStay
<1>6. WorkerInv'
  BY <1>1, <1>2, <1>3 DEF WorkerInv, WorkerAlone
<1>7. ResultInv'
  BY <1>2 DEF ResultInv
<1>8. OwnedInv'
  BY <1>2 DEF OwnedInv
<1>9. ChoiceInv'
  BY <1>2, <1>3, WorkerKeepsChoice DEF ChoiceInv
<1> QED BY <1>4, <1>5, <1>6, <1>7, <1>8, <1>9 DEF GuiInv

\* A change of one directory that holds no kept image.
LEMMA OneDirectoryChanges ==
  ASSUME TypeOK, NEW d \in Folders, folders[d] \notin {"image", "rejected"},
         NEW c \in Contents, folders' = [folders EXCEPT ![d] = c]
  PROVE  /\ WorkspacesStay
         /\ folders'[d] = c /\ \A e \in Folders : e # d => folders'[e] = folders[e]
<1> DEFINE g == [folders EXCEPT ![d] = c]
<1>1. g \in [Folders -> Contents]
  BY DEF TypeOK, WorkerTypeOK
<1>2. \A w \in Workspaces :
        /\ HoldsAs(w, folders) => HoldsAs(w, g)
        /\ HoldsAs(w, folders) /\ Settled(w, folders) => Settled(w, g)
  BY OtherDirectoriesStay
<1>3. g[d] = c /\ \A e \in Folders : e # d => g[e] = folders[e]
  BY DEF TypeOK, WorkerTypeOK
<1>4. folders' = g
  OBVIOUS
<1> HIDE DEF g
<1> QED BY <1>1, <1>2, <1>3, <1>4 DEF WorkspacesStay

\* Directories that do not change agree with every workspace that agreed.
LEMMA NoDirectoryChanges ==
  ASSUME TypeOK, folders' = folders
  PROVE  WorkspacesStay
BY DEF TypeOK, WorkerTypeOK, WorkspacesStay

\* What a result is made of.
LEMMA ResultIsMessage ==
  ASSUME TypeOK, worker.release \in Releases, NEW state \in States,
         NEW source \in BOOLEAN, NEW w \in Workspaces,
         NEW image \in Releases \cup {NoRelease}
  PROVE  /\ Result(state, source, w, image) \in Messages
         /\ Result(state, source, w, image).kind = "result"
         /\ Result(state, source, w, image).workspace = w
         /\ Result(state, source, w, image).verified = image
         /\ Result(state, source, w, image).release = worker.release
BY DEF Result, Messages

\* A workspace as created holds no image.
LEMMA PlainWorkspace ==
  ASSUME NEW d \in Folders \cup {NoFolder}
  PROVE  /\ In(d) \in Workspaces /\ In(d).folder = d
         /\ In(d).verified = FALSE /\ In(d).retained = FALSE
         /\ NoWorkspace \in Workspaces /\ NoWorkspace.folder = NoFolder
         /\ NoWorkspace.verified = FALSE /\ NoWorkspace.retained = FALSE
BY DEF In, NoWorkspace, Workspaces

\* Words of progress.
LEMMA ProgressPosts ==
  ASSUME NEW a \in States, NEW b \in States,
         NEW posts \in {<<>>, <<Progress(a)>>, <<Progress(a), Progress(b)>>}
  PROVE  posts \in Seq(Messages) /\ \A i \in 1..Len(posts) : posts[i].kind # "result"
<1>1. /\ Progress(a) \in Messages /\ Progress(a).kind = "progress"
      /\ Progress(b) \in Messages /\ Progress(b).kind = "progress"
  BY DEF Progress, Messages
<1> DEFINE pa == Progress(a)
           pb == Progress(b)
<1>2. /\ pa \in Messages /\ pa.kind = "progress" /\ pb \in Messages /\ pb.kind = "progress"
      /\ posts = <<>> \/ posts = <<pa>> \/ posts = <<pa, pb>>
  BY <1>1
<1> HIDE DEF pa, pb
<1>3. CASE posts = <<>>
  BY <1>3
<1>4. CASE posts = <<pa>>
  BY <1>2, <1>4
<1>5. CASE posts = <<pa, pb>>
  <2>1. <<pa, pb>> \in Seq(Messages) /\ Len(<<pa, pb>>) = 2
    BY <1>2
  <2>2. <<pa, pb>>[1] = pa /\ <<pa, pb>>[2] = pb
    OBVIOUS
  <2>3. \A i \in 1..2 : i = 1 \/ i = 2
    OBVIOUS
  <2> QED BY <1>2, <1>5, <2>1, <2>2, <2>3
<1> QED BY <1>2, <1>3, <1>4, <1>5

\* Ending before there is a directory.
LEMMA EndsWithoutDirectory ==
  ASSUME TypeOK, GuiInv, worker.at \in {"resolve", "create"},
         UNCHANGED <<session, browser, ui, config, cancel, folders>>,
         NEW a \in States, NEW posts \in {<<>>, <<Progress(a)>>},
         NEW source \in BOOLEAN,
         End(posts, Result("FAILED", source, NoWorkspace, NoRelease))
  PROVE  TypeOK' /\ GuiInv'
<1> DEFINE r == Result("FAILED", source, NoWorkspace, NoRelease)
<1>1. /\ worker.at # "idle" /\ worker.release \in Releases /\ worker.folder = NoFolder
  BY DEF GuiInv, WorkerInv
<1>2. /\ NoWorkspace \in Workspaces /\ NoWorkspace.verified = FALSE
      /\ NoWorkspace.retained = FALSE
  BY DEF NoWorkspace, Workspaces
<1>3. /\ r \in Messages /\ r.kind = "result" /\ r.workspace = NoWorkspace
      /\ r.verified = NoRelease /\ r.release = worker.release
  BY <1>1, <1>2, ResultIsMessage DEF States
<1>4. posts \in Seq(Messages) /\ \A i \in 1..Len(posts) : posts[i].kind # "result"
  BY ProgressPosts
<1>5. WorkerAlone
  BY NoDirectoryChanges DEF WorkerAlone
<1>6. End(posts, r)
  OBVIOUS
<1> HIDE DEF r
<1>7. ResultHolds(r, folders')
  BY <1>2, <1>3 DEF ResultHolds, HoldsAs
<1>8. \A d \in Folders : folders'[d] \in HalfDone => r.workspace.folder = d
  BY <1>1, RunningWorkerOwns, WorkerAssumption
<1> QED BY <1>1, <1>3, <1>4, <1>5, <1>6, <1>7, <1>8, WorkerEnds

\* Ending with the directory that was filled.
LEMMA EndsWithDirectory ==
  ASSUME TypeOK, GuiInv, worker.at \in {"transfer", "inspect"},
         UNCHANGED <<session, browser, ui, config, cancel>>,
         NEW c \in Contents, Leaves(c), NEW a \in States,
         NEW state \in States, NEW w \in Workspaces, w.folder = worker.folder,
         w.verified => c = "image", w.retained => c = "rejected",
         NEW image \in Releases \cup {NoRelease},
         image # NoRelease => image = worker.release,
         End(<<Progress(a)>>, Result(state, FALSE, w, image))
  PROVE  TypeOK' /\ GuiInv'
<1> DEFINE no == FALSE
           r == Result(state, no, w, image)
           posts == <<Progress(a)>>
<1>1. /\ worker.at # "idle" /\ worker.release \in Releases
      /\ worker.folder \in Folders /\ folders[worker.folder] \in HalfDone
  BY DEF GuiInv, WorkerInv
<1>2. /\ r \in Messages /\ r.kind = "result" /\ r.workspace = w
      /\ r.verified = image /\ r.release = worker.release
  <2>1. no \in BOOLEAN
    OBVIOUS
  <2> HIDE DEF no
  <2> QED BY <1>1, <2>1, ResultIsMessage
<1>3. posts \in Seq(Messages) /\ \A i \in 1..Len(posts) : posts[i].kind # "result"
  BY ProgressPosts
<1>4. /\ WorkspacesStay /\ folders'[worker.folder] = c
      /\ \A e \in Folders : e # worker.folder => folders'[e] = folders[e]
  BY <1>1, OneDirectoryChanges DEF Leaves, HalfDone
<1>5. End(posts, r)
  OBVIOUS
<1> HIDE DEF r, posts
<1>6. ResultHolds(r, folders')
  BY <1>1, <1>2, <1>4 DEF ResultHolds, HoldsAs
<1>7. \A d \in Folders : folders'[d] \in HalfDone => r.workspace.folder = d
  BY <1>1, <1>2, <1>4, RunningWorkerOwns
<1>8. WorkerAlone
  BY <1>4 DEF WorkerAlone
<1> QED BY <1>1, <1>2, <1>3, <1>5, <1>6, <1>7, <1>8, WorkerEnds

\* A new directory, given up at once.
LEMMA EndsWithNewDirectory ==
  ASSUME TypeOK, GuiInv, worker.at = "create",
         UNCHANGED <<session, browser, ui, config, cancel>>,
         NEW d \in Folders, folders[d] = "absent",
         folders' = [folders EXCEPT ![d] = "empty"],
         NEW a \in States, NEW b \in States,
         NEW posts \in {<<>>, <<Progress(a)>>, <<Progress(a), Progress(b)>>},
         NEW state \in States, End(posts, Result(state, FALSE, In(d), NoRelease))
  PROVE  TypeOK' /\ GuiInv'
<1> DEFINE no == FALSE
           r == Result(state, no, In(d), NoRelease)
<1>1. worker.at # "idle" /\ worker.release \in Releases /\ worker.folder = NoFolder
  BY DEF GuiInv, WorkerInv
<1>2. /\ In(d) \in Workspaces /\ In(d).folder = d
      /\ In(d).verified = FALSE /\ In(d).retained = FALSE
  BY PlainWorkspace
<1>3. /\ r \in Messages /\ r.kind = "result" /\ r.workspace = In(d)
      /\ r.verified = NoRelease /\ r.release = worker.release
  <2>1. no \in BOOLEAN
    OBVIOUS
  <2> HIDE DEF no
  <2> QED BY <1>1, <1>2, <2>1, ResultIsMessage
<1>4. posts \in Seq(Messages) /\ \A i \in 1..Len(posts) : posts[i].kind # "result"
  BY ProgressPosts
<1>5. /\ WorkspacesStay /\ \A e \in Folders : e # d => folders'[e] = folders[e]
  BY OneDirectoryChanges DEF Contents
<1>6. End(posts, r)
  OBVIOUS
<1> HIDE DEF r
<1>7. ResultHolds(r, folders')
  BY <1>2, <1>3 DEF ResultHolds, HoldsAs
<1>8. \A e \in Folders : folders'[e] \in HalfDone => r.workspace.folder = e
  BY <1>1, <1>2, <1>3, <1>5, RunningWorkerOwns, WorkerAssumption
<1>9. WorkerAlone
  BY <1>5 DEF WorkerAlone
<1> QED BY <1>1, <1>3, <1>4, <1>6, <1>7, <1>8, <1>9, WorkerEnds

\* A new directory, to be filled.
LEMMA FillsNewDirectory ==
  ASSUME TypeOK, GuiInv, worker.at = "create",
         UNCHANGED <<session, browser, ui, config, cancel>>,
         NEW d \in Folders, folders[d] = "absent", NEW c \in HalfDone,
         folders' = [folders EXCEPT ![d] = c],
         NEW next \in {"transfer", "inspect"},
         worker' = [worker EXCEPT !.at = next, !.folder = d],
         NEW state \in States, mailbox' = Append(mailbox, Progress(state))
  PROVE  TypeOK' /\ GuiInv'
<1>1. worker.at # "idle" /\ worker.folder = NoFolder
  BY DEF GuiInv, WorkerInv
<1>2. c \in Contents
  BY DEF Contents, HalfDone
<1>3. /\ WorkspacesStay /\ folders'[d] = c
      /\ \A e \in Folders : e # d => folders'[e] = folders[e]
  BY <1>2, OneDirectoryChanges
<1>4. /\ worker' \in Workers /\ worker'.at = next /\ worker'.folder = d
      /\ worker'.release = worker.release /\ worker'.mode = worker.mode
  BY DEF TypeOK, WorkerTypeOK, Workers
<1>5. \A e \in Folders : folders'[e] \in HalfDone => worker'.folder = e
  BY <1>1, <1>3, <1>4, RunningWorkerOwns, WorkerAssumption
<1>6. WorkerAlone
  BY <1>3 DEF WorkerAlone
<1> QED BY <1>1, <1>3, <1>4, <1>5, <1>6, WorkerGoesOn

\* The steps before there is a directory: Fido's link.
LEMMA ResolvingHolds ==
  ASSUME TypeOK, GuiInv, Begin \/ Resolve \/ CannotCreate,
         UNCHANGED <<session, browser, ui, config>>
  PROVE  TypeOK' /\ GuiInv'
<1>1. CASE Begin
  <2>1. /\ worker.at # "idle" /\ worker.folder = NoFolder
        /\ mailbox' = Append(mailbox, Progress("PREPARING"))
        /\ UNCHANGED <<cancel, folders>>
    BY <1>1 DEF Begin, GuiInv, WorkerInv
  <2>2. /\ worker' \in Workers /\ worker'.at = "resolve"
        /\ worker'.release = worker.release /\ worker'.mode = worker.mode
        /\ worker'.folder = NoFolder
    BY <1>1, <2>1 DEF Begin, TypeOK, WorkerTypeOK, Workers
  <2>3. WorkerAlone
    BY <2>1, NoDirectoryChanges DEF WorkerAlone
  <2>4. \A d \in Folders : folders'[d] \in HalfDone => worker'.folder = d
    BY <2>1, <2>2, RunningWorkerOwns
  <2>5. \E state \in States : mailbox' = Append(mailbox, Progress(state))
    BY <2>1 DEF States
  <2> QED BY <2>1, <2>2, <2>3, <2>4, <2>5, WorkerGoesOn
<1>2. ASSUME NEW a \in States, NEW posts \in {<<>>, <<Progress(a)>>}, NEW source \in BOOLEAN,
             Resolve \/ CannotCreate,
             End(posts, Result("FAILED", source, NoWorkspace, NoRelease))
      PROVE  TypeOK' /\ GuiInv'
  BY <1>2, EndsWithoutDirectory DEF Resolve, CannotCreate
<1>3. "FAILED" \in States /\ "CANCELLED" \in States /\ TRUE \in BOOLEAN /\ FALSE \in BOOLEAN
  BY DEF States
<1>4. CASE Resolve
  <2>1. CASE worker' = [worker EXCEPT !.at = "create"] /\ UNCHANGED mailbox
    <3>1. /\ worker.at # "idle" /\ worker.folder = NoFolder
          /\ UNCHANGED <<cancel, folders>>
      BY <1>4 DEF Resolve, GuiInv, WorkerInv
    <3>2. /\ worker' \in Workers /\ worker'.at = "create"
          /\ worker'.release = worker.release /\ worker'.mode = worker.mode
          /\ worker'.folder = NoFolder
      BY <2>1, <3>1 DEF TypeOK, WorkerTypeOK, Workers
    <3>3. WorkerAlone
      BY <3>1, NoDirectoryChanges DEF WorkerAlone
    <3>4. \A d \in Folders : folders'[d] \in HalfDone => worker'.folder = d
      BY <3>1, <3>2, RunningWorkerOwns
    <3> QED BY <2>1, <3>1, <3>2, <3>3, <3>4, WorkerGoesOn
  <2>2. CASE \/ End(<<Progress("FAILED")>>, Result("FAILED", TRUE, NoWorkspace, NoRelease))
             \/ End(<<Progress("CANCELLED")>>,
                    Result("FAILED", FALSE, NoWorkspace, NoRelease))
    BY <1>2, <1>3, <1>4, <2>2
  <2> QED BY <1>4, <2>1, <2>2 DEF Resolve
<1>5. CASE CannotCreate
  <2>1. End(<<>>, Result("FAILED", FALSE, NoWorkspace, NoRelease))
    BY <1>5 DEF CannotCreate
  <2> QED BY <1>2, <1>3, <1>5, <2>1
<1> QED BY <1>1, <1>4, <1>5

\* A failure and a cancellation, with the directory emptied.
LEMMA FailingHolds ==
  ASSUME TypeOK, GuiInv, worker.at \in {"transfer", "inspect"}, Fails \/ Cancelled,
         UNCHANGED <<session, browser, ui, config, cancel>>
  PROVE  TypeOK' /\ GuiInv'
<1>1. PICK state \in {"FAILED", "CANCELLED"} :
        End(<<Progress(state)>>, Result(state, FALSE, In(worker.folder), NoRelease))
  BY DEF Fails, Cancelled
<1>2. Leaves("empty") /\ "empty" \in Contents /\ state \in States
  BY DEF Fails, Cancelled, Contents, States
<1>3. worker.folder \in Folders \cup {NoFolder}
  BY DEF GuiInv, WorkerInv
<1>4. /\ In(worker.folder) \in Workspaces /\ In(worker.folder).folder = worker.folder
      /\ In(worker.folder).verified = FALSE /\ In(worker.folder).retained = FALSE
  BY <1>3, PlainWorkspace
<1> DEFINE c == "empty"
           image == NoRelease
           w == In(worker.folder)
<1>5. /\ c \in Contents /\ Leaves(c) /\ image \in Releases \cup {NoRelease}
      /\ image = NoRelease /\ w \in Workspaces /\ w.folder = worker.folder
      /\ ~w.verified /\ ~w.retained
      /\ End(<<Progress(state)>>, Result(state, FALSE, w, image))
  BY <1>1, <1>2, <1>4
<1> HIDE DEF c, image, w
<1> QED BY <1>2, <1>5, EndsWithDirectory

\* A transfer goes on to the inspection, or fails and ends.
LEMMA TransferHolds ==
  ASSUME TypeOK, GuiInv, Transfer, UNCHANGED <<session, browser, ui, config>>
  PROVE  TypeOK' /\ GuiInv'
<1>1. worker.at = "transfer" /\ UNCHANGED cancel
  BY DEF Transfer
<1>2. CASE Fails \/ Cancelled
  BY <1>1, <1>2, FailingHolds
<1>3. CASE /\ mailbox' = Append(mailbox, Progress("VERIFYING"))
           /\ worker' = [worker EXCEPT !.at = "inspect"]
           /\ UNCHANGED folders
  <2>1. worker.folder \in Folders /\ folders[worker.folder] \in HalfDone
    BY <1>1 DEF GuiInv, WorkerInv
  <2>2. /\ worker' \in Workers /\ worker'.at = "inspect"
        /\ worker'.release = worker.release /\ worker'.mode = worker.mode
        /\ worker'.folder = worker.folder
    BY <1>3 DEF TypeOK, WorkerTypeOK, Workers
  <2>3. WorkerAlone
    BY <1>1, <1>3, NoDirectoryChanges DEF WorkerAlone
  <2>4. \A d \in Folders : folders'[d] \in HalfDone => worker'.folder = d
    BY <1>1, <1>3, <2>2, RunningWorkerOwns
  <2>5. \E state \in States : mailbox' = Append(mailbox, Progress(state))
    BY <1>3 DEF States
  <2> QED BY <1>1, <1>3, <2>1, <2>2, <2>3, <2>4, <2>5, WorkerGoesOn
<1> QED BY <1>2, <1>3 DEF Transfer

\* The directory of the worker with what a verification made of it.
LEMMA InspectedHolds ==
  ASSUME TypeOK, GuiInv, worker.at = "inspect",
         UNCHANGED <<session, browser, ui, config, cancel>>,
         NEW c \in {"image", "rejected", "empty"}, Leaves(c),
         NEW state \in States, NEW w \in Workspaces,
         w = [In(worker.folder) EXCEPT !.verified = (c = "image"),
                                       !.retained = (c = "rejected")],
         NEW image \in Releases \cup {NoRelease},
         image # NoRelease => image = worker.release,
         End(<<Progress(state)>>, Result(state, FALSE, w, image))
  PROVE  TypeOK' /\ GuiInv'
<1>1. worker.folder \in Folders \cup {NoFolder}
  BY DEF GuiInv, WorkerInv
<1>2. /\ In(worker.folder) \in Workspaces /\ In(worker.folder).folder = worker.folder
  BY <1>1, PlainWorkspace
<1>3. /\ w.folder = worker.folder
      /\ w.verified => c = "image"
      /\ w.retained => c = "rejected"
  BY <1>2 DEF Workspaces
<1>4. c \in Contents
  BY DEF Contents
<1> QED BY <1>3, <1>4, EndsWithDirectory

\* Inspecting what was downloaded accepts it, fails, or keeps it rejected in a
\* directory the result names.
LEMMA InspectDownloadHolds ==
  ASSUME TypeOK, GuiInv, InspectDownload, UNCHANGED <<session, browser, ui, config>>
  PROVE  TypeOK' /\ GuiInv'
<1>1. worker.at = "inspect" /\ UNCHANGED cancel
  BY DEF InspectDownload
<1> DEFINE w == In(worker.folder)
<1>2. worker.folder \in Folders \cup {NoFolder}
  BY <1>1 DEF GuiInv, WorkerInv
<1>3. /\ w \in Workspaces /\ w.verified = FALSE /\ w.retained = FALSE
  BY <1>2, PlainWorkspace
<1> HIDE DEF w
<1>4. CASE Fails \/ Cancelled
  BY <1>1, <1>4, FailingHolds
<1>5. ASSUME NEW image \in Inspected, Leaves("image"),
             End(<<Progress("COMPLETE")>>,
                 Result("COMPLETE", FALSE, [w EXCEPT !.verified = TRUE], image))
      PROVE  TypeOK' /\ GuiInv'
  <2> DEFINE v == [w EXCEPT !.verified = TRUE]
             c == "image"
             state == "COMPLETE"
  <2>1. v = [w EXCEPT !.verified = (c = "image"), !.retained = (c = "rejected")]
    BY <1>3 DEF Workspaces
  <2>2. v \in Workspaces /\ state \in States /\ c \in {"image", "rejected", "empty"}
    BY <1>3 DEF Workspaces, States
  <2>3. image \in Releases \cup {NoRelease} /\ image = worker.release
    BY <1>5 DEF Inspected, Accepts
  <2>4. Leaves(c) /\ End(<<Progress(state)>>, Result(state, FALSE, v, image))
    BY <1>5
  <2> HIDE DEF v, c, state
  <2> QED BY <1>1, <2>1, <2>2, <2>3, <2>4, InspectedHolds DEF w
<1>6. CASE /\ End(<<Progress("FAILED")>>,
                  Result("FAILED", FALSE, [w EXCEPT !.retained = TRUE], NoRelease))
           /\ Leaves("rejected")
  <2> DEFINE v == [w EXCEPT !.retained = TRUE]
             c == "rejected"
             state == "FAILED"
             image == NoRelease
  <2>1. v = [w EXCEPT !.verified = (c = "image"), !.retained = (c = "rejected")]
    BY <1>3 DEF Workspaces
  <2>2. v \in Workspaces /\ state \in States /\ c \in {"image", "rejected", "empty"}
    BY <1>3 DEF Workspaces, States
  <2>3. image \in Releases \cup {NoRelease} /\ image = NoRelease
    OBVIOUS
  <2>4. Leaves(c) /\ End(<<Progress(state)>>, Result(state, FALSE, v, image))
    BY <1>6
  <2> HIDE DEF v, c, state, image
  <2> QED BY <1>1, <2>1, <2>2, <2>3, <2>4, InspectedHolds DEF w
<1> QED BY <1>4, <1>5, <1>6 DEF InspectDownload, w

\* Inspecting a file of the user's, in place.
LEMMA InspectExistingHolds ==
  ASSUME TypeOK, GuiInv, InspectExisting, UNCHANGED <<session, browser, ui, config>>
  PROVE  TypeOK' /\ GuiInv'
<1>1. worker.at = "inspect" /\ UNCHANGED cancel
  BY DEF InspectExisting
<1>2. CASE Fails \/ Cancelled
  BY <1>1, <1>2, FailingHolds
<1>3. ASSUME NEW image \in Inspected, Leaves("empty"),
             End(<<Progress("COMPLETE")>>,
                 Result("COMPLETE", FALSE, In(worker.folder), image))
      PROVE  TypeOK' /\ GuiInv'
  <2> DEFINE w == In(worker.folder)
             c == "empty"
             state == "COMPLETE"
  <2>1. worker.folder \in Folders \cup {NoFolder}
    BY <1>1 DEF GuiInv, WorkerInv
  <2>2. /\ w \in Workspaces /\ w.folder = worker.folder
        /\ ~w.verified /\ ~w.retained
    BY <2>1, PlainWorkspace
  <2>3. state \in States /\ c \in Contents
    BY DEF States, Contents
  <2>4. image \in Releases \cup {NoRelease} /\ image = worker.release
    BY <1>3 DEF Inspected, Accepts
  <2>5. Leaves(c) /\ End(<<Progress(state)>>, Result(state, FALSE, w, image))
    BY <1>3
  <2> HIDE DEF w, c, state
  <2> QED BY <1>1, <2>2, <2>3, <2>4, <2>5, EndsWithDirectory
<1> QED BY <1>2, <1>3 DEF InspectExisting

\* A fresh directory, for a download or for the inspection of an existing ISO.
LEMMA CreatingHolds ==
  ASSUME TypeOK, GuiInv, NEW d \in Folders, CreateForDownload(d) \/ CreateForExisting(d),
         UNCHANGED <<session, browser, ui, config>>
  PROVE  TypeOK' /\ GuiInv'
<1>1. worker.at = "create" /\ folders[d] = "absent" /\ UNCHANGED cancel
  BY DEF CreateForDownload, CreateForExisting
<1>2. ASSUME NEW a \in States, NEW b \in States,
             NEW posts \in {<<>>, <<Progress(a)>>, <<Progress(a), Progress(b)>>},
             NEW state \in States, folders' = [folders EXCEPT ![d] = "empty"],
             End(posts, Result(state, FALSE, In(d), NoRelease))
      PROVE  TypeOK' /\ GuiInv'
  BY <1>1, <1>2, EndsWithNewDirectory
<1>3. ASSUME NEW c \in HalfDone, NEW next \in {"transfer", "inspect"}, NEW state \in States,
             folders' = [folders EXCEPT ![d] = c],
             worker' = [worker EXCEPT !.at = next, !.folder = d],
             mailbox' = Append(mailbox, Progress(state))
      PROVE  TypeOK' /\ GuiInv'
  BY <1>1, <1>3, FillsNewDirectory
<1>4. /\ "FAILED" \in States /\ "CANCELLED" \in States /\ "PREPARING" \in States
      /\ "DOWNLOADING" \in States /\ "VERIFYING" \in States
      /\ "empty" \in HalfDone /\ "partial" \in HalfDone
      /\ "transfer" \in {"transfer", "inspect"} /\ "inspect" \in {"transfer", "inspect"}
  BY DEF States, HalfDone
<1>5. CASE CreateForDownload(d)
  <2>1. CASE /\ End(<<Progress("FAILED")>>, Result("FAILED", FALSE, In(d), NoRelease))
             /\ folders' = [folders EXCEPT ![d] = "empty"]
    BY <1>2, <1>4, <2>1
  <2>2. CASE /\ mailbox' = Append(mailbox, Progress("DOWNLOADING"))
             /\ worker' = [worker EXCEPT !.at = "transfer", !.folder = d]
             /\ folders' = [folders EXCEPT ![d] = "partial"]
    BY <1>3, <1>4, <2>2
  <2> QED BY <1>5, <2>1, <2>2 DEF CreateForDownload
<1>6. CASE CreateForExisting(d)
  <2>1. folders' = [folders EXCEPT ![d] = "empty"]
    BY <1>6 DEF CreateForExisting
  <2>2. CASE End(<<>>, Result("PREPARING", FALSE, In(d), NoRelease))
    BY <1>2, <1>4, <2>1, <2>2
  <2>3. CASE End(<<Progress("VERIFYING"), Progress("CANCELLED")>>,
                 Result("CANCELLED", FALSE, In(d), NoRelease))
    BY <1>2, <1>4, <2>1, <2>3
  <2>4. CASE End(<<Progress("VERIFYING"), Progress("FAILED")>>,
                 Result("FAILED", FALSE, In(d), NoRelease))
    BY <1>2, <1>4, <2>1, <2>4
  <2>5. CASE /\ mailbox' = Append(mailbox, Progress("VERIFYING"))
             /\ worker' = [worker EXCEPT !.at = "inspect", !.folder = d]
    BY <1>3, <1>4, <2>1, <2>5
  <2> QED BY <1>6, <2>2, <2>3, <2>4, <2>5 DEF CreateForExisting
<1> QED BY <1>5, <1>6

\* Every step of the worker keeps the invariant.
LEMMA WorkerHolds ==
  ASSUME TypeOK, GuiInv, Worker
  PROVE  TypeOK' /\ GuiInv'
<1>1. WorkerStep /\ UNCHANGED <<session, browser, ui, config>>
  BY DEF Worker
<1>2. ASSUME NEW d \in FreshFolder, CreateForDownload(d) \/ CreateForExisting(d)
      PROVE  TypeOK' /\ GuiInv'
  <2>1. d \in Folders
    BY <1>2 DEF FreshFolder
  <2> QED BY <1>1, <1>2, <2>1, CreatingHolds
<1>3. CASE Begin \/ Resolve \/ CannotCreate
  BY <1>1, <1>3, ResolvingHolds
<1>4. CASE Transfer
  BY <1>1, <1>4, TransferHolds
<1>5. CASE InspectDownload
  BY <1>1, <1>5, InspectDownloadHolds
<1>6. CASE InspectExisting
  BY <1>1, <1>6, InspectExistingHolds
<1> QED BY <1>1, <1>2, <1>3, <1>4, <1>5, <1>6 DEF WorkerStep

-----------------------------------------------------------------------------
(***************************************************************************)
(* The theorems.                                                           *)
(***************************************************************************)
LEMMA GuiInit ==
  ASSUME Init
  PROVE  TypeOK /\ GuiInv
<1>1. NoWorkspace \in Workspaces /\ NoWorkspace.folder = NoFolder
      /\ ~NoWorkspace.verified /\ ~NoWorkspace.retained
  BY DEF NoWorkspace, Workspaces
<1>2. Nothing \in Configs /\ Nothing.workspace = NoWorkspace
  BY <1>1 DEF Nothing, Configs, States
<1>3. /\ session \in Sessions /\ session.workspace = NoWorkspace
      /\ session.verified = NoRelease
  BY <1>1 DEF Init, Entered, Nothing, Sessions, Modes, Catalogs, States
<1>4. browser \in Browsers
  BY DEF Init, NewBrowser, Browsers, Stages
<1>5. /\ ui \in Runtimes /\ ~ui.quitting /\ ~ui.source_task /\ ~ui.download_task
      /\ ~ui.exit_pending /\ ~ui.source_change_pending /\ ui.running
  <2>1. /\ Opened \in Runtimes /\ ~Opened.quitting /\ ~Opened.source_task
        /\ ~Opened.download_task /\ ~Opened.exit_pending
        /\ ~Opened.source_change_pending /\ Opened.running
    BY DEF Opened, Runtimes, Pages
  <2>2. ui \in Runtimes /\ SameTasks(Opened, ui)
    BY <2>1, DrawnKeepsTasks DEF Init
  <2> QED BY <2>1, <2>2 DEF SameTasks
<1>6. /\ worker \in Workers /\ worker.at = "idle" /\ worker.folder = NoFolder
      /\ cancel = FALSE /\ mailbox = <<>> /\ config = Nothing
  BY DEF Init, WorkerInit, Idle, Workers, Modes
<1>7. folders \in [Folders -> Contents] /\ \A d \in Folders : folders[d] = "absent"
  BY DEF Init, WorkerInit, Contents
<1>8. TypeOK
  <2>1. mailbox \in Seq(Messages)
    BY <1>6
  <2> QED BY <1>2, <1>3, <1>4, <1>5, <1>6, <1>7, <2>1 DEF TypeOK, GuiTypeOK, WorkerTypeOK
<1>9. TaskInv
  BY <1>5 DEF TaskInv, CancelStands, Idles
<1>10. WorkerInv /\ ResultInv
  BY <1>5, <1>6 DEF WorkerInv, ResultInv
<1>11. SessionInv /\ ConfigInv
  BY <1>1, <1>2, <1>3, <1>5, <1>6 DEF SessionInv, ConfigInv, HoldsAs
<1>12. OwnedInv
  BY <1>7 DEF OwnedInv, HalfDone
<1>13. ChoiceInv
  BY <1>5, <1>6 DEF ChoiceInv, Idles
<1> QED BY <1>8, <1>9, <1>10, <1>11, <1>12, <1>13 DEF GuiInv

\* Every step of session, page, main loop and worker keeps the invariant.
LEMMA GuiStep ==
  ASSUME TypeOK, GuiInv, [Next]_vars
  PROVE  TypeOK' /\ GuiInv'
<1>1. CASE UNCHANGED vars
  <2>1. QuietStep
    BY <1>1 DEF vars, QuietStep, SameTasks, SameWork, SameChoice, workerVars, TypeOK,
       GuiTypeOK, GuiInv, ChoiceInv, Idles
  <2> QED BY <2>1, QuietStepHolds
<1>2. CASE Choose
  <2>1. CASE ShowSource \/ ShowOther
    BY <2>1, ShowPagesHold
  <2>2. CASE \/ SelectVersion \/ RefreshIso
             \/ \E r \in Releases : SelectRelease(r)
             \/ \E m \in Modes : SelectMode(m)
    BY <2>2, ChoicesHold
  <2>3. CASE ClickStart \/ ClickRetry
    BY <2>3, StartsHold
  <2>4. CASE ClickChangeSource \/ KeepSource \/ ClickCancel \/ RequestExit
    BY <2>4, RequestsHold
  <2>5. CASE ConfirmChange
    BY <2>5, ConfirmChangeHolds
  <2>6. CASE Enter
    BY <2>6, EnterHolds
  <2> QED BY <1>2, <2>1, <2>2, <2>3, <2>4, <2>5, <2>6 DEF Choose
<1>3. CASE Page
  BY <1>3, PageHolds, StartsHold DEF Page
<1>4. CASE Worker
  BY <1>4, WorkerHolds
<1>5. CASE MainLoop
  BY <1>5, DiscoveryFinishedHolds, HandleProgressHolds, HandleResultHolds, LeaveHolds
     DEF MainLoop
<1> QED BY <1>1, <1>2, <1>3, <1>4, <1>5 DEF Next

\* The inductive invariant holds however callbacks, the page and the worker
\* interleave.
THEOREM GuiHolds == Spec => [](TypeOK /\ GuiInv)
<1>1. Init => TypeOK /\ GuiInv
  BY GuiInit
<1>2. TypeOK /\ GuiInv /\ [Next]_vars => (TypeOK /\ GuiInv)'
  BY GuiStep
<1> QED BY <1>1, <1>2, PTL DEF Spec

\* Session, page, runtime, configuration, worker and its messages have their
\* types.
THEOREM GuiTypeCorrect == Spec => []TypeOK
BY GuiHolds, PTL

\* A download ends under the selection it was started for (start_download_
\* release and download_finished): no click, completion or callback moves it
\* while the worker runs or its result is on its way.
THEOREM GuiDownloadOfSelection == Spec => []DownloadOfSelection
<1>1. TypeOK /\ GuiInv => DownloadOfSelection
  <2>1. SUFFICES ASSUME TypeOK, GuiInv PROVE DownloadOfSelection
    OBVIOUS
  <2>2. DOMAIN mailbox = 1..Len(mailbox)
    BY <2>1 DEF TypeOK, WorkerTypeOK
  <2> QED BY <2>1, <2>2 DEF GuiInv, ChoiceInv, DownloadOfSelection, Results
<1> QED BY <1>1, GuiHolds, PTL

\* classicsetup_gui_summary_is_ready: what the summary offers is of the
\* release selected now and is there.
THEOREM GuiSummaryIsReal == Spec => []SummaryIsReal
<1>1. TypeOK /\ GuiInv => SummaryIsReal
  <2>1. SUFFICES ASSUME TypeOK, GuiInv, SummaryIsReady(session)
                 PROVE  /\ session.verified = session.selected
                        /\ session.mode # "EXISTING_ISO" =>
                             folders[session.workspace.folder] = "image"
    BY DEF SummaryIsReal
  <2> QED BY <2>1 DEF SummaryIsReady, SelectionIsValid, GuiInv, SessionInv, HoldsAs
<1> QED BY <1>1, GuiHolds, PTL

\* No half-done directory is left without an owner that will clean it.
THEOREM GuiWorkIsOwned == Spec => []WorkIsOwned
<1>1. TypeOK /\ GuiInv => WorkIsOwned
  <2>1. SUFFICES ASSUME TypeOK, GuiInv, NEW d \in Folders, folders[d] \in HalfDone
                 PROVE  \/ worker.folder = d
                        \/ d \in {r.workspace.folder : r \in Results}
                        \/ ui.running /\ session.workspace.folder = d
    BY DEF WorkIsOwned, HalfDone
  <2>2. ASSUME NEW i \in 1..Len(mailbox), mailbox[i].kind = "result",
               mailbox[i].workspace.folder = d
        PROVE  d \in {r.workspace.folder : r \in Results}
    <3>1. i \in DOMAIN mailbox
      BY <2>1 DEF TypeOK, WorkerTypeOK
    <3>2. mailbox[i] \in Results
      BY <2>2, <3>1 DEF Results
    <3> QED BY <2>2, <3>2
  <2> QED BY <2>1, <2>2 DEF GuiInv, OwnedInv
<1> QED BY <1>1, GuiHolds, PTL

\* A cancel that a change of source or an exit waits for is neither lost nor
\* cleared by another start.
THEOREM GuiCancelStands == Spec => []CancelStands
<1>1. TypeOK /\ GuiInv => CancelStands
  BY DEF GuiInv, TaskInv
<1> QED BY <1>1, GuiHolds, PTL

\* A download task is exactly one worker or one result on its way.
THEOREM GuiOneDownload == Spec => []OneDownload
<1>1. TypeOK /\ GuiInv => OneDownload
  <2>1. SUFFICES ASSUME TypeOK, GuiInv PROVE OneDownload
    OBVIOUS
  <2> DEFINE results == {i \in DOMAIN mailbox : mailbox[i].kind = "result"}
  <2>2. DOMAIN mailbox = 1..Len(mailbox) /\ Len(mailbox) \in Nat
        /\ (mailbox # <<>> => Len(mailbox) \in 1..Len(mailbox))
    BY <2>1 DEF TypeOK, WorkerTypeOK
  <2>3. CASE worker.at = "idle" /\ mailbox # <<>>
    <3>1. results = {Len(mailbox)}
      BY <2>1, <2>2, <2>3 DEF GuiInv, WorkerInv
    <3>2. Cardinality(results) = 1
      BY <3>1, FS_Singleton
    <3>3. ui.download_task
      BY <2>1, <2>3 DEF GuiInv, WorkerInv
    <3> QED BY <2>3, <3>2, <3>3 DEF OneDownload
  <2>4. CASE worker.at # "idle" \/ mailbox = <<>>
    <3>1. results = {}
      <4>1. CASE worker.at # "idle"
        BY <2>1, <2>2, <4>1 DEF GuiInv, WorkerInv
      <4>2. CASE mailbox = <<>>
        BY <4>2
      <4> QED BY <2>4, <4>1, <4>2
    <3>2. Cardinality(results) = 0
      BY <3>1, FS_EmptySet
    <3>3. ui.download_task <=> worker.at # "idle"
      BY <2>1, <2>4 DEF GuiInv, WorkerInv
    <3> QED BY <3>2, <3>3 DEF OneDownload
  <2> QED BY <2>3, <2>4
<1> QED BY <1>1, GuiHolds, PTL
=============================================================================
