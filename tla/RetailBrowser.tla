---------------------------- MODULE RetailBrowser ----------------------------
(***************************************************************************)
(* The Microsoft page in the download screen: what its callbacks make of   *)
(* struct classicsetup_retail_browser_status and of the widgets around it  *)
(* (src/src/source/retail_browser.c and the WebKit callbacks of            *)
(* src/src/gui/gtk_frontend.c).  A browser b is a record:                  *)
(*   stage, full   the status and its full_page_fallback                   *)
(*   opened        the page has been asked for: it loads, fails and starts *)
(*                 downloads when it likes                                 *)
(*   automation    off, its timer is set, or its script is running         *)
(*   retry         the button Retry Microsoft Page is visible              *)
(***************************************************************************)

\* PAGE stands for the stages up to WAITING_FOR_MICROSOFT, DOWNLOADING for
\* those up to INSPECTING_IMAGE and ENDED for the terminal ones: nothing
\* below tells them further apart.
Stages == {"PAGE", "CLICK", "DOWNLOADING", "ENDED"}

Browsers ==
  [stage : Stages, full : BOOLEAN,
   automation : {"off", "timer", "script"}, opened : BOOLEAN, retry : BOOLEAN]

NewBrowser ==
  [stage |-> "PAGE", full |-> FALSE, automation |-> "off",
   opened |-> FALSE, retry |-> FALSE]

StatusReset(b) == [b EXCEPT !.stage = "PAGE", !.full = FALSE]

FallbackToFullPage(b) ==
  IF b.stage = "ENDED" THEN b ELSE [b EXCEPT !.stage = "PAGE", !.full = TRUE]

\* classicsetup_retail_browser_capture_download, for an allowed address.
Capturable(b) == b.stage = "CLICK" \/ (b.full /\ b.stage = "PAGE")

\* What start_captured_retail_download leaves before it starts the download.
Captured(b) ==
  [b EXCEPT !.stage = "DOWNLOADING", !.retry = FALSE,
            !.automation = IF @ = "timer" THEN "off" ELSE @]

\* start_retail_browser: the page is asked for.
Load(b) == [StatusReset(b) EXCEPT !.opened = TRUE, !.retry = FALSE]

\* on_retail_load_changed.
Loaded(b) ==
  [b EXCEPT !.stage = "PAGE",
            !.automation = IF @ = "script" THEN "script" ELSE "timer"]

\* set_retail_browser_failure.
Failure(b) == [FallbackToFullPage(b) EXCEPT !.retry = TRUE]

\* retail_automation_tick.
Tick(b, active) ==
  [b EXCEPT !.automation = IF active \/ b.full THEN "off" ELSE "script"]

\* retail_automation_finished: the script needs a hand (or has been tried 90
\* times), or has found the download control ...  A load that finished while
\* it ran has set the timer already.
ScriptOutcomes(b) ==
  {[FallbackToFullPage(b) EXCEPT !.automation = next] : next \in {"off", "timer"}}
  \cup {[b EXCEPT !.stage = "CLICK", !.automation = next] : next \in {"off", "timer"}}

\* ... or waits and is tried again (schedule_retail_automation).
Rescheduled(b) == [b EXCEPT !.automation = "timer"]

\* What the end of a download makes of the stage (download_finished).
Outcome(b) ==
  IF b.stage = "DOWNLOADING" THEN [b EXCEPT !.stage = "ENDED"] ELSE b
=============================================================================
