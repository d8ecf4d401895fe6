--------------------------- MODULE DownloadWorker ---------------------------
(***************************************************************************)
(* The worker thread of one download (download_worker of                   *)
(* src/src/gui/gtk_frontend.c with what it calls): resolve the link with   *)
(* Fido, create a workspace, transfer, verify and inspect the image; or    *)
(* verify an existing ISO file.  It reads the cancel flag, posts its       *)
(* progress to the main loop and ends with one result.  g_main_context_    *)
(* invoke and g_task_return queue at the same priority, so the mailbox is  *)
(* a FIFO.                                                                 *)
(***************************************************************************)
EXTENDS Naturals, Sequences

CONSTANTS
  Releases,    \* what can be selected: a family, a language, an architecture
  NoRelease,
  Folders,     \* names of workspace directories; none left: disk full
  NoFolder,
  KeepFailed   \* CLASSICSETUP_KEEP_FAILED_IMAGE=1

ASSUME WorkerAssumption ==
  /\ NoRelease \notin Releases
  /\ NoFolder \notin Folders
  /\ KeepFailed \in BOOLEAN

VARIABLES
  cancel,    \* download_cancel_requested
  worker,    \* the running worker and its copy of the request
  mailbox,   \* what the worker has posted to the main loop
  folders    \* what is on the disk in each workspace directory

workerVars == <<cancel, worker, mailbox, folders>>

Modes == {"AUTOMATIC", "MICROSOFT_PAGE", "EXISTING_ISO"}

States == {"NOT_STARTED", "PREPARING", "DOWNLOADING", "VERIFYING", "COMPLETE",
           "FAILED", "CANCELLED"}

\* What a directory holds: nothing, a partial file, the image promoted
\* after verification, or a rejected image kept for diagnosis.
Contents == {"absent", "empty", "partial", "image", "rejected"}

Workspaces ==
  [folder : Folders \cup {NoFolder}, verified : BOOLEAN, retained : BOOLEAN]

NoWorkspace == [folder |-> NoFolder, verified |-> FALSE, retained |-> FALSE]

In(d) == [NoWorkspace EXCEPT !.folder = d]

Idle == [at |-> "idle", mode |-> "AUTOMATIC", release |-> NoRelease,
         folder |-> NoFolder]

Progress(s) == [kind |-> "progress", state |-> s]

\* struct download_task_result; source: the error is DOWNLOAD_ERROR_SOURCE.
Result(s, source, w, image) ==
  [kind |-> "result", state |-> s, source |-> source, workspace |-> w,
   verified |-> image, release |-> worker.release]

Workers ==
  [at : {"idle", "begin", "resolve", "create", "transfer", "inspect"},
   mode : Modes, release : Releases \cup {NoRelease},
   folder : Folders \cup {NoFolder}]

Messages ==
  [kind : {"progress"}, state : States]
  \cup [kind : {"result"}, state : States, source : BOOLEAN,
        workspace : Workspaces, verified : Releases \cup {NoRelease},
        release : Releases]

WorkerTypeOK ==
  /\ cancel \in BOOLEAN
  /\ worker \in Workers
  /\ mailbox \in Seq(Messages)
  /\ folders \in [Folders -> Contents]

WorkerInit ==
  /\ cancel = FALSE
  /\ worker = Idle
  /\ mailbox = <<>>
  /\ folders = [d \in Folders |-> "absent"]

(***************************************************************************)
(* Ways a worker ends: with a last progress message, and what it leaves in *)
(* its directory.                                                          *)
(***************************************************************************)
End(posts, result) ==
  /\ worker' = Idle
  /\ mailbox' = mailbox \o posts \o <<result>>

Leaves(content) ==
  folders' = [folders EXCEPT ![worker.folder] = content]

Fails ==
  /\ End(<<Progress("FAILED")>>, Result("FAILED", FALSE, In(worker.folder), NoRelease))
  /\ Leaves("empty")

Cancelled ==
  /\ cancel
  /\ End(<<Progress("CANCELLED")>>,
         Result("CANCELLED", FALSE, In(worker.folder), NoRelease))
  /\ Leaves("empty")
-----------------------------------------------------------------------------
\* classicsetup_retail_resolve reports and starts Fido ...
Begin ==
  /\ worker.at = "begin"
  /\ mailbox' = Append(mailbox, Progress("PREPARING"))
  /\ worker' = [worker EXCEPT !.at = "resolve"]
  /\ UNCHANGED <<cancel, folders>>

\* ... which gives a link, fails, or is killed because of the cancel flag.
\* The flag is polled until the process ends.
Resolve ==
  /\ worker.at = "resolve"
  /\ \/ /\ ~cancel
        /\ worker' = [worker EXCEPT !.at = "create"]
        /\ UNCHANGED mailbox
     \/ End(<<Progress("FAILED")>>, Result("FAILED", TRUE, NoWorkspace, NoRelease))
     \/ /\ cancel
        /\ End(<<Progress("CANCELLED")>>,
               Result("FAILED", FALSE, NoWorkspace, NoRelease))
  /\ UNCHANGED <<cancel, folders>>

CannotCreate ==
  /\ worker.at = "create"
  /\ End(<<>>, Result("FAILED", FALSE, NoWorkspace, NoRelease))
  /\ UNCHANGED <<cancel, folders>>

\* classicsetup_workspace_create, then the space check and the partial file
\* of classicsetup_download_windows_iso.
CreateForDownload(d) ==
  /\ worker.at = "create" /\ worker.mode # "EXISTING_ISO"
  /\ folders[d] = "absent"
  /\ \/ /\ End(<<Progress("FAILED")>>, Result("FAILED", FALSE, In(d), NoRelease))
        /\ folders' = [folders EXCEPT ![d] = "empty"]
     \/ /\ mailbox' = Append(mailbox, Progress("DOWNLOADING"))
        /\ worker' = [worker EXCEPT !.at = "transfer", !.folder = d]
        /\ folders' = [folders EXCEPT ![d] = "partial"]
  /\ UNCHANGED cancel

\* curl_easy_perform: the flag is read in its progress callback, so a
\* transfer may also end, well or badly, in spite of a late cancel.
Transfer ==
  /\ worker.at = "transfer"
  /\ \/ /\ mailbox' = Append(mailbox, Progress("VERIFYING"))
        /\ worker' = [worker EXCEPT !.at = "inspect"]
        /\ UNCHANGED folders
     \/ Fails
     \/ Cancelled
  /\ UNCHANGED cancel

\* classicsetup_retail_parse_wim_metadata: the image is of the release asked
\* for, as far as its metadata say.
Accepts(image) == image = worker.release

\* classicsetup_retail_inspect_iso_path: its tools extract an image file, count
\* what is in it and read the metadata of the first; a tool that the cancel
\* flag stops, or that fails, gives no image.
Inspected == IF cancel THEN {} ELSE {image \in Releases : Accepts(image)}

\* classicsetup_verify_source_file, classicsetup_retail_inspect_iso and the
\* promotion of the image.  The flag is polled by the inspection's tools.
InspectDownload ==
  /\ worker.at = "inspect" /\ worker.mode # "EXISTING_ISO"
  /\ \/ /\ \E image \in Inspected :
             End(<<Progress("COMPLETE")>>,
                 Result("COMPLETE", FALSE,
                        [In(worker.folder) EXCEPT !.verified = TRUE], image))
        /\ Leaves("image")
     \/ Fails
     \/ Cancelled
     \/ /\ KeepFailed
        /\ End(<<Progress("FAILED")>>,
               Result("FAILED", FALSE, [In(worker.folder) EXCEPT !.retained = TRUE],
                      NoRelease))
        /\ Leaves("rejected")
  /\ UNCHANGED cancel

\* An existing ISO: a workspace for the inspection, the first look at the
\* file (gone since it was listed: the result is left PREPARING), one read
\* of the cancel flag and the check of the file.
CreateForExisting(d) ==
  /\ worker.at = "create" /\ worker.mode = "EXISTING_ISO"
  /\ folders[d] = "absent"
  /\ folders' = [folders EXCEPT ![d] = "empty"]
  /\ \/ End(<<>>, Result("PREPARING", FALSE, In(d), NoRelease))
     \/ /\ cancel
        /\ End(<<Progress("VERIFYING"), Progress("CANCELLED")>>,
               Result("CANCELLED", FALSE, In(d), NoRelease))
     \/ /\ ~cancel
        /\ End(<<Progress("VERIFYING"), Progress("FAILED")>>,
               Result("FAILED", FALSE, In(d), NoRelease))
     \/ /\ ~cancel
        /\ mailbox' = Append(mailbox, Progress("VERIFYING"))
        /\ worker' = [worker EXCEPT !.at = "inspect", !.folder = d]
  /\ UNCHANGED cancel

\* The inspection of the file where it is; the image stays outside the
\* workspace.
InspectExisting ==
  /\ worker.at = "inspect" /\ worker.mode = "EXISTING_ISO"
  /\ \/ /\ \E image \in Inspected :
             End(<<Progress("COMPLETE")>>,
                 Result("COMPLETE", FALSE, In(worker.folder), image))
        /\ Leaves("empty")
     \/ Fails
     \/ Cancelled
  /\ UNCHANGED cancel

\* mkdtemp gives a fresh directory; which name it gets does not matter.
FreshFolder ==
  LET absent == {d \in Folders : folders[d] = "absent"}
  IN  IF absent = {} THEN {} ELSE {CHOOSE d \in absent : TRUE}

WorkerStep ==
  \/ Begin \/ Resolve \/ CannotCreate \/ Transfer
  \/ InspectDownload \/ InspectExisting
  \/ \E d \in FreshFolder : CreateForDownload(d) \/ CreateForExisting(d)
=============================================================================
