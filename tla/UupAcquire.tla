----------------------------- MODULE UupAcquire -----------------------------
(***************************************************************************)
(* The download worker with the UUP backend: download_worker of            *)
(* src/src/gui/gtk_frontend.c, with the pipeline of src/src/source/uup.c   *)
(* and the directories of src/src/source/workspace.c.  Four tools run one  *)
(* after the other, each a cancellable run; what they leave is checked     *)
(* before the next one starts.  The backend is compiled in; the front end  *)
(* does not select it (GuiSession).                                        *)
(***************************************************************************)
EXTENDS Naturals

CONSTANTS
  Builds,  \* what an image can be: family, language, architecture, edition
  Target,  \* classicsetup_uup_recommended_target
  Roots    \* candidate directories of a workspace

ASSUME UupAssumption == Target \in Builds

VARIABLES
  at,      \* the step of the worker
  member,  \* the member being extracted from the ISO file
  cancel,  \* download_cancel_requested
  stage,   \* status->stage, the last one reported
  result,  \* the state of the result, once it has ended
  source,  \* the build verified_source was filled with
  files    \* the workspace

vars == <<at, member, cancel, stage, result, source, files>>

Steps == {"idle", "create", "tools", "download", "payload", "convert",
          "structure", "extract", "verify", "info", "promote", "ended"}

Stages == {"IDLE", "CHECKING_TOOL", "DOWNLOADING", "VERIFYING_PAYLOAD",
           "BUILDING_IMAGE", "VERIFYING_IMAGE", "COMPLETE", "FAILED", "CANCELLED"}

Members == {"wim", "esd"}

NoSource == "NONE"

\* An image file is missing, broken or of a build.
None == "NONE"
Broken == "BROKEN"
Images == Builds \cup {None, Broken}

\* What matters of an ISO file: whether it has a boot record, the image file
\* in it and its build.
Isos == [boots : BOOLEAN, holds : Members \cup {None}, build : Builds]
NoIso == [boots |-> FALSE, holds |-> None, build |-> None]

\* The image directory is also the converter's temporary directory.
Empty == [payload |-> "none", partial |-> NoIso, final |-> NoIso,
          image |-> [m \in Members |-> None]]

Workspaces ==
  [payload : {"none", "some", "whole"}, partial : Isos \cup {NoIso},
   final : Isos \cup {NoIso}, image : [Members -> Images]]

TypeOK ==
  /\ at \in Steps /\ member \in Members /\ cancel \in BOOLEAN
  /\ stage \in Stages
  /\ result \in {"NONE", "COMPLETE", "FAILED", "CANCELLED"}
  /\ source \in Builds \cup {NoSource}
  /\ files \in Workspaces

Init ==
  /\ at = "idle" /\ member = "wim" /\ cancel = FALSE
  /\ stage = "IDLE" /\ result = "NONE" /\ source = NoSource
  /\ files = Empty

\* start_download_release: what an earlier try has left goes with its
\* workspace, and the cancel flag is cleared.
Begin ==
  /\ at \in {"idle", "ended"}
  /\ at' = "create" /\ cancel' = FALSE
  /\ stage' = "IDLE" /\ result' = "NONE" /\ source' = NoSource
  /\ files' = Empty
  /\ UNCHANGED member

RequestCancel ==
  /\ at \notin {"idle", "ended"} /\ ~cancel
  /\ cancel' = TRUE
  /\ UNCHANGED <<at, member, stage, result, source, files>>
-----------------------------------------------------------------------------
\* What classicsetup_workspace_create_in may return for each candidate; the
\* first directory that can be used is, and lack of space is what is told
\* if any had too little.
Candidates == [Roots -> {"OK", "NO_SPACE", "ERROR"}]

CreateResult(found) ==
  IF \E r \in Roots : found[r] = "OK" THEN "OK"
  ELSE IF \E r \in Roots : found[r] = "NO_SPACE" THEN "NO_SPACE" ELSE "ERROR"

\* report_status, and the state download_worker derives from the last stage.
EndsAs(s, f) ==
  /\ at' = "ended" /\ stage' = s
  /\ result' = IF s \in {"COMPLETE", "CANCELLED"} THEN s ELSE "FAILED"
  /\ files' = f

Goes(to, s) == at' = to /\ stage' = s /\ UNCHANGED result

CreateWorkspace ==
  /\ at = "create"
  /\ \E found \in Candidates :
       IF CreateResult(found) = "OK" THEN Goes("tools", "CHECKING_TOOL") /\ UNCHANGED files
       ELSE EndsAs("FAILED", files)
  /\ UNCHANGED <<member, cancel, source>>

\* The four tools are there, and the space is asked for again.
CheckTools ==
  /\ at = "tools"
  /\ \/ Goes("download", "DOWNLOADING") /\ UNCHANGED files
     \/ EndsAs("FAILED", files)
  /\ UNCHANGED <<member, cancel, source>>

\* classicsetup_workspace_cleanup_failure and _cancel; the final file stays.
CleanedUp(f) == [Empty EXCEPT !.final = f.final]

Fails == EndsAs("FAILED", CleanedUp(files))

\* A run of a tool: it succeeds and `Done` follows, fails, or was cancelled;
\* the flag is polled until the tool has ended.
RunsTool(Done) ==
  \/ ~cancel /\ Done
  \/ Fails
  \/ cancel /\ EndsAs("CANCELLED", CleanedUp(files))

\* Mutant: the payload of a failed download stays.
DownloadKeepsPayload ==
  /\ at = "download"
  /\ \/ /\ ~cancel
        /\ Goes("payload", "VERIFYING_PAYLOAD")
        /\ files' = [files EXCEPT !.payload = "whole"]
     \/ EndsAs("FAILED", [files EXCEPT !.payload = "some"])
  /\ UNCHANGED <<member, cancel, source>>

\* UUPDownload request-download: "Completed." does not say that all files
\* have come.
RunDownloader ==
  /\ at = "download"
  /\ RunsTool(/\ Goes("payload", "VERIFYING_PAYLOAD")
              /\ \E p \in {"none", "some", "whole"} :
                   files' = [files EXCEPT !.payload = p])
  /\ UNCHANGED <<member, cancel, source>>

\* classicsetup_uup_inspect_payload: one directory with the metadata, no
\* empty or temporary file, the edition asked for, files and bytes enough.
InspectPayload ==
  /\ at = "payload"
  /\ IF files.payload = "whole"
     THEN Goes("convert", "BUILDING_IMAGE") /\ UNCHANGED files
     ELSE Fails
  /\ UNCHANGED <<member, cancel, source>>

\* UUPMediaConverter desktop-convert: an ISO file, and what it has left in
\* its temporary directory.
RunConverter ==
  /\ at = "convert"
  /\ RunsTool(/\ Goes("structure", "VERIFYING_IMAGE")
              /\ \E iso \in Isos \cup {NoIso},
                    temporary \in [Members -> Images] :
                   files' = [files EXCEPT !.partial = iso, !.image = temporary])
  /\ UNCHANGED <<member, cancel, source>>

\* iso_sanity: a primary volume descriptor and an El Torito boot record.
Sane(iso) == iso.boots

CheckStructure ==
  /\ at = "structure"
  /\ IF Sane(files.partial)
     THEN Goes("extract", stage) /\ member' = "wim" /\ UNCHANGED files
     ELSE Fails /\ UNCHANGED member
  /\ UNCHANGED <<cancel, source>>

\* Mutant: what the converter has left under this name stays.
NotUnlinked == files

\* The file of this name is removed first.
Unlinked == [files EXCEPT !.image[member] = None]

\* What the extractor may leave under the member's name when it reports
\* success: the member, if the ISO file has it; a name that matches nothing
\* is no error to it.
Extracted(f) ==
  IF f.partial.holds = member
  THEN {[f EXCEPT !.image[member] = b] : b \in {f.partial.build, Broken, None}}
  ELSE {f}

\* classicsetup_uup_verify_wim_signature: a broken file may have one, or be
\* as good as none.
Signed(f) == f.image[member] # None

\* One turn of the loop over the members: the second is tried when the first
\* gives nothing; a run that fails leaves what it may, and is no end.
Extract ==
  /\ at = "extract"
  /\ \/ /\ ~cancel
        /\ \E f \in Extracted(Unlinked) :
             \/ Signed(f) /\ Goes("verify", stage) /\ files' = f /\ UNCHANGED member
             \/ /\ ~Signed(f) /\ member = "wim"
                /\ Goes("extract", stage) /\ files' = f /\ member' = "esd"
             \/ ~Signed(f) /\ member = "esd" /\ Fails /\ UNCHANGED member
     \/ /\ member = "wim" /\ Goes("extract", stage) /\ member' = "esd"
        /\ \E left \in {None, Broken} :
             files' = [Unlinked EXCEPT !.image[member] = left]
     \/ member = "esd" /\ Fails /\ UNCHANGED member
     \/ cancel /\ EndsAs("CANCELLED", CleanedUp(files)) /\ UNCHANGED member
  /\ UNCHANGED <<cancel, source>>

\* wimlib verify.
VerifyWim ==
  /\ at = "verify"
  /\ RunsTool(/\ files.image[member] # Broken
              /\ Goes("info", stage) /\ UNCHANGED files)
  /\ UNCHANGED <<member, cancel, source>>

\* wimlib info, classicsetup_uup_parse_wim_info and the comparison with the
\* target: the report is of the first image and is read as far as it names
\* what was asked for.
ReadInfo ==
  /\ at = "info"
  /\ \/ /\ ~cancel /\ files.image[member] = Target
        /\ source' = Target
        /\ Goes("promote", stage) /\ UNCHANGED files
     \/ Fails /\ UNCHANGED source
     \/ cancel /\ EndsAs("CANCELLED", CleanedUp(files)) /\ UNCHANGED source
  /\ UNCHANGED <<member, cancel>>

\* classicsetup_workspace_promote_verified_iso, then cleanup_success.
Promote ==
  /\ at = "promote"
  /\ \/ EndsAs("COMPLETE", CleanedUp([files EXCEPT !.final = files.partial]))
     \/ Fails
  /\ UNCHANGED <<member, cancel, source>>

Next ==
  \/ Begin \/ RequestCancel \/ CreateWorkspace \/ CheckTools
  \/ RunDownloader \/ InspectPayload \/ RunConverter \/ CheckStructure
  \/ Extract \/ VerifyWim \/ ReadInfo \/ Promote

Spec == Init /\ [][Next]_vars
-----------------------------------------------------------------------------
IsTarget(iso) == Sane(iso) /\ iso.holds = member /\ iso.build = Target

\* The image that is announced as verified is the one in the workspace: the
\* report that was read is of a member of this very ISO file, which has a
\* boot record, although the converter leaves files under the same names
\* beside it and the extractor may report success without extracting
\* anything (uup.c:1139-1170).
VerifiedIsBuilt ==
  /\ at = "promote" => IsTarget(files.partial) /\ source = Target
  /\ result = "COMPLETE" => IsTarget(files.final) /\ source = Target

Scratch == [files EXCEPT !.final = NoIso] # Empty

Acquisition == INSTANCE SourceAcquisition WITH
  phase   <- IF at \in {"idle", "ended"} THEN at ELSE "working",
  outcome <- result,
  asked   <- cancel,
  left    <- (IF Scratch THEN {"scratch"} ELSE {})
             \cup (IF files.final = NoIso THEN {}
                  ELSE IF IsTarget(files.final) THEN {"image"} ELSE {"other"})

\* The worker keeps the promise to the session: however its four tools end,
\* a complete acquisition leaves the verified image alone in its workspace,
\* a failed or cancelled one nothing, and it is cancelled only when that was
\* asked for (uup.c:742-936, workspace.c:467-498).
Acquires == Acquisition!Spec
=============================================================================
