-------------------------- MODULE UupAcquireProofs ---------------------------
(***************************************************************************)
(* The UUP worker only announces the image it has built and read back, and *)
(* keeps the promise of SourceAcquisition.                                 *)
(***************************************************************************)
EXTENDS UupAcquire, TLAPS

(***************************************************************************)
(* The inductive invariant: nothing is in the workspace before the         *)
(* download, no final image before the end, and what is known of the image *)
(* grows with the checks: the ISO file has a boot record, then its member  *)
(* was extracted, and last it is not broken.                               *)
(***************************************************************************)
WorkspaceKnown ==
  /\ at \in {"idle", "create", "tools", "download"} => files = Empty
  /\ at # "ended" => files.final = NoIso /\ result = "NONE"

ExtractedFromIso ==
  /\ files.partial.holds = member
  /\ files.image[member] \in {files.partial.build, Broken}

ImageKnown ==
  /\ at \in {"extract", "verify", "info", "promote"} => Sane(files.partial)
  /\ at \in {"verify", "info"} => ExtractedFromIso
  /\ at = "info" => files.image[member] = files.partial.build

UupInv == TypeOK /\ WorkspaceKnown /\ ImageKnown /\ VerifiedIsBuilt

\* An empty workspace, and what a clean-up leaves.
LEMMA EmptyIs ==
  /\ Empty \in Workspaces /\ Empty.final = NoIso
  /\ [Empty EXCEPT !.final = NoIso] = Empty
<1>1. NoIso \in Isos \cup {NoIso} /\ [m \in Members |-> None] \in [Members -> Images]
  BY DEF Images
<1> QED BY <1>1 DEF Empty, Workspaces

\* What cleanup leaves, field by field.
LEMMA CleanedUpIs ==
  ASSUME NEW f \in Workspaces
  PROVE  /\ CleanedUp(f) \in Workspaces
         /\ CleanedUp(f).final = f.final
         /\ [CleanedUp(f) EXCEPT !.final = NoIso] = Empty
         /\ f.final = NoIso => CleanedUp(f) = Empty
<1>1. f.final \in Isos \cup {NoIso}
  BY DEF Workspaces
<1> HIDE DEF Isos, NoIso
<1>2. CleanedUp(f) = [payload |-> Empty.payload, partial |-> Empty.partial,
                      final |-> f.final, image |-> Empty.image]
  BY DEF CleanedUp, Empty
<1>3. Empty = [payload |-> Empty.payload, partial |-> Empty.partial,
               final |-> NoIso, image |-> Empty.image]
  BY DEF Empty
<1> QED BY <1>1, <1>2, <1>3, EmptyIs DEF Workspaces

\* An acquisition that ends without an image leaves an empty workspace.
LEMMA EndsEmpty ==
  ASSUME UupInv, at \notin {"idle", "ended"},
         NEW s \in {"FAILED", "CANCELLED"},
         EndsAs(s, CleanedUp(files)) \/ EndsAs(s, Empty),
         UNCHANGED cancel, member' \in Members, source' = source
  PROVE  UupInv' /\ files' = Empty
<1>1. files' = Empty
  BY CleanedUpIs DEF UupInv, WorkspaceKnown, TypeOK, EndsAs
<1>2. at' = "ended" /\ stage' = s /\ result' = s
  BY DEF EndsAs
<1>3. TypeOK'
  BY <1>1, <1>2, EmptyIs DEF UupInv, TypeOK, Steps, Stages
<1> QED BY <1>1, <1>2, <1>3
        DEF UupInv, WorkspaceKnown, ImageKnown, VerifiedIsBuilt

\* A run of a tool goes on, or ends the acquisition.
LEMMA ToolEnds ==
  ASSUME UupInv, at \notin {"idle", "ended"},
         Fails \/ (cancel /\ EndsAs("CANCELLED", CleanedUp(files))),
         UNCHANGED cancel, member' \in Members, source' = source
  PROVE  UupInv' /\ files' = Empty
BY EndsEmpty DEF Fails

-----------------------------------------------------------------------------
\* Before the image: the workspace, the payload and the conversion.
LEMMA BuildingInv ==
  ASSUME UupInv,
         \/ CreateWorkspace \/ CheckTools \/ RunDownloader
         \/ InspectPayload \/ RunConverter \/ CheckStructure
  PROVE  UupInv'
<1> USE DEF UupInv
<1>1. ASSUME NEW to \in {"tools", "download", "payload", "convert", "structure"},
             NEW s \in Stages, Goes(to, s),
             at \in {"create", "tools", "download", "payload", "convert"},
             UNCHANGED <<member, cancel, source>>, files' \in Workspaces,
             to \in {"tools", "download"} => files' = Empty,
             files'.final = NoIso
      PROVE  UupInv'
  <2>1. at' = to /\ stage' = s /\ result' = "NONE"
    BY <1>1 DEF Goes, WorkspaceKnown
  <2>2. TypeOK'
    BY <1>1, <2>1 DEF TypeOK, Steps
  <2> QED BY <1>1, <2>1, <2>2
          DEF WorkspaceKnown, ImageKnown, VerifiedIsBuilt
<1>2. files \in Workspaces /\ member \in Members
  BY DEF TypeOK
<1>3. \A s \in {"CHECKING_TOOL", "DOWNLOADING", "VERIFYING_PAYLOAD",
                "BUILDING_IMAGE", "VERIFYING_IMAGE"} : s \in Stages
  BY DEF Stages
<1>4. CASE CreateWorkspace
  <2>1. at = "create" /\ files = Empty /\ UNCHANGED <<member, cancel, source>>
    BY <1>4 DEF CreateWorkspace, WorkspaceKnown
  <2>2. \/ Goes("tools", "CHECKING_TOOL") /\ UNCHANGED files
        \/ EndsAs("FAILED", files)
    BY <1>4 DEF CreateWorkspace
  <2> QED BY <1>1, <1>2, <1>3, <2>1, <2>2, EndsEmpty, EmptyIs
<1>5. CASE CheckTools
  <2>1. at = "tools" /\ files = Empty /\ UNCHANGED <<member, cancel, source>>
    BY <1>5 DEF CheckTools, WorkspaceKnown
  <2>2. \/ Goes("download", "DOWNLOADING") /\ UNCHANGED files
        \/ EndsAs("FAILED", files)
    BY <1>5 DEF CheckTools
  <2> QED BY <1>1, <1>2, <1>3, <2>1, <2>2, EndsEmpty, EmptyIs
<1>6. CASE RunDownloader
  <2>1. at = "download" /\ files = Empty /\ UNCHANGED <<member, cancel, source>>
    BY <1>6 DEF RunDownloader, WorkspaceKnown
  <2>2. CASE /\ Goes("payload", "VERIFYING_PAYLOAD")
             /\ \E p \in {"none", "some", "whole"} :
                  files' = [files EXCEPT !.payload = p]
    <3>1. files' \in Workspaces /\ files'.final = NoIso
      BY <1>2, <2>1, <2>2, EmptyIs DEF Workspaces
    <3> QED BY <1>1, <1>3, <2>1, <2>2, <3>1
  <2> QED BY <1>2, <1>6, <2>1, <2>2, ToolEnds DEF RunDownloader, RunsTool
<1>7. CASE InspectPayload
  <2>1. at = "payload" /\ files.final = NoIso /\ UNCHANGED <<member, cancel, source>>
    BY <1>7 DEF InspectPayload, WorkspaceKnown
  <2>2. \/ Goes("convert", "BUILDING_IMAGE") /\ UNCHANGED files
        \/ Fails
    BY <1>7 DEF InspectPayload
  <2> QED BY <1>1, <1>2, <1>3, <2>1, <2>2, ToolEnds
<1>8. CASE RunConverter
  <2>1. at = "convert" /\ files.final = NoIso /\ UNCHANGED <<member, cancel, source>>
    BY <1>8 DEF RunConverter, WorkspaceKnown
  <2>2. CASE /\ Goes("structure", "VERIFYING_IMAGE")
             /\ \E iso \in Isos \cup {NoIso}, temporary \in [Members -> Images] :
                  files' = [files EXCEPT !.partial = iso, !.image = temporary]
    <3>1. files' \in Workspaces /\ files'.final = NoIso
      BY <1>2, <2>1, <2>2 DEF Workspaces
    <3> QED BY <1>1, <1>3, <2>1, <2>2, <3>1
  <2> QED BY <1>2, <1>8, <2>1, <2>2, ToolEnds DEF RunConverter, RunsTool
<1>9. CASE CheckStructure
  <2>1. at = "structure" /\ files.final = NoIso /\ UNCHANGED <<cancel, source>>
    BY <1>9 DEF CheckStructure, WorkspaceKnown
  <2>2. CASE Fails /\ UNCHANGED member
    BY <1>2, <2>1, <2>2, ToolEnds
  <2>3. CASE Sane(files.partial) /\ Goes("extract", stage) /\ member' = "wim"
             /\ UNCHANGED files
    <3>1. at' = "extract" /\ stage' = stage /\ result' = "NONE"
      BY <2>1, <2>3 DEF Goes, WorkspaceKnown
    <3>2. TypeOK'
      BY <2>1, <2>3, <3>1 DEF TypeOK, Steps, Members
    <3> QED BY <2>1, <2>3, <3>1, <3>2
            DEF WorkspaceKnown, ImageKnown, VerifiedIsBuilt, Sane
  <2> QED BY <1>9, <2>2, <2>3 DEF CheckStructure
<1> QED BY <1>4, <1>5, <1>6, <1>7, <1>8, <1>9

\* What the extractor leaves when it reports success comes from this ISO file,
\* because a file of that name was removed before.
LEMMA ExtractedIsFromIso ==
  ASSUME UupInv, NEW f \in Extracted(Unlinked), Signed(f)
  PROVE  /\ f \in Workspaces /\ f.partial = files.partial /\ f.final = files.final
         /\ f.partial.holds = member
         /\ f.image[member] \in {f.partial.build, Broken}
<1>1. /\ files \in Workspaces /\ member \in Members /\ None \in Images
      /\ Broken \in Images
  BY DEF UupInv, TypeOK, Images
<1>2. /\ Unlinked \in Workspaces /\ Unlinked.partial = files.partial
      /\ Unlinked.final = files.final /\ Unlinked.image[member] = None
  BY <1>1 DEF Unlinked, Workspaces
<1>3. files.partial.holds = member
  BY <1>2 DEF Extracted, Signed
<1>4. PICK b \in {files.partial.build, Broken, None} :
        f = [Unlinked EXCEPT !.image[member] = b]
  BY <1>2, <1>3 DEF Extracted
<1>5. files.partial.build \in Images
  <2>1. files.partial # NoIso
    BY <1>1, <1>3 DEF NoIso, Members, None
  <2> QED BY <1>1, <2>1 DEF Workspaces, Isos, Images
<1>6. f.image[member] = b /\ f \in Workspaces
  BY <1>1, <1>2, <1>4, <1>5 DEF Workspaces
<1>7. f.partial = files.partial /\ f.final = files.final
  BY <1>2, <1>4 DEF Workspaces
<1> QED BY <1>3, <1>4, <1>6, <1>7 DEF Signed

\* A turn of the extraction, whatever it leaves.
LEMMA ExtractInv ==
  ASSUME UupInv, Extract
  PROVE  UupInv'
<1> USE DEF UupInv
<1>1. /\ at = "extract" /\ UNCHANGED <<cancel, source>> /\ Sane(files.partial)
      /\ files.final = NoIso /\ files \in Workspaces /\ member \in Members
      /\ result = "NONE"
  BY DEF Extract, WorkspaceKnown, ImageKnown, TypeOK
<1>2. ASSUME NEW f \in Workspaces, f.partial = files.partial, f.final = NoIso,
             files' = f, Goes("extract", stage), member' = "esd"
      PROVE  UupInv'
  <2>1. TypeOK'
    BY <1>1, <1>2 DEF TypeOK, Goes, Members
  <2> QED BY <1>1, <1>2, <2>1
          DEF Goes, WorkspaceKnown, ImageKnown, VerifiedIsBuilt
<1>3. \A s \in {None, Broken} :
        LET f == [Unlinked EXCEPT !.image[member] = s] IN
          f \in Workspaces /\ f.partial = files.partial /\ f.final = NoIso
  BY <1>1 DEF Unlinked, Workspaces, Images
<1>4. \A f \in Extracted(Unlinked) :
        ~Signed(f) => f \in Workspaces /\ f.partial = files.partial /\ f.final = NoIso
  <2> SUFFICES ASSUME NEW f \in Extracted(Unlinked), ~Signed(f)
               PROVE  f \in Workspaces /\ f.partial = files.partial /\ f.final = NoIso
    OBVIOUS
  <2>1. /\ Unlinked \in Workspaces /\ Unlinked.partial = files.partial
        /\ Unlinked.final = NoIso
    BY <1>1 DEF Unlinked, Workspaces, Images
  <2>2. CASE f = Unlinked
    BY <2>1, <2>2
  <2>3. CASE f # Unlinked
    <3>1. PICK b : f = [Unlinked EXCEPT !.image[member] = b]
      BY <2>3 DEF Extracted
    <3>2. b = None
      BY <1>1, <2>1, <3>1 DEF Signed, Workspaces
    <3> QED BY <1>1, <2>1, <3>1, <3>2 DEF Workspaces, Images
  <2> QED BY <2>2, <2>3
<1>5. ASSUME NEW f \in Extracted(Unlinked), Signed(f), Goes("verify", stage),
             files' = f, UNCHANGED member
      PROVE  UupInv'
  <2>1. /\ f \in Workspaces /\ f.partial = files.partial /\ f.final = NoIso
        /\ f.partial.holds = member /\ f.image[member] \in {f.partial.build, Broken}
    BY <1>1, <1>5, ExtractedIsFromIso
  <2>2. TypeOK'
    BY <1>1, <1>5, <2>1 DEF TypeOK, Goes, Steps
  <2> QED BY <1>1, <1>5, <2>1, <2>2
          DEF Goes, WorkspaceKnown, ImageKnown, ExtractedFromIso, VerifiedIsBuilt
<1>6. CASE Fails /\ UNCHANGED member
  BY <1>1, <1>6, ToolEnds
<1>7. CASE cancel /\ EndsAs("CANCELLED", CleanedUp(files)) /\ UNCHANGED member
  BY <1>1, <1>7, ToolEnds
<1> QED BY <1>2, <1>3, <1>4, <1>5, <1>6, <1>7 DEF Extract

\* The checks of the extracted image, and the promotion of the ISO file.
LEMMA VerifyingInv ==
  ASSUME UupInv, VerifyWim \/ ReadInfo \/ Promote
  PROVE  UupInv'
<1> USE DEF UupInv
<1>1. /\ files \in Workspaces /\ member \in Members /\ UNCHANGED <<member, cancel>>
      /\ files.final = NoIso /\ result = "NONE" /\ Sane(files.partial)
  BY DEF VerifyWim, ReadInfo, Promote, WorkspaceKnown, ImageKnown, TypeOK
<1>2. CASE VerifyWim
  <2>1. at = "verify" /\ ExtractedFromIso /\ source' = source
    BY <1>2 DEF VerifyWim, ImageKnown
  <2>2. CASE files.image[member] # Broken /\ Goes("info", stage) /\ UNCHANGED files
    <3>1. TypeOK'
      BY <1>1, <2>1, <2>2 DEF TypeOK, Goes, Steps
    <3> QED BY <1>1, <2>1, <2>2, <3>1
            DEF Goes, WorkspaceKnown, ImageKnown, ExtractedFromIso, VerifiedIsBuilt
  <2> QED BY <1>1, <1>2, <2>1, <2>2, ToolEnds DEF VerifyWim, RunsTool
<1>3. CASE ReadInfo
  <2>1. /\ at = "info" /\ ExtractedFromIso
        /\ files.image[member] = files.partial.build
    BY <1>3 DEF ReadInfo, ImageKnown
  <2>2. CASE /\ files.image[member] = Target /\ source' = Target
             /\ Goes("promote", stage) /\ UNCHANGED files
    <3>1. TypeOK'
      BY <1>1, <2>1, <2>2, UupAssumption DEF TypeOK, Goes, Steps
    <3> QED BY <1>1, <2>1, <2>2, <3>1
            DEF Goes, WorkspaceKnown, ImageKnown, ExtractedFromIso,
                VerifiedIsBuilt, IsTarget
  <2> QED BY <1>1, <1>3, <2>1, <2>2, ToolEnds DEF ReadInfo
<1>4. CASE Promote
  <2>1. at = "promote" /\ source' = source
    BY <1>4 DEF Promote
  <2>2. CASE EndsAs("COMPLETE", CleanedUp([files EXCEPT !.final = files.partial]))
    <3>1. /\ [files EXCEPT !.final = files.partial] \in Workspaces
          /\ [files EXCEPT !.final = files.partial].final = files.partial
      BY <1>1 DEF Workspaces
    <3>2. files' \in Workspaces /\ files'.final = files.partial
      BY <2>2, <3>1, CleanedUpIs DEF EndsAs
    <3>3. TypeOK'
      BY <1>1, <2>1, <2>2, <3>2 DEF TypeOK, EndsAs, Steps, Stages
    <3> QED BY <1>1, <2>1, <2>2, <3>2, <3>3
            DEF EndsAs, WorkspaceKnown, ImageKnown, VerifiedIsBuilt, IsTarget
  <2> QED BY <1>1, <1>4, <2>1, <2>2, ToolEnds DEF Promote
<1> QED BY <1>2, <1>3, <1>4

\* A new acquisition starts over; asking to cancel changes nothing else.
LEMMA SessionStepInv ==
  ASSUME UupInv, Begin \/ RequestCancel
  PROVE  UupInv'
<1>1. CASE Begin
  BY <1>1, EmptyIs DEF Begin, UupInv, TypeOK, Steps, Stages, WorkspaceKnown,
                       ImageKnown, VerifiedIsBuilt
<1>2. CASE RequestCancel
  BY <1>2 DEF RequestCancel, UupInv, TypeOK, WorkspaceKnown, ImageKnown,
              ExtractedFromIso, VerifiedIsBuilt, IsTarget
<1> QED BY <1>1, <1>2

\* UupInv is an invariant of the worker.
THEOREM UupHolds == Spec => []UupInv
<1>1. Init => UupInv
  BY EmptyIs DEF Init, UupInv, TypeOK, Steps, Members, Stages, WorkspaceKnown,
                 ImageKnown, VerifiedIsBuilt
<1>2. UupInv /\ [Next]_vars => UupInv'
  <2> SUFFICES ASSUME UupInv, [Next]_vars PROVE UupInv'
    OBVIOUS
  <2>1. CASE UNCHANGED vars
    BY <2>1 DEF vars, UupInv, TypeOK, WorkspaceKnown, ImageKnown,
                ExtractedFromIso, VerifiedIsBuilt, IsTarget
  <2> QED BY <2>1, BuildingInv, ExtractInv, VerifyingInv, SessionStepInv DEF Next
<1> QED BY <1>1, <1>2, PTL DEF Spec

\* The image that is announced as verified is the one in the workspace, of
\* the target build, whatever the four tools leave behind.
THEOREM UupVerifiedIsBuilt == Spec => []VerifiedIsBuilt
<1>1. UupInv => VerifiedIsBuilt
  BY DEF UupInv
<1> QED BY <1>1, UupHolds, PTL

-----------------------------------------------------------------------------
(***************************************************************************)
(* Refinement: what the session sees of each step is one of the promise.   *)
(***************************************************************************)
Phase == IF at \in {"idle", "ended"} THEN at ELSE "working"

Left ==
  (IF Scratch THEN {"scratch"} ELSE {})
    \cup (IF files.final = NoIso THEN {}
          ELSE IF IsTarget(files.final) THEN {"image"} ELSE {"other"})

\* An empty workspace is seen as one.
LEMMA EmptyLeft ==
  /\ files = Empty => Left = {}
  /\ files' = Empty => Left' = {}
BY EmptyIs DEF Left, Scratch

\* A step that goes on is work on the scratch files.
LEMMA GoingOnWorks ==
  ASSUME UupInv, UupInv', at \notin {"idle", "ended"}, at' \notin {"idle", "ended"},
         UNCHANGED cancel
  PROVE  Acquisition!Work
<1>1. result' = result /\ Left' \subseteq {"scratch"}
  BY DEF UupInv, WorkspaceKnown, Left
<1>2. Phase = "working" /\ Phase' = "working"
  BY DEF Phase
<1> QED BY <1>1, <1>2 DEF Acquisition!Work, Phase, Left

\* An end without an image leaves nothing.
LEMMA EmptyEnds ==
  ASSUME at \notin {"idle", "ended"}, at' = "ended", UNCHANGED cancel,
         files' = Empty, result' = "FAILED" \/ (cancel /\ result' = "CANCELLED")
  PROVE  Acquisition!Next
<1>1. Phase = "working" /\ Phase' = "ended" /\ Left' = {}
  BY EmptyLeft DEF Phase
<1> QED BY <1>1 DEF Acquisition!Next, Acquisition!End, Phase, Left

\* The promotion leaves the image and nothing else.
LEMMA PromotionEnds ==
  ASSUME UupInv, UupInv', at = "promote", UNCHANGED cancel,
         EndsAs("COMPLETE", CleanedUp([files EXCEPT !.final = files.partial]))
  PROVE  Acquisition!Next
<1>1. [files EXCEPT !.final = files.partial] \in Workspaces
  BY DEF UupInv, TypeOK, Workspaces
<1>2. at' = "ended" /\ result' = "COMPLETE" /\ ~Scratch'
  BY <1>1, CleanedUpIs DEF EndsAs, Scratch
<1>3. IsTarget(files.final)' /\ files'.final # NoIso
  BY <1>2 DEF UupInv, VerifiedIsBuilt, IsTarget, Sane, NoIso
<1>4. Phase = "working" /\ Phase' = "ended" /\ Left' = {"image"}
  BY <1>2, <1>3 DEF Phase, Left
<1> QED BY <1>2, <1>4 DEF Acquisition!Next, Acquisition!End, Phase, Left

\* The worker keeps the promise to the session: however its four tools end, a
\* complete acquisition leaves the verified image alone in its workspace, a
\* failed or cancelled one nothing, and it is cancelled only when asked to.
THEOREM UupAcquires == Spec => Acquires
<1>1. Init => Acquisition!Init
  BY EmptyLeft DEF Init, Acquisition!Init, Left
<1>2. UupInv /\ UupInv' /\ [Next]_vars => [Acquisition!Next]_(Acquisition!vars)
  <2> SUFFICES ASSUME UupInv, UupInv', [Next]_vars
               PROVE  Acquisition!Next \/ UNCHANGED Acquisition!vars
    OBVIOUS
  <2>1. CASE UNCHANGED vars
    BY <2>1 DEF vars, Acquisition!vars, Scratch, IsTarget
  <2>2. CASE Begin
    <3>1. Phase # "working" /\ Phase' = "working" /\ Left' = {}
          /\ result' = "NONE" /\ ~cancel'
      BY <2>2, EmptyLeft DEF Begin, Phase
    <3> QED BY <3>1 DEF Acquisition!Next, Acquisition!Start, Phase, Left
  <2>3. CASE RequestCancel
    BY <2>3 DEF RequestCancel, Acquisition!Next, Acquisition!Ask, Scratch, IsTarget
  <2>4. CASE /\ at \notin {"idle", "ended"} /\ UNCHANGED cancel
             /\ at' \notin {"idle", "ended"}
    BY <2>4, GoingOnWorks DEF Acquisition!Next
  <2>5. CASE /\ at \notin {"idle", "ended"} /\ UNCHANGED cancel
             /\ \/ Fails
                \/ cancel /\ EndsAs("CANCELLED", CleanedUp(files))
                \/ files = Empty /\ EndsAs("FAILED", files)
    <3>1. files.final = NoIso /\ files \in Workspaces
      BY <2>5 DEF UupInv, WorkspaceKnown, TypeOK
    <3>2. files' = Empty /\ at' = "ended"
          /\ (result' = "FAILED" \/ (cancel /\ result' = "CANCELLED"))
      BY <2>5, <3>1, CleanedUpIs DEF Fails, EndsAs
    <3> QED BY <2>5, <3>2, EmptyEnds
  <2>6. CASE Promote
    BY <2>5, <2>6, PromotionEnds DEF Promote
  <2>7. ASSUME at = "create" \/ at = "tools" PROVE files = Empty
    BY <2>7 DEF UupInv, WorkspaceKnown
  <2>8. CASE CreateWorkspace \/ CheckTools
    BY <2>4, <2>5, <2>7, <2>8 DEF CreateWorkspace, CheckTools, Goes
  <2>9. CASE RunDownloader \/ InspectPayload \/ RunConverter \/ CheckStructure
    BY <2>4, <2>5, <2>9 DEF RunDownloader, InspectPayload, RunConverter,
                            CheckStructure, RunsTool, Goes
  <2>10. CASE Extract
    BY <2>4, <2>5, <2>10 DEF Extract, Goes
  <2>11. CASE VerifyWim \/ ReadInfo
    BY <2>4, <2>5, <2>11 DEF VerifyWim, ReadInfo, RunsTool, Goes
  <2> QED BY <2>1, <2>2, <2>3, <2>6, <2>8, <2>9, <2>10, <2>11 DEF Next
<1> QED BY <1>1, <1>2, UupHolds, PTL DEF Spec, Acquires, Acquisition!Spec
=============================================================================
