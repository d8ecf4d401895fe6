-------------------------- MODULE SourceAcquisition --------------------------
(***************************************************************************)
(* What a download worker promises the graphical session about a workspace *)
(* of its own: it works in it, and ends complete, with the verified image  *)
(* and nothing else in it, or otherwise with nothing in it at all.  It is  *)
(* cancelled only if that was asked for.                                   *)
(***************************************************************************)
VARIABLES
  phase,    \* "idle", "working" or "ended"
  outcome,  \* how it ended
  asked,    \* a cancellation was asked for
  left      \* what is in the workspace: "scratch", "image", "other"

vars == <<phase, outcome, asked, left>>

Init == phase = "idle" /\ outcome = "NONE" /\ ~asked /\ left = {}

Start ==
  /\ phase # "working"
  /\ phase' = "working" /\ outcome' = "NONE" /\ left' = {} /\ ~asked'

Ask == phase = "working" /\ asked' /\ UNCHANGED <<phase, outcome, left>>

Work ==
  /\ phase = "working"
  /\ left' \subseteq {"scratch"}
  /\ UNCHANGED <<phase, outcome, asked>>

End(how, with) ==
  /\ phase = "working" /\ phase' = "ended"
  /\ outcome' = how /\ left' = with
  /\ UNCHANGED asked

Next ==
  \/ Start \/ Ask \/ Work
  \/ End("COMPLETE", {"image"})
  \/ End("FAILED", {})
  \/ asked /\ End("CANCELLED", {})

Spec == Init /\ [][Next]_vars
=============================================================================
