---------------------------- MODULE MCRecommended ----------------------------
(* Small instances of RecommendedInstall for TLC. *)
EXTENDS RecommendedInstall

CONSTANTS d0, d1

GoodHost ==
  [env |-> "VM", unlocked |-> TRUE, sfdisk |-> TRUE, mkfs |-> TRUE,
   blkid |-> TRUE, sector512 |-> TRUE, systemDisk |-> FALSE,
   planTable |-> "GPT", hidesEntries |-> FALSE]

GoodHosts  == {GoodHost}
TwoHosts   == {GoodHost, [GoodHost EXCEPT !.hidesEntries = TRUE]}
OneDisk    == {d0}
TwoDisks   == {d0, d1}
NoTwin     == {}
RawDisks   == {"NONE"}
DataDisks  == {"NONE", "DATA"}
BlankOrUsed == {"NONE", "FOREIGN"}
=============================================================================
