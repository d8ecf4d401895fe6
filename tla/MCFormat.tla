------------------------------ MODULE MCFormat -------------------------------
(* Small instances of FormatExecutor for TLC. *)
EXTENDS FormatExecutor

CONSTANTS d0, d1

GoodHost ==
  [env |-> "VM", unlocked |-> TRUE, sfdisk |-> TRUE, mkfs |-> TRUE,
   blkid |-> TRUE, sector512 |-> TRUE, systemDisk |-> FALSE,
   planTable |-> "GPT", hidesEntries |-> FALSE]

\* The host on which nothing objects, and one host for each single objection.
PoorHosts ==
  {GoodHost,
   [GoodHost EXCEPT !.env = "WSL"],
   [GoodHost EXCEPT !.env = "OTHER"],
   [GoodHost EXCEPT !.unlocked = FALSE],
   [GoodHost EXCEPT !.mkfs = FALSE],
   [GoodHost EXCEPT !.blkid = FALSE],
   [GoodHost EXCEPT !.sector512 = FALSE],
   [GoodHost EXCEPT !.systemDisk = TRUE],
   [GoodHost EXCEPT !.planTable = "MBR"]}

TwoDisks      == {d0, d1}
NoTwin        == {}
Partitioned   == {"LAYOUT"}
BlankOrUsed   == {"NONE", "FOREIGN"}
=============================================================================
