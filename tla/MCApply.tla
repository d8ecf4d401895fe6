------------------------------- MODULE MCApply -------------------------------
(* Small instances of ApplyExecutor for TLC. *)
EXTENDS ApplyExecutor

CONSTANTS d0, d1

\* The host on which nothing objects, and one host for each single objection.
GoodHost ==
  [env |-> "VM", unlocked |-> TRUE, sfdisk |-> TRUE, mkfs |-> TRUE,
   blkid |-> TRUE, sector512 |-> TRUE, systemDisk |-> FALSE,
   planTable |-> "GPT", hidesEntries |-> FALSE]

OneHost == {GoodHost}

PoorHosts ==
  {GoodHost,
   [GoodHost EXCEPT !.env = "WSL"],
   [GoodHost EXCEPT !.env = "OTHER"],
   [GoodHost EXCEPT !.unlocked = FALSE],
   [GoodHost EXCEPT !.sfdisk = FALSE],
   [GoodHost EXCEPT !.sector512 = FALSE],
   [GoodHost EXCEPT !.systemDisk = TRUE],
   [GoodHost EXCEPT !.planTable = "MBR"],
   [GoodHost EXCEPT !.hidesEntries = TRUE]}

TwoDisks   == {d0, d1}
Twin       == {d1}
NoTwin     == {}
NoResidue  == {"NONE"}
RawDisks   == {"NONE"}
MixedDisks == {"NONE", "OTHER"}
AllDisks   == {"NONE", "DATA", "OTHER"}
=============================================================================
