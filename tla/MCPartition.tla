----------------------------- MODULE MCPartition -----------------------------
(* Small instances of PartitionScreen for TLC: a megabyte of two sectors,
   layouts of one megabyte per partition, sizes of one and four megabytes. *)
EXTENDS PartitionScreen

\* An empty disk that either layout fits with a partition of a megabyte beside
\* it; a disk with a partition that ends between two megabytes, beside which
\* just a BIOS layout fits; a longer one beside whose partition just the UEFI
\* layout fits, too long for a BIOS one.
SmallDisks ==
  LET odd == [start |-> 0, count |-> 3]
  IN  {[sectors |-> 12, parts |-> {}],
       [sectors |-> 10, parts |-> {odd}],
       [sectors |-> 14, parts |-> {odd}]}
=============================================================================
