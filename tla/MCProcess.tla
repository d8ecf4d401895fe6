----------------------------- MODULE MCProcess -----------------------------
(* Programs for the model checker: every kind there is. *)
EXTENDS ProcessRunner

AnyPrograms == ProgramKinds
=============================================================================
