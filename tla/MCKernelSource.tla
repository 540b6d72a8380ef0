--------------------------- MODULE MCKernelSource ---------------------------
(* A small kernel repository, for TLC. *)
EXTENDS KernelSource

\* Every way to start a run.
AllModes == {"sync", "catchup", "adopt", "promote", "mirror"}
=============================================================================
