---------------------------- MODULE MCTraceRing ----------------------------
(***************************************************************************)
(* A ring of two pages, the fewest the code allocates, and the reader page; *)
(* writers that are interrupted once. An overwriting buffer gets events     *)
(* that fill a page each; one that keeps the oldest gets events that leave  *)
(* a rest on the page, some of them discarded.                              *)
(***************************************************************************)
EXTENDS TraceRing

Load(overwrite, length, discard) ==
    [overwrite |-> overwrite, lengths |-> {length}, discard |-> discard]
MixedLoads == {Load(TRUE, 3, FALSE), Load(FALSE, 2, TRUE)}

\* After the reader and a writer have met where the code lets them nothing is promised.
NotTorn == ~torn
=============================================================================
