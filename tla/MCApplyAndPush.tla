--------------------------- MODULE MCApplyAndPush ---------------------------
(***************************************************************************)
(* A small instance of ApplyAndPush for TLC: engines that may ask for any  *)
(* patch at any time, whatever the builds behind them did.                 *)
(***************************************************************************)
EXTENDS ApplyAndPush

\* The branch before the file exists, with a file whose keys have no bad list,
\* and with one pinned key.
StartTrees ==
    {EmptyTree, [EmptyTree EXCEPT !.present = TRUE]} \cup
    {[present |-> TRUE, entry |-> [k \in Key |-> [good |-> 1, listed |-> TRUE, bad |-> {}]]]}
=============================================================================
