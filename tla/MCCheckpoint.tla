---------------------------- MODULE MCCheckpoint ----------------------------
(***************************************************************************)
(* Small instances of Checkpoint for TLC.                                  *)
(***************************************************************************)
EXTENDS Checkpoint, TLC

CONSTANTS
    fork, susfs,                \* a root solution and the SuSFS it is linked with
    fork2, susfs2, fork3, susfs3,
    j1, j2, j3                  \* jobs

\* The jobs of one run, one per root solution, each with a linked pair.
MatrixKeys == (j1 :> <<fork, susfs>>) @@ (j2 :> <<fork2, susfs2>>)
                                      @@ (j3 :> <<fork3, susfs3>>)

\* Jobs of overlapping runs of one root solution, with and without SuSFS.
LinkedKeys == [j \in Job |-> <<fork, susfs>>]
SingleKeys == [j \in Job |-> <<fork>>]

\* Manifests a run may find.
AllKeys(e) == [present |-> TRUE, entry |-> [k \in Key |-> e]]

PinnedTree  == {AllKeys([good |-> 1, listed |-> TRUE, bad |-> {}])}
\* Never pinned, its only commit known bad (or not known at all).
BlockedTree == {AllKeys([good |-> NoRef, listed |-> TRUE, bad |-> b]) :
                    b \in {{}, {1}}}
\* Pinned, or not pinned and its only commit known bad.
MixedTrees  == PinnedTree \cup {AllKeys([good |-> NoRef, listed |-> TRUE, bad |-> {1}])}
\* Pinned, or without pins and with known-bad commits.
OwnTrees   == PinnedTree \cup BlockedTree
\* No manifest file yet, or one that does not hold these keys.
FirstTree   == {EmptyTree, AllKeys(Absent)}

\* The first commit of the root solution does not build, nor does the second one
\* with the first commit of SuSFS.
FirstBroken == {{<<fork, 1>>}, {<<fork, 2>>, <<susfs, 1>>}}
=============================================================================
