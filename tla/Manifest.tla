------------------------------ MODULE Manifest ------------------------------
(***************************************************************************)
(* The checkpoint manifest (kernel/<android>-<version>-lts/manifest.json): *)
(* for every tracked upstream component a known-good pin and a list of     *)
(* known-bad commits, the way kernel/checkpoint/scout.sh reads them and    *)
(* the two jq patches with which kernel/checkpoint/engine.sh writes them.  *)
(*                                                                         *)
(* Commits of one upstream branch are numbered in the order upstream       *)
(* publishes them, so that a larger number is a newer commit.              *)
(***************************************************************************)
EXTENDS Integers

CONSTANTS
    Key,        \* the component keys of the manifest (resukisu, susfs_resukisu, ...)
    MaxRef      \* bound: the number of commits an upstream branch publishes

ASSUME MaxRefAssumption == MaxRef \in Nat \ {0}

NoRef == 0              \* the empty string of the scripts: no commit at all
Ref == 1 .. MaxRef

\* One key of the file.  "listed" tells a bad list, possibly empty, from a key
\* that has none: jq reads the second as null.
Entry == [good : Ref \cup {NoRef}, listed : BOOLEAN, bad : SUBSET Ref]

Absent == [good |-> NoRef, listed |-> FALSE, bad |-> {}]

\* The file in a checked-out tree; a missing file reads as {}.
Tree == [present : BOOLEAN, entry : [Key -> Entry]]

EmptyTree == [present |-> FALSE, entry |-> [k \in Key |-> Absent]]

-----------------------------------------------------------------------------
(* What engine.sh writes *)

Patch == [kind : {"promote", "blacklist"}, key : Key, ref : Ref]

\* .key.good = ref | .key.bad -= [ref]      null minus an array is an error of
\* jq, and a failed jq leaves the file as it was ("jq ... > tmp && mv ...").
Promote(e, r) ==
    IF e.listed THEN [e EXCEPT !.good = r, !.bad = @ \ {r}] ELSE e

\* .key.bad |= (. + [ref] | unique)         null plus an array is the array.
Blacklist(e, r) ==
    [e EXCEPT !.listed = TRUE, !.bad = @ \cup {r}]

PatchEntry(e, p) ==
    IF p.kind = "promote" THEN Promote(e, p.ref) ELSE Blacklist(e, p.ref)

\* The engine creates the file when the branch does not have it yet.
PatchTree(t, p) ==
    [present |-> TRUE,
     entry   |-> [t.entry EXCEPT ![p.key] = PatchEntry(@, p)]]

-----------------------------------------------------------------------------
(* What scout.sh decides *)

Choice == [ref : Ref \cup {NoRef}, candidate : BOOLEAN]

NoChoice == [ref |-> NoRef, candidate |-> FALSE]

\* Mutant: a failed lookup is not told from a commit.
CandidateWithoutLookup(e, latest) ==
    IF latest = e.good THEN latest \in e.bad
                       ELSE latest \notin e.bad \/ e.good = NoRef

\* Mutant: a known-bad commit is never retried.
CandidateNeverRetried(e, latest) ==
    /\ latest # NoRef
    /\ IF latest = e.good THEN latest \in e.bad ELSE latest \notin e.bad

\* The latest upstream commit is worth a test: it is not the pin and not known
\* bad, or it is the pin and was flagged bad, or it is known bad and there is no
\* pin to fall back to.
IsCandidate(e, latest) ==
    /\ latest # NoRef
    /\ IF latest = e.good THEN latest \in e.bad
                          ELSE latest \notin e.bad \/ e.good = NoRef

\* Release runs, and runs that do not test candidates, use the pin alone.
Refuses(e, pinOnly) == pinOnly /\ e.good = NoRef

\* Mutant: TEST_CANDIDATES and RUN_MODE are not looked at.
ResolveInAnyMode(e, latest, pinOnly) ==
    IF IsCandidate(e, latest)
    THEN [ref |-> latest, candidate |-> TRUE]
    ELSE [ref |-> e.good, candidate |-> FALSE]

Resolve(e, latest, pinOnly) ==
    IF ~pinOnly /\ IsCandidate(e, latest)
    THEN [ref |-> latest, candidate |-> TRUE]
    ELSE [ref |-> e.good, candidate |-> FALSE]
=============================================================================
