---------------------------- MODULE KernelSource ----------------------------
(***************************************************************************)
(* The kernel repository under kernel-source.yml and mirror-reference.yml:  *)
(* the branch that builds clone (live), the branch where catch-up merges    *)
(* wait (staging), and one workflow run at a time, which the concurrency    *)
(* group sees to, among people who push by hand.                            *)
(*                                                                          *)
(* A branch is the set of commits in its history, {} if it does not exist.  *)
(* One history is an ancestor of another if it is a subset of it.           *)
(***************************************************************************)
EXTENDS Integers

CONSTANTS
    Modes,          \* subset of {"sync", "catchup", "adopt", "promote", "mirror"}
    Resolved,       \* stable tags with a directory in kernel/catchup-resolutions
    Step,           \* commits per checkpoint of an adopt, 100000 in the code
    MaxUpstream,    \* bound: commits on each upstream branch after the common root
    MaxMade         \* bound: commits made here before people and dispatches cease

ASSUME BoundsAreNatural == MaxUpstream \in Nat /\ MaxMade \in Nat
ASSUME StepIsPositive   == Step \in Nat \ {0}

VARIABLES
    upstream,       \* commits published on ACK's branches and by linux-stable
    remote,         \* the branches of the kernel repository
    run,            \* the workflow run
    made,           \* commits made here so far
    promoted        \* history: what promotions have put on live

sourceVars == <<upstream, remote, run, made, promoted>>

Branch == {"live", "staging"}
Kind   == {"lts", "feature", "stable", "merge", "mirror", "human"}
Commit == Kind \X Nat
Root   == <<"lts", 0>>         \* where ACK's branches and linux-stable meet

Lts(n)          == {<<"lts", i>> : i \in 0 .. n}
Series(kind, n) == {Root} \cup {<<kind, i>> : i \in 1 .. n}
New(kind)       == <<kind, made + 1>>
CanMake         == made < MaxMade

\* tag is the input target_stable_tag, onto the branch a mirror run overwrites; work
\* is the clone on the runner; total, idx and failed belong to an adopt: its commits,
\* those pushed, and the pushes that failed; end is how the last run ended.
NoRun(end) == [at |-> "idle", mode |-> "none", tag |-> 0, onto |-> "live", work |-> {},
               total |-> 0, idx |-> 0, failed |-> 0, end |-> end]

SourceInit ==
    /\ upstream = [lts |-> 0, feature |-> 0, stable |-> 0]
    /\ remote = [b \in Branch |-> {}]
    /\ run = NoRun("ok") /\ made = 0 /\ promoted = {}

Finish(end) == run' = [run EXCEPT !.at = "idle", !.work = {}, !.end = end]

\* A step of the workflow that fails or is cancelled, or a runner that is lost.
Abort ==
    /\ run.at # "idle"
    /\ Finish("aborted")
    /\ UNCHANGED <<upstream, remote, made, promoted>>

-----------------------------------------------------------------------------
\* Mutant: the choice of a mode is passed on as it is.
BeginByName(mode) == mode

\* Resolve target repo/branch, and the first step of each path. Combinations of
\* inputs that the workflow rejects end it at once and are left out.
Begin(mode) == CASE mode = "adopt" -> "fetch" [] mode = "promote" -> "stage"
                 [] mode = "mirror" -> "mirror" [] OTHER -> "clone"

Input == {i \in [mode : Modes, tag : 0 .. MaxUpstream, onto : Branch] :
              /\ i.mode = "catchup" <=> i.tag > 0
              /\ i.mode = "mirror" \/ i.onto = "live"}

Dispatch(i) ==
    /\ run.at = "idle" /\ CanMake
    /\ run' = [NoRun("none") EXCEPT !.at = Begin(i.mode), !.mode = i.mode, !.tag = i.tag,
                                    !.onto = i.onto]
    /\ UNCHANGED <<upstream, remote, made, promoted>>

\* Mutant: every run pushes to live, whatever tag it catches up to.
PushBranchIgnoresTag(mode) == "live"

PushBranch(mode) == IF mode = "catchup" THEN "staging" ELSE "live"

\* Clone target repo: the push branch, or live if there is none yet.
Clone ==
    LET own == remote[PushBranch(run.mode)]
        w   == IF own # {} THEN own ELSE remote["live"]
    IN  /\ run.at = "clone"
        /\ IF w = {} THEN Finish("error")
                     ELSE run' = [run EXCEPT !.at = "feature", !.work = w]
        /\ UNCHANGED <<upstream, remote, made, promoted>>

\* Mutant: --allow-unrelated-histories.
MergeUnrelated(theirs, at) ==
    /\ run' = [run EXCEPT !.at = at, !.work = @ \cup theirs \cup {New("merge")}]
    /\ made' = made + 1

\* git merge --no-edit: nothing to do, a fast-forward, or a commit of our own. Git
\* refuses histories that share nothing.
Merge(theirs, at) ==
    \/ /\ theirs \subseteq run.work \/ run.work \subseteq theirs
       /\ run' = [run EXCEPT !.at = at, !.work = @ \cup theirs]
       /\ UNCHANGED made
    \/ /\ ~(theirs \subseteq run.work) /\ ~(run.work \subseteq theirs)
       /\ theirs \cap run.work # {}
       /\ run' = [run EXCEPT !.at = at, !.work = @ \cup theirs \cup {New("merge")}]
       /\ made' = made + 1

\* Fetch + merge live ACK, its feature branch first.
MergeFeature ==
    /\ run.at = "feature"
    /\ \/ Merge(Series("feature", upstream.feature), "lts")
       \/ Finish("error") /\ UNCHANGED made
    /\ UNCHANGED <<upstream, remote, promoted>>

MergeLts ==
    /\ run.at = "lts"
    /\ \/ Merge(Lts(upstream.lts), IF run.mode = "catchup" THEN "stable" ELSE "push")
       \/ Finish("error") /\ UNCHANGED made
    /\ UNCHANGED <<upstream, remote, promoted>>

\* Catch-up merge: without a merge base it gives up, and so it does on a conflict
\* unless resolutions of that tag are checked in.
MergeStable ==
    /\ run.at = "stable"
    /\ \/ run.tag <= upstream.stable /\ Merge(Series("stable", run.tag), "push")
       \/ run.tag \notin Resolved /\ Finish("error") /\ UNCHANGED made
       \/ /\ \/ run.tag > upstream.stable
             \/ run.work \cap Series("stable", run.tag) = {}
          /\ Finish("error") /\ UNCHANGED made
    /\ UNCHANGED <<upstream, remote, promoted>>

\* Mutant: --force.
ForcePush(b) == remote' = [remote EXCEPT ![b] = run.work] /\ Finish("ok")

\* git push of the clone without --force: the remote takes it as a fast-forward only.
\* A push that is taken still fails the step when its answer is lost.
FastForward(b) ==
    IF remote[b] \subseteq run.work
    THEN remote' = [remote EXCEPT ![b] = run.work] /\ \E end \in {"ok", "error"} : Finish(end)
    ELSE UNCHANGED remote /\ Finish("error")

Push ==
    /\ run.at = "push"
    /\ FastForward(PushBranch(run.mode))
    /\ UNCHANGED <<upstream, made, promoted>>

-----------------------------------------------------------------------------
\* Promote live-staging -> live: clone, compare with live, push what was cloned.
CloneStaging ==
    /\ run.at = "stage"
    /\ IF remote["staging"] = {} THEN Finish("error")
       ELSE run' = [run EXCEPT !.at = "compare", !.work = remote["staging"]]
    /\ UNCHANGED <<upstream, remote, made, promoted>>

Compare ==
    /\ run.at = "compare"
    /\ IF remote["live"] # {} /\ remote["live"] \subseteq run.work
       THEN run' = [run EXCEPT !.at = "promote"]
       ELSE Finish("error")
    /\ UNCHANGED <<upstream, remote, made, promoted>>

Promote ==
    /\ run.at = "promote"
    /\ FastForward("live")
    /\ promoted' = promoted \cup IF remote'["live"] = run.work THEN run.work ELSE {}
    /\ UNCHANGED <<upstream, made>>

-----------------------------------------------------------------------------
\* Adopt live ACK: clone it, then force-push checkpoints, oldest first.
FetchAck ==
    /\ run.at = "fetch"
    /\ run' = [run EXCEPT !.at = "adopt", !.work = Lts(upstream.lts),
                          !.total = upstream.lts + 1]
    /\ UNCHANGED <<upstream, remote, made, promoted>>

Oldest(k) == Lts(k - 1)
Target    == IF run.idx + Step > run.total THEN run.total ELSE run.idx + Step

\* Mutant: a loop that never sets idx.
CheckpointStays ==
    /\ run.at = "adopt" /\ run.idx < run.total
    /\ remote' = [remote EXCEPT !["live"] = Oldest(Target)]
    /\ UNCHANGED <<upstream, run, made, promoted>>

Checkpoint ==
    /\ run.at = "adopt" /\ run.idx < run.total
    /\ remote' = [remote EXCEPT !["live"] = Oldest(Target)]
    /\ run' = [run EXCEPT !.idx = Target]
    /\ UNCHANGED <<upstream, made, promoted>>

\* The step runs under bash -e, so the assignment push_log=$(git push ...) ends it
\* when the push fails, taken by the remote or not, before the loop can look at the
\* exit status.
CheckpointFails ==
    /\ run.at = "adopt" /\ run.idx < run.total
    /\ remote' \in {remote, [remote EXCEPT !["live"] = Oldest(Target)]}
    /\ run' = [run EXCEPT !.at = "idle", !.work = {}, !.failed = @ + 1, !.end = "error"]
    /\ UNCHANGED <<upstream, made, promoted>>

ConfirmHead ==
    /\ run.at = "adopt" /\ run.idx = run.total
    /\ remote' = [remote EXCEPT !["live"] = run.work]
    /\ Finish("ok")
    /\ UNCHANGED <<upstream, made, promoted>>

\* mirror-reference.yml: the reference tree as a single commit without ancestors.
MirrorPush ==
    /\ run.at = "mirror"
    /\ remote' = [remote EXCEPT ![run.onto] = {New("mirror")}]
    /\ made' = made + 1
    /\ Finish("ok")
    /\ UNCHANGED <<upstream, promoted>>

-----------------------------------------------------------------------------
\* People push commits of their own, and reconcile diverged branches by a merge.
HandPush(b) ==
    /\ remote[b] # {} /\ CanMake
    /\ remote' = [remote EXCEPT ![b] = @ \cup {New("human")}]
    /\ made' = made + 1
    /\ UNCHANGED <<upstream, run, promoted>>

Reconcile ==
    /\ remote["live"] \cap remote["staging"] # {} /\ CanMake
    /\ ~(remote["live"] \subseteq remote["staging"])
    /\ remote' = [remote EXCEPT !["staging"] = @ \cup remote["live"] \cup {New("merge")}]
    /\ made' = made + 1
    /\ UNCHANGED <<upstream, run, promoted>>

Publish(b) ==
    /\ upstream[b] < MaxUpstream
    /\ upstream' = [upstream EXCEPT ![b] = @ + 1]
    /\ UNCHANGED <<remote, run, made, promoted>>

RunStep ==
    \/ Clone \/ MergeFeature \/ MergeLts \/ MergeStable \/ Push
    \/ CloneStaging \/ Compare \/ Promote
    \/ FetchAck \/ Checkpoint \/ ConfirmHead \/ MirrorPush

SourceNext ==
    \/ RunStep \/ CheckpointFails \/ Abort \/ Reconcile
    \/ \E i \in Input : Dispatch(i)
    \/ \E b \in Branch : HandPush(b)
    \/ \E b \in DOMAIN upstream : Publish(b)

SourceSpec == SourceInit /\ [][SourceNext]_sourceVars

\* The runner executes the steps of a run one after another.
LiveSourceSpec == SourceSpec /\ WF_sourceVars(RunStep)
-----------------------------------------------------------------------------
(* Properties. *)

\* The variables keep their types.
SourceTypeOK ==
    /\ upstream \in [{"lts", "feature", "stable"} -> Nat]
    /\ remote \in [Branch -> SUBSET Commit]
    /\ run \in [at : {"idle", "clone", "feature", "lts", "stable", "push", "stage", "compare",
                      "promote", "fetch", "adopt", "mirror"},
                mode : Modes \cup {"none"}, tag : Nat, onto : Branch, work : SUBSET Commit,
                total : Nat, idx : Nat, failed : Nat, end : {"none", "ok", "error", "aborted"}]
    /\ made \in Nat
    /\ promoted \subseteq Commit

\* No stable release reaches the branch that builds clone except by a promotion of
\* staging, whatever runs fail or are cancelled half-way and whoever pushes meanwhile
\* (kernel-source.yml:110-117).
Stable(h) == {c \in h : c[1] = "stable"}
StableOnlyPromoted == Stable(remote["live"]) \subseteq promoted

\* Histories without a common ancestor are never joined: a mirrored tree never becomes
\* part of a real history, nor of another mirrored tree, on a branch or in the clone of
\* a run (kernel-source.yml:11-18, mirror-reference.yml:17-29).
Roots(h) == {c \in h : c = Root \/ c[1] = "mirror"}
Histories == {remote[b] : b \in Branch} \cup {run.work}
NeverGrafted == \A h \in Histories : \A r, s \in Roots(h) : r = s

\* Only an adopt and a mirror run rewrite a branch. All other steps keep every commit of
\* it, those included that were pushed after the run had cloned or compared it.
OnlyForceRewrites ==
    [][\A b \in Branch :
           \/ remote[b] \subseteq remote'[b]
           \/ run.mode = "adopt" /\ b = "live"
           \/ run.mode = "mirror" /\ b = run.onto]_sourceVars

\* Every run ends, however often others push meanwhile.
EveryRunEnds == run.at # "idle" ~> run.at = "idle"

\* "it halves on any push failure and retries from the last successful checkpoint"
\* (kernel-source.yml:173-174): no adopt fails at the first push that does.
AdoptRetriesFailedPushes == run.mode = "adopt" /\ run.end = "error" => run.failed > 1

=============================================================================
