----------------------------- MODULE Checkpoint -----------------------------
(***************************************************************************)
(* The checkpoint of SAGA-Build: one job of build.yml per root solution    *)
(* lets scout.sh choose what to build (the pin or a candidate), builds it  *)
(* stage by stage (build.sh), and lets engine.sh promote or blacklist the  *)
(* candidate in the shared manifest (ApplyAndPush).                        *)
(*                                                                         *)
(* A job stands for one matrix job of one dispatched run.  Runs are not    *)
(* serialised, so jobs of one root solution may overlap, and each reads    *)
(* the manifest as it was in the tree its run was dispatched on.           *)
(***************************************************************************)
EXTENDS ApplyAndPush, Functions

CONSTANTS
    KeysOf,     \* the components of each job, in the order the engine is told them
    Susfs,      \* the keys whose commit susfs.sh checks out
    Modes,      \* the run modes dispatched; "dry" is a Dry Run that tests candidates
    Broken,     \* the combinations <<key, commit>> that do not build
    Rerun       \* whether a finished job may be dispatched again

KeySet(j) == Range(KeysOf[j])

ASSUME KeysOfAssumption ==
    /\ KeysOf \in [Job -> Seq(Key)]
    /\ \A j \in Job : Len(KeysOf[j]) > 0
ASSUME SusfsAssumption == Susfs \subseteq Key
ASSUME ModesAssumption == Modes \subseteq {"release", "pinned", "candidates", "dry"}
ASSUME BrokenAssumption == Broken \subseteq SUBSET (Key \X Ref)
ASSUME RerunAssumption == Rerun \in BOOLEAN

VARIABLES
    head,       \* the newest commit of each upstream branch
    gone,       \* the newest commit a rebase of that branch has orphaned
    phase,      \* where each job is
    mode,       \* its run mode
    view,       \* the manifest in the tree it was dispatched on
    pick,       \* <COMPONENT>_REF and CANDIDATE_<COMPONENT>, as scout exports them
    at,         \* the position in KeysOf that scout or the engine is at
    marks,      \* the CHECKPOINT_*_OK markers in its environment
    built,      \* the commits its source tree really holds
    died,       \* the phase it failed in, "none" for BUILD_OUTCOME=success
    issue,      \* the keys with an open "upstream build failure" issue
    tested      \* history: what the successful builds chose and what they built

jobVars == <<phase, mode, view, pick, at, marks, built, died>>
vars == <<pushVars, head, gone, jobVars, issue, tested>>

Phase == {"idle", "scout", "setup", "variant", "addons", "compile", "post",
          "engine", "over"}
Stage == {"scout", "setup", "variant", "addons", "compile", "post"}
Mark  == {"VARIANT", "ADDONS", "BUILD"}
Combo == SUBSET (Key \X Ref)

TypeOK ==
    /\ PushTypeOK
    /\ head \in [Key -> Ref]
    /\ gone \in [Key -> Ref \cup {NoRef}]
    /\ phase \in [Job -> Phase]
    /\ mode \in [Job -> {"release", "pinned", "candidates", "dry"}]
    /\ view \in [Job -> [Key -> Entry]]
    /\ pick \in [Job -> [Key -> Choice]]
    /\ at \in [Job -> Nat \ {0}]
    /\ marks \in [Job -> SUBSET Mark]
    /\ built \in [Job -> Combo]
    /\ died \in [Job -> Stage \cup {"none"}]
    /\ issue \in SUBSET Key
    /\ tested \in SUBSET [pick : Combo, built : Combo]

\* The pins of a manifest, as a combination.
Pins(e) == {<<k, e[k].good>> : k \in {x \in Key : e[x].good # NoRef}}

\* What a job chose, as a combination.
Picked(j) ==
    {<<k, pick[j][k].ref>> : k \in {x \in KeySet(j) : pick[j][x].ref # NoRef}}

NoPick  == [k \in Key |-> NoChoice]
NoView  == [k \in Key |-> Absent]

\* The pins the history starts from count as tested together.
Init ==
    /\ PushInit
    /\ head = [k \in Key |-> 1]
    /\ gone = [k \in Key |-> NoRef]
    /\ phase = [j \in Job |-> "idle"]
    /\ mode \in [Job -> Modes]
    /\ view = [j \in Job |-> NoView]
    /\ pick = [j \in Job |-> NoPick]
    /\ at = [j \in Job |-> 1]
    /\ marks = [j \in Job |-> {}]
    /\ built = [j \in Job |-> {}]
    /\ died = [j \in Job |-> "none"]
    /\ issue = {}
    /\ tested = {[pick |-> Pins(main.entry), built |-> Pins(main.entry)]}

-----------------------------------------------------------------------------
(* Upstream and the people who dispatch runs *)

\* Upstream publishes a commit, and may rebase its branch while it does.
UpstreamMoves(k) ==
    /\ head[k] < MaxRef
    /\ head' = [head EXCEPT ![k] = @ + 1]
    /\ \/ UNCHANGED gone
       \/ /\ "rebase" \in Faults
          /\ gone' = [gone EXCEPT ![k] = head[k]]
    /\ UNCHANGED <<pushVars, jobVars, issue, tested>>

\* A run is dispatched on the tip of main, and its job checks out that tree.
Dispatch(j) ==
    /\ phase[j] = "idle" \/ (phase[j] = "over" /\ Rerun)
    /\ phase' = [phase EXCEPT ![j] = "scout"]
    /\ view' = [view EXCEPT ![j] = main.entry]
    /\ UNCHANGED <<pushVars, head, gone, mode, pick, at, marks, built, died,
                   issue, tested>>

-----------------------------------------------------------------------------
(* scout.sh and build.sh *)

\* After the build step, whatever came of it, comes the checkpoint step.
LeaveBuild(j, where) ==
    /\ phase' = [phase EXCEPT ![j] = "engine"]
    /\ died' = [died EXCEPT ![j] = where]
    /\ at' = [at EXCEPT ![j] = 1]

PinOnly(j) == mode[j] \in {"release", "pinned"}

\* The newest commit, or nothing when the lookup fails.
Lookups(k) == {head[k]} \cup IF "lookup" \in Faults THEN {NoRef} ELSE {}

\* resolve_component for one component and the exports that end it.
Scout(j) ==
    /\ phase[j] = "scout"
    /\ LET k == KeysOf[j][at[j]] IN
        /\ ~Refuses(view[j][k], PinOnly(j))
        /\ \E latest \in Lookups(k) :
            pick' = [pick EXCEPT ![j][k] = Resolve(view[j][k], latest, PinOnly(j))]
    /\ IF at[j] < Len(KeysOf[j])
       THEN /\ at' = [at EXCEPT ![j] = @ + 1]
            /\ UNCHANGED phase
       ELSE /\ at' = [at EXCEPT ![j] = 1]
            /\ phase' = [phase EXCEPT ![j] = "setup"]
    /\ UNCHANGED <<pushVars, head, gone, mode, view, marks, built, died, issue,
                   tested>>

\* No pin, and this run may not test candidates: scout exits with an error.
ScoutRefuses(j) ==
    /\ phase[j] = "scout"
    /\ Refuses(view[j][KeysOf[j][at[j]]], PinOnly(j))
    /\ LeaveBuild(j, "scout")
    /\ UNCHANGED <<pushVars, head, gone, mode, view, pick, marks, built, issue,
                   tested>>

\* A stage ends well: its marker, if it has one, and the next stage.
Passes(j, from, mark, to) ==
    /\ phase[j] = from
    /\ phase' = [phase EXCEPT ![j] = to]
    /\ marks' = [marks EXCEPT ![j] = @ \cup mark]
    /\ UNCHANGED <<pushVars, head, gone, mode, view, pick, at, died, issue, tested>>

\* Packages, kernel source and branding.
Setup(j) ==
    /\ Passes(j, "setup", {}, "variant")
    /\ UNCHANGED built

\* Mutant: the chosen commit is ignored, every clone takes the tip.
CheckoutsOfTip(k, ref) == {head[k]}

\* What a checkout of a chosen commit may leave in the tree: no choice means the
\* tip of the branch, and susfs.sh takes the tip in place of an orphaned commit.
Checkouts(k, ref) ==
    IF ref = NoRef THEN {head[k]}
    ELSE {ref} \cup IF k \in Susfs /\ ref <= gone[k] THEN {head[k]} ELSE {}

\* run_variant: the root solution and SuSFS are fetched and patched in.
Variant(j) ==
    /\ Passes(j, "variant", {"VARIANT"}, "addons")
    /\ \E c \in [KeySet(j) -> Ref] :
        /\ \A k \in KeySet(j) : c[k] \in Checkouts(k, pick[j][k].ref)
        /\ built' = [built EXCEPT ![j] = {<<k, c[k]>> : k \in KeySet(j)}]

\* The combination cannot even be patched in.
VariantFails(j) ==
    /\ phase[j] = "variant"
    /\ \E b \in Broken : \A x \in b :
        x[1] \in KeySet(j) /\ x[2] \in Checkouts(x[1], pick[j][x[1]].ref)
    /\ LeaveBuild(j, "variant")
    /\ UNCHANGED <<pushVars, head, gone, mode, view, pick, marks, built, issue,
                   tested>>

\* run_core and run_addons.
Addons(j) ==
    /\ Passes(j, "addons", {"ADDONS"}, "compile")
    /\ UNCHANGED built

DoesNotBuild(j) == \E b \in Broken : b \subseteq built[j]

\* run_build: a dry run writes a placeholder instead of compiling.
Compile(j) ==
    /\ mode[j] = "dry" \/ ~DoesNotBuild(j)
    /\ Passes(j, "compile", {"BUILD"}, "post")
    /\ UNCHANGED built

CompileFails(j) ==
    /\ phase[j] = "compile"
    /\ mode[j] # "dry"
    /\ DoesNotBuild(j)
    /\ LeaveBuild(j, "compile")
    /\ UNCHANGED <<pushVars, head, gone, mode, view, pick, marks, built, issue,
                   tested>>

\* run_postbuild and, but for warm runs, run_release; the build step succeeds.
Post(j) ==
    /\ phase[j] = "post"
    /\ LeaveBuild(j, "none")
    /\ tested' = IF mode[j] = "dry" THEN tested
                 ELSE tested \cup {[pick |-> Picked(j), built |-> built[j]]}
    /\ UNCHANGED <<pushVars, head, gone, mode, view, pick, marks, built, issue>>

\* Any stage may fail for a reason of its own: a download, a patch of an addon, a
\* full disk, the 90-minute timeout, a cancelled run.
Breaks(j) ==
    /\ "infra" \in Faults
    /\ phase[j] \in Stage
    /\ LeaveBuild(j, phase[j])
    /\ UNCHANGED <<pushVars, head, gone, mode, view, pick, marks, built, issue,
                   tested>>

-----------------------------------------------------------------------------
(* engine.sh *)

\* Mutant: CHECKPOINT_BUILD_OK is not looked at.
UnrelatedToAddons(j) == "VARIANT" \in marks[j] /\ "ADDONS" \notin marks[j]

\* The failure happened in run_core or run_addons, or after the compile.
Unrelated(j) ==
    \/ "VARIANT" \in marks[j] /\ "ADDONS" \notin marks[j]
    \/ "BUILD" \in marks[j]

\* Mutant: BUILD_OUTCOME is not looked at.
VerdictAlwaysPromotes(j, k) ==
    IF ~pick[j][k].candidate \/ mode[j] = "dry" THEN {}
    ELSE {[kind |-> "promote", key |-> k, ref |-> pick[j][k].ref]}

\* Mutant: components without a candidate are judged too.
VerdictOnPins(j, k) ==
    IF mode[j] = "dry" THEN {}
    ELSE IF died[j] = "none"
    THEN {[kind |-> "promote", key |-> k, ref |-> pick[j][k].ref]}
    ELSE IF Unrelated(j) \/ pick[j][k].ref = NoRef THEN {}
    ELSE {[kind |-> "blacklist", key |-> k, ref |-> pick[j][k].ref]}

\* The patch the engine makes of a component, if it makes one; dry runs skip it.
Verdict(j, k) ==
    IF ~pick[j][k].candidate \/ mode[j] = "dry" THEN {}
    ELSE IF died[j] = "none"
    THEN {[kind |-> "promote", key |-> k, ref |-> pick[j][k].ref]}
    ELSE IF Unrelated(j) THEN {}
    ELSE {[kind |-> "blacklist", key |-> k, ref |-> pick[j][k].ref]}

Judging(j) == phase[j] = "engine" /\ loop[j] = "idle" /\ at[j] <= Len(KeysOf[j])

\* No candidate, or a failure that is not its fault: on to the next component.
Passed(j) ==
    /\ Judging(j)
    /\ Verdict(j, KeysOf[j][at[j]]) = {}
    /\ at' = [at EXCEPT ![j] = @ + 1]
    /\ UNCHANGED <<pushVars, head, gone, phase, mode, view, pick, marks, built,
                   died, issue, tested>>

Judge(j) ==
    /\ Judging(j)
    /\ \E p \in Verdict(j, KeysOf[j][at[j]]) : Call(j, p)
    /\ UNCHANGED <<head, gone, jobVars, issue, tested>>

Push(j) ==
    /\ phase[j] = "engine"
    /\ Attempt(j)
    /\ UNCHANGED <<head, gone, jobVars, issue, tested>>

\* Mutant: issues are never closed.
IssuesUnclosed(p) == IF p.kind = "promote" THEN issue ELSE issue \cup {p.key}

\* Close the issue of a promoted key, file one for a blacklisted one.
IssuesAfter(p) == IF p.kind = "promote" THEN issue \ {p.key}
                                        ELSE issue \cup {p.key}

\* The patch is in: see to the issue, which may fail without consequence, and on.
Settle(j) ==
    /\ phase[j] = "engine"
    /\ loop[j] = "acked"
    /\ \/ \E p \in ask[j] : issue' = IssuesAfter(p)
       \/ "issue" \in Faults /\ UNCHANGED issue
    /\ Return(j)
    /\ at' = [at EXCEPT ![j] = @ + 1]
    /\ UNCHANGED <<head, gone, phase, mode, view, pick, marks, built, died, tested>>

\* The job is over; its machine and everything on it is gone.
Over(j) ==
    /\ phase' = [phase EXCEPT ![j] = "over"]
    /\ view' = [view EXCEPT ![j] = NoView]
    /\ pick' = [pick EXCEPT ![j] = NoPick]
    /\ at' = [at EXCEPT ![j] = 1]
    /\ marks' = [marks EXCEPT ![j] = {}]
    /\ built' = [built EXCEPT ![j] = {}]
    /\ died' = [died EXCEPT ![j] = "none"]
    /\ UNCHANGED <<head, gone, mode, issue, tested>>

\* apply_and_push gave up: the engine exits, later components are not looked at.
Abandon(j) ==
    /\ phase[j] = "engine"
    /\ loop[j] = "failed"
    /\ Return(j)
    /\ Over(j)

Finish(j) ==
    /\ phase[j] = "engine"
    /\ loop[j] = "idle"
    /\ at[j] > Len(KeysOf[j])
    /\ Over(j)
    /\ UNCHANGED pushVars

\* The runner is lost, or a cancelled job runs out of its grace period.
Kill(j) ==
    /\ phase[j] \notin {"idle", "over"}
    /\ Die(j)
    /\ Over(j)

-----------------------------------------------------------------------------

JobStep(j) ==
    \/ Scout(j) \/ ScoutRefuses(j)
    \/ Setup(j) \/ Variant(j) \/ VariantFails(j) \/ Addons(j)
    \/ Compile(j) \/ CompileFails(j) \/ Post(j)
    \/ Passed(j) \/ Judge(j) \/ Push(j) \/ Settle(j) \/ Abandon(j) \/ Finish(j)

People ==
    /\ OutsideCommit \/ \E k \in Key : HandFlag(k)
    /\ UNCHANGED <<head, gone, jobVars, issue, tested>>

Next ==
    \/ \E j \in Job : Dispatch(j) \/ JobStep(j) \/ Breaks(j) \/ Kill(j)
    \/ \E k \in Key : UpstreamMoves(k)
    \/ People

Spec == Init /\ [][Next]_vars

\* A runner works on until its job ends, and the schedule of pin-scout.yml keeps
\* dispatching runs that test candidates.
Fairness ==
    \A j \in Job : WF_vars(JobStep(j)) /\ WF_vars(Dispatch(j))

LiveSpec == Spec /\ Fairness

-----------------------------------------------------------------------------
(* Properties *)

\* Every pin was chosen by a run whose build succeeded, or was a pin from the
\* start: no race, retry or failure pins a commit that no build vouches for
\* (engine.sh: "Candidate succeeded -> promote it").
PinsTested ==
    \A k \in Key : main.entry[k].good # NoRef =>
        \E t \in tested : <<k, main.entry[k].good>> \in t.pick

\* The pinned commit itself was in the tree of a successful build (scout.sh:
\* <COMPONENT>_REF is "the SHA to actually build against").
PinsBuilt ==
    \A k \in Key : main.entry[k].good # NoRef =>
        \E t \in tested : <<k, main.entry[k].good>> \in t.built

\* A run that may not test candidates builds only commits that an earlier
\* successful run chose, however old the tree is that it reads its pins from
\* (scout.sh: Release "never builds an untested candidate").
PinnedRunsBuildTested ==
    \A j \in Job : PinOnly(j) /\ phase[j] \in {"setup", "variant", "addons", "compile", "post"} =>
        \A k \in KeySet(j) : \E t \in tested : <<k, pick[j][k].ref>> \in t.pick

\* While no engine is at work, the pins a release of a job combines were built
\* together by one successful run (a release must not ship what was not verified).
PinnedPairsTested ==
    (\A j \in Job : phase[j] # "engine") =>
        \A j \in Job :
            LET pair == {<<k, main.entry[k].good>> : k \in KeySet(j)} IN
            (\A k \in KeySet(j) : main.entry[k].good # NoRef) =>
                \E t \in tested : pair \subseteq t.built

\* A pin never moves back to an older commit (build.yml: overlapping runs are "safe
\* for" the manifest).
PinsNeverRegress ==
    [][\A k \in Key : main'.entry[k].good >= main.entry[k].good]_vars

\* Without a maintainer's hand no pin is on its own bad list (scout.sh calls such a
\* pin "manually flagged bad").
PinsNotBad ==
    \A k \in Key : main.entry[k].good \notin main.entry[k].bad

\* The engine's patch fits what happened to the run: it promotes nothing of a failed,
\* a dry or a release run, and blames no candidate for a failure in run_core,
\* run_addons, run_postbuild or run_release, though all it sees are the markers.
VerdictsFitTheFailure ==
    \A j \in Job : \A p \in ask[j] :
        IF p.kind = "promote" THEN died[j] = "none" /\ mode[j] = "candidates"
        ELSE died[j] \notin {"none", "addons", "post"}

\* While no engine is at work, an open "upstream build failure" issue belongs to a
\* key with a known-bad commit: a retried commit that builds takes its issue along
\* (close_issue_if_open).
IssuesHaveACause ==
    (\A j \in Job : phase[j] # "engine") =>
        \A k \in issue : main.entry[k].bad # {}

\* The conflicts that the jobs of one run cause each other never use up the attempts
\* of apply_and_push (engine.sh: "Matrix jobs ... may both try to write").
ConflictsNeverExhaust ==
    \A j \in Job : loop[j] # "failed"

\* What upstream offers builds together.
UpstreamBuilds == ~\E b \in Broken : b \subseteq {<<k, head[k]>> : k \in Key}

\* A stage fails for a reason of its own, or a failed lookup changes what is built.
Mishap(j) ==
    \/ Breaks(j)
    \/ LET k == KeysOf[j][at[j]] IN
        Scout(j) /\ pick'[j][k] # Resolve(view[j][k], head[k], PinOnly(j))

\* Candidate runs that keep coming end up giving every component a pin once what
\* upstream offers builds and mishaps end, whatever the bad lists hold by then (scout.sh
\* breaks the "permanent deadlock" in which "Release mode can never pass").
EveryKeyGetsAPin ==
    <>[]UpstreamBuilds /\ <>[][\A j \in Job : ~Mishap(j)]_vars
        => <>(\A k \in Key : main.entry[k].good # NoRef)
=============================================================================
