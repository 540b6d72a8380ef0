-------------------------- MODULE CheckpointProofs --------------------------
(***************************************************************************)
(* What the checkpoint guarantees for every set of jobs and components,    *)
(* every mode and every fault: only commits of successful runs are pinned  *)
(* and used by pinned runs, and verdicts fit the failure.                  *)
(***************************************************************************)
EXTENDS Checkpoint, ApplyAndPushProofs

-----------------------------------------------------------------------------
(* The inductive invariant *)

\* Some successful run chose this commit.
Vouched(k, r) == \E t \in tested : <<k, r>> \in t.pick

\* The markers in the environment of a job that is in this stage or died in it.
MarksAt(stage) ==
    CASE stage \in {"scout", "setup", "variant"} -> {}
      [] stage = "addons" -> {"VARIANT"}
      [] stage = "compile" -> {"VARIANT", "ADDONS"}
      [] OTHER -> Mark

\* The markers tell where a job is or where it died.
StagesInOrder ==
    \A j \in Job :
        /\ phase[j] = "scout" => at[j] \in 1 .. Len(KeysOf[j])
        /\ phase[j] \in {"idle", "over"} => at[j] = 1 /\ marks[j] = {}
        /\ phase[j] \in Stage => marks[j] = MarksAt(phase[j])
        /\ phase[j] = "engine" => marks[j] = MarksAt(died[j])

\* A candidate is a commit, and only runs that test candidates have one.
CandidatesAreTests ==
    \A j \in Job : \A k \in Key :
        pick[j][k].candidate => pick[j][k].ref # NoRef /\ ~PinOnly(j)

\* What an engine asks for is its verdict on one of its components.
AskIsVerdict(j) ==
    /\ loop[j] = "idle" => ask[j] = {}
    /\ loop[j] # "idle" => phase[j] = "engine"
    /\ \A p \in ask[j] : p.key \in KeySet(j) /\ p \in Verdict(j, p.key)

AsksAreVerdicts == \A j \in Job : AskIsVerdict(j)

\* The choice of a run that ended well is in the history.
SuccessIsHistory ==
    \A j \in Job : phase[j] = "engine" /\ died[j] = "none" /\ mode[j] # "dry" =>
        \A k \in KeySet(j) : pick[j][k].ref # NoRef => Vouched(k, pick[j][k].ref)

\* What a job reads was pinned once, hence tested.
ViewsTested ==
    \A j \in Job : \A k \in Key :
        view[j][k].good # NoRef => Vouched(k, view[j][k].good)

\* So are the choices a pinned run has made so far.
PinnedChoicesTested ==
    \A j \in Job : PinOnly(j) /\ phase[j] = "scout" =>
        \A i \in 1 .. at[j] - 1 :
            Vouched(KeysOf[j][i], pick[j][KeysOf[j][i]].ref)

IInv ==
    /\ TypeOK
    /\ PushInv
    /\ StagesInOrder
    /\ CandidatesAreTests
    /\ AsksAreVerdicts
    /\ SuccessIsHistory
    /\ PinsTested
    /\ ViewsTested
    /\ PinnedChoicesTested
    /\ PinnedRunsBuildTested

-----------------------------------------------------------------------------
(* The operators the model is built from *)

\* The components of a job are keys of the manifest, and it has one at least.
LEMMA ComponentsAreKeys ==
    ASSUME NEW j \in Job
    PROVE  /\ KeySet(j) \subseteq Key
           /\ Len(KeysOf[j]) \in Nat \ {0}
           /\ \A i \in 1 .. Len(KeysOf[j]) : KeysOf[j][i] \in KeySet(j)
           /\ \A k \in KeySet(j) : \E i \in 1 .. Len(KeysOf[j]) : k = KeysOf[j][i]
  BY KeysOfAssumption DEF KeySet, Range

\* A choice is typed, a candidate is a commit, and pinned runs have none.
LEMMA ResolveType ==
    ASSUME NEW e \in Entry, NEW latest \in Ref \cup {NoRef}, NEW b \in BOOLEAN
    PROVE  /\ Resolve(e, latest, b) \in Choice
           /\ Resolve(e, latest, b).candidate =>
                Resolve(e, latest, b).ref # NoRef /\ ~b
           /\ b => Resolve(e, latest, b).ref = e.good
  BY DEF Resolve, IsCandidate, Choice, Entry

\* What the engine decides about a component is a patch of that component.
LEMMA VerdictType ==
    ASSUME TypeOK, CandidatesAreTests, NEW j \in Job, NEW k \in Key
    PROVE  /\ Verdict(j, k) \in SUBSET Patch
           /\ \A p \in Verdict(j, k) : p.key = k
<1>1. pick[j][k].ref \in Ref \cup {NoRef}
  BY DEF TypeOK, Choice
<1>2. pick[j][k].candidate => pick[j][k].ref \in Ref
  BY <1>1 DEF CandidatesAreTests
<1> QED
  BY <1>2 DEF Verdict, Patch

LEMMA CheckoutsType ==
    ASSUME TypeOK, NEW k \in Key, NEW r \in Ref \cup {NoRef}
    PROVE  Checkouts(k, r) \subseteq Ref
  BY DEF Checkouts, TypeOK

LEMMA PickedType ==
    ASSUME TypeOK, NEW j \in Job
    PROVE  Picked(j) \in Combo
  BY ComponentsAreKeys DEF Picked, Combo, TypeOK, Choice

-----------------------------------------------------------------------------
(* Every step of the checkpoint is a step of apply_and_push, or none of it *)

LEMMA NextPushes == IInv /\ [Next]_vars => [PushNext]_pushVars
<1> SUFFICES ASSUME IInv, [Next]_vars
             PROVE  [PushNext]_pushVars
  OBVIOUS
<1>1. ASSUME NEW j \in Job, Judge(j)
      PROVE  PushNext
  <2>1. KeysOf[j][at[j]] \in Key
    BY <1>1, ComponentsAreKeys DEF Judge, Judging, IInv, TypeOK
  <2>2. Verdict(j, KeysOf[j][at[j]]) \in SUBSET Patch
    BY <2>1, VerdictType DEF IInv
  <2> QED
    BY <1>1, <2>2 DEF Judge, PushNext
<1>2. ASSUME NEW j \in Job, Push(j) \/ Settle(j) \/ Abandon(j) \/ Kill(j)
      PROVE  PushNext
  BY <1>2 DEF Push, Settle, Abandon, Kill, PushNext
<1>3. CASE People
  BY <1>3 DEF People, PushNext
<1>4. ASSUME NEW j \in Job,
             \/ Dispatch(j) \/ Scout(j) \/ ScoutRefuses(j) \/ Setup(j) \/ Variant(j)
             \/ VariantFails(j) \/ Addons(j) \/ Compile(j) \/ CompileFails(j)
             \/ Post(j) \/ Breaks(j) \/ Passed(j) \/ Finish(j)
      PROVE  UNCHANGED pushVars
  BY <1>4 DEF Dispatch, Scout, ScoutRefuses, Setup, Variant, VariantFails, Addons,
              Compile, CompileFails, Post, Breaks, Passed, Finish, Passes
<1>5. ASSUME NEW k \in Key, UpstreamMoves(k)
      PROVE  UNCHANGED pushVars
  BY <1>5 DEF UpstreamMoves
<1>6. CASE UNCHANGED vars
  BY <1>6 DEF vars
<1> QED
  BY <1>1, <1>2, <1>3, <1>4, <1>5, <1>6 DEF Next, JobStep

-----------------------------------------------------------------------------
(* Types *)

LEMMA TypeInit == Init => TypeOK
<1> SUFFICES ASSUME Init
             PROVE  TypeOK
  OBVIOUS
<1>1. PushTypeOK /\ main \in Tree
  BY PushInvInit, InitTreesAssumption DEF Init, PushInit, PushInv
<1>2. Pins(main.entry) \in Combo
  BY <1>1 DEF Pins, Combo, Tree, Entry
<1>3. 1 \in Ref
  BY MaxRefAssumption DEF Ref
<1>4. NoView \in [Key -> Entry] /\ NoPick \in [Key -> Choice]
  BY DEF NoView, NoPick, NoChoice, Absent, Entry, Choice
<1>5. view \in [Job -> [Key -> Entry]] /\ pick \in [Job -> [Key -> Choice]]
  BY <1>4 DEF Init
<1>6. tested \in SUBSET [pick : Combo, built : Combo]
  BY <1>2 DEF Init
<1>7. mode \in [Job -> {"release", "pinned", "candidates", "dry"}]
  BY ModesAssumption DEF Init
<1>8. built \in [Job -> Combo]
  BY DEF Init, Combo
<1> QED
  BY <1>1, <1>3, <1>5, <1>6, <1>7, <1>8 DEF Init, TypeOK, Phase, Stage

LEMMA AtType ==
    ASSUME TypeOK, NEW j \in Job
    PROVE  /\ [at EXCEPT ![j] = @ + 1] \in [Job -> Nat \ {0}]
           /\ [at EXCEPT ![j] = 1] \in [Job -> Nat \ {0}]
<1>1. \A n \in Nat \ {0} : n + 1 \in Nat \ {0}
  OBVIOUS
<1> QED
  BY <1>1 DEF TypeOK

LEMMA OverType ==
    ASSUME TypeOK, NEW j \in Job, Over(j), PushTypeOK'
    PROVE  TypeOK'
<1>1. NoView \in [Key -> Entry] /\ NoPick \in [Key -> Choice]
  BY DEF NoView, NoPick, NoChoice, Absent, Entry, Choice
<1> QED
  BY <1>1, AtType DEF Over, TypeOK, Phase, Combo

LEMMA LeaveBuildType ==
    ASSUME TypeOK, NEW j \in Job, NEW s \in Stage \cup {"none"}, LeaveBuild(j, s)
    PROVE  /\ phase' \in [Job -> Phase]
           /\ died' \in [Job -> Stage \cup {"none"}]
           /\ at' \in [Job -> Nat \ {0}]
  BY AtType DEF LeaveBuild, TypeOK, Phase

LEMMA TypeNext == IInv /\ [Next]_vars => TypeOK'
<1> SUFFICES ASSUME IInv, [Next]_vars
             PROVE  TypeOK'
  OBVIOUS
<1>a. TypeOK /\ CandidatesAreTests /\ PushTypeOK
  BY DEF IInv, TypeOK
<1>b. PushTypeOK'
  BY NextPushes, PushInvNext DEF IInv, PushInv
<1>1. ASSUME NEW k \in Key, UpstreamMoves(k)
      PROVE  TypeOK'
  <2>1. head[k] + 1 \in Ref
    BY <1>1, <1>a, MaxRefAssumption DEF UpstreamMoves, TypeOK, Ref
  <2> QED
    BY <1>1, <1>a, <1>b, <2>1 DEF UpstreamMoves, TypeOK, jobVars
<1>2. ASSUME NEW j \in Job, Dispatch(j)
      PROVE  TypeOK'
  BY <1>2, <1>a, <1>b DEF Dispatch, TypeOK, PushTypeOK, Tree, Phase
<1>3. ASSUME NEW j \in Job, Scout(j)
      PROVE  TypeOK'
  <2> DEFINE k == KeysOf[j][at[j]]
  <2>1. k \in Key
    BY <1>3, <1>a, ComponentsAreKeys DEF Scout, IInv, StagesInOrder
  <2>2. PICK latest \in Lookups(k) :
          pick' = [pick EXCEPT ![j][k] = Resolve(view[j][k], latest, PinOnly(j))]
    BY <1>3 DEF Scout
  <2>3. latest \in Ref \cup {NoRef} /\ view[j][k] \in Entry /\ PinOnly(j) \in BOOLEAN
    BY <1>a, <2>1 DEF Lookups, TypeOK, PinOnly
  <2>4. Resolve(view[j][k], latest, PinOnly(j)) \in Choice
    BY <2>3, ResolveType
  <2>5. pick' \in [Job -> [Key -> Choice]]
    BY <1>a, <2>1, <2>2, <2>4 DEF TypeOK
  <2>6. at' = [at EXCEPT ![j] = @ + 1] \/ at' = [at EXCEPT ![j] = 1]
    BY <1>3 DEF Scout
  <2>7. at' \in [Job -> Nat \ {0}]
    BY <1>a, <2>6, AtType
  <2>8. phase' = phase \/ phase' = [phase EXCEPT ![j] = "setup"]
    BY <1>3 DEF Scout
  <2>9. phase' \in [Job -> Phase]
    BY <1>a, <2>8 DEF TypeOK, Phase
  <2> QED
    BY <1>3, <1>a, <1>b, <2>5, <2>7, <2>9 DEF Scout, TypeOK
<1>4. ASSUME NEW j \in Job,
             \/ ScoutRefuses(j) \/ VariantFails(j) \/ CompileFails(j) \/ Breaks(j)
      PROVE  TypeOK'
  <2>1. PICK s \in Stage : LeaveBuild(j, s)
    BY <1>4 DEF ScoutRefuses, VariantFails, CompileFails, Breaks, Stage
  <2>2. UNCHANGED <<head, gone, mode, view, pick, marks, built, issue, tested>>
    BY <1>4 DEF ScoutRefuses, VariantFails, CompileFails, Breaks
  <2> QED
    BY <1>a, <1>b, <2>1, <2>2, LeaveBuildType DEF TypeOK
<1>5. ASSUME NEW j \in Job, Setup(j) \/ Addons(j) \/ Compile(j)
      PROVE  TypeOK'
  <2>1. PICK s \in Stage, m \in SUBSET Mark, t \in Stage : Passes(j, s, m, t)
    BY <1>5 DEF Setup, Addons, Compile, Stage, Mark
  <2>2. UNCHANGED built
    BY <1>5 DEF Setup, Addons, Compile
  <2> QED
    BY <1>a, <1>b, <2>1, <2>2 DEF Passes, TypeOK, Phase, Stage
<1>6. ASSUME NEW j \in Job, Variant(j)
      PROVE  TypeOK'
  <2>1. built' \in [Job -> Combo]
    <3>1. PICK c \in [KeySet(j) -> Ref] :
            built' = [built EXCEPT ![j] = {<<k, c[k]>> : k \in KeySet(j)}]
      BY <1>6 DEF Variant
    <3>2. {<<k, c[k]>> : k \in KeySet(j)} \in Combo
      BY ComponentsAreKeys DEF Combo
    <3> QED
      BY <1>a, <3>1, <3>2 DEF TypeOK
  <2> QED
    BY <1>6, <1>a, <1>b, <2>1 DEF Variant, Passes, TypeOK, Phase, Mark
<1>7. ASSUME NEW j \in Job, Post(j)
      PROVE  TypeOK'
  <2>1. tested' \in SUBSET [pick : Combo, built : Combo]
    <3>1. [pick |-> Picked(j), built |-> built[j]] \in [pick : Combo, built : Combo]
      BY <1>a, PickedType DEF TypeOK
    <3> QED
      BY <1>7, <1>a, <3>1 DEF Post, TypeOK
  <2> QED
    BY <1>7, <1>a, <1>b, <2>1, LeaveBuildType DEF Post, TypeOK
<1>8. ASSUME NEW j \in Job, Passed(j) \/ Judge(j) \/ Push(j)
      PROVE  TypeOK'
  BY <1>8, <1>a, <1>b, AtType, ZenonT(40) DEF Passed, Judge, Push, TypeOK, jobVars
<1>9. ASSUME NEW j \in Job, Settle(j)
      PROVE  TypeOK'
  <2>1. issue' \in SUBSET Key
    BY <1>9, <1>a DEF Settle, IssuesAfter, TypeOK, PushTypeOK, Patch
  <2> QED
    BY <1>9, <1>a, <1>b, <2>1, AtType DEF Settle, TypeOK
<1>10. ASSUME NEW j \in Job, Abandon(j) \/ Finish(j) \/ Kill(j)
      PROVE  TypeOK'
  BY <1>10, <1>a, <1>b, OverType DEF Abandon, Finish, Kill
<1>11. CASE People
  BY <1>11, <1>a, <1>b DEF People, TypeOK, jobVars
<1>12. CASE UNCHANGED vars
  BY <1>12, <1>a, <1>b DEF vars, TypeOK, jobVars
<1> QED
  BY <1>1, <1>2, <1>3, <1>4, <1>5, <1>6, <1>7, <1>8, <1>9, <1>10, <1>11, <1>12
     DEF Next, JobStep
-----------------------------------------------------------------------------
(* Where a job is, and what it carries *)

\* No step changes the mode of a job, and none takes back a test.
LEMMA HistoryGrows == [Next]_vars => mode' = mode /\ tested \subseteq tested'
<1> SUFFICES ASSUME [Next]_vars
             PROVE  mode' = mode /\ tested \subseteq tested'
  OBVIOUS
<1>1. ASSUME NEW j \in Job, Dispatch(j) \/ Breaks(j) \/ Kill(j)
      PROVE  mode' = mode /\ tested \subseteq tested'
  BY <1>1 DEF Dispatch, Breaks, Kill, Over
<1>2. ASSUME NEW j \in Job, JobStep(j)
      PROVE  mode' = mode /\ tested \subseteq tested'
  BY <1>2 DEF JobStep, Scout, ScoutRefuses, Setup, Variant, VariantFails, Addons,
              Compile, CompileFails, Post, Passed, Judge, Push, Settle, Abandon,
              Finish, Passes, Over, jobVars
<1>3. CASE (\E k \in Key : UpstreamMoves(k)) \/ People \/ UNCHANGED vars
  BY <1>3 DEF UpstreamMoves, People, vars, jobVars
<1> QED
  BY <1>1, <1>2, <1>3 DEF Next

LEMMA StagesNext == IInv /\ [Next]_vars => StagesInOrder'
<1> SUFFICES ASSUME IInv, [Next]_vars
             PROVE  StagesInOrder'
  OBVIOUS
<1>a. TypeOK /\ StagesInOrder
  BY DEF IInv
<1>b. /\ phase \in [Job -> Phase] /\ at \in [Job -> Nat \ {0}]
      /\ marks \in [Job -> SUBSET Mark] /\ died \in [Job -> Stage \cup {"none"}]
  BY <1>a DEF TypeOK
<1>1. ASSUME NEW j \in Job, Dispatch(j)
      PROVE  StagesInOrder'
  <2>1. 1 \in 1 .. Len(KeysOf[j])
    BY ComponentsAreKeys
  <2> QED
    BY <1>1, <1>a, <1>b, <2>1 DEF Dispatch, StagesInOrder, MarksAt, Stage
<1>2. ASSUME NEW j \in Job, Scout(j)
      PROVE  StagesInOrder'
  <2>1. Len(KeysOf[j]) \in Nat /\ at[j] \in Nat \ {0} /\ marks[j] = {}
    BY <1>2, <1>a, <1>b, ComponentsAreKeys DEF Scout, StagesInOrder, MarksAt, Stage
  <2>2. UNCHANGED <<marks, died>>
    BY <1>2 DEF Scout
  <2>3. CASE at[j] < Len(KeysOf[j])
    <3>1. phase' = phase /\ at' = [at EXCEPT ![j] = @ + 1] /\ phase[j] = "scout"
      BY <1>2, <2>3 DEF Scout
    <3>2. at'[j] = at[j] + 1 /\ at'[j] \in 1 .. Len(KeysOf[j])
      BY <1>b, <2>1, <2>3, <3>1
    <3>3. \A i \in Job : i # j => at'[i] = at[i]
      BY <1>b, <3>1
    <3> QED
      BY <1>a, <2>2, <3>1, <3>2, <3>3 DEF StagesInOrder
  <2>4. CASE ~(at[j] < Len(KeysOf[j]))
    <3>1. phase' = [phase EXCEPT ![j] = "setup"] /\ at' = [at EXCEPT ![j] = 1]
      BY <1>2, <2>4 DEF Scout
    <3> QED
      BY <1>a, <1>b, <2>1, <2>2, <3>1 DEF StagesInOrder, MarksAt, Stage
  <2> QED
    BY <2>3, <2>4
<1>3. ASSUME NEW j \in Job,
             \/ ScoutRefuses(j) \/ VariantFails(j) \/ CompileFails(j) \/ Breaks(j)
      PROVE  StagesInOrder'
  <2>1. phase[j] \in Stage /\ LeaveBuild(j, phase[j]) /\ UNCHANGED marks
    BY <1>3 DEF ScoutRefuses, VariantFails, CompileFails, Breaks, Stage
  <2> QED
    BY <1>a, <1>b, <2>1 DEF LeaveBuild, StagesInOrder, Stage
<1>4. ASSUME NEW j \in Job, Post(j)
      PROVE  StagesInOrder'
  <2>1. MarksAt("post") = MarksAt("none")
    BY DEF MarksAt
  <2>2. phase[j] = "post" /\ LeaveBuild(j, "none") /\ UNCHANGED marks
    BY <1>4 DEF Post
  <2> QED
    BY <1>a, <1>b, <2>1, <2>2 DEF LeaveBuild, StagesInOrder, Stage
<1>5. ASSUME NEW j \in Job, Setup(j) \/ Variant(j) \/ Addons(j) \/ Compile(j)
      PROVE  StagesInOrder'
  <2>1. PICK s \in Stage, m \in SUBSET Mark, t \in Stage \ {"scout"} :
          Passes(j, s, m, t) /\ MarksAt(t) = MarksAt(s) \cup m
    BY <1>5 DEF Setup, Variant, Addons, Compile, Stage, Mark, MarksAt
  <2> QED
    BY <1>a, <1>b, <2>1 DEF Passes, StagesInOrder, Stage
<1>6. ASSUME NEW j \in Job, Passed(j) \/ Settle(j)
      PROVE  StagesInOrder'
  <2>1. /\ phase[j] = "engine" /\ at' = [at EXCEPT ![j] = @ + 1]
        /\ UNCHANGED <<phase, marks, died>>
    BY <1>6 DEF Passed, Settle, Judging
  <2> QED
    BY <1>a, <1>b, <2>1 DEF StagesInOrder, Stage
<1>7. ASSUME NEW j \in Job, Abandon(j) \/ Finish(j) \/ Kill(j)
      PROVE  StagesInOrder'
  <2>1. Over(j)
    BY <1>7 DEF Abandon, Finish, Kill
  <2> QED
    BY <1>a, <1>b, <2>1 DEF Over, StagesInOrder, Stage
<1>8. CASE \/ \E j \in Job : Judge(j) \/ Push(j)
           \/ \E k \in Key : UpstreamMoves(k)
           \/ People
           \/ UNCHANGED vars
  <2>1. UNCHANGED <<phase, at, marks, died>>
    BY <1>8 DEF Judge, Push, UpstreamMoves, People, vars, jobVars
  <2> QED
    BY <1>a, <2>1 DEF StagesInOrder
<1> QED
  BY <1>1, <1>2, <1>3, <1>4, <1>5, <1>6, <1>7, <1>8 DEF Next, JobStep

LEMMA CandidatesNext == IInv /\ [Next]_vars => CandidatesAreTests'
<1> SUFFICES ASSUME IInv, [Next]_vars
             PROVE  CandidatesAreTests'
  OBVIOUS
<1>a. TypeOK /\ CandidatesAreTests /\ mode' = mode
  BY HistoryGrows DEF IInv
<1>1. ASSUME NEW j \in Job, Scout(j)
      PROVE  CandidatesAreTests'
  <2> DEFINE k == KeysOf[j][at[j]]
  <2>1. k \in Key
    BY <1>1, ComponentsAreKeys DEF Scout, IInv, StagesInOrder
  <2>2. PICK latest \in Lookups(k) :
          pick' = [pick EXCEPT ![j][k] = Resolve(view[j][k], latest, PinOnly(j))]
    BY <1>1 DEF Scout
  <2>3. latest \in Ref \cup {NoRef} /\ view[j][k] \in Entry /\ PinOnly(j) \in BOOLEAN
    BY <1>a, <2>1 DEF Lookups, TypeOK, PinOnly
  <2> DEFINE c == Resolve(view[j][k], latest, PinOnly(j))
  <2>4. c.candidate => c.ref # NoRef /\ ~PinOnly(j)
    BY <2>3, ResolveType
  <2> HIDE DEF c
  <2>5. \A i \in Job, x \in Key :
          pick'[i][x] = IF i = j /\ x = k THEN c ELSE pick[i][x]
    BY <1>a, <2>1, <2>2 DEF TypeOK, c
  <2>6. \A i \in Job : PinOnly(i)' = PinOnly(i)
    BY <1>a DEF PinOnly
  <2> QED
    BY <1>a, <2>4, <2>5, <2>6 DEF CandidatesAreTests
<1>2. ASSUME NEW j \in Job, Abandon(j) \/ Finish(j) \/ Kill(j)
      PROVE  CandidatesAreTests'
  <2>1. pick' = [pick EXCEPT ![j] = NoPick]
    BY <1>2 DEF Abandon, Finish, Kill, Over
  <2>2. \A k \in Key : NoPick[k].candidate = FALSE
    BY DEF NoPick, NoChoice
  <2> QED
    BY <1>a, <2>1, <2>2 DEF CandidatesAreTests, PinOnly, TypeOK
<1>3. CASE UNCHANGED pick
  BY <1>a, <1>3 DEF CandidatesAreTests, PinOnly
<1>4. ASSUME NEW j \in Job, JobStep(j), ~Scout(j), ~Abandon(j), ~Finish(j)
      PROVE  UNCHANGED pick
  BY <1>4 DEF JobStep, ScoutRefuses, Setup, Variant, VariantFails, Addons, Compile,
              CompileFails, Post, Passed, Judge, Push, Settle, Passes, jobVars
<1>5. ASSUME \/ \E j \in Job : Dispatch(j) \/ Breaks(j)
             \/ \E k \in Key : UpstreamMoves(k)
             \/ People
             \/ UNCHANGED vars
      PROVE  UNCHANGED pick
  BY <1>5 DEF Dispatch, Breaks, UpstreamMoves, People, vars, jobVars
<1> QED
  BY <1>1, <1>2, <1>3, <1>4, <1>5 DEF Next
-----------------------------------------------------------------------------
(* A step changes the state of one job at most *)

Own(j) == <<loop[j], ask[j], phase[j], mode[j], view[j], pick[j], at[j], marks[j],
            built[j], died[j]>>

LEMMA OneJobAtATime ==
    ASSUME TypeOK, [Next]_vars, NEW i \in Job
    PROVE  \/ UNCHANGED Own(i)
           \/ Dispatch(i) \/ JobStep(i) \/ Breaks(i) \/ Kill(i)
<1>a. /\ loop \in [Job -> Loop] /\ ask \in [Job -> SUBSET Patch]
      /\ phase \in [Job -> Phase] /\ view \in [Job -> [Key -> Entry]]
      /\ pick \in [Job -> [Key -> Choice]] /\ at \in [Job -> Nat \ {0}]
      /\ marks \in [Job -> SUBSET Mark] /\ died \in [Job -> Stage \cup {"none"}]
      /\ built \in [Job -> Combo]
  BY DEF TypeOK, PushTypeOK
<1>b. mode' = mode
  BY HistoryGrows
<1>1. ASSUME NEW j \in Job, j # i, Dispatch(j)
      PROVE  UNCHANGED Own(i)
  BY <1>1, <1>a DEF Dispatch, Own, pushVars
<1>2. ASSUME NEW j \in Job, j # i, Scout(j)
      PROVE  UNCHANGED Own(i)
  <2>1. /\ pick'[i] = pick[i] /\ UNCHANGED <<loop, ask, mode, view, marks, built, died>>
    BY <1>2, <1>a DEF Scout, pushVars
  <2>2. at'[i] = at[i] /\ phase'[i] = phase[i]
    <3>1. CASE at[j] < Len(KeysOf[j])
      BY <1>2, <1>a, <3>1 DEF Scout
    <3>2. CASE ~(at[j] < Len(KeysOf[j]))
      BY <1>2, <1>a, <3>2 DEF Scout
    <3> QED
      BY <3>1, <3>2
  <2> QED
    BY <2>1, <2>2 DEF Own
<1>3. ASSUME NEW j \in Job, j # i,
             \/ ScoutRefuses(j) \/ VariantFails(j) \/ CompileFails(j) \/ Breaks(j)
             \/ Post(j)
      PROVE  UNCHANGED Own(i)
  <2>1. PICK s \in Stage \cup {"none"} : LeaveBuild(j, s)
    BY <1>3 DEF ScoutRefuses, VariantFails, CompileFails, Breaks, Post, Stage
  <2>2. UNCHANGED <<loop, ask, mode, view, pick, marks, built>>
    BY <1>3 DEF ScoutRefuses, VariantFails, CompileFails, Breaks, Post, pushVars
  <2> QED
    BY <1>3, <1>a, <2>1, <2>2 DEF LeaveBuild, Own
<1>4. ASSUME NEW j \in Job, j # i, Setup(j) \/ Variant(j) \/ Addons(j) \/ Compile(j)
      PROVE  UNCHANGED Own(i)
  BY <1>4, <1>a DEF Setup, Variant, Addons, Compile, Passes, Own, pushVars
<1>5. ASSUME NEW j \in Job, j # i, Passed(j) \/ Judge(j)
      PROVE  UNCHANGED Own(i)
  BY <1>5, <1>a DEF Passed, Judge, Call, Own, pushVars, jobVars
<1>6. ASSUME NEW j \in Job, j # i, Push(j)
      PROVE  UNCHANGED Own(i)
  <2>1. PICK l \in Loop : loop' = [loop EXCEPT ![j] = l]
    BY <1>6 DEF Push, Attempt, Fetch, FetchFails, PushAccepted, PushRejected,
                PushReplyLost, Again, Loop
  <2>2. UNCHANGED ask
    BY <1>6 DEF Push, Attempt, Fetch, FetchFails, PushAccepted, PushRejected,
                PushReplyLost
  <2> QED
    BY <1>6, <1>a, <2>1, <2>2 DEF Push, Own, jobVars
<1>7. ASSUME NEW j \in Job, j # i, Settle(j)
      PROVE  UNCHANGED Own(i)
  BY <1>7, <1>a DEF Settle, Return, Hangup, Own
<1>8. ASSUME NEW j \in Job, j # i, Abandon(j) \/ Finish(j) \/ Kill(j)
      PROVE  UNCHANGED Own(i)
  BY <1>8, <1>a DEF Abandon, Finish, Kill, Over, Return, Die, Hangup, Own, pushVars
<1>9. CASE (\E k \in Key : UpstreamMoves(k)) \/ People \/ UNCHANGED vars
  BY <1>9 DEF UpstreamMoves, People, OutsideCommit, HandFlag, Own, vars, jobVars,
              pushVars
<1> QED
  BY <1>1, <1>2, <1>3, <1>4, <1>5, <1>6, <1>7, <1>8, <1>9 DEF Next, JobStep

-----------------------------------------------------------------------------
(* What an engine asks for *)

LEMMA AsksNext == IInv /\ [Next]_vars => AsksAreVerdicts'
<1> SUFFICES ASSUME IInv, [Next]_vars, NEW j \in Job
             PROVE  AskIsVerdict(j)'
  BY DEF AsksAreVerdicts
<1>a. TypeOK /\ CandidatesAreTests /\ AskIsVerdict(j) /\ mode' = mode
  BY HistoryGrows DEF IInv, AsksAreVerdicts
<1>b. /\ loop \in [Job -> Loop] /\ ask \in [Job -> SUBSET Patch]
      /\ phase \in [Job -> Phase]
  BY <1>a DEF TypeOK, PushTypeOK
<1>1. ASSUME UNCHANGED <<ask[j], phase[j], pick[j], marks[j], died[j]>>,
             loop'[j] # "idle", loop[j] # "idle"
      PROVE  AskIsVerdict(j)'
  <2>1. \A k \in KeySet(j) : Verdict(j, k)' = Verdict(j, k)
    BY <1>a, <1>1 DEF Verdict, Unrelated
  <2>2. ask'[j] = ask[j] /\ phase'[j] = phase[j] /\ KeySet(j)' = KeySet(j)
    BY <1>1 DEF KeySet
  <2> QED
    BY <1>a, <1>1, <2>1, <2>2 DEF AskIsVerdict
<1>2. ASSUME loop'[j] = "idle", ask'[j] = {}
      PROVE  AskIsVerdict(j)'
  BY <1>2 DEF AskIsVerdict
<1>3. CASE UNCHANGED Own(j)
  BY <1>a, <1>1, <1>2, <1>3 DEF Own, AskIsVerdict
<1>4. CASE \/ Dispatch(j) \/ Scout(j) \/ ScoutRefuses(j) \/ Setup(j) \/ Variant(j)
           \/ VariantFails(j) \/ Addons(j) \/ Compile(j) \/ CompileFails(j)
           \/ Post(j) \/ Breaks(j) \/ Passed(j) \/ Finish(j)
  <2>1. phase[j] # "engine" \/ loop[j] = "idle"
    BY <1>4 DEF Dispatch, Scout, ScoutRefuses, Setup, Variant, VariantFails, Addons,
                Compile, CompileFails, Post, Breaks, Passed, Finish, Passes, Judging,
                Stage
  <2>2. UNCHANGED <<loop, ask>>
    BY <1>4 DEF Dispatch, Scout, ScoutRefuses, Setup, Variant, VariantFails, Addons,
                Compile, CompileFails, Post, Breaks, Passed, Finish, Passes, pushVars
  <2> QED
    BY <1>a, <1>2, <2>1, <2>2 DEF AskIsVerdict
<1>5. CASE Judge(j)
  <2> DEFINE k == KeysOf[j][at[j]]
  <2>1. k \in KeySet(j) /\ k \in Key /\ phase[j] = "engine"
    BY <1>5, <1>a, ComponentsAreKeys DEF Judge, Judging, TypeOK
  <2>2. PICK p \in Verdict(j, k) : Call(j, p)
    BY <1>5 DEF Judge
  <2>3. p.key = k
    BY <1>a, <2>1, <2>2, VerdictType
  <2>4. UNCHANGED <<phase, mode, pick, marks, died>>
    BY <1>5 DEF Judge, jobVars
  <2>5. ask'[j] = {p} /\ loop'[j] = "fetch"
    BY <1>b, <2>2 DEF Call
  <2>6. p \in Verdict(j, p.key)' /\ p.key \in KeySet(j)'
    BY <2>1, <2>2, <2>3, <2>4 DEF Verdict, Unrelated, KeySet
  <2> QED
    BY <2>1, <2>4, <2>5, <2>6 DEF AskIsVerdict
<1>6. CASE Push(j)
  <2>1. loop[j] \in {"fetch", "push"} /\ UNCHANGED ask
    BY <1>6 DEF Push, Attempt, Fetch, FetchFails, PushAccepted, PushRejected,
                PushReplyLost
  <2>2. PICK l \in Loop \ {"idle"} : loop' = [loop EXCEPT ![j] = l]
    BY <1>6 DEF Push, Attempt, Fetch, FetchFails, PushAccepted, PushRejected,
                PushReplyLost, Again, Loop
  <2>3. UNCHANGED <<phase, pick, marks, died>>
    BY <1>6 DEF Push, jobVars
  <2> QED
    BY <1>b, <1>1, <2>1, <2>2, <2>3
<1>7. CASE Settle(j) \/ Abandon(j) \/ Kill(j)
  <2>1. Hangup(j)
    BY <1>7 DEF Settle, Abandon, Kill, Return, Die
  <2> QED
    BY <1>b, <1>2, <2>1 DEF Hangup
<1> QED
  BY <1>a, <1>3, <1>4, <1>5, <1>6, <1>7, OneJobAtATime DEF JobStep
-----------------------------------------------------------------------------
(* What is tested stays tested *)

LEMMA SuccessNext == IInv /\ [Next]_vars => SuccessIsHistory'
<1> SUFFICES ASSUME IInv, [Next]_vars, NEW j \in Job,
                    phase'[j] = "engine", died'[j] = "none", mode'[j] # "dry",
                    NEW k \in KeySet(j), pick'[j][k].ref # NoRef
             PROVE  \E t \in tested' : <<k, pick'[j][k].ref>> \in t.pick
  BY DEF SuccessIsHistory, KeySet, Vouched
<1>a. /\ TypeOK /\ mode' = mode /\ tested \subseteq tested'
      /\ phase \in [Job -> Phase] /\ died \in [Job -> Stage \cup {"none"}]
      /\ pick \in [Job -> [Key -> Choice]]
  BY HistoryGrows DEF IInv, TypeOK
<1>1. CASE phase[j] = "engine" /\ died[j] = "none" /\ pick'[j] = pick[j]
  <2>1. \E t \in tested : <<k, pick[j][k].ref>> \in t.pick
    BY <1>1, <1>a DEF IInv, SuccessIsHistory, Vouched
  <2> QED
    BY <1>1, <1>a, <2>1 DEF Vouched
<1>2. CASE Post(j)
  <2>1. pick' = pick /\ [pick |-> Picked(j), built |-> built[j]] \in tested'
    BY <1>2, <1>a DEF Post
  <2>2. <<k, pick[j][k].ref>> \in Picked(j)
    BY <2>1 DEF Picked
  <2> QED
    BY <2>1, <2>2 DEF Vouched
<1>3. CASE UNCHANGED Own(j)
  BY <1>1, <1>3 DEF Own
<1>4. CASE Passed(j) \/ Judge(j) \/ Push(j) \/ Settle(j)
  BY <1>1, <1>4 DEF Passed, Judge, Push, Settle, Judging, jobVars
<1>5. CASE ScoutRefuses(j) \/ VariantFails(j) \/ CompileFails(j) \/ Breaks(j)
  <2>1. PICK s \in Stage : LeaveBuild(j, s)
    BY <1>5 DEF ScoutRefuses, VariantFails, CompileFails, Breaks, Stage
  <2> QED
    BY <1>a, <2>1 DEF LeaveBuild, Stage
<1>6. CASE \/ Dispatch(j) \/ Scout(j) \/ Setup(j) \/ Variant(j) \/ Addons(j)
           \/ Compile(j) \/ Abandon(j) \/ Finish(j) \/ Kill(j)
  <2>1. PICK f \in Phase \ {"engine"} :
          phase' = [phase EXCEPT ![j] = f] \/ (phase' = phase /\ phase[j] = f)
    BY <1>6 DEF Dispatch, Scout, Setup, Variant, Addons, Compile, Abandon, Finish,
                Kill, Passes, Over, Phase
  <2> QED
    BY <1>a, <2>1
<1> QED
  BY <1>a, <1>2, <1>3, <1>4, <1>5, <1>6, OneJobAtATime DEF JobStep

\* The pins change by a push of an engine or by a maintainer's hand.
LEMMA MainMoves ==
    ASSUME [Next]_vars
    PROVE  \/ main' = main
           \/ \E k \in Key : HandFlag(k)
           \/ \E j \in Job : /\ phase[j] = "engine" /\ loop[j] = "push"
                             /\ j \notin behind /\ main' = clone[j]
<1>1. ASSUME NEW j \in Job, Push(j)
      PROVE  \/ main' = main
             \/ /\ phase[j] = "engine" /\ loop[j] = "push"
                /\ j \notin behind /\ main' = clone[j]
  BY <1>1 DEF Push, Attempt, Fetch, FetchFails, PushAccepted, PushRejected,
              PushReplyLost
<1>2. ASSUME NEW j \in Job, Judge(j) \/ Settle(j) \/ Abandon(j) \/ Kill(j)
      PROVE  main' = main
  BY <1>2 DEF Judge, Call, Settle, Abandon, Kill, Return, Die, Hangup
<1>3. ASSUME NEW j \in Job,
             \/ Dispatch(j) \/ Scout(j) \/ ScoutRefuses(j) \/ Setup(j) \/ Variant(j)
             \/ VariantFails(j) \/ Addons(j) \/ Compile(j) \/ CompileFails(j)
             \/ Post(j) \/ Breaks(j) \/ Passed(j) \/ Finish(j)
      PROVE  main' = main
  BY <1>3 DEF Dispatch, Scout, ScoutRefuses, Setup, Variant, VariantFails, Addons,
              Compile, CompileFails, Post, Breaks, Passed, Finish, Passes, pushVars
<1>4. ASSUME NEW k \in Key, UpstreamMoves(k)
      PROVE  main' = main
  BY <1>4 DEF UpstreamMoves, pushVars
<1>5. CASE People
  BY <1>5 DEF People, OutsideCommit
<1>6. CASE UNCHANGED vars
  BY <1>6 DEF vars, pushVars
<1> QED
  BY <1>1, <1>2, <1>3, <1>4, <1>5, <1>6 DEF Next, JobStep

\* What an engine promotes was chosen by its own successful run.
LEMMA PromotedIsVouched ==
    ASSUME IInv, NEW j \in Job, phase[j] = "engine", NEW p \in ask[j],
           p.kind = "promote"
    PROVE  Vouched(p.key, p.ref)
<1>1. p.key \in KeySet(j) /\ p.key \in Key /\ p \in Verdict(j, p.key)
  BY ComponentsAreKeys DEF IInv, AsksAreVerdicts, AskIsVerdict
<1>2. pick[j][p.key].candidate /\ mode[j] # "dry"
  BY <1>1 DEF Verdict
<1>3. died[j] = "none" /\ p.ref = pick[j][p.key].ref
  BY <1>1, <1>2 DEF Verdict
<1>4. pick[j][p.key].ref # NoRef
  BY <1>1, <1>2 DEF IInv, CandidatesAreTests
<1> QED
  BY <1>1, <1>2, <1>3, <1>4 DEF IInv, SuccessIsHistory

LEMMA PinsNext == IInv /\ [Next]_vars => PinsTested'
<1> SUFFICES ASSUME IInv, [Next]_vars, NEW k \in Key, main'.entry[k].good # NoRef
             PROVE  \E t \in tested' : <<k, main'.entry[k].good>> \in t.pick
  BY DEF PinsTested
<1>a. /\ tested \subseteq tested' /\ main \in Tree
      /\ main.entry \in [Key -> Entry] /\ main.entry[k] \in Entry
  BY HistoryGrows DEF IInv, TypeOK, PushTypeOK, Tree
<1>1. ASSUME main'.entry[k].good = main.entry[k].good
      PROVE  \E t \in tested' : <<k, main'.entry[k].good>> \in t.pick
  BY <1>a, <1>1 DEF IInv, PinsTested
<1>2. ASSUME NEW x \in Key, HandFlag(x)
      PROVE  main'.entry[k].good = main.entry[k].good
  <2>1. main'.entry = [main.entry EXCEPT ![x] = Blacklist(@, @.good)]
    BY <1>a, <1>2, FlagType DEF HandFlag
  <2>2. Blacklist(main.entry[k], main.entry[k].good).good = main.entry[k].good
    BY <1>a DEF Blacklist, Entry
  <2> QED
    BY <1>a, <2>1, <2>2
<1>3. ASSUME NEW j \in Job, phase[j] = "engine", loop[j] = "push", j \notin behind,
             main' = clone[j]
      PROVE  \E t \in tested' : <<k, main'.entry[k].good>> \in t.pick
  <2>1. PICK p \in Patch : ask[j] = {p}
    BY <1>3 DEF IInv, PushInv, CallersHaveAsked
  <2>2. main' = PatchTree(main, p)
    BY <1>3, <2>1 DEF IInv, PushInv, TipCommitIsPatchOfMain
  <2>3. main'.entry = [main.entry EXCEPT ![p.key] = PatchEntry(@, p)]
    BY <1>a, <2>2, PatchTreeType
  <2>4. CASE p.key # k
    BY <1>a, <1>1, <2>3, <2>4
  <2>5. CASE p.key = k
    <3>1. main'.entry[k] = PatchEntry(main.entry[k], p)
      BY <1>a, <2>3, <2>5
    <3>2. CASE p.kind = "promote"
      <4>1. \/ main'.entry[k].good = main.entry[k].good
            \/ main'.entry[k].good = p.ref
        BY <1>a, <3>1, <3>2 DEF PatchEntry, Promote, Entry
      <4>2. Vouched(k, p.ref)
        BY <1>3, <2>1, <2>5, <3>2, PromotedIsVouched
      <4> QED
        BY <1>a, <1>1, <4>1, <4>2 DEF Vouched
    <3>3. CASE p.kind # "promote"
      <4>1. main'.entry[k].good = main.entry[k].good
        BY <1>a, <3>1, <3>3 DEF PatchEntry, Blacklist, Entry
      <4> QED
        BY <1>1, <4>1
    <3> QED
      BY <3>2, <3>3
  <2> QED
    BY <2>4, <2>5
<1> QED
  BY <1>1, <1>2, <1>3, MainMoves

LEMMA ViewsNext == IInv /\ [Next]_vars => ViewsTested'
<1> SUFFICES ASSUME IInv, [Next]_vars, NEW j \in Job, NEW k \in Key,
                    view'[j][k].good # NoRef
             PROVE  \E t \in tested' : <<k, view'[j][k].good>> \in t.pick
  BY DEF ViewsTested, Vouched
<1>a. /\ TypeOK /\ tested \subseteq tested'
      /\ view \in [Job -> [Key -> Entry]]
  BY HistoryGrows DEF IInv, TypeOK
<1>1. CASE view'[j] = view[j]
  BY <1>a, <1>1 DEF IInv, ViewsTested, Vouched
<1>2. CASE Dispatch(j)
  <2>1. view'[j] = main.entry
    BY <1>a, <1>2 DEF Dispatch
  <2> QED
    BY <1>a, <2>1 DEF IInv, PinsTested, Vouched
<1>3. CASE Abandon(j) \/ Finish(j) \/ Kill(j)
  <2>1. view' = [view EXCEPT ![j] = NoView]
    BY <1>3 DEF Abandon, Finish, Kill, Over
  <2> QED
    BY <1>a, <2>1 DEF NoView, Absent
<1>4. CASE \/ Scout(j) \/ ScoutRefuses(j) \/ Setup(j) \/ Variant(j)
           \/ VariantFails(j) \/ Addons(j) \/ Compile(j) \/ CompileFails(j)
           \/ Post(j) \/ Breaks(j) \/ Passed(j) \/ Judge(j) \/ Push(j) \/ Settle(j)
  <2>1. UNCHANGED view
    BY <1>4 DEF Scout, ScoutRefuses, Setup, Variant, VariantFails, Addons, Compile,
                CompileFails, Post, Breaks, Passed, Judge, Push, Settle, Passes,
                jobVars
  <2> QED
    BY <1>1, <2>1
<1> QED
  BY <1>a, <1>1, <1>2, <1>3, <1>4, OneJobAtATime DEF JobStep, Own
-----------------------------------------------------------------------------
(* What a pinned run builds *)

\* What Scout chooses for a pinned run was a pin when the run was dispatched.
LEMMA PinnedScout ==
    ASSUME IInv, NEW j \in Job, PinOnly(j), Scout(j)
    PROVE  LET k == KeysOf[j][at[j]] IN
           /\ k \in Key
           /\ \A x \in Key : x # k => pick'[j][x] = pick[j][x]
           /\ Vouched(k, pick'[j][k].ref)
<1> DEFINE k == KeysOf[j][at[j]]
<1>1. k \in Key
  BY ComponentsAreKeys DEF Scout, IInv, StagesInOrder
<1>2. PICK latest \in Lookups(k) :
        pick' = [pick EXCEPT ![j][k] = Resolve(view[j][k], latest, PinOnly(j))]
  BY DEF Scout
<1>3. /\ latest \in Ref \cup {NoRef} /\ view[j][k] \in Entry
      /\ PinOnly(j) \in BOOLEAN /\ pick \in [Job -> [Key -> Choice]]
  BY <1>1 DEF Lookups, IInv, TypeOK, PinOnly
<1>4. Resolve(view[j][k], latest, PinOnly(j)).ref = view[j][k].good
  BY <1>3, ResolveType
<1>5. view[j][k].good # NoRef
  BY DEF Scout, Refuses
<1>6. Vouched(k, view[j][k].good)
  BY <1>1, <1>5 DEF IInv, ViewsTested
<1>7. /\ pick'[j][k] = Resolve(view[j][k], latest, PinOnly(j))
      /\ \A x \in Key : x # k => pick'[j][x] = pick[j][x]
  BY <1>1, <1>2, <1>3
<1> QED
  BY <1>1, <1>4, <1>6, <1>7

LEMMA PinnedChoicesNext == IInv /\ [Next]_vars => PinnedChoicesTested'
<1> SUFFICES ASSUME IInv, [Next]_vars, NEW j \in Job, PinOnly(j),
                    phase'[j] = "scout", NEW i \in 1 .. at'[j] - 1
             PROVE  \E t \in tested' : <<KeysOf[j][i], pick'[j][KeysOf[j][i]].ref>> \in t.pick
  BY HistoryGrows DEF PinnedChoicesTested, Vouched, PinOnly
<1>a. /\ tested \subseteq tested' /\ phase \in [Job -> Phase]
      /\ at \in [Job -> Nat \ {0}]
  BY HistoryGrows DEF IInv, TypeOK
<1>1. ASSUME phase[j] = "scout", at'[j] = at[j], pick'[j] = pick[j]
      PROVE  \E t \in tested' : <<KeysOf[j][i], pick'[j][KeysOf[j][i]].ref>> \in t.pick
  <2>1. Vouched(KeysOf[j][i], pick[j][KeysOf[j][i]].ref)
    BY <1>1 DEF IInv, PinnedChoicesTested
  <2> QED
    BY <1>a, <1>1, <2>1 DEF Vouched
<1>2. CASE UNCHANGED Own(j)
  BY <1>1, <1>2 DEF Own
<1>3. CASE Dispatch(j)
  <2>1. at'[j] = 1
    BY <1>3 DEF Dispatch, IInv, StagesInOrder
  <2> QED
    BY <2>1
<1>4. CASE Scout(j)
  <2> DEFINE k == KeysOf[j][at[j]]
  <2>1. at[j] < Len(KeysOf[j])
    <3>1. ASSUME ~(at[j] < Len(KeysOf[j]))
          PROVE  phase'[j] = "setup"
      BY <1>a, <1>4, <3>1 DEF Scout
    <3> QED
      BY <3>1
  <2>2. at'[j] = at[j] + 1 /\ phase[j] = "scout"
    BY <1>a, <1>4, <2>1 DEF Scout
  <2>3. /\ Vouched(k, pick'[j][k].ref)
        /\ \A x \in Key : x # k => pick'[j][x] = pick[j][x]
    BY <1>4, PinnedScout
  <2>4. CASE KeysOf[j][i] = k
    BY <1>a, <2>3, <2>4 DEF Vouched
  <2>5. CASE KeysOf[j][i] # k
    <3>1. at[j] \in Nat /\ i \in 1 .. at[j] - 1 /\ at[j] <= Len(KeysOf[j])
      <4>1. i # at[j]
        BY <2>5
      <4> QED
        BY <1>a, <2>1, <2>2, <4>1, ComponentsAreKeys
    <3>2. KeysOf[j][i] \in Key
      BY <3>1, ComponentsAreKeys
    <3>3. Vouched(KeysOf[j][i], pick[j][KeysOf[j][i]].ref)
      BY <2>2, <3>1 DEF IInv, PinnedChoicesTested
    <3> QED
      BY <1>a, <2>3, <2>5, <3>2, <3>3 DEF Vouched
  <2> QED
    BY <2>4, <2>5
<1>5. CASE \/ ScoutRefuses(j) \/ Setup(j) \/ Variant(j) \/ VariantFails(j)
           \/ Addons(j) \/ Compile(j) \/ CompileFails(j) \/ Post(j) \/ Breaks(j)
           \/ Abandon(j) \/ Finish(j) \/ Kill(j)
  <2>1. PICK f \in Phase \ {"scout"} : phase' = [phase EXCEPT ![j] = f]
    BY <1>5 DEF ScoutRefuses, Setup, Variant, VariantFails, Addons, Compile,
                CompileFails, Post, Breaks, Abandon, Finish, Kill, Passes,
                LeaveBuild, Over, Phase
  <2> QED
    BY <1>a, <2>1
<1>6. CASE Passed(j) \/ Judge(j) \/ Push(j) \/ Settle(j)
  <2>1. phase' = phase /\ phase[j] = "engine"
    BY <1>6 DEF Passed, Judge, Push, Settle, Judging, jobVars
  <2> QED
    BY <2>1
<1> QED
  BY <1>2, <1>3, <1>4, <1>5, <1>6, OneJobAtATime DEF JobStep, IInv

LEMMA PinnedRunsNext == IInv /\ [Next]_vars => PinnedRunsBuildTested'
<1> DEFINE Building == {"setup", "variant", "addons", "compile", "post"}
<1> SUFFICES ASSUME IInv, [Next]_vars, NEW j \in Job, PinOnly(j),
                    phase'[j] \in Building, NEW k \in KeySet(j)
             PROVE  \E t \in tested' : <<k, pick'[j][k].ref>> \in t.pick
  BY HistoryGrows DEF PinnedRunsBuildTested, PinOnly, KeySet
<1>a. /\ tested \subseteq tested' /\ phase \in [Job -> Phase]
      /\ at \in [Job -> Nat \ {0}]
  BY HistoryGrows DEF IInv, TypeOK
<1>1. ASSUME phase[j] \in Building, pick'[j] = pick[j]
      PROVE  \E t \in tested' : <<k, pick'[j][k].ref>> \in t.pick
  <2>1. \E t \in tested : <<k, pick[j][k].ref>> \in t.pick
    BY <1>1 DEF IInv, PinnedRunsBuildTested
  <2> QED
    BY <1>a, <1>1, <2>1
<1>2. CASE UNCHANGED Own(j)
  BY <1>1, <1>2 DEF Own
<1>3. CASE Scout(j)
  <2>1. PICK i \in 1 .. Len(KeysOf[j]) : k = KeysOf[j][i]
    BY ComponentsAreKeys
  <2>2. phase[j] = "scout" /\ at[j] \in 1 .. Len(KeysOf[j])
    BY <1>3 DEF Scout, IInv, StagesInOrder
  <2>3. ~(at[j] < Len(KeysOf[j]))
    BY <1>3, <2>2 DEF Scout
  <2>4. /\ Vouched(KeysOf[j][at[j]], pick'[j][KeysOf[j][at[j]]].ref)
        /\ \A x \in Key : x # KeysOf[j][at[j]] => pick'[j][x] = pick[j][x]
    BY <1>3, PinnedScout
  <2>5. CASE k = KeysOf[j][at[j]]
    BY <1>a, <2>4, <2>5 DEF Vouched
  <2>6. CASE k # KeysOf[j][at[j]]
    <3>1. i \in 1 .. at[j] - 1 /\ k \in Key
      BY <2>1, <2>2, <2>3, <2>6, ComponentsAreKeys
    <3>2. Vouched(k, pick[j][k].ref)
      BY <2>1, <2>2, <3>1 DEF IInv, PinnedChoicesTested
    <3> QED
      BY <1>a, <2>4, <2>6, <3>1, <3>2 DEF Vouched
  <2> QED
    BY <2>5, <2>6
<1>4. CASE Setup(j) \/ Variant(j) \/ Addons(j) \/ Compile(j)
  BY <1>1, <1>4 DEF Setup, Variant, Addons, Compile, Passes
<1>5. CASE \/ Dispatch(j) \/ ScoutRefuses(j) \/ VariantFails(j) \/ CompileFails(j)
           \/ Post(j) \/ Breaks(j) \/ Abandon(j) \/ Finish(j) \/ Kill(j)
  <2>1. PICK f \in Phase \ Building : phase' = [phase EXCEPT ![j] = f]
    BY <1>5 DEF Dispatch, ScoutRefuses, VariantFails, CompileFails, Post, Breaks,
                Abandon, Finish, Kill, LeaveBuild, Over, Phase
  <2> QED
    BY <1>a, <2>1
<1>6. CASE Passed(j) \/ Judge(j) \/ Push(j) \/ Settle(j)
  <2>1. phase' = phase /\ phase[j] = "engine"
    BY <1>6 DEF Passed, Judge, Push, Settle, Judging, jobVars
  <2> QED
    BY <2>1
<1> QED
  BY <1>2, <1>3, <1>4, <1>5, <1>6, OneJobAtATime DEF JobStep, IInv

-----------------------------------------------------------------------------
(* The invariant is inductive *)

LEMMA IInvInit == Init => IInv
<1> SUFFICES ASSUME Init
             PROVE  IInv
  OBVIOUS
<1>1. TypeOK /\ PushInv
  BY TypeInit, PushInvInit DEF Init
<1>2. StagesInOrder
  BY DEF Init, StagesInOrder, Stage
<1>3. CandidatesAreTests /\ SuccessIsHistory /\ ViewsTested
  <2>1. \A k \in Key : NoPick[k].candidate = FALSE /\ NoView[k].good = NoRef
    BY DEF NoPick, NoChoice, NoView, Absent
  <2> QED
    BY <2>1 DEF Init, CandidatesAreTests, SuccessIsHistory, ViewsTested
<1>4. AsksAreVerdicts
  BY DEF Init, PushInit, AsksAreVerdicts, AskIsVerdict
<1>5. PinsTested
  BY DEF Init, PinsTested, Pins
<1>6. PinnedChoicesTested /\ PinnedRunsBuildTested
  BY DEF Init, PinnedChoicesTested, PinnedRunsBuildTested
<1> QED
  BY <1>1, <1>2, <1>3, <1>4, <1>5, <1>6 DEF IInv

LEMMA IInvNext == IInv /\ [Next]_vars => IInv'
<1> SUFFICES ASSUME IInv, [Next]_vars
             PROVE  IInv'
  OBVIOUS
<1>1. PushInv'
  BY NextPushes, PushInvNext DEF IInv
<1> QED
  BY <1>1, TypeNext, StagesNext, CandidatesNext, AsksNext, SuccessNext, PinsNext,
     ViewsNext, PinnedChoicesNext, PinnedRunsNext DEF IInv

\* The markers that Unrelated reads are there whenever it has to answer yes.
LEMMA IInvVerdicts == IInv => VerdictsFitTheFailure
<1> SUFFICES ASSUME IInv, NEW j \in Job, NEW p \in ask[j]
             PROVE  IF p.kind = "promote" THEN died[j] = "none" /\ mode[j] = "candidates"
                    ELSE died[j] \notin {"none", "addons", "post"}
  BY DEF VerdictsFitTheFailure
<1>1. /\ phase[j] = "engine" /\ p.key \in KeySet(j) /\ p.key \in Key
      /\ p \in Verdict(j, p.key)
  BY ComponentsAreKeys DEF IInv, AsksAreVerdicts, AskIsVerdict
<1>2. pick[j][p.key].candidate /\ mode[j] # "dry"
  BY <1>1 DEF Verdict
<1>3. mode[j] = "candidates"
  BY <1>1, <1>2 DEF IInv, CandidatesAreTests, PinOnly, TypeOK
<1>4. CASE died[j] = "none"
  BY <1>1, <1>2, <1>3, <1>4 DEF Verdict
<1>5. CASE died[j] # "none"
  <2>1. p.kind = "blacklist" /\ ~Unrelated(j)
    BY <1>1, <1>2, <1>5 DEF Verdict
  <2>2. marks[j] = MarksAt(died[j])
    BY <1>1 DEF IInv, StagesInOrder
  <2>3. died[j] # "addons"
    BY <2>1, <2>2 DEF Unrelated, MarksAt
  <2>4. died[j] # "post"
    BY <2>1, <2>2 DEF Unrelated, MarksAt, Mark
  <2> QED
    BY <1>5, <2>1, <2>3, <2>4
<1> QED
  BY <1>4, <1>5

-----------------------------------------------------------------------------
(* Theorems *)

LEMMA Invariance == Spec => []IInv
  BY IInvInit, IInvNext, PTL DEF Spec

\* The variables of scout.sh, build.sh and engine.sh keep their types, whatever
\* jobs overlap, fail or are killed.
THEOREM TypeCorrect == Spec => []TypeOK
<1>1. IInv => TypeOK
  BY DEF IInv
<1> QED
  BY <1>1, Invariance, PTL

\* However many jobs race, retry, fail or are killed, and whatever a maintainer
\* flags by hand, apply_and_push leaves only commits in main that some successful
\* run chose.
THEOREM PinsAreTested == Spec => []PinsTested
<1>1. IInv => PinsTested
  BY DEF IInv
<1> QED
  BY <1>1, Invariance, PTL

\* scout.sh gives a run that may not test candidates commits of successful runs
\* only, even when the tree it reads its pins from is long out of date.
THEOREM PinnedRunsAreSafe == Spec => []PinnedRunsBuildTested
<1>1. IInv => PinnedRunsBuildTested
  BY DEF IInv
<1> QED
  BY <1>1, Invariance, PTL

\* The markers of build.sh are enough for engine.sh: it promotes only after a
\* success and never blames a candidate for a failure of another stage.
THEOREM VerdictsAreFair == Spec => []VerdictsFitTheFailure
  BY IInvVerdicts, Invariance, PTL

\* A run of the checkpoint is a run of apply_and_push: what holds of concurrent
\* callers in general holds of the engines.
THEOREM ImplementsApplyAndPush == Spec => PushSpec
<1>1. Init => PushInit
  BY DEF Init
<1> QED
  BY <1>1, Invariance, NextPushes, PTL DEF Spec, PushSpec

\* So no promotion or blacklisting of an engine is lost or mangled by another.
THEOREM EnginesLoseNothing == Spec => NoLostUpdate
  BY ImplementsApplyAndPush, NoUpdateIsLost, PTL
=============================================================================
