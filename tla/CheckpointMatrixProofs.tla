----------------------- MODULE CheckpointMatrixProofs -----------------------
(***************************************************************************)
(* What the checkpoint guarantees when every component has one job that    *)
(* looks after it, as the matrix jobs of one run do (build.yml): pins only *)
(* move forward, what a release combines was built together, issues have   *)
(* a cause, and the conflicts of the jobs never use up their attempts.     *)
(*                                                                         *)
(* The hypotheses are formulas about the constants that each theorem names *)
(* on its own.  Runs of one root solution that overlap violate the first.  *)
(***************************************************************************)
EXTENDS CheckpointProofs, FiniteSetTheorems

-----------------------------------------------------------------------------
(* Hypotheses *)

\* The jobs of one run share no component: every root solution has a SuSFS key of
\* its own.  A job may be dispatched again when it is over.
OneJobPerKey == \A i, j \in Job : i # j => KeySet(i) \cap KeySet(j) = {}

\* No job is told a component twice.
NoKeyTwice == \A j \in Job : IsInjective(KeysOf[j])

\* The pins the history starts from are published commits.
PublishedStart == \A t \in InitTrees : \A k \in Key : t.entry[k].good <= 1

\* ... and no manifest lists its own pin as bad.
CleanStart == \A t \in InitTrees : \A k \in Key : t.entry[k].good \notin t.entry[k].bad

\* ... and every pin has a bad list beside it.
ListedStart ==
    \A t \in InitTrees : \A k \in Key : t.entry[k].good # NoRef => t.entry[k].listed

\* The components of the other jobs.
Others(j) == UNION {KeySet(i) : i \in Job \ {j}}

\* A job has more attempts than the others have components.
EnoughAttempts ==
    \A j \in Job : IsFiniteSet(Others(j)) /\ Cardinality(Others(j)) < MaxAttempts

-----------------------------------------------------------------------------
(* Engines take the components in turn *)

\* The engine asks for the components in their turn.
AsksInTurn ==
    \A j \in Job : loop[j] # "idle" =>
        /\ at[j] <= Len(KeysOf[j])
        /\ \E p \in Verdict(j, KeysOf[j][at[j]]) : ask[j] = {p}

JInv == IInv /\ AsksInTurn

-----------------------------------------------------------------------------
(* Pins move forward *)

PinsPublished == \A k \in Key : main.entry[k].good <= head[k]

ViewsPublished == \A j \in Job : \A k \in Key : view[j][k].good <= head[k]

\* A candidate is published, not older than the pin it may replace, and not the pin
\* itself unless that is known bad.
CandidateIsNews(j, k) ==
    pick[j][k].candidate =>
        /\ view[j][k].good <= pick[j][k].ref
        /\ pick[j][k].ref <= head[k]
        /\ pick[j][k].ref = view[j][k].good => pick[j][k].ref \in view[j][k].bad

CandidatesAreNews == \A j \in Job : \A k \in Key : CandidateIsNews(j, k)

\* While a job is on its way, a pin of its own is the one it read, or the candidate
\* it has promoted after a success.
PinIsOwn(j, k) ==
    \/ main.entry[k].good = view[j][k].good
    \/ /\ phase[j] = "engine" /\ died[j] = "none" /\ mode[j] # "dry"
       /\ pick[j][k].candidate
       /\ main.entry[k].good = pick[j][k].ref

PinsOwned ==
    \A j \in Job : phase[j] \notin {"idle", "over"} =>
        \A k \in KeySet(j) : PinIsOwn(j, k)

\* A job that is not on its way has chosen nothing.
IdlePicksNothing ==
    \A j \in Job : phase[j] \in {"idle", "over"} =>
        \A k \in Key : ~pick[j][k].candidate

PInv ==
    /\ IInv
    /\ PinsPublished /\ ViewsPublished
    /\ IdlePicksNothing /\ CandidatesAreNews
    /\ PinsOwned

\* What a job reads is as clean as what main holds.
ViewsNotBad == \A j \in Job : \A k \in Key : view[j][k].good \notin view[j][k].bad

BInv == PInv /\ PinsNotBad /\ ViewsNotBad

-----------------------------------------------------------------------------
(* Issues have a cause *)

\* A blacklisted commit is on the list before the issue is filed.
BlacklistedFirst ==
    \A j \in Job : loop[j] = "acked" =>
        \A p \in ask[j] : p.kind = "blacklist" => p.ref \in main.entry[p.key].bad

\* An issue without a cause is about to be closed by the job that promoted its key.
Closing(k) ==
    \E j \in Job : /\ phase[j] = "engine" /\ loop[j] = "acked"
                   /\ \E p \in ask[j] : p.kind = "promote" /\ p.key = k

IssuesAccounted == \A k \in issue : main.entry[k].bad # {} \/ Closing(k)

CInv == JInv /\ BlacklistedFirst /\ IssuesAccounted

-----------------------------------------------------------------------------
(* What is pinned together was built together *)

NothingGone == gone = [k \in Key |-> NoRef]

PinsListed == \A k \in Key : main.entry[k].good # NoRef => main.entry[k].listed

\* The tree of a job holds what the job chose.
BuiltAsPicked ==
    \A j \in Job : phase[j] \in {"addons", "compile", "post"} => Picked(j) \subseteq built[j]

\* What a successful job chose was in the tree of a successful build.
ChoiceTested ==
    \A j \in Job : phase[j] = "engine" /\ died[j] = "none" /\ mode[j] # "dry" =>
        \E t \in tested : Picked(j) \subseteq t.built

\* Scout is done with these components of a job.
Scouted(j) ==
    CASE phase[j] = "scout" -> {KeysOf[j][i] : i \in 1 .. at[j] - 1}
      [] phase[j] = "engine" /\ died[j] # "none" -> {}
      [] OTHER -> KeySet(j)

\* A component without a candidate is built from its pin.
OthersFromPins ==
    \A j \in Job : phase[j] \notin {"idle", "over"} =>
        \A k \in Scouted(j) : ~pick[j][k].candidate => pick[j][k].ref = view[j][k].good

\* The engine is through with the component in this place.
Through(j, n) == n < at[j] \/ (n = at[j] /\ loop[j] = "acked")

\* What the engine is through with is promoted, if it could be written at all.
PromotedInTurn ==
    \A j \in Job : phase[j] = "engine" /\ died[j] = "none" /\ mode[j] # "dry" =>
        \A n \in 1 .. Len(KeysOf[j]) :
            LET k == KeysOf[j][n] IN
            Through(j, n) /\ pick[j][k].candidate =>
                main.entry[k].good \in {pick[j][k].ref, NoRef}

PairOf(j) == {<<k, main.entry[k].good>> : k \in KeySet(j)}

PairTested(j) ==
    (\A k \in KeySet(j) : main.entry[k].good # NoRef) =>
        \E t \in tested : PairOf(j) \subseteq t.built

\* Unless its engine is at work after a success, the pins of a job fit together.
PairsTested ==
    \A j \in Job : phase[j] # "engine" \/ died[j] # "none" \/ mode[j] = "dry" =>
        PairTested(j)

TInv ==
    /\ JInv /\ PinsOwned /\ NothingGone /\ PinsListed /\ BuiltAsPicked /\ ChoiceTested
    /\ OthersFromPins /\ PromotedInTurn /\ PairsTested

-----------------------------------------------------------------------------
(* Conflicts are bounded *)

\* The engine of a job will not push the component in this place any more.
Landed(j, n) == phase[j] = "over" \/ (phase[j] = "engine" /\ Through(j, n))

\* The components the others will not push any more.
LandedOthers(j) ==
    {k \in Others(j) : \E i \in Job \ {j} : \E n \in 1 .. Len(KeysOf[i]) :
        k = KeysOf[i][n] /\ Landed(i, n)}

\* Every attempt but the first is owed to a component that another job has landed.
AttemptsOwed ==
    \A j \in Job :
        /\ loop[j] \in {"fetch", "push"} =>
            attempt[j] <= 1 + Cardinality(LandedOthers(j))
        /\ j \in behind => attempt[j] <= Cardinality(LandedOthers(j))

BehindPush == \A j \in behind : loop[j] = "push"

NInv == JInv /\ BehindPush /\ AttemptsOwed /\ ConflictsNeverExhaust

-----------------------------------------------------------------------------
(* Who changes what *)

\* main changes in the step in which the server takes a push.
Takes(j) ==
    /\ Push(j)
    /\ loop[j] = "push" /\ j \notin behind
    /\ main' = clone[j]
    /\ \/ loop' = [loop EXCEPT ![j] = "acked"]
       \/ "reply" \in Faults /\ loop' \in {[loop EXCEPT ![j] = l] : l \in {"fetch", "failed"}}

LEMMA WhoWrites ==
    ASSUME [Next]_vars
    PROVE  \/ main' = main
           \/ \E k \in Key : HandFlag(k) /\ People
           \/ \E j \in Job : Takes(j)
<1>1. ASSUME NEW j \in Job, Push(j)
      PROVE  main' = main \/ Takes(j)
  BY <1>1 DEF Push, Attempt, Fetch, FetchFails, PushAccepted, PushRejected,
              PushReplyLost, Again, Takes
<1>2. CASE People
  BY <1>2 DEF People, OutsideCommit
<1>3. ASSUME NEW j \in Job, ~Push(j),
             Dispatch(j) \/ JobStep(j) \/ Breaks(j) \/ Kill(j)
      PROVE  main' = main
  BY <1>3 DEF JobStep, Dispatch, Scout, ScoutRefuses, Setup, Variant, VariantFails,
              Addons, Compile, CompileFails, Post, Breaks, Passed, Finish, Passes,
              Judge, Call, Settle, Abandon, Kill, Return, Die, Hangup, pushVars
<1>4. CASE (\E k \in Key : UpstreamMoves(k)) \/ UNCHANGED vars
  BY <1>4 DEF UpstreamMoves, vars, pushVars
<1> QED
  BY <1>1, <1>2, <1>3, <1>4 DEF Next

\* A push that is taken patches one component of its job, by the job's own verdict.
LEMMA TakenPatch ==
    ASSUME IInv, NEW j \in Job, Takes(j)
    PROVE  \E p \in Patch :
              /\ ask[j] = {p} /\ ask' = ask
              /\ p.key \in KeySet(j) /\ p.key \in Key /\ p \in Verdict(j, p.key)
              /\ phase[j] = "engine"
              /\ main'.entry = [main.entry EXCEPT ![p.key] = PatchEntry(@, p)]
              /\ UNCHANGED <<head, gone, jobVars, issue, tested>>
<1>1. PICK p \in Patch : ask[j] = {p}
  BY DEF Takes, IInv, PushInv, CallersHaveAsked
<1>2. /\ phase[j] = "engine" /\ p.key \in KeySet(j) /\ p.key \in Key
      /\ p \in Verdict(j, p.key)
  BY <1>1, ComponentsAreKeys DEF IInv, AsksAreVerdicts, AskIsVerdict, Takes
<1>3. main' = PatchTree(main, p) /\ main \in Tree
  BY <1>1 DEF Takes, IInv, PushInv, PushTypeOK, TipCommitIsPatchOfMain
<1>4. UNCHANGED <<head, gone, jobVars, issue, tested>>
  BY DEF Takes, Push
<1>5. ask' = ask
  BY DEF Takes, Push, Attempt, Fetch, FetchFails, PushAccepted, PushRejected,
         PushReplyLost
<1> QED
  BY <1>1, <1>2, <1>3, <1>4, <1>5, PatchTreeType

LEMMA FlaggedEntry ==
    ASSUME IInv, NEW x \in Key, HandFlag(x)
    PROVE  /\ main.entry[x].good # NoRef
           /\ main'.entry = [main.entry EXCEPT ![x] = Blacklist(@, @.good)]
<1>1. main \in Tree
  BY DEF IInv, PushInv, PushTypeOK
<1> QED
  BY <1>1, FlagType DEF HandFlag

\* How the entry of one component may change.
EntryKept(k) == main'.entry[k] = main.entry[k]

EntryFlagged(k) ==
    /\ People /\ "flag" \in Outside
    /\ main.entry[k].good # NoRef
    /\ main'.entry[k] = Blacklist(main.entry[k], main.entry[k].good)

EntryPatched(k, j, p) ==
    /\ Takes(j)
    /\ k \in KeySet(j) /\ p.key = k /\ ask[j] = {p} /\ ask' = ask
    /\ p \in Verdict(j, k)
    /\ phase[j] = "engine"
    /\ main'.entry[k] = PatchEntry(main.entry[k], p)
    /\ UNCHANGED <<head, gone, jobVars, issue, tested>>

LEMMA EntryMoves ==
    ASSUME IInv, [Next]_vars, NEW k \in Key
    PROVE  \/ EntryKept(k)
           \/ EntryFlagged(k)
           \/ \E j \in Job, p \in Patch : EntryPatched(k, j, p)
<1>a. main.entry \in [Key -> Entry]
  BY DEF IInv, PushInv, PushTypeOK, Tree
<1>1. CASE main' = main
  BY <1>1 DEF EntryKept
<1>2. ASSUME NEW x \in Key, HandFlag(x), People
      PROVE  EntryKept(k) \/ EntryFlagged(k)
  <2>1. "flag" \in Outside
    BY <1>2 DEF HandFlag
  <2> QED
    BY <1>a, <1>2, <2>1, FlaggedEntry DEF EntryKept, EntryFlagged
<1>3. ASSUME NEW j \in Job, Takes(j)
      PROVE  EntryKept(k) \/ \E p \in Patch : EntryPatched(k, j, p)
  <2>1. PICK p \in Patch :
          /\ ask[j] = {p} /\ ask' = ask
          /\ p.key \in KeySet(j) /\ p.key \in Key /\ p \in Verdict(j, p.key)
          /\ phase[j] = "engine"
          /\ main'.entry = [main.entry EXCEPT ![p.key] = PatchEntry(@, p)]
          /\ UNCHANGED <<head, gone, jobVars, issue, tested>>
    BY <1>3, TakenPatch
  <2>2. CASE p.key = k
    <3>1. main'.entry[k] = PatchEntry(main.entry[k], p)
      BY <1>a, <2>1, <2>2
    <3>2. EntryPatched(k, j, p)
      BY <1>3, <2>1, <2>2, <3>1 DEF EntryPatched
    <3> QED
      BY <3>2
  <2>3. CASE p.key # k
    BY <1>a, <2>1, <2>3 DEF EntryKept
  <2> QED
    BY <2>2, <2>3
<1> QED
  BY <1>1, <1>2, <1>3, WhoWrites

\* What a verdict says of the job it is about.
LEMMA VerdictSays ==
    ASSUME NEW j \in Job, NEW k \in Key, NEW p \in Verdict(j, k)
    PROVE  /\ pick[j][k].candidate /\ mode[j] # "dry" /\ p.ref = pick[j][k].ref
           /\ p.kind = "promote" <=> died[j] = "none"
           /\ p.kind \in {"promote", "blacklist"}
           /\ Verdict(j, k) = {p}
  BY DEF Verdict

\* How a patch changes a pin and a bad list.
LEMMA PatchedPin ==
    ASSUME NEW e \in Entry, NEW p \in Patch
    PROVE  /\ PatchEntry(e, p).good \in {e.good, p.ref}
           /\ PatchEntry(e, p).good # e.good => p.kind = "promote"
           /\ p.kind = "promote" /\ e.listed => PatchEntry(e, p).good = p.ref
           /\ e.listed => PatchEntry(e, p).listed
  BY DEF PatchEntry, Promote, Blacklist, Entry

\* A job on its way keeps the manifest it read; once its engine is at work, its
\* choice and the fate of its build stay as they are.
LEMMA OnItsWay ==
    ASSUME IInv, [Next]_vars, NEW j \in Job, phase'[j] \notin {"idle", "over"},
           ~Dispatch(j)
    PROVE  /\ phase[j] \notin {"idle", "over"}
           /\ view'[j] = view[j]
           /\ phase[j] = "engine" =>
                phase'[j] = "engine" /\ UNCHANGED <<pick[j], died[j], marks[j]>>
           /\ ~Scout(j) => pick'[j] = pick[j]
<1>a. phase \in [Job -> Phase] /\ TypeOK
  BY DEF IInv, TypeOK
<1>1. CASE UNCHANGED Own(j)
  BY <1>1 DEF Own
<1>2. CASE \/ ScoutRefuses(j) \/ VariantFails(j) \/ CompileFails(j) \/ Breaks(j)
           \/ Post(j)
  BY <1>2 DEF ScoutRefuses, VariantFails, CompileFails, Breaks, Post, Stage
<1>3. CASE Scout(j) \/ Setup(j) \/ Variant(j) \/ Addons(j) \/ Compile(j)
  BY <1>3 DEF Scout, Setup, Variant, Addons, Compile, Passes
<1>4. CASE Passed(j) \/ Judge(j) \/ Push(j) \/ Settle(j)
  BY <1>4 DEF Passed, Judge, Push, Settle, Judging, jobVars
<1>5. CASE Abandon(j) \/ Finish(j) \/ Kill(j)
  BY <1>a, <1>5 DEF Abandon, Finish, Kill, Over
<1> QED
  BY <1>a, <1>1, <1>2, <1>3, <1>4, <1>5, OneJobAtATime DEF JobStep

-----------------------------------------------------------------------------
(* Engines take the components in turn *)

\* A job that is inside apply_and_push goes on there, or its call is over.
LEMMA InsideACall ==
    ASSUME IInv, [Next]_vars, NEW j \in Job, loop[j] # "idle"
    PROVE  /\ phase[j] = "engine"
           /\ \/ UNCHANGED Own(j)
              \/ Push(j)
              \/ Settle(j)
              \/ Abandon(j) \/ Kill(j)
<1>1. phase[j] = "engine"
  BY DEF IInv, AsksAreVerdicts, AskIsVerdict
<1>2. ~ \/ Dispatch(j) \/ Scout(j) \/ ScoutRefuses(j) \/ Setup(j) \/ Variant(j)
        \/ VariantFails(j) \/ Addons(j) \/ Compile(j) \/ CompileFails(j) \/ Post(j)
        \/ Breaks(j) \/ Passed(j) \/ Judge(j) \/ Finish(j)
  BY <1>1 DEF Dispatch, Scout, ScoutRefuses, Setup, Variant, VariantFails, Addons,
              Compile, CompileFails, Post, Breaks, Passed, Judge, Finish, Passes,
              Judging, Stage
<1> QED
  BY <1>1, <1>2, OneJobAtATime DEF JobStep, IInv

\* Only Judge calls apply_and_push.
LEMMA CallsAreJudged ==
    ASSUME IInv, [Next]_vars, NEW j \in Job, loop[j] = "idle", loop'[j] # "idle"
    PROVE  Judge(j)
<1>a. loop \in [Job -> Loop]
  BY DEF IInv, TypeOK, PushTypeOK
<1>1. ~UNCHANGED Own(j)
  BY DEF Own
<1>2. ~ \/ Dispatch(j) \/ Scout(j) \/ ScoutRefuses(j) \/ Setup(j) \/ Variant(j)
        \/ VariantFails(j) \/ Addons(j) \/ Compile(j) \/ CompileFails(j) \/ Post(j)
        \/ Breaks(j) \/ Passed(j) \/ Finish(j)
  BY DEF Dispatch, Scout, ScoutRefuses, Setup, Variant, VariantFails, Addons,
         Compile, CompileFails, Post, Breaks, Passed, Finish, Passes, pushVars
<1>3. ~(Push(j) \/ Settle(j) \/ Abandon(j))
  BY DEF Push, Attempt, Fetch, FetchFails, PushAccepted, PushRejected, PushReplyLost,
         Settle, Abandon, Return
<1>4. ~Kill(j)
  BY <1>a DEF Kill, Die, Hangup
<1> QED
  BY <1>1, <1>2, <1>3, <1>4, OneJobAtATime DEF JobStep, IInv

\* The patch of an engine is asked for until its call returns.
LEMMA PushKeepsTheAsk ==
    ASSUME NEW j \in Job, Push(j)
    PROVE  /\ ask' = ask /\ loop[j] \in {"fetch", "push"}
           /\ UNCHANGED <<head, gone, jobVars, issue, tested>>
  BY DEF Push, Attempt, Fetch, FetchFails, PushAccepted, PushRejected, PushReplyLost

LEMMA AsksInTurnNext == JInv /\ [Next]_vars => AsksInTurn'
<1> SUFFICES ASSUME JInv, [Next]_vars, NEW j \in Job, loop'[j] # "idle"
             PROVE  /\ at'[j] <= Len(KeysOf[j])
                    /\ \E p \in Verdict(j, KeysOf[j][at[j]])' : ask'[j] = {p}
  BY DEF AsksInTurn
<1>a. /\ IInv /\ loop \in [Job -> Loop] /\ ask \in [Job -> SUBSET Patch] /\ mode' = mode
      /\ phase \in [Job -> Phase]
  BY HistoryGrows DEF JInv, IInv, TypeOK, PushTypeOK
<1>1. CASE loop[j] = "idle"
  <2>1. Judge(j)
    BY <1>a, <1>1, CallsAreJudged
  <2>2. PICK p \in Verdict(j, KeysOf[j][at[j]]) : Call(j, p)
    BY <2>1 DEF Judge
  <2>3. ask'[j] = {p} /\ at[j] <= Len(KeysOf[j]) /\ UNCHANGED jobVars
    BY <1>a, <2>1, <2>2 DEF Judge, Judging, Call
  <2>4. Verdict(j, KeysOf[j][at[j]])' = Verdict(j, KeysOf[j][at[j]]) /\ at' = at
    BY <2>3 DEF Verdict, Unrelated, jobVars
  <2> QED
    BY <2>2, <2>3, <2>4
<1>2. CASE loop[j] # "idle"
  <2>a. /\ at[j] <= Len(KeysOf[j])
        /\ \E p \in Verdict(j, KeysOf[j][at[j]]) : ask[j] = {p}
    BY <1>2 DEF JInv, AsksInTurn
  <2>1. UNCHANGED Own(j) \/ Push(j)
    <3>1. ~(Settle(j) \/ Abandon(j) \/ Kill(j))
      BY <1>a DEF Settle, Abandon, Kill, Return, Die, Hangup
    <3> QED
      BY <1>a, <1>2, <3>1, InsideACall
  <2>2. UNCHANGED <<ask[j], at[j], pick[j], mode[j], died[j], marks[j]>>
    BY <2>1, PushKeepsTheAsk DEF Own, jobVars
  <2>3. Verdict(j, KeysOf[j][at[j]])' = Verdict(j, KeysOf[j][at[j]])
    BY <2>2 DEF Verdict, Unrelated
  <2> QED
    BY <2>a, <2>2, <2>3
<1> QED
  BY <1>1, <1>2

LEMMA JInvInit == Init => JInv
  BY IInvInit DEF Init, PushInit, JInv, AsksInTurn

LEMMA JInvNext == JInv /\ [Next]_vars => JInv'
  BY IInvNext, AsksInTurnNext DEF JInv

-----------------------------------------------------------------------------
(* Pins move forward *)

LEMMA StartEntries ==
    ASSUME Init, NEW k \in Key
    PROVE  main \in InitTrees /\ main.entry[k] \in Entry
  BY InitTreesAssumption DEF Init, PushInit, Tree

LEMMA PInvInit ==
    ASSUME PublishedStart, Init
    PROVE  PInv
<1>1. IInv
  BY IInvInit
<1>2. PinsPublished
  BY StartEntries DEF Init, PublishedStart, PinsPublished
<1>3. \A j \in Job, k \in Key : view[j][k].good = NoRef /\ ~pick[j][k].candidate
  BY DEF Init, NoView, Absent, NoPick, NoChoice
<1>4. ViewsPublished /\ CandidatesAreNews /\ IdlePicksNothing
  BY <1>3 DEF Init, ViewsPublished, CandidatesAreNews, CandidateIsNews, NoRef,
              IdlePicksNothing
<1>5. PinsOwned
  BY DEF Init, PinsOwned
<1> QED
  BY <1>1, <1>2, <1>4, <1>5 DEF PInv

\* Upstream publishes and takes nothing back.
LEMMA HeadGrows ==
    ASSUME TypeOK, [Next]_vars, NEW k \in Key
    PROVE  head[k] <= head'[k] /\ head[k] \in Ref
<1>a. head \in [Key -> Ref] /\ head[k] \in Ref /\ head[k] \in Int
  BY DEF TypeOK, Ref
<1>1. ASSUME NEW x \in Key, UpstreamMoves(x)
      PROVE  head[k] <= head'[k]
  BY <1>a, <1>1 DEF UpstreamMoves
<1>2. CASE UNCHANGED head
  BY <1>a, <1>2
<1>3. ASSUME ~ \E x \in Key : UpstreamMoves(x)
      PROVE  UNCHANGED head
  BY <1>3 DEF Next, JobStep, Dispatch, Scout, ScoutRefuses, Setup, Variant, VariantFails,
              Addons, Compile, CompileFails, Post, Breaks, Passed, Finish, Passes,
              Judge, Push, Settle, Abandon, Kill, Over, People, vars
<1> QED
  BY <1>a, <1>1, <1>2, <1>3

LEMMA ViewsPublishedNext == PInv /\ [Next]_vars => ViewsPublished'
<1> SUFFICES ASSUME PInv, [Next]_vars, NEW j \in Job, NEW k \in Key
             PROVE  view'[j][k].good <= head'[k]
  BY DEF ViewsPublished
<1>a. /\ IInv /\ TypeOK /\ view \in [Job -> [Key -> Entry]]
      /\ view[j][k].good \in Int /\ main.entry[k].good \in Int
      /\ head[k] \in Int /\ head'[k] \in Int /\ head[k] <= head'[k]
  <2>1. TypeOK /\ TypeOK'
    BY TypeNext DEF PInv, IInv
  <2>2. main.entry[k] \in Entry
    BY <2>1 DEF TypeOK, PushTypeOK, Tree
  <2> QED
    BY <2>1, <2>2, HeadGrows DEF PInv, TypeOK, Entry, Ref, NoRef
<1>1. CASE view'[j] = view[j]
  BY <1>a, <1>1 DEF PInv, ViewsPublished
<1>2. CASE Dispatch(j)
  <2>1. view'[j] = main.entry
    BY <1>a, <1>2 DEF Dispatch
  <2> QED
    BY <1>a, <2>1 DEF PInv, PinsPublished
<1>3. CASE phase'[j] \in {"idle", "over"} /\ ~Dispatch(j)
  <2>1. view'[j] = view[j] \/ view'[j] = NoView
    <3>1. CASE UNCHANGED Own(j)
      BY <3>1 DEF Own
    <3>2. CASE Breaks(j)
      BY <3>2 DEF Breaks
    <3>3. CASE JobStep(j) \/ Kill(j)
      BY <1>a, <3>3 DEF JobStep, Scout, ScoutRefuses, Setup, Variant, VariantFails, Addons,
                  Compile, CompileFails, Post, Passed, Judge, Push, Settle, Abandon,
                  Finish, Kill, Passes, Over, jobVars
    <3> QED
      BY <1>a, <1>3, <3>1, <3>2, <3>3, OneJobAtATime
  <2>2. NoView[k].good = 0 /\ 0 <= head'[k]
    BY <1>a, HeadGrows DEF NoView, Absent, NoRef, Ref
  <2> QED
    BY <1>1, <2>1, <2>2
<1> QED
  BY <1>a, <1>1, <1>2, <1>3, OnItsWay

\* What Scout makes of the component it is at.
LEMMA ScoutPicks ==
    ASSUME IInv, NEW j \in Job, Scout(j)
    PROVE  LET k == KeysOf[j][at[j]] IN
           /\ k \in Key /\ k \in KeySet(j) /\ at[j] \in 1 .. Len(KeysOf[j])
           /\ \A x \in Key : x # k => pick'[j][x] = pick[j][x]
           /\ UNCHANGED <<pushVars, head, view>>
           /\ \E latest \in {head[k], NoRef} :
                pick'[j][k] = Resolve(view[j][k], latest, PinOnly(j))
<1> DEFINE k == KeysOf[j][at[j]]
<1>1. k \in Key /\ k \in KeySet(j) /\ at[j] \in 1 .. Len(KeysOf[j])
  BY ComponentsAreKeys DEF Scout, IInv, StagesInOrder
<1>2. PICK latest \in Lookups(k) :
        pick' = [pick EXCEPT ![j][k] = Resolve(view[j][k], latest, PinOnly(j))]
  BY DEF Scout
<1>3. pick \in [Job -> [Key -> Choice]] /\ latest \in {head[k], NoRef}
  BY <1>2 DEF IInv, TypeOK, Lookups
<1>4. UNCHANGED <<pushVars, head, view>>
  BY DEF Scout
<1>5. /\ pick'[j][k] = Resolve(view[j][k], latest, PinOnly(j))
      /\ \A x \in Key : x # k => pick'[j][x] = pick[j][x]
  BY <1>1, <1>2, <1>3
<1> QED
  BY <1>1, <1>3, <1>4, <1>5

LEMMA CandidatesAreNewsNext == PInv /\ [Next]_vars => CandidatesAreNews'
<1> SUFFICES ASSUME PInv, [Next]_vars, NEW j \in Job, NEW k \in Key
             PROVE  CandidateIsNews(j, k)'
  BY DEF CandidatesAreNews
<1>a. /\ IInv /\ TypeOK /\ view[j][k] \in Entry /\ pick[j][k] \in Choice
      /\ head[k] \in Ref /\ head'[k] \in Ref /\ head[k] <= head'[k]
      /\ view[j][k].good <= head[k]
      /\ pick \in [Job -> [Key -> Choice]] /\ view \in [Job -> [Key -> Entry]]
  <2>1. TypeOK /\ TypeOK'
    BY TypeNext DEF PInv, IInv
  <2> QED
    BY <2>1, HeadGrows DEF PInv, TypeOK, ViewsPublished
<1>b. CandidateIsNews(j, k)
  BY DEF PInv, CandidatesAreNews
<1>1. CASE view'[j] = view[j] /\ pick'[j][k] = pick[j][k]
  BY <1>a, <1>b, <1>1 DEF CandidateIsNews, Entry, Choice, Ref, NoRef
<1>2. ASSUME ~pick'[j][k].candidate
      PROVE  CandidateIsNews(j, k)'
  BY <1>2 DEF CandidateIsNews
<1>3. CASE Dispatch(j)
  <2>1. phase[j] \in {"idle", "over"} /\ pick' = pick
    BY <1>3 DEF Dispatch
  <2> QED
    BY <1>2, <2>1 DEF PInv, IdlePicksNothing
<1>4. CASE Scout(j)
  <2>1. CASE k = KeysOf[j][at[j]]
    <3>1. PICK latest \in {head[k], NoRef} :
            pick'[j][k] = Resolve(view[j][k], latest, PinOnly(j))
      BY <1>a, <1>4, <2>1, ScoutPicks
    <3>2. view'[j] = view[j] /\ head' = head
      BY <1>a, <1>4, ScoutPicks
    <3>3. CASE IsCandidate(view[j][k], latest) /\ ~PinOnly(j)
      <4>1. /\ pick'[j][k] = [ref |-> latest, candidate |-> TRUE]
            /\ latest = head[k]
        BY <3>1, <3>3 DEF Resolve, IsCandidate
      <4>2. latest = view[j][k].good => latest \in view[j][k].bad
        BY <3>3 DEF IsCandidate
      <4> QED
        BY <1>a, <3>2, <4>1, <4>2 DEF CandidateIsNews, Ref
    <3>4. CASE ~(IsCandidate(view[j][k], latest) /\ ~PinOnly(j))
      BY <1>2, <3>1, <3>4 DEF Resolve
    <3> QED
      BY <3>3, <3>4
  <2>2. CASE k # KeysOf[j][at[j]]
    BY <1>a, <1>1, <1>4, <2>2, ScoutPicks
  <2> QED
    BY <2>1, <2>2
<1>5. CASE Abandon(j) \/ Finish(j) \/ Kill(j)
  <2>1. pick' = [pick EXCEPT ![j] = NoPick]
    BY <1>5 DEF Abandon, Finish, Kill, Over
  <2>2. ~pick'[j][k].candidate
    BY <1>a, <2>1 DEF NoPick, NoChoice
  <2> QED
    BY <1>2, <2>2
<1>6. CASE \/ ScoutRefuses(j) \/ Setup(j) \/ Variant(j) \/ VariantFails(j) \/ Addons(j)
           \/ Compile(j) \/ CompileFails(j) \/ Post(j) \/ Breaks(j) \/ Passed(j)
           \/ Judge(j) \/ Push(j) \/ Settle(j)
  <2>1. UNCHANGED <<view, pick>>
    BY <1>6 DEF ScoutRefuses, Setup, Variant, VariantFails, Addons, Compile,
                CompileFails, Post, Breaks, Passed, Judge, Push, Settle, Passes, jobVars
  <2> QED
    BY <1>1, <2>1
<1>7. CASE UNCHANGED Own(j)
  BY <1>1, <1>7 DEF Own
<1> QED
  BY <1>a, <1>3, <1>4, <1>5, <1>6, <1>7, OneJobAtATime DEF JobStep

LEMMA IdlePicksNothingNext == PInv /\ [Next]_vars => IdlePicksNothing'
<1> SUFFICES ASSUME PInv, [Next]_vars, NEW j \in Job, phase'[j] \in {"idle", "over"},
                    NEW k \in Key
             PROVE  ~pick'[j][k].candidate
  BY DEF IdlePicksNothing
<1>a. /\ IInv /\ TypeOK /\ phase \in [Job -> Phase] /\ pick \in [Job -> [Key -> Choice]]
      /\ at[j] \in Nat
  BY DEF PInv, IInv, TypeOK
<1>1. CASE UNCHANGED Own(j)
  BY <1>1 DEF Own, PInv, IdlePicksNothing
<1>2. CASE Abandon(j) \/ Finish(j) \/ Kill(j)
  <2>1. pick' = [pick EXCEPT ![j] = NoPick]
    BY <1>2 DEF Abandon, Finish, Kill, Over
  <2> QED
    BY <1>a, <2>1 DEF NoPick, NoChoice
<1>3. CASE \/ Scout(j) \/ Setup(j) \/ Variant(j) \/ Addons(j) \/ Compile(j)
           \/ Passed(j) \/ Judge(j) \/ Push(j) \/ Settle(j) \/ Dispatch(j)
  BY <1>a, <1>3 DEF Scout, Setup, Variant, Addons, Compile, Passed, Judge, Push, Settle,
                    Passes, Judging, jobVars, Dispatch
<1>4. CASE \/ ScoutRefuses(j) \/ VariantFails(j) \/ CompileFails(j) \/ Post(j) \/ Breaks(j)
  BY <1>a, <1>4 DEF ScoutRefuses, VariantFails, CompileFails, Post, Breaks, LeaveBuild
<1> QED
  BY <1>a, <1>1, <1>2, <1>3, <1>4, OneJobAtATime DEF JobStep

LEMMA PinsOwnedNext ==
    ASSUME OneJobPerKey, IInv, PinsOwned, [Next]_vars
    PROVE  PinsOwned'
<1> SUFFICES ASSUME NEW j \in Job, phase'[j] \notin {"idle", "over"}, NEW k \in KeySet(j)
             PROVE  PinIsOwn(j, k)'
  BY DEF PinsOwned, KeySet
<1>a. /\ IInv /\ TypeOK /\ mode' = mode /\ k \in Key /\ main.entry[k] \in Entry
      /\ view \in [Job -> [Key -> Entry]]
  BY HistoryGrows, ComponentsAreKeys DEF IInv, TypeOK, PushTypeOK, Tree
<1>1. CASE Dispatch(j)
  BY <1>a, <1>1 DEF Dispatch, PinIsOwn, pushVars
<1>2. CASE ~Dispatch(j)
  <2>1. /\ view'[j] = view[j] /\ phase[j] \notin {"idle", "over"}
        /\ phase[j] = "engine" =>
             phase'[j] = "engine" /\ UNCHANGED <<pick[j], died[j], marks[j]>>
    BY <1>a, <1>2, OnItsWay
  <2>2. PinIsOwn(j, k)
    BY <2>1 DEF PinsOwned
  <2>3. CASE EntryKept(k)
    BY <1>a, <2>1, <2>2, <2>3 DEF EntryKept, PinIsOwn
  <2>4. CASE EntryFlagged(k)
    <3>1. main'.entry[k].good = main.entry[k].good
      BY <1>a, <2>4 DEF EntryFlagged, Blacklist, Entry
    <3> QED
      BY <1>a, <2>1, <2>2, <3>1 DEF PinIsOwn
  <2>5. ASSUME NEW i \in Job, NEW p \in Patch, EntryPatched(k, i, p)
        PROVE  PinIsOwn(j, k)'
    <3>1. i = j /\ p \in Verdict(j, k) /\ phase[j] = "engine"
      BY <2>5 DEF OneJobPerKey, EntryPatched
    <3>2. /\ main'.entry[k].good \in {main.entry[k].good, p.ref}
          /\ main'.entry[k].good # main.entry[k].good => p.kind = "promote"
      BY <1>a, <2>5, PatchedPin DEF EntryPatched
    <3>3. CASE main'.entry[k].good = main.entry[k].good
      BY <1>a, <2>1, <2>2, <3>3 DEF PinIsOwn
    <3>4. CASE main'.entry[k].good # main.entry[k].good
      <4>1. /\ pick[j][k].candidate /\ mode[j] # "dry" /\ p.ref = pick[j][k].ref
            /\ died[j] = "none"
        BY <1>a, <3>1, <3>2, <3>4, VerdictSays
      <4> QED
        BY <1>a, <2>1, <3>1, <3>2, <3>4, <4>1 DEF PinIsOwn
    <3> QED
      BY <3>3, <3>4
  <2> QED
    BY <1>a, <2>3, <2>4, <2>5, EntryMoves
<1> QED
  BY <1>1, <1>2

\* A promotion moves the pin of its component to a published commit that is not older.
LEMMA PromotionsMoveForward ==
    ASSUME OneJobPerKey, PInv, [Next]_vars, NEW k \in Key
    PROVE  /\ main'.entry[k].good \in Int
           /\ main'.entry[k].good >= main.entry[k].good
           /\ main'.entry[k].good <= head'[k]
<1>a. /\ IInv /\ TypeOK /\ main.entry[k] \in Entry
      /\ main.entry[k].good \in Int /\ main.entry[k].good <= head[k]
      /\ head[k] \in Int /\ head'[k] \in Int /\ head[k] <= head'[k]
  <2>1. TypeOK /\ TypeOK'
    BY TypeNext DEF PInv, IInv
  <2>2. main.entry[k] \in Entry
    BY <2>1 DEF TypeOK, PushTypeOK, Tree
  <2> QED
    BY <2>1, <2>2, HeadGrows DEF PInv, TypeOK, Entry, Ref, NoRef, PinsPublished
<1>1. CASE main'.entry[k].good = main.entry[k].good
  BY <1>a, <1>1
<1>2. ASSUME NEW j \in Job, NEW p \in Patch, EntryPatched(k, j, p),
             main'.entry[k].good # main.entry[k].good
      PROVE  /\ main'.entry[k].good \in Int
             /\ main.entry[k].good <= main'.entry[k].good
             /\ main'.entry[k].good <= head[k]
  <2>1. main'.entry[k].good = p.ref /\ p.kind = "promote" /\ p \in Verdict(j, k)
    BY <1>a, <1>2, PatchedPin DEF EntryPatched
  <2>2. pick[j][k].candidate /\ p.ref = pick[j][k].ref
    BY <2>1, VerdictSays
  <2>3. /\ view[j][k].good <= pick[j][k].ref /\ pick[j][k].ref <= head[k]
    BY <2>2 DEF PInv, CandidatesAreNews, CandidateIsNews
  <2>4. PinIsOwn(j, k)
    BY <1>2 DEF EntryPatched, PInv, PinsOwned
  <2>5. p.ref \in Int
    BY DEF Patch, Ref
  <2> QED
    BY <2>1, <2>2, <2>3, <2>4, <2>5 DEF PinIsOwn
<1>3. CASE EntryKept(k) \/ EntryFlagged(k)
  BY <1>a, <1>1, <1>3 DEF EntryKept, EntryFlagged, Blacklist, Entry
<1> QED
  BY <1>a, <1>1, <1>2, <1>3, EntryMoves

LEMMA PInvNext ==
    ASSUME OneJobPerKey, PInv, [Next]_vars
    PROVE  PInv'
<1>1. IInv' /\ ViewsPublished' /\ IdlePicksNothing' /\ CandidatesAreNews' /\ PinsOwned'
  BY IInvNext, ViewsPublishedNext, IdlePicksNothingNext, CandidatesAreNewsNext,
     PinsOwnedNext DEF PInv
<1>2. PinsPublished'
  BY PromotionsMoveForward DEF PinsPublished
<1> QED
  BY <1>1, <1>2 DEF PInv

\* While the jobs share no component, a pin never moves back, whatever upstream
\* publishes meanwhile and however often engines fail, retry or are killed: a scout
\* only offers a commit that is not older than the pin (IsCandidate), and nobody else
\* moves that pin before the engine promotes it.
THEOREM PinsOnlyMoveForward ==
    ASSUME OneJobPerKey, PublishedStart
    PROVE  Spec => PinsNeverRegress
<1>1. ASSUME PInv, [Next]_vars
      PROVE  [\A k \in Key : main'.entry[k].good >= main.entry[k].good]_vars
  BY <1>1, PromotionsMoveForward
<1>2. Spec => []PInv
  <2>1. PInv /\ [Next]_vars => PInv'
    BY PInvNext
  <2> QED
    BY <2>1, PInvInit, PTL DEF Spec
<1> QED
  BY <1>1, <1>2, PTL DEF Spec, PinsNeverRegress

-----------------------------------------------------------------------------
(* No pin is on its own bad list *)

LEMMA BInvInit ==
    ASSUME PublishedStart, CleanStart, Init
    PROVE  BInv
<1>1. PInv
  BY PInvInit
<1>2. PinsNotBad
  BY StartEntries DEF CleanStart, PinsNotBad
<1>3. \A j \in Job, k \in Key : view[j][k].bad = {}
  BY DEF Init, NoView, Absent
<1>4. ViewsNotBad
  BY <1>3 DEF ViewsNotBad
<1> QED
  BY <1>1, <1>2, <1>4 DEF BInv

\* How the manifest a job reads may change.
LEMMA ViewMoves ==
    ASSUME IInv, [Next]_vars, NEW j \in Job
    PROVE  \/ view'[j] = view[j]
           \/ view'[j] = main.entry /\ Dispatch(j)
           \/ view'[j] = NoView /\ phase'[j] = "over"
<1>a. phase \in [Job -> Phase] /\ view \in [Job -> [Key -> Entry]]
  BY DEF IInv, TypeOK
<1>1. CASE UNCHANGED Own(j)
  BY <1>1 DEF Own
<1>2. CASE Dispatch(j)
  BY <1>a, <1>2 DEF Dispatch
<1>3. CASE Abandon(j) \/ Finish(j) \/ Kill(j)
  BY <1>a, <1>3 DEF Abandon, Finish, Kill, Over
<1>4. CASE \/ Scout(j) \/ ScoutRefuses(j) \/ Setup(j) \/ Variant(j) \/ VariantFails(j)
           \/ Addons(j) \/ Compile(j) \/ CompileFails(j) \/ Post(j) \/ Breaks(j)
           \/ Passed(j) \/ Judge(j) \/ Push(j) \/ Settle(j)
  BY <1>4 DEF Scout, ScoutRefuses, Setup, Variant, VariantFails, Addons, Compile,
              CompileFails, Post, Breaks, Passed, Judge, Push, Settle, Passes, jobVars
<1> QED
  BY <1>1, <1>2, <1>3, <1>4, OneJobAtATime DEF JobStep, IInv

LEMMA BInvNext ==
    ASSUME OneJobPerKey, "flag" \notin Outside, BInv, [Next]_vars
    PROVE  BInv'
<1>a. IInv /\ TypeOK /\ PInv'
  BY PInvNext DEF BInv, PInv, IInv
<1>1. ASSUME NEW k \in Key
      PROVE  main'.entry[k].good \notin main'.entry[k].bad
  <2>a. main.entry[k] \in Entry /\ main.entry[k].good \notin main.entry[k].bad
    BY <1>a DEF TypeOK, PushTypeOK, Tree, BInv, PinsNotBad
  <2>1. ASSUME NEW j \in Job, NEW p \in Patch, EntryPatched(k, j, p)
        PROVE  main'.entry[k].good \notin main'.entry[k].bad
    <3>1. /\ main'.entry[k] = PatchEntry(main.entry[k], p)
          /\ PinIsOwn(j, k) /\ p \in Verdict(j, k)
      BY <2>1 DEF EntryPatched, BInv, PInv, PinsOwned
    <3>2. CASE p.kind = "promote"
      BY <2>a, <3>1, <3>2 DEF PatchEntry, Promote, Entry
    <3>3. CASE p.kind # "promote"
      <4>1. /\ pick[j][k].candidate /\ p.ref = pick[j][k].ref /\ died[j] # "none"
        BY <3>1, <3>3, VerdictSays
      <4>2. main.entry[k].good = view[j][k].good
        BY <3>1, <4>1 DEF PinIsOwn
      <4>3. p.ref # view[j][k].good
        BY <4>1 DEF BInv, PInv, CandidatesAreNews, CandidateIsNews, ViewsNotBad
      <4> QED
        BY <2>a, <3>1, <3>3, <4>2, <4>3 DEF PatchEntry, Blacklist, Entry
    <3> QED
      BY <3>2, <3>3
  <2>2. CASE EntryKept(k)
    BY <2>a, <2>2 DEF EntryKept
  <2> QED
    BY <1>a, <2>1, <2>2, EntryMoves DEF EntryFlagged
<1>2. ASSUME NEW j \in Job, NEW k \in Key
      PROVE  view'[j][k].good \notin view'[j][k].bad
  BY <1>a, ViewMoves DEF BInv, PinsNotBad, ViewsNotBad, NoView, Absent
<1> QED
  BY <1>a, <1>1, <1>2 DEF BInv, PinsNotBad, ViewsNotBad

\* While the jobs share no component and nobody flags a pin by hand, no pin comes to
\* stand on its own bad list: an engine blacklists a candidate that differs from the
\* pin, and a promotion takes the commit off the list (engine.sh).
THEOREM PinsAreNotBad ==
    ASSUME OneJobPerKey, "flag" \notin Outside, PublishedStart, CleanStart
    PROVE  Spec => []PinsNotBad
<1>1. BInv /\ [Next]_vars => BInv'
  BY BInvNext
<1>2. BInv => PinsNotBad
  BY DEF BInv
<1> QED
  BY <1>1, <1>2, BInvInit, PTL DEF Spec

-----------------------------------------------------------------------------
(* Issues have a cause *)

LEMMA CInvInit == Init => CInv
  BY JInvInit DEF Init, PushInit, CInv, BlacklistedFirst, IssuesAccounted

\* The answer to a push of one job: how its place in apply_and_push may change.
LEMMA AckedBy ==
    ASSUME IInv, [Next]_vars, NEW j \in Job, loop'[j] = "acked"
    PROVE  /\ phase'[j] = phase[j] /\ phase[j] = "engine" /\ ask'[j] = ask[j]
           /\ \/ loop[j] = "acked"
              \/ Fetch(j) /\ \E p \in Patch : ask[j] = {p} /\ PatchTree(main, p) = main
              \/ Takes(j)
<1>a. /\ loop \in [Job -> Loop] /\ loop' \in [Job -> Loop]
      /\ AskIsVerdict(j)
  BY TypeNext DEF IInv, TypeOK, PushTypeOK, AsksAreVerdicts
<1>1. CASE UNCHANGED Own(j)
  BY <1>a, <1>1 DEF Own, AskIsVerdict
<1>2. CASE Push(j)
  <2>1. ask' = ask /\ phase' = phase /\ phase[j] = "engine"
    BY <1>2 DEF Push, jobVars, Attempt, Fetch, FetchFails, PushAccepted, PushRejected,
                PushReplyLost
  <2>2. CASE Fetch(j)
    <3>1. PICK p \in Patch : ask[j] = {p}
      BY <2>2 DEF IInv, PushInv, CallersHaveAsked, Fetch
    <3>2. PatchTree(main, p) = main
      BY <1>a, <2>2, <3>1 DEF Fetch
    <3> QED
      BY <2>1, <2>2, <3>1, <3>2
  <2>3. CASE FetchFails(j) \/ PushRejected(j)
    BY <1>a, <2>3 DEF FetchFails, PushRejected, Again
  <2>4. CASE PushAccepted(j) \/ PushReplyLost(j)
    BY <1>2, <2>1, <2>4 DEF PushAccepted, PushReplyLost, Again, Takes
  <2> QED
    BY <1>2, <2>2, <2>3, <2>4 DEF Push, Attempt
<1>3. CASE Judge(j) \/ Settle(j) \/ Abandon(j) \/ Kill(j)
  BY <1>a, <1>3 DEF Judge, Call, Settle, Abandon, Kill, Return, Die, Hangup
<1>4. CASE \/ Dispatch(j) \/ Scout(j) \/ ScoutRefuses(j) \/ Setup(j) \/ Variant(j)
           \/ VariantFails(j) \/ Addons(j) \/ Compile(j) \/ CompileFails(j) \/ Post(j)
           \/ Breaks(j) \/ Passed(j) \/ Finish(j)
  <2>1. UNCHANGED <<loop, ask>>
    BY <1>4 DEF Dispatch, Scout, ScoutRefuses, Setup, Variant, VariantFails, Addons,
                Compile, CompileFails, Post, Breaks, Passed, Finish, Passes, pushVars
  <2>2. phase[j] # "engine" \/ loop[j] = "idle"
    BY <1>4 DEF Dispatch, Scout, ScoutRefuses, Setup, Variant, VariantFails, Addons,
                Compile, CompileFails, Post, Breaks, Passed, Finish, Passes, Judging, Stage
  <2> QED
    BY <1>a, <2>1, <2>2 DEF AskIsVerdict
<1> QED
  BY <1>1, <1>2, <1>3, <1>4, OneJobAtATime DEF JobStep, IInv

LEMMA BlacklistedFirstNext ==
    ASSUME OneJobPerKey, CInv, [Next]_vars
    PROVE  BlacklistedFirst'
<1> SUFFICES ASSUME NEW j \in Job, loop'[j] = "acked", NEW p \in ask'[j],
                    p.kind = "blacklist"
             PROVE  p.ref \in main'.entry[p.key].bad
  BY DEF BlacklistedFirst
<1>a. /\ IInv /\ ask'[j] = ask[j] /\ p \in Patch /\ p.key \in Key /\ p.key \in KeySet(j)
      /\ main \in Tree /\ main.entry \in [Key -> Entry] /\ main.entry[p.key] \in Entry
  <2>1. IInv /\ ask'[j] = ask[j]
    BY AckedBy DEF CInv, JInv
  <2>2. p.key \in KeySet(j)
    BY <2>1 DEF IInv, AsksAreVerdicts, AskIsVerdict
  <2>3. ask \in [Job -> SUBSET Patch] /\ main \in Tree
    BY <2>1 DEF IInv, TypeOK, PushTypeOK
  <2> QED
    BY <2>1, <2>2, <2>3, ComponentsAreKeys DEF Tree
<1>b. p.ref \in PatchEntry(main.entry[p.key], p).bad
  BY <1>a DEF PatchEntry, Blacklist, Entry
<1>1. CASE loop[j] = "acked"
  <2>1. p.ref \in main.entry[p.key].bad
    BY <1>a, <1>1 DEF CInv, BlacklistedFirst
  <2>2. CASE EntryKept(p.key)
    BY <2>1, <2>2 DEF EntryKept
  <2>3. CASE EntryFlagged(p.key)
    BY <1>a, <2>1, <2>3 DEF EntryFlagged, Blacklist, Entry
  <2>4. ASSUME NEW i \in Job, NEW q \in Patch, EntryPatched(p.key, i, q)
        PROVE  FALSE
    BY <1>a, <1>1, <2>4 DEF EntryPatched, OneJobPerKey, Takes
  <2> QED
    BY <1>a, <2>2, <2>3, <2>4, EntryMoves
<1>2. CASE Fetch(j) /\ \E q \in Patch : ask[j] = {q} /\ PatchTree(main, q) = main
  <2>1. PatchTree(main, p) = main /\ main' = main
    <3>1. PICK q \in Patch : ask[j] = {q} /\ PatchTree(main, q) = main
      BY <1>2
    <3>2. q = p
      BY <1>a, <3>1
    <3> QED
      BY <1>2, <3>1, <3>2 DEF Fetch
  <2>2. main.entry[p.key] = PatchEntry(main.entry[p.key], p)
    <3>1. PatchTree(main, p).entry = [main.entry EXCEPT ![p.key] = PatchEntry(@, p)]
      BY <1>a, PatchTreeType
    <3>2. PatchTree(main, p).entry[p.key] = PatchEntry(main.entry[p.key], p)
      BY <1>a, <3>1
    <3> QED
      BY <2>1, <3>2
  <2> QED
    BY <1>b, <2>1, <2>2
<1>3. CASE Takes(j)
  <2>1. main'.entry = [main.entry EXCEPT ![p.key] = PatchEntry(@, p)]
    <3>1. PICK q \in Patch :
            /\ ask[j] = {q}
            /\ main'.entry = [main.entry EXCEPT ![q.key] = PatchEntry(@, q)]
      BY <1>a, <1>3, TakenPatch
    <3>2. q = p
      BY <1>a, <3>1
    <3> QED
      BY <3>1, <3>2
  <2> QED
    BY <1>a, <1>b, <2>1
<1> QED
  BY <1>a, <1>1, <1>2, <1>3, AckedBy

LEMMA IssuesAccountedNext ==
    ASSUME OneJobPerKey, Faults \cap {"issue", "kill", "reply"} = {}, CInv, [Next]_vars
    PROVE  IssuesAccounted'
<1> SUFFICES ASSUME NEW k \in issue', main'.entry[k].bad = {}
             PROVE  Closing(k)'
  BY DEF IssuesAccounted
<1>a. /\ IInv /\ k \in Key /\ main.entry[k] \in Entry /\ loop \in [Job -> Loop]
      /\ TypeOK
  <2>1. IInv /\ TypeOK /\ TypeOK'
    BY TypeNext DEF CInv, JInv, IInv
  <2> QED
    BY <2>1 DEF TypeOK, PushTypeOK, Tree
<1>b. \A j \in Job : loop[j] = "acked" => \E p \in Patch : ask[j] = {p} /\ p.key \in KeySet(j)
  <2> SUFFICES ASSUME NEW j \in Job, loop[j] = "acked"
               PROVE  \E p \in Patch : ask[j] = {p} /\ p.key \in KeySet(j)
    OBVIOUS
  <2>1. PICK p \in Verdict(j, KeysOf[j][at[j]]) : ask[j] = {p}
    BY DEF CInv, JInv, AsksInTurn
  <2> QED
    BY <1>a, <2>1 DEF IInv, AsksAreVerdicts, AskIsVerdict, TypeOK, PushTypeOK
\* The list is emptied by a promotion, whose job goes on to close the issue.
<1>1. ASSUME NEW j \in Job, NEW p \in Patch, EntryPatched(k, j, p)
      PROVE  Closing(k)'
  <2>1. p.kind = "promote"
    BY <1>a, <1>1 DEF EntryPatched, PatchEntry, Blacklist, Entry, Patch
  <2>2. loop'[j] = "acked"
    BY <1>a, <1>1 DEF EntryPatched, Takes
  <2>3. phase'[j] = "engine" /\ p \in ask'[j] /\ p.key = k
    BY <1>1 DEF EntryPatched, jobVars
  <2> QED
    BY <2>1, <2>2, <2>3 DEF Closing
<1>2. CASE ~EntryFlagged(k) /\ EntryKept(k)
  <2>1. main.entry[k].bad = {}
    BY <1>2 DEF EntryKept
  <2>2. k \in issue
    <3>1. ASSUME NEW j \in Job, Settle(j), k \notin issue
          PROVE  FALSE
      <4>1. PICK p \in ask[j] : issue' = IssuesAfter(p)
        BY <3>1 DEF Settle
      <4>2. p.kind # "promote" /\ p.key = k
        BY <3>1, <4>1 DEF IssuesAfter
      <4>3. p.kind = "blacklist" /\ loop[j] = "acked"
        BY <1>a, <3>1, <4>2 DEF Settle, TypeOK, PushTypeOK, Patch
      <4> QED
        BY <2>1, <4>2, <4>3 DEF CInv, BlacklistedFirst
    <3>2. CASE ~ \E j \in Job : Settle(j)
      BY <3>2 DEF Next, JobStep, Dispatch, Scout, ScoutRefuses, Setup, Variant,
                  VariantFails, Addons, Compile, CompileFails, Post, Breaks, Passed,
                  Finish, Passes, Judge, Push, Abandon, Kill, Over, People,
                  UpstreamMoves, vars
    <3> QED
      BY <3>1, <3>2
  <2>3. PICK j \in Job : /\ phase[j] = "engine" /\ loop[j] = "acked"
                         /\ \E p \in ask[j] : p.kind = "promote" /\ p.key = k
    BY <2>1, <2>2 DEF CInv, IssuesAccounted, Closing
  <2>4. PICK p \in Patch : ask[j] = {p} /\ p.kind = "promote" /\ p.key = k
    BY <1>b, <2>3
  <2>5. CASE Settle(j)
    <3>1. issue' = issue \ {k}
      BY <2>4, <2>5 DEF Settle, IssuesAfter
    <3> QED
      BY <3>1
  <2>6. CASE UNCHANGED Own(j)
    BY <2>3, <2>6 DEF Own, Closing
  <2>7. ~(Push(j) \/ Abandon(j) \/ Kill(j))
    BY <2>3, PushKeepsTheAsk DEF Abandon, Kill, Die
  <2> QED
    BY <1>a, <2>3, <2>5, <2>6, <2>7, InsideACall
<1>3. ~EntryFlagged(k)
  BY <1>a DEF EntryFlagged, Blacklist, Entry
<1> QED
  BY <1>a, <1>1, <1>2, <1>3, EntryMoves

LEMMA CInvNext ==
    ASSUME OneJobPerKey, Faults \cap {"issue", "kill", "reply"} = {}, CInv, [Next]_vars
    PROVE  CInv'
  BY JInvNext, BlacklistedFirstNext, IssuesAccountedNext DEF CInv

\* While the jobs share no component, every open issue belongs to a component with a
\* known-bad commit once the engines are done, unless the call that closes it fails, the
\* engine is killed before it, or the answer to a push that was taken is lost: an issue
\* is filed after the commit is on the list, and whoever takes the last commit off the
\* list closes it (engine.sh: close_issue_if_open).
THEOREM IssuesAreAccountedFor ==
    ASSUME OneJobPerKey, Faults \cap {"issue", "kill", "reply"} = {}
    PROVE  Spec => []IssuesHaveACause
<1>1. CInv /\ [Next]_vars => CInv'
  BY CInvNext
<1>2. CInv => IssuesHaveACause
  BY DEF CInv, IssuesAccounted, Closing, IssuesHaveACause
<1> QED
  BY <1>1, <1>2, CInvInit, PTL DEF Spec

-----------------------------------------------------------------------------
(* What is pinned together was built together *)

LEMMA NothingGoneNext ==
    ASSUME "rebase" \notin Faults, NothingGone, [Next]_vars
    PROVE  NothingGone'
<1>1. CASE \E k \in Key : UpstreamMoves(k)
  BY <1>1 DEF UpstreamMoves, NothingGone
<1>2. CASE ~ \E k \in Key : UpstreamMoves(k)
  <2>1. UNCHANGED gone
    BY <1>2 DEF Next, JobStep, Dispatch, Scout, ScoutRefuses, Setup, Variant,
                VariantFails, Addons, Compile, CompileFails, Post, Breaks, Passed,
                Finish, Passes, Judge, Push, Settle, Abandon, Kill, Over, People, vars
  <2> QED
    BY <2>1 DEF NothingGone
<1> QED
  BY <1>1, <1>2

LEMMA PinsListedNext ==
    ASSUME IInv, PinsListed, [Next]_vars
    PROVE  PinsListed'
<1> SUFFICES ASSUME NEW k \in Key, main'.entry[k].good # NoRef
             PROVE  main'.entry[k].listed
  BY DEF PinsListed
<1>a. main.entry[k] \in Entry /\ (main.entry[k].good # NoRef => main.entry[k].listed)
  BY DEF PinsListed, IInv, TypeOK, PushTypeOK, Tree
<1>1. CASE EntryKept(k)
  BY <1>a, <1>1 DEF EntryKept
<1>2. CASE EntryFlagged(k)
  BY <1>a, <1>2 DEF EntryFlagged, Blacklist, Entry
<1>3. ASSUME NEW j \in Job, NEW p \in Patch, EntryPatched(k, j, p)
      PROVE  main'.entry[k].listed
  BY <1>a, <1>3 DEF EntryPatched, PatchEntry, Promote, Blacklist, Entry
<1> QED
  BY <1>1, <1>2, <1>3, EntryMoves

\* No step but Variant puts anything else into the tree of a job on its way.
LEMMA TreeKept ==
    ASSUME IInv, [Next]_vars, NEW j \in Job,
           phase'[j] \in {"addons", "compile", "post"}
    PROVE  /\ pick'[j] = pick[j]
           /\ \/ Variant(j)
              \/ phase[j] \in {"addons", "compile"} /\ built'[j] = built[j]
              \/ phase'[j] = phase[j] /\ built'[j] = built[j]
<1>a. phase \in [Job -> Phase]
  BY DEF IInv, TypeOK
<1>1. CASE UNCHANGED Own(j)
  BY <1>1 DEF Own
<1>2. CASE Variant(j) \/ Setup(j) \/ Addons(j) \/ Compile(j)
  BY <1>a, <1>2 DEF Variant, Setup, Addons, Compile, Passes
<1>3. CASE \/ Dispatch(j) \/ Scout(j) \/ ScoutRefuses(j) \/ VariantFails(j)
           \/ CompileFails(j) \/ Post(j) \/ Breaks(j) \/ Abandon(j) \/ Finish(j)
           \/ Kill(j)
  <2>1. PICK f \in Phase \ {"addons", "compile", "post"} :
          phase' = [phase EXCEPT ![j] = f] \/ (phase' = phase /\ phase[j] = f)
    BY <1>3 DEF Dispatch, Scout, ScoutRefuses, VariantFails, CompileFails, Post, Breaks,
                Abandon, Finish, Kill, LeaveBuild, Over, Phase
  <2> QED
    BY <1>a, <2>1
<1>4. CASE Passed(j) \/ Judge(j) \/ Push(j) \/ Settle(j)
  BY <1>4 DEF Passed, Judge, Push, Settle, Judging, jobVars
<1> QED
  BY <1>1, <1>2, <1>3, <1>4, OneJobAtATime DEF JobStep, IInv

LEMMA BuiltAsPickedNext ==
    ASSUME IInv, NothingGone, BuiltAsPicked, [Next]_vars
    PROVE  BuiltAsPicked'
<1> SUFFICES ASSUME NEW j \in Job, phase'[j] \in {"addons", "compile", "post"},
                    NEW k \in KeySet(j), pick'[j][k].ref # NoRef
             PROVE  <<k, pick'[j][k].ref>> \in built'[j]
  BY DEF BuiltAsPicked, Picked, KeySet
<1>1. pick'[j] = pick[j]
  BY TreeKept
<1>2. CASE Variant(j)
  <2>a. /\ k \in Key /\ pick[j][k].ref \in Ref \cup {NoRef}
        /\ built \in [Job -> Combo] /\ gone[k] = NoRef
    BY ComponentsAreKeys DEF IInv, TypeOK, Choice, NothingGone
  <2>1. PICK c \in [KeySet(j) -> Ref] :
          /\ \A x \in KeySet(j) : c[x] \in Checkouts(x, pick[j][x].ref)
          /\ built' = [built EXCEPT ![j] = {<<x, c[x]>> : x \in KeySet(j)}]
    BY <1>2 DEF Variant
  <2>2. c[k] = pick[j][k].ref
    BY <1>1, <2>a, <2>1 DEF Checkouts, Ref, NoRef
  <2>3. built'[j] = {<<x, c[x]>> : x \in KeySet(j)}
    BY <2>a, <2>1
  <2> QED
    BY <1>1, <2>2, <2>3
<1>3. CASE phase[j] \in {"addons", "compile", "post"} /\ built'[j] = built[j]
  <2>1. Picked(j) \subseteq built[j]
    BY <1>3 DEF BuiltAsPicked
  <2> QED
    BY <1>1, <1>3, <2>1 DEF Picked
<1> QED
  BY <1>2, <1>3, TreeKept

\* A job comes to the engine after a success by Post alone.
LEMMA SuccessIsPost ==
    ASSUME IInv, [Next]_vars, NEW j \in Job, phase'[j] = "engine", died'[j] = "none"
    PROVE  \/ Post(j)
           \/ phase[j] = "engine" /\ died[j] = "none" /\ pick'[j] = pick[j]
<1>a. phase \in [Job -> Phase] /\ died \in [Job -> Stage \cup {"none"}]
  BY DEF IInv, TypeOK
<1>1. CASE UNCHANGED Own(j)
  BY <1>1 DEF Own
<1>2. CASE Passed(j) \/ Judge(j) \/ Push(j) \/ Settle(j)
  BY <1>2 DEF Passed, Judge, Push, Settle, Judging, jobVars
<1>3. CASE ScoutRefuses(j) \/ VariantFails(j) \/ CompileFails(j) \/ Breaks(j)
  <2>1. PICK s \in Stage : LeaveBuild(j, s)
    BY <1>3 DEF ScoutRefuses, VariantFails, CompileFails, Breaks, Stage
  <2> QED
    BY <1>a, <2>1 DEF LeaveBuild, Stage
<1>4. CASE \/ Dispatch(j) \/ Scout(j) \/ Setup(j) \/ Variant(j) \/ Addons(j)
           \/ Compile(j) \/ Abandon(j) \/ Finish(j) \/ Kill(j)
  <2>1. PICK f \in Phase \ {"engine"} :
          phase' = [phase EXCEPT ![j] = f] \/ (phase' = phase /\ phase[j] = f)
    BY <1>4 DEF Dispatch, Scout, Setup, Variant, Addons, Compile, Abandon, Finish,
                Kill, Passes, Over, Phase
  <2> QED
    BY <1>a, <2>1
<1> QED
  BY <1>1, <1>2, <1>3, <1>4, OneJobAtATime DEF JobStep, IInv

LEMMA ChoiceTestedNext ==
    ASSUME IInv, BuiltAsPicked, ChoiceTested, [Next]_vars
    PROVE  ChoiceTested'
<1> SUFFICES ASSUME NEW j \in Job, phase'[j] = "engine", died'[j] = "none",
                    mode'[j] # "dry"
             PROVE  \E t \in tested' : Picked(j)' \subseteq t.built
  BY DEF ChoiceTested
<1>a. mode' = mode /\ tested \subseteq tested'
  BY HistoryGrows
<1>1. CASE Post(j)
  <2>1. /\ [pick |-> Picked(j), built |-> built[j]] \in tested'
        /\ pick' = pick /\ phase[j] = "post"
    BY <1>a, <1>1 DEF Post
  <2>2. Picked(j)' = Picked(j) /\ Picked(j) \subseteq built[j]
    BY <2>1 DEF Picked, KeySet, BuiltAsPicked
  <2> QED
    BY <2>1, <2>2
<1>2. CASE phase[j] = "engine" /\ died[j] = "none" /\ pick'[j] = pick[j]
  <2>1. \E t \in tested : Picked(j) \subseteq t.built
    BY <1>a, <1>2 DEF ChoiceTested
  <2>2. Picked(j)' = Picked(j)
    BY <1>2 DEF Picked, KeySet
  <2> QED
    BY <1>a, <2>1, <2>2
<1> QED
  BY <1>1, <1>2, SuccessIsPost

\* Scout loses nothing that it has chosen.
LEMMA ScoutedKept ==
    ASSUME IInv, [Next]_vars, NEW j \in Job, phase'[j] \notin {"idle", "over"},
           ~Dispatch(j), ~Scout(j)
    PROVE  Scouted(j)' \subseteq Scouted(j)
<1>a. /\ phase[j] \notin {"idle", "over"} /\ Scouted(j)' \subseteq KeySet(j)
      /\ phase[j] = "engine" => phase'[j] = "engine" /\ died'[j] = died[j]
      /\ phase \in [Job -> Phase] /\ died \in [Job -> Stage \cup {"none"}]
  <2>1. StagesInOrder' /\ at'[j] \in Nat
    BY StagesNext, TypeNext DEF TypeOK
  <2>2. phase'[j] = "scout" => at'[j] \in 1 .. Len(KeysOf[j])
    BY <2>1 DEF StagesInOrder
  <2>3. Scouted(j)' \subseteq KeySet(j)
    BY <2>1, <2>2, ComponentsAreKeys DEF Scouted, KeySet
  <2> QED
    BY <2>3, OnItsWay DEF IInv, TypeOK
<1>1. CASE phase[j] = "engine"
  BY <1>a, <1>1 DEF Scouted, KeySet
<1>2. CASE phase[j] \notin {"scout", "engine"}
  BY <1>a, <1>2 DEF Scouted
<1>3. CASE phase[j] = "scout"
  <2>1. CASE UNCHANGED Own(j)
    BY <1>3, <2>1 DEF Own, Scouted
  <2>2. CASE ScoutRefuses(j) \/ Breaks(j)
    <3>1. phase'[j] = "engine" /\ died'[j] = "scout"
      BY <1>a, <1>3, <2>2 DEF ScoutRefuses, Breaks, LeaveBuild
    <3> QED
      BY <3>1 DEF Scouted
  <2>3. ~ \/ Setup(j) \/ Variant(j) \/ VariantFails(j) \/ Addons(j) \/ Compile(j)
          \/ CompileFails(j) \/ Post(j) \/ Passed(j) \/ Judge(j) \/ Push(j)
          \/ Settle(j) \/ Abandon(j) \/ Finish(j)
    BY <1>3 DEF Setup, Variant, VariantFails, Addons, Compile, CompileFails, Post,
                Passed, Judge, Push, Settle, Abandon, Finish, Passes, Judging
  <2>4. ~Kill(j)
    BY <1>a DEF Kill, Over
  <2> QED
    BY <2>1, <2>2, <2>3, <2>4, OneJobAtATime DEF JobStep, IInv
<1> QED
  BY <1>1, <1>2, <1>3

LEMMA OthersFromPinsNext ==
    ASSUME IInv, OthersFromPins, [Next]_vars
    PROVE  OthersFromPins'
<1> SUFFICES ASSUME NEW j \in Job, phase'[j] \notin {"idle", "over"},
                    NEW k \in Scouted(j)', ~pick'[j][k].candidate
             PROVE  pick'[j][k].ref = view'[j][k].good
  BY DEF OthersFromPins
<1>a. phase \in [Job -> Phase] /\ at[j] \in Nat /\ phase' \in [Job -> Phase]
  BY TypeNext DEF IInv, TypeOK
<1>1. CASE Dispatch(j)
  <2>1. at'[j] = 1 /\ phase'[j] = "scout"
    BY <1>a, <1>1 DEF Dispatch, IInv, StagesInOrder
  <2> QED
    BY <2>1 DEF Scouted
<1>2. CASE Scout(j)
  <2> DEFINE x == KeysOf[j][at[j]]
  <2>1. /\ x \in Key /\ at[j] \in 1 .. Len(KeysOf[j]) /\ view' = view
        /\ \A y \in Key : y # x => pick'[j][y] = pick[j][y]
        /\ phase[j] = "scout"
    BY <1>2, ScoutPicks DEF IInv, Scout
  <2>2. k \in KeySet(j) /\ (k = x \/ k \in Scouted(j))
    <3>1. CASE at[j] < Len(KeysOf[j])
      <4>1. at'[j] = at[j] + 1 /\ phase'[j] = "scout"
        <5>1. at' = [at EXCEPT ![j] = @ + 1] /\ phase' = phase
          BY <1>2, <3>1 DEF Scout
        <5> QED
          BY <2>1, <5>1 DEF IInv, TypeOK
      <4>2. PICK i \in 1 .. at[j] : k = KeysOf[j][i]
        BY <1>a, <4>1 DEF Scouted
      <4> QED
        BY <1>a, <2>1, <4>2, ComponentsAreKeys DEF Scouted
    <3>2. CASE ~(at[j] < Len(KeysOf[j]))
      <4>1. phase'[j] = "setup" /\ at[j] = Len(KeysOf[j])
        BY <1>a, <1>2, <2>1, <3>2, ComponentsAreKeys DEF Scout
      <4>2. k \in KeySet(j)
        BY <4>1 DEF Scouted, KeySet
      <4>3. PICK i \in 1 .. Len(KeysOf[j]) : k = KeysOf[j][i]
        BY <4>2, ComponentsAreKeys
      <4> QED
        BY <1>a, <2>1, <4>1, <4>2, <4>3 DEF Scouted
    <3> QED
      BY <3>1, <3>2
  <2>3. CASE k = x
    <3>1. PICK latest : pick'[j][x] = Resolve(view[j][x], latest, PinOnly(j))
      BY <1>2, ScoutPicks DEF IInv
    <3> QED
      BY <2>1, <2>3, <3>1 DEF Resolve
  <2>4. CASE k # x
    BY <2>1, <2>2, <2>4, ComponentsAreKeys DEF OthersFromPins
  <2> QED
    BY <2>3, <2>4
<1>3. CASE ~Dispatch(j) /\ ~Scout(j)
  <2>1. k \in Scouted(j)
    BY <1>3, ScoutedKept
  <2>2. view'[j] = view[j] /\ pick'[j] = pick[j] /\ phase[j] \notin {"idle", "over"}
    BY <1>3, OnItsWay
  <2> QED
    BY <2>1, <2>2 DEF OthersFromPins
<1> QED
  BY <1>1, <1>2, <1>3

\* Only the job itself moves a pin of its own, and only after a success.
LEMMA PinsMovedByOwner ==
    ASSUME OneJobPerKey, IInv, [Next]_vars, NEW j \in Job, NEW k \in KeySet(j),
           main'.entry[k].good # main.entry[k].good
    PROVE  /\ Takes(j) /\ phase[j] = "engine" /\ died[j] = "none" /\ mode[j] # "dry"
           /\ pick[j][k].candidate /\ main'.entry[k].good = pick[j][k].ref
           /\ UNCHANGED <<gone, jobVars, tested>>
<1>a. k \in Key /\ main.entry[k] \in Entry
  BY ComponentsAreKeys DEF IInv, TypeOK, PushTypeOK, Tree
<1>1. ~EntryKept(k) /\ ~EntryFlagged(k)
  BY <1>a DEF EntryKept, EntryFlagged, Blacklist, Entry
<1>2. PICK i \in Job, p \in Patch : EntryPatched(k, i, p)
  BY <1>a, <1>1, EntryMoves
<1>3. i = j
  BY <1>2 DEF OneJobPerKey, EntryPatched
<1>4. p.kind = "promote" /\ main'.entry[k].good = p.ref
  BY <1>a, <1>2, PatchedPin DEF EntryPatched
<1> QED
  BY <1>a, <1>2, <1>3, <1>4, VerdictSays DEF EntryPatched

\* How an engine at work gets through with one more component.
LEMMA GettingThrough ==
    ASSUME JInv, [Next]_vars, NEW j \in Job, phase[j] = "engine", phase'[j] = "engine",
           NEW n \in 1 .. Len(KeysOf[j]), Through(j, n)', ~Through(j, n)
    PROVE  /\ n = at[j]
           /\ \/ Passed(j)
              \/ /\ Fetch(j)
                 /\ \E p \in Patch : ask[j] = {p} /\ PatchTree(main, p) = main
              \/ Takes(j)
<1>a. /\ IInv /\ loop \in [Job -> Loop] /\ at \in [Job -> Nat \ {0}] /\ n \in Nat
      /\ phase \in [Job -> Phase] /\ Len(KeysOf[j]) \in Nat
  BY ComponentsAreKeys DEF JInv, IInv, TypeOK, PushTypeOK
<1>1. ~UNCHANGED Own(j)
  BY DEF Own, Through
<1>2. ~(Abandon(j) \/ Finish(j) \/ Kill(j))
  BY <1>a DEF Abandon, Finish, Kill, Over
<1>3. CASE Passed(j)
  BY <1>a, <1>3 DEF Passed, Judging, Through, pushVars
<1>4. ~Settle(j)
  <2>1. ASSUME Settle(j)
        PROVE  at'[j] = at[j] + 1 /\ loop'[j] = "idle" /\ loop[j] = "acked"
    BY <1>a, <2>1 DEF Settle, Return, Hangup
  <2> QED
    BY <1>a, <2>1 DEF Through
<1>5. CASE Push(j)
  <2>1. at' = at /\ loop[j] # "acked"
    BY <1>5, PushKeepsTheAsk DEF jobVars
  <2>2. n = at[j] /\ loop'[j] = "acked"
    BY <2>1 DEF Through
  <2> QED
    BY <1>a, <2>1, <2>2, AckedBy
<1>6. ~Judge(j)
  <2>1. ASSUME Judge(j)
        PROVE  at' = at /\ loop'[j] = "fetch"
    BY <1>a, <2>1 DEF Judge, Call, jobVars
  <2> QED
    BY <2>1 DEF Through
<1>7. ~ \/ Dispatch(j) \/ Scout(j) \/ ScoutRefuses(j) \/ Setup(j) \/ Variant(j)
        \/ VariantFails(j) \/ Addons(j) \/ Compile(j) \/ CompileFails(j) \/ Post(j)
        \/ Breaks(j)
  BY DEF Dispatch, Scout, ScoutRefuses, Setup, Variant, VariantFails, Addons, Compile,
         CompileFails, Post, Breaks, Passes, Stage
<1> QED
  BY <1>a, <1>1, <1>2, <1>3, <1>4, <1>5, <1>6, <1>7, OneJobAtATime DEF JobStep, IInv

LEMMA PromotedInTurnNext ==
    ASSUME OneJobPerKey, JInv, PinsListed, PromotedInTurn, [Next]_vars
    PROVE  PromotedInTurn'
<1> SUFFICES ASSUME NEW j \in Job, phase'[j] = "engine", died'[j] = "none",
                    mode'[j] # "dry", NEW n \in 1 .. Len(KeysOf[j]), Through(j, n)',
                    pick'[j][KeysOf[j][n]].candidate
             PROVE  main'.entry[KeysOf[j][n]].good \in {pick'[j][KeysOf[j][n]].ref, NoRef}
  BY DEF PromotedInTurn
<1> DEFINE k == KeysOf[j][n]
<1>a. /\ IInv /\ mode' = mode /\ k \in KeySet(j) /\ k \in Key /\ main \in Tree
      /\ main.entry \in [Key -> Entry] /\ main.entry[k] \in Entry
      /\ loop \in [Job -> Loop]
  BY HistoryGrows, ComponentsAreKeys DEF JInv, IInv, TypeOK, PushTypeOK, Tree
<1>b. Len(KeysOf[j]) \in Nat /\ n \in Nat \ {0}
  BY ComponentsAreKeys
<1>1. CASE Post(j)
  <2>1. at'[j] = 1 /\ loop' = loop /\ loop[j] = "idle"
    BY <1>1, <1>a DEF Post, LeaveBuild, pushVars, IInv, TypeOK, AsksAreVerdicts,
                      AskIsVerdict
  <2> QED
    BY <1>b, <2>1 DEF Through
<1>2. CASE phase[j] = "engine" /\ died[j] = "none" /\ pick'[j] = pick[j]
  <2>1. CASE main'.entry[k].good # main.entry[k].good
    BY <1>a, <1>2, <2>1, PinsMovedByOwner
  <2>2. CASE main'.entry[k].good = main.entry[k].good /\ Through(j, n)
    BY <1>a, <1>2, <2>2 DEF PromotedInTurn
  <2>3. CASE main'.entry[k].good = main.entry[k].good /\ ~Through(j, n)
    <3>1. n = at[j]
      BY <1>2, <2>3, GettingThrough
    <3>2. Verdict(j, k) = {[kind |-> "promote", key |-> k, ref |-> pick[j][k].ref]}
      BY <1>a, <1>2 DEF Verdict
    <3>3. ~Passed(j)
      BY <3>1, <3>2 DEF Passed
    <3> DEFINE p == [kind |-> "promote", key |-> k, ref |-> pick[j][k].ref]
    <3>4. ASSUME loop[j] # "idle"
          PROVE  ask[j] = {p}
      BY <3>1, <3>2, <3>4 DEF JInv, AsksInTurn
    <3>5. p \in Patch
      BY <1>a, <3>2, VerdictType DEF IInv
    <3>6. \/ PatchEntry(main.entry[k], p).good = p.ref
          \/ PatchEntry(main.entry[k], p) = main.entry[k] /\ main.entry[k].good = NoRef
      BY <1>a DEF PatchEntry, Promote, Entry, PinsListed
    <3>7. PatchTree(main, p).entry[k] = PatchEntry(main.entry[k], p)
      BY <1>a, <3>5, PatchTreeType
    <3>8. CASE Fetch(j) /\ \E q \in Patch : ask[j] = {q} /\ PatchTree(main, q) = main
      <4>1. ask[j] = {p}
        BY <3>4, <3>8 DEF Fetch
      <4>2. PatchTree(main, p) = main
        BY <3>8, <4>1
      <4> QED
        BY <1>2, <2>3, <3>6, <3>7, <4>2
    <3>9. CASE Takes(j)
      <4>1. ask[j] = {p}
        BY <3>4, <3>9 DEF Takes
      <4>2. main'.entry[k] = PatchEntry(main.entry[k], p)
        <5>1. PICK q \in Patch :
                /\ ask[j] = {q}
                /\ main'.entry = [main.entry EXCEPT ![q.key] = PatchEntry(@, q)]
          BY <1>a, <3>9, TakenPatch
        <5>2. q = p
          BY <4>1, <5>1
        <5> QED
          BY <1>a, <5>1, <5>2
      <4> QED
        BY <1>2, <2>3, <3>6, <4>2
    <3> QED
      BY <1>2, <2>3, <3>3, <3>8, <3>9, GettingThrough
  <2> QED
    BY <2>1, <2>2, <2>3
<1> QED
  BY <1>a, <1>1, <1>2, SuccessIsPost

LEMMA PairsTestedNext ==
    ASSUME OneJobPerKey, "kill" \notin Faults, ConflictsNeverExhaust, TInv, [Next]_vars
    PROVE  PairsTested'
<1> SUFFICES ASSUME NEW j \in Job,
                    phase'[j] # "engine" \/ died'[j] # "none" \/ mode'[j] = "dry",
                    \A k \in KeySet(j) : main'.entry[k].good # NoRef
             PROVE  \E t \in tested' : PairOf(j)' \subseteq t.built
  BY DEF PairsTested, PairTested, KeySet
<1>a. /\ IInv /\ mode' = mode /\ tested \subseteq tested'
      /\ phase \in [Job -> Phase]
  BY HistoryGrows DEF TInv, JInv, IInv, TypeOK
\* The step is not one that moves a pin of this job.
<1>1. \A k \in KeySet(j) : main'.entry[k].good = main.entry[k].good
  <2>1. ASSUME NEW k \in KeySet(j), main'.entry[k].good # main.entry[k].good
        PROVE  phase'[j] = "engine" /\ died'[j] = "none" /\ mode'[j] # "dry"
    BY <1>a, <2>1, PinsMovedByOwner DEF jobVars
  <2> QED
    BY <2>1
<1>2. PairOf(j)' = PairOf(j) /\ \A k \in KeySet(j) : main.entry[k].good # NoRef
  BY <1>1 DEF PairOf, KeySet
<1>3. CASE phase[j] # "engine" \/ died[j] # "none" \/ mode[j] = "dry"
  <2>1. \E t \in tested : PairOf(j) \subseteq t.built
    BY <1>2, <1>3 DEF TInv, PairsTested, PairTested
  <2> QED
    BY <1>a, <1>2, <2>1
\* Otherwise the engine of a successful job is done, and has been through everything.
<1>4. CASE phase[j] = "engine" /\ died[j] = "none" /\ mode[j] # "dry"
  <2>1. Finish(j)
    <3>1. phase'[j] # "engine" \/ died'[j] # "none"
      BY <1>a, <1>4
    <3>2. ~UNCHANGED Own(j)
      BY <1>4, <3>1 DEF Own
    <3>3. ~(Passed(j) \/ Judge(j) \/ Push(j) \/ Settle(j))
      BY <1>4, <3>1 DEF Passed, Judge, Push, Settle, jobVars
    <3>4. ~ \/ Dispatch(j) \/ Scout(j) \/ ScoutRefuses(j) \/ Setup(j) \/ Variant(j)
            \/ VariantFails(j) \/ Addons(j) \/ Compile(j) \/ CompileFails(j) \/ Post(j)
            \/ Breaks(j)
      BY <1>4 DEF Dispatch, Scout, ScoutRefuses, Setup, Variant, VariantFails, Addons,
                  Compile, CompileFails, Post, Breaks, Passes, Stage
    <3>5. ~Abandon(j) /\ ~Kill(j)
      BY DEF Abandon, ConflictsNeverExhaust, Kill, Die
    <3> QED
      BY <1>a, <3>2, <3>3, <3>4, <3>5, OneJobAtATime DEF JobStep, IInv
  <2>2. \A n \in 1 .. Len(KeysOf[j]) : Through(j, n)
    <3>1. at[j] > Len(KeysOf[j]) /\ at[j] \in Nat /\ Len(KeysOf[j]) \in Nat
      BY <1>a, <2>1, ComponentsAreKeys DEF Finish, IInv, TypeOK
    <3> QED
      BY <3>1 DEF Through
  <2>3. ASSUME NEW k \in KeySet(j)
        PROVE  <<k, main.entry[k].good>> \in Picked(j)
    <3>1. PICK n \in 1 .. Len(KeysOf[j]) : k = KeysOf[j][n]
      BY ComponentsAreKeys
    <3>2. CASE pick[j][k].candidate
      <4>1. main.entry[k].good \in {pick[j][k].ref, NoRef}
        BY <1>4, <2>2, <3>1, <3>2 DEF TInv, PromotedInTurn
      <4> QED
        BY <1>2, <2>3, <4>1 DEF Picked
    <3>3. CASE ~pick[j][k].candidate
      <4>1. main.entry[k].good = view[j][k].good
        BY <1>4, <2>3, <3>3 DEF TInv, PinsOwned, PinIsOwn
      <4>2. pick[j][k].ref = view[j][k].good
        BY <1>4, <2>3, <3>3 DEF TInv, OthersFromPins, Scouted
      <4> QED
        BY <1>2, <2>3, <4>1, <4>2 DEF Picked
    <3> QED
      BY <3>2, <3>3
  <2>4. PairOf(j) \subseteq Picked(j)
    BY <2>3 DEF PairOf
  <2>5. \E t \in tested : Picked(j) \subseteq t.built
    BY <1>4 DEF TInv, ChoiceTested
  <2> QED
    BY <1>a, <1>2, <2>4, <2>5
<1> QED
  BY <1>3, <1>4

LEMMA TInvInit ==
    ASSUME ListedStart, Init
    PROVE  TInv
<1>1. JInv
  BY JInvInit
<1>2. PinsOwned /\ NothingGone /\ BuiltAsPicked /\ ChoiceTested /\ OthersFromPins
      /\ PromotedInTurn
  BY DEF Init, PinsOwned, NothingGone, BuiltAsPicked, ChoiceTested, OthersFromPins,
         PromotedInTurn
<1>3. PinsListed
  BY StartEntries DEF ListedStart, PinsListed
<1>4. PairsTested
  <2> SUFFICES ASSUME NEW j \in Job, \A k \in KeySet(j) : main.entry[k].good # NoRef
               PROVE  \E t \in tested : PairOf(j) \subseteq t.built
    BY DEF PairsTested, PairTested
  <2>1. PairOf(j) \subseteq Pins(main.entry)
    BY ComponentsAreKeys DEF PairOf, Pins
  <2>2. tested = {[pick |-> Pins(main.entry), built |-> Pins(main.entry)]}
    BY DEF Init
  <2> QED
    BY <2>1, <2>2
<1> QED
  BY <1>1, <1>2, <1>3, <1>4 DEF TInv

LEMMA TInvNext ==
    ASSUME OneJobPerKey, Faults \cap {"rebase", "kill"} = {}, ConflictsNeverExhaust,
           TInv, [Next]_vars
    PROVE  TInv'
<1>1. "rebase" \notin Faults /\ "kill" \notin Faults /\ JInv /\ IInv
  BY DEF TInv, JInv
<1> QED
  BY <1>1, JInvNext, PinsOwnedNext, NothingGoneNext, PinsListedNext, BuiltAsPickedNext,
     ChoiceTestedNext, OthersFromPinsNext, PromotedInTurnNext, PairsTestedNext DEF TInv

\* While the jobs share no component, upstream rebases nothing, no engine is killed and
\* no call of apply_and_push gives up, the pins that a release combines were in the tree
\* of one successful build, although the engine promotes them one by one.
THEOREM PinnedPairsAreTested ==
    ASSUME OneJobPerKey, Faults \cap {"rebase", "kill"} = {}, ListedStart
    PROVE  Spec /\ []ConflictsNeverExhaust => []PinnedPairsTested
<1>1. TInv /\ ConflictsNeverExhaust /\ [Next]_vars => TInv'
  BY TInvNext
<1>2. TInv => PinnedPairsTested
  BY DEF TInv, PairsTested, PairTested, PairOf, PinnedPairsTested
<1> QED
  BY <1>1, <1>2, TInvInit, PTL DEF Spec

-----------------------------------------------------------------------------
(* Conflicts are bounded *)

\* What the environment does not do: fail a fetch or a push, or push of its own.
Quiet == Faults \cap {"fetch", "push", "reply"} = {} /\ Outside = {}

\* How the place of a job in the retry loop may change while the environment is quiet.
LoopKept(j) == attempt'[j] = attempt[j] /\ loop'[j] = loop[j]

Starts(j)    == loop'[j] = "fetch" /\ attempt'[j] = 1 /\ j \notin behind'
Commits(j)   == /\ loop[j] = "fetch" /\ loop'[j] \in {"push", "acked"}
                /\ attempt'[j] = attempt[j] /\ j \notin behind'
Succeeds(j)  == loop'[j] = "acked" /\ j \notin behind'
TriesAgain(j) ==
    /\ loop[j] = "push" /\ j \in behind /\ j \notin behind'
    /\ IF attempt[j] < MaxAttempts
       THEN loop'[j] = "fetch" /\ attempt'[j] = attempt[j] + 1
       ELSE loop'[j] = "failed"
Ends(j)      == loop'[j] = "idle" /\ j \notin behind'

LEMMA LoopMoves ==
    ASSUME Quiet, IInv, BehindPush, [Next]_vars, NEW j \in Job
    PROVE  \/ LoopKept(j) /\ (j \in behind' => j \in behind)
           \/ LoopKept(j) /\ loop[j] = "push" /\ \E i \in Job \ {j} : Takes(i)
           \/ Starts(j) \/ Commits(j) \/ Succeeds(j) \/ TriesAgain(j) \/ Ends(j)
<1>a. /\ loop \in [Job -> Loop] /\ attempt \in [Job -> 1 .. MaxAttempts]
      /\ behind \subseteq Job
  BY DEF IInv, TypeOK, PushTypeOK
<1>1. ASSUME NEW i \in Job, Judge(i)
      PROVE  Starts(j) \/ (LoopKept(j) /\ behind' = behind)
  <2>1. /\ loop[i] = "idle" /\ loop' = [loop EXCEPT ![i] = "fetch"]
        /\ attempt' = [attempt EXCEPT ![i] = 1] /\ behind' = behind
    BY <1>1 DEF Judge, Call
  <2>2. i \notin behind
    BY <2>1 DEF BehindPush
  <2> QED
    BY <1>a, <2>1, <2>2 DEF Starts, LoopKept
<1>2. ASSUME NEW i \in Job, Push(i), i = j
      PROVE  Commits(j) \/ Succeeds(j) \/ TriesAgain(j)
  <2>1. CASE Fetch(i)
    <3>1. loop[j] = "fetch" /\ attempt' = attempt
      BY <1>2, <2>1 DEF Fetch
    <3>2. j \notin behind' /\ loop'[j] \in {"push", "acked"}
      BY <1>2, <1>a, <2>1 DEF Fetch, Forget
    <3> QED
      BY <3>1, <3>2 DEF Commits
  <2>2. CASE PushAccepted(i)
    BY <1>2, <1>a, <2>2 DEF PushAccepted, Overtakes, Succeeds
  <2>3. CASE PushRejected(i)
    <3>1. loop[j] = "push" /\ j \in behind /\ j \notin behind' /\ Again(j)
      BY <1>2, <2>3 DEF PushRejected, Quiet
    <3>2. attempt[j] \in Int /\ MaxAttempts \in Int
      BY <1>a, MaxAttemptsAssumption
    <3> QED
      BY <1>a, <3>1, <3>2 DEF Again, TriesAgain
  <2>4. ~FetchFails(i) /\ ~PushReplyLost(i)
    BY DEF FetchFails, PushReplyLost, Quiet
  <2> QED
    BY <1>2, <2>1, <2>2, <2>3, <2>4 DEF Push, Attempt
<1>3. ASSUME NEW i \in Job, Push(i), i # j
      PROVE  \/ LoopKept(j) /\ (j \in behind' => j \in behind)
             \/ LoopKept(j) /\ loop[j] = "push" /\ Takes(i)
  <2>1. LoopKept(j)
    <3>1. /\ \E l \in Loop : loop' = [loop EXCEPT ![i] = l]
          /\ attempt' = attempt \/ attempt' = [attempt EXCEPT ![i] = @ + 1]
      BY <1>3 DEF Push, Attempt, Fetch, FetchFails, PushAccepted, PushRejected,
                  PushReplyLost, Again, Loop
    <3> QED
      BY <1>a, <1>3, <3>1 DEF LoopKept
  <2>2. CASE PushAccepted(i)
    <3>1. behind' \subseteq {x \in Job : loop[x] = "push"} /\ Takes(i)
      BY <1>3, <2>2 DEF PushAccepted, Overtakes, Takes
    <3> QED
      BY <2>1, <3>1
  <2>3. CASE Fetch(i) \/ PushRejected(i)
    <3>1. behind' \subseteq behind
      BY <2>3 DEF Fetch, Forget, PushRejected
    <3> QED
      BY <2>1, <3>1
  <2>4. ~FetchFails(i) /\ ~PushReplyLost(i)
    BY DEF FetchFails, PushReplyLost, Quiet
  <2> QED
    BY <1>3, <2>2, <2>3, <2>4 DEF Push, Attempt
<1>4. ASSUME NEW i \in Job, Settle(i) \/ Abandon(i) \/ Kill(i)
      PROVE  Ends(j) \/ (LoopKept(j) /\ (j \in behind' => j \in behind))
  <2>1. Hangup(i)
    BY <1>4 DEF Settle, Abandon, Kill, Return, Die
  <2> QED
    BY <1>a, <2>1 DEF Hangup, Forget, Ends, LoopKept
<1>5. ASSUME NEW i \in Job,
             \/ Dispatch(i) \/ Scout(i) \/ ScoutRefuses(i) \/ Setup(i) \/ Variant(i)
             \/ VariantFails(i) \/ Addons(i) \/ Compile(i) \/ CompileFails(i)
             \/ Post(i) \/ Breaks(i) \/ Passed(i) \/ Finish(i)
      PROVE  LoopKept(j) /\ behind' = behind
  BY <1>5 DEF Dispatch, Scout, ScoutRefuses, Setup, Variant, VariantFails, Addons,
              Compile, CompileFails, Post, Breaks, Passed, Finish, Passes, LoopKept,
              pushVars
<1>6. ASSUME (\E k \in Key : UpstreamMoves(k)) \/ UNCHANGED vars
      PROVE  LoopKept(j) /\ behind' = behind
  BY <1>6 DEF UpstreamMoves, LoopKept, vars, pushVars
<1>7. ~People
  BY DEF People, OutsideCommit, HandFlag, Quiet
<1> QED
  BY <1>1, <1>2, <1>3, <1>4, <1>5, <1>6, <1>7 DEF Next, JobStep

\* What is landed stays landed: no job is dispatched twice.
LEMMA LandedKept ==
    ASSUME ~Rerun, JInv, [Next]_vars, NEW j \in Job, NEW n \in 1 .. Len(KeysOf[j]),
           Landed(j, n)
    PROVE  Landed(j, n)'
<1>a. /\ IInv /\ phase \in [Job -> Phase] /\ loop \in [Job -> Loop]
      /\ at \in [Job -> Nat \ {0}] /\ n \in Nat /\ at[j] \in Nat
  BY ComponentsAreKeys DEF JInv, IInv, TypeOK, PushTypeOK
<1>1. CASE UNCHANGED Own(j)
  BY <1>1 DEF Own, Landed, Through
<1>2. CASE Abandon(j) \/ Finish(j) \/ Kill(j)
  BY <1>a, <1>2 DEF Abandon, Finish, Kill, Over, Landed
<1>3. CASE Passed(j)
  <2>1. /\ phase' = phase /\ phase[j] = "engine" /\ at'[j] = at[j] + 1
        /\ loop[j] = "idle"
    BY <1>a, <1>3 DEF Passed, Judging
  <2> QED
    BY <1>a, <2>1 DEF Landed, Through
<1>4. CASE Settle(j)
  <2>1. phase' = phase /\ phase[j] = "engine" /\ at'[j] = at[j] + 1
    BY <1>a, <1>4 DEF Settle
  <2> QED
    BY <1>a, <2>1 DEF Landed, Through
<1>5. CASE Judge(j) \/ Push(j)
  <2>1. phase' = phase /\ phase[j] = "engine" /\ at' = at /\ loop[j] # "acked"
    BY <1>5, PushKeepsTheAsk DEF Judge, Judging, Push, jobVars
  <2> QED
    BY <2>1 DEF Landed, Through
<1>6. ~ \/ Dispatch(j) \/ Scout(j) \/ ScoutRefuses(j) \/ Setup(j) \/ Variant(j)
        \/ VariantFails(j) \/ Addons(j) \/ Compile(j) \/ CompileFails(j) \/ Post(j)
        \/ Breaks(j)
  BY DEF Dispatch, Scout, ScoutRefuses, Setup, Variant, VariantFails, Addons, Compile,
         CompileFails, Post, Breaks, Passes, Stage, Landed
<1> QED
  BY <1>a, <1>1, <1>2, <1>3, <1>4, <1>5, <1>6, OneJobAtATime DEF JobStep, IInv

\* The hypotheses about one run of build.yml.
OneRun ==
    /\ OneJobPerKey /\ NoKeyTwice /\ EnoughAttempts
    /\ Quiet
    /\ ~Rerun

LEMMA LandedAreFew ==
    ASSUME OneRun, JInv, [Next]_vars, NEW j \in Job
    PROVE  /\ Cardinality(LandedOthers(j)) \in Nat
           /\ Cardinality(LandedOthers(j)') \in Nat
           /\ Cardinality(LandedOthers(j)) <= Cardinality(LandedOthers(j)')
           /\ Cardinality(LandedOthers(j)') < MaxAttempts
           /\ Cardinality(LandedOthers(j)) < MaxAttempts
           /\ IsFiniteSet(LandedOthers(j)) /\ IsFiniteSet(LandedOthers(j)')
           /\ LandedOthers(j) \subseteq LandedOthers(j)'
<1>1. IsFiniteSet(Others(j)) /\ Cardinality(Others(j)) < MaxAttempts
  BY DEF OneRun, EnoughAttempts
<1>2. LandedOthers(j) \subseteq Others(j) /\ LandedOthers(j)' \subseteq Others(j)
  BY DEF LandedOthers, Others, KeySet
<1>3. LandedOthers(j) \subseteq LandedOthers(j)'
  <2> SUFFICES ASSUME NEW k \in LandedOthers(j)
               PROVE  k \in LandedOthers(j)'
    OBVIOUS
  <2>1. PICK i \in Job \ {j} :
          \E n \in 1 .. Len(KeysOf[i]) : k = KeysOf[i][n] /\ Landed(i, n)
    BY DEF LandedOthers
  <2>2. \E n \in 1 .. Len(KeysOf[i]) : k = KeysOf[i][n] /\ Landed(i, n)'
    BY <2>1, LandedKept DEF OneRun
  <2> QED
    BY <1>2, <2>1, <2>2 DEF LandedOthers, Others, KeySet
<1>4. /\ IsFiniteSet(LandedOthers(j)) /\ IsFiniteSet(LandedOthers(j)')
      /\ Cardinality(LandedOthers(j)) <= Cardinality(Others(j))
      /\ Cardinality(LandedOthers(j)') <= Cardinality(Others(j))
  BY <1>1, <1>2, FS_Subset
<1>5. Cardinality(LandedOthers(j)) <= Cardinality(LandedOthers(j)')
  BY <1>3, <1>4, FS_Subset
<1>6. /\ Cardinality(LandedOthers(j)) \in Nat /\ Cardinality(LandedOthers(j)') \in Nat
      /\ Cardinality(Others(j)) \in Nat
  BY <1>1, <1>4, FS_CardinalityType
<1> QED
  BY <1>1, <1>3, <1>4, <1>5, <1>6, MaxAttemptsAssumption

\* Whoever overtakes a job has landed a component that was not landed before.
LEMMA OvertakingLands ==
    ASSUME OneRun, JInv, [Next]_vars, NEW j \in Job, NEW i \in Job \ {j}, Takes(i)
    PROVE  Cardinality(LandedOthers(j)) + 1 <= Cardinality(LandedOthers(j)')
<1> DEFINE k == KeysOf[i][at[i]]
<1>a. /\ IInv /\ loop \in [Job -> Loop] /\ at \in [Job -> Nat \ {0}]
      /\ at[i] \in 1 .. Len(KeysOf[i]) /\ k \in KeySet(i) /\ k \in Others(j)
  <2>1. IInv /\ loop \in [Job -> Loop] /\ at \in [Job -> Nat \ {0}]
    BY DEF JInv, IInv, TypeOK, PushTypeOK
  <2>2. at[i] <= Len(KeysOf[i])
    BY DEF JInv, AsksInTurn, Takes
  <2>3. at[i] \in 1 .. Len(KeysOf[i])
    BY <2>1, <2>2, ComponentsAreKeys
  <2> QED
    BY <2>1, <2>3, ComponentsAreKeys DEF Others
<1>1. k \notin LandedOthers(j)
  <2> SUFFICES ASSUME NEW x \in Job \ {j}, NEW n \in 1 .. Len(KeysOf[x]),
                      k = KeysOf[x][n], Landed(x, n)
               PROVE  FALSE
    BY DEF LandedOthers
  <2>1. x = i
    BY <1>a, ComponentsAreKeys DEF OneRun, OneJobPerKey
  <2>2. n = at[i]
    BY <1>a, <2>1, KeysOfAssumption DEF OneRun, NoKeyTwice, IsInjective
  <2>3. phase[i] = "engine" /\ loop[i] = "push"
    BY <1>a, TakenPatch DEF Takes
  <2> QED
    BY <1>a, <2>1, <2>2, <2>3 DEF Landed, Through
<1>2. k \in LandedOthers(j)'
  <2>1. loop'[i] = "acked" /\ phase'[i] = "engine" /\ at' = at
    BY <1>a, TakenPatch DEF Takes, OneRun, Quiet, jobVars
  <2>2. PICK n \in 1 .. Len(KeysOf[i]) : n = at[i]
    BY <1>a
  <2>3. Landed(i, n)'
    BY <2>1, <2>2 DEF Landed, Through
  <2>4. Others(j)' = Others(j)
    BY DEF Others, KeySet
  <2> QED
    BY <1>a, <2>2, <2>3, <2>4 DEF LandedOthers
<1>3. LandedOthers(j) \cup {k} \subseteq LandedOthers(j)'
  BY <1>2, LandedAreFew
<1>4. /\ Cardinality(LandedOthers(j) \cup {k}) = Cardinality(LandedOthers(j)) + 1
      /\ Cardinality(LandedOthers(j) \cup {k}) <= Cardinality(LandedOthers(j)')
  BY <1>1, <1>3, LandedAreFew, FS_AddElement, FS_Subset, ZenonT(40)
<1> QED
  BY <1>4

LEMMA NInvInit == Init => NInv
  BY JInvInit DEF Init, PushInit, NInv, BehindPush, AttemptsOwed, ConflictsNeverExhaust

LEMMA NInvNext ==
    ASSUME OneRun, NInv, [Next]_vars
    PROVE  NInv'
<1>a. JInv /\ IInv /\ BehindPush /\ Quiet /\ JInv'
  BY JInvNext DEF NInv, JInv, OneRun
<1>1. ASSUME NEW j \in Job
      PROVE  /\ loop'[j] \in {"fetch", "push"} =>
                  attempt'[j] <= 1 + Cardinality(LandedOthers(j)')
             /\ j \in behind' =>
                  attempt'[j] <= Cardinality(LandedOthers(j)') /\ loop'[j] = "push"
             /\ loop'[j] # "failed"
  <2> DEFINE c == Cardinality(LandedOthers(j))
             d == Cardinality(LandedOthers(j)')
  <2>a. /\ c \in Nat /\ d \in Nat /\ c <= d /\ c < MaxAttempts /\ MaxAttempts \in Nat
        /\ attempt[j] \in Nat
    BY <1>a, LandedAreFew, MaxAttemptsAssumption DEF IInv, TypeOK, PushTypeOK
  <2>b. /\ loop[j] \in {"fetch", "push"} => attempt[j] <= 1 + c
        /\ j \in behind => attempt[j] <= c /\ loop[j] = "push"
        /\ loop[j] # "failed"
    BY DEF NInv, AttemptsOwed, BehindPush, ConflictsNeverExhaust
  <2>1. CASE LoopKept(j) /\ (j \in behind' => j \in behind)
    <3> HIDE DEF c, d
    <3> QED
      BY <2>a, <2>b, <2>1 DEF LoopKept, c, d
  <2>2. CASE LoopKept(j) /\ loop[j] = "push" /\ \E i \in Job \ {j} : Takes(i)
    <3>1. c + 1 <= d
      BY <1>a, <2>2, OvertakingLands
    <3> HIDE DEF c, d
    <3> QED
      BY <2>a, <2>b, <2>2, <3>1 DEF LoopKept, c, d
  <2>3. CASE Starts(j) \/ Commits(j) \/ Succeeds(j) \/ Ends(j)
    <3> HIDE DEF c, d
    <3> QED
      BY <2>a, <2>b, <2>3 DEF Starts, Commits, Succeeds, Ends, c, d
  <2>4. CASE TriesAgain(j)
    <3> HIDE DEF c, d
    <3>1. attempt[j] <= c /\ attempt[j] < MaxAttempts
      BY <2>a, <2>b, <2>4 DEF TriesAgain
    <3> QED
      BY <2>a, <2>4, <3>1 DEF TriesAgain, c, d
  <2> QED
    BY <1>a, <2>1, <2>2, <2>3, <2>4, LoopMoves
<1>2. behind' \subseteq Job
  BY <1>a DEF JInv, IInv, TypeOK, PushTypeOK
<1> QED
  BY <1>a, <1>1, <1>2 DEF NInv, BehindPush, AttemptsOwed, ConflictsNeverExhaust

\* The jobs of one run never use up the attempts of apply_and_push on each other, as
\* long as each has more attempts than the others have components: every rejected push
\* is owed to a component that another job has landed for good meanwhile.  The matrix
\* of build.yml has four such components for each job, and max_attempts is five.
THEOREM ConflictsAreBounded ==
    ASSUME OneRun
    PROVE  Spec => []ConflictsNeverExhaust
<1>1. NInv /\ [Next]_vars => NInv'
  BY NInvNext
<1>2. NInv => ConflictsNeverExhaust
  BY DEF NInv
<1> QED
  BY <1>1, <1>2, NInvInit, PTL DEF Spec

\* So one run of build.yml on its own leaves only pins that were built together.
THEOREM OneRunPinsWhatFits ==
    ASSUME OneRun, Faults \cap {"rebase", "kill"} = {}, ListedStart
    PROVE  Spec => []PinnedPairsTested
<1>1. OneJobPerKey
  BY DEF OneRun
<1> QED
  BY <1>1, ConflictsAreBounded, PinnedPairsAreTested, PTL
=============================================================================
