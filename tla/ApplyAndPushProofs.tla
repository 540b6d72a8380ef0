------------------------- MODULE ApplyAndPushProofs -------------------------
(***************************************************************************)
(* apply_and_push is proved to implement AtomicManifest, for every set of  *)
(* jobs and keys, every bound on the attempts and every set of faults.     *)
(***************************************************************************)
EXTENDS ApplyAndPush, TLAPS

-----------------------------------------------------------------------------
(* The patches keep the file a manifest *)

LEMMA PatchEntryType ==
    ASSUME NEW e \in Entry, NEW p \in Patch
    PROVE  PatchEntry(e, p) \in Entry
  BY DEF Entry, Patch, PatchEntry, Promote, Blacklist, Ref

LEMMA PatchTreeType ==
    ASSUME NEW t \in Tree, NEW p \in Patch
    PROVE  /\ PatchTree(t, p) \in Tree
           /\ PatchTree(t, p).entry =
                [t.entry EXCEPT ![p.key] = PatchEntry(@, p)]
<1>1. p.key \in Key
  BY DEF Patch
<1>2. t.entry \in [Key -> Entry]
  BY DEF Tree
<1>3. PatchEntry(t.entry[p.key], p) \in Entry
  BY <1>1, <1>2, PatchEntryType
<1> QED
  BY <1>1, <1>2, <1>3 DEF PatchTree, Tree

LEMMA EmptyTreeType == EmptyTree \in Tree
  BY DEF EmptyTree, Tree, Absent, Entry

LEMMA FlagType ==
    ASSUME NEW t \in Tree, NEW k \in Key, t.entry[k].good # NoRef
    PROVE  /\ [t EXCEPT !.entry[k] = Blacklist(@, @.good)] \in Tree
           /\ [t EXCEPT !.entry[k] = Blacklist(@, @.good)].entry =
                [t.entry EXCEPT ![k] = Blacklist(@, @.good)]
<1>1. t.entry \in [Key -> Entry] /\ t.entry[k] \in Entry
  BY DEF Tree
<1>2. Blacklist(t.entry[k], t.entry[k].good) \in Entry
  BY <1>1 DEF Blacklist, Entry
<1> QED
  BY <1>1, <1>2 DEF Tree

-----------------------------------------------------------------------------
(* The inductive invariant *)

\* Whoever is inside apply_and_push has asked for exactly one patch.
CallersHaveAsked ==
    \A j \in Job : loop[j] \in {"fetch", "push"} => \E p \in Patch : ask[j] = {p}

PushInv == PushTypeOK /\ CallersHaveAsked /\ TipCommitIsPatchOfMain

LEMMA PushInvInit == PushInit => PushInv
  BY InitTreesAssumption, MaxAttemptsAssumption, EmptyTreeType
     DEF PushInit, PushInv, PushTypeOK, CallersHaveAsked, TipCommitIsPatchOfMain,
         Loop

LEMMA PushInvNext == PushInv /\ [PushNext]_pushVars => PushInv'
<1> SUFFICES ASSUME PushInv, [PushNext]_pushVars
             PROVE  PushInv'
  OBVIOUS
<1> USE MaxAttemptsAssumption DEF PushInv, PushTypeOK, CallersHaveAsked,
        TipCommitIsPatchOfMain, Loop
<1>1. ASSUME NEW j \in Job, NEW p \in Patch, Call(j, p)
      PROVE  PushInv'
  BY <1>1 DEF Call
<1>2. ASSUME NEW j \in Job, Fetch(j)
      PROVE  PushInv'
  <2>1. PICK p \in Patch : ask[j] = {p}
    BY <1>2 DEF Fetch
  <2>2. PatchTree(main, p) \in Tree
    BY PatchTreeType
  <2>3. CASE PatchTree(main, p) = main
    BY <1>2, <2>1, <2>3, EmptyTreeType DEF Fetch, Forget
  <2>4. CASE PatchTree(main, p) # main
    BY <1>2, <2>1, <2>2, <2>4 DEF Fetch
  <2> QED
    BY <2>3, <2>4
<1>3. ASSUME NEW j \in Job, FetchFails(j)
      PROVE  PushInv'
  BY <1>3 DEF FetchFails
<1>4. ASSUME NEW j \in Job, PushAccepted(j)
      PROVE  PushInv'
  BY <1>4, EmptyTreeType DEF PushAccepted, Overtakes
<1>5. ASSUME NEW j \in Job, PushRejected(j)
      PROVE  PushInv'
  BY <1>5, EmptyTreeType DEF PushRejected, Forget, Again
<1>6. ASSUME NEW j \in Job, PushReplyLost(j)
      PROVE  PushInv'
  BY <1>6, EmptyTreeType DEF PushReplyLost, Overtakes, Again
<1>7. ASSUME NEW j \in Job, Return(j)
      PROVE  PushInv'
  BY <1>7, EmptyTreeType DEF Return, Hangup, Forget
<1>8. ASSUME NEW j \in Job, Die(j)
      PROVE  PushInv'
  BY <1>8, EmptyTreeType DEF Die, Hangup, Forget
<1>9. CASE OutsideCommit
  BY <1>9 DEF OutsideCommit, Overtakes
<1>10. ASSUME NEW k \in Key, HandFlag(k)
      PROVE  PushInv'
  <2>1. main' \in Tree
    BY <1>10, FlagType DEF HandFlag
  <2> QED
    BY <1>10, <2>1 DEF HandFlag, Overtakes
<1>11. CASE UNCHANGED pushVars
  BY <1>11 DEF pushVars
<1> QED
  BY <1>1, <1>2, <1>3, <1>4, <1>5, <1>6, <1>7, <1>8, <1>9, <1>10, <1>11
     DEF PushNext, Attempt

-----------------------------------------------------------------------------
(* Theorems *)

\* The variables of apply_and_push keep their types.
THEOREM PushTypeCorrect == PushSpec => []PushTypeOK
<1>1. PushInv => PushTypeOK
  BY DEF PushInv
<1> QED
  BY <1>1, PushInvInit, PushInvNext, PTL DEF PushSpec

\* A commit that is still a fast-forward of main is the job's own patch of what
\* main holds, never a patch of something older.
THEOREM TipCommitCorrect == PushSpec => []TipCommitIsPatchOfMain
<1>1. PushInv => TipCommitIsPatchOfMain
  BY DEF PushInv
<1> QED
  BY <1>1, PushInvInit, PushInvNext, PTL DEF PushSpec

\* AtomicManifest reads the manifest as ApplyAndPush does.
LEMMA SameManifest ==
    /\ Atomic!Entry = Entry
    /\ Atomic!Patch = Patch
    /\ Atomic!NoRef = NoRef
    /\ \A e, p : Atomic!PatchEntry(e, p) = PatchEntry(e, p)
    /\ \A e, r : Atomic!Blacklist(e, r) = Blacklist(e, r)
  BY DEF Entry, Atomic!Entry, Patch, Atomic!Patch, Ref, Atomic!Ref, NoRef,
         Atomic!NoRef, PatchEntry, Atomic!PatchEntry, Promote, Atomic!Promote,
         Blacklist, Atomic!Blacklist

LEMMA KnownIs ==
    /\ Known("idle") = "idle" /\ Known("acked") = "done" /\ Known("failed") = "failed"
    /\ Known("fetch") = "open" /\ Known("push") = "open"
  BY DEF Known

LEMMA InitRefines == PushInit => Atomic!Init
<1> SUFFICES ASSUME PushInit
             PROVE  Atomic!Init
  OBVIOUS
<1>1. main.entry \in [Key -> Entry]
  BY InitTreesAssumption DEF PushInit, Tree
<1> QED
  BY <1>1, SameManifest, KnownIs DEF PushInit, StatusOf, Atomic!Init

\* The tree a job pushes while its commit is on the tip of main is its patch.
LEMMA TakenPushLands ==
    ASSUME PushInv, NEW j \in Job, loop[j] = "push", j \notin behind,
           main' = clone[j], UNCHANGED ask,
           NEW x \in {"fetch", "acked", "failed"},
           loop' = [loop EXCEPT ![j] = x]
    PROVE  Atomic!Land(j)
<1>1. PICK p \in Patch : ask[j] = {p}
  BY DEF PushInv, CallersHaveAsked
<1>2. main'.entry = [main.entry EXCEPT ![p.key] = PatchEntry(@, p)]
  BY <1>1, PatchTreeType DEF PushInv, PushTypeOK, TipCommitIsPatchOfMain
<1>3. loop \in [Job -> Loop]
  BY DEF PushInv, PushTypeOK
<1>4. StatusOf(loop') = [StatusOf(loop) EXCEPT ![j] = Known(x)]
  BY <1>3 DEF StatusOf
<1>5. Known(x) \in {"open", "done", "failed"}
  BY KnownIs
<1>6. StatusOf(loop)[j] = "open"
  BY KnownIs DEF StatusOf
<1> QED
  BY <1>1, <1>2, <1>4, <1>5, <1>6, SameManifest DEF Atomic!Land

\* Every step of the retry loop is a step of the atomic writers, or none at all.
LEMMA NextRefines == PushInv /\ [PushNext]_pushVars => [Atomic!Next]_(Atomic!vars)
<1> SUFFICES ASSUME PushInv, [PushNext]_pushVars
             PROVE  Atomic!Next \/ UNCHANGED Atomic!vars
  OBVIOUS
<1>a. loop \in [Job -> Loop] /\ main \in Tree /\ attempt \in [Job -> 1 .. MaxAttempts]
  BY DEF PushInv, PushTypeOK
<1>1. ASSUME NEW j \in Job, NEW p \in Patch, Call(j, p)
      PROVE  Atomic!Ask(j, p)
  <2>1. StatusOf(loop') = [StatusOf(loop) EXCEPT ![j] = "open"]
    BY <1>1, <1>a, KnownIs DEF StatusOf, Call
  <2>2. StatusOf(loop)[j] = "idle"
    BY <1>1, KnownIs DEF Call, StatusOf
  <2> QED
    BY <1>1, <2>1, <2>2 DEF Call, StatusOf, Atomic!Ask
<1>2. ASSUME NEW j \in Job, Fetch(j)
      PROVE  Atomic!Land(j) \/ UNCHANGED Atomic!vars
  <2>1. PICK p \in Patch : ask[j] = {p}
    BY <1>2 DEF Fetch, PushInv, CallersHaveAsked
  <2>2. CASE PatchTree(main, p) = main
    <3>1. main.entry = [main.entry EXCEPT ![p.key] = PatchEntry(@, p)]
      BY <1>a, <2>2, PatchTreeType
    <3>2. StatusOf(loop') = [StatusOf(loop) EXCEPT ![j] = "done"]
      BY <1>2, <1>a, <2>1, <2>2, KnownIs DEF StatusOf, Fetch
    <3>3. StatusOf(loop)[j] = "open"
      BY <1>2, KnownIs DEF Fetch, StatusOf
    <3>4. Atomic!Land(j)
      BY <1>2, <2>1, <3>1, <3>2, <3>3, SameManifest DEF Fetch, StatusOf, Atomic!Land
    <3> QED
      BY <3>4
  <2>3. CASE PatchTree(main, p) # main
    <3>1. loop' = [loop EXCEPT ![j] = "push"]
      BY <1>2, <2>1, <2>3 DEF Fetch
    <3>2. StatusOf(loop') = [StatusOf(loop) EXCEPT ![j] = "open"]
      BY <3>1, <1>a, KnownIs DEF StatusOf
    <3>3. StatusOf(loop') = StatusOf(loop)
      BY <1>2, <3>2, KnownIs DEF Fetch, StatusOf
    <3> QED
      BY <1>2, <3>3 DEF Fetch, StatusOf, Atomic!vars
  <2> QED
    BY <2>2, <2>3
<1>3. ASSUME NEW j \in Job, FetchFails(j)
      PROVE  Atomic!GiveUp(j)
  <2>1. StatusOf(loop') = [StatusOf(loop) EXCEPT ![j] = "failed"]
    BY <1>3, <1>a, KnownIs DEF StatusOf, FetchFails
  <2> QED
    BY <1>3, <2>1, KnownIs DEF FetchFails, StatusOf, Atomic!GiveUp
<1>4. ASSUME NEW j \in Job, PushAccepted(j)
      PROVE  Atomic!Land(j)
  BY <1>4, TakenPushLands DEF PushAccepted
<1>5. ASSUME NEW j \in Job, PushRejected(j)
      PROVE  Atomic!GiveUp(j) \/ UNCHANGED Atomic!vars
  <2>1. CASE loop' = [loop EXCEPT ![j] = "fetch"]
    <3>1. StatusOf(loop') = [StatusOf(loop) EXCEPT ![j] = "open"]
      BY <2>1, <1>a, KnownIs DEF StatusOf
    <3>2. StatusOf(loop') = StatusOf(loop)
      BY <1>5, <3>1, KnownIs DEF PushRejected, StatusOf
    <3> QED
      BY <1>5, <3>2 DEF PushRejected, StatusOf, Atomic!vars
  <2>2. CASE loop' = [loop EXCEPT ![j] = "failed"]
    <3>1. StatusOf(loop') = [StatusOf(loop) EXCEPT ![j] = "failed"]
      BY <2>2, <1>a, KnownIs DEF StatusOf
    <3> QED
      BY <1>5, <3>1, KnownIs DEF PushRejected, StatusOf, Atomic!GiveUp
  <2> QED
    BY <1>5, <2>1, <2>2 DEF PushRejected, Again
<1>6. ASSUME NEW j \in Job, PushReplyLost(j)
      PROVE  Atomic!Land(j)
  BY <1>6, TakenPushLands DEF PushReplyLost, Again
<1>7. ASSUME NEW j \in Job, Return(j)
      PROVE  Atomic!Leave(j)
  <2>1. StatusOf(loop') = [StatusOf(loop) EXCEPT ![j] = "idle"]
    BY <1>7, <1>a, KnownIs DEF StatusOf, Return, Hangup
  <2> QED
    BY <1>7, <2>1 DEF Return, Hangup, StatusOf, Atomic!Leave
<1>8. ASSUME NEW j \in Job, Die(j)
      PROVE  Atomic!Leave(j)
  <2>1. StatusOf(loop') = [StatusOf(loop) EXCEPT ![j] = "idle"]
    BY <1>8, <1>a, KnownIs DEF StatusOf, Die, Hangup
  <2> QED
    BY <1>8, <2>1 DEF Die, Hangup, StatusOf, Atomic!Leave
<1>9. CASE OutsideCommit
  BY <1>9 DEF OutsideCommit, Atomic!vars
<1>10. ASSUME NEW k \in Key, HandFlag(k)
      PROVE  Atomic!Flag(k)
  BY <1>10, <1>a, FlagType, SameManifest DEF HandFlag, Atomic!Flag
<1>11. CASE UNCHANGED pushVars
  BY <1>11 DEF pushVars, Atomic!vars
<1> QED
  BY <1>1, <1>2, <1>3, <1>4, <1>5, <1>6, <1>7, <1>8, <1>9, <1>10, <1>11,
     SameManifest DEF PushNext, Attempt, Atomic!Next

\* Every behaviour of the retry loop is a behaviour of atomic patches: no update is
\* lost, none is reported that did not happen, whoever else writes meanwhile
\* (apply_and_push, engine.sh).
THEOREM NoUpdateIsLost == PushSpec => NoLostUpdate
<1>1. PushSpec => [][Atomic!Next]_(Atomic!vars)
  BY PushInvInit, PushInvNext, NextRefines, PTL DEF PushSpec
<1> QED
  BY <1>1, InitRefines, PTL DEF PushSpec, NoLostUpdate, Atomic!Spec
=============================================================================
