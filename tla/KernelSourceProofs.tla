------------------------- MODULE KernelSourceProofs -------------------------
(***************************************************************************)
(* Proofs about KernelSource: whatever runs fail, whoever pushes meanwhile, *)
(* for every number of commits and every set of checked-in resolutions.     *)
(***************************************************************************)
EXTENDS KernelSource, TLAPS

-----------------------------------------------------------------------------
(* Sets of histories that were never grafted *)

Published == {c \in Commit : c[1] \in {"lts", "feature", "stable"}}

\* Histories that share a commit share their root, of which each has at most one.
Sound(H) ==
    /\ \A g, h \in H : g \cap h # {} => Roots(g) = Roots(h)
    /\ \A h \in H : \A r, s \in Roots(h) : r = s

\* The commits made here are numbered from 1 to n.
Numbered(H, n) ==
    \A h \in H : \A c \in h : c \in Commit /\ (c \notin Published => c[2] <= n)

Good(H, n) == Sound(H) /\ Numbered(H, n) /\ Published \in H

LEMMA PublishedRoot == Root \in Published /\ Roots(Published) = {Root}
  BY DEF Published, Roots, Root, Commit, Kind

LEMMA GoodSubset ==
    ASSUME NEW H, NEW n, NEW K, Good(H, n), K \subseteq H, Published \in K
    PROVE  Good(K, n)
  BY DEF Good, Sound, Numbered

LEMMA GoodLater ==
    ASSUME NEW H, NEW n \in Nat, Good(H, n)
    PROVE  Good(H, n + 1)
  BY DEF Good, Sound, Numbered, Published, Commit

\* A history may be added that agrees with those it shares commits with.
LEMMA GoodAdd ==
    ASSUME NEW H, NEW n, Good(H, n), NEW k,
           \A g \in H : g \cap k # {} => Roots(g) = Roots(k),
           \A r, s \in Roots(k) : r = s,
           \A c \in k : c \in Commit /\ (c \notin Published => c[2] <= n)
    PROVE  Good(H \cup {k}, n)
  BY DEF Good, Sound, Numbered

\* So may the empty one, one that ACK or linux-stable published, the union of two
\* that share a commit, and one that is extended by a new commit.
LEMMA GoodEmpty ==
    ASSUME NEW H, NEW n, Good(H, n)
    PROVE  Good(H \cup {{}}, n)
  BY GoodAdd DEF Roots

LEMMA GoodPublished ==
    ASSUME NEW H, NEW n, Good(H, n), NEW t, t \subseteq Published, Root \in t
    PROVE  Good(H \cup {t}, n)
<1>1. Roots(t) = {Root}
  BY PublishedRoot DEF Roots
<1>2. \A g \in H : g \cap t # {} => Roots(g) = Roots(t)
  BY <1>1, PublishedRoot DEF Good, Sound
<1>3. \A c \in t : c \in Commit /\ c \in Published
  BY DEF Published
<1> QED
  BY <1>1, <1>2, <1>3, GoodAdd

LEMMA GoodUnion ==
    ASSUME NEW H, NEW n, Good(H, n), NEW a \in H, NEW b \in H, a \cap b # {}
    PROVE  Good(H \cup {a \cup b}, n)
<1>1. Roots(a) = Roots(b)
  BY DEF Good, Sound
<1>2. Roots(a \cup b) = Roots(a)
  BY <1>1 DEF Roots
<1>3. \A g \in H : g \cap (a \cup b) # {} => Roots(g) = Roots(a \cup b)
  BY <1>1, <1>2 DEF Good, Sound
<1>4. \A r, s \in Roots(a \cup b) : r = s
  BY <1>2 DEF Good, Sound
<1>5. \A c \in a \cup b : c \in Commit /\ (c \notin Published => c[2] <= n)
  BY DEF Good, Numbered
<1> QED
  BY <1>3, <1>4, <1>5, GoodAdd

LEMMA FreshCommit ==
    ASSUME NEW H, NEW n \in Nat, Good(H, n), NEW kind \in {"merge", "mirror", "human"}
    PROVE  /\ <<kind, n + 1>> \in Commit
           /\ <<kind, n + 1>> \notin Published
           /\ \A h \in H : <<kind, n + 1>> \notin h
  BY DEF Good, Numbered, Published, Commit, Kind

LEMMA GoodExtended ==
    ASSUME NEW H, NEW n \in Nat, Good(H, n), NEW a \in H, NEW kind \in {"merge", "human"}
    PROVE  Good(H \cup {a \cup {<<kind, n + 1>>}}, n + 1)
<1> DEFINE c == <<kind, n + 1>>
           b == a \cup {c}
<1>1. c \in Commit /\ c \notin Published /\ \A h \in H : c \notin h
  BY FreshCommit
<1>2. Roots(b) = Roots(a)
  BY DEF Roots, Root
<1>3. \A g \in H : g \cap b # {} => Roots(g) = Roots(b)
  BY <1>1, <1>2 DEF Good, Sound
<1>4. \A r, s \in Roots(b) : r = s
  BY <1>2 DEF Good, Sound
<1>5. Good(H, n + 1)
  BY GoodLater
<1>6. c[2] <= n + 1
  OBVIOUS
<1>7. \A d \in b : d \in Commit /\ (d \notin Published => d[2] <= n + 1)
  BY <1>1, <1>5, <1>6 DEF Good, Numbered
<1> HIDE DEF b, c
<1> QED
  BY <1>3, <1>4, <1>5, <1>7, GoodAdd DEF b, c

LEMMA GoodMirror ==
    ASSUME NEW H, NEW n \in Nat, Good(H, n)
    PROVE  Good(H \cup {{<<"mirror", n + 1>>}}, n + 1)
<1> DEFINE c == <<"mirror", n + 1>>
<1>1. c \in Commit /\ c \notin Published /\ \A h \in H : c \notin h
  BY FreshCommit
<1>2. \A r, s \in Roots({c}) : r = s
  BY DEF Roots
<1>3. \A g \in H : g \cap {c} # {} => Roots(g) = Roots({c})
  BY <1>1
<1>4. \A d \in {c} : d \in Commit /\ (d \notin Published => d[2] <= n + 1)
  BY <1>1
<1>5. Good(H, n + 1)
  BY GoodLater
<1> HIDE DEF c
<1> QED
  BY <1>2, <1>3, <1>4, <1>5, GoodAdd DEF c

-----------------------------------------------------------------------------
(* The inductive invariant *)

All == Histories \cup {Published}

\* Where a run can be: only a catch-up merges a stable release, and an adopt has a clone
\* of ACK's branch; a clone that is pushed to live holds promoted releases only.
RunKnowsItsWork ==
    /\ run.at = "stable" => run.mode = "catchup"
    /\ run.at \in {"fetch", "adopt"} => run.mode = "adopt"
    /\ run.at = "mirror" => run.mode = "mirror"
    /\ run.at = "adopt" => Stable(run.work) = {}
    /\ run.at \in {"feature", "lts", "push"} /\ run.mode # "catchup"
           => Stable(run.work) \subseteq promoted

SourceIInv ==
    /\ SourceTypeOK
    /\ Good(All, made)
    /\ RunKnowsItsWork
    /\ StableOnlyPromoted

LEMMA SeriesPublished ==
    ASSUME NEW n \in Nat, NEW kind \in {"feature", "stable"}
    PROVE  Series(kind, n) \subseteq Published /\ Root \in Series(kind, n)
  BY DEF Series, Published, Commit, Kind, Root

LEMMA LtsPublished ==
    ASSUME NEW n \in Int
    PROVE  /\ Lts(n) \subseteq Published
           /\ n \in Nat => Root \in Lts(n)
           /\ n < 0 => Lts(n) = {}
           /\ Stable(Lts(n)) = {}
  BY DEF Lts, Published, Commit, Kind, Root, Stable

LEMMA SourceInvInit == SourceInit => SourceIInv
<1> SUFFICES ASSUME SourceInit PROVE SourceIInv
  OBVIOUS
<1>1. SourceTypeOK
  BY DEF SourceInit, SourceTypeOK, NoRun, Branch
<1>2. All = {{}, Published}
  BY DEF SourceInit, All, Histories, NoRun, Branch
<1>3. Good({Published}, made)
  BY PublishedRoot DEF Good, Sound, Numbered, Published
<1>4. Good({Published} \cup {{}}, made)
  BY <1>3, GoodEmpty
<1>5. Good(All, made)
  BY <1>2, <1>4
<1>6. RunKnowsItsWork /\ StableOnlyPromoted
  BY DEF SourceInit, RunKnowsItsWork, StableOnlyPromoted, Stable, NoRun, Branch
<1> QED
  BY <1>1, <1>5, <1>6 DEF SourceIInv

\* A step that adds at most one history, which is good, keeps all of them good.
LEMMA OneNewHistory ==
    ASSUME NEW n, NEW h, Good(All \cup {h}, n), All' \subseteq All \cup {h}
    PROVE  Good(All', n)
<1>1. Published \in All'
  BY DEF All, Published, Commit, Kind
<1> QED
  BY <1>1, GoodSubset

LEMMA NoNewHistory ==
    ASSUME NEW n, Good(All, n), All' \subseteq All \cup {{}}
    PROVE  Good(All', n)
  BY GoodEmpty, OneNewHistory

\* The steps that only change where the run is and what it has cloned.
LEMMA RunsAlone ==
    ASSUME SourceIInv, UNCHANGED <<remote, made, promoted>>,
           run'.work \in All \cup {{}}
    PROVE  Good(All', made') /\ StableOnlyPromoted'
<1>1. All' \subseteq All \cup {{}}
  BY DEF All, Histories, Published
<1>2. Good(All', made)
  BY <1>1, NoNewHistory DEF SourceIInv
<1> QED
  BY <1>2 DEF SourceIInv, StableOnlyPromoted, Stable

LEMMA FinishFacts ==
    ASSUME SourceTypeOK, NEW end \in {"none", "ok", "error", "aborted"}, Finish(end)
    PROVE  /\ run'.work = {} /\ run'.at = "idle"
           /\ run' \in [at : {"idle", "clone", "feature", "lts", "stable", "push", "stage",
                             "compare", "promote", "fetch", "adopt", "mirror"},
                mode : Modes \cup {"none"}, tag : Nat, onto : Branch, work : SUBSET Commit,
                total : Nat, idx : Nat, failed : Nat, end : {"none", "ok", "error", "aborted"}]
  BY DEF SourceTypeOK, Finish

LEMMA AbortKeeps ==
    ASSUME SourceIInv, NEW end \in {"none", "ok", "error", "aborted"}, Finish(end),
           UNCHANGED <<upstream, remote, made, promoted>>
    PROVE  SourceIInv'
<1>1. SourceTypeOK'
  BY FinishFacts DEF SourceIInv, SourceTypeOK
<1>2. Good(All', made') /\ StableOnlyPromoted'
  BY FinishFacts, RunsAlone DEF SourceIInv
<1>3. RunKnowsItsWork'
  BY FinishFacts DEF SourceIInv, RunKnowsItsWork
<1> QED
  BY <1>1, <1>2, <1>3 DEF SourceIInv

LEMMA DispatchKeeps ==
    ASSUME SourceIInv, NEW i \in Input, Dispatch(i)
    PROVE  SourceIInv'
<1>1. i.mode \in Modes /\ i.tag \in Nat /\ i.onto \in Branch
  BY BoundsAreNatural DEF Input
<1>2. run' = [at |-> Begin(i.mode), mode |-> i.mode, tag |-> i.tag, onto |-> i.onto,
              work |-> {}, total |-> 0, idx |-> 0, failed |-> 0, end |-> "none"]
  BY DEF Dispatch, NoRun
<1>3. Begin(i.mode) \in {"fetch", "stage", "mirror", "clone"}
  BY DEF Begin
<1>7. UNCHANGED <<upstream, remote, made, promoted>>
  BY DEF Dispatch
<1>4. SourceTypeOK'
  BY <1>1, <1>2, <1>3, <1>7 DEF SourceIInv, SourceTypeOK
<1>5. Good(All', made') /\ StableOnlyPromoted'
  BY <1>2, <1>7, RunsAlone
<1>6. RunKnowsItsWork'
  BY <1>2, <1>3 DEF RunKnowsItsWork, Begin
<1> QED
  BY <1>4, <1>5, <1>6 DEF SourceIInv

LEMMA RemoteInAll == \A b \in Branch : remote[b] \in All
  BY DEF All, Histories

LEMMA CloneKeeps ==
    ASSUME SourceIInv, Clone
    PROVE  SourceIInv'
<1> DEFINE own == remote[PushBranch(run.mode)]
           w   == IF own # {} THEN own ELSE remote["live"]
<1>1. PushBranch(run.mode) \in Branch /\ "live" \in Branch
  BY DEF PushBranch, Branch
<1>2. w \in All /\ w \in SUBSET Commit
  BY <1>1, RemoteInAll DEF SourceIInv, SourceTypeOK
<1>3. CASE w = {}
  <2>1. Finish("error") /\ UNCHANGED <<upstream, remote, made, promoted>>
    BY <1>3 DEF Clone
  <2> QED
    BY <2>1, AbortKeeps
<1>4. CASE w # {}
  <2>1. /\ run' = [run EXCEPT !.at = "feature", !.work = w]
        /\ UNCHANGED <<upstream, remote, made, promoted>>
    BY <1>4 DEF Clone
  <2> HIDE DEF own, w
  <2>2. run'.work = w /\ run'.at = "feature" /\ run'.mode = run.mode
    BY <2>1 DEF SourceIInv, SourceTypeOK
  <2>3. SourceTypeOK'
    BY <2>1, <1>2 DEF SourceIInv, SourceTypeOK
  <2>4. Good(All', made') /\ StableOnlyPromoted'
    BY <2>1, <2>2, <1>2, RunsAlone
  <2>5. run.mode # "catchup" => w = remote["live"]
    BY DEF PushBranch, own, w
  <2>6. RunKnowsItsWork'
    BY <2>1, <2>2, <2>5 DEF SourceIInv, RunKnowsItsWork, StableOnlyPromoted
  <2> QED
    BY <2>3, <2>4, <2>6 DEF SourceIInv
<1> QED
  BY <1>3, <1>4

\* Merging what ACK or linux-stable published gives a good history or fails.
LEMMA MergeFacts ==
    ASSUME SourceIInv, NEW t, t \subseteq Published, Root \in t, NEW at, Merge(t, at)
    PROVE  \E w \in SUBSET Commit :
               /\ run' = [run EXCEPT !.at = at, !.work = w]
               /\ Good(All \cup {w}, made')
               /\ Stable(w) = Stable(run.work) \cup Stable(t)
               /\ made' \in Nat
<1>1. Good(All, made) /\ made \in Nat /\ run.work \in All /\ run.work \in SUBSET Commit
  BY DEF SourceIInv, SourceTypeOK, All, Histories
<1>2. t \in SUBSET Commit
  BY DEF Published
<1>3. Good(All \cup {t}, made)
  BY <1>1, GoodPublished
<1>4. CASE /\ t \subseteq run.work \/ run.work \subseteq t
           /\ run' = [run EXCEPT !.at = at, !.work = @ \cup t]
           /\ UNCHANGED made
  <2>1. run.work \cup t = run.work \/ run.work \cup t = t
    BY <1>4
  <2>2. Good(All \cup {run.work \cup t}, made)
    <3>1. CASE run.work \cup t = run.work
      <4>1. All \cup {run.work \cup t} = All
        BY <1>1, <3>1
      <4> QED
        BY <1>1, <4>1
    <3>2. CASE run.work \cup t = t
      BY <1>3, <3>2
    <3> QED
      BY <2>1, <3>1, <3>2
  <2>3. Stable(run.work \cup t) = Stable(run.work) \cup Stable(t)
    BY DEF Stable
  <2> QED
    BY <1>1, <1>2, <1>4, <2>2, <2>3
<1>5. CASE /\ t \cap run.work # {}
           /\ run' = [run EXCEPT !.at = at, !.work = @ \cup t \cup {New("merge")}]
           /\ made' = made + 1
  <2> DEFINE u == run.work \cup t
             H == All \cup {t}
             w == u \cup {<<"merge", made + 1>>}
  <2>1. Good(H \cup {u}, made)
    <3>1. run.work \in H /\ t \in H /\ run.work \cap t # {}
      BY <1>1, <1>5
    <3> HIDE DEF H
    <3> QED
      BY <1>3, <3>1, GoodUnion DEF H
  <2>2. u \in H \cup {u}
    OBVIOUS
  <2>3. Good((H \cup {u}) \cup {w}, made + 1)
    BY <1>1, <2>1, <2>2, GoodExtended
  <2>4. Good(All \cup {w}, made + 1)
    <3>1. Published \in All
      BY DEF All
    <3>2. All \cup {w} \subseteq (H \cup {u}) \cup {w}
      OBVIOUS
    <3> HIDE DEF H, u, w
    <3> QED
      BY <2>3, <3>1, <3>2, GoodSubset
  <2>5. Stable(w) = Stable(run.work) \cup Stable(t)
    BY DEF Stable
  <2>6. w \in SUBSET Commit
    BY <1>1, <1>2 DEF Commit, Kind
  <2>7. run' = [run EXCEPT !.at = at, !.work = w] /\ made' = made + 1 /\ made' \in Nat
    BY <1>1, <1>5 DEF New
  <2> HIDE DEF w
  <2> QED
    BY <2>4, <2>5, <2>6, <2>7
<1> QED
  BY <1>4, <1>5 DEF Merge

\* A merge that leads to at, where a stable release has been merged only by a catch-up.
LEMMA MergeKeeps ==
    ASSUME SourceIInv, NEW t, t \subseteq Published, Root \in t,
           NEW at \in {"lts", "stable", "push"}, Merge(t, at),
           UNCHANGED <<upstream, remote, promoted>>,
           at = "stable" => run.mode = "catchup",
           run.mode # "catchup" =>
               /\ run.at \in {"feature", "lts", "push"}
               /\ Stable(t) = {}
    PROVE  SourceIInv'
<1>1. PICK w \in SUBSET Commit :
          /\ run' = [run EXCEPT !.at = at, !.work = w]
          /\ Good(All \cup {w}, made')
          /\ Stable(w) = Stable(run.work) \cup Stable(t)
          /\ made' \in Nat
  BY MergeFacts
<1>2. run'.at = at /\ run'.work = w /\ run'.mode = run.mode
  BY <1>1 DEF SourceIInv, SourceTypeOK
<1>3. SourceTypeOK'
  BY <1>1 DEF SourceIInv, SourceTypeOK
<1>4. All' \subseteq All \cup {w}
  BY <1>2 DEF All, Histories, Published
<1>5. Good(All', made')
  BY <1>1, <1>4, OneNewHistory
<1>6. RunKnowsItsWork' /\ StableOnlyPromoted'
  BY <1>1, <1>2 DEF SourceIInv, RunKnowsItsWork, StableOnlyPromoted, Stable
<1> QED
  BY <1>3, <1>5, <1>6 DEF SourceIInv

LEMMA FeatureHasNoStable == \A n : Stable(Series("feature", n)) = {}
  BY DEF Stable, Series, Root

LEMMA MergesKeep ==
    ASSUME SourceIInv, MergeFeature \/ MergeLts \/ MergeStable
    PROVE  SourceIInv'
<1>1. /\ upstream.feature \in Nat /\ upstream.lts \in Nat /\ run.tag \in Nat
      /\ upstream.lts \in Int
  BY DEF SourceIInv, SourceTypeOK
<1>2. UNCHANGED <<upstream, remote, promoted>>
  BY DEF MergeFeature, MergeLts, MergeStable
<1>3. CASE Finish("error") /\ UNCHANGED made
  BY <1>2, <1>3, AbortKeeps
<1>4. CASE run.at = "feature" /\ Merge(Series("feature", upstream.feature), "lts")
  <2>1. /\ Series("feature", upstream.feature) \subseteq Published
        /\ Root \in Series("feature", upstream.feature)
        /\ Stable(Series("feature", upstream.feature)) = {}
    BY <1>1, SeriesPublished, FeatureHasNoStable
  <2> QED
    BY <1>2, <1>4, <2>1, MergeKeeps
<1>5. CASE /\ run.at = "lts"
           /\ Merge(Lts(upstream.lts), IF run.mode = "catchup" THEN "stable" ELSE "push")
  <2>1. /\ Lts(upstream.lts) \subseteq Published
        /\ Root \in Lts(upstream.lts)
        /\ Stable(Lts(upstream.lts)) = {}
    BY <1>1, LtsPublished
  <2>2. CASE run.mode = "catchup"
    <3>1. Merge(Lts(upstream.lts), "stable")
      BY <1>5, <2>2
    <3> QED
      BY <1>2, <2>1, <2>2, <3>1, MergeKeeps
  <2>3. CASE run.mode # "catchup"
    <3>1. Merge(Lts(upstream.lts), "push")
      BY <1>5, <2>3
    <3> QED
      BY <1>2, <1>5, <2>1, <2>3, <3>1, MergeKeeps
  <2> QED
    BY <2>2, <2>3
<1>6. CASE run.at = "stable" /\ Merge(Series("stable", run.tag), "push")
  <2>1. run.mode = "catchup"
    BY <1>6 DEF SourceIInv, RunKnowsItsWork
  <2>2. /\ Series("stable", run.tag) \subseteq Published
        /\ Root \in Series("stable", run.tag)
    BY <1>1, SeriesPublished
  <2> QED
    BY <1>2, <1>6, <2>1, <2>2, MergeKeeps
<1> QED
  BY <1>3, <1>4, <1>5, <1>6 DEF MergeFeature, MergeLts, MergeStable

\* A branch gets a history that is good; the run may end.
LEMMA BranchKeeps ==
    ASSUME SourceIInv, NEW b \in Branch, NEW h \in SUBSET Commit,
           remote' = [remote EXCEPT ![b] = h],
           SourceTypeOK', run'.work \in {{}, run.work},
           Good(All \cup {h}, made')
    PROVE  Good(All', made')
<1>1. \A c \in Branch : remote'[c] = remote[c] \/ remote'[c] = h
  BY DEF SourceIInv, SourceTypeOK
<1>2. All' \subseteq (All \cup {h}) \cup {{}}
  BY <1>1 DEF All, Histories, Published
<1>3. Good((All \cup {h}) \cup {{}}, made')
  BY GoodEmpty
<1>4. Published \in All'
  BY DEF All, Published, Commit, Kind
<1> QED
  BY <1>2, <1>3, <1>4, GoodSubset

LEMMA FastForwardFacts ==
    ASSUME SourceIInv, NEW b \in Branch, FastForward(b), UNCHANGED <<upstream, made>>,
           promoted' \subseteq Commit
    PROVE  /\ SourceTypeOK' /\ Good(All', made') /\ RunKnowsItsWork'
           /\ \A c \in Branch : remote'[c] = remote[c] \/ (c = b /\ remote'[c] = run.work)
<1>1. PICK end \in {"ok", "error"} : Finish(end)
  BY DEF FastForward
<1>2. remote' = remote \/ remote' = [remote EXCEPT ![b] = run.work]
  BY DEF FastForward
<1>3. run.work \in All /\ run.work \in SUBSET Commit
  BY DEF SourceIInv, SourceTypeOK, All, Histories
<1>4. SourceTypeOK'
  <2>1. remote' \in [Branch -> SUBSET Commit]
    BY <1>2, <1>3 DEF SourceIInv, SourceTypeOK
  <2> QED
    BY <1>1, <2>1, FinishFacts DEF SourceIInv, SourceTypeOK
<1>5. run'.work = {} /\ run'.at = "idle"
  BY <1>1, FinishFacts DEF SourceIInv
<1>6. All \cup {run.work} = All
  BY <1>3
<1>7. Good(All', made')
  <2>1. CASE remote' = remote
    <3>1. All' \subseteq All \cup {{}}
      BY <1>5, <2>1 DEF All, Histories, Published
    <3> QED
      BY <3>1, NoNewHistory DEF SourceIInv
  <2>2. CASE remote' = [remote EXCEPT ![b] = run.work]
    BY <1>3, <1>4, <1>5, <1>6, <2>2, BranchKeeps DEF SourceIInv
  <2> QED
    BY <1>2, <2>1, <2>2
<1>8. RunKnowsItsWork'
  BY <1>5 DEF RunKnowsItsWork
<1>9. \A c \in Branch : remote'[c] = remote[c] \/ (c = b /\ remote'[c] = run.work)
  BY <1>2 DEF SourceIInv, SourceTypeOK
<1> QED
  BY <1>4, <1>7, <1>8, <1>9

LEMMA PushKeeps ==
    ASSUME SourceIInv, Push
    PROVE  SourceIInv'
<1> DEFINE b == PushBranch(run.mode)
<1>1. b \in Branch /\ FastForward(b) /\ UNCHANGED <<upstream, made, promoted>>
  BY DEF Push, PushBranch, Branch
<1>2. promoted' \subseteq Commit
  BY <1>1 DEF SourceIInv, SourceTypeOK
<1>3. /\ SourceTypeOK' /\ Good(All', made') /\ RunKnowsItsWork'
      /\ \A c \in Branch : remote'[c] = remote[c] \/ (c = b /\ remote'[c] = run.work)
  BY <1>1, <1>2, FastForwardFacts
<1>4. b = "live" => Stable(run.work) \subseteq promoted
  BY DEF Push, PushBranch, SourceIInv, RunKnowsItsWork
<1>5. "live" \in Branch
  BY DEF Branch
<1> HIDE DEF b
<1>6. StableOnlyPromoted'
  BY <1>1, <1>3, <1>4, <1>5 DEF SourceIInv, StableOnlyPromoted
<1> QED
  BY <1>3, <1>6 DEF SourceIInv

LEMMA PromoteKeeps ==
    ASSUME SourceIInv, Promote
    PROVE  SourceIInv'
<1>1. FastForward("live") /\ UNCHANGED <<upstream, made>> /\ "live" \in Branch
  BY DEF Promote, Branch
<1>2. promoted' = promoted \cup IF remote'["live"] = run.work THEN run.work ELSE {}
  BY DEF Promote
<1>3. promoted' \subseteq Commit
  BY <1>2 DEF SourceIInv, SourceTypeOK
<1>4. /\ SourceTypeOK' /\ Good(All', made') /\ RunKnowsItsWork'
      /\ \A c \in Branch : remote'[c] = remote[c] \/ (c = "live" /\ remote'[c] = run.work)
  BY <1>1, <1>3, FastForwardFacts
<1>5. StableOnlyPromoted'
  BY <1>1, <1>2, <1>4 DEF SourceIInv, StableOnlyPromoted, Stable
<1> QED
  BY <1>4, <1>5 DEF SourceIInv

LEMMA StagingKeeps ==
    ASSUME SourceIInv, CloneStaging \/ Compare
    PROVE  SourceIInv'
<1>1. UNCHANGED <<upstream, remote, made, promoted>>
  BY DEF CloneStaging, Compare
<1>2. CASE Finish("error")
  BY <1>1, <1>2, AbortKeeps
<1>3. ASSUME NEW at \in {"compare", "promote"}, NEW w \in All,
             w \in SUBSET Commit, run' = [run EXCEPT !.at = at, !.work = w]
      PROVE  SourceIInv'
  <2>1. run'.at = at /\ run'.work = w
    BY <1>3 DEF SourceIInv, SourceTypeOK
  <2>2. SourceTypeOK'
    BY <1>1, <1>3 DEF SourceIInv, SourceTypeOK
  <2>3. Good(All', made') /\ StableOnlyPromoted'
    BY <1>1, <1>3, <2>1, RunsAlone
  <2>4. RunKnowsItsWork'
    BY <2>1 DEF RunKnowsItsWork
  <2> QED
    BY <2>2, <2>3, <2>4 DEF SourceIInv
<1>4. CASE run' = [run EXCEPT !.at = "compare", !.work = remote["staging"]]
  <2>1. remote["staging"] \in All /\ remote["staging"] \in SUBSET Commit
    BY RemoteInAll DEF SourceIInv, SourceTypeOK, Branch
  <2> QED
    BY <1>3, <1>4, <2>1
<1>5. CASE run' = [run EXCEPT !.at = "promote"]
  <2>1. run.work \in All /\ run.work \in SUBSET Commit
    BY DEF SourceIInv, SourceTypeOK, All, Histories
  <2>2. run' = [run EXCEPT !.at = "promote", !.work = run.work]
    BY <1>5 DEF SourceIInv, SourceTypeOK
  <2> QED
    BY <1>3, <2>1, <2>2
<1> QED
  BY <1>2, <1>4, <1>5 DEF CloneStaging, Compare

LEMMA GoodLts ==
    ASSUME SourceIInv, NEW n \in Int
    PROVE  Good(All \cup {Lts(n)}, made) /\ Lts(n) \in SUBSET Commit
<1>1. Lts(n) \subseteq Published /\ (n \in Nat => Root \in Lts(n)) /\ (n < 0 => Lts(n) = {})
  BY LtsPublished
<1>2. Lts(n) \in SUBSET Commit
  BY <1>1 DEF Published
<1>3. Good(All, made)
  BY DEF SourceIInv
<1>4. CASE n \in Nat
  BY <1>1, <1>2, <1>3, <1>4, GoodPublished
<1>5. CASE n < 0
  BY <1>1, <1>2, <1>3, <1>5, GoodEmpty
<1> QED
  BY <1>4, <1>5

LEMMA FetchAckKeeps ==
    ASSUME SourceIInv, FetchAck
    PROVE  SourceIInv'
<1> DEFINE w == Lts(upstream.lts)
<1>1. upstream.lts \in Nat /\ upstream.lts \in Int /\ upstream.lts + 1 \in Nat
  BY DEF SourceIInv, SourceTypeOK
<1>2. /\ run' = [run EXCEPT !.at = "adopt", !.work = w, !.total = upstream.lts + 1]
      /\ UNCHANGED <<upstream, remote, made, promoted>>
  BY DEF FetchAck
<1>3. Good(All \cup {w}, made) /\ w \in SUBSET Commit /\ Stable(w) = {}
  BY <1>1, GoodLts, LtsPublished
<1> HIDE DEF w
<1>4. run'.at = "adopt" /\ run'.work = w /\ run'.mode = "adopt"
  BY <1>2 DEF FetchAck, RunKnowsItsWork, SourceIInv, SourceTypeOK
<1>5. SourceTypeOK'
  BY <1>1, <1>2, <1>3 DEF SourceIInv, SourceTypeOK
<1>6. All' \subseteq All \cup {w}
  BY <1>2, <1>4 DEF All, Histories, Published
<1>7. Good(All', made')
  BY <1>2, <1>3, <1>6, OneNewHistory
<1>8. RunKnowsItsWork' /\ StableOnlyPromoted'
  BY <1>2, <1>3, <1>4 DEF SourceIInv, RunKnowsItsWork, StableOnlyPromoted, Stable
<1> QED
  BY <1>5, <1>7, <1>8 DEF SourceIInv

\* An adopt puts a history without stable releases on live, or nothing.
LEMMA AdoptKeeps ==
    ASSUME SourceIInv, NEW h \in SUBSET Commit, Stable(h) = {},
           Good(All \cup {h}, made),
           remote' = remote \/ remote' = [remote EXCEPT !["live"] = h],
           UNCHANGED <<upstream, made, promoted>>, SourceTypeOK',
           run'.work \in {{}, run.work},
           run'.at = "idle" \/ (run'.at = run.at /\ run.at = "adopt" /\ run'.work = run.work
                                  /\ run'.mode = run.mode)
    PROVE  SourceIInv'
<1>1. "live" \in Branch /\ run.work \in All
  BY DEF Branch, All, Histories
<1>2. Good(All', made')
  <2>1. CASE remote' = remote
    BY <1>1, <2>1, RunsAlone
  <2>2. CASE remote' = [remote EXCEPT !["live"] = h]
    BY <1>1, <2>2, BranchKeeps
  <2> QED
    BY <2>1, <2>2
<1>3. RunKnowsItsWork'
  BY DEF SourceIInv, RunKnowsItsWork, Stable
<1>4. StableOnlyPromoted'
  BY <1>1 DEF SourceIInv, SourceTypeOK, StableOnlyPromoted, Stable
<1> QED
  BY <1>2, <1>3, <1>4 DEF SourceIInv

LEMMA AdoptsKeep ==
    ASSUME SourceIInv, Checkpoint \/ CheckpointFails \/ ConfirmHead
    PROVE  SourceIInv'
<1>1. Target \in Nat /\ run.failed + 1 \in Nat /\ "live" \in Branch
  BY StepIsPositive DEF SourceIInv, SourceTypeOK, Target, Branch
<1> DEFINE h == Oldest(Target)
<1>2. h \in SUBSET Commit /\ Stable(h) = {} /\ Good(All \cup {h}, made)
  BY <1>1, GoodLts, LtsPublished DEF Oldest
<1> HIDE DEF h
<1>3. UNCHANGED <<upstream, made, promoted>> /\ run.at = "adopt"
  BY DEF Checkpoint, CheckpointFails, ConfirmHead
<1>4. CASE Checkpoint
  <2>1. /\ remote' = [remote EXCEPT !["live"] = h]
        /\ run' = [run EXCEPT !.idx = Target]
    BY <1>4 DEF Checkpoint, h
  <2>2. SourceTypeOK'
    BY <1>1, <1>2, <1>3, <2>1 DEF SourceIInv, SourceTypeOK
  <2>3. run'.at = run.at /\ run'.work = run.work /\ run'.mode = run.mode
    BY <2>1 DEF SourceIInv, SourceTypeOK
  <2> QED
    BY <1>2, <1>3, <2>1, <2>2, <2>3, AdoptKeeps
<1>5. CASE CheckpointFails
  <2>1. /\ remote' = remote \/ remote' = [remote EXCEPT !["live"] = h]
        /\ run' = [run EXCEPT !.at = "idle", !.work = {}, !.failed = @ + 1, !.end = "error"]
    BY <1>5 DEF CheckpointFails, h
  <2>2. SourceTypeOK'
    BY <1>1, <1>2, <1>3, <2>1 DEF SourceIInv, SourceTypeOK
  <2>3. run'.at = "idle" /\ run'.work = {}
    BY <2>1 DEF SourceIInv, SourceTypeOK
  <2> QED
    BY <1>2, <1>3, <2>1, <2>2, <2>3, AdoptKeeps
<1>6. CASE ConfirmHead
  <2>1. remote' = [remote EXCEPT !["live"] = run.work] /\ Finish("ok")
    BY <1>6 DEF ConfirmHead
  <2>2. run'.at = "idle" /\ run'.work = {}
    BY <2>1, FinishFacts DEF SourceIInv
  <2>3. run.work \in All /\ run.work \in SUBSET Commit /\ Stable(run.work) = {}
    BY <1>3 DEF SourceIInv, SourceTypeOK, RunKnowsItsWork, All, Histories
  <2>4. SourceTypeOK'
    <3>1. remote' \in [Branch -> SUBSET Commit]
      BY <2>1, <2>3 DEF SourceIInv, SourceTypeOK
    <3> QED
      BY <1>3, <2>1, <3>1, FinishFacts DEF SourceIInv, SourceTypeOK
  <2>5. Good(All \cup {run.work}, made)
    <3>1. All \cup {run.work} = All
      BY <2>3
    <3> QED
      BY <3>1 DEF SourceIInv
  <2> QED
    BY <1>3, <2>1, <2>2, <2>3, <2>4, <2>5, AdoptKeeps
<1> QED
  BY <1>4, <1>5, <1>6

LEMMA MirrorKeeps ==
    ASSUME SourceIInv, MirrorPush
    PROVE  SourceIInv'
<1> DEFINE h == {<<"mirror", made + 1>>}
           b == run.onto
<1>1. Good(All, made) /\ made \in Nat /\ made + 1 \in Nat /\ b \in Branch
  BY DEF SourceIInv, SourceTypeOK
<1>2. Good(All \cup {h}, made + 1)
  BY <1>1, GoodMirror
<1>3. h \in SUBSET Commit /\ Stable(h) = {}
  BY <1>1 DEF Commit, Kind, Stable
<1>4. /\ remote' = [remote EXCEPT ![b] = h] /\ made' = made + 1 /\ Finish("ok")
      /\ UNCHANGED <<upstream, promoted>>
  BY DEF MirrorPush, New
<1> HIDE DEF h, b
<1>5. run'.at = "idle" /\ run'.work = {}
  BY <1>4, FinishFacts DEF SourceIInv
<1>6. SourceTypeOK'
  <2>1. remote' \in [Branch -> SUBSET Commit]
    BY <1>1, <1>3, <1>4 DEF SourceIInv, SourceTypeOK
  <2> QED
    BY <1>1, <1>4, <2>1, FinishFacts DEF SourceIInv, SourceTypeOK
<1>7. Good(All', made')
  BY <1>1, <1>2, <1>3, <1>4, <1>5, <1>6, BranchKeeps
<1>8. RunKnowsItsWork' /\ StableOnlyPromoted'
  BY <1>1, <1>3, <1>4, <1>5
     DEF SourceIInv, SourceTypeOK, RunKnowsItsWork, StableOnlyPromoted, Branch, Stable
<1> QED
  BY <1>6, <1>7, <1>8 DEF SourceIInv

\* Someone else puts a good history on a branch while the run is under way.
LEMMA OthersKeep ==
    ASSUME SourceIInv, NEW b \in Branch, NEW h \in SUBSET Commit,
           remote' = [remote EXCEPT ![b] = h], made' = made + 1,
           UNCHANGED <<upstream, run, promoted>>,
           Good(All \cup {h}, made + 1),
           b = "live" => Stable(h) \subseteq promoted
    PROVE  SourceIInv'
<1>1. SourceTypeOK'
  BY DEF SourceIInv, SourceTypeOK
<1>2. Good(All', made')
  BY <1>1, BranchKeeps
<1>3. RunKnowsItsWork'
  BY DEF SourceIInv, RunKnowsItsWork
<1>4. StableOnlyPromoted'
  BY DEF SourceIInv, SourceTypeOK, StableOnlyPromoted, Branch
<1> QED
  BY <1>1, <1>2, <1>3, <1>4 DEF SourceIInv

LEMMA HandPushKeeps ==
    ASSUME SourceIInv, NEW b \in Branch, HandPush(b)
    PROVE  SourceIInv'
<1> DEFINE h == remote[b] \cup {<<"human", made + 1>>}
<1>1. made \in Nat /\ remote[b] \in All /\ remote[b] \in SUBSET Commit
  BY RemoteInAll DEF SourceIInv, SourceTypeOK
<1>2. Good(All \cup {h}, made + 1)
  BY <1>1, GoodExtended DEF SourceIInv
<1>3. h \in SUBSET Commit /\ Stable(h) = Stable(remote[b])
  BY <1>1 DEF Commit, Kind, Stable
<1>4. /\ remote' = [remote EXCEPT ![b] = h] /\ made' = made + 1
      /\ UNCHANGED <<upstream, run, promoted>>
  BY DEF HandPush, New
<1> HIDE DEF h
<1> QED
  BY <1>2, <1>3, <1>4, OthersKeep DEF SourceIInv, StableOnlyPromoted

LEMMA ReconcileKeeps ==
    ASSUME SourceIInv, Reconcile
    PROVE  SourceIInv'
<1> DEFINE u == remote["staging"] \cup remote["live"]
           h == u \cup {<<"merge", made + 1>>}
<1>1. /\ made \in Nat /\ "live" \in Branch /\ "staging" \in Branch
      /\ remote["live"] \in All /\ remote["staging"] \in All /\ u \in SUBSET Commit
  BY RemoteInAll DEF SourceIInv, SourceTypeOK, Branch
<1>2. remote["staging"] \cap remote["live"] # {}
  BY DEF Reconcile
<1>3. Good(All \cup {u}, made)
  BY <1>1, <1>2, GoodUnion DEF SourceIInv
<1>4. Good((All \cup {u}) \cup {h}, made + 1)
  <2>1. u \in All \cup {u}
    OBVIOUS
  <2> QED
    BY <1>1, <1>3, <2>1, GoodExtended
<1>5. Good(All \cup {h}, made + 1)
  <2>1. Published \in All \cup {h} /\ All \cup {h} \subseteq (All \cup {u}) \cup {h}
    BY DEF All
  <2> HIDE DEF h, u
  <2> QED
    BY <1>4, <2>1, GoodSubset
<1>6. h \in SUBSET Commit
  BY <1>1 DEF Commit, Kind
<1>7. /\ remote' = [remote EXCEPT !["staging"] = h] /\ made' = made + 1
      /\ UNCHANGED <<upstream, run, promoted>>
  BY DEF Reconcile, New
<1> HIDE DEF h
<1> QED
  BY <1>1, <1>5, <1>6, <1>7, OthersKeep

LEMMA SourceInvNext == SourceIInv /\ [SourceNext]_sourceVars => SourceIInv'
<1> SUFFICES ASSUME SourceIInv, [SourceNext]_sourceVars PROVE SourceIInv'
  OBVIOUS
<1>1. CASE Clone
  BY <1>1, CloneKeeps
<1>2. CASE MergeFeature \/ MergeLts \/ MergeStable
  BY <1>2, MergesKeep
<1>3. CASE Push
  BY <1>3, PushKeeps
<1>4. CASE CloneStaging \/ Compare
  BY <1>4, StagingKeeps
<1>5. CASE Promote
  BY <1>5, PromoteKeeps
<1>6. CASE FetchAck
  BY <1>6, FetchAckKeeps
<1>7. CASE Checkpoint \/ CheckpointFails \/ ConfirmHead
  BY <1>7, AdoptsKeep
<1>8. CASE MirrorPush
  BY <1>8, MirrorKeeps
<1>9. CASE Abort
  <2>1. Finish("aborted") /\ UNCHANGED <<upstream, remote, made, promoted>>
    BY <1>9 DEF Abort
  <2> QED
    BY <2>1, AbortKeeps
<1>10. CASE Reconcile
  BY <1>10, ReconcileKeeps
<1>11. CASE \E i \in Input : Dispatch(i)
  BY <1>11, DispatchKeeps
<1>12. CASE \E b \in Branch : HandPush(b)
  BY <1>12, HandPushKeeps
<1>13. CASE \/ \E b \in DOMAIN upstream : Publish(b)
            \/ UNCHANGED sourceVars
  <2>1. UNCHANGED <<remote, run, made, promoted>>
    BY <1>13 DEF Publish, sourceVars
  <2>2. upstream' \in [{"lts", "feature", "stable"} -> Nat]
    BY <1>13 DEF Publish, sourceVars, SourceIInv, SourceTypeOK
  <2>3. All' = All /\ Good(All, made)
    BY <2>1 DEF All, Histories, SourceIInv
  <2>4. Good(All', made')
    BY <2>1, <2>3
  <2> QED
    BY <2>1, <2>2, <2>4
       DEF SourceIInv, SourceTypeOK, RunKnowsItsWork, StableOnlyPromoted
<1> QED
  BY <1>1, <1>2, <1>3, <1>4, <1>5, <1>6, <1>7, <1>8, <1>9, <1>10, <1>11, <1>12, <1>13
     DEF SourceNext, RunStep

-----------------------------------------------------------------------------
(* Theorems *)

LEMMA SourceInvariance == SourceSpec => []SourceIInv
  BY SourceInvInit, SourceInvNext, PTL DEF SourceSpec

\* The variables of the two workflows keep their types.
THEOREM SourceTypeCorrect == SourceSpec => []SourceTypeOK
<1>1. SourceIInv => SourceTypeOK
  BY DEF SourceIInv
<1> QED
  BY <1>1, SourceInvariance, PTL

\* A stable release reaches the branch that builds clone by a promotion only,
\* whatever runs fail half-way and whoever pushes meanwhile.
THEOREM StableNeedsPromotion == SourceSpec => []StableOnlyPromoted
<1>1. SourceIInv => StableOnlyPromoted
  BY DEF SourceIInv
<1> QED
  BY <1>1, SourceInvariance, PTL

\* However often branches are mirrored, adopted, merged and promoted, histories
\* without a common ancestor are never joined.
THEOREM HistoriesStayWhole == SourceSpec => []NeverGrafted
<1>1. SourceIInv => NeverGrafted
  BY DEF SourceIInv, Good, Sound, All, NeverGrafted
<1> QED
  BY <1>1, SourceInvariance, PTL

\* Every step but those of an adopt and a mirror run keeps the commits of both
\* branches, those included that arrived after the run had cloned or compared.
THEOREM OnlyForceLosesCommits == SourceSpec => OnlyForceRewrites
<1> DEFINE A == \A b \in Branch :
                   \/ remote[b] \subseteq remote'[b]
                   \/ run.mode = "adopt" /\ b = "live"
                   \/ run.mode = "mirror" /\ b = run.onto
<1>1. SourceIInv /\ [SourceNext]_sourceVars => A
  <2> SUFFICES ASSUME SourceIInv, [SourceNext]_sourceVars, NEW b \in Branch
               PROVE  \/ remote[b] \subseteq remote'[b]
                      \/ run.mode = "adopt" /\ b = "live"
                      \/ run.mode = "mirror" /\ b = run.onto
    OBVIOUS
  <2>1. remote \in [Branch -> SUBSET Commit]
    BY DEF SourceIInv, SourceTypeOK
  <2>2. CASE Push \/ Promote
    BY <2>1, <2>2 DEF Push, Promote, FastForward
  <2>3. CASE Checkpoint \/ CheckpointFails \/ ConfirmHead
    BY <2>1, <2>3 DEF Checkpoint, CheckpointFails, ConfirmHead, SourceIInv, RunKnowsItsWork
  <2>4. CASE MirrorPush
    BY <2>1, <2>4 DEF MirrorPush, SourceIInv, RunKnowsItsWork
  <2>5. CASE Reconcile \/ \E c \in Branch : HandPush(c)
    BY <2>1, <2>5 DEF Reconcile, HandPush
  <2>6. CASE UNCHANGED remote
    BY <2>6
  <2> QED
    BY <2>2, <2>3, <2>4, <2>5, <2>6
       DEF SourceNext, RunStep, Clone, MergeFeature, MergeLts, MergeStable, CloneStaging,
           Compare, FetchAck, Abort, Dispatch, Publish, sourceVars
<1> QED
  BY <1>1, SourceInvariance, PTL DEF SourceSpec, OnlyForceRewrites
=============================================================================
