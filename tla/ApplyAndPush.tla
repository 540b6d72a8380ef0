---------------------------- MODULE ApplyAndPush ----------------------------
(***************************************************************************)
(* apply_and_push of kernel/checkpoint/engine.sh: every job that has a     *)
(* patch for the manifest fetches the tip of main, patches it in its own   *)
(* clone, commits, and pushes; a push that is not a fast-forward is        *)
(* answered by starting over from a new fetch, five times at most.         *)
(*                                                                         *)
(* Jobs run on separate machines and share the main branch alone.  Nothing *)
(* locks it: the only atomic steps are git's own fetch and push.           *)
(***************************************************************************)
EXTENDS Manifest, Sequences

CONSTANTS
    Job,            \* the jobs that may run an engine at the same time
    MaxAttempts,    \* max_attempts of apply_and_push
    Faults,         \* failures of the environment that the run admits
    Outside,        \* pushes to main by people that the run admits
    InitTrees       \* the trees main may hold at the start

ASSUME MaxAttemptsAssumption == MaxAttempts \in Nat \ {0}
ASSUME InitTreesAssumption == InitTrees \subseteq Tree
ASSUME FaultsAssumption == Faults \subseteq
    {"fetch", "push", "reply", "kill", "lookup", "infra", "rebase", "issue"}
ASSUME OutsideAssumption == Outside \subseteq {"commit", "flag"}

VARIABLES
    main,       \* the tree at the tip of the main branch
    clone,      \* the tree each job has committed and not pushed
    behind,     \* the jobs whose commit no longer sits on the tip of main
    ask,        \* the patch a job asked for: {} or {p}
    attempt,    \* the attempt of apply_and_push the job is in
    loop        \* where the job is in apply_and_push

pushVars == <<main, clone, behind, ask, attempt, loop>>

Loop == {"idle", "fetch", "push", "acked", "failed"}

PushTypeOK ==
    /\ main \in Tree
    /\ clone \in [Job -> Tree]
    /\ behind \in SUBSET Job
    /\ ask \in [Job -> SUBSET Patch]
    /\ attempt \in [Job -> 1 .. MaxAttempts]
    /\ loop \in [Job -> Loop]

PushInit ==
    /\ main \in InitTrees
    /\ clone = [j \in Job |-> EmptyTree]
    /\ behind = {}
    /\ ask = [j \in Job |-> {}]
    /\ attempt = [j \in Job |-> 1]
    /\ loop = [j \in Job |-> "idle"]

-----------------------------------------------------------------------------

\* A push of someone else leaves every unpushed commit but its own off the tip.
Overtakes(Pusher) == behind' = {i \in Job : loop[i] = "push"} \ Pusher

\* Nothing is left to push; the next fetch starts over in any case.
Forget(j) ==
    /\ clone' = [clone EXCEPT ![j] = EmptyTree]
    /\ behind' = behind \ {j}

\* apply_and_push is called with one patch.
Call(j, p) ==
    /\ loop[j] = "idle"
    /\ ask' = [ask EXCEPT ![j] = {p}]
    /\ attempt' = [attempt EXCEPT ![j] = 1]
    /\ loop' = [loop EXCEPT ![j] = "fetch"]
    /\ UNCHANGED <<main, clone, behind>>

\* Mutant: HEAD moves to FETCH_HEAD and the files stay (reset --soft).
FetchWithSoftReset(j) ==
    /\ loop[j] = "fetch"
    /\ \E p \in ask[j] :
        /\ loop' = [loop EXCEPT ![j] = "push"]
        /\ clone' = [clone EXCEPT ![j] =
                        PatchTree(IF attempt[j] = 1 THEN main ELSE @, p)]
        /\ behind' = behind \ {j}
    /\ UNCHANGED <<main, ask, attempt>>

\* git fetch, reset --hard FETCH_HEAD, patch, git add, git commit.  When the
\* patch changed nothing there is nothing to commit, and that counts as success.
Fetch(j) ==
    /\ loop[j] = "fetch"
    /\ \E p \in ask[j] :
        IF PatchTree(main, p) = main
        THEN /\ loop' = [loop EXCEPT ![j] = "acked"]
             /\ Forget(j)
        ELSE /\ loop' = [loop EXCEPT ![j] = "push"]
             /\ clone' = [clone EXCEPT ![j] = PatchTree(main, p)]
             /\ behind' = behind \ {j}
    /\ UNCHANGED <<main, ask, attempt>>

\* The fetch runs bare under "set -e": its failure ends the engine, unretried.
FetchFails(j) ==
    /\ "fetch" \in Faults
    /\ loop[j] = "fetch"
    /\ loop' = [loop EXCEPT ![j] = "failed"]
    /\ UNCHANGED <<main, clone, behind, ask, attempt>>

\* Mutant: the push is forced.
PushForced(j) ==
    /\ loop[j] = "push"
    /\ main' = clone[j]
    /\ clone' = [clone EXCEPT ![j] = EmptyTree]
    /\ Overtakes({j})
    /\ loop' = [loop EXCEPT ![j] = "acked"]
    /\ UNCHANGED <<ask, attempt>>

\* The push is a fast-forward: the server takes it and the job hears so.
PushAccepted(j) ==
    /\ loop[j] = "push"
    /\ j \notin behind
    /\ main' = clone[j]
    /\ clone' = [clone EXCEPT ![j] = EmptyTree]
    /\ Overtakes({j})
    /\ loop' = [loop EXCEPT ![j] = "acked"]
    /\ UNCHANGED <<ask, attempt>>

\* Mutants: one attempt too few, one too many, and no bound at all.
AgainTooFew(j) ==
    IF attempt[j] + 1 < MaxAttempts
    THEN /\ attempt' = [attempt EXCEPT ![j] = @ + 1]
         /\ loop' = [loop EXCEPT ![j] = "fetch"]
    ELSE /\ loop' = [loop EXCEPT ![j] = "failed"]
         /\ UNCHANGED attempt

AgainTooOften(j) ==
    IF attempt[j] <= MaxAttempts
    THEN /\ attempt' = [attempt EXCEPT ![j] = @ + 1]
         /\ loop' = [loop EXCEPT ![j] = "fetch"]
    ELSE /\ loop' = [loop EXCEPT ![j] = "failed"]
         /\ UNCHANGED attempt

AgainForever(j) ==
    /\ loop' = [loop EXCEPT ![j] = "fetch"]
    /\ UNCHANGED attempt

\* A failed push is worth another round while attempts are left.
Again(j) ==
    IF attempt[j] < MaxAttempts
    THEN /\ attempt' = [attempt EXCEPT ![j] = @ + 1]
         /\ loop' = [loop EXCEPT ![j] = "fetch"]
    ELSE /\ loop' = [loop EXCEPT ![j] = "failed"]
         /\ UNCHANGED attempt

\* The push is no fast-forward any more, or the network or the server fails it.
PushRejected(j) ==
    /\ loop[j] = "push"
    /\ j \in behind \/ "push" \in Faults
    /\ behind' = behind \ {j}
    /\ Again(j)
    /\ UNCHANGED <<main, clone, ask>>

\* The server takes the push and the answer is lost: the job tries again.
PushReplyLost(j) ==
    /\ "reply" \in Faults
    /\ loop[j] = "push"
    /\ j \notin behind
    /\ main' = clone[j]
    /\ clone' = [clone EXCEPT ![j] = EmptyTree]
    /\ Overtakes({j})
    /\ Again(j)
    /\ UNCHANGED ask

\* apply_and_push has returned, or the engine that called it is gone.
Hangup(j) ==
    /\ loop' = [loop EXCEPT ![j] = "idle"]
    /\ ask' = [ask EXCEPT ![j] = {}]
    /\ attempt' = [attempt EXCEPT ![j] = 1]
    /\ Forget(j)
    /\ UNCHANGED main

Return(j) ==
    /\ loop[j] \in {"acked", "failed"}
    /\ Hangup(j)

\* The job is killed, or its machine is lost.
Die(j) ==
    /\ "kill" \in Faults
    /\ Hangup(j)

\* Somebody pushes work of their own to main.
OutsideCommit ==
    /\ "commit" \in Outside
    /\ Overtakes({})
    /\ UNCHANGED <<main, clone, ask, attempt, loop>>

\* A maintainer flags the pin of a key as bad and pushes that.
HandFlag(k) ==
    /\ "flag" \in Outside
    /\ main.entry[k].good # NoRef
    /\ main' = [main EXCEPT !.entry[k] = Blacklist(@, @.good)]
    /\ Overtakes({})
    /\ UNCHANGED <<clone, ask, attempt, loop>>

Attempt(j) ==
    \/ Fetch(j)
    \/ FetchFails(j)
    \/ PushAccepted(j)
    \/ PushRejected(j)
    \/ PushReplyLost(j)

PushNext ==
    \/ \E j \in Job :
        \/ \E p \in Patch : Call(j, p)
        \/ Attempt(j)
        \/ Return(j)
        \/ Die(j)
    \/ OutsideCommit
    \/ \E k \in Key : HandFlag(k)

PushSpec == PushInit /\ [][PushNext]_pushVars

\* The loop of a job runs on by itself; nobody has to call it or to push.
LivePushSpec == PushSpec /\ \A j \in Job : WF_pushVars(Attempt(j))

-----------------------------------------------------------------------------
(* Properties *)

\* A job whose commit still sits on the tip of main would push exactly its own
\* patch of what main holds: reset --hard to FETCH_HEAD comes before each patch.
TipCommitIsPatchOfMain ==
    \A j \in Job : loop[j] = "push" /\ j \notin behind =>
        \A p \in ask[j] : clone[j] = PatchTree(main, p)

\* Every call ends, in success or in failure, however often pushes fail or are
\* overtaken: the attempts are bounded and no job waits for another.
EveryCallReturns ==
    \A j \in Job : (loop[j] = "fetch") ~> (loop[j] \in {"acked", "failed", "idle"})

\* What a writer in this place of apply_and_push knows of its patch.
Known(l) == CASE l \in {"fetch", "push"} -> "open"
              [] l = "acked" -> "done"
              [] OTHER -> l

StatusOf(l) == [j \in Job |-> Known(l[j])]

Atomic == INSTANCE AtomicManifest WITH
    entry <- main.entry, ask <- ask, status <- StatusOf(loop)

\* apply_and_push makes each patch one atomic change of the current manifest, and
\* reports success only in the step in which the patch took effect: no interleaving
\* of engines, no lost answer and no outside push loses or mangles an update.
NoLostUpdate == Atomic!Spec
=============================================================================
