--------------------------- MODULE AtomicManifest ---------------------------
(***************************************************************************)
(* What the checkpoint promises about concurrent writers of the manifest   *)
(* (build.yml: "engine.sh already handles concurrent writers"): a writer   *)
(* asks for one patch, the patch takes effect on the manifest as it is at  *)
(* that moment, in one step, and the writer is told of success in the very *)
(* step in which its patch took effect and never otherwise.  Nothing a     *)
(* writer does undoes what another writer's patch did to another key.      *)
(***************************************************************************)
EXTENDS Manifest

CONSTANT Job            \* the writers

VARIABLES
    entry,      \* the manifest on the main branch
    ask,        \* the patch each writer asked for
    status      \* what each writer knows of it

vars == <<entry, ask, status>>

Status == {"idle", "open", "done", "failed"}

Init ==
    /\ entry \in [Key -> Entry]
    /\ ask = [j \in Job |-> {}]
    /\ status = [j \in Job |-> "idle"]

Ask(j, p) ==
    /\ status[j] \in {"idle", "done"}
    /\ ask' = [ask EXCEPT ![j] = {p}]
    /\ status' = [status EXCEPT ![j] = "open"]
    /\ UNCHANGED entry

\* The patch takes effect; the writer may or may not learn of it.
Land(j) ==
    /\ status[j] = "open"
    /\ \E p \in ask[j] : entry' = [entry EXCEPT ![p.key] = PatchEntry(@, p)]
    /\ \E s \in {"open", "done", "failed"} : status' = [status EXCEPT ![j] = s]
    /\ UNCHANGED ask

GiveUp(j) ==
    /\ status[j] = "open"
    /\ status' = [status EXCEPT ![j] = "failed"]
    /\ UNCHANGED <<entry, ask>>

\* The writer goes away, or is ready for its next patch.
Leave(j) ==
    /\ status' = [status EXCEPT ![j] = "idle"]
    /\ ask' = [ask EXCEPT ![j] = {}]
    /\ UNCHANGED entry

\* A maintainer flags a pin as bad by hand.
Flag(k) ==
    /\ entry[k].good # NoRef
    /\ entry' = [entry EXCEPT ![k] = Blacklist(@, @.good)]
    /\ UNCHANGED <<ask, status>>

Next ==
    \/ \E j \in Job :
        \/ \E p \in Patch : Ask(j, p)
        \/ Land(j)
        \/ GiveUp(j)
        \/ Leave(j)
    \/ \E k \in Key : Flag(k)

Spec == Init /\ [][Next]_vars
=============================================================================
