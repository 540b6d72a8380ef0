------------------------------ MODULE TraceLog ------------------------------
(***************************************************************************)
(* What the trace buffer of one processor promises. Events stand in the     *)
(* order of their reservation. The reader takes the oldest ones out of the  *)
(* ring and reads them one by one; writers add to the end, and overwrite    *)
(* the oldest events of the ring, never those the reader has taken.         *)
(***************************************************************************)
EXTENDS Sequences, Naturals

VARIABLES
    batch,      \* the events that the reader has taken
    ring        \* the other unread ones; each is "open" until its writer is done

logVars == <<batch, ring>>

LogInit == batch = <<>> /\ ring = <<>>

Drop(s, i) == SubSeq(s, 1, i - 1) \o SubSeq(s, i + 1, Len(s))
From(s, i) == SubSeq(s, i, Len(s))

\* An event joins the others.
Reserve ==
    \/ ring' = Append(ring, "open") /\ UNCHANGED batch
    \/ ring = <<>> /\ batch' = Append(batch, "open") /\ UNCHANGED ring

\* Its writer keeps or discards it.
Settled(s, t) ==
    \E i \in DOMAIN s : s[i] = "open" /\ t \in {[s EXCEPT ![i] = "event"], Drop(s, i)}
Settle ==
    \/ Settled(ring, ring') /\ UNCHANGED batch
    \/ Settled(batch, batch') /\ UNCHANGED ring

\* The reader has read all it took and takes more.
TakeMore ==
    /\ batch = <<>>
    /\ \E n \in DOMAIN ring : batch' = SubSeq(ring, 1, n) /\ ring' = From(ring, n + 1)

Read ==
    /\ batch # <<>> /\ Head(batch) = "event"
    /\ batch' = Tail(batch)
    /\ UNCHANGED ring

Overwrite ==
    \E n \in DOMAIN ring :
        /\ \A i \in 1 .. n : ring[i] = "event"
        /\ ring' = From(ring, n + 1)
        /\ UNCHANGED batch

LogNext == Reserve \/ Settle \/ TakeMore \/ Read \/ Overwrite
=============================================================================
