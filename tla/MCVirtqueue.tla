---------------------------- MODULE MCVirtqueue -----------------------------
(***************************************************************************)
(* Small virtqueues of either layout, for TLC: as in the exported functions *)
(* of virtio_ring.c, packed_ring decides which layout's operations run.     *)
(***************************************************************************)
EXTENDS Virtqueue, Functions, TLC

CONSTANTS Layouts,          \* the values that packed_ring can have
          b1, b2            \* buffers

VARIABLES packed_ring, desc, avail, used, id, next, event

S == INSTANCE SplitRing
P == INSTANCE PackedRing

\* The features that are switched on together; one run covers each in both states.
Crossed == {[event |-> TRUE, indirect |-> FALSE], [event |-> FALSE, indirect |-> TRUE]}

None == <<>>        \* the memory of the layout that is not in use

Init ==
    /\ packed_ring \in Layouts
    /\ IF packed_ring THEN P!PackedInit /\ avail = None /\ used = None
                      ELSE S!SplitInit /\ id = None /\ next = None /\ event = None

Next ==
    /\ \/ packed_ring /\ P!PackedNext /\ UNCHANGED <<avail, used>>
       \/ ~packed_ring /\ S!SplitNext /\ UNCHANGED <<id, next, event>>
    /\ UNCHANGED packed_ring

vars == <<packed_ring, vq, drv, wire, dev, desc, avail, used, id, next, event>>

Spec == Init /\ [][Next]_vars

-----------------------------------------------------------------------------
(* The properties of the layout in use, which the layouts' modules explain. *)

\* The variables keep their types.
RingTypeOK == IF packed_ring THEN P!PackedTypeOK ELSE S!SplitTypeOK

\* No descriptor or buffer id is lost or given away twice.
NothingLeaks == IF packed_ring THEN P!IdsConserved ELSE S!DescriptorsConserved

\* The driver does not rest on used buffers.
NoLostInterrupt == IF packed_ring THEN P!NoLostInterrupt ELSE S!NoLostInterrupt

\* The device does not sleep on available buffers.
NoLostKick == IF packed_ring THEN P!NoLostKick ELSE S!NoLostKick

\* Buffers come back exactly once, used, and in the order of their completion.
Uncollected == IF packed_ring THEN P!Uncollected ELSE S!Uncollected
Held        == IF packed_ring THEN P!Held ELSE S!Held
Queue == INSTANCE RequestQueue WITH queue <-
    LET done == Uncollected IN [done |-> done, posted |-> Held \ Range(done)]
ImplementsQueue == Queue!QueueSpec

-----------------------------------------------------------------------------
(* States that differ in memory nobody will read again are the same to TLC. *)

Clear(f, live, dead) == [i \in DOMAIN f |-> IF i \in live THEN f[i] ELSE dead[i]]

SplitLive ==
    LET behind(i, j) == IF dev.at = "off" THEN {}
                        ELSE {(i - k) % vq.num : k \in 1 .. (i - j) % IdxMod}
        zero == [i \in DOMAIN desc |-> 0]
    IN  <<[avail EXCEPT !.ring = Clear(@, behind(avail.idx, dev.last_avail), zero),
                        !.used_event = IF vq.event THEN @ ELSE 0],
          [used EXCEPT !.ring = Clear(@, behind(used.idx, vq.last_used_idx), zero),
                       !.avail_event = IF vq.event THEN @ ELSE 0]>>

PackedLive ==
    LET end == P!Place(next.idx, next.wrap)
        flying == {P!Move(vq.last_used_idx, k).idx :
                      k \in 0 .. P!Distance(vq.last_used_idx, end) - 1}
        bits == [s \in DOMAIN desc |-> [desc[s] EXCEPT !.id = 0, !.more = FALSE]]
        free == [b \in DOMAIN id |-> [id[b] EXCEPT !.num = 0, !.last = 0]]
    IN  <<Clear(desc, flying, bits), Clear(id, P!HasData, free), next,
          [event EXCEPT !.driver_off = IF event.driver = "DESC" THEN @ ELSE P!Start,
                        !.device_off = IF event.device = "DESC" THEN @ ELSE P!Start]>>

View == <<packed_ring, vq, drv, wire, dev,
          IF packed_ring THEN PackedLive ELSE <<desc, SplitLive>>>>

Tokens == Permutations(Data)
=============================================================================
