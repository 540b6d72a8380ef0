----------------------------- MODULE Virtqueue ------------------------------
(***************************************************************************)
(* What the two layouts of a virtqueue (drivers/virtio/virtio_ring.c, in    *)
(* kernel/catchup-resolutions) have in common: the state of the driver that *)
(* calls them, the doorbell and the interrupt, and the device's phases. The *)
(* driver is external: it makes calls one at a time, as the comments of the *)
(* exported functions ask for, collects until get_buf returns NULL, and     *)
(* rests only with its callbacks enabled.                                   *)
(***************************************************************************)
EXTENDS Integers, FiniteSets, FiniteSetsExt

CONSTANTS
    Data, NoData,       \* buffers (tokens) and the token that is no token
    Sizes,              \* ring sizes
    IdxMod,             \* 2^16 in the code: where ring indexes wrap around
    MaxSg,              \* bound: scatterlist entries per buffer
    Features,           \* subset of [event : BOOLEAN, indirect : BOOLEAN]
    Faults              \* subset of {"map", "alloc", "notify", "enable"}

ASSUME BuffersAreTokens == NoData \notin Data
ASSUME SizesFitIndexes ==
    /\ IdxMod \in Nat \ {0} /\ MaxSg \in Nat \ {0}
    /\ \A n \in Sizes : n \in Nat \ {0} /\ 2 * n <= IdxMod /\ IdxMod % n = 0
ASSUME FeaturesAreFlags == Features \subseteq [event : BOOLEAN, indirect : BOOLEAN]

VARIABLES
    vq,         \* struct vring_virtqueue
    drv,        \* where the calling driver is
    wire,       \* a doorbell (kick) and an interrupt under way
    dev         \* the device

Vq(n, f) ==
    [num |-> n, free_head |-> 0, num_free |-> n, last_used_idx |-> 0,
     num_added |-> 0, event_triggered |-> FALSE, broken |-> FALSE,
     event |-> f.event, indirect |-> f.indirect]

\* at: idle (rests), drain (collects), poll and delayed (inside enable_cb and
\* enable_cb_delayed), kick (inside add, about to kick), reset (inside resize).
DriverAwake == [at |-> "drain", size |-> 0]
QuietWire   == [kick |-> FALSE, irq |-> FALSE]

\* Between two calls, and where it may stop making them: what it added is kicked.
CanCall == drv.at = "drain"
CanStop == drv.at = "drain" /\ vq.num_added = 0

\* Mutant: num_free of the old ring.
ReinitKeepsFree(v, n) ==
    [v EXCEPT !.num = n, !.last_used_idx = 0, !.num_added = 0, !.event_triggered = FALSE]

\* virtqueue_init, on a new ring and on one that is used again.
Reinit(v, n) == [v EXCEPT !.num = n, !.num_free = n, !.last_used_idx = 0,
                          !.num_added = 0, !.event_triggered = FALSE]

\* vring_need_event of the virtio header.
need_event(event, new, old) == (new - event - 1) % IdxMod < (new - old) % IdxMod

UsesIndirect(sg) == vq.indirect /\ sg > 1 /\ vq.num_free > 0

-----------------------------------------------------------------------------
\* virtqueue_kick once num_added is reset: rings the doorbell if need be. A
\* doorbell that fails breaks the queue.
Kick(need) ==
    /\ drv' = [drv EXCEPT !.at = IF @ = "kick" THEN "drain" ELSE @]
    /\ \/ /\ vq' = [vq EXCEPT !.num_added = 0]
          /\ wire' = [wire EXCEPT !.kick = @ \/ (need /\ ~vq.broken)]
       \/ /\ need /\ "notify" \in Faults
          /\ vq' = [vq EXCEPT !.num_added = 0, !.broken = TRUE]
          /\ UNCHANGED wire
    /\ UNCHANGED dev

\* vring_interrupt; more says whether there is a used buffer to collect. The
\* callback waits for the driver's lock while the driver is at work.
Interrupt(more) ==
    /\ wire.irq
    /\ vq' = [vq EXCEPT !.event_triggered = @ \/ (vq.event /\ more /\ ~vq.broken)]
    /\ IF drv.at = "idle"
       THEN /\ wire' = [wire EXCEPT !.irq = FALSE]
            /\ drv' = [drv EXCEPT !.at = IF more /\ ~vq.broken THEN "drain" ELSE @]
       ELSE UNCHANGED <<drv, wire>>
    /\ UNCHANGED dev

\* The driver comes by to collect on its own account.
Enter ==
    /\ drv.at = "idle"
    /\ drv' = [drv EXCEPT !.at = "drain"]
    /\ UNCHANGED <<vq, wire, dev>>

\* The doorbell wakes the device.
DevWake(d) ==
    /\ dev.at = "sleep" /\ wire.kick
    /\ wire' = [wire EXCEPT !.kick = FALSE]
    /\ dev' = d
    /\ UNCHANGED <<vq, drv>>

\* virtqueue_resize up to the stopped device: the driver has quiesced its own
\* calls, and disable_vq_and_reset leaves no kick and no interrupt behind.
ResizeStart(d) ==
    /\ drv.at = "drain"
    /\ \E n \in Sizes \ {vq.num} :
          drv' = [drv EXCEPT !.at = "reset", !.size = n]
    /\ wire' = QuietWire
    /\ dev' = d
    /\ UNCHANGED vq

\* Its end: the device is started again, or left off (-EBUSY).
ResizeEnd(d) ==
    /\ drv.at = "reset"
    /\ drv' = [drv EXCEPT !.at = "drain", !.size = 0]
    /\ \/ dev' = [d EXCEPT !.at = "run"]
       \/ "enable" \in Faults /\ dev' = d
    /\ UNCHANGED wire

\* The driver rests, and no interrupt is on its way.
DriverRests == drv.at = "idle" /\ ~wire.irq /\ ~vq.broken

\* The device rests, and nobody has rung or owes it a kick.
DeviceRests == dev.at = "sleep" /\ ~wire.kick /\ vq.num_added = 0 /\ ~vq.broken
=============================================================================
