----------------------------- MODULE SplitRing ------------------------------
(***************************************************************************)
(* The split layout of drivers/virtio/virtio_ring.c: a table of descriptors *)
(* whose free ones are chained by desc_extra[].next, a ring of heads that   *)
(* the driver makes available and a ring of heads that the device has used. *)
(* Each side writes its own ring and index and reads the other's; whom to   *)
(* notify is agreed on by flags, or by event indexes.                       *)
(***************************************************************************)
EXTENDS Virtqueue, Functions

VARIABLES
    desc,       \* vring.desc, desc_extra and desc_state
    avail,      \* written by the driver: avail ring, its flag, used_event
    used        \* written by the device: used ring, its flag, avail_event

splitVars == <<vq, drv, wire, dev, desc, avail, used>>

Slots(n) == 0 .. n - 1

\* vring_alloc_desc_extra: the last descriptor's next stays 0.
FreshDesc(n) ==
    [i \in Slots(n) |-> [next |-> IF i < n - 1 THEN i + 1 ELSE 0, chained |-> FALSE,
                         data |-> NoData, indir |-> FALSE, mapped |-> FALSE]]

\* virtqueue_vring_init_split with a callback: no_interrupt is the shadow of the
\* flag that the device reads (flag).
FreshAvail(n) == [ring |-> [i \in Slots(n) |-> 0], idx |-> 0, no_interrupt |-> FALSE,
                  flag |-> FALSE, used_event |-> 0]
FreshUsed(n)  == [ring |-> [i \in Slots(n) |-> 0], idx |-> 0, no_notify |-> FALSE,
                  avail_event |-> 0]

\* signalled is the used index at the device's last decision to interrupt.
DeviceOff == [at |-> "off", last_avail |-> 0, taken |-> {}, signalled |-> 0]

SplitInit ==
    /\ \E n \in Sizes, f \in Features :
          /\ vq = Vq(n, f)
          /\ desc = FreshDesc(n) /\ avail = FreshAvail(n) /\ used = FreshUsed(n)
    /\ drv = DriverAwake /\ wire = QuietWire
    /\ dev = [DeviceOff EXCEPT !.at = "run"]

\* The first k descriptors of the list that starts at i.
List(i, k) == LET d[j \in 0 .. k - 1] == IF j = 0 THEN i ELSE desc[d[j - 1]].next IN d

\* The descriptors of a buffer, from its head as far as VRING_DESC_F_NEXT leads.
Chain(head) ==
    LET d == List(head, vq.num)
        n == Min({j \in DOMAIN d : ~desc[d[j]].chained})
    IN  [j \in 0 .. n |-> d[j]]

more_used == vq.last_used_idx # used.idx

-----------------------------------------------------------------------------
\* Mutant: one buffer too late.
MustKickLate == vq.num_added + 1 = IdxMod

\* "This is very unlikely, but theoretically possible": the last add before num_added
\* would wrap around kicks.
MustKick == vq.num_added + 1 = IdxMod - 1

\* virtqueue_add_split with sg entries; ind: through an indirect table. The table
\* is not used when its allocation fails.
Add(t, sg, ind) ==
    LET k    == IF ind THEN 1 ELSE sg
        list == List(vq.free_head, k)
        last == list[k - 1]
    IN  /\ CanCall /\ ~vq.broken
        /\ \A i \in DOMAIN desc : desc[i].data # t
        /\ IF UsesIndirect(sg) THEN ind \/ "alloc" \in Faults ELSE ~ind
        /\ vq.num_free >= k
        /\ desc' = [i \in DOMAIN desc |->
              IF i \in Range(list)
              THEN [desc[i] EXCEPT !.chained = (i # last), !.mapped = TRUE,
                                   !.data = IF i = vq.free_head THEN t ELSE @,
                                   !.indir = (ind /\ i = vq.free_head)]
              ELSE desc[i]]
        /\ avail' = [avail EXCEPT !.ring[avail.idx % vq.num] = vq.free_head,
                                  !.idx = (@ + 1) % IdxMod]
        /\ vq' = [vq EXCEPT !.free_head = desc[last].next, !.num_free = @ - k,
                            !.num_added = @ + 1]
        /\ drv' = [drv EXCEPT !.at = IF MustKick THEN "kick" ELSE @]
        /\ UNCHANGED <<wire, dev, used>>

\* No room: the host is told if the buffer has outgoing parts.
AddFull(sg) ==
    /\ CanCall /\ ~vq.broken
    /\ vq.num_free < sg
    /\ UsesIndirect(sg) => "alloc" \in Faults
    /\ wire' = [wire EXCEPT !.kick = TRUE]
    /\ UNCHANGED <<vq, drv, dev, desc, avail, used>>

\* The mapping of a later entry fails, and the first k are unmapped again.
AddMapFails(sg, k) ==
    /\ "map" \in Faults
    /\ CanCall /\ ~vq.broken
    /\ k < sg /\ sg <= vq.num_free
    /\ UsesIndirect(sg) => "alloc" \in Faults
    /\ desc' = [i \in DOMAIN desc |->
                  IF i \in Range(List(vq.free_head, k)) THEN [desc[i] EXCEPT !.chained = TRUE]
                                                        ELSE desc[i]]
    /\ UNCHANGED <<vq, drv, wire, dev, avail, used>>

\* virtqueue_kick_prepare_split and the kick; add makes it before num_added wraps.
KickSplit ==
    /\ CanCall \/ drv.at = "kick"
    /\ vq.num_added > 0
    /\ LET old == (avail.idx - vq.num_added) % IdxMod
       IN  Kick(IF vq.event THEN need_event(used.avail_event, avail.idx, old)
                            ELSE ~used.no_notify)
    /\ UNCHANGED <<desc, avail, used>>

\* detach_buf_split, with the rest of the queue's new state in v.
Detach(head, v) ==
    LET chain == Chain(head)
        last  == chain[Max(DOMAIN chain)]
    IN  /\ desc' = [i \in DOMAIN desc |->
              IF i \in Range(chain)
              THEN [desc[i] EXCEPT !.mapped = FALSE, !.indir = FALSE,
                                   !.data = IF i = head THEN NoData ELSE @,
                                   !.next = IF i = last THEN vq.free_head ELSE @]
              ELSE desc[i]]
        /\ vq' = [v EXCEPT !.free_head = head, !.num_free = @ + Cardinality(DOMAIN chain)]

\* Mutant: last_used_idx is not advanced.
GetBufAgain ==
    LET head == used.ring[vq.last_used_idx % vq.num]
    IN  /\ CanCall /\ ~vq.broken /\ more_used /\ desc[head].data # NoData
        /\ Detach(head, vq)
        /\ UNCHANGED <<drv, wire, dev, avail, used>>

\* virtqueue_get_buf_ctx_split.
GetBuf ==
    LET head == used.ring[vq.last_used_idx % vq.num]
        next == (vq.last_used_idx + 1) % IdxMod
    IN  /\ CanCall /\ ~vq.broken /\ more_used
        /\ IF desc[head].data = NoData      \* BAD_RING
           THEN vq' = [vq EXCEPT !.broken = TRUE] /\ UNCHANGED <<desc, avail>>
           ELSE /\ Detach(head, [vq EXCEPT !.last_used_idx = next])
                /\ avail' = [avail EXCEPT !.used_event = IF avail.no_interrupt THEN @ ELSE next]
        /\ UNCHANGED <<drv, wire, dev, used>>

\* virtqueue_disable_cb_split.
DisableCb ==
    /\ CanCall /\ ~avail.no_interrupt
    /\ avail' = [avail EXCEPT !.no_interrupt = TRUE,
          !.used_event = IF vq.event /\ ~vq.event_triggered THEN 0 ELSE @,
          !.flag = IF ~vq.event /\ ~vq.event_triggered THEN TRUE ELSE @]
    /\ UNCHANGED <<vq, drv, wire, dev, desc, used>>

\* The enabling half of both functions below.
Enable(at, event) ==
    /\ CanStop
    /\ drv' = [drv EXCEPT !.at = at]
    /\ vq' = [vq EXCEPT !.event_triggered = FALSE]
    /\ avail' = [avail EXCEPT !.no_interrupt = FALSE, !.used_event = event % IdxMod,
                              !.flag = IF avail.no_interrupt /\ ~vq.event THEN FALSE ELSE @]
    /\ UNCHANGED <<wire, dev, desc, used>>

\* virtqueue_enable_cb_prepare, then virtqueue_poll: FALSE when it sees more.
EnableCb == Enable("poll", vq.last_used_idx)

\* Mutant: callbacks are enabled, but the ring is not looked at again.
PollBlind ==
    /\ drv.at = "poll"
    /\ drv' = [drv EXCEPT !.at = "idle"]
    /\ UNCHANGED <<vq, wire, dev, desc, avail, used>>

Poll ==
    /\ drv.at = "poll"
    /\ drv' = [drv EXCEPT !.at = IF more_used /\ ~vq.broken THEN "drain" ELSE "idle"]
    /\ UNCHANGED <<vq, wire, dev, desc, avail, used>>

\* virtqueue_enable_cb_delayed: wait for three quarters of the buffers.
Outstanding == (avail.idx - vq.last_used_idx) % IdxMod
Delay == (Outstanding * 3) \div 4
EnableCbDelayed == Enable("delayed", vq.last_used_idx + Delay)
PollDelayed ==
    /\ drv.at = "delayed"
    /\ drv' = [drv EXCEPT !.at = IF (used.idx - vq.last_used_idx) % IdxMod > Delay
                                 THEN "drain" ELSE "idle"]
    /\ UNCHANGED <<vq, wire, dev, desc, avail, used>>

\* A driver that collected with its callbacks enabled all the time.
Leave ==
    /\ CanStop /\ ~avail.no_interrupt
    /\ ~more_used \/ vq.broken
    /\ drv' = [drv EXCEPT !.at = "idle"]
    /\ UNCHANGED <<vq, wire, dev, desc, avail, used>>

\* virtqueue_detach_unused_buf_split, called by virtqueue_resize until it returns NULL.
HasData == {i \in DOMAIN desc : desc[i].data # NoData}
DetachUnused ==
    /\ drv.at = "reset" /\ HasData # {}
    /\ Detach(Min(HasData), vq)
    /\ avail' = [avail EXCEPT !.idx = (@ - 1) % IdxMod]
    /\ UNCHANGED <<drv, wire, dev, used>>

\* virtqueue_resize_split: a new ring, or the old one again if that fails.
ResizeSplit ==
    /\ HasData = {}
    /\ \/ /\ vq' = [Reinit(vq, drv.size) EXCEPT !.free_head = 0]
          /\ desc' = FreshDesc(drv.size)
          /\ avail' = FreshAvail(drv.size) /\ used' = FreshUsed(drv.size)
       \/ /\ "alloc" \in Faults
          /\ vq' = Reinit(vq, vq.num)
          /\ avail' = [FreshAvail(vq.num) EXCEPT !.ring = avail.ring]
          /\ used' = [FreshUsed(vq.num) EXCEPT !.ring = used.ring]
          /\ UNCHANGED desc
    /\ ResizeEnd(DeviceOff)

Driver ==
    \/ \E t \in Data, sg \in 1 .. MaxSg, ind \in BOOLEAN : Add(t, sg, ind)
    \/ \E sg \in 1 .. MaxSg : AddFull(sg) \/ \E k \in 1 .. MaxSg : AddMapFails(sg, k)
    \/ KickSplit \/ GetBuf \/ DisableCb \/ EnableCb \/ Poll
    \/ EnableCbDelayed \/ PollDelayed \/ Leave \/ DetachUnused \/ ResizeSplit
    \/ /\ Enter \/ Interrupt(more_used) \/ ResizeStart(DeviceOff)
       /\ UNCHANGED <<desc, avail, used>>

-----------------------------------------------------------------------------
(* The device, external: it takes heads in order, uses them in any order.   *)

DevTake ==
    /\ dev.at = "run" /\ dev.last_avail # avail.idx
    /\ dev' = [dev EXCEPT !.taken = @ \cup {avail.ring[dev.last_avail % vq.num]},
                          !.last_avail = (@ + 1) % IdxMod]
    /\ UNCHANGED <<vq, drv, wire, desc, avail, used>>

\* Out of work, it asks for a doorbell and looks once more before it sleeps.
DevEnable ==
    /\ dev.at = "run" /\ dev.last_avail = avail.idx
    /\ used' = [used EXCEPT !.no_notify = FALSE, !.avail_event = dev.last_avail]
    /\ dev' = [dev EXCEPT !.at = "recheck"]
    /\ UNCHANGED <<vq, drv, wire, desc, avail>>

DevRecheck ==
    /\ dev.at = "recheck"
    /\ IF dev.last_avail = avail.idx
       THEN dev' = [dev EXCEPT !.at = "sleep"] /\ UNCHANGED used
       ELSE dev' = [dev EXCEPT !.at = "run"] /\ used' = [used EXCEPT !.no_notify = ~vq.event]
    /\ UNCHANGED <<vq, drv, wire, desc, avail>>

DevUse(head) ==
    /\ dev.at # "off" /\ head \in dev.taken /\ dev.signalled = used.idx
    /\ used' = [used EXCEPT !.ring[used.idx % vq.num] = head, !.idx = (@ + 1) % IdxMod]
    /\ dev' = [dev EXCEPT !.taken = @ \ {head}]
    /\ UNCHANGED <<vq, drv, wire, desc, avail>>

\* After each use it decides whether the driver wants to hear of them.
DevSignal ==
    /\ dev.at # "off" /\ dev.signalled # used.idx
    /\ LET wanted == IF vq.event THEN need_event(avail.used_event, used.idx, dev.signalled)
                                 ELSE ~avail.flag
       IN  wire' = [wire EXCEPT !.irq = @ \/ wanted]
    /\ dev' = [dev EXCEPT !.signalled = used.idx]
    /\ UNCHANGED <<vq, drv, desc, avail, used>>

Device ==
    \/ DevTake \/ DevEnable \/ DevRecheck \/ DevSignal
    \/ \E head \in dev.taken : DevUse(head)
    \/ DevWake([dev EXCEPT !.at = "run"]) /\ UNCHANGED <<desc, avail, used>>

SplitNext == Driver \/ Device

SplitSpec == SplitInit /\ [][SplitNext]_splitVars
-----------------------------------------------------------------------------
(* Properties *)

SplitTypeOK ==
    /\ vq.num \in Sizes /\ vq.num_free \in 0 .. vq.num /\ vq.free_head \in Slots(vq.num)
    /\ vq.last_used_idx \in 0 .. IdxMod - 1 /\ vq.num_added \in 0 .. IdxMod - 1
    /\ desc \in [Slots(vq.num) -> [next : Slots(vq.num), data : Data \cup {NoData},
                                  chained : BOOLEAN, indir : BOOLEAN, mapped : BOOLEAN]]
    /\ avail \in [ring : [Slots(vq.num) -> Slots(vq.num)], idx : 0 .. IdxMod - 1,
                  no_interrupt : BOOLEAN, flag : BOOLEAN, used_event : 0 .. IdxMod - 1]
    /\ used \in [ring : [Slots(vq.num) -> Slots(vq.num)], idx : 0 .. IdxMod - 1,
                 no_notify : BOOLEAN, avail_event : 0 .. IdxMod - 1]

\* Every descriptor is either on the free list, which is num_free long, or in the
\* chain of exactly one outstanding buffer; those and only those are mapped. So no
\* failed add and no out-of-order completion leaks or shares a descriptor, and a
\* reset ends with all of them free (the BUG_ON of detach_unused_buf).
DescriptorsConserved ==
    LET free == Range(List(vq.free_head, vq.num_free))
    IN  /\ Cardinality(free) = vq.num_free
        /\ \A i \in HasData : free \cap Range(Chain(i)) = {}
        /\ \A i, j \in HasData : i # j => Range(Chain(i)) \cap Range(Chain(j)) = {}
        /\ free \cup UNION {Range(Chain(i)) : i \in HasData} = DOMAIN desc
        /\ {i \in DOMAIN desc : desc[i].mapped} = DOMAIN desc \ free

\* The driver does not rest on used buffers: whenever it rests and the device has
\* decided about all its completions, there is nothing left to collect, or the
\* driver asked to wait for a completion that the device still owes it. This is
\* what enable_cb, poll, the event index and event_triggered are for.
NoLostInterrupt ==
    DriverRests /\ dev.at # "off" /\ dev.signalled = used.idx =>
        \/ ~more_used
        \/ LET owed == (avail.idx - used.idx) % IdxMod
           IN  IF vq.event THEN (avail.used_event - used.idx) % IdxMod < owed ELSE owed > 0

\* The device does not sleep on available buffers once the driver has kicked.
NoLostKick == DeviceRests => dev.last_avail = avail.idx

\* The ring implements the queue.
Uncollected == IF drv.at = "reset" THEN <<>> ELSE
    [k \in 1 .. (used.idx - vq.last_used_idx) % IdxMod |->
        desc[used.ring[(vq.last_used_idx + k - 1) % vq.num]].data]
Held == {desc[i].data : i \in HasData}
=============================================================================
