----------------------------- MODULE PackedRing -----------------------------
(***************************************************************************)
(* The packed layout of drivers/virtio/virtio_ring.c: one ring of           *)
(* descriptors that both sides write. Two bits of a descriptor, compared    *)
(* with wrap counters that each side keeps, say whose it is. Buffer ids are *)
(* taken from a free list that desc_extra[].next chains; the device returns *)
(* an id in the slot it has come to, whichever buffer it is.                *)
(***************************************************************************)
EXTENDS Virtqueue, Functions, Sequences

VARIABLES
    desc,       \* the ring of descriptors, written by both sides
    id,         \* desc_extra and desc_state, by buffer id
    next,       \* the driver's next_avail_idx, its wrap counter and its flags
    event       \* the event suppression structures of driver and device

packedVars == <<vq, drv, wire, dev, desc, id, next, event>>

Slots(n) == 0 .. n - 1

\* A place in the ring: an index and a wrap counter, in last_used_idx packed
\* into one number. Places differ by a distance modulo twice the size.
Place(i, w)  == [idx |-> i, wrap |-> w]
Start        == Place(0, TRUE)
Move(p, k)   == IF p.idx + k >= vq.num THEN Place(p.idx + k - vq.num, ~p.wrap)
                                       ELSE Place(p.idx + k, p.wrap)
Distance(p, q) == (q.idx - p.idx + IF p.wrap = q.wrap THEN 0 ELSE vq.num) % (2 * vq.num)

\* The memory is zeroed; the driver's first round is the one with the bit set.
FreshDesc(n) == [i \in Slots(n) |-> [avail |-> FALSE, used |-> FALSE, more |-> FALSE, id |-> 0]]
FreshIds(n)  == [i \in Slots(n) |-> [next |-> IF i < n - 1 THEN i + 1 ELSE 0, num |-> 0,
                                     last |-> 0, data |-> NoData, indir |-> FALSE]]
\* avail_used_flags is the bit of new descriptors; virtqueue_vring_init_packed.
FreshNext == [idx |-> 0, wrap |-> TRUE, flags |-> TRUE]
\* shadow is event_flags_shadow; ENABLE is 0.
FreshEvent == [shadow |-> "ENABLE", driver |-> "ENABLE", driver_off |-> Place(0, FALSE),
               device |-> "ENABLE", device_off |-> Place(0, FALSE)]

PackedVq(n, f) == [Vq(n, f) EXCEPT !.last_used_idx = Start]

\* The device: it takes from pos and puts used descriptors at used; taken holds ids
\* with their lengths.
PackedOff == [at |-> "off", pos |-> Start, used |-> Start, taken |-> {}]

PackedInit ==
    /\ \E n \in Sizes, f \in Features :
          vq = PackedVq(n, f) /\ desc = FreshDesc(n) /\ id = FreshIds(n)
    /\ next = FreshNext /\ event = FreshEvent
    /\ drv = DriverAwake /\ wire = QuietWire
    /\ dev = [PackedOff EXCEPT !.at = "run"]

\* The first k ids of the list that starts at i.
List(i, k) == LET d[j \in 0 .. k - 1] == IF j = 0 THEN i ELSE id[d[j - 1]].next IN d

is_used_desc(p) == desc[p.idx].avail = p.wrap /\ desc[p.idx].used = p.wrap
more_used == is_used_desc(vq.last_used_idx)
HasData == {i \in DOMAIN id : id[i].data # NoData}

\* Descriptor j of a buffer at the driver's next place, j from 0; the bits flip
\* where the ring ends.
Written(j, k, b) ==
    LET p == Move(Place(next.idx, next.flags), j)
    IN  [slot |-> p.idx, d |-> [avail |-> p.wrap, used |-> ~p.wrap, more |-> j < k - 1, id |-> b]]

-----------------------------------------------------------------------------
\* virtqueue_add_packed and virtqueue_add_indirect_packed.
Add(t, sg, ind) ==
    LET k    == IF ind THEN 1 ELSE sg
        b    == vq.free_head
        list == List(b, k)
        news == {Written(j, k, b) : j \in 0 .. k - 1}
        end  == Move(Place(next.idx, next.wrap), k)
    IN  /\ CanCall /\ ~vq.broken
        /\ \A i \in DOMAIN id : id[i].data # t
        /\ IF UsesIndirect(sg) THEN ind \/ "alloc" \in Faults ELSE ~ind
        /\ vq.num_free >= k
        /\ vq.num_added + k < IdxMod
        /\ desc' = [s \in DOMAIN desc |-> IF \E w \in news : w.slot = s
                                          THEN (CHOOSE w \in news : w.slot = s).d ELSE desc[s]]
        /\ id' = [id EXCEPT ![b].num = k, ![b].data = t, ![b].indir = ind,
                            ![b].last = list[k - 1]]
        /\ vq' = [vq EXCEPT !.num_free = @ - k, !.num_added = @ + k,
                            !.free_head = id[list[k - 1]].next]
        /\ next' = [idx |-> end.idx, wrap |-> end.wrap,
                    flags |-> Move(Place(next.idx, next.flags), k).wrap]
        /\ UNCHANGED <<drv, wire, dev, event>>

\* Mapping entry k + 1 fails: the bits of the next descriptors are put back, but
\* the descriptors after the first one have been written to the ring.
AddMapFails(sg, k) ==
    LET news == {Written(j, sg, vq.free_head) : j \in 1 .. k - 1}
    IN  /\ "map" \in Faults
        /\ CanCall /\ ~vq.broken
        /\ k < sg /\ sg <= vq.num_free
        /\ UsesIndirect(sg) => "alloc" \in Faults
        /\ desc' = [s \in DOMAIN desc |-> IF \E w \in news : w.slot = s
                                          THEN (CHOOSE w \in news : w.slot = s).d ELSE desc[s]]
        /\ UNCHANGED <<vq, drv, wire, dev, id, next, event>>

\* virtqueue_kick_prepare_packed and the kick.
KickPacked ==
    /\ CanCall /\ vq.num_added > 0
    /\ LET off == event.device_off.idx - IF event.device_off.wrap = next.wrap THEN 0 ELSE vq.num
       IN  Kick(IF event.device = "DESC" THEN need_event(off, next.idx, next.idx - vq.num_added)
                                         ELSE event.device # "DISABLE")
    /\ UNCHANGED <<desc, id, next, event>>

\* Mutant: a buffer gives back one descriptor, whatever it had.
DetachOne(b, v) ==
    /\ id' = [id EXCEPT ![b].data = NoData, ![b].indir = FALSE,
                        ![id[b].last].next = vq.free_head]
    /\ vq' = [v EXCEPT !.free_head = b, !.num_free = @ + 1]

\* detach_buf_packed, with the rest of the queue's new state in v.
Detach(b, v) ==
    /\ id' = [id EXCEPT ![b].data = NoData, ![b].indir = FALSE,
                        ![id[b].last].next = vq.free_head]
    /\ vq' = [v EXCEPT !.free_head = b, !.num_free = @ + id[b].num]

\* virtqueue_get_buf_ctx_packed.
GetBuf ==
    LET b    == desc[vq.last_used_idx.idx].id
        last == Move(vq.last_used_idx, id[b].num)
    IN  /\ CanCall /\ ~vq.broken /\ more_used
        /\ IF id[b].data = NoData           \* BAD_RING
           THEN vq' = [vq EXCEPT !.broken = TRUE] /\ UNCHANGED <<id, event>>
           ELSE /\ Detach(b, [vq EXCEPT !.last_used_idx = last])
                /\ event' = [event EXCEPT !.driver_off = IF event.shadow = "DESC" THEN last ELSE @]
        /\ UNCHANGED <<drv, wire, dev, desc, next>>

\* virtqueue_disable_cb_packed.
DisableCb ==
    /\ CanCall /\ event.shadow # "DISABLE"
    /\ event' = [event EXCEPT !.shadow = "DISABLE",
                              !.driver = IF vq.event_triggered THEN @ ELSE "DISABLE"]
    /\ UNCHANGED <<vq, drv, wire, dev, desc, id, next>>

\* The enabling half of both functions below.
Enable(at, place) ==
    LET flags == IF vq.event THEN "DESC" ELSE "ENABLE"
        off   == event.shadow = "DISABLE"
    IN  /\ CanStop
        /\ drv' = [drv EXCEPT !.at = at]
        /\ vq' = [vq EXCEPT !.event_triggered = FALSE]
        /\ event' = [event EXCEPT !.driver_off = IF vq.event THEN place ELSE @,
                                  !.shadow = IF off THEN flags ELSE @,
                                  !.driver = IF off THEN flags ELSE @]
        /\ UNCHANGED <<wire, dev, desc, id, next>>

\* virtqueue_enable_cb_prepare, virtqueue_enable_cb_delayed; what they ask for.
EnableCb == Enable("poll", vq.last_used_idx)
EnableCbDelayed ==
    Enable("delayed", Move(vq.last_used_idx, ((vq.num - vq.num_free) * 3) \div 4))

\* virtqueue_poll, and the end of virtqueue_enable_cb_delayed.
Poll ==
    /\ drv.at \in {"poll", "delayed"}
    /\ drv' = [drv EXCEPT !.at = IF more_used /\ (drv.at = "delayed" \/ ~vq.broken)
                                 THEN "drain" ELSE "idle"]
    /\ UNCHANGED <<vq, wire, dev, desc, id, next, event>>

\* A driver that collected with its callbacks enabled all the time.
Leave ==
    /\ CanStop /\ event.shadow # "DISABLE"
    /\ ~more_used \/ vq.broken
    /\ drv' = [drv EXCEPT !.at = "idle"]
    /\ UNCHANGED <<vq, wire, dev, desc, id, next, event>>

\* virtqueue_detach_unused_buf_packed, called by virtqueue_resize until it returns NULL.
DetachUnused ==
    /\ drv.at = "reset" /\ HasData # {}
    /\ Detach(Min(HasData), vq)
    /\ UNCHANGED <<drv, wire, dev, desc, next, event>>

\* virtqueue_resize_packed: a new ring, or the old one, zeroed, if that fails.
ResizePacked ==
    /\ HasData = {}
    /\ \/ /\ vq' = [Reinit(vq, drv.size) EXCEPT !.free_head = 0, !.last_used_idx = Start]
          /\ desc' = FreshDesc(drv.size) /\ id' = FreshIds(drv.size)
       \/ /\ "alloc" \in Faults
          /\ vq' = [Reinit(vq, vq.num) EXCEPT !.last_used_idx = Start]
          /\ desc' = FreshDesc(vq.num) /\ UNCHANGED id
    /\ next' = FreshNext /\ event' = FreshEvent
    /\ ResizeEnd(PackedOff)

Driver ==
    \/ \E t \in Data, sg \in 1 .. MaxSg, ind \in BOOLEAN : Add(t, sg, ind)
    \/ \E sg, k \in 1 .. MaxSg : AddMapFails(sg, k)
    \/ KickPacked \/ GetBuf \/ DisableCb \/ EnableCb \/ EnableCbDelayed \/ Poll
    \/ Leave \/ DetachUnused \/ ResizePacked
    \/ /\ Enter \/ Interrupt(more_used) \/ ResizeStart(PackedOff)
       /\ UNCHANGED <<desc, id, next, event>>

-----------------------------------------------------------------------------
(* The device, external: it takes chains in order, uses them in any order.  *)

Available(p) == desc[p.idx].avail = p.wrap /\ desc[p.idx].used # p.wrap

\* The chain at a place is as long as its descriptors say that more follow.
Length(p) == Min({k \in 1 .. vq.num : ~desc[Move(p, k - 1).idx].more})

DevTake ==
    /\ dev.at = "run" /\ Available(dev.pos)
    /\ LET k == Length(dev.pos) IN
       dev' = [dev EXCEPT !.taken = @ \cup {<<desc[dev.pos.idx].id, k>>}, !.pos = Move(@, k)]
    /\ UNCHANGED <<vq, drv, wire, desc, id, next, event>>

\* Out of work, it asks for a doorbell and looks once more before it sleeps.
DevEnable ==
    /\ dev.at = "run" /\ ~Available(dev.pos)
    /\ event' = [event EXCEPT !.device = IF vq.event THEN "DESC" ELSE "ENABLE",
                              !.device_off = IF vq.event THEN dev.pos ELSE @]
    /\ dev' = [dev EXCEPT !.at = "recheck"]
    /\ UNCHANGED <<vq, drv, wire, desc, id, next>>

DevRecheck ==
    /\ dev.at = "recheck"
    /\ IF Available(dev.pos)
       THEN /\ dev' = [dev EXCEPT !.at = "run"]
            /\ event' = [event EXCEPT !.device = "DISABLE"]
       ELSE dev' = [dev EXCEPT !.at = "sleep"] /\ UNCHANGED event
    /\ UNCHANGED <<vq, drv, wire, desc, id, next>>

\* It uses a buffer, and decides whether the driver wants to hear of it.
DevUse(b, k) ==
    LET end == Move(dev.used, k)
        off == event.driver_off.idx - IF event.driver_off.wrap = end.wrap THEN 0 ELSE vq.num
        wanted == IF event.driver = "DESC" THEN need_event(off, end.idx, end.idx - k)
                                           ELSE event.driver = "ENABLE"
    IN  /\ dev.at # "off" /\ <<b, k>> \in dev.taken
        /\ desc' = [desc EXCEPT ![dev.used.idx] = [avail |-> dev.used.wrap, more |-> FALSE,
                                                   used |-> dev.used.wrap, id |-> b]]
        /\ dev' = [dev EXCEPT !.taken = @ \ {<<b, k>>}, !.used = end]
        /\ wire' = [wire EXCEPT !.irq = @ \/ wanted]
        /\ UNCHANGED <<vq, drv, id, next, event>>

Device ==
    \/ DevTake \/ DevEnable \/ DevRecheck
    \/ \E t \in dev.taken : DevUse(t[1], t[2])
    \/ DevWake([dev EXCEPT !.at = "run"]) /\ UNCHANGED <<desc, id, next, event>>

PackedNext == Driver \/ Device

PackedSpec == PackedInit /\ [][PackedNext]_packedVars

-----------------------------------------------------------------------------
(* Properties *)

Places == [idx : Slots(vq.num), wrap : BOOLEAN]

PackedTypeOK ==
    /\ vq.num \in Sizes /\ vq.num_free \in 0 .. vq.num /\ vq.free_head \in Slots(vq.num)
    /\ vq.last_used_idx \in Places /\ vq.num_added \in 0 .. IdxMod - 1
    /\ desc \in [Slots(vq.num) -> [avail : BOOLEAN, used : BOOLEAN, more : BOOLEAN,
                                   id : Slots(vq.num)]]
    /\ id \in [Slots(vq.num) -> [next : Slots(vq.num), num : 0 .. vq.num, indir : BOOLEAN,
                                 last : Slots(vq.num), data : Data \cup {NoData}]]
    /\ next \in [idx : Slots(vq.num), wrap : BOOLEAN, flags : BOOLEAN]
    /\ dev.pos \in Places /\ dev.used \in Places

\* The ids and the descriptors that outstanding buffers hold, and the free list, make
\* up the ring: ids are never given to two buffers, and none is lost (the BUG_ON of
\* detach_unused_buf). The bits that new descriptors get follow the wrap counter.
IdsConserved ==
    LET free == Range(List(vq.free_head, vq.num_free))
        held == [b \in HasData |-> Range(List(b, id[b].num))]
    IN  /\ Cardinality(free) = vq.num_free
        /\ \A b \in HasData : free \cap held[b] = {}
        /\ \A a, b \in HasData : a # b => held[a] \cap held[b] = {}
        /\ free \cup UNION {held[b] : b \in HasData} = DOMAIN id
        /\ next.flags = next.wrap

\* As in the split layout: the driver does not rest on used buffers.
NoLostInterrupt ==
    DriverRests /\ dev.at # "off" =>
        \/ ~more_used
        \/ LET owed == Distance(dev.used, Place(next.idx, next.wrap))
           IN  IF event.driver = "DESC" THEN Distance(dev.used, event.driver_off) < owed
                                        ELSE owed > 0

\* As in the split layout: the device does not sleep on available buffers.
NoLostKick == DeviceRests => dev.pos = Place(next.idx, next.wrap)

\* The ring implements the queue: the buffers between the driver's and the device's
\* place for used descriptors are done.
Uncollected ==
    LET done[p \in Places] == IF p = dev.used THEN <<>> ELSE
            LET b == desc[p.idx].id IN <<id[b].data>> \o done[Move(p, id[b].num)]
    IN  IF dev.at = "off" THEN <<>> ELSE done[vq.last_used_idx]
Held == {id[b].data : b \in HasData}
=============================================================================
