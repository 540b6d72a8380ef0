--------------------------- MODULE SplitRingProofs ---------------------------
(***************************************************************************)
(* The split layout keeps its promises for every ring size: descriptors    *)
(* are conserved, neither side rests on work for it, and the ring          *)
(* implements the queue.  Layouts without TRUE are the queues that did not *)
(* negotiate the packed ring.                                              *)
(***************************************************************************)
EXTENDS MCVirtqueue, TLAPS, FiniteSetTheorems, SequenceTheorems

-----------------------------------------------------------------------------
(* The table of descriptors *)

Descriptor(n) == [next : S!Slots(n), data : Data \cup {NoData},
                  chained : BOOLEAN, indir : BOOLEAN, mapped : BOOLEAN]

Table(D, n) == n \in Nat \ {0} /\ D \in [S!Slots(n) -> Descriptor(n)]

Heads(D) == {i \in DOMAIN D : D[i].data # NoData}

\* S!List and S!Chain of a table.
ListIn(D, i, k) ==
    LET d[j \in 0 .. k - 1] == IF j = 0 THEN i ELSE D[d[j - 1]].next IN d

ChainIn(D, n, i) ==
    LET d == ListIn(D, i, n)
        m == S!Min({j \in DOMAIN d : ~D[d[j]].chained})
    IN  [j \in 0 .. m |-> d[j]]

\* k descriptors of which each leads to the next one, from i on.
IsPath(D, f, i, k) ==
    /\ f \in [0 .. k - 1 -> DOMAIN D]
    /\ k > 0 => f[0] = i
    /\ \A j \in 1 .. k - 1 : f[j] = D[f[j - 1]].next

\* A buffer of k descriptors.
IsBuffer(D, c, i, k) ==
    /\ IsPath(D, c, i, k) /\ IsInjective(c)
    /\ \A j \in 0 .. k - 1 : D[c[j]].mapped /\ (D[c[j]].chained <=> j # k - 1)

\* The free list and the buffers share out the descriptors.
Pool(D, n, h, k) ==
    /\ Table(D, n) /\ h \in S!Slots(n) /\ k \in 0 .. n
    /\ IsInjective(ListIn(D, h, k))
    /\ Range(ListIn(D, h, k)) = {s \in S!Slots(n) : ~D[s].mapped}
    /\ \A i \in Heads(D) : \E m \in 1 .. n : IsBuffer(D, ChainIn(D, n, i), i, m)
    /\ \A i, j \in Heads(D) :
          i # j => Range(ChainIn(D, n, i)) \cap Range(ChainIn(D, n, j)) = {}
    /\ \A s \in S!Slots(n) :
          D[s].mapped => \E i \in Heads(D) : s \in Range(ChainIn(D, n, i))

-----------------------------------------------------------------------------
(* The inductive invariant *)

Index == 0 .. IdxMod - 1

Queues  == [num : Sizes, free_head : Nat, num_free : Nat, last_used_idx : Index,
            num_added : Index, event_triggered : BOOLEAN, broken : BOOLEAN,
            event : BOOLEAN, indirect : BOOLEAN]
Drivers == [at : {"idle", "drain", "poll", "delayed", "kick", "reset"}, size : Nat]
Wires   == [kick : BOOLEAN, irq : BOOLEAN]
Devices(n) == [at : {"off", "run", "recheck", "sleep"}, last_avail : Index,
               taken : SUBSET S!Slots(n), signalled : Index]
AvailRings(n) == [ring : [S!Slots(n) -> S!Slots(n)], idx : Index,
                  no_interrupt : BOOLEAN, flag : BOOLEAN, used_event : Index]
UsedRings(n)  == [ring : [S!Slots(n) -> S!Slots(n)], idx : Index,
                  no_notify : BOOLEAN, avail_event : Index]

\* The types; a ring is resized with the device off.
SplitShape ==
    /\ vq \in Queues /\ drv \in Drivers /\ wire \in Wires
    /\ dev \in Devices(vq.num) /\ avail \in AvailRings(vq.num) /\ used \in UsedRings(vq.num)
    /\ drv.at = "reset" => drv.size \in Sizes /\ dev.at = "off"

\* No descriptor is lost or given away twice.
PoolInv == Pool(desc, vq.num, vq.free_head, vq.num_free)

DataDistinct == \A i, j \in Heads(desc) : desc[i].data = desc[j].data => i = j

\* What the driver added and has not told of is what num_added counts.
\* A device that sleeps asked to be told of what comes after the last buffer it took,
\* and has missed only buffers that the driver still has to decide about.
KickInv ==
    /\ vq.num_added = IdxMod - 1 => drv.at = "kick"
    /\ dev.at \in {"recheck", "sleep"} =>
          used.avail_event = dev.last_avail /\ ~used.no_notify
    /\ dev.at = "sleep" /\ ~wire.kick /\ ~vq.broken =>
          (avail.idx - dev.last_avail) % IdxMod <= vq.num_added

\* q holds the heads H in the order in which the driver will get them back, as far as
\* it is decided, from index c on: the first u have been used, those up to v are with
\* the device, those up to k are available.
InOrder(n, c, H, q, u, v, k, used_ring, taken, avail_ring) ==
    /\ u <= v /\ v <= k /\ k <= n
    /\ q \in [0 .. k - 1 -> H] /\ IsInjective(q) /\ H \subseteq Range(q)
    /\ \A j \in 0 .. u - 1 : used_ring[(c + j) % n] = q[j]
    /\ taken = {q[j] : j \in u .. v - 1}
    /\ \A j \in v .. k - 1 : avail_ring[(c + j) % n] = q[j]

Ordered(q, u, v, k) ==
    /\ InOrder(vq.num, vq.last_used_idx, Heads(desc), q, u, v, k,
               used.ring, dev.taken, avail.ring)
    /\ used.idx = (vq.last_used_idx + u) % IdxMod
    /\ dev.last_avail = (vq.last_used_idx + v) % IdxMod
    /\ avail.idx = (vq.last_used_idx + k) % IdxMod

QueueInv ==
    drv.at # "reset" =>
        \E u, v, k \in 0 .. vq.num : \E q \in [0 .. k - 1 -> Heads(desc)] :
            Ordered(q, u, v, k)

\* Offsets from where the driver collects next: the event it asked for, the used
\* buffers, all buffers.
Wish  == (avail.used_event - vq.last_used_idx) % IdxMod
Ready == (used.idx - vq.last_used_idx) % IdxMod
All   == (avail.idx - vq.last_used_idx) % IdxMod

\* The device has decided whether to interrupt for the last buffer it used.
Decided == dev.signalled = used.idx

\* A driver that rests has an interrupt under way, or nothing is used beyond its wish
\* but what the device still has to decide about.
IrqInv ==
    drv.at # "reset" =>
        /\ drv.at \in {"idle", "poll", "delayed"} => ~avail.no_interrupt
        /\ ~avail.no_interrupt => (Wish = 0 \/ Wish < All) /\ (vq.event \/ ~avail.flag)
        /\ drv.at = "poll" => Wish = 0
        /\ drv.at = "delayed" => Wish = S!Delay
        /\ Decided \/ used.idx = (dev.signalled + 1) % IdxMod
        /\ drv.at = "idle" /\ ~vq.broken /\ ~wire.irq =>
              IF vq.event THEN Ready <= IF Decided THEN Wish ELSE Wish + 1
                          ELSE Decided => Ready = 0 \/ Ready < All

SplitInv == SplitShape /\ PoolInv /\ DataDistinct /\ KickInv /\ QueueInv /\ IrqInv

-----------------------------------------------------------------------------
(* Lists *)

\* A set of numbers has a least one.
LEMMA Least ==
    ASSUME NEW T, T \subseteq Nat, T # {}
    PROVE  \E x \in T : \A y \in T : x <= y
<1> DEFINE F == {0 .. n - 1 : n \in T}
<1> DEFINE R == StrictSubsetOrdering(Nat)
<1>1. F \subseteq FiniteSubsetsOf(Nat) /\ F # {}
  <2>1. ASSUME NEW n \in T PROVE 0 .. n - 1 \in FiniteSubsetsOf(Nat)
    <3>1. n - 1 \in Int /\ 0 .. n - 1 \subseteq Nat
      OBVIOUS
    <3> QED
      BY <3>1, FS_Interval DEF FiniteSubsetsOf
  <2> QED
    BY <2>1
<1>2. IsWellFoundedOn(R, FiniteSubsetsOf(Nat))
  BY FS_StrictSubsetOrderingWellFounded
<1> HIDE DEF R
<1>3. PICK X \in F : \A Y \in F : ~(<<Y, X>> \in R)
  BY <1>1, <1>2, WFMin, Zenon
<1>4. PICK n \in T : X = 0 .. n - 1
  OBVIOUS
<1>5. ASSUME NEW y \in T PROVE n <= y
  <2>1. ~(<<0 .. y - 1, 0 .. n - 1>> \in R)
    BY <1>3, <1>4
  <2>2. y < n => <<0 .. y - 1, 0 .. n - 1>> \in R
    <3> SUFFICES ASSUME y < n PROVE <<0 .. y - 1, 0 .. n - 1>> \in R
      OBVIOUS
    <3>1. 0 .. y - 1 \subseteq 0 .. n - 1 /\ y \in 0 .. n - 1 /\ y \notin 0 .. y - 1
      OBVIOUS
    <3> QED
      BY <3>1 DEF R, StrictSubsetOrdering
  <2> QED
    BY <2>1, <2>2
<1> QED
  BY <1>5

\* S!List and S!Chain are ListIn and ChainIn of the table.
LEMMA ListsOfTable ==
    ASSUME NEW i, NEW k
    PROVE  S!List(i, k) = ListIn(desc, i, k)
  BY DEF S!List, ListIn

LEMMA ChainsOfTable ==
    ASSUME NEW i
    PROVE  S!Chain(i) = ChainIn(desc, vq.num, i)
  BY DEF S!Chain, ChainIn, S!List, ListIn

\* A path that another one starts with.
LEMMA PathPrefix ==
    ASSUME NEW D, NEW f, NEW i, NEW k \in Nat, NEW m \in 0 .. k, IsPath(D, f, i, k)
    PROVE  IsPath(D, [j \in 0 .. m - 1 |-> f[j]], i, m)
  BY DEF IsPath

LEMMA PathsAgree ==
    ASSUME NEW D, NEW f, NEW g, NEW i, NEW k \in Nat, NEW m \in Nat,
           IsPath(D, f, i, k), IsPath(D, g, i, m),
           NEW j \in Nat, j < k, j < m
    PROVE  f[j] = g[j]
<1> DEFINE T == {x \in Nat : x < k /\ x < m /\ f[x] # g[x]}
<1> SUFFICES ASSUME T # {} PROVE FALSE
  OBVIOUS
<1>1. PICK x \in T : \A y \in T : x <= y
  BY Least
<1>2. x # 0
  BY DEF IsPath
<1>3. x - 1 \notin T /\ x - 1 \in Nat
  BY <1>1, <1>2
<1>4. x \in 1 .. k - 1 /\ x \in 1 .. m - 1
  BY <1>2
<1> QED
  BY <1>3, <1>4, SMTT(30) DEF IsPath

\* There is a path of any length from a descriptor of the table.
LEMMA PathExists ==
    ASSUME NEW D, NEW n, Table(D, n), NEW i \in S!Slots(n), NEW k \in Nat
    PROVE  \E f : IsPath(D, f, i, k)
<1> DEFINE T == {x \in Nat : ~ \E f : IsPath(D, f, i, x)}
<1> SUFFICES ASSUME T # {} PROVE FALSE
  OBVIOUS
<1>1. PICK x \in T : \A y \in T : x <= y
  BY Least
<1>d. DOMAIN D = S!Slots(n) /\ \A s \in S!Slots(n) : D[s].next \in S!Slots(n)
  BY DEF Table, Descriptor
<1>2. CASE x = 0
  <2>1. IsPath(D, [j \in 0 .. x - 1 |-> i], i, x)
    BY <1>2 DEF IsPath
  <2> QED
    BY <2>1
<1>3. CASE x > 0
  <2>1. x - 1 \in Nat /\ x - 1 \notin T
    BY <1>1, <1>3
  <2>2. PICK f : IsPath(D, f, i, x - 1)
    BY <2>1
  <2> DEFINE g == [j \in 0 .. x - 1 |-> IF j < x - 1 THEN f[j]
                                        ELSE IF j = 0 THEN i ELSE D[f[j - 1]].next]
  <2>3. f \in [0 .. x - 2 -> DOMAIN D] /\ (x - 1 > 0 => f[0] = i)
        /\ \A j \in 1 .. x - 2 : f[j] = D[f[j - 1]].next
    BY <2>2 DEF IsPath
  <2>4. g \in [0 .. x - 1 -> DOMAIN D]
    BY <1>d, <1>3, <2>3
  <2>5. \A j \in 1 .. x - 1 : g[j] = D[g[j - 1]].next
    BY <1>3, <2>3
  <2>6. IsPath(D, g, i, x)
    BY <1>3, <2>3, <2>4, <2>5 DEF IsPath
  <2> QED
    BY <2>6
<1> QED
  BY <1>2, <1>3

\* The list of k descriptors from i on is the path.
LEMMA ListIsPath ==
    ASSUME NEW D, NEW n, Table(D, n), NEW i \in S!Slots(n), NEW k \in Nat
    PROVE  IsPath(D, ListIn(D, i, k), i, k)
<1>1. PICK f : IsPath(D, f, i, k)
  BY PathExists
<1> DEFINE Good(d) == d = [j \in 0 .. k - 1 |-> IF j = 0 THEN i ELSE D[d[j - 1]].next]
<1>2. Good(f)
  BY <1>1 DEF IsPath
<1>3. ListIn(D, i, k) = CHOOSE d : Good(d)
  BY DEF ListIn
<1>4. Good(ListIn(D, i, k))
  BY <1>2, <1>3
<1> DEFINE g == ListIn(D, i, k)
<1>5. \A j \in 0 .. k - 1 : g[j] \in DOMAIN D
  <2> DEFINE T == {x \in Nat : x < k /\ g[x] \notin DOMAIN D}
  <2> SUFFICES ASSUME T # {} PROVE FALSE
    OBVIOUS
  <2>1. PICK x \in T : \A y \in T : x <= y
    BY Least
  <2>2. g[x] = IF x = 0 THEN i ELSE D[g[x - 1]].next
    BY <1>4
  <2>3. x # 0 => x - 1 \in Nat /\ x - 1 \notin T
    BY <2>1
  <2>4. x # 0 => g[x - 1] \in DOMAIN D
    BY <2>3
  <2> QED
    BY <2>2, <2>4 DEF Table, Descriptor
<1> HIDE DEF g
<1> QED
  BY <1>4, <1>5 DEF IsPath, g

\* ... and the only one.
LEMMA PathIsList ==
    ASSUME NEW D, NEW n, Table(D, n), NEW i \in S!Slots(n), NEW k \in Nat, NEW f,
           IsPath(D, f, i, k)
    PROVE  ListIn(D, i, k) = f
<1>1. IsPath(D, ListIn(D, i, k), i, k)
  BY ListIsPath
<1>2. \A j \in 0 .. k - 1 : f[j] = ListIn(D, i, k)[j]
  BY <1>1, PathsAgree
<1> QED
  BY <1>1, <1>2 DEF IsPath

-----------------------------------------------------------------------------
(* Chains *)

\* Paths without a repetition are no longer than the table.
LEMMA PathFits ==
    ASSUME NEW n \in Nat, NEW k \in Nat, NEW f \in [0 .. k - 1 -> S!Slots(n)], IsInjective(f)
    PROVE  k <= n /\ Cardinality(Range(f)) = k
<1>1. IsFiniteSet(S!Slots(n)) /\ Cardinality(S!Slots(n)) = n
  BY FS_Interval DEF S!Slots
<1>2. IsFiniteSet(0 .. k - 1) /\ Cardinality(0 .. k - 1) = k
  BY FS_Interval
<1>3. f \in Injection(0 .. k - 1, S!Slots(n))
  BY DEF Injection
<1>4. k <= n
  BY <1>1, <1>2, <1>3, FS_Injection
<1>5. f \in Bijection(0 .. k - 1, Range(f))
  BY DEF Bijection, Injection, Surjection, IsInjective, Range
<1>6. ExistsBijection(0 .. k - 1, Range(f))
  BY <1>5 DEF ExistsBijection
<1> QED
  BY <1>2, <1>4, <1>6, FS_Bijection

\* The chain of a head is its buffer.
LEMMA ChainIsBuffer ==
    ASSUME NEW D, NEW n, Table(D, n), NEW i \in S!Slots(n), NEW c, NEW k \in Nat, k > 0,
           IsBuffer(D, c, i, k)
    PROVE  ChainIn(D, n, i) = c /\ k \in 1 .. n
<1> DEFINE d == ListIn(D, i, n)
           Ends == {j \in DOMAIN d : ~D[d[j]].chained}
<1>1. n \in Nat /\ DOMAIN D = S!Slots(n) /\ IsPath(D, c, i, k) /\ IsInjective(c)
  BY DEF Table, IsBuffer
<1>2. k <= n /\ c \in [0 .. k - 1 -> S!Slots(n)]
  BY <1>1, PathFits DEF IsPath
<1>3. IsPath(D, d, i, n)
  BY <1>1, ListIsPath
<1> HIDE DEF d
<1>4. \A j \in 0 .. k - 1 : d[j] = c[j]
  BY <1>1, <1>2, <1>3, PathsAgree
<1>5. DOMAIN d = 0 .. n - 1
  BY <1>3 DEF IsPath
<1>6. k - 1 \in Ends /\ \A j \in Ends : k - 1 <= j
  BY <1>1, <1>2, <1>4, <1>5 DEF IsBuffer
<1>7. S!Min(Ends) = k - 1
  BY <1>5, <1>6 DEF S!Min
<1>8. ChainIn(D, n, i) = [j \in 0 .. S!Min(Ends) |-> d[j]]
  BY DEF ChainIn, d
<1>9. c = [j \in 0 .. k - 1 |-> d[j]]
  BY <1>2, <1>4
<1> QED
  BY <1>2, <1>7, <1>8, <1>9

\* A chain is as it was when its descriptors are.
LEMMA ChainKept ==
    ASSUME NEW D, NEW E, NEW n, Table(D, n), Table(E, n), NEW i \in S!Slots(n), NEW m \in 1 .. n,
           IsBuffer(D, ChainIn(D, n, i), i, m),
           \A s \in Range(ChainIn(D, n, i)) :
              E[s].next = D[s].next /\ E[s].chained = D[s].chained /\ E[s].mapped = D[s].mapped
    PROVE  ChainIn(E, n, i) = ChainIn(D, n, i) /\ IsBuffer(E, ChainIn(E, n, i), i, m)
<1> DEFINE c == ChainIn(D, n, i)
<1>1. DOMAIN D = S!Slots(n) /\ DOMAIN E = S!Slots(n) /\ n \in Nat
  BY DEF Table
<1>2. c \in [0 .. m - 1 -> S!Slots(n)]
  BY <1>1 DEF IsBuffer, IsPath
<1>3. \A j \in 0 .. m - 1 : c[j] \in Range(c)
  BY <1>2 DEF Range
<1> HIDE DEF c
<1>4. IsBuffer(E, c, i, m)
  <2>1. IsPath(E, c, i, m)
    BY <1>1, <1>2, <1>3 DEF IsBuffer, IsPath, c
  <2> QED
    BY <1>1, <1>2, <1>3, <2>1 DEF IsBuffer, c
<1>5. ChainIn(E, n, i) = c
  BY <1>1, <1>4, ChainIsBuffer
<1> QED
  BY <1>4, <1>5 DEF c

\* What a pool consists of.
LEMMA PoolFacts ==
    ASSUME NEW D, NEW n, NEW h, NEW k, Pool(D, n, h, k)
    PROVE  /\ DOMAIN D = S!Slots(n) /\ n \in Nat /\ k \in Nat /\ k <= n
           /\ \A s \in S!Slots(n) : D[s] \in Descriptor(n)
           /\ IsPath(D, ListIn(D, h, k), h, k)
           /\ ListIn(D, h, k) \in [0 .. k - 1 -> S!Slots(n)]
           /\ \A j \in 0 .. k - 1 : ~D[ListIn(D, h, k)[j]].mapped
           /\ Heads(D) \subseteq S!Slots(n)
           /\ \A i \in Heads(D) : D[i].mapped /\ i \in Range(ChainIn(D, n, i))
           /\ \A i \in Heads(D) : \A s \in Range(ChainIn(D, n, i)) :
                 s \in S!Slots(n) /\ D[s].mapped
<1>1. Table(D, n) /\ DOMAIN D = S!Slots(n) /\ n \in Nat /\ k \in Nat /\ k <= n /\ h \in S!Slots(n)
  BY DEF Pool, Table
<1>2. \A s \in S!Slots(n) : D[s] \in Descriptor(n)
  BY <1>1 DEF Table
<1>3. IsPath(D, ListIn(D, h, k), h, k)
  BY <1>1, ListIsPath
<1>4. ListIn(D, h, k) \in [0 .. k - 1 -> S!Slots(n)]
  BY <1>1, <1>3 DEF IsPath
<1>5. \A j \in 0 .. k - 1 : ~D[ListIn(D, h, k)[j]].mapped
  BY <1>4 DEF Pool, Range
<1>6. Heads(D) \subseteq S!Slots(n)
  BY <1>1 DEF Heads
<1>7. ASSUME NEW i \in Heads(D)
      PROVE  /\ D[i].mapped /\ i \in Range(ChainIn(D, n, i))
             /\ \A s \in Range(ChainIn(D, n, i)) : s \in S!Slots(n) /\ D[s].mapped
  <2> DEFINE c == ChainIn(D, n, i)
  <2>1. PICK m \in 1 .. n : IsBuffer(D, c, i, m)
    BY DEF Pool
  <2>2. c \in [0 .. m - 1 -> S!Slots(n)] /\ c[0] = i /\ \A j \in 0 .. m - 1 : D[c[j]].mapped
    BY <1>1, <2>1 DEF IsBuffer, IsPath
  <2> HIDE DEF c
  <2>3. \A s \in Range(c) : s \in S!Slots(n) /\ D[s].mapped
    BY <2>2 DEF Range
  <2>4. 0 \in DOMAIN c
    BY <2>2
  <2>5. i \in Range(c)
    BY <2>2, <2>4 DEF Range
  <2> QED
    BY <2>3, <2>5 DEF c
<1> QED
  BY <1>1, <1>2, <1>3, <1>4, <1>5, <1>6, <1>7

-----------------------------------------------------------------------------
(* What the operations make of the pool *)

\* Adding a buffer: m descriptors from the front of the free list.
LEMMA PoolTakes ==
    ASSUME NEW D, NEW n, NEW h, NEW k, Pool(D, n, h, k), NEW m \in 1 .. k, NEW E, Table(E, n),
           NEW c, c = ListIn(D, h, m),
           \A s \in S!Slots(n) : E[s].next = D[s].next,
           \A s \in S!Slots(n) : s \notin Range(c) => E[s] = D[s],
           \A s \in Range(c) : /\ E[s].mapped /\ (E[s].chained <=> s # c[m - 1])
                               /\ s # h => E[s].data = D[s].data,
           E[h].data # NoData
    PROVE  /\ Pool(E, n, D[c[m - 1]].next, k - m)
           /\ h \notin Heads(D) /\ Heads(E) = Heads(D) \cup {h}
<1> DEFINE f == ListIn(D, h, k)
           g == [j \in 0 .. k - m - 1 |-> f[j + m]]
           h2 == D[c[m - 1]].next
<1>1. /\ Table(D, n) /\ h \in S!Slots(n) /\ IsInjective(f)
      /\ Range(f) = {s \in S!Slots(n) : ~D[s].mapped}
      /\ m \in Nat /\ DOMAIN E = S!Slots(n)
  BY PoolFacts DEF Pool, Table
<1>2. /\ DOMAIN D = S!Slots(n) /\ n \in Nat /\ k \in Nat /\ k <= n
      /\ IsPath(D, f, h, k) /\ f \in [0 .. k - 1 -> S!Slots(n)]
      /\ \A j \in 0 .. k - 1 : ~D[f[j]].mapped
      /\ \A s \in S!Slots(n) : D[s] \in Descriptor(n)
  BY PoolFacts
<1>3. IsPath(D, c, h, m)
  BY <1>1, ListIsPath
<1>4. /\ c \in [0 .. m - 1 -> S!Slots(n)] /\ c[0] = h
      /\ \A j \in 0 .. m - 1 : c[j] = f[j]
  <2>1. c \in [0 .. m - 1 -> S!Slots(n)] /\ c[0] = h
    BY <1>2, <1>3 DEF IsPath
  <2>2. \A j \in 0 .. m - 1 : j \in Nat /\ j < k /\ j < m
    BY <1>2
  <2> QED
    BY <1>1, <1>2, <1>3, <2>1, <2>2, PathsAgree
<1> HIDE DEF f
<1>5. /\ \A j \in 0 .. m - 1 : c[j] \in Range(c) /\ ~D[c[j]].mapped
      /\ \A s \in Range(c) : s \in S!Slots(n) /\ ~D[s].mapped
  BY <1>2, <1>4 DEF Range
<1>6. IsInjective(c)
  BY <1>1, <1>2, <1>4 DEF IsInjective
<1>7. h \notin Heads(D) /\ h \in Range(c)
  BY <1>4, <1>5, PoolFacts
<1>8. Heads(E) = Heads(D) \cup {h}
  <2>1. \A s \in Range(c) : s \notin Heads(D)
    BY <1>5, PoolFacts
  <2> QED
    BY <1>1, <1>2, <1>5, <1>7, <2>1 DEF Heads
<1>9. h2 \in S!Slots(n) /\ (m < k => h2 = f[m])
  BY <1>2, <1>4 DEF IsPath, Descriptor
<1>10. g \in [0 .. k - m - 1 -> S!Slots(n)]
  BY <1>2
<1>11. IsPath(E, g, h2, k - m)
  BY <1>1, <1>2, <1>9, <1>10 DEF IsPath
<1> HIDE DEF h2
<1>12. ListIn(E, h2, k - m) = g
  BY <1>2, <1>9, <1>11, PathIsList
<1>13. IsInjective(g)
  BY <1>1, <1>2, <1>10 DEF IsInjective
<1>14. Range(g) = {s \in S!Slots(n) : ~E[s].mapped}
  <2>1. ASSUME NEW s \in Range(g) PROVE s \in S!Slots(n) /\ ~E[s].mapped
    <3>1. PICK j \in 0 .. k - m - 1 : s = f[j + m]
      BY <1>10 DEF Range
    <3>2. s \notin Range(c)
      BY <1>1, <1>2, <1>4, <3>1, SMTT(30) DEF IsInjective, Range
    <3> QED
      BY <1>2, <3>1, <3>2
  <2>2. ASSUME NEW s \in S!Slots(n), ~E[s].mapped PROVE s \in Range(g)
    <3>1. s \notin Range(c) /\ ~D[s].mapped
      BY <2>2
    <3>2. PICK j \in 0 .. k - 1 : s = f[j]
      BY <1>1, <1>2, <3>1 DEF Range
    <3>3. j >= m
      BY <1>4, <1>5, <3>1, <3>2
    <3>4. j - m \in 0 .. k - m - 1 /\ g[j - m] = s
      BY <1>2, <3>2, <3>3
    <3> QED
      BY <1>10, <3>4 DEF Range
  <2> QED
    BY <2>1, <2>2
<1>15. ASSUME NEW i \in Heads(D)
       PROVE  /\ ChainIn(E, n, i) = ChainIn(D, n, i)
              /\ \E l \in 1 .. n : IsBuffer(E, ChainIn(E, n, i), i, l)
  <2>1. PICK l \in 1 .. n : IsBuffer(D, ChainIn(D, n, i), i, l)
    BY DEF Pool
  <2>2. i \in S!Slots(n) /\ \A s \in Range(ChainIn(D, n, i)) : s \in S!Slots(n) /\ D[s].mapped
    BY PoolFacts
  <2>3. \A s \in Range(ChainIn(D, n, i)) : E[s] = D[s]
    BY <1>5, <2>2
  <2> QED
    BY <1>1, <2>1, <2>2, <2>3, ChainKept
<1>16. ChainIn(E, n, h) = c /\ \E l \in 1 .. n : IsBuffer(E, ChainIn(E, n, h), h, l)
  <2>1. IsPath(E, c, h, m)
    BY <1>1, <1>2, <1>3, <1>4 DEF IsPath
  <2>2. \A j \in 0 .. m - 1 : c[j] = c[m - 1] <=> j = m - 1
    BY <1>4, <1>6 DEF IsInjective
  <2>3. IsBuffer(E, c, h, m)
    BY <1>5, <1>6, <2>1, <2>2 DEF IsBuffer
  <2> QED
    BY <1>1, <2>3, ChainIsBuffer
<1>17. ASSUME NEW i \in Heads(E), NEW j \in Heads(E), i # j
       PROVE  Range(ChainIn(E, n, i)) \cap Range(ChainIn(E, n, j)) = {}
  <2>1. \A x \in Heads(D) : Range(ChainIn(E, n, x)) \cap Range(c) = {}
    BY <1>5, <1>15, PoolFacts
  <2>2. i \in Heads(D) /\ j \in Heads(D) =>
            Range(ChainIn(E, n, i)) \cap Range(ChainIn(E, n, j)) = {}
    BY <1>15, <1>17 DEF Pool
  <2> QED
    BY <1>8, <1>16, <1>17, <2>1, <2>2
<1>18. ASSUME NEW s \in S!Slots(n), E[s].mapped
       PROVE  \E i \in Heads(E) : s \in Range(ChainIn(E, n, i))
  <2>1. CASE s \in Range(c)
    BY <1>8, <1>16, <2>1
  <2>2. CASE s \notin Range(c)
    <3>1. PICK i \in Heads(D) : s \in Range(ChainIn(D, n, i))
      BY <1>18, <2>2 DEF Pool
    <3> QED
      BY <1>8, <1>15, <3>1
  <2> QED
    BY <2>1, <2>2
<1>19. k - m \in 0 .. n
  BY <1>2
<1>20. Pool(E, n, h2, k - m)
  BY <1>8, <1>9, <1>12, <1>13, <1>14, <1>15, <1>16, <1>17, <1>18, <1>19 DEF Pool
<1> QED
  BY <1>7, <1>8, <1>20 DEF h2

\* A failed add marks free descriptors.
LEMMA PoolMarks ==
    ASSUME NEW D, NEW n, NEW h, NEW k, Pool(D, n, h, k), NEW E, Table(E, n),
           \A s \in S!Slots(n) : /\ E[s].next = D[s].next /\ E[s].data = D[s].data
                                 /\ E[s].mapped = D[s].mapped
                                 /\ D[s].mapped => E[s].chained = D[s].chained
    PROVE  Pool(E, n, h, k) /\ Heads(E) = Heads(D)
<1> DEFINE f == ListIn(D, h, k)
<1>1. /\ Table(D, n) /\ h \in S!Slots(n) /\ IsInjective(f) /\ k \in 0 .. n
      /\ Range(f) = {s \in S!Slots(n) : ~D[s].mapped}
      /\ DOMAIN E = S!Slots(n)
  BY DEF Pool, Table
<1>2. /\ DOMAIN D = S!Slots(n) /\ n \in Nat /\ k \in Nat
      /\ IsPath(D, f, h, k) /\ f \in [0 .. k - 1 -> S!Slots(n)]
  BY PoolFacts
<1> HIDE DEF f
<1>3. IsPath(E, f, h, k)
  BY <1>1, <1>2 DEF IsPath
<1>4. ListIn(E, h, k) = f
  BY <1>1, <1>2, <1>3, PathIsList
<1>5. Heads(E) = Heads(D)
  BY <1>1, <1>2 DEF Heads
<1>6. Range(f) = {s \in S!Slots(n) : ~E[s].mapped}
  BY <1>1
<1>7. ASSUME NEW i \in Heads(D)
      PROVE  /\ ChainIn(E, n, i) = ChainIn(D, n, i)
             /\ \E l \in 1 .. n : IsBuffer(E, ChainIn(E, n, i), i, l)
  <2>1. PICK l \in 1 .. n : IsBuffer(D, ChainIn(D, n, i), i, l)
    BY DEF Pool
  <2>2. i \in S!Slots(n) /\ \A s \in Range(ChainIn(D, n, i)) : s \in S!Slots(n) /\ D[s].mapped
    BY PoolFacts
  <2> QED
    BY <1>1, <2>1, <2>2, ChainKept
<1>8. /\ \A i, j \in Heads(E) :
            i # j => Range(ChainIn(E, n, i)) \cap Range(ChainIn(E, n, j)) = {}
      /\ \A s \in S!Slots(n) : E[s].mapped => \E i \in Heads(E) : s \in Range(ChainIn(E, n, i))
  BY <1>5, <1>7 DEF Pool
<1> QED
  BY <1>1, <1>4, <1>5, <1>6, <1>7, <1>8 DEF Pool

\* Detaching a buffer: its chain comes before the free list.
LEMMA PoolReturns ==
    ASSUME NEW D, NEW n, NEW h, NEW k, Pool(D, n, h, k), NEW i \in Heads(D), NEW E, Table(E, n),
           NEW c, c = ChainIn(D, n, i), NEW m \in 1 .. n, IsBuffer(D, c, i, m),
           \A s \in S!Slots(n) : s \notin Range(c) => E[s] = D[s],
           \A s \in Range(c) : /\ ~E[s].mapped
                               /\ E[s].data = IF s = i THEN NoData ELSE D[s].data
                               /\ E[s].next = IF s = c[m - 1] THEN h ELSE D[s].next
    PROVE  Pool(E, n, i, k + m) /\ Heads(E) = Heads(D) \ {i}
<1> DEFINE f == ListIn(D, h, k)
           g == [j \in 0 .. k + m - 1 |-> IF j < m THEN c[j] ELSE f[j - m]]
<1>1. /\ Table(D, n) /\ h \in S!Slots(n) /\ IsInjective(f) /\ k \in 0 .. n
      /\ Range(f) = {s \in S!Slots(n) : ~D[s].mapped}
      /\ m \in Nat /\ DOMAIN E = S!Slots(n)
  BY DEF Pool, Table
<1>2. /\ DOMAIN D = S!Slots(n) /\ n \in Nat /\ k \in Nat /\ k <= n
      /\ IsPath(D, f, h, k) /\ f \in [0 .. k - 1 -> S!Slots(n)]
      /\ \A j \in 0 .. k - 1 : ~D[f[j]].mapped
      /\ Heads(D) \subseteq S!Slots(n)
  BY PoolFacts
<1>3. /\ c \in [0 .. m - 1 -> S!Slots(n)] /\ c[0] = i /\ IsInjective(c)
      /\ \A j \in 0 .. m - 1 : D[c[j]].mapped
      /\ \A j \in 1 .. m - 1 : c[j] = D[c[j - 1]].next
  BY <1>2 DEF IsBuffer, IsPath
<1> HIDE DEF f
<1>4. \A j \in 0 .. m - 1 : c[j] \in Range(c)
  BY <1>3 DEF Range
<1>5. \A s \in Range(c) : s \in S!Slots(n) /\ D[s].mapped
  BY <1>3 DEF Range
<1>6. \A j \in 0 .. k - 1 : f[j] \notin Range(c)
  BY <1>2, <1>5
<1>7. g \in [0 .. k + m - 1 -> S!Slots(n)]
  BY <1>2, <1>3
<1>8. IsPath(E, g, i, k + m)
  <2>1. g[0] = i
    BY <1>2, <1>3
  <2>2. ASSUME NEW j \in 1 .. k + m - 1 PROVE g[j] = E[g[j - 1]].next
    <3>1. CASE j < m
      <4>1. g[j] = c[j] /\ g[j - 1] = c[j - 1] /\ c[j] = D[c[j - 1]].next
        BY <1>2, <1>3, <3>1
      <4>2. c[j - 1] # c[m - 1]
        BY <1>3, <3>1 DEF IsInjective
      <4>3. c[j - 1] \in Range(c)
        BY <1>4, <3>1
      <4> QED
        BY <4>1, <4>2, <4>3
    <3>2. CASE j = m
      <4>1. g[j] = f[0] /\ g[j - 1] = c[m - 1] /\ k > 0
        BY <1>2, <3>2
      <4>2. f[0] = h
        BY <1>2, <4>1 DEF IsPath
      <4>3. c[m - 1] \in Range(c)
        BY <1>4
      <4> QED
        BY <4>1, <4>2, <4>3
    <3>3. CASE j > m
      <4>1. g[j] = f[j - m] /\ g[j - 1] = f[j - m - 1] /\ j - m \in 1 .. k - 1
        BY <1>2, <3>3
      <4>2. f[j - m] = D[f[j - m - 1]].next
        BY <1>2, <4>1 DEF IsPath
      <4>3. f[j - m - 1] \notin Range(c) /\ f[j - m - 1] \in S!Slots(n)
        BY <1>2, <1>6, <4>1
      <4> QED
        BY <4>1, <4>2, <4>3
    <3> QED
      BY <1>2, <3>1, <3>2, <3>3
  <2> HIDE DEF g
  <2> QED
    BY <1>1, <1>7, <2>1, <2>2 DEF IsPath
<1>9. ListIn(E, i, k + m) = g
  BY <1>1, <1>2, <1>8, PathIsList
<1>10. IsInjective(g)
  <2>1. ASSUME NEW x \in 0 .. k + m - 1, NEW y \in 0 .. k + m - 1, g[x] = g[y], x <= y
        PROVE  x = y
    <3>1. CASE y < m
      BY <1>2, <1>3, <2>1, <3>1 DEF IsInjective
    <3>2. CASE x < m /\ m <= y
      <4>1. g[x] = c[x] /\ g[y] = f[y - m] /\ x \in 0 .. m - 1 /\ y - m \in 0 .. k - 1
        BY <1>2, <3>2
      <4> QED
        BY <1>4, <1>6, <2>1, <4>1
    <3>3. CASE m <= x
      <4>1. g[x] = f[x - m] /\ g[y] = f[y - m] /\ x - m \in 0 .. k - 1 /\ y - m \in 0 .. k - 1
        BY <1>2, <2>1, <3>3
      <4>2. x - m = y - m
        BY <1>1, <1>2, <2>1, <4>1 DEF IsInjective
      <4> QED
        BY <4>2
    <3> QED
      BY <2>1, <3>1, <3>2, <3>3
  <2>2. \A x, y \in 0 .. k + m - 1 : x <= y \/ y <= x
    BY <1>2
  <2>3. \A x, y \in 0 .. k + m - 1 : g[x] = g[y] => x = y
    BY <2>1, <2>2, Zenon
  <2> HIDE DEF g
  <2> QED
    BY <1>7, <2>3 DEF IsInjective
<1>11. k + m \in 0 .. n
  <2> DEFINE q == k + m
  <2> HIDE DEF g
  <2>1. q \in Nat /\ g \in [0 .. q - 1 -> S!Slots(n)]
    BY <1>1, <1>2, <1>7
  <2> HIDE DEF q
  <2>2. q <= n
    BY <1>2, <1>10, <2>1, PathFits
  <2> QED
    BY <1>2, <2>1, <2>2 DEF q
<1>12. Range(g) = {s \in S!Slots(n) : ~E[s].mapped}
  <2>1. ASSUME NEW s \in Range(g) PROVE s \in S!Slots(n) /\ ~E[s].mapped
    <3>1. PICK j \in 0 .. k + m - 1 : s = g[j]
      BY <1>7 DEF Range
    <3>2. CASE j < m
      BY <1>3, <1>4, <3>1, <3>2
    <3>3. CASE j >= m
      <4>1. s = f[j - m] /\ j - m \in 0 .. k - 1
        BY <1>2, <3>1, <3>3
      <4> QED
        BY <1>2, <1>6, <4>1
    <3> QED
      BY <3>2, <3>3
  <2>2. ASSUME NEW s \in S!Slots(n), ~E[s].mapped PROVE s \in Range(g)
    <3>1. CASE s \in Range(c)
      <4>1. PICK j \in 0 .. m - 1 : s = c[j]
        BY <1>3, <3>1 DEF Range
      <4>2. j \in 0 .. k + m - 1 /\ g[j] = s
        BY <1>2, <4>1
      <4> QED
        BY <1>7, <4>2 DEF Range
    <3>2. CASE s \notin Range(c)
      <4>1. s \in Range(f)
        BY <1>1, <2>2, <3>2
      <4>2. PICK j \in 0 .. k - 1 : s = f[j]
        BY <1>2, <4>1 DEF Range
      <4>3. j + m \in 0 .. k + m - 1 /\ g[j + m] = s
        BY <1>2, <4>2
      <4> QED
        BY <1>7, <4>3 DEF Range
    <3> QED
      BY <3>1, <3>2
  <2> QED
    BY <2>1, <2>2
<1>13. Heads(E) = Heads(D) \ {i}
  <2>1. \A s \in Range(c) : s # i => s \notin Heads(D)
    <3>1. ASSUME NEW s \in Range(c), s # i, s \in Heads(D) PROVE FALSE
      <4>1. s \in Range(ChainIn(D, n, s))
        BY <3>1, PoolFacts
      <4>2. Range(ChainIn(D, n, i)) \cap Range(ChainIn(D, n, s)) = {}
        BY <3>1 DEF Pool
      <4> QED
        BY <4>1, <4>2
    <3> QED
      BY <3>1
  <2>2. i \in Range(c)
    BY <1>3, <1>4
  <2> QED
    BY <1>1, <1>2, <1>5, <2>1, <2>2 DEF Heads
<1>14. ASSUME NEW j \in Heads(E)
       PROVE  /\ ChainIn(E, n, j) = ChainIn(D, n, j) /\ j \in Heads(D) /\ j # i
              /\ \E l \in 1 .. n : IsBuffer(E, ChainIn(E, n, j), j, l)
  <2>1. j \in Heads(D) /\ j # i
    BY <1>13
  <2>2. PICK l \in 1 .. n : IsBuffer(D, ChainIn(D, n, j), j, l)
    BY <2>1 DEF Pool
  <2>3. Range(c) \cap Range(ChainIn(D, n, j)) = {}
    BY <2>1 DEF Pool
  <2>4. j \in S!Slots(n) /\ \A s \in Range(ChainIn(D, n, j)) : s \in S!Slots(n)
    BY <2>1, PoolFacts
  <2>5. \A s \in Range(ChainIn(D, n, j)) : E[s] = D[s]
    BY <2>3, <2>4
  <2> QED
    BY <1>1, <2>1, <2>2, <2>4, <2>5, ChainKept
<1>15. ASSUME NEW s \in S!Slots(n), E[s].mapped
       PROVE  \E j \in Heads(E) : s \in Range(ChainIn(E, n, j))
  <2>1. s \notin Range(c) /\ D[s].mapped
    BY <1>15
  <2>2. PICK j \in Heads(D) : s \in Range(ChainIn(D, n, j))
    BY <2>1 DEF Pool
  <2>3. j \in Heads(E)
    BY <1>13, <2>1, <2>2
  <2> QED
    BY <1>14, <2>2, <2>3
<1>16. \A j, l \in Heads(E) :
          j # l => Range(ChainIn(E, n, j)) \cap Range(ChainIn(E, n, l)) = {}
  BY <1>14 DEF Pool
<1>17. i \in S!Slots(n)
  BY <1>2
<1> QED
  BY <1>9, <1>10, <1>11, <1>12, <1>13, <1>14, <1>15, <1>16, <1>17 DEF Pool

\* Without a buffer all descriptors are free.
LEMMA PoolIdle ==
    ASSUME NEW D, NEW n, NEW h, NEW k, Pool(D, n, h, k), Heads(D) = {}
    PROVE  k = n
<1> DEFINE f == ListIn(D, h, k)
<1>1. n \in Nat /\ k \in Nat /\ f \in [0 .. k - 1 -> S!Slots(n)] /\ IsInjective(f)
  BY PoolFacts DEF Pool
<1>2. Range(f) = S!Slots(n)
  BY DEF Pool
<1> HIDE DEF f
<1>3. Cardinality(S!Slots(n)) = n
  BY <1>1, FS_Interval DEF S!Slots
<1>4. Cardinality(Range(f)) = k
  BY <1>1, PathFits
<1> QED
  BY <1>2, <1>3, <1>4

\* A new table.
LEMMA PoolFresh ==
    ASSUME NEW n \in Nat \ {0}
    PROVE  Pool(S!FreshDesc(n), n, 0, n) /\ Heads(S!FreshDesc(n)) = {}
<1> DEFINE D == S!FreshDesc(n)
           f == [j \in 0 .. n - 1 |-> j]
<1>1. Table(D, n) /\ DOMAIN D = S!Slots(n) /\ 0 \in S!Slots(n)
  BY DEF Table, Descriptor, S!FreshDesc, S!Slots
<1>2. \A s \in S!Slots(n) : D[s].data = NoData /\ ~D[s].mapped
                            /\ (s < n - 1 => D[s].next = s + 1)
  BY DEF S!FreshDesc, S!Slots
<1> HIDE DEF D
<1>3. Heads(D) = {}
  BY <1>1, <1>2 DEF Heads
<1>4. IsPath(D, f, 0, n)
  BY <1>1, <1>2 DEF IsPath, S!Slots
<1>5. ListIn(D, 0, n) = f
  BY <1>1, <1>4, PathIsList
<1>6. IsInjective(f) /\ Range(f) = S!Slots(n)
  BY DEF IsInjective, Range, S!Slots
<1> QED
  BY <1>1, <1>2, <1>3, <1>5, <1>6 DEF Pool, D

-----------------------------------------------------------------------------
(* The pool of the queue *)

LEMMA SizesArePositive == \A n \in Sizes : n \in Nat \ {0} /\ 2 * n <= IdxMod
  BY SizesFitIndexes

LEMMA AddTakesFromPool ==
    ASSUME SplitShape, PoolInv, NEW t \in Data, NEW sg \in 1 .. MaxSg, NEW ind \in BOOLEAN,
           S!Add(t, sg, ind)
    PROVE  /\ PoolInv' /\ vq'.free_head \in Nat /\ vq'.num_free \in Nat
           /\ vq.free_head \notin Heads(desc)
           /\ Heads(desc') = Heads(desc) \cup {vq.free_head}
           /\ desc'[vq.free_head].data = t
           /\ \A i \in Heads(desc) : desc'[i].data = desc[i].data
<1> DEFINE m == IF ind THEN 1 ELSE sg
           n == vq.num
           h == vq.free_head
           c == ListIn(desc, h, m)
<1>1. /\ Pool(desc, n, h, vq.num_free) /\ n \in Nat \ {0} /\ n \in Sizes
      /\ vq.num_free \in Nat
  BY SizesArePositive DEF PoolInv, SplitShape, Queues, UsedRings
<1> DEFINE more(i) == i # c[m - 1]
           table(i) == ind /\ i = h
<1>2. m \in 1 .. vq.num_free
  <2>1. vq.num_free >= m
    BY DEF S!Add
  <2>2. m \in Nat \ {0}
    BY SizesFitIndexes
  <2> QED
    BY <1>1, <2>1, <2>2
<1>3. /\ desc' = [i \in DOMAIN desc |->
              IF i \in S!Range(c)
              THEN [desc[i] EXCEPT !.chained = more(i), !.mapped = TRUE,
                                   !.data = IF i = h THEN t ELSE @,
                                   !.indir = table(i)]
              ELSE desc[i]]
      /\ vq' = [vq EXCEPT !.free_head = desc[c[m - 1]].next, !.num_free = @ - m,
                          !.num_added = @ + 1]
  BY ListsOfTable DEF S!Add
<1>4. S!Range(c) = Range(c)
  BY DEF S!Range, Range
<1>5. vq'.num = n /\ vq'.free_head = desc[c[m - 1]].next /\ vq'.num_free = vq.num_free - m
  BY <1>3 DEF SplitShape, Queues, UsedRings
<1>6. /\ DOMAIN desc = S!Slots(n) /\ Table(desc, n) /\ h \in S!Slots(n)
      /\ \A s \in S!Slots(n) : desc[s] \in Descriptor(n)
  BY <1>1, PoolFacts DEF Pool
<1>b. \A s : more(s) \in BOOLEAN /\ table(s) \in BOOLEAN
  OBVIOUS
<1>m. \A s : more(s) <=> s # c[m - 1]
  OBVIOUS
<1> HIDE DEF m, c, more, table
<1>7. \A s \in S!Slots(n) : s \notin Range(c) => desc'[s] = desc[s]
  BY <1>3, <1>4, <1>6
<1>8. \A s \in S!Slots(n) : s \in Range(c) =>
          desc'[s] = [desc[s] EXCEPT !.chained = more(s), !.mapped = TRUE,
                                     !.data = IF s = h THEN t ELSE @,
                                     !.indir = table(s)]
  BY <1>3, <1>4, <1>6
<1>9. ASSUME NEW s \in S!Slots(n), s \in Range(c)
      PROVE  /\ desc'[s].next = desc[s].next
             /\ desc'[s].mapped /\ (desc'[s].chained <=> s # c[m - 1])
             /\ desc'[s].data = IF s = h THEN t ELSE desc[s].data
             /\ desc'[s] \in Descriptor(n)
  <2> DEFINE u == IF s = h THEN t ELSE desc[s].data
  <2>1. u \in Data \cup {NoData} /\ more(s) \in BOOLEAN /\ table(s) \in BOOLEAN
        /\ desc[s] \in Descriptor(n)
    BY <1>6, <1>b DEF Descriptor
  <2>2. desc'[s] = [desc[s] EXCEPT !.chained = more(s), !.mapped = TRUE, !.data = u,
                                   !.indir = table(s)]
    BY <1>8, <1>9
  <2> HIDE DEF u
  <2>3. /\ desc'[s] \in Descriptor(n) /\ desc'[s].next = desc[s].next
        /\ desc'[s].chained = more(s) /\ desc'[s].mapped /\ desc'[s].data = u
    BY <2>1, <2>2 DEF Descriptor
  <2> QED
    BY <2>3, <1>m DEF u
<1>10. \A s \in S!Slots(n) : desc'[s].next = desc[s].next /\ desc'[s] \in Descriptor(n)
  BY <1>6, <1>7, <1>9
<1>11. Table(desc', n)
  BY <1>1, <1>3, <1>6, <1>10 DEF Table
<1>12. IsPath(desc, c, h, m)
  BY <1>2, <1>6, ListIsPath DEF c
<1>13. c \in [0 .. m - 1 -> S!Slots(n)] /\ c[0] = h
  BY <1>2, <1>6, <1>12 DEF IsPath
<1>14. h \in Range(c) /\ \A s \in Range(c) : s \in S!Slots(n)
  BY <1>2, <1>13 DEF Range
<1>15. desc'[h].data = t /\ t # NoData
  BY <1>6, <1>9, <1>14, BuffersAreTokens
<1>16. /\ Pool(desc', n, desc[c[m - 1]].next, vq.num_free - m)
       /\ h \notin Heads(desc) /\ Heads(desc') = Heads(desc) \cup {h}
  BY <1>1, <1>2, <1>7, <1>9, <1>10, <1>11, <1>14, <1>15, PoolTakes DEF c
<1>17. \A i \in Heads(desc) : desc'[i].data = desc[i].data
  BY <1>6, <1>7, <1>9, <1>16 DEF Heads
<1>18. PoolInv'
  BY <1>5, <1>16 DEF PoolInv
<1>19. vq'.free_head \in Nat /\ vq'.num_free \in Nat
  BY <1>5, <1>16 DEF Pool, S!Slots
<1> QED
  BY <1>15, <1>16, <1>17, <1>18, <1>19

LEMMA FailedAddMarks ==
    ASSUME SplitShape, PoolInv, NEW sg \in 1 .. MaxSg, NEW k \in 1 .. MaxSg,
           S!AddMapFails(sg, k)
    PROVE  /\ PoolInv' /\ Heads(desc') = Heads(desc)
           /\ \A i \in Heads(desc) : desc'[i].data = desc[i].data
<1> DEFINE n == vq.num
           h == vq.free_head
           f == ListIn(desc, h, vq.num_free)
           c == ListIn(desc, h, k)
<1>1. /\ Pool(desc, n, h, vq.num_free) /\ vq' = vq /\ k \in Nat /\ k <= vq.num_free
      /\ vq.num_free \in Nat
      /\ desc' = [i \in DOMAIN desc |-> IF i \in S!Range(c) THEN [desc[i] EXCEPT !.chained = TRUE]
                                                            ELSE desc[i]]
  BY ListsOfTable, SizesFitIndexes DEF PoolInv, SplitShape, Queues, UsedRings, S!AddMapFails
<1>2. S!Range(c) = Range(c)
  BY DEF S!Range, Range
<1>3. /\ DOMAIN desc = S!Slots(n) /\ Table(desc, n) /\ h \in S!Slots(n) /\ n \in Nat
      /\ \A s \in S!Slots(n) : desc[s] \in Descriptor(n)
      /\ IsPath(desc, f, h, vq.num_free)
      /\ \A j \in 0 .. vq.num_free - 1 : ~desc[f[j]].mapped
      /\ Heads(desc) \subseteq S!Slots(n)
  BY <1>1, PoolFacts DEF Pool
<1>4. IsPath(desc, c, h, k)
  BY <1>1, <1>3, ListIsPath
<1> HIDE DEF c, f
<1>5. \A j \in 0 .. k - 1 : c[j] = f[j] /\ ~desc[c[j]].mapped
  <2>1. ASSUME NEW j \in 0 .. k - 1 PROVE c[j] = f[j]
    <3>1. j \in Nat /\ j < k /\ j < vq.num_free
      BY <1>1
    <3> QED
      BY <1>1, <1>3, <1>4, <3>1, PathsAgree
  <2> QED
    BY <1>1, <1>3, <2>1
<1>6. \A s \in Range(c) : ~desc[s].mapped
  BY <1>4, <1>5 DEF Range, IsPath
<1>7. \A s \in S!Slots(n) : desc'[s] = IF s \in Range(c) THEN [desc[s] EXCEPT !.chained = TRUE]
                                                         ELSE desc[s]
  BY <1>1, <1>2, <1>3
<1>8. \A s \in S!Slots(n) : /\ desc'[s].next = desc[s].next /\ desc'[s].data = desc[s].data
                            /\ desc'[s].mapped = desc[s].mapped
                            /\ desc[s].mapped => desc'[s].chained = desc[s].chained
                            /\ desc'[s] \in Descriptor(n)
  BY <1>3, <1>6, <1>7, ZenonT(40) DEF Descriptor
<1>9. Table(desc', n)
  BY <1>1, <1>3, <1>8 DEF Table
<1>10. Pool(desc', n, h, vq.num_free) /\ Heads(desc') = Heads(desc)
  BY <1>1, <1>8, <1>9, PoolMarks
<1> QED
  BY <1>1, <1>3, <1>8, <1>10 DEF PoolInv

LEMMA DetachReturnsToPool ==
    ASSUME SplitShape, PoolInv, NEW head \in Heads(desc), NEW u \in Index,
           S!Detach(head, [vq EXCEPT !.last_used_idx = u])
    PROVE  /\ PoolInv'
           /\ vq'.free_head \in Nat /\ vq'.num_free \in Nat
           /\ vq' = [vq EXCEPT !.last_used_idx = u, !.free_head = vq'.free_head,
                               !.num_free = vq'.num_free]
           /\ Heads(desc') = Heads(desc) \ {head}
           /\ \A i \in Heads(desc') : desc'[i].data = desc[i].data
<1> DEFINE n == vq.num
           h == vq.free_head
           c == ChainIn(desc, n, head)
<1>1. /\ Pool(desc, n, h, vq.num_free) /\ vq.num_free \in Nat /\ n \in Nat /\ h \in S!Slots(n)
  BY SizesArePositive DEF PoolInv, SplitShape, Queues, UsedRings, Pool
<1>2. /\ DOMAIN desc = S!Slots(n) /\ Table(desc, n) /\ Heads(desc) \subseteq S!Slots(n)
      /\ \A s \in S!Slots(n) : desc[s] \in Descriptor(n)
  BY <1>1, PoolFacts DEF Pool
<1>3. PICK m \in 1 .. n : IsBuffer(desc, c, head, m)
  BY <1>1 DEF Pool
<1>4. c \in [0 .. m - 1 -> S!Slots(n)]
  BY <1>2, <1>3 DEF IsBuffer, IsPath
<1>5. S!Max(DOMAIN c) = m - 1 /\ S!Cardinality(DOMAIN c) = m
  <2> HIDE DEF c
  <2>1. DOMAIN c = 0 .. m - 1 /\ m \in Nat \ {0} /\ m - 1 \in Int
    BY <1>1, <1>4
  <2>2. m - 1 \in 0 .. m - 1 /\ \A y \in 0 .. m - 1 : m - 1 >= y
    BY <2>1
  <2>3. \A x \in 0 .. m - 1 : (\A y \in 0 .. m - 1 : x >= y) => x = m - 1
    BY <2>1, <2>2
  <2>4. S!Max(0 .. m - 1) = m - 1
    BY <2>2, <2>3 DEF S!Max
  <2>5. Cardinality(0 .. m - 1) = m
    <3>1. \A b \in Int : Cardinality(0 .. b) = IF 0 > b THEN 0 ELSE b - 0 + 1
      BY FS_Interval
    <3> QED
      BY <2>1, <3>1
  <2>6. S!Cardinality(0 .. m - 1) = Cardinality(0 .. m - 1)
    BY DEF S!Cardinality, Cardinality
  <2>7. S!Cardinality(0 .. m - 1) = m
    BY <2>1, <2>5, <2>6
  <2> QED
    BY <2>1, <2>4, <2>7
<1>6. /\ desc' = [i \in DOMAIN desc |->
              IF i \in S!Range(c)
              THEN [desc[i] EXCEPT !.mapped = FALSE, !.indir = FALSE,
                                   !.data = IF i = head THEN NoData ELSE @,
                                   !.next = IF i = c[m - 1] THEN h ELSE @]
              ELSE desc[i]]
      /\ vq' = [[vq EXCEPT !.last_used_idx = u] EXCEPT
                   !.free_head = head, !.num_free = @ + m]
  BY <1>5, ChainsOfTable DEF S!Detach
<1>7. S!Range(c) = Range(c)
  BY DEF S!Range, Range
<1>8. /\ vq' = [vq EXCEPT !.last_used_idx = u, !.free_head = vq'.free_head,
                          !.num_free = vq'.num_free]
      /\ vq'.num = n /\ vq'.free_head = head /\ vq'.num_free = vq.num_free + m
  BY <1>6 DEF SplitShape, Queues, UsedRings
<1> HIDE DEF c
<1>9. \A s \in S!Slots(n) : s \notin Range(c) => desc'[s] = desc[s]
  BY <1>2, <1>6, <1>7
<1>10. \A s \in S!Slots(n) : s \in Range(c) =>
          desc'[s] = [desc[s] EXCEPT !.mapped = FALSE, !.indir = FALSE,
                                     !.data = IF s = head THEN NoData ELSE @,
                                     !.next = IF s = c[m - 1] THEN h ELSE @]
  BY <1>2, <1>6, <1>7
<1>11. ASSUME NEW s \in S!Slots(n), s \in Range(c)
       PROVE  /\ ~desc'[s].mapped
              /\ desc'[s].data = IF s = head THEN NoData ELSE desc[s].data
              /\ desc'[s].next = IF s = c[m - 1] THEN h ELSE desc[s].next
              /\ desc'[s] \in Descriptor(n)
  <2> DEFINE t == IF s = head THEN NoData ELSE desc[s].data
             x == IF s = c[m - 1] THEN h ELSE desc[s].next
  <2>1. t \in Data \cup {NoData} /\ x \in S!Slots(n) /\ desc[s] \in Descriptor(n)
    BY <1>1, <1>2 DEF Descriptor
  <2>2. desc'[s] = [desc[s] EXCEPT !.mapped = FALSE, !.indir = FALSE, !.data = t, !.next = x]
    BY <1>10, <1>11
  <2> HIDE DEF t, x
  <2>3. desc'[s] \in Descriptor(n) /\ desc'[s].next = x /\ ~desc'[s].mapped /\ desc'[s].data = t
    BY <2>1, <2>2 DEF Descriptor
  <2> QED
    BY <2>3 DEF t, x
<1>12. Table(desc', n)
  BY <1>2, <1>6, <1>9, <1>11 DEF Table
<1>13. \A s \in Range(c) : s \in S!Slots(n)
  BY <1>4 DEF Range
<1>14. Pool(desc', n, head, vq.num_free + m) /\ Heads(desc') = Heads(desc) \ {head}
  BY <1>1, <1>3, <1>9, <1>11, <1>12, <1>13, PoolReturns DEF c
<1>15. \A i \in Heads(desc') : desc'[i].data = desc[i].data
  BY <1>2, <1>9, <1>11, <1>13, <1>14
<1>16. PoolInv'
  BY <1>8, <1>14 DEF PoolInv
<1>17. vq'.free_head \in Nat /\ vq'.num_free \in Nat
  BY <1>1, <1>2, <1>8 DEF S!Slots
<1> QED
  BY <1>8, <1>14, <1>15, <1>16, <1>17

\* The two ways to get a buffer back.
LEMMA GetBufDetaches ==
    ASSUME SplitShape, PoolInv, S!GetBuf,
           desc[used.ring[vq.last_used_idx % vq.num]].data # NoData
    PROVE  /\ used.ring[vq.last_used_idx % vq.num] \in Heads(desc)
           /\ (vq.last_used_idx + 1) % IdxMod \in Index
           /\ S!Detach(used.ring[vq.last_used_idx % vq.num],
                       [vq EXCEPT !.last_used_idx = (vq.last_used_idx + 1) % IdxMod])
<1>1. DOMAIN desc = S!Slots(vq.num)
  BY PoolFacts DEF PoolInv
<1>2. vq.last_used_idx \in Nat /\ vq.num \in Nat \ {0}
  BY SizesArePositive DEF SplitShape, Queues, UsedRings, Index
<1>3. vq.last_used_idx % vq.num \in S!Slots(vq.num)
  BY <1>2 DEF S!Slots
<1>4. used.ring[vq.last_used_idx % vq.num] \in S!Slots(vq.num)
  BY <1>3 DEF SplitShape, Queues, UsedRings
<1>5. (vq.last_used_idx + 1) % IdxMod \in Index
  BY <1>2, SizesFitIndexes DEF Index
<1> QED
  BY <1>1, <1>4, <1>5 DEF S!GetBuf, Heads

LEMMA DetachUnusedDetaches ==
    ASSUME SplitShape, PoolInv, S!DetachUnused
    PROVE  \E head \in Heads(desc) :
              S!Detach(head, [vq EXCEPT !.last_used_idx = vq.last_used_idx])
<1>1. DOMAIN desc = S!Slots(vq.num)
  BY PoolFacts DEF PoolInv
<1>2. S!HasData = Heads(desc) /\ Heads(desc) \subseteq Nat /\ Heads(desc) # {}
  BY <1>1, SizesArePositive DEF S!HasData, Heads, S!Slots, S!DetachUnused, SplitShape, Queues, UsedRings
<1>3. PICK x \in Heads(desc) : \A y \in Heads(desc) : x <= y
  BY <1>2, Least
<1>4. S!Min(Heads(desc)) \in Heads(desc)
  BY <1>3 DEF S!Min
<1>5. vq = [vq EXCEPT !.last_used_idx = vq.last_used_idx]
  BY DEF SplitShape, Queues, UsedRings
<1> QED
  BY <1>2, <1>4, <1>5 DEF S!DetachUnused

-----------------------------------------------------------------------------
(* Types *)

LEMMA IndexesWrap ==
    /\ IdxMod \in Nat \ {0} /\ 0 \in Index
    /\ \A x \in Int : x % IdxMod \in Index
    /\ \A n \in Sizes : \A x \in Index : x % n \in S!Slots(n) /\ 0 \in S!Slots(n)
  BY SizesFitIndexes, SizesArePositive DEF Index, S!Slots

LEMMA FreshShapes ==
    ASSUME NEW n \in Sizes
    PROVE  /\ S!FreshAvail(n) \in AvailRings(n)
           /\ S!FreshUsed(n) \in UsedRings(n)
           /\ n \in Nat
  BY IndexesWrap, SizesArePositive DEF S!FreshAvail, S!FreshUsed, AvailRings, UsedRings

\* What the operations do to the records, field by field.
LEMMA KickEffect ==
    ASSUME SplitShape, NEW need \in BOOLEAN, S!Kick(need)
    PROVE  /\ drv' = [drv EXCEPT !.at = IF drv.at = "kick" THEN "drain" ELSE drv.at]
           /\ vq' = [vq EXCEPT !.num_added = 0, !.broken = vq'.broken]
           /\ vq'.broken \in BOOLEAN /\ (vq.broken => vq'.broken)
           /\ wire' = [wire EXCEPT !.kick = wire'.kick] /\ wire'.kick \in BOOLEAN
           /\ wire.kick => wire'.kick
           /\ need => wire'.kick \/ vq'.broken
           /\ dev' = dev
<1> DEFINE b == wire.kick \/ (need /\ ~vq.broken)
<1>1. b \in BOOLEAN /\ (wire.kick => b) /\ (need => b \/ vq.broken)
  OBVIOUS
<1>2. /\ drv' = [drv EXCEPT !.at = IF drv.at = "kick" THEN "drain" ELSE drv.at]
      /\ dev' = dev
      /\ \/ vq' = [vq EXCEPT !.num_added = 0] /\ wire' = [wire EXCEPT !.kick = b]
         \/ vq' = [vq EXCEPT !.num_added = 0, !.broken = TRUE] /\ wire' = wire
  BY DEF S!Kick
<1> HIDE DEF b
<1>3. CASE vq' = [vq EXCEPT !.num_added = 0] /\ wire' = [wire EXCEPT !.kick = b]
  BY <1>1, <1>2, <1>3 DEF SplitShape, Queues, Wires
<1>4. CASE vq' = [vq EXCEPT !.num_added = 0, !.broken = TRUE] /\ wire' = wire
  BY <1>1, <1>2, <1>4 DEF SplitShape, Queues, Wires
<1> QED
  BY <1>2, <1>3, <1>4

LEMMA KickSplitEffect ==
    ASSUME SplitShape, S!KickSplit
    PROVE  /\ drv.at \in {"drain", "kick"} /\ vq.num_added > 0
           /\ drv' = [drv EXCEPT !.at = "drain"]
           /\ vq' = [vq EXCEPT !.num_added = 0, !.broken = vq'.broken]
           /\ vq'.broken \in BOOLEAN /\ (vq.broken => vq'.broken)
           /\ wire' = [wire EXCEPT !.kick = wire'.kick] /\ wire'.kick \in BOOLEAN
           /\ wire.kick => wire'.kick
           /\ vq.event /\ S!need_event(used.avail_event, avail.idx,
                                       (avail.idx - vq.num_added) % IdxMod) =>
                 wire'.kick \/ vq'.broken
           /\ ~vq.event /\ ~used.no_notify => wire'.kick \/ vq'.broken
           /\ UNCHANGED <<dev, desc, avail, used>>
<1> DEFINE crossed == S!need_event(used.avail_event, avail.idx, (avail.idx - vq.num_added) % IdxMod)
           asked == ~used.no_notify
           need == IF vq.event THEN crossed ELSE asked
<1>1. crossed \in BOOLEAN
  BY DEF S!need_event
<1>2. asked \in BOOLEAN
  OBVIOUS
<1>3. /\ S!Kick(need) /\ UNCHANGED <<desc, avail, used>>
      /\ drv.at \in {"drain", "kick"} /\ vq.num_added > 0
  BY DEF S!KickSplit, S!CanCall
<1> HIDE DEF crossed, asked
<1>4. need \in BOOLEAN /\ (vq.event /\ crossed => need) /\ (~vq.event /\ asked => need)
  BY <1>1, <1>2
<1> HIDE DEF need
<1>5. /\ drv' = [drv EXCEPT !.at = IF drv.at = "kick" THEN "drain" ELSE drv.at]
      /\ vq' = [vq EXCEPT !.num_added = 0, !.broken = vq'.broken]
      /\ vq'.broken \in BOOLEAN /\ (vq.broken => vq'.broken)
      /\ wire' = [wire EXCEPT !.kick = wire'.kick] /\ wire'.kick \in BOOLEAN
      /\ wire.kick => wire'.kick
      /\ need => wire'.kick \/ vq'.broken
      /\ dev' = dev
  BY <1>3, <1>4, KickEffect
<1>6. drv' = [drv EXCEPT !.at = "drain"]
  BY <1>3, <1>5
<1> QED
  BY <1>3, <1>4, <1>5, <1>6 DEF crossed, asked

LEMMA InterruptEffect ==
    ASSUME SplitShape, S!Interrupt(S!more_used)
    PROVE  /\ vq' = [vq EXCEPT !.event_triggered = vq'.event_triggered]
           /\ vq'.event_triggered \in BOOLEAN
           /\ dev' = dev
           /\ drv.at # "idle" => drv' = drv /\ wire' = wire
           /\ drv.at = "idle" => wire' = [wire EXCEPT !.irq = FALSE]
           /\ drv.at = "idle" /\ vq.last_used_idx # used.idx /\ ~vq.broken =>
                 drv' = [drv EXCEPT !.at = "drain"]
           /\ drv.at = "idle" /\ ~(vq.last_used_idx # used.idx /\ ~vq.broken) => drv' = drv
<1> DEFINE b == vq.event_triggered \/ (vq.event /\ S!more_used /\ ~vq.broken)
           a == IF S!more_used /\ ~vq.broken THEN "drain" ELSE drv.at
<1>1. b \in BOOLEAN
  BY DEF SplitShape, Queues
<1>2. vq' = [vq EXCEPT !.event_triggered = b] /\ dev' = dev
  BY DEF S!Interrupt
<1>3. drv.at # "idle" => drv' = drv /\ wire' = wire
  BY DEF S!Interrupt
<1>4. drv.at = "idle" => wire' = [wire EXCEPT !.irq = FALSE] /\ drv' = [drv EXCEPT !.at = a]
  BY DEF S!Interrupt
<1>5. a = IF vq.last_used_idx # used.idx /\ ~vq.broken THEN "drain" ELSE drv.at
  BY DEF S!more_used
<1> HIDE DEF a, b
<1>6. a = drv.at => [drv EXCEPT !.at = a] = drv
  BY DEF SplitShape, Drivers
<1>7. vq' = [vq EXCEPT !.event_triggered = vq'.event_triggered] /\ vq'.event_triggered \in BOOLEAN
  BY <1>1, <1>2 DEF SplitShape, Queues
<1> QED
  BY <1>2, <1>3, <1>4, <1>5, <1>6, <1>7

LEMMA EnableEffect ==
    ASSUME SplitShape, NEW to, NEW e, S!Enable(to, e)
    PROVE  /\ drv.at = "drain" /\ vq.num_added = 0
           /\ drv' = [drv EXCEPT !.at = to]
           /\ vq' = [vq EXCEPT !.event_triggered = FALSE]
           /\ avail' = [avail EXCEPT !.no_interrupt = FALSE, !.used_event = e % IdxMod,
                                     !.flag = avail'.flag]
           /\ avail'.flag \in BOOLEAN
           /\ ~vq.event /\ (avail.no_interrupt \/ ~avail.flag) => ~avail'.flag
           /\ UNCHANGED <<wire, dev, desc, used>>
<1> DEFINE b == IF avail.no_interrupt /\ ~vq.event THEN FALSE ELSE avail.flag
<1>1. b \in BOOLEAN /\ (~vq.event /\ (avail.no_interrupt \/ ~avail.flag) => ~b)
  BY DEF SplitShape, AvailRings
<1>2. /\ drv.at = "drain" /\ vq.num_added = 0
      /\ drv' = [drv EXCEPT !.at = to]
      /\ vq' = [vq EXCEPT !.event_triggered = FALSE]
      /\ avail' = [avail EXCEPT !.no_interrupt = FALSE, !.used_event = e % IdxMod, !.flag = b]
      /\ UNCHANGED <<wire, dev, desc, used>>
  BY DEF S!Enable, S!CanStop
<1> HIDE DEF b
<1>3. /\ avail' = [avail EXCEPT !.no_interrupt = FALSE, !.used_event = e % IdxMod,
                                !.flag = avail'.flag]
      /\ avail'.flag = b
  BY <1>2 DEF SplitShape, AvailRings
<1> QED
  BY <1>1, <1>2, <1>3

LEMMA DisableEffect ==
    ASSUME SplitShape, S!DisableCb
    PROVE  /\ drv.at = "drain"
           /\ avail' = [avail EXCEPT !.no_interrupt = TRUE, !.used_event = avail'.used_event,
                                     !.flag = avail'.flag]
           /\ avail'.flag \in BOOLEAN /\ avail'.used_event \in Index
           /\ UNCHANGED <<vq, drv, wire, dev, desc, used>>
<1> DEFINE b == IF ~vq.event /\ ~vq.event_triggered THEN TRUE ELSE avail.flag
           e == IF vq.event /\ ~vq.event_triggered THEN 0 ELSE avail.used_event
<1>1. b \in BOOLEAN /\ e \in Index
  BY IndexesWrap DEF SplitShape, AvailRings
<1>2. /\ drv.at = "drain" /\ UNCHANGED <<vq, drv, wire, dev, desc, used>>
      /\ avail' = [avail EXCEPT !.no_interrupt = TRUE, !.used_event = e, !.flag = b]
  BY DEF S!DisableCb, S!CanCall
<1> HIDE DEF b, e
<1> QED
  BY <1>1, <1>2 DEF SplitShape, AvailRings

LEMMA GetBufEffect ==
    ASSUME SplitShape, PoolInv, S!GetBuf
    PROVE  LET head == used.ring[vq.last_used_idx % vq.num]
               nxt  == (vq.last_used_idx + 1) % IdxMod
           IN  /\ drv.at = "drain" /\ ~vq.broken /\ vq.last_used_idx # used.idx
               /\ UNCHANGED <<drv, wire, dev, used>>
               /\ \/ /\ head \notin Heads(desc)
                     /\ vq' = [vq EXCEPT !.broken = TRUE] /\ UNCHANGED <<desc, avail>>
                  \/ /\ head \in Heads(desc) /\ nxt \in Index
                     /\ PoolInv' /\ Heads(desc') = Heads(desc) \ {head}
                     /\ \A i \in Heads(desc') : desc'[i].data = desc[i].data
                     /\ vq' = [vq EXCEPT !.last_used_idx = nxt, !.free_head = vq'.free_head,
                                         !.num_free = vq'.num_free]
                     /\ vq'.free_head \in Nat /\ vq'.num_free \in Nat
                     /\ avail' = [avail EXCEPT !.used_event = avail'.used_event]
                     /\ avail'.used_event = IF avail.no_interrupt THEN avail.used_event ELSE nxt
<1> DEFINE head == used.ring[vq.last_used_idx % vq.num]
           nxt  == (vq.last_used_idx + 1) % IdxMod
           e    == IF avail.no_interrupt THEN avail.used_event ELSE nxt
<1>1. /\ drv.at = "drain" /\ ~vq.broken /\ vq.last_used_idx # used.idx
      /\ UNCHANGED <<drv, wire, dev, used>>
  BY DEF S!GetBuf, S!CanCall, S!more_used
<1>2. CASE desc[head].data = NoData
  BY <1>1, <1>2 DEF S!GetBuf, Heads
<1>3. CASE desc[head].data # NoData
  <2>1. /\ head \in Heads(desc) /\ nxt \in Index
        /\ S!Detach(head, [vq EXCEPT !.last_used_idx = nxt])
    BY <1>3, GetBufDetaches
  <2>2. avail' = [avail EXCEPT !.used_event = e]
    BY <1>3 DEF S!GetBuf
  <2> HIDE DEF head, nxt, e
  <2>3. avail' = [avail EXCEPT !.used_event = avail'.used_event] /\ avail'.used_event = e
    BY <2>2 DEF SplitShape, AvailRings
  <2>4. /\ PoolInv' /\ Heads(desc') = Heads(desc) \ {head}
        /\ \A i \in Heads(desc') : desc'[i].data = desc[i].data
        /\ vq' = [vq EXCEPT !.last_used_idx = nxt, !.free_head = vq'.free_head,
                            !.num_free = vq'.num_free]
        /\ vq'.free_head \in Nat /\ vq'.num_free \in Nat
    BY <2>1, DetachReturnsToPool
  <2> QED
    BY <1>1, <2>1, <2>3, <2>4 DEF head, nxt, e
<1> QED
  BY <1>2, <1>3

LEMMA RecheckEffect ==
    ASSUME SplitShape, S!DevRecheck
    PROVE  /\ UNCHANGED <<vq, drv, wire, desc, avail>> /\ dev.at = "recheck"
           /\ dev' = [dev EXCEPT !.at = dev'.at] /\ dev'.at \in {"run", "sleep"}
           /\ used' = [used EXCEPT !.no_notify = used'.no_notify] /\ used'.no_notify \in BOOLEAN
           /\ dev'.at = "sleep" => dev.last_avail = avail.idx /\ used' = used
<1> DEFINE b == ~vq.event
<1>1. b \in BOOLEAN
  OBVIOUS
<1>2. /\ UNCHANGED <<vq, drv, wire, desc, avail>> /\ dev.at = "recheck"
      /\ \/ dev.last_avail = avail.idx /\ dev' = [dev EXCEPT !.at = "sleep"] /\ used' = used
         \/ dev' = [dev EXCEPT !.at = "run"] /\ used' = [used EXCEPT !.no_notify = b]
  BY DEF S!DevRecheck
<1> HIDE DEF b
<1>3. CASE dev.last_avail = avail.idx /\ dev' = [dev EXCEPT !.at = "sleep"] /\ used' = used
  BY <1>2, <1>3 DEF SplitShape, Devices, UsedRings
<1>4. CASE dev' = [dev EXCEPT !.at = "run"] /\ used' = [used EXCEPT !.no_notify = b]
  BY <1>1, <1>2, <1>4 DEF SplitShape, Devices, UsedRings
<1> QED
  BY <1>2, <1>3, <1>4

LEMMA SignalEffect ==
    ASSUME SplitShape, S!DevSignal
    PROVE  LET wanted == IF vq.event THEN S!need_event(avail.used_event, used.idx, dev.signalled)
                                     ELSE ~avail.flag
           IN  /\ dev.at # "off" /\ dev.signalled # used.idx
               /\ dev' = [dev EXCEPT !.signalled = used.idx]
               /\ wire' = [wire EXCEPT !.irq = wire'.irq] /\ wire'.irq \in BOOLEAN
               /\ wire'.irq <=> wire.irq \/ wanted
               /\ UNCHANGED <<vq, drv, desc, avail, used>>
<1> DEFINE wanted == IF vq.event THEN S!need_event(avail.used_event, used.idx, dev.signalled)
                                 ELSE ~avail.flag
           b == wire.irq \/ wanted
<1>1. b \in BOOLEAN /\ (b <=> wire.irq \/ wanted)
  OBVIOUS
<1>2. /\ dev.at # "off" /\ dev.signalled # used.idx
      /\ dev' = [dev EXCEPT !.signalled = used.idx]
      /\ UNCHANGED <<vq, drv, desc, avail, used>>
      /\ wire' = [wire EXCEPT !.irq = b]
  BY DEF S!DevSignal
<1> HIDE DEF b, wanted
<1>3. wire' = [wire EXCEPT !.irq = wire'.irq] /\ wire'.irq \in BOOLEAN /\ wire'.irq = b
  BY <1>1, <1>2 DEF SplitShape, Wires
<1> QED
  BY <1>1, <1>2, <1>3 DEF wanted

LEMMA ShapeNext ==
    ASSUME SplitShape, PoolInv, vq.num_added = IdxMod - 1 => drv.at = "kick", S!SplitNext
    PROVE  SplitShape'
<1> DEFINE n == vq.num
<1>a. /\ vq \in Queues /\ drv \in Drivers /\ wire \in Wires
      /\ dev \in Devices(n) /\ avail \in AvailRings(n) /\ used \in UsedRings(n)
      /\ drv.at = "reset" => drv.size \in Sizes /\ dev.at = "off"
      /\ n \in Sizes
  BY DEF SplitShape, Queues
<1>1. ASSUME NEW t \in Data, NEW sg \in 1 .. MaxSg, NEW ind \in BOOLEAN, S!Add(t, sg, ind)
      PROVE  SplitShape'
  <2>1. /\ vq'.free_head \in Nat /\ vq'.num_free \in Nat
        /\ vq.free_head \in S!Slots(n)
    BY <1>1, AddTakesFromPool DEF PoolInv, Pool
  <2>2. /\ drv.at = "drain" /\ UNCHANGED <<wire, dev, used>>
        /\ vq' = [vq EXCEPT !.free_head = vq'.free_head, !.num_free = vq'.num_free,
                            !.num_added = vq.num_added + 1]
    BY <1>1, <1>a DEF S!Add, S!CanCall, Queues
  <2>3. vq.num_added + 1 \in Index
    BY <1>a, <2>2, IndexesWrap DEF Queues, Index
  <2>4. vq' \in Queues /\ vq'.num = n
    BY <1>a, <2>1, <2>2, <2>3 DEF Queues
  <2>5. drv' \in Drivers /\ drv'.at # "reset"
    BY <1>1, <1>a, <2>2 DEF S!Add, Drivers
  <2>6. avail.idx % n \in S!Slots(n) /\ (avail.idx + 1) % IdxMod \in Index
    BY <1>a, IndexesWrap DEF AvailRings, Index
  <2>7. avail' \in AvailRings(n)
    BY <1>1, <1>a, <2>1, <2>6 DEF S!Add, AvailRings
  <2> QED
    BY <1>a, <2>2, <2>4, <2>5, <2>7 DEF SplitShape
<1>2. ASSUME NEW sg \in 1 .. MaxSg, S!AddFull(sg) PROVE SplitShape'
  BY <1>2, <1>a DEF S!AddFull, Wires, SplitShape
<1>3. ASSUME NEW sg \in 1 .. MaxSg, NEW k \in 1 .. MaxSg, S!AddMapFails(sg, k)
      PROVE  SplitShape'
  BY <1>3, <1>a DEF S!AddMapFails, SplitShape
<1>4. ASSUME S!KickSplit PROVE SplitShape'
  <2>1. /\ drv.at # "reset" /\ drv' = [drv EXCEPT !.at = "drain"]
        /\ vq' = [vq EXCEPT !.num_added = 0, !.broken = vq'.broken]
        /\ vq'.broken \in BOOLEAN
        /\ wire' = [wire EXCEPT !.kick = wire'.kick] /\ wire'.kick \in BOOLEAN
        /\ UNCHANGED <<dev, desc, avail, used>>
    BY <1>4, KickSplitEffect
  <2>2. vq' \in Queues /\ vq'.num = n
    BY <1>a, <2>1, IndexesWrap DEF Queues
  <2>3. drv' \in Drivers /\ drv'.at # "reset"
    BY <1>a, <2>1 DEF Drivers
  <2>4. wire' \in Wires
    BY <1>a, <2>1 DEF Wires
  <2> QED
    BY <1>a, <2>1, <2>2, <2>3, <2>4 DEF SplitShape
<1>5. ASSUME S!GetBuf PROVE SplitShape'
  <2>1. vq' \in Queues /\ vq'.num = n /\ avail' \in AvailRings(n)
    BY <1>5, <1>a, GetBufEffect DEF Queues, AvailRings
  <2>2. drv.at = "drain" /\ UNCHANGED <<drv, wire, dev, used>>
    BY <1>5, GetBufEffect
  <2> QED
    BY <1>a, <2>1, <2>2 DEF SplitShape
<1>6. ASSUME S!DisableCb PROVE SplitShape'
  <2>1. avail' \in AvailRings(n) /\ UNCHANGED <<vq, drv, wire, dev, desc, used>>
    BY <1>6, <1>a, DisableEffect DEF AvailRings
  <2> QED
    BY <1>a, <2>1 DEF SplitShape
<1>7. ASSUME NEW to \in {"poll", "delayed"}, NEW e \in Int, S!Enable(to, e)
      PROVE  SplitShape'
  <2>1. /\ drv.at = "drain" /\ vq.num_added = 0
        /\ drv' = [drv EXCEPT !.at = to]
        /\ vq' = [vq EXCEPT !.event_triggered = FALSE]
        /\ avail' = [avail EXCEPT !.no_interrupt = FALSE, !.used_event = e % IdxMod,
                                  !.flag = avail'.flag]
        /\ avail'.flag \in BOOLEAN
        /\ UNCHANGED <<wire, dev, desc, used>>
    BY <1>7, EnableEffect
  <2>2. e % IdxMod \in Index
    BY IndexesWrap
  <2>3. vq' \in Queues /\ vq'.num = n
    BY <1>a, <2>1 DEF Queues
  <2>4. avail' \in AvailRings(n)
    BY <1>a, <2>1, <2>2 DEF AvailRings
  <2>5. drv' \in Drivers /\ drv'.at # "reset"
    BY <1>a, <2>1 DEF Drivers
  <2> QED
    BY <1>a, <2>1, <2>3, <2>4, <2>5 DEF SplitShape
<1>8. ASSUME S!Poll \/ S!PollDelayed \/ S!Leave PROVE SplitShape'
  <2>1. /\ drv' = [drv EXCEPT !.at = drv'.at] /\ drv'.at \in {"idle", "drain"}
        /\ UNCHANGED <<vq, wire, dev, desc, avail, used>>
    BY <1>8, <1>a DEF S!Poll, S!PollDelayed, S!Leave, Drivers
  <2> QED
    BY <1>a, <2>1 DEF SplitShape, Drivers
<1>9. ASSUME S!DetachUnused PROVE SplitShape'
  <2>1. PICK head \in Heads(desc) : S!Detach(head, [vq EXCEPT !.last_used_idx = vq.last_used_idx])
    BY <1>9, DetachUnusedDetaches
  <2>2. vq.last_used_idx \in Index
    BY <1>a DEF Queues
  <2>3. /\ vq' = [vq EXCEPT !.last_used_idx = vq.last_used_idx, !.free_head = vq'.free_head,
                            !.num_free = vq'.num_free]
        /\ vq'.free_head \in Nat /\ vq'.num_free \in Nat
    BY <2>1, <2>2, DetachReturnsToPool
  <2>4. vq' \in Queues /\ vq'.num = n
    BY <1>a, <2>2, <2>3 DEF Queues
  <2>5. (avail.idx - 1) % IdxMod \in Index
    BY <1>a, IndexesWrap DEF AvailRings, Index
  <2>6. avail' \in AvailRings(n)
    BY <1>9, <1>a, <2>5 DEF S!DetachUnused, AvailRings
  <2> QED
    BY <1>9, <1>a, <2>4, <2>6 DEF SplitShape, S!DetachUnused
<1>10. ASSUME S!ResizeSplit PROVE SplitShape'
  <2>1. drv.at = "reset" /\ drv.size \in Sizes
    BY <1>10, <1>a DEF S!ResizeSplit, S!ResizeEnd
  <2>2. /\ drv' = [drv EXCEPT !.at = "drain", !.size = 0] /\ wire' = wire
        /\ dev' = [S!DeviceOff EXCEPT !.at = "run"] \/ dev' = S!DeviceOff
    BY <1>10 DEF S!ResizeSplit, S!ResizeEnd
  <2>3. drv' \in Drivers /\ drv'.at # "reset"
    BY <1>a, <2>2 DEF Drivers
  <2>4. \A m : dev' \in Devices(m)
    BY <2>2, IndexesWrap DEF S!DeviceOff, Devices
  <2>5. CASE /\ vq' = [S!Reinit(vq, drv.size) EXCEPT !.free_head = 0]
             /\ avail' = S!FreshAvail(drv.size) /\ used' = S!FreshUsed(drv.size)
    <3>1. vq' \in Queues /\ vq'.num = drv.size
      BY <1>a, <2>1, <2>5, FreshShapes, IndexesWrap DEF S!Reinit, Queues
    <3> QED
      BY <1>a, <2>1, <2>2, <2>3, <2>4, <2>5, <3>1, FreshShapes DEF SplitShape
  <2>6. CASE /\ vq' = S!Reinit(vq, vq.num)
             /\ avail' = [S!FreshAvail(vq.num) EXCEPT !.ring = avail.ring]
             /\ used' = [S!FreshUsed(vq.num) EXCEPT !.ring = used.ring]
    <3>1. vq' \in Queues /\ vq'.num = n
      BY <1>a, <2>6, FreshShapes, IndexesWrap DEF S!Reinit, Queues
    <3>2. S!FreshAvail(n) \in AvailRings(n) /\ S!FreshUsed(n) \in UsedRings(n)
      BY <1>a, FreshShapes
    <3>3. avail' \in AvailRings(n) /\ used' \in UsedRings(n)
      BY <1>a, <2>6, <3>2 DEF AvailRings, UsedRings
    <3> QED
      BY <1>a, <2>2, <2>3, <2>4, <3>1, <3>3 DEF SplitShape
  <2> QED
    BY <1>10, <2>5, <2>6 DEF S!ResizeSplit
<1>11. ASSUME S!Enter, UNCHANGED <<desc, avail, used>> PROVE SplitShape'
  BY <1>11, <1>a DEF SplitShape, Drivers, S!Enter
<1>12. ASSUME S!Interrupt(S!more_used), UNCHANGED <<desc, avail, used>> PROVE SplitShape'
  <2>1. /\ vq' = [vq EXCEPT !.event_triggered = vq'.event_triggered]
        /\ vq'.event_triggered \in BOOLEAN
        /\ dev' = dev
        /\ wire' = wire \/ wire' = [wire EXCEPT !.irq = FALSE]
        /\ drv' = drv \/ drv' = [drv EXCEPT !.at = "drain"]
    BY <1>12, InterruptEffect
  <2>2. vq' \in Queues /\ vq'.num = n
    BY <1>a, <2>1 DEF Queues
  <2>3. wire' \in Wires
    BY <1>a, <2>1 DEF Wires
  <2>4. drv' \in Drivers /\ (drv'.at = "reset" => drv' = drv)
    BY <1>a, <2>1 DEF Drivers
  <2> QED
    BY <1>12, <1>a, <2>1, <2>2, <2>3, <2>4 DEF SplitShape
<1>13. ASSUME S!ResizeStart(S!DeviceOff), UNCHANGED <<desc, avail, used>> PROVE SplitShape'
  <2>1. PICK size \in Sizes : drv' = [drv EXCEPT !.at = "reset", !.size = size]
    BY <1>13 DEF S!ResizeStart
  <2>2. drv' \in Drivers /\ drv'.size \in Sizes
    BY <1>a, <2>1, SizesArePositive DEF Drivers
  <2>3. wire' \in Wires /\ dev' \in Devices(n) /\ dev'.at = "off" /\ vq' = vq
    BY <1>13, IndexesWrap DEF S!ResizeStart, S!QuietWire, Wires, S!DeviceOff, Devices
  <2> QED
    BY <1>13, <1>a, <2>2, <2>3 DEF SplitShape
<1>14. ASSUME S!DevTake PROVE SplitShape'
  <2>1. dev.last_avail \in Index /\ dev.last_avail % n \in S!Slots(n)
    BY <1>a, IndexesWrap DEF Devices
  <2>2. avail.ring[dev.last_avail % n] \in S!Slots(n) /\ (dev.last_avail + 1) % IdxMod \in Index
    BY <1>a, <2>1, IndexesWrap DEF AvailRings, Index
  <2>3. dev' \in Devices(n)
    BY <1>14, <1>a, <2>2 DEF Devices, S!DevTake
  <2>4. drv.at # "reset" /\ UNCHANGED <<vq, drv, wire, desc, avail, used>>
    BY <1>14, <1>a DEF S!DevTake
  <2> QED
    BY <1>a, <2>3, <2>4 DEF SplitShape
<1>15. ASSUME S!DevEnable PROVE SplitShape'
  <2>1. drv.at # "reset" /\ UNCHANGED <<vq, drv, wire, desc, avail>>
    BY <1>15, <1>a DEF S!DevEnable
  <2>2. used' \in UsedRings(n) /\ dev' \in Devices(n)
    BY <1>15, <1>a DEF S!DevEnable, UsedRings, Devices
  <2> QED
    BY <1>a, <2>1, <2>2 DEF SplitShape
<1>16. ASSUME S!DevRecheck PROVE SplitShape'
  <2>1. /\ UNCHANGED <<vq, drv, wire, desc, avail>> /\ dev.at = "recheck"
        /\ dev' = [dev EXCEPT !.at = dev'.at] /\ dev'.at \in {"run", "sleep"}
        /\ used' = [used EXCEPT !.no_notify = used'.no_notify] /\ used'.no_notify \in BOOLEAN
    BY <1>16, RecheckEffect
  <2>2. used' \in UsedRings(n) /\ dev' \in Devices(n)
    BY <1>a, <2>1 DEF UsedRings, Devices
  <2> QED
    BY <1>a, <2>1, <2>2 DEF SplitShape
<1>17. ASSUME S!DevSignal PROVE SplitShape'
  <2>1. /\ dev.at # "off" /\ dev' = [dev EXCEPT !.signalled = used.idx]
        /\ wire' = [wire EXCEPT !.irq = wire'.irq] /\ wire'.irq \in BOOLEAN
        /\ UNCHANGED <<vq, drv, desc, avail, used>>
    BY <1>17, SignalEffect
  <2>2. dev' \in Devices(n) /\ wire' \in Wires
    BY <1>a, <2>1 DEF UsedRings, Devices, Wires
  <2> QED
    BY <1>a, <2>1, <2>2 DEF SplitShape
<1>18. ASSUME NEW head \in dev.taken, S!DevUse(head) PROVE SplitShape'
  <2>1. head \in S!Slots(n) /\ used.idx \in Index
    BY <1>a DEF Devices, UsedRings
  <2>2. used.idx % n \in S!Slots(n) /\ (used.idx + 1) % IdxMod \in Index
    BY <1>a, <2>1, IndexesWrap DEF Index
  <2>3. used' \in UsedRings(n) /\ dev' \in Devices(n)
    BY <1>18, <1>a, <2>1, <2>2 DEF UsedRings, Devices, S!DevUse
  <2>4. drv.at # "reset" /\ UNCHANGED <<vq, drv, wire, desc, avail>>
    BY <1>18, <1>a DEF S!DevUse
  <2> QED
    BY <1>a, <2>3, <2>4 DEF SplitShape
<1>19. ASSUME S!DevWake([dev EXCEPT !.at = "run"]), UNCHANGED <<desc, avail, used>>
       PROVE  SplitShape'
  <2>1. drv.at # "reset" /\ UNCHANGED <<vq, drv, desc, avail, used>>
    BY <1>19, <1>a DEF S!DevWake
  <2>2. dev' \in Devices(n) /\ wire' \in Wires
    BY <1>19, <1>a DEF S!DevWake, Devices, Wires
  <2> QED
    BY <1>a, <2>1, <2>2 DEF SplitShape
<1>20. vq.last_used_idx \in Int /\ S!Delay \in Int
  BY <1>a, IndexesWrap DEF Queues, Index, S!Delay, S!Outstanding, AvailRings
<1>21. S!EnableCb \/ S!EnableCbDelayed => SplitShape'
  <2>1. vq.last_used_idx + S!Delay \in Int
    BY <1>20
  <2> QED
    BY <1>7, <1>20, <2>1 DEF S!EnableCb, S!EnableCbDelayed
<1> QED
  BY <1>1, <1>2, <1>3, <1>4, <1>5, <1>6, <1>8, <1>9, <1>10, <1>11, <1>12, <1>13, <1>14,
     <1>15, <1>16, <1>17, <1>18, <1>19, <1>21 DEF S!SplitNext, S!Driver, S!Device

-----------------------------------------------------------------------------
(* The descriptors and the tokens of the queue *)

\* Every step keeps the pool, and no step gives two buffers the same token.
LEMMA PoolNext ==
    ASSUME SplitShape, PoolInv, DataDistinct, S!SplitNext
    PROVE  PoolInv' /\ DataDistinct'
<1> DEFINE n == vq.num
<1>a. /\ n \in Sizes /\ vq \in Queues /\ DOMAIN desc = S!Slots(n) /\ n \in Nat \ {0}
      /\ drv.at = "reset" => drv.size \in Sizes
  BY PoolFacts, SizesArePositive DEF SplitShape, Queues, PoolInv
<1>b. ASSUME desc' = desc, vq'.num = n, vq'.free_head = vq.free_head,
             vq'.num_free = vq.num_free
      PROVE  PoolInv' /\ DataDistinct'
  BY <1>b DEF PoolInv, DataDistinct
<1>c. ASSUME Heads(desc') \subseteq Heads(desc),
             \A i \in Heads(desc') : desc'[i].data = desc[i].data
      PROVE  DataDistinct'
  BY <1>c DEF DataDistinct
<1>1. ASSUME NEW t \in Data, NEW sg \in 1 .. MaxSg, NEW ind \in BOOLEAN, S!Add(t, sg, ind)
      PROVE  PoolInv' /\ DataDistinct'
  <2>1. /\ PoolInv' /\ Heads(desc') = Heads(desc) \cup {vq.free_head}
        /\ desc'[vq.free_head].data = t
        /\ \A i \in Heads(desc) : desc'[i].data = desc[i].data
    BY <1>1, AddTakesFromPool
  <2>2. \A i \in Heads(desc) : desc[i].data # t
    BY <1>1 DEF S!Add, Heads
  <2> QED
    BY <2>1, <2>2 DEF DataDistinct
<1>2. ASSUME NEW sg \in 1 .. MaxSg, S!AddFull(sg) PROVE PoolInv' /\ DataDistinct'
  BY <1>2, <1>b DEF S!AddFull
<1>3. ASSUME NEW sg \in 1 .. MaxSg, NEW k \in 1 .. MaxSg, S!AddMapFails(sg, k)
      PROVE  PoolInv' /\ DataDistinct'
  BY <1>3, <1>c, FailedAddMarks
<1>4. ASSUME S!KickSplit PROVE PoolInv' /\ DataDistinct'
  BY <1>4, <1>a, <1>b, KickSplitEffect DEF Queues
<1>5. ASSUME S!GetBuf PROVE PoolInv' /\ DataDistinct'
  <2>1. \/ desc' = desc /\ vq' = [vq EXCEPT !.broken = TRUE]
        \/ /\ PoolInv' /\ Heads(desc') \subseteq Heads(desc)
           /\ \A i \in Heads(desc') : desc'[i].data = desc[i].data
    BY <1>5, GetBufEffect
  <2> QED
    BY <1>a, <1>b, <1>c, <2>1 DEF Queues
<1>6. ASSUME S!DisableCb \/ S!Poll \/ S!PollDelayed \/ S!Leave PROVE PoolInv' /\ DataDistinct'
  BY <1>6, <1>b DEF S!DisableCb, S!Poll, S!PollDelayed, S!Leave
<1>7. ASSUME NEW to, NEW e, S!Enable(to, e) PROVE PoolInv' /\ DataDistinct'
  BY <1>7, <1>a, <1>b, EnableEffect DEF Queues
<1>8. ASSUME S!DetachUnused PROVE PoolInv' /\ DataDistinct'
  <2>1. PICK head \in Heads(desc) : S!Detach(head, [vq EXCEPT !.last_used_idx = vq.last_used_idx])
    BY <1>8, DetachUnusedDetaches
  <2>2. vq.last_used_idx \in Index
    BY <1>a DEF Queues
  <2> QED
    BY <1>c, <2>1, <2>2, DetachReturnsToPool
<1>9. ASSUME S!ResizeSplit PROVE PoolInv' /\ DataDistinct'
  <2>1. drv.at = "reset" /\ drv.size \in Sizes /\ drv.size \in Nat \ {0} /\ Heads(desc) = {}
    BY <1>9, <1>a, SizesArePositive DEF S!ResizeSplit, S!ResizeEnd, S!HasData, Heads
  <2>2. CASE vq' = [S!Reinit(vq, drv.size) EXCEPT !.free_head = 0] /\ desc' = S!FreshDesc(drv.size)
    <3>1. vq'.num = drv.size /\ vq'.free_head = 0 /\ vq'.num_free = drv.size
      BY <1>a, <2>2 DEF S!Reinit, Queues
    <3>2. Pool(desc', drv.size, 0, drv.size) /\ Heads(desc') = {}
      BY <2>1, <2>2, PoolFresh
    <3> QED
      BY <3>1, <3>2 DEF PoolInv, DataDistinct
  <2>3. CASE vq' = S!Reinit(vq, vq.num) /\ desc' = desc
    <3>1. vq.num_free = n
      BY <2>1, PoolIdle DEF PoolInv
    <3>2. vq'.num = n /\ vq'.free_head = vq.free_head /\ vq'.num_free = n
      BY <1>a, <2>3 DEF S!Reinit, Queues
    <3> QED
      BY <1>b, <2>3, <3>1, <3>2
  <2> QED
    BY <1>9, <2>2, <2>3 DEF S!ResizeSplit
<1>10. ASSUME S!Enter \/ S!Interrupt(S!more_used) \/ S!ResizeStart(S!DeviceOff),
              UNCHANGED desc
       PROVE  PoolInv' /\ DataDistinct'
  <2>1. vq'.num = n /\ vq'.free_head = vq.free_head /\ vq'.num_free = vq.num_free
    BY <1>10, <1>a, InterruptEffect DEF S!Enter, S!ResizeStart, Queues
  <2> QED
    BY <1>10, <1>b, <2>1
<1>11. ASSUME UNCHANGED <<vq, desc>> PROVE PoolInv' /\ DataDistinct'
  BY <1>11, <1>b
<1>12. S!Device => UNCHANGED <<vq, desc>>
  BY DEF S!Device, S!DevTake, S!DevEnable, S!DevRecheck, S!DevSignal, S!DevUse, S!DevWake
<1> QED
  BY <1>1, <1>2, <1>3, <1>4, <1>5, <1>6, <1>7, <1>8, <1>9, <1>10, <1>11, <1>12
     DEF S!SplitNext, S!Driver, S!EnableCb, S!EnableCbDelayed

-----------------------------------------------------------------------------
(* Kicks *)

\* Remainders of numbers that are off by no more than one turn.
LEMMA Turns ==
    ASSUME NEW M \in Nat \ {0}, NEW a \in 0 .. M - 1, NEW b \in 0 .. M - 1
    PROVE  /\ (a - b) % M = IF a >= b THEN a - b ELSE a - b + M
           /\ (a - b - 1) % M = IF a > b THEN a - b - 1 ELSE a - b - 1 + M
           /\ (a + b) % M = IF a + b < M THEN a + b ELSE a + b - M
           /\ (a + 1) % M = IF a = M - 1 THEN 0 ELSE a + 1
           /\ (a - 1) % M = IF a = 0 THEN M - 1 ELSE a - 1
           /\ a % M = a
<1>1. (a - b) % M = IF a >= b THEN a - b ELSE a - b + M
  OBVIOUS
<1>2. (a - b - 1) % M = IF a > b THEN a - b - 1 ELSE a - b - 1 + M
  OBVIOUS
<1>3. (a + b) % M = IF a + b < M THEN a + b ELSE a + b - M
  OBVIOUS
<1>4. (a + 1) % M = IF a = M - 1 THEN 0 ELSE a + 1
  OBVIOUS
<1>5. (a - 1) % M = IF a = 0 THEN M - 1 ELSE a - 1
  OBVIOUS
<1>6. a % M = a
  OBVIOUS
<1> QED
  BY <1>1, <1>2, <1>3, <1>4, <1>5, <1>6

\* Sums and differences of indexes.
LEMMA Differences ==
    ASSUME NEW a \in Index, NEW b \in Index
    PROVE  /\ (a - b) % IdxMod = IF a >= b THEN a - b ELSE a - b + IdxMod
           /\ (a - b) % IdxMod \in Index
           /\ (a - b - 1) % IdxMod = IF a > b THEN a - b - 1 ELSE a - b - 1 + IdxMod
           /\ (a + b) % IdxMod = IF a + b < IdxMod THEN a + b ELSE a + b - IdxMod
           /\ (a + b) % IdxMod \in Index
           /\ (a + 1) % IdxMod = IF a = IdxMod - 1 THEN 0 ELSE a + 1
           /\ (a + 1) % IdxMod \in Index
           /\ (a - 1) % IdxMod = IF a = 0 THEN IdxMod - 1 ELSE a - 1
           /\ a % IdxMod = a
<1> DEFINE d == (a - b) % IdxMod
           c == (a - b - 1) % IdxMod
           p == (a + b) % IdxMod
           u == (a + 1) % IdxMod
           v == (a - 1) % IdxMod
<1>1. IdxMod \in Nat \ {0} /\ a \in 0 .. IdxMod - 1 /\ b \in 0 .. IdxMod - 1
  BY IndexesWrap DEF Index
<1>2. /\ d = IF a >= b THEN a - b ELSE a - b + IdxMod
      /\ c = IF a > b THEN a - b - 1 ELSE a - b - 1 + IdxMod
      /\ p = IF a + b < IdxMod THEN a + b ELSE a + b - IdxMod
      /\ u = IF a = IdxMod - 1 THEN 0 ELSE a + 1
      /\ v = IF a = 0 THEN IdxMod - 1 ELSE a - 1
      /\ a % IdxMod = a
  BY <1>1, Turns
<1> HIDE DEF d, c, p, u, v
<1>3. d \in 0 .. IdxMod - 1 /\ p \in 0 .. IdxMod - 1 /\ u \in 0 .. IdxMod - 1
  BY <1>1, <1>2
<1> QED
  BY <1>2, <1>3 DEF d, c, p, u, v, Index

LEMMA NoDifference ==
    ASSUME NEW a \in Index, NEW b \in Index
    PROVE  (a - b) % IdxMod = 0 <=> a = b
<1> DEFINE d == (a - b) % IdxMod
<1>1. d = IF a >= b THEN a - b ELSE a - b + IdxMod
  BY Differences
<1> HIDE DEF d
<1> QED
  <2>1. d = 0 <=> a = b
    BY <1>1, IndexesWrap DEF Index
  <2> QED
    BY <2>1 DEF d

\* One more step.
LEMMA NextDifference ==
    ASSUME NEW a \in Index, NEW b \in Index
    PROVE  /\ (((a + 1) % IdxMod) - b) % IdxMod \in Index
           /\ (((a + 1) % IdxMod) - b) % IdxMod =
                 IF (a - b) % IdxMod = IdxMod - 1 THEN 0 ELSE ((a - b) % IdxMod) + 1
<1> DEFINE c == (a + 1) % IdxMod
<1>1. c \in Index /\ c = IF a = IdxMod - 1 THEN 0 ELSE a + 1
  BY Differences
<1> DEFINE d == (a - b) % IdxMod
<1>2. d = IF a >= b THEN a - b ELSE a - b + IdxMod
  BY Differences
<1> DEFINE e == (c - b) % IdxMod
<1> HIDE DEF c
<1>3. e = (IF c >= b THEN c - b ELSE c - b + IdxMod) /\ e \in Index
  BY <1>1, Differences
<1> HIDE DEF d, e
<1>4. IdxMod \in Nat \ {0} /\ a \in 0 .. IdxMod - 1 /\ b \in 0 .. IdxMod - 1
  BY IndexesWrap DEF Index
<1>5. e = IF d = IdxMod - 1 THEN 0 ELSE d + 1
  BY <1>1, <1>2, <1>3, <1>4
<1> QED
  BY <1>3, <1>5 DEF c, d, e

\* The event at e is crossed on the way from i - k to i.
LEMMA NeedEvent ==
    ASSUME NEW i \in Index, NEW e \in Index, NEW k \in Index, k > 0
    PROVE  S!need_event(e, i, (i - k) % IdxMod) <=> i # e /\ (i - e) % IdxMod <= k
<1> DEFINE o == (i - k) % IdxMod
           d == (i - e) % IdxMod
           c == (i - e - 1) % IdxMod
<1>0. IdxMod \in Nat \ {0} /\ i \in 0 .. IdxMod - 1 /\ e \in 0 .. IdxMod - 1 /\ k \in 0 .. IdxMod - 1
  BY IndexesWrap DEF Index
<1>1. o \in Index /\ o = IF i >= k THEN i - k ELSE i - k + IdxMod
  BY Differences
<1>2. d = IF i >= e THEN i - e ELSE i - e + IdxMod
  BY Differences
<1>3. c = IF i > e THEN i - e - 1 ELSE i - e - 1 + IdxMod
  BY Differences
<1> HIDE DEF o, d, c
<1>4. (i - o) % IdxMod = IF i >= o THEN i - o ELSE i - o + IdxMod
  BY <1>1, Differences
<1>5. (i - o) % IdxMod = k
  BY <1>0, <1>1, <1>4
<1>6. (c < k) <=> (i # e /\ d <= k)
  BY <1>0, <1>2, <1>3
<1> QED
  BY <1>5, <1>6 DEF S!need_event, o, d, c

\* A kick that finds no need to ring the doorbell has nothing to tell of.
LEMMA NoNeedToKick ==
    ASSUME NEW i \in Index, NEW e \in Index, NEW k \in Index,
           (i - e) % IdxMod <= k, k > 0, ~S!need_event(e, i, (i - k) % IdxMod)
    PROVE  i = e
  BY NeedEvent

LEMMA KickNext ==
    ASSUME SplitShape, PoolInv, KickInv, S!SplitNext
    PROVE  KickInv'
<1> DEFINE n == vq.num
           Behind == (avail.idx - dev.last_avail) % IdxMod
<1>a. /\ vq \in Queues /\ drv \in Drivers /\ wire \in Wires /\ n \in Sizes
      /\ dev \in Devices(n) /\ avail \in AvailRings(n) /\ used \in UsedRings(n)
      /\ drv.at = "reset" => dev.at = "off"
      /\ IdxMod \in Nat /\ IdxMod > 1
  BY SizesArePositive, IndexesWrap DEF SplitShape, Queues
<1>b. Behind \in Index /\ vq.num_added \in Index
  BY <1>a, Differences DEF Queues, Devices, AvailRings
<1>c. ASSUME vq'.num_added = vq.num_added, vq.broken => vq'.broken,
             drv.at = "kick" => drv'.at = "kick",
             avail'.idx = avail.idx, dev'.at = dev.at, dev'.last_avail = dev.last_avail,
             used'.avail_event = used.avail_event, used'.no_notify = used.no_notify,
             wire'.kick \/ (wire'.kick = wire.kick)
      PROVE  KickInv'
  BY <1>c DEF KickInv
<1>1. ASSUME NEW t \in Data, NEW sg \in 1 .. MaxSg, NEW ind \in BOOLEAN, S!Add(t, sg, ind)
      PROVE  KickInv'
  <2>1. /\ vq'.num_added = vq.num_added + 1 /\ vq'.broken = vq.broken
        /\ UNCHANGED <<wire, dev, used>>
        /\ vq.num_added + 1 = IdxMod - 1 => drv'.at = "kick"
        /\ avail'.idx = (avail.idx + 1) % IdxMod
    BY <1>1, <1>a DEF S!Add, S!MustKick, Queues, Drivers, AvailRings
  <2>2. avail.idx \in Index /\ dev.last_avail \in Index
    BY <1>a DEF AvailRings, Devices
  <2> DEFINE x == (((avail.idx + 1) % IdxMod) - dev.last_avail) % IdxMod
  <2>3. x \in Index /\ x = IF Behind = IdxMod - 1 THEN 0 ELSE Behind + 1
    BY <2>2, NextDifference
  <2>4. (avail'.idx - dev'.last_avail) % IdxMod = x
    BY <2>1
  <2> HIDE DEF Behind, x
  <2>5. Behind <= vq.num_added => x <= vq.num_added + 1
    BY <1>a, <1>b, <2>3 DEF Index
  <2>6. dev.at = "sleep" /\ ~wire.kick /\ ~vq.broken => Behind <= vq.num_added
    BY DEF KickInv, Behind
  <2> QED
    BY <2>1, <2>4, <2>5, <2>6 DEF KickInv
<1>2. ASSUME NEW sg \in 1 .. MaxSg, S!AddFull(sg) PROVE KickInv'
  BY <1>2, <1>a, <1>c DEF S!AddFull, Wires
<1>3. ASSUME NEW sg \in 1 .. MaxSg, NEW k \in 1 .. MaxSg, S!AddMapFails(sg, k)
      PROVE  KickInv'
  BY <1>3, <1>c DEF S!AddMapFails
<1>4. ASSUME S!KickSplit PROVE KickInv'
  <2>1. /\ vq.num_added > 0
        /\ vq'.num_added = 0 /\ (vq.broken => vq'.broken)
        /\ wire.kick => wire'.kick
        /\ vq.event /\ S!need_event(used.avail_event, avail.idx,
                                    (avail.idx - vq.num_added) % IdxMod) =>
              wire'.kick \/ vq'.broken
        /\ ~vq.event /\ ~used.no_notify => wire'.kick \/ vq'.broken
        /\ UNCHANGED <<dev, desc, avail, used>>
    BY <1>4, <1>a, KickSplitEffect DEF Queues
  <2>2. ASSUME dev.at = "sleep", ~wire'.kick, ~vq'.broken
        PROVE  Behind = 0
    <3>1. /\ Behind <= vq.num_added
          /\ used.avail_event = dev.last_avail /\ ~used.no_notify
      BY <2>1, <2>2 DEF KickInv
    <3>2. ~S!need_event(dev.last_avail, avail.idx, (avail.idx - vq.num_added) % IdxMod)
      BY <2>1, <2>2, <3>1
    <3>3. avail.idx \in Index /\ dev.last_avail \in Index
      BY <1>a DEF AvailRings, Devices
    <3>4. avail.idx = dev.last_avail
      BY <1>a, <1>b, <2>1, <3>1, <3>2, <3>3, NoNeedToKick
    <3> QED
      BY <3>3, <3>4, NoDifference
  <2>3. (avail'.idx - dev'.last_avail) % IdxMod = Behind
    BY <2>1
  <2> HIDE DEF Behind
  <2> QED
    BY <1>a, <2>1, <2>2, <2>3 DEF KickInv
<1>5. ASSUME S!GetBuf PROVE KickInv'
  <2>1. /\ UNCHANGED <<drv, wire, dev, used>>
        /\ \/ vq' = [vq EXCEPT !.broken = TRUE] /\ avail' = avail
           \/ /\ vq' = [vq EXCEPT !.last_used_idx = (vq.last_used_idx + 1) % IdxMod,
                                  !.free_head = vq'.free_head, !.num_free = vq'.num_free]
              /\ avail' = [avail EXCEPT !.used_event = avail'.used_event]
    BY <1>5, GetBufEffect
  <2>2. vq'.num_added = vq.num_added /\ (vq.broken => vq'.broken) /\ avail'.idx = avail.idx
    BY <1>a, <2>1 DEF Queues, AvailRings
  <2> QED
    BY <1>c, <2>1, <2>2
<1>6. ASSUME S!DisableCb PROVE KickInv'
  <2>1. avail'.idx = avail.idx /\ UNCHANGED <<vq, drv, wire, dev, used>>
    BY <1>6, <1>a, DisableEffect DEF AvailRings
  <2> QED
    BY <1>c, <2>1
<1>7. ASSUME NEW to, NEW e, S!Enable(to, e) PROVE KickInv'
  <2>1. /\ avail'.idx = avail.idx /\ UNCHANGED <<wire, dev, used>>
        /\ vq'.num_added = vq.num_added /\ vq'.broken = vq.broken /\ drv.at = "drain"
    BY <1>7, <1>a, EnableEffect DEF AvailRings, Queues
  <2> QED
    BY <1>c, <2>1
<1>8. ASSUME S!Poll \/ S!PollDelayed \/ S!Leave \/ S!Enter, UNCHANGED avail, UNCHANGED used
      PROVE  KickInv'
  <2>1. drv.at # "kick" /\ UNCHANGED <<vq, wire, dev>>
    BY <1>8 DEF S!Poll, S!PollDelayed, S!Leave, S!Enter, S!CanStop
  <2> QED
    BY <1>8, <1>c, <2>1
<1>9. ASSUME S!DetachUnused PROVE KickInv'
  <2>1. PICK head \in Heads(desc) : S!Detach(head, [vq EXCEPT !.last_used_idx = vq.last_used_idx])
    BY <1>9, DetachUnusedDetaches
  <2>2. vq.last_used_idx \in Index
    BY <1>a DEF Queues
  <2>3. vq'.num_added = vq.num_added
    BY <1>a, <2>1, <2>2, DetachReturnsToPool DEF Queues
  <2>4. drv' = drv /\ dev' = dev /\ dev.at = "off"
    BY <1>9, <1>a DEF S!DetachUnused
  <2> QED
    BY <2>3, <2>4 DEF KickInv
<1>10. ASSUME S!ResizeSplit PROVE KickInv'
  <2>1. vq'.num_added = 0
    BY <1>10, <1>a DEF S!ResizeSplit, S!Reinit, Queues
  <2>2. dev'.at \in {"run", "off"}
    BY <1>10 DEF S!ResizeSplit, S!ResizeEnd, S!DeviceOff
  <2> QED
    BY <1>a, <2>1, <2>2 DEF KickInv
<1>11. ASSUME S!Interrupt(S!more_used), UNCHANGED avail, UNCHANGED used PROVE KickInv'
  <2>1. /\ vq' = [vq EXCEPT !.event_triggered = vq'.event_triggered] /\ dev' = dev
        /\ drv.at # "idle" => drv' = drv /\ wire' = wire
        /\ drv.at = "idle" => wire' = [wire EXCEPT !.irq = FALSE]
    BY <1>11, InterruptEffect
  <2>2. vq'.num_added = vq.num_added /\ vq'.broken = vq.broken /\ wire'.kick = wire.kick
    BY <1>a, <2>1 DEF Queues, Wires
  <2> QED
    BY <1>11, <1>c, <2>1, <2>2
<1>12. ASSUME S!ResizeStart(S!DeviceOff), UNCHANGED avail, UNCHANGED used PROVE KickInv'
  <2>1. vq' = vq /\ dev'.at = "off" /\ drv.at = "drain"
    BY <1>12 DEF S!ResizeStart, S!DeviceOff
  <2> QED
    BY <2>1 DEF KickInv
<1>13. ASSUME S!DevTake PROVE KickInv'
  BY <1>13, <1>a DEF KickInv, S!DevTake, Devices
<1>14. ASSUME S!DevEnable PROVE KickInv'
  BY <1>14, <1>a DEF KickInv, S!DevEnable, Devices, UsedRings
<1>15. ASSUME S!DevRecheck PROVE KickInv'
  <2>1. /\ UNCHANGED <<vq, drv, wire, desc, avail>> /\ dev.at = "recheck"
        /\ dev'.at \in {"run", "sleep"} /\ dev'.last_avail = dev.last_avail
        /\ dev'.at = "sleep" => dev.last_avail = avail.idx /\ used' = used
    BY <1>15, <1>a, RecheckEffect DEF Devices
  <2>2. dev'.at = "sleep" => Behind = 0
    BY <1>a, <2>1, NoDifference DEF Devices
  <2>3. (avail'.idx - dev'.last_avail) % IdxMod = Behind
    BY <2>1
  <2> HIDE DEF Behind
  <2>4. vq.num_added >= 0
    BY <1>b DEF Index
  <2> QED
    BY <2>1, <2>2, <2>3, <2>4 DEF KickInv
<1>16. ASSUME S!DevSignal PROVE KickInv'
  <2>1. /\ dev' = [dev EXCEPT !.signalled = used.idx]
        /\ wire' = [wire EXCEPT !.irq = wire'.irq]
        /\ UNCHANGED <<vq, drv, desc, avail, used>>
    BY <1>16, SignalEffect
  <2>2. dev'.at = dev.at /\ dev'.last_avail = dev.last_avail /\ wire'.kick = wire.kick
    BY <1>a, <2>1 DEF Devices, Wires
  <2> QED
    BY <1>c, <2>1, <2>2
<1>17. ASSUME NEW head \in dev.taken, S!DevUse(head) PROVE KickInv'
  BY <1>17, <1>a, <1>c DEF S!DevUse, Devices, UsedRings
<1>18. ASSUME S!DevWake([dev EXCEPT !.at = "run"]) PROVE KickInv'
  BY <1>18, <1>a DEF KickInv, S!DevWake, Devices
<1> QED
  BY <1>1, <1>2, <1>3, <1>4, <1>5, <1>6, <1>7, <1>8, <1>9, <1>10, <1>11, <1>12, <1>13,
     <1>14, <1>15, <1>16, <1>17, <1>18
     DEF S!SplitNext, S!Driver, S!Device, S!EnableCb, S!EnableCbDelayed, S!Poll,
         S!PollDelayed, S!Leave

-----------------------------------------------------------------------------
(* Places in a ring *)

\* Whole turns leave no remainder.
LEMMA WholeTurns ==
    ASSUME NEW M \in Nat \ {0}, NEW x \in Int, NEW z \in Int
    PROVE  (x + M * z) % M = x % M
<1> DEFINE y == x + M * z
           r == x % M
           s == y % M
           q == x \div M
           p == y \div M
           w == q + z - p
<1>1. /\ y \in Int /\ q \in Int /\ p \in Int /\ w \in Int
      /\ r \in 0 .. M - 1 /\ s \in 0 .. M - 1
      /\ x = M * q + r /\ y = M * p + s
  <2>1. M * z \in Int
    OBVIOUS
  <2>2. y \in Int
    BY <2>1
  <2>3. \A v \in Int : v \div M \in Int /\ v % M \in 0 .. M - 1 /\ v = M * (v \div M) + (v % M)
    OBVIOUS
  <2> HIDE DEF y
  <2> QED
    BY <2>2, <2>3
<1>2. s - r = M * q + M * z - M * p
  BY <1>1
<1>3. M * q + M * z - M * p = M * w
  BY <1>1
<1>4. w >= 1 => M * w >= M
  BY <1>1
<1>5. w <= -1 => M * w <= -M
  BY <1>1
<1> HIDE DEF y, r, s, q, p, w
<1>6. w = 0
  <2>1. M * w = s - r /\ M * w \in Int
    BY <1>1, <1>2, <1>3
  <2> QED
    BY <1>1, <1>4, <1>5, <2>1
<1>7. s = r
  <2>1. M * 0 = 0
    OBVIOUS
  <2> QED
    BY <1>1, <1>2, <1>3, <1>6, <2>1
<1> QED
  BY <1>7 DEF r, s, y

\* Remainders of sums.
LEMMA RemaindersAdd ==
    ASSUME NEW M \in Nat \ {0}, NEW x \in Int, NEW y \in Int
    PROVE  ((x % M) + y) % M = (x + y) % M
<1> DEFINE z == x \div M
           r == x % M
           v == r + y
<1>1. z \in Int /\ x = M * z + r /\ r \in Int
  OBVIOUS
<1>2. v \in Int /\ z \in Int
  BY <1>1
<1>3. v + M * z = x + y
  BY <1>1
<1> HIDE DEF v, z
<1>4. (v + M * z) % M = v % M
  BY <1>2, WholeTurns, Zenon
<1> QED
  BY <1>3, <1>4 DEF v

\* An index and what it counts have the same place in the ring.
LEMMA SamePlace ==
    ASSUME NEW n \in Sizes, NEW x \in Nat
    PROVE  (x % IdxMod) % n = x % n
<1>1. IdxMod \in Nat \ {0} /\ n \in Nat \ {0} /\ IdxMod % n = 0
  BY SizesFitIndexes
<1> DEFINE m == IdxMod \div n
           z == x \div IdxMod
           r == x % IdxMod
<1>2. m \in Int /\ IdxMod = n * m
  BY <1>1
<1>3. z \in Int /\ r \in Int /\ x = IdxMod * z + r
  BY <1>1
<1> HIDE DEF m, z, r
<1>4. m * z \in Int /\ IdxMod * z = n * (m * z)
  BY <1>1, <1>2, <1>3
<1>5. (r + n * (m * z)) % n = r % n
  BY <1>1, <1>3, <1>4, WholeTurns
<1>6. r + n * (m * z) = x
  BY <1>3, <1>4, <1>1
<1> QED
  BY <1>5, <1>6 DEF r

\* Fewer than n steps lead to another place.
LEMMA OtherPlace ==
    ASSUME NEW n \in Nat \ {0}, NEW c \in Nat, NEW j \in Nat, NEW k \in Nat,
           j < n, k < n, (c + j) % n = (c + k) % n
    PROVE  j = k
<1> DEFINE r == c % n
<1>1. r \in 0 .. n - 1
  OBVIOUS
<1>2. (r + j) % n = (r + k) % n
  <2>1. c \in Int /\ j \in Int /\ k \in Int
    OBVIOUS
  <2>2. (r + j) % n = (c + j) % n
    BY <2>1, RemaindersAdd, Zenon
  <2>3. (r + k) % n = (c + k) % n
    BY <2>1, RemaindersAdd, Zenon
  <2> QED
    BY <2>2, <2>3
<1> HIDE DEF r
<1>3. (r + j) % n = IF r + j < n THEN r + j ELSE r + j - n
  <2>1. j \in 0 .. n - 1
    OBVIOUS
  <2> QED
    BY <1>1, <2>1
<1>4. (r + k) % n = IF r + k < n THEN r + k ELSE r + k - n
  <2>1. k \in 0 .. n - 1
    OBVIOUS
  <2> QED
    BY <1>1, <2>1
<1> QED
  BY <1>1, <1>2, <1>3, <1>4

\* Counting on from an index.
LEMMA CountOn ==
    ASSUME NEW n \in Sizes, NEW c \in Index, NEW k \in Nat, NEW j \in Nat
    PROVE  /\ (((c + k) % IdxMod) + j) % IdxMod = (c + k + j) % IdxMod
           /\ (((c + k) % IdxMod) + j) % n = (c + k + j) % n
           /\ ((c + k) % IdxMod) % n = (c + k) % n
           /\ k <= n => (((c + k) % IdxMod) - c) % IdxMod = k
<1>1. /\ IdxMod \in Nat \ {0} /\ n \in Nat \ {0} /\ 2 * n <= IdxMod /\ c \in 0 .. IdxMod - 1
      /\ c \in Nat
  BY IndexesWrap, SizesArePositive DEF Index
<1>2. c + k \in Int /\ c + k \in Nat
  BY <1>1
<1>3. (((c + k) % IdxMod) + j) % IdxMod = (c + k + j) % IdxMod
  <2> DEFINE y == c + k
  <2>1. y \in Int /\ j \in Int /\ IdxMod \in Nat \ {0}
    BY <1>1, <1>2
  <2> HIDE DEF y
  <2>2. ((y % IdxMod) + j) % IdxMod = (y + j) % IdxMod
    BY <2>1, RemaindersAdd, Zenon
  <2> QED
    BY <2>2 DEF y
<1>4. ((c + k) % IdxMod) % n = (c + k) % n
  BY <1>2, SamePlace
<1>5. (((c + k) % IdxMod) + j) % n = (c + k + j) % n
  <2> DEFINE x == (c + k) % IdxMod
             y == c + k
  <2>1. x \in Int /\ y \in Int /\ j \in Int /\ n \in Nat \ {0}
    BY <1>1
  <2>2. x % n = y % n
    BY <1>4
  <2> HIDE DEF x, y
  <2>3. ((x % n) + j) % n = (x + j) % n
    BY <2>1, RemaindersAdd, Zenon
  <2>4. ((y % n) + j) % n = (y + j) % n
    BY <2>1, RemaindersAdd, Zenon
  <2>5. (x + j) % n = (y + j) % n
    BY <2>2, <2>3, <2>4
  <2> QED
    BY <2>5 DEF x, y
<1>6. k <= n => (((c + k) % IdxMod) - c) % IdxMod = k
  <2> SUFFICES ASSUME k <= n PROVE (((c + k) % IdxMod) - c) % IdxMod = k
    OBVIOUS
  <2> DEFINE p == (c + k) % IdxMod
             d == (p - c) % IdxMod
  <2>1. k \in Index
    BY <1>1 DEF Index
  <2>2. p \in Index /\ p = IF c + k < IdxMod THEN c + k ELSE c + k - IdxMod
    BY <2>1, Differences
  <2> HIDE DEF p
  <2>3. d = IF p >= c THEN p - c ELSE p - c + IdxMod
    BY <2>2, Differences
  <2> HIDE DEF d
  <2>4. d = k
    BY <1>1, <2>1, <2>2, <2>3 DEF Index
  <2> QED
    BY <2>4 DEF p, d
<1> QED
  BY <1>3, <1>4, <1>5, <1>6

-----------------------------------------------------------------------------
(* The order in which the buffers come back *)

\* A new buffer is the last one.
LEMMA OrderGains ==
    ASSUME NEW n \in Nat \ {0}, NEW c \in Nat, NEW H \in SUBSET S!Slots(n), NEW q,
           NEW u \in Nat, NEW v \in Nat, NEW k \in Nat,
           NEW ur, NEW taken, NEW ar \in [S!Slots(n) -> S!Slots(n)],
           InOrder(n, c, H, q, u, v, k, ur, taken, ar), NEW h \in S!Slots(n) \ H
    PROVE  /\ k < n
           /\ \E q2 : InOrder(n, c, H \cup {h}, q2, u, v, k + 1, ur, taken,
                              [ar EXCEPT ![(c + k) % n] = h])
<1>1. /\ u <= v /\ v <= k /\ k <= n
      /\ q \in [0 .. k - 1 -> H] /\ IsInjective(q) /\ H \subseteq Range(q)
      /\ \A j \in 0 .. u - 1 : ur[(c + j) % n] = q[j]
      /\ taken = {q[j] : j \in u .. v - 1}
      /\ \A j \in v .. k - 1 : ar[(c + j) % n] = q[j]
  BY DEF InOrder
<1> DEFINE q2 == [j \in 0 .. k |-> IF j = k THEN h ELSE q[j]]
<1>2. /\ q2 \in [0 .. k -> H \cup {h}] /\ q2[k] = h
      /\ \A j \in 0 .. k - 1 : q2[j] = q[j] /\ q2[j] # h /\ j \in 0 .. k
      /\ \A j \in 0 .. k : j = k \/ j \in 0 .. k - 1
  <2>1. \A j \in 0 .. k : j = k \/ j \in 0 .. k - 1
    OBVIOUS
  <2>2. \A j \in 0 .. k - 1 : q2[j] = q[j] /\ q2[j] # h /\ j \in 0 .. k
    BY <1>1
  <2>3. q2[k] = h
    OBVIOUS
  <2>4. q2 \in [0 .. k -> H \cup {h}]
    BY <1>1, <2>1
  <2> QED
    BY <2>1, <2>2, <2>3, <2>4
<1> HIDE DEF q2
<1>3. IsInjective(q2)
  <2>1. \A i, j \in 0 .. k - 1 : q[i] = q[j] => i = j
    BY <1>1 DEF IsInjective
  <2> QED
    BY <1>2, <2>1 DEF IsInjective
<1>4. H \cup {h} \subseteq Range(q2)
  <2>1. \A x \in H : \E j \in 0 .. k - 1 : q[j] = x
    BY <1>1 DEF Range
  <2> QED
    BY <1>2, <2>1 DEF Range
<1>5. k + 1 <= n
  <2>1. q2 \in [0 .. (k + 1) - 1 -> S!Slots(n)] /\ k + 1 \in Nat /\ n \in Nat
    BY <1>2
  <2> QED
    BY <1>3, <2>1, PathFits
<1> DEFINE ar2 == [ar EXCEPT ![(c + k) % n] = h]
<1>6. \A j \in v .. k : ar2[(c + j) % n] = q2[j]
  <2> SUFFICES ASSUME NEW j \in v .. k PROVE ar2[(c + j) % n] = q2[j]
    OBVIOUS
  <2>1. j \in Nat /\ (c + j) % n \in S!Slots(n)
    BY SMTT(30) DEF S!Slots
  <2>2. CASE j = k
    BY <1>2, <2>1, <2>2
  <2>3. CASE j # k
    <3>1. j \in v .. k - 1 /\ j \in 0 .. k - 1 /\ j < n /\ k < n
      BY <1>5, <2>3
    <3>2. (c + j) % n # (c + k) % n
      BY <2>1, <2>3, <3>1, OtherPlace
    <3> QED
      BY <1>1, <1>2, <2>1, <3>1, <3>2
  <2> QED
    BY <2>2, <2>3
<1>7. \A j \in 0 .. u - 1 : ur[(c + j) % n] = q2[j]
  <2> SUFFICES ASSUME NEW j \in 0 .. u - 1 PROVE ur[(c + j) % n] = q2[j]
    OBVIOUS
  <2>1. j \in 0 .. k - 1
    BY <1>1
  <2>2. q2[j] = q[j]
    BY <1>2, <2>1
  <2> QED
    BY <1>1, <2>2
<1>8. taken = {q2[j] : j \in u .. v - 1}
  <2>1. \A j \in u .. v - 1 : q2[j] = q[j]
    BY <1>1, <1>2
  <2> QED
    BY <1>1, <2>1
<1>9. InOrder(n, c, H \cup {h}, q2, u, v, k + 1, ur, taken, ar2)
  <2>1. (k + 1) - 1 = k /\ v <= k + 1
    BY <1>1
  <2> QED
    BY <1>1, <1>2, <1>3, <1>4, <1>5, <1>6, <1>7, <1>8, <2>1 DEF InOrder
<1> QED
  BY <1>5, <1>9

\* The first buffer is handed back.
LEMMA OrderLoses ==
    ASSUME NEW n \in Nat \ {0}, NEW c \in Nat, NEW H, NEW q,
           NEW u \in Nat, NEW v \in Nat, NEW k \in Nat, NEW ur, NEW taken, NEW ar,
           InOrder(n, c, H, q, u, v, k, ur, taken, ar), u > 0,
           NEW c2, \A j \in Nat : (c2 + j) % n = (c + (j + 1)) % n
    PROVE  /\ q[0] \in H /\ ur[c % n] = q[0]
           /\ \E q2 : InOrder(n, c2, H \ {q[0]}, q2, u - 1, v - 1, k - 1, ur, taken, ar)
<1>1. /\ u <= v /\ v <= k /\ k <= n
      /\ q \in [0 .. k - 1 -> H] /\ IsInjective(q) /\ H \subseteq Range(q)
      /\ \A j \in 0 .. u - 1 : ur[(c + j) % n] = q[j]
      /\ taken = {q[j] : j \in u .. v - 1}
      /\ \A j \in v .. k - 1 : ar[(c + j) % n] = q[j]
  BY Zenon DEF InOrder
<1>2. 0 \in 0 .. u - 1 /\ c + 0 = c /\ 0 \in 0 .. k - 1
  <2>1. u <= v /\ v <= k
    BY <1>1
  <2> QED
    BY <2>1
<1>3. q[0] \in H /\ ur[c % n] = q[0]
  BY <1>1, <1>2
<1> DEFINE q2 == [j \in 0 .. k - 2 |-> q[j + 1]]
<1>4. /\ \A j \in 0 .. k - 2 : q2[j] = q[j + 1] /\ j + 1 \in 0 .. k - 1 /\ j + 1 # 0 /\ j \in Nat
      /\ DOMAIN q2 = 0 .. k - 2
  OBVIOUS
<1> HIDE DEF q2
<1>5. \A i, j \in 0 .. k - 1 : q[i] = q[j] => i = j
  BY <1>1 DEF IsInjective
<1>6. IsInjective(q2)
  <2> SUFFICES ASSUME NEW i \in 0 .. k - 2, NEW j \in 0 .. k - 2, q2[i] = q2[j]
               PROVE  i = j
    BY <1>4 DEF IsInjective
  <2>1. q[i + 1] = q[j + 1] /\ i + 1 \in 0 .. k - 1 /\ j + 1 \in 0 .. k - 1
    BY <1>4
  <2>2. i + 1 = j + 1
    BY <1>5, <2>1
  <2> QED
    BY <2>2
<1>7. \A j \in 0 .. k - 2 : q2[j] \in H \ {q[0]}
  <2> SUFFICES ASSUME NEW j \in 0 .. k - 2 PROVE q2[j] \in H \ {q[0]}
    OBVIOUS
  <2>1. q2[j] = q[j + 1] /\ j + 1 \in 0 .. k - 1 /\ j + 1 # 0
    BY <1>4
  <2>2. q[j + 1] # q[0]
    BY <1>2, <1>5, <2>1
  <2> QED
    BY <1>1, <2>1, <2>2
<1>8. H \ {q[0]} \subseteq Range(q2)
  <2> SUFFICES ASSUME NEW x \in H, x # q[0] PROVE x \in Range(q2)
    OBVIOUS
  <2>1. PICK j \in 0 .. k - 1 : q[j] = x
    BY <1>1 DEF Range
  <2>2. j - 1 \in 0 .. k - 2 /\ (j - 1) + 1 = j
    BY <2>1
  <2> QED
    BY <1>4, <2>1, <2>2 DEF Range
<1>9. \A j \in 0 .. u - 2 : ur[(c2 + j) % n] = q2[j]
  <2> SUFFICES ASSUME NEW j \in 0 .. u - 2 PROVE ur[(c2 + j) % n] = q2[j]
    OBVIOUS
  <2>1. j \in Nat /\ j + 1 \in 0 .. u - 1 /\ j \in 0 .. k - 2
    <3>1. u <= k
      BY <1>1
    <3> QED
      BY <3>1
  <2>2. (c2 + j) % n = (c + (j + 1)) % n
    BY <2>1
  <2> QED
    BY <1>1, <1>4, <2>1, <2>2
<1>10. \A j \in v - 1 .. k - 2 : ar[(c2 + j) % n] = q2[j]
  <2> SUFFICES ASSUME NEW j \in v - 1 .. k - 2 PROVE ar[(c2 + j) % n] = q2[j]
    OBVIOUS
  <2>1. j \in Nat /\ j + 1 \in v .. k - 1 /\ j \in 0 .. k - 2
    <3>1. u <= v
      BY <1>1
    <3> QED
      BY <3>1
  <2>2. (c2 + j) % n = (c + (j + 1)) % n
    BY <2>1
  <2> QED
    BY <1>1, <1>4, <2>1, <2>2
<1>11. taken = {q2[j] : j \in u - 1 .. v - 2}
  <2>1. ASSUME NEW j \in u - 1 .. v - 2 PROVE q2[j] = q[j + 1] /\ j + 1 \in u .. v - 1
    <3>1. v <= k
      BY <1>1
    <3>2. j \in 0 .. k - 2 /\ j + 1 \in u .. v - 1
      BY <3>1
    <3> QED
      BY <1>4, <3>2
  <2>2. \A i \in u .. v - 1 : i - 1 \in u - 1 .. v - 2 /\ (i - 1) + 1 = i
    OBVIOUS
  <2>3. ASSUME NEW x \in taken PROVE x \in {q2[j] : j \in u - 1 .. v - 2}
    <3>1. PICK i \in u .. v - 1 : x = q[i]
      BY <1>1
    <3>2. i - 1 \in u - 1 .. v - 2 /\ x = q2[i - 1]
      BY <2>1, <2>2, <3>1
    <3> QED
      BY <3>2
  <2>4. ASSUME NEW j \in u - 1 .. v - 2 PROVE q2[j] \in taken
    BY <1>1, <2>1
  <2> QED
    BY <2>3, <2>4
<1>12. q2 \in [0 .. k - 2 -> H \ {q[0]}]
  BY <1>4, <1>7 DEF q2
<1>13. /\ u - 1 - 1 = u - 2 /\ v - 1 - 1 = v - 2 /\ k - 1 - 1 = k - 2
       /\ u - 1 <= v - 1 /\ v - 1 <= k - 1 /\ k - 1 <= n
  <2>1. u <= v /\ v <= k /\ k <= n
    BY <1>1
  <2> QED
    BY <2>1
<1>14. InOrder(n, c2, H \ {q[0]}, q2, u - 1, v - 1, k - 1, ur, taken, ar)
  BY <1>6, <1>8, <1>9, <1>10, <1>11, <1>12, <1>13, Zenon DEF InOrder
<1> QED
  BY <1>3, <1>14, Zenon

\* The device takes the next buffer.
LEMMA OrderTakes ==
    ASSUME NEW n \in Nat \ {0}, NEW c \in Nat, NEW H, NEW q,
           NEW u \in Nat, NEW v \in Nat, NEW k \in Nat, NEW ur, NEW taken, NEW ar,
           InOrder(n, c, H, q, u, v, k, ur, taken, ar), v # k
    PROVE  /\ v < k /\ ar[(c + v) % n] \in H
           /\ InOrder(n, c, H, q, u, v + 1, k, ur, taken \cup {ar[(c + v) % n]}, ar)
<1>1. /\ u <= v /\ v <= k /\ k <= n
      /\ q \in [0 .. k - 1 -> H] /\ IsInjective(q) /\ H \subseteq Range(q)
      /\ \A j \in 0 .. u - 1 : ur[(c + j) % n] = q[j]
      /\ taken = {q[j] : j \in u .. v - 1}
      /\ \A j \in v .. k - 1 : ar[(c + j) % n] = q[j]
  BY DEF InOrder
<1>2. v < k /\ v \in v .. k - 1 /\ v \in 0 .. k - 1
  BY <1>1
<1>3. ar[(c + v) % n] = q[v] /\ q[v] \in H
  BY <1>1, <1>2
<1>4. taken \cup {q[v]} = {q[j] : j \in u .. v}
  <2>1. \A j \in u .. v : j = v \/ j \in u .. v - 1
    OBVIOUS
  <2>2. v \in u .. v /\ \A j \in u .. v - 1 : j \in u .. v
    BY <1>1
  <2> QED
    BY <1>1, <2>1, <2>2
<1>5. (v + 1) - 1 = v /\ u <= v + 1 /\ v + 1 <= k /\ \A j \in v + 1 .. k - 1 : j \in v .. k - 1
  BY <1>1, <1>2
<1>6. InOrder(n, c, H, q, u, v + 1, k, ur, taken \cup {q[v]}, ar)
  BY <1>1, <1>4, <1>5 DEF InOrder
<1> QED
  BY <1>2, <1>3, <1>6

\* Opaque to the provers, so that the lemma is found by its hypotheses.
Writes(f, i, x, g) == g = [f EXCEPT ![i] = x]
Removes(T, x, R) == R = T \ {x}

\* The device uses any of the buffers that it has.
LEMMA OrderUses ==
    ASSUME NEW n \in Nat \ {0}, NEW c \in Nat, NEW H, NEW q,
           NEW u \in Nat, NEW v \in Nat, NEW k \in Nat,
           NEW ur \in [S!Slots(n) -> S!Slots(n)], NEW taken, NEW ar,
           InOrder(n, c, H, q, u, v, k, ur, taken, ar), NEW h, h \in taken,
           NEW ur2, Writes(ur, (c + u) % n, h, ur2), NEW rest, Removes(taken, h, rest)
    PROVE  /\ u < v /\ h \in H
           /\ \E q2 : InOrder(n, c, H, q2, u + 1, v, k, ur2, rest, ar)
<1>1. /\ u <= v /\ v <= k /\ k <= n
      /\ q \in [0 .. k - 1 -> H] /\ IsInjective(q) /\ H \subseteq Range(q)
      /\ \A j \in 0 .. u - 1 : ur[(c + j) % n] = q[j]
      /\ taken = {q[j] : j \in u .. v - 1}
      /\ \A j \in v .. k - 1 : ar[(c + j) % n] = q[j]
  BY DEF InOrder
<1>a. ur2 = [ur EXCEPT ![(c + u) % n] = h] /\ rest = taken \ {h}
  BY DEF Writes, Removes
<1>2. PICK m \in u .. v - 1 : h = q[m]
  BY <1>1
<1>3. u < v /\ m \in 0 .. k - 1 /\ u \in 0 .. k - 1
  BY <1>1, <1>2
<1>4. h \in H
  BY <1>1, <1>2, <1>3
<1> DEFINE q2 == [j \in 0 .. k - 1 |-> IF j = u THEN q[m] ELSE IF j = m THEN q[u] ELSE q[j]]
<1>5. /\ q2 \in [0 .. k - 1 -> H] /\ q2[u] = q[m] /\ q2[m] = q[u]
      /\ \A j \in 0 .. k - 1 : j # u /\ j # m => q2[j] = q[j]
  BY <1>1, <1>3
<1> HIDE DEF q2
<1>6. \A i, j \in 0 .. k - 1 : q[i] = q[j] => i = j
  BY <1>1 DEF IsInjective
<1>7. IsInjective(q2)
  <2> SUFFICES ASSUME NEW i \in 0 .. k - 1, NEW j \in 0 .. k - 1, q2[i] = q2[j]
               PROVE  i = j
    BY <1>5 DEF IsInjective
  <2> QED
    BY <1>3, <1>5, <1>6
<1>8. H \subseteq Range(q2)
  <2> SUFFICES ASSUME NEW x \in H PROVE x \in Range(q2)
    OBVIOUS
  <2>1. PICK j \in 0 .. k - 1 : q[j] = x
    BY <1>1 DEF Range
  <2> QED
    BY <1>3, <1>5, <2>1 DEF Range
<1>9. \A j \in 0 .. u : ur2[(c + j) % n] = q2[j]
  <2> SUFFICES ASSUME NEW j \in 0 .. u PROVE ur2[(c + j) % n] = q2[j]
    OBVIOUS
  <2>1. j \in Nat /\ (c + j) % n \in S!Slots(n)
    BY DEF S!Slots
  <2>2. CASE j = u
    BY <1>a, <1>2, <1>5, <2>1, <2>2
  <2>3. CASE j # u
    <3>1. j \in 0 .. u - 1 /\ j \in 0 .. k - 1 /\ j < n /\ u < n /\ j # m
      BY <1>1, <1>2, <1>3, <2>3
    <3>2. (c + j) % n # (c + u) % n
      BY <2>1, <2>3, <3>1, OtherPlace
    <3> QED
      BY <1>a, <1>1, <1>5, <2>1, <2>3, <3>1, <3>2
  <2> QED
    BY <2>2, <2>3
<1>10. \A j \in v .. k - 1 : ar[(c + j) % n] = q2[j]
  <2> SUFFICES ASSUME NEW j \in v .. k - 1 PROVE ar[(c + j) % n] = q2[j]
    OBVIOUS
  <2>1. j \in 0 .. k - 1 /\ j # u /\ j # m
    BY <1>2, <1>3
  <2> QED
    BY <1>1, <1>5, <2>1
<1>11. rest = {q2[j] : j \in u + 1 .. v - 1}
  <2>1. ASSUME NEW x \in taken, x # h PROVE x \in {q2[j] : j \in u + 1 .. v - 1}
    <3>1. PICK j \in u .. v - 1 : x = q[j] /\ j # m
      BY <1>1, <1>2, <2>1
    <3>2. CASE j = u
      <4>1. m \in u + 1 .. v - 1 /\ q2[m] = x
        BY <1>2, <1>5, <3>1, <3>2
      <4> QED
        BY <4>1
    <3>3. CASE j # u
      <4>1. j \in u + 1 .. v - 1 /\ j \in 0 .. k - 1
        BY <1>1, <3>1, <3>3
      <4>2. q2[j] = x
        BY <1>5, <3>1, <3>3, <4>1
      <4> QED
        BY <4>1, <4>2
    <3> QED
      BY <3>2, <3>3
  <2>2. ASSUME NEW j \in u + 1 .. v - 1 PROVE q2[j] \in taken /\ q2[j] # h
    <3>1. j \in 0 .. k - 1 /\ j # u /\ j \in u .. v - 1 /\ u \in u .. v - 1
      BY <1>1
    <3>2. q2[j] # h
      <4>1. q2[u] = h
        BY <1>2, <1>5
      <4>2. \A i \in 0 .. k - 1 : q2[i] = q2[u] => i = u
        BY <1>3, <1>5, <1>7 DEF IsInjective
      <4> QED
        BY <3>1, <4>1, <4>2
    <3>3. q2[j] = q[j] \/ q2[j] = q[u]
      BY <1>5, <3>1
    <3> QED
      BY <1>1, <3>1, <3>2, <3>3
  <2> QED
    BY <1>a, <2>1, <2>2
<1>12. /\ u + 1 <= v /\ v <= k /\ k <= n /\ q2 \in [0 .. k - 1 -> H]
       /\ \A j \in 0 .. u + 1 - 1 : ur2[(c + j) % n] = q2[j]
  BY <1>1, <1>3, <1>5, <1>9
<1>13. InOrder(n, c, H, q2, u + 1, v, k, ur2, rest, ar)
  <2> DEFINE w == u + 1
  <2>1. /\ w <= v /\ v <= k /\ k <= n
    BY <1>12
  <2>2. q2 \in [0 .. k - 1 -> H] /\ IsInjective(q2) /\ H \subseteq Range(q2)
    BY <1>12, <1>7, <1>8
  <2>3. \A j \in 0 .. w - 1 : ur2[(c + j) % n] = q2[j]
    BY <1>12
  <2>4. rest = {q2[j] : j \in w .. v - 1}
    BY <1>11
  <2> HIDE DEF w
  <2>5. InOrder(n, c, H, q2, w, v, k, ur2, rest, ar)
    BY <2>1, <2>2, <2>3, <2>4, <1>10 DEF InOrder
  <2> QED
    BY <2>5 DEF w
<1> QED
  BY <1>3, <1>4, <1>13, Zenon

LEMMA OrderedFacts ==
    ASSUME SplitShape, PoolInv, NEW u \in Nat, NEW v \in Nat, NEW k \in Nat, NEW q,
           Ordered(q, u, v, k)
    PROVE  LET n == vq.num
               c == vq.last_used_idx
           IN  /\ n \in Sizes /\ n \in Nat \ {0} /\ c \in Index /\ c \in Nat
               /\ u <= v /\ v <= k /\ k <= n
               /\ Heads(desc) \subseteq S!Slots(n)
               /\ used.idx \in Index /\ dev.last_avail \in Index /\ avail.idx \in Index
               /\ used.ring \in [S!Slots(n) -> S!Slots(n)]
               /\ avail.ring \in [S!Slots(n) -> S!Slots(n)]
               /\ used.idx % n = (c + u) % n
               /\ dev.last_avail % n = (c + v) % n
               /\ avail.idx % n = (c + k) % n
               /\ (used.idx + 1) % IdxMod = (c + (u + 1)) % IdxMod
               /\ (dev.last_avail + 1) % IdxMod = (c + (v + 1)) % IdxMod
               /\ (avail.idx + 1) % IdxMod = (c + (k + 1)) % IdxMod
               /\ Ready = u /\ All = k
               /\ (avail.idx - used.idx) % IdxMod = k - u
               /\ c = used.idx <=> u = 0
               /\ dev.last_avail = avail.idx <=> v = k
<1> DEFINE n == vq.num
           c == vq.last_used_idx
           p == used.idx
           l == dev.last_avail
           i == avail.idx
<1>1. /\ n \in Sizes /\ n \in Nat \ {0} /\ c \in Index /\ p \in Index /\ l \in Index /\ i \in Index
      /\ used.ring \in [S!Slots(n) -> S!Slots(n)] /\ avail.ring \in [S!Slots(n) -> S!Slots(n)]
  BY SizesArePositive DEF SplitShape, Queues, UsedRings, Devices, AvailRings
<1>2. Heads(desc) \subseteq S!Slots(n)
  BY PoolFacts DEF PoolInv
<1>3. c \in Nat /\ u <= v /\ v <= k /\ k <= n
  BY <1>1, IndexesWrap DEF Index, Ordered, InOrder
<1>4. p = (c + u) % IdxMod /\ l = (c + v) % IdxMod /\ i = (c + k) % IdxMod
  BY DEF Ordered
<1> HIDE DEF n, c, p, l, i
<1>a. ASSUME NEW x \in Nat, x <= n
      PROVE  /\ ((c + x) % IdxMod) % n = (c + x) % n
             /\ (((c + x) % IdxMod) - c) % IdxMod = x
             /\ (((c + x) % IdxMod) + 1) % IdxMod = (c + (x + 1)) % IdxMod
  <2>1. /\ ((c + x) % IdxMod) % n = (c + x) % n
        /\ (((c + x) % IdxMod) - c) % IdxMod = x
    BY <1>1, <1>a, CountOn
  <2>2. (((c + x) % IdxMod) + 1) % IdxMod = (c + x + 1) % IdxMod
    BY <1>1, <1>a, CountOn
  <2>3. c + x + 1 = c + (x + 1)
    BY <1>3
  <2> QED
    BY <2>1, <2>2, <2>3
<1>b. ASSUME NEW x \in Nat, NEW y \in Nat, x <= y, y <= n
      PROVE  (((c + y) % IdxMod) - ((c + x) % IdxMod)) % IdxMod = y - x
  <2> DEFINE d == y - x
             e == (c + x) % IdxMod
  <2>1. d \in Nat /\ d <= n /\ c + x + d = c + y
    BY <1>1, <1>3, <1>b
  <2>2. e \in Index
    BY <1>3, IndexesWrap
  <2>3. (e + d) % IdxMod = (c + x + d) % IdxMod
    BY <1>1, <2>1, CountOn
  <2> HIDE DEF d, e
  <2>4. (((e + d) % IdxMod) - e) % IdxMod = d
    BY <1>1, <2>1, <2>2, CountOn
  <2>5. (c + y) % IdxMod = (e + d) % IdxMod
    BY <2>1, <2>3
  <2> QED
    BY <2>4, <2>5, Zenon DEF d, e
<1>5. p % n = (c + u) % n /\ (p - c) % IdxMod = u /\ (p + 1) % IdxMod = (c + (u + 1)) % IdxMod
  BY <1>1, <1>3, <1>4, <1>a
<1>6. l % n = (c + v) % n /\ (l + 1) % IdxMod = (c + (v + 1)) % IdxMod
  BY <1>1, <1>3, <1>4, <1>a
<1>7. i % n = (c + k) % n /\ (i - c) % IdxMod = k /\ (i + 1) % IdxMod = (c + (k + 1)) % IdxMod
  BY <1>1, <1>3, <1>4, <1>a
<1>8. (i - p) % IdxMod = k - u /\ (i - l) % IdxMod = k - v
  <2>1. u <= k
    BY <1>3
  <2>2. (((c + k) % IdxMod) - ((c + u) % IdxMod)) % IdxMod = k - u
    BY <1>3, <1>b, <2>1, Zenon
  <2>3. (((c + k) % IdxMod) - ((c + v) % IdxMod)) % IdxMod = k - v
    BY <1>3, <1>b, Zenon
  <2> QED
    BY <1>4, <2>2, <2>3, Zenon
<1>9. c = p <=> u = 0
  BY <1>1, <1>5, NoDifference
<1>10. l = i <=> v = k
  <2>1. (i - l) % IdxMod = 0 <=> i = l
    BY <1>1, NoDifference
  <2> QED
    BY <1>3, <1>8, <2>1
<1> QED
  BY <1>1, <1>2, <1>3, <1>5, <1>6, <1>7, <1>8, <1>9, <1>10 DEF Ready, All, n, c, p, l, i

LEMMA OrderedKept ==
    ASSUME QueueInv, drv'.at # "reset" => drv.at # "reset",
           Heads(desc') = Heads(desc), vq'.num = vq.num,
           vq'.last_used_idx = vq.last_used_idx,
           used'.idx = used.idx, used'.ring = used.ring,
           dev'.last_avail = dev.last_avail, dev'.taken = dev.taken,
           avail'.idx = avail.idx, avail'.ring = avail.ring
    PROVE  QueueInv'
  BY DEF QueueInv, Ordered

LEMMA OrderedIsQueue ==
    ASSUME NEW u \in Nat, NEW v \in Nat, NEW k \in Nat, NEW q, Ordered(q, u, v, k),
           vq.num \in Nat
    PROVE  QueueInv
<1>1. u <= v /\ v <= k /\ k <= vq.num /\ q \in [0 .. k - 1 -> Heads(desc)]
  BY DEF Ordered, InOrder
<1>2. u \in 0 .. vq.num /\ v \in 0 .. vq.num /\ k \in 0 .. vq.num
  BY <1>1
<1> QED
  BY <1>1, <1>2 DEF QueueInv

\* add and the device's steps.
LEMMA OrderedAdd ==
    ASSUME SplitShape, PoolInv, NEW u \in Nat, NEW v \in Nat, NEW k \in Nat, NEW q,
           Ordered(q, u, v, k),
           NEW b \in Data, NEW sg \in 1 .. MaxSg, NEW ind \in BOOLEAN, S!Add(b, sg, ind)
    PROVE  k < vq.num /\ \E q2 : Ordered(q2, u, v, k + 1)'
<1> DEFINE n == vq.num
           c == vq.last_used_idx
           h == vq.free_head
           H == Heads(desc)
<1>1. /\ n \in Nat \ {0} /\ c \in Nat /\ H \in SUBSET S!Slots(n)
      /\ avail.idx % n = (c + k) % n /\ avail.ring \in [S!Slots(n) -> S!Slots(n)]
      /\ (avail.idx + 1) % IdxMod = (c + (k + 1)) % IdxMod
  BY OrderedFacts
<1>2. h \in S!Slots(n) \ H /\ Heads(desc') = H \cup {h}
  BY AddTakesFromPool DEF PoolInv, Pool
<1>3. /\ UNCHANGED <<dev, used>> /\ vq'.num = n /\ vq'.last_used_idx = c
      /\ avail'.ring = [avail.ring EXCEPT ![avail.idx % n] = h]
      /\ avail'.idx = (avail.idx + 1) % IdxMod
  BY DEF S!Add, SplitShape, Queues, AvailRings
<1>4. /\ InOrder(n, c, H, q, u, v, k, used.ring, dev.taken, avail.ring)
      /\ used.idx = (c + u) % IdxMod /\ dev.last_avail = (c + v) % IdxMod
  BY DEF Ordered
<1> HIDE DEF n, c, h, H
<1>5. /\ k < n
      /\ \E q2 : InOrder(n, c, H \cup {h}, q2, u, v, k + 1, used.ring, dev.taken,
                         [avail.ring EXCEPT ![(c + k) % n] = h])
  BY <1>1, <1>2, <1>4, OrderGains
<1> QED
  BY <1>1, <1>2, <1>3, <1>4, <1>5 DEF Ordered, n, c

LEMMA OrderedTake ==
    ASSUME SplitShape, PoolInv, NEW u \in Nat, NEW v \in Nat, NEW k \in Nat, NEW q,
           Ordered(q, u, v, k), S!DevTake
    PROVE  v < k /\ Ordered(q, u, v + 1, k)'
<1> DEFINE n == vq.num
           c == vq.last_used_idx
           H == Heads(desc)
<1>1. /\ n \in Nat \ {0} /\ c \in Nat /\ dev.last_avail % n = (c + v) % n
      /\ dev.last_avail = avail.idx <=> v = k
      /\ (dev.last_avail + 1) % IdxMod = (c + (v + 1)) % IdxMod
  BY OrderedFacts
<1>2. /\ dev.last_avail # avail.idx /\ UNCHANGED <<vq, desc, avail, used>>
      /\ dev'.taken = dev.taken \cup {avail.ring[dev.last_avail % n]}
      /\ dev'.last_avail = (dev.last_avail + 1) % IdxMod
  BY DEF S!DevTake, SplitShape, Devices
<1>3. /\ InOrder(n, c, H, q, u, v, k, used.ring, dev.taken, avail.ring)
      /\ used.idx = (c + u) % IdxMod /\ avail.idx = (c + k) % IdxMod
  BY DEF Ordered
<1> HIDE DEF n, c, H
<1>4. /\ v < k
      /\ InOrder(n, c, H, q, u, v + 1, k, used.ring,
                 dev.taken \cup {avail.ring[(c + v) % n]}, avail.ring)
  BY <1>1, <1>2, <1>3, OrderTakes
<1> QED
  BY <1>1, <1>2, <1>3, <1>4 DEF Ordered, n, c, H

LEMMA OrderedUse ==
    ASSUME SplitShape, PoolInv, NEW u \in Nat, NEW v \in Nat, NEW k \in Nat, NEW q,
           Ordered(q, u, v, k), NEW head \in dev.taken, S!DevUse(head)
    PROVE  u < v /\ head \in Heads(desc) /\ \E q2 : Ordered(q2, u + 1, v, k)'
<1> DEFINE n == vq.num
           c == vq.last_used_idx
           H == Heads(desc)
           ur == used.ring
           tk == dev.taken
           ar == avail.ring
           ur2 == used'.ring
           rest == dev'.taken
<1>1. /\ n \in Nat \ {0} /\ c \in Nat /\ used.idx % n = (c + u) % n
      /\ (used.idx + 1) % IdxMod = (c + (u + 1)) % IdxMod
      /\ ur \in [S!Slots(n) -> S!Slots(n)] /\ head \in tk
  BY OrderedFacts
<1>2. /\ UNCHANGED <<vq, desc, avail>>
      /\ used'.ring = [ur EXCEPT ![(c + u) % n] = head]
      /\ used'.idx = (used.idx + 1) % IdxMod
      /\ dev'.taken = tk \ {head} /\ dev'.last_avail = dev.last_avail
  BY <1>1 DEF S!DevUse, SplitShape, Devices, UsedRings
<1>3. /\ InOrder(n, c, H, q, u, v, k, ur, tk, ar)
      /\ dev.last_avail = (c + v) % IdxMod /\ avail.idx = (c + k) % IdxMod
  BY DEF Ordered
<1>a. ur2 = [ur EXCEPT ![(c + u) % n] = head] /\ rest = tk \ {head}
  BY <1>2
<1>b. n \in Nat \ {0} /\ c \in Nat /\ ur \in [S!Slots(n) -> S!Slots(n)] /\ head \in tk
  BY <1>1
<1>c. InOrder(n, c, H, q, u, v, k, ur, tk, ar)
  BY <1>3
<1> HIDE DEF n, c, H, ur, tk, ar, ur2, rest
<1>d. Writes(ur, (c + u) % n, head, ur2) /\ Removes(tk, head, rest)
  BY <1>a DEF Writes, Removes
<1>4. /\ u < v /\ head \in H
      /\ \E q2 : InOrder(n, c, H, q2, u + 1, v, k, ur2, rest, ar)
  BY <1>b, <1>c, <1>d, OrderUses
<1> QED
  BY <1>1, <1>2, <1>3, <1>4 DEF Ordered, n, c, H, ur, tk, ar, ur2, rest

\* The driver collects the first buffer in the order, which is always a buffer.
LEMMA OrderedGetBuf ==
    ASSUME SplitShape, PoolInv, NEW u \in Nat, NEW v \in Nat, NEW k \in Nat, NEW q,
           Ordered(q, u, v, k), S!GetBuf
    PROVE  /\ u > 0 /\ q[0] = used.ring[vq.last_used_idx % vq.num]
           /\ q[0] \in Heads(desc) /\ Heads(desc') = Heads(desc) \ {q[0]}
           /\ vq'.last_used_idx = (vq.last_used_idx + 1) % IdxMod /\ vq'.num = vq.num
           /\ \A i \in Heads(desc') : desc'[i].data = desc[i].data
           /\ UNCHANGED <<drv, wire, dev, used>>
           /\ avail'.idx = avail.idx /\ avail'.ring = avail.ring
           /\ \E q2 : Ordered(q2, u - 1, v - 1, k - 1)'
<1> DEFINE n == vq.num
           c == vq.last_used_idx
           c2 == (c + 1) % IdxMod
           H == Heads(desc)
           ur == used.ring
           tk == dev.taken
           ar == avail.ring
<1>1. /\ n \in Nat \ {0} /\ n \in Sizes /\ c \in Nat /\ c \in Index
      /\ c = used.idx <=> u = 0
  BY OrderedFacts
<1>2. /\ c # used.idx /\ UNCHANGED <<drv, wire, dev, used>>
      /\ \/ ur[c % n] \notin H
         \/ /\ Heads(desc') = H \ {ur[c % n]}
            /\ \A i \in Heads(desc') : desc'[i].data = desc[i].data
            /\ vq' = [vq EXCEPT !.last_used_idx = c2, !.free_head = vq'.free_head,
                                !.num_free = vq'.num_free]
            /\ avail' = [avail EXCEPT !.used_event = avail'.used_event]
  BY GetBufEffect
<1>3. u > 0
  BY <1>1, <1>2
<1>4. /\ InOrder(n, c, H, q, u, v, k, ur, tk, ar)
      /\ used.idx = (c + u) % IdxMod /\ dev.last_avail = (c + v) % IdxMod
      /\ avail.idx = (c + k) % IdxMod
  BY DEF Ordered
<1>5. \A j \in Nat : (c2 + j) % n = (c + (j + 1)) % n
  <2> SUFFICES ASSUME NEW j \in Nat PROVE (c2 + j) % n = (c + (j + 1)) % n
    OBVIOUS
  <2>1. (c2 + j) % n = (c + 1 + j) % n
    BY <1>1, CountOn
  <2>2. c + 1 + j = c + (j + 1)
    BY <1>1
  <2> QED
    BY <2>1, <2>2
<1>6. ASSUME NEW x \in Nat, x > 0 PROVE (c + x) % IdxMod = (c2 + (x - 1)) % IdxMod
  <2>1. x - 1 \in Nat
    BY <1>6
  <2>2. (c2 + (x - 1)) % IdxMod = (c + 1 + (x - 1)) % IdxMod
    BY <1>1, <2>1, CountOn
  <2>3. c + 1 + (x - 1) = c + x
    BY <1>1
  <2> QED
    BY <2>2, <2>3
<1>7. /\ used.idx = (c2 + (u - 1)) % IdxMod /\ dev.last_avail = (c2 + (v - 1)) % IdxMod
      /\ avail.idx = (c2 + (k - 1)) % IdxMod
  <2>1. u > 0 /\ v > 0 /\ k > 0
    BY <1>3, <1>4 DEF InOrder
  <2> QED
    BY <1>4, <1>6, <2>1
<1>8. /\ q[0] \in H /\ ur[c % n] = q[0]
      /\ \E q2 : InOrder(n, c2, H \ {q[0]}, q2, u - 1, v - 1, k - 1, ur, tk, ar)
  <2> HIDE DEF n, c, c2, H, ur, tk, ar
  <2> QED
    BY <1>1, <1>3, <1>4, <1>5, OrderLoses, ZenonT(40)
<1>9. /\ vq'.last_used_idx = c2 /\ vq'.num = n
      /\ avail'.ring = ar /\ avail'.idx = avail.idx
      /\ Heads(desc') = H \ {q[0]}
      /\ \A i \in Heads(desc') : desc'[i].data = desc[i].data
  BY <1>2, <1>8 DEF SplitShape, Queues, AvailRings
<1>10. \E q2 : Ordered(q2, u - 1, v - 1, k - 1)'
  <2>1. PICK q2 : InOrder(n, c2, H \ {q[0]}, q2, u - 1, v - 1, k - 1, ur, tk, ar)
    BY <1>8
  <2>2. dev' = dev /\ used' = used
    BY <1>2
  <2> HIDE DEF c2
  <2>3. Ordered(q2, u - 1, v - 1, k - 1)'
    BY <1>7, <1>9, <2>1, <2>2 DEF Ordered
  <2> QED
    BY <2>3
<1> QED
  BY <1>2, <1>3, <1>8, <1>9, <1>10

LEMMA QueueNext ==
    ASSUME SplitShape, PoolInv, QueueInv, SplitShape', S!SplitNext
    PROVE  QueueInv'
<1>a. /\ vq \in Queues /\ drv \in Drivers /\ wire \in Wires
      /\ dev \in Devices(vq.num) /\ avail \in AvailRings(vq.num) /\ used \in UsedRings(vq.num)
      /\ drv.at = "reset" => dev.at = "off"
  BY DEF SplitShape
<1>b. ASSUME drv.at # "reset"
      PROVE  \E u, v, k \in Nat : \E q : Ordered(q, u, v, k)
  <2>1. vq.num \in Nat
    BY <1>a, SizesArePositive DEF Queues
  <2> QED
    BY <1>b, <2>1 DEF QueueInv
<1>c. ASSUME NEW u \in Nat, NEW v \in Nat, NEW k \in Nat, NEW q, Ordered(q, u, v, k)'
      PROVE  QueueInv'
  <2>1. vq'.num \in Nat
    BY SizesArePositive DEF SplitShape, Queues
  <2>2. /\ u <= v /\ v <= k /\ k <= vq'.num /\ q \in [0 .. k - 1 -> Heads(desc')]
    BY <1>c DEF Ordered, InOrder
  <2>3. u \in 0 .. vq'.num /\ v \in 0 .. vq'.num /\ k \in 0 .. vq'.num
    BY <2>1, <2>2
  <2> QED
    BY <1>c, <2>2, <2>3 DEF QueueInv
<1>1. ASSUME NEW t \in Data, NEW sg \in 1 .. MaxSg, NEW ind \in BOOLEAN, S!Add(t, sg, ind)
      PROVE  QueueInv'
  <2>1. drv.at # "reset"
    BY <1>1 DEF S!Add, S!CanCall
  <2>2. PICK u \in Nat, v \in Nat, k \in Nat : \E q : Ordered(q, u, v, k)
    BY <1>b, <2>1
  <2>3. PICK q : Ordered(q, u, v, k)
    BY <2>2
  <2>4. \E q2 : Ordered(q2, u, v, k + 1)'
    BY <1>1, <2>3, OrderedAdd
  <2> QED
    BY <1>c, <2>4
<1>2. ASSUME NEW sg \in 1 .. MaxSg, S!AddFull(sg) PROVE QueueInv'
  BY <1>2, OrderedKept DEF S!AddFull
<1>3. ASSUME NEW sg \in 1 .. MaxSg, NEW k \in 1 .. MaxSg, S!AddMapFails(sg, k)
      PROVE  QueueInv'
  BY <1>3, FailedAddMarks, OrderedKept DEF S!AddMapFails
<1>4. ASSUME S!KickSplit PROVE QueueInv'
  <2>1. /\ drv.at # "reset" /\ vq'.num = vq.num /\ vq'.last_used_idx = vq.last_used_idx
        /\ UNCHANGED <<dev, desc, avail, used>>
    BY <1>4, <1>a, KickSplitEffect DEF Queues
  <2> QED
    BY <2>1, OrderedKept
<1>5. ASSUME S!GetBuf PROVE QueueInv'
  <2>1. drv.at # "reset"
    BY <1>5 DEF S!GetBuf, S!CanCall
  <2>2. PICK u \in Nat, v \in Nat, k \in Nat : \E q : Ordered(q, u, v, k)
    BY <1>b, <2>1
  <2>3. PICK q : Ordered(q, u, v, k)
    BY <2>2
  <2>4. u > 0 /\ \E q2 : Ordered(q2, u - 1, v - 1, k - 1)'
    BY <1>5, <2>3, OrderedGetBuf
  <2>5. u <= v /\ v <= k
    BY <2>3 DEF Ordered, InOrder
  <2>6. u - 1 \in Nat /\ v - 1 \in Nat /\ k - 1 \in Nat
    BY <2>4, <2>5
  <2> QED
    BY <1>c, <2>4, <2>6
<1>6. ASSUME S!DisableCb PROVE QueueInv'
  <2>1. /\ drv.at # "reset" /\ avail'.idx = avail.idx /\ avail'.ring = avail.ring
        /\ UNCHANGED <<vq, drv, wire, dev, desc, used>>
    BY <1>6, <1>a, DisableEffect DEF AvailRings
  <2> QED
    BY <2>1, OrderedKept
<1>7. ASSUME NEW to, NEW e, S!Enable(to, e) PROVE QueueInv'
  <2>1. /\ drv.at # "reset" /\ avail'.idx = avail.idx /\ avail'.ring = avail.ring
        /\ vq'.num = vq.num /\ vq'.last_used_idx = vq.last_used_idx
        /\ UNCHANGED <<dev, desc, used>>
    BY <1>7, <1>a, EnableEffect DEF AvailRings, Queues
  <2> QED
    BY <2>1, OrderedKept
<1>8. ASSUME S!Poll \/ S!PollDelayed \/ S!Leave PROVE QueueInv'
  <2>1. drv.at # "reset" /\ UNCHANGED <<vq, wire, dev, desc, avail, used>>
    BY <1>8 DEF S!Poll, S!PollDelayed, S!Leave, S!CanStop
  <2> QED
    BY <2>1, OrderedKept
<1>9. ASSUME S!DetachUnused PROVE QueueInv'
  BY <1>9 DEF S!DetachUnused, QueueInv
<1>10. ASSUME S!ResizeSplit PROVE QueueInv'
  <2>1. /\ drv.at = "reset" /\ drv.size \in Sizes /\ S!HasData = {}
        /\ dev' = [S!DeviceOff EXCEPT !.at = "run"] \/ dev' = S!DeviceOff
    BY <1>10 DEF S!ResizeSplit, S!ResizeEnd, SplitShape
  <2>2. Heads(desc') = {}
    <3>1. drv.size \in Nat \ {0}
      BY <2>1, SizesArePositive
    <3>2. Heads(S!FreshDesc(drv.size)) = {}
      BY <3>1, PoolFresh
    <3> QED
      BY <1>10, <2>1, <3>2 DEF S!ResizeSplit, S!HasData, Heads
  <2>3. dev'.last_avail = 0 /\ dev'.taken = {}
    BY <2>1 DEF S!DeviceOff
  <2>4. avail'.idx = 0 /\ used'.idx = 0
    BY <1>10 DEF S!ResizeSplit, S!FreshAvail, S!FreshUsed
  <2>5. vq'.last_used_idx = 0
    BY <1>10, <1>a DEF S!ResizeSplit, S!Reinit, Queues
  <2>6. vq'.num \in Nat
    BY SizesArePositive DEF SplitShape, Queues
  <2> DEFINE q == [j \in 0 .. -1 |-> 0]
  <2>7. Ordered(q, 0, 0, 0)'
    <3>1. 0 % IdxMod = 0
      BY IndexesWrap
    <3>2. InOrder(vq'.num, 0, {}, q, 0, 0, 0, used'.ring, {}, avail'.ring)
      BY <2>6 DEF InOrder, IsInjective, Range
    <3> QED
      BY <2>2, <2>3, <2>4, <2>5, <3>1, <3>2 DEF Ordered
  <2> QED
    BY <1>c, <2>7
<1>11. ASSUME S!Enter \/ S!Interrupt(S!more_used), UNCHANGED <<desc, avail, used>>
       PROVE  QueueInv'
  <2>1. /\ drv.at = "reset" => drv'.at = "reset"
        /\ vq'.num = vq.num /\ vq'.last_used_idx = vq.last_used_idx /\ dev' = dev
    BY <1>11, <1>a, InterruptEffect DEF S!Enter, Queues
  <2>2. drv'.at # "reset" => drv.at # "reset"
    BY <2>1
  <2> QED
    BY <1>11, <2>1, <2>2, OrderedKept
<1>12. ASSUME S!ResizeStart(S!DeviceOff) PROVE QueueInv'
  <2>1. drv'.at = "reset"
    BY <1>12, <1>a DEF S!ResizeStart, Drivers
  <2> QED
    BY <2>1 DEF QueueInv
<1>13. ASSUME S!DevTake PROVE QueueInv'
  <2>1. drv.at # "reset"
    BY <1>13, <1>a DEF S!DevTake
  <2>2. PICK u \in Nat, v \in Nat, k \in Nat : \E q : Ordered(q, u, v, k)
    BY <1>b, <2>1
  <2>3. PICK q : Ordered(q, u, v, k)
    BY <2>2
  <2>4. Ordered(q, u, v + 1, k)'
    BY <1>13, <2>3, OrderedTake
  <2> QED
    BY <1>c, <2>4
<1>14. ASSUME NEW head \in dev.taken, S!DevUse(head) PROVE QueueInv'
  <2>1. drv.at # "reset"
    BY <1>14, <1>a DEF S!DevUse
  <2>2. PICK u \in Nat, v \in Nat, k \in Nat : \E q : Ordered(q, u, v, k)
    BY <1>b, <2>1
  <2>3. PICK q : Ordered(q, u, v, k)
    BY <2>2
  <2>4. \E q2 : Ordered(q2, u + 1, v, k)'
    BY <1>14, <2>3, OrderedUse
  <2> QED
    BY <1>c, <2>4
<1>15. ASSUME S!DevEnable \/ S!DevRecheck \/ S!DevSignal PROVE QueueInv'
  <2>1. /\ UNCHANGED <<vq, drv, desc, avail>>
        /\ used'.idx = used.idx /\ used'.ring = used.ring
        /\ dev'.last_avail = dev.last_avail /\ dev'.taken = dev.taken
    BY <1>15, <1>a, RecheckEffect, SignalEffect DEF S!DevEnable, UsedRings, Devices
  <2> QED
    BY <2>1, OrderedKept
<1>16. ASSUME S!DevWake([dev EXCEPT !.at = "run"]), UNCHANGED <<desc, avail, used>>
       PROVE  QueueInv'
  <2>1. UNCHANGED <<vq, drv>> /\ dev'.last_avail = dev.last_avail /\ dev'.taken = dev.taken
    BY <1>16, <1>a DEF S!DevWake, Devices
  <2> QED
    BY <1>16, <2>1, OrderedKept
<1> QED
  BY <1>1, <1>2, <1>3, <1>4, <1>5, <1>6, <1>7, <1>8, <1>9, <1>10, <1>11, <1>12, <1>13,
     <1>14, <1>15, <1>16
     DEF S!SplitNext, S!Driver, S!Device, S!EnableCb, S!EnableCbDelayed

-----------------------------------------------------------------------------
(* Interrupts *)

LEMMA Offsets ==
    ASSUME SplitShape, PoolInv, QueueInv, drv.at # "reset"
    PROVE  /\ Ready \in Index /\ Wish \in Index /\ All \in Index
           /\ Ready <= All /\ All <= vq.num
           /\ S!more_used <=> Ready # 0
           /\ S!Delay = (All * 3) \div 4
           /\ (avail.idx - used.idx) % IdxMod = All - Ready
           /\ vq.num \in Nat /\ 2 * vq.num <= IdxMod
<1>1. /\ vq.last_used_idx \in Index /\ used.idx \in Index /\ avail.idx \in Index
      /\ avail.used_event \in Index /\ vq.num \in Nat /\ 2 * vq.num <= IdxMod
  BY SizesArePositive DEF SplitShape, Queues, UsedRings, AvailRings
<1>2. PICK u, v, k \in 0 .. vq.num : \E q : Ordered(q, u, v, k)
  BY DEF QueueInv
<1>3. PICK q : Ordered(q, u, v, k)
  BY <1>2
<1>4. u \in Nat /\ v \in Nat /\ k \in Nat
  BY <1>1
<1>5. /\ u <= v /\ v <= k /\ k <= vq.num /\ Ready = u /\ All = k
      /\ (avail.idx - used.idx) % IdxMod = k - u
      /\ vq.last_used_idx = used.idx <=> u = 0
  BY <1>3, <1>4, OrderedFacts
<1>6. Ready \in Index /\ Wish \in Index /\ All \in Index
  BY <1>1, Differences DEF Ready, Wish, All
<1>7. S!Delay = (All * 3) \div 4
  BY DEF S!Delay, S!Outstanding, All
<1>8. Ready <= All /\ All <= vq.num
  BY <1>4, <1>5
<1>9. S!more_used <=> Ready # 0
  BY <1>5 DEF S!more_used
<1> QED
  BY <1>1, <1>5, <1>6, <1>7, <1>8, <1>9

\* What is not signalled one by one was not asked for.
LEMMA NotAskedFor ==
    ASSUME NEW i \in Index, NEW e \in Index, NEW c \in Index, NEW s \in Index,
           i = (s + 1) % IdxMod, s # i, ~S!need_event(e, i, s),
           (i - c) % IdxMod <= ((e - c) % IdxMod) + 1
    PROVE  (i - c) % IdxMod <= (e - c) % IdxMod
<1>1. IdxMod \in Nat \ {0} /\ i \in 0 .. IdxMod - 1 /\ e \in 0 .. IdxMod - 1
      /\ c \in 0 .. IdxMod - 1 /\ s \in 0 .. IdxMod - 1
  BY IndexesWrap DEF Index
<1>2. IdxMod > 1
  BY <1>1
<1>3. (i - 1) % IdxMod = IF i = 0 THEN IdxMod - 1 ELSE i - 1
  BY Differences
<1>4. i = IF s = IdxMod - 1 THEN 0 ELSE s + 1
  BY Differences
<1>5. s = (i - 1) % IdxMod
  BY <1>1, <1>2, <1>3, <1>4
<1>6. 1 \in Index
  BY <1>1, <1>2 DEF Index
<1>7. S!need_event(e, i, (i - 1) % IdxMod) <=> i # e /\ (i - e) % IdxMod <= 1
  BY <1>6, NeedEvent
<1>8. i = e \/ ~((i - e) % IdxMod <= 1)
  BY <1>5, <1>7
<1> DEFINE a == (i - c) % IdxMod
           b == (e - c) % IdxMod
           d == (i - e) % IdxMod
<1>9. /\ a = IF i >= c THEN i - c ELSE i - c + IdxMod
      /\ b = IF e >= c THEN e - c ELSE e - c + IdxMod
      /\ d = IF i >= e THEN i - e ELSE i - e + IdxMod
  BY Differences
<1>10. a <= b + 1 /\ (i = e \/ ~(d <= 1))
  BY <1>8
<1> HIDE DEF a, b, d
<1>11. a <= b
  BY <1>1, <1>9, <1>10
<1> QED
  BY <1>11 DEF a, b

\* The offsets only depend on the indexes.
LEMMA IrqKept ==
    ASSUME IrqInv, drv'.at # "reset" => drv.at # "reset",
           drv'.at = drv.at \/ drv'.at \notin {"idle", "poll", "delayed"},
           vq'.event = vq.event, vq'.last_used_idx = vq.last_used_idx,
           vq.broken => vq'.broken,
           avail'.idx = avail.idx, avail'.no_interrupt = avail.no_interrupt,
           avail'.flag = avail.flag, avail'.used_event = avail.used_event,
           used'.idx = used.idx, dev'.signalled = dev.signalled,
           drv'.at = "idle" /\ wire.irq => wire'.irq
    PROVE  IrqInv'
<1>1. Wish' = Wish /\ Ready' = Ready /\ All' = All /\ (S!Delay)' = S!Delay
      /\ (Decided' <=> Decided)
  BY DEF Wish, Ready, All, Decided, S!Delay, S!Outstanding
<1> QED
  BY <1>1 DEF IrqInv

LEMMA IrqNext ==
    ASSUME SplitShape, PoolInv, QueueInv, IrqInv, SplitShape', S!SplitNext
    PROVE  IrqInv'
<1> DEFINE n == vq.num
           c == vq.last_used_idx
<1>a. /\ vq \in Queues /\ drv \in Drivers /\ wire \in Wires
      /\ dev \in Devices(n) /\ avail \in AvailRings(n) /\ used \in UsedRings(n)
      /\ drv.at = "reset" => dev.at = "off"
      /\ n \in Nat \ {0} /\ 2 * n <= IdxMod /\ IdxMod \in Nat /\ IdxMod > 1
  BY SizesArePositive, IndexesWrap DEF SplitShape, Queues
<1>i. /\ c \in Index /\ used.idx \in Index /\ avail.idx \in Index
      /\ avail.used_event \in Index /\ dev.signalled \in Index
  BY <1>a DEF Queues, UsedRings, AvailRings, Devices
<1>b. drv.at # "reset" =>
        /\ Ready \in Nat /\ Wish \in Nat /\ All \in Nat /\ Ready <= All /\ All <= n
        /\ S!more_used <=> Ready # 0
        /\ S!Delay = (All * 3) \div 4
  BY Offsets DEF Index
<1>d. drv.at # "reset" => S!Delay \in Nat /\ (S!Delay = 0 \/ S!Delay < All)
  <2> SUFFICES ASSUME drv.at # "reset" PROVE S!Delay \in Nat /\ (S!Delay = 0 \/ S!Delay < All)
    OBVIOUS
  <2>1. \A x \in Nat : (x * 3) \div 4 \in Nat /\ ((x * 3) \div 4 = 0 \/ (x * 3) \div 4 < x)
    OBVIOUS
  <2> QED
    BY <1>b, <2>1
<1> HIDE DEF n, c
<1>f. ASSUME UNCHANGED <<vq, avail, used, dev>>
      PROVE  /\ Wish' = Wish /\ Ready' = Ready /\ All' = All /\ (S!Delay)' = S!Delay
             /\ (Decided' <=> Decided)
  BY <1>f DEF Wish, Ready, All, Decided, S!Delay, S!Outstanding
<1>1. ASSUME NEW t \in Data, NEW sg \in 1 .. MaxSg, NEW ind \in BOOLEAN, S!Add(t, sg, ind)
      PROVE  IrqInv'
  <2>1. drv.at = "drain" /\ drv'.at \in {"drain", "kick"}
    BY <1>1, <1>a DEF S!Add, S!CanCall, Drivers
  <2>2. /\ vq'.event = vq.event /\ vq'.last_used_idx = vq.last_used_idx
        /\ UNCHANGED <<dev, used>>
    BY <1>1, <1>a DEF S!Add, Queues
  <2>3. /\ avail'.idx = (avail.idx + 1) % IdxMod
        /\ avail'.no_interrupt = avail.no_interrupt /\ avail'.flag = avail.flag
        /\ avail'.used_event = avail.used_event
    BY <1>1, <1>a DEF S!Add, AvailRings
  <2>4. All < vq.num
    <3>1. vq.num \in Nat
      BY <1>a DEF n
    <3>2. PICK u, v, k \in 0 .. vq.num : \E q : Ordered(q, u, v, k)
      BY <2>1 DEF QueueInv
    <3>3. PICK q : Ordered(q, u, v, k)
      BY <3>2
    <3>4. u \in Nat /\ v \in Nat /\ k \in Nat
      BY <3>1
    <3>5. k < vq.num
      BY <1>1, <3>3, <3>4, OrderedAdd
    <3>6. All = k
      BY <3>3, <3>4, OrderedFacts
    <3> QED
      BY <3>5, <3>6
  <2>5. Wish' = Wish /\ (Decided' <=> Decided)
    BY <2>2, <2>3 DEF Wish, Decided
  <2>6. All' = All + 1
    <3>1. (((avail.idx + 1) % IdxMod) - vq.last_used_idx) % IdxMod =
             IF (avail.idx - vq.last_used_idx) % IdxMod = IdxMod - 1 THEN 0
             ELSE ((avail.idx - vq.last_used_idx) % IdxMod) + 1
      BY <1>i, NextDifference DEF c
    <3>2. All' = (((avail.idx + 1) % IdxMod) - vq.last_used_idx) % IdxMod
      BY <2>2, <2>3 DEF All
    <3>3. All' = IF All = IdxMod - 1 THEN 0 ELSE All + 1
      BY <3>1, <3>2, Zenon DEF All
    <3>4. All # IdxMod - 1
      BY <1>a, <1>b, <2>1, <2>4 DEF n
    <3> QED
      BY <3>3, <3>4
  <2>7. /\ ~avail.no_interrupt => (Wish = 0 \/ Wish < All) /\ (vq.event \/ ~avail.flag)
        /\ Decided \/ used.idx = (dev.signalled + 1) % IdxMod
        /\ Wish \in Nat /\ All \in Nat
    BY <1>b, <2>1 DEF IrqInv
  <2> QED
    BY <2>1, <2>2, <2>3, <2>5, <2>6, <2>7 DEF IrqInv
<1>2. ASSUME NEW sg \in 1 .. MaxSg, S!AddFull(sg) PROVE IrqInv'
  BY <1>2, <1>a, IrqKept DEF S!AddFull, Wires
<1>3. ASSUME NEW sg \in 1 .. MaxSg, NEW k \in 1 .. MaxSg, S!AddMapFails(sg, k)
      PROVE  IrqInv'
  BY <1>3, IrqKept DEF S!AddMapFails
<1>4. ASSUME S!KickSplit PROVE IrqInv'
  <2>1. /\ drv.at # "reset" /\ drv'.at = "drain"
        /\ vq'.event = vq.event /\ vq'.last_used_idx = vq.last_used_idx
        /\ (vq.broken => vq'.broken)
        /\ UNCHANGED <<dev, desc, avail, used>>
    BY <1>4, <1>a, KickSplitEffect DEF Queues, Drivers
  <2> QED
    BY <2>1, IrqKept
<1>5. ASSUME S!GetBuf PROVE IrqInv'
  <2>1. drv.at = "drain"
    BY <1>5 DEF S!GetBuf, S!CanCall
  <2>2. PICK u, v, k \in 0 .. vq.num : \E q : Ordered(q, u, v, k)
    BY <2>1 DEF QueueInv
  <2>3. PICK q : Ordered(q, u, v, k)
    BY <2>2
  <2>4. u \in Nat /\ v \in Nat /\ k \in Nat
    BY <1>a DEF n
  <2>5. used.ring[vq.last_used_idx % vq.num] \in Heads(desc)
    BY <1>5, <2>3, <2>4, OrderedGetBuf
  <2> DEFINE nxt == (vq.last_used_idx + 1) % IdxMod
  <2>6. /\ UNCHANGED <<drv, wire, dev, used>> /\ nxt \in Index
        /\ vq' = [vq EXCEPT !.last_used_idx = nxt, !.free_head = vq'.free_head,
                            !.num_free = vq'.num_free]
        /\ avail' = [avail EXCEPT !.used_event = avail'.used_event]
        /\ avail'.used_event = IF avail.no_interrupt THEN avail.used_event ELSE nxt
    BY <1>5, <2>5, GetBufEffect
  <2> HIDE DEF nxt
  <2>7. /\ vq'.event = vq.event /\ vq'.last_used_idx = nxt
        /\ avail'.no_interrupt = avail.no_interrupt /\ avail'.flag = avail.flag
    BY <1>a, <2>6 DEF Queues, AvailRings
  <2>8. ~avail'.no_interrupt => Wish' = 0
    <3> SUFFICES ASSUME ~avail'.no_interrupt PROVE Wish' = 0
      OBVIOUS
    <3>1. avail'.used_event = nxt /\ vq'.last_used_idx = nxt
      BY <2>6, <2>7
    <3>2. (nxt - nxt) % IdxMod = 0
      BY <2>6, NoDifference
    <3> QED
      BY <3>1, <3>2 DEF Wish
  <2>9. Decided' <=> Decided
    BY <2>6 DEF Decided
  <2>10. /\ ~avail.no_interrupt => (vq.event \/ ~avail.flag)
         /\ Decided \/ used.idx = (dev.signalled + 1) % IdxMod
    BY <2>1 DEF IrqInv
  <2> QED
    BY <2>1, <2>6, <2>7, <2>8, <2>9, <2>10 DEF IrqInv
<1>6. ASSUME S!DisableCb PROVE IrqInv'
  <2>1. /\ drv.at = "drain" /\ avail'.no_interrupt = TRUE
        /\ UNCHANGED <<vq, drv, wire, dev, used>>
    BY <1>6, <1>a, DisableEffect DEF AvailRings
  <2>2. Decided \/ used.idx = (dev.signalled + 1) % IdxMod
    BY <2>1 DEF IrqInv
  <2>3. Decided' <=> Decided
    BY <2>1 DEF Decided
  <2> QED
    BY <2>1, <2>2, <2>3 DEF IrqInv
<1>7. ASSUME NEW to \in {"poll", "delayed"}, NEW d \in Nat, d <= n, d = 0 \/ d < All,
             to = "poll" => d = 0, to = "delayed" => d = S!Delay,
             S!Enable(to, vq.last_used_idx + d)
      PROVE  IrqInv'
  <2> DEFINE e == vq.last_used_idx + d
  <2>0. S!Enable(to, e)
    BY <1>7
  <2> HIDE DEF e
  <2>a. /\ drv.at = "drain" /\ drv' = [drv EXCEPT !.at = to]
        /\ vq' = [vq EXCEPT !.event_triggered = FALSE]
        /\ avail' = [avail EXCEPT !.no_interrupt = FALSE, !.used_event = e % IdxMod,
                                  !.flag = avail'.flag]
        /\ ~vq.event /\ (avail.no_interrupt \/ ~avail.flag) => ~avail'.flag
        /\ UNCHANGED <<wire, dev, desc, used>>
    BY <2>0, EnableEffect
  <2>1. drv.at = "drain" /\ drv'.at = to
    BY <1>a, <2>a DEF Drivers
  <2>2. /\ vq'.event = vq.event /\ vq'.last_used_idx = vq.last_used_idx
        /\ UNCHANGED <<wire, dev, used>>
    BY <1>a, <2>a DEF Queues
  <2>3. /\ ~avail'.no_interrupt /\ avail'.idx = avail.idx
        /\ avail'.used_event = (vq.last_used_idx + d) % IdxMod
        /\ ~vq.event /\ (avail.no_interrupt \/ ~avail.flag) => ~avail'.flag
    <3>1. /\ ~avail'.no_interrupt /\ avail'.idx = avail.idx
          /\ avail'.used_event = e % IdxMod
      BY <1>a, <2>a DEF AvailRings
    <3> QED
      BY <2>a, <3>1 DEF e
  <2>4. Wish' = d
    <3>1. (((vq.last_used_idx + d) % IdxMod) - vq.last_used_idx) % IdxMod = d
      <4>1. vq.num \in Sizes /\ vq.last_used_idx \in Index /\ d <= vq.num
        BY <1>7, <1>a DEF Queues, n
      <4> QED
        BY <4>1, CountOn
    <3> QED
      BY <2>2, <2>3, <3>1 DEF Wish
  <2>5. All' = All /\ (S!Delay)' = S!Delay /\ (Decided' <=> Decided)
    BY <2>2, <2>3 DEF All, S!Delay, S!Outstanding, Decided
  <2>6. /\ ~avail.no_interrupt => vq.event \/ ~avail.flag
        /\ Decided \/ used.idx = (dev.signalled + 1) % IdxMod
    BY <2>1 DEF IrqInv
  <2>7. vq'.event \/ ~avail'.flag
    BY <2>2, <2>3, <2>6
  <2> QED
    BY <1>7, <2>1, <2>2, <2>3, <2>4, <2>5, <2>6, <2>7 DEF IrqInv
<1>8. ASSUME S!EnableCb \/ S!EnableCbDelayed PROVE IrqInv'
  <2>1. drv.at # "reset"
    BY <1>8, <1>a, EnableEffect DEF S!EnableCb, S!EnableCbDelayed
  <2>2. CASE S!EnableCb
    <3>1. vq.last_used_idx + 0 = vq.last_used_idx
      BY <1>i DEF Index, c
    <3>2. S!Enable("poll", vq.last_used_idx + 0)
      BY <2>2, <3>1 DEF S!EnableCb
    <3> QED
      BY <1>7, <1>a, <3>2
  <2>3. CASE S!EnableCbDelayed
    <3>1. S!Delay \in Nat /\ S!Delay <= n /\ (S!Delay = 0 \/ S!Delay < All)
      BY <1>a, <1>b, <1>d, <2>1
    <3>2. S!Enable("delayed", vq.last_used_idx + S!Delay)
      BY <2>3 DEF S!EnableCbDelayed
    <3> QED
      BY <1>7, <3>1, <3>2
  <2> QED
    BY <1>8, <2>2, <2>3
<1>9. ASSUME S!Poll \/ S!PollDelayed \/ S!Leave PROVE IrqInv'
  <2>1. /\ drv.at \in {"poll", "delayed", "drain"} /\ UNCHANGED <<vq, wire, dev, avail, used>>
        /\ drv'.at \in {"drain", "idle"}
    BY <1>9, <1>a DEF S!Poll, S!PollDelayed, S!Leave, S!CanStop, Drivers
  <2>2. drv'.at = "idle" =>
           ~avail.no_interrupt /\ (vq.broken \/ Ready = 0 \/ (Ready <= Wish /\ (Wish = 0 \/ Wish < All)))
    <3> SUFFICES ASSUME drv'.at = "idle"
                 PROVE  ~avail.no_interrupt /\ (vq.broken \/ Ready = 0 \/ (Ready <= Wish /\ (Wish = 0 \/ Wish < All)))
      OBVIOUS
    <3>1. CASE S!Poll
      <4>1. drv.at = "poll" /\ ~(S!more_used /\ ~vq.broken)
        BY <1>a, <3>1 DEF S!Poll, Drivers
      <4> QED
        BY <1>b, <4>1 DEF IrqInv
    <3>2. CASE S!PollDelayed
      <4>1. drv.at = "delayed" /\ ~(Ready > S!Delay)
        BY <1>a, <3>2 DEF S!PollDelayed, Drivers, Ready
      <4>2. Wish = S!Delay /\ ~avail.no_interrupt
        BY <4>1 DEF IrqInv
      <4> QED
        BY <1>b, <1>d, <4>1, <4>2
    <3>3. CASE S!Leave
      <4>1. drv.at = "drain" /\ ~avail.no_interrupt /\ (~S!more_used \/ vq.broken)
        BY <3>3 DEF S!Leave, S!CanStop
      <4> QED
        BY <1>b, <4>1
    <3> QED
      BY <1>9, <3>1, <3>2, <3>3
  <2>3. /\ Wish' = Wish /\ Ready' = Ready /\ All' = All /\ (Decided' <=> Decided)
    BY <2>1, <1>f
  <2>4. /\ ~avail.no_interrupt => (Wish = 0 \/ Wish < All) /\ (vq.event \/ ~avail.flag)
        /\ Decided \/ used.idx = (dev.signalled + 1) % IdxMod
    BY <2>1 DEF IrqInv
  <2>5. drv'.at = "idle" /\ ~vq.broken =>
           /\ Ready <= Wish /\ Ready <= Wish + 1 /\ (Ready = 0 \/ Ready < All)
    BY <1>b, <2>1, <2>2
  <2> QED
    BY <2>1, <2>2, <2>3, <2>4, <2>5 DEF IrqInv
<1>10. ASSUME S!DetachUnused PROVE IrqInv'
  BY <1>10 DEF S!DetachUnused, IrqInv
<1>11. ASSUME S!ResizeSplit PROVE IrqInv'
  <2>1. /\ drv'.at = "drain" /\ dev'.signalled = 0
    BY <1>11, <1>a DEF S!ResizeSplit, S!ResizeEnd, S!DeviceOff, Drivers
  <2>2. /\ avail'.idx = 0 /\ avail'.used_event = 0 /\ ~avail'.flag /\ used'.idx = 0
    BY <1>11 DEF S!ResizeSplit, S!FreshAvail, S!FreshUsed
  <2>3. vq'.last_used_idx = 0
    BY <1>11, <1>a DEF S!ResizeSplit, S!Reinit, Queues
  <2>4. (0 - 0) % IdxMod = 0
    BY IndexesWrap, NoDifference
  <2>5. Wish' = 0 /\ Decided'
    BY <2>1, <2>2, <2>3, <2>4 DEF Wish, Decided
  <2> QED
    BY <2>1, <2>2, <2>5 DEF IrqInv
<1>12. ASSUME S!Enter, UNCHANGED <<desc, avail, used>> PROVE IrqInv'
  BY <1>12, <1>a, IrqKept DEF S!Enter, Drivers
<1>13. ASSUME S!Interrupt(S!more_used), UNCHANGED <<desc, avail, used>> PROVE IrqInv'
  <2>1. /\ vq' = [vq EXCEPT !.event_triggered = vq'.event_triggered] /\ dev' = dev
        /\ drv.at # "idle" => drv' = drv /\ wire' = wire
        /\ drv.at = "idle" /\ S!more_used /\ ~vq.broken => drv' = [drv EXCEPT !.at = "drain"]
        /\ drv.at = "idle" /\ ~(S!more_used /\ ~vq.broken) => drv' = drv
    BY <1>13, InterruptEffect DEF S!more_used
  <2>2. vq'.event = vq.event /\ vq'.last_used_idx = vq.last_used_idx /\ vq'.broken = vq.broken
    BY <1>a, <2>1 DEF Queues
  <2>3. CASE drv.at # "idle"
    BY <1>13, <2>1, <2>2, <2>3, IrqKept
  <2>4. CASE drv.at = "idle" /\ S!more_used /\ ~vq.broken
    <3>1. drv'.at = "drain"
      BY <1>a, <2>1, <2>4 DEF Drivers
    <3> QED
      BY <1>13, <2>1, <2>2, <2>4, <3>1, IrqKept
  <2>5. CASE drv.at = "idle" /\ ~(S!more_used /\ ~vq.broken)
    <3>1. drv' = drv /\ (vq.broken \/ Ready = 0)
      BY <1>b, <2>1, <2>5
    <3>2. Wish' = Wish /\ Ready' = Ready /\ All' = All /\ (Decided' <=> Decided)
      BY <1>13, <2>1, <2>2 DEF Wish, Ready, All, Decided
    <3>3. Ready = 0 => Ready <= Wish /\ Ready <= Wish + 1
      BY <1>b, <2>5
    <3> QED
      BY <1>13, <2>1, <2>2, <2>5, <3>1, <3>2, <3>3 DEF IrqInv
  <2> QED
    BY <2>3, <2>4, <2>5
<1>14. ASSUME S!ResizeStart(S!DeviceOff) PROVE IrqInv'
  <2>1. drv'.at = "reset"
    BY <1>14, <1>a DEF S!ResizeStart, Drivers
  <2> QED
    BY <2>1 DEF IrqInv
<1>15. ASSUME S!DevTake \/ S!DevEnable \/ S!DevRecheck PROVE IrqInv'
  <2>1. /\ UNCHANGED <<vq, drv, wire, avail>>
        /\ used'.idx = used.idx /\ dev'.signalled = dev.signalled
    BY <1>15, <1>a, RecheckEffect DEF S!DevTake, S!DevEnable, UsedRings, Devices
  <2> QED
    BY <2>1, IrqKept
<1>16. ASSUME NEW head \in dev.taken, S!DevUse(head) PROVE IrqInv'
  <2>1. /\ drv.at # "reset" /\ UNCHANGED <<vq, drv, wire, avail>> /\ Decided
        /\ dev'.signalled = dev.signalled /\ used'.idx = (used.idx + 1) % IdxMod
    BY <1>16, <1>a DEF S!DevUse, Decided, UsedRings, Devices
  <2>2. Ready < vq.num
    <3>1. vq.num \in Nat
      BY <1>a DEF n
    <3>2. PICK u, v, k \in 0 .. vq.num : \E q : Ordered(q, u, v, k)
      BY <2>1 DEF QueueInv
    <3>3. PICK q : Ordered(q, u, v, k)
      BY <3>2
    <3>4. u \in Nat /\ v \in Nat /\ k \in Nat
      BY <3>1
    <3>5. u < v
      BY <1>16, <3>3, <3>4, OrderedUse
    <3>6. Ready = u /\ v <= k /\ k <= vq.num
      BY <3>3, <3>4, OrderedFacts
    <3> QED
      BY <3>1, <3>4, <3>5, <3>6
  <2>3. Ready' = Ready + 1
    <3>1. (((used.idx + 1) % IdxMod) - vq.last_used_idx) % IdxMod =
             IF (used.idx - vq.last_used_idx) % IdxMod = IdxMod - 1 THEN 0
             ELSE ((used.idx - vq.last_used_idx) % IdxMod) + 1
      BY <1>i, NextDifference DEF c
    <3>2. Ready' = (((used.idx + 1) % IdxMod) - vq.last_used_idx) % IdxMod
      BY <2>1 DEF Ready
    <3>3. Ready' = IF Ready = IdxMod - 1 THEN 0 ELSE Ready + 1
      BY <3>1, <3>2, Zenon DEF Ready
    <3>4. Ready # IdxMod - 1
      BY <1>a, <1>b, <2>1, <2>2 DEF n
    <3> QED
      BY <3>3, <3>4
  <2>4. Wish' = Wish /\ All' = All /\ (S!Delay)' = S!Delay
    BY <2>1 DEF Wish, All, S!Delay, S!Outstanding
  <2>5. ~Decided'
    <3>1. (used.idx + 1) % IdxMod = IF used.idx = IdxMod - 1 THEN 0 ELSE used.idx + 1
      BY <1>i, Differences
    <3>2. (used.idx + 1) % IdxMod # used.idx
      BY <1>a, <1>i, <3>1 DEF Index
    <3> QED
      BY <2>1, <3>2 DEF Decided
  <2>6. used'.idx = (dev'.signalled + 1) % IdxMod
    BY <2>1 DEF Decided
  <2>7. drv.at = "idle" /\ ~vq.broken /\ ~wire.irq /\ vq.event => Ready + 1 <= Wish + 1
    <3> SUFFICES ASSUME drv.at = "idle" /\ ~vq.broken /\ ~wire.irq /\ vq.event
                 PROVE  Ready + 1 <= Wish + 1
      OBVIOUS
    <3>1. Ready <= Wish
      BY <2>1 DEF IrqInv
    <3> QED
      BY <1>b, <2>1, <3>1
  <2> QED
    BY <2>1, <2>3, <2>4, <2>5, <2>6, <2>7 DEF IrqInv
<1>17. ASSUME S!DevSignal PROVE IrqInv'
  <2> DEFINE wanted == IF vq.event THEN S!need_event(avail.used_event, used.idx, dev.signalled)
                                   ELSE ~avail.flag
  <2>1. /\ dev.at # "off" /\ ~Decided /\ dev'.signalled = used.idx
        /\ wire'.irq <=> wire.irq \/ wanted
        /\ UNCHANGED <<vq, drv, desc, avail, used>>
    BY <1>17, <1>a, SignalEffect DEF Decided, Devices
  <2>2. drv.at # "reset"
    BY <1>a, <2>1
  <2>3. Wish' = Wish /\ Ready' = Ready /\ All' = All /\ (S!Delay)' = S!Delay /\ Decided'
    BY <2>1 DEF Wish, Ready, All, Decided, S!Delay, S!Outstanding
  <2>4. used.idx = (dev.signalled + 1) % IdxMod
    BY <2>1, <2>2 DEF IrqInv
  <2>5. ASSUME drv.at = "idle", ~vq.broken, ~wire.irq, ~wanted
        PROVE  vq.event /\ Ready <= Wish
    <3>1. ~avail.no_interrupt /\ (vq.event \/ ~avail.flag)
      BY <2>5 DEF IrqInv
    <3>2. vq.event /\ ~S!need_event(avail.used_event, used.idx, dev.signalled)
      BY <2>5, <3>1
    <3>3. Ready <= Wish + 1
      BY <2>1, <2>5, <3>2 DEF IrqInv
    <3>4. dev.signalled # used.idx
      BY <2>1 DEF Decided
    <3> QED
      BY <1>i, <2>4, <3>2, <3>3, <3>4, NotAskedFor DEF Ready, Wish, c
  <2> HIDE DEF wanted
  <2> QED
    BY <2>1, <2>2, <2>3, <2>5 DEF IrqInv
<1>18. ASSUME S!DevWake([dev EXCEPT !.at = "run"]), UNCHANGED <<desc, avail, used>>
       PROVE  IrqInv'
  <2>1. /\ UNCHANGED <<vq, drv>> /\ dev'.signalled = dev.signalled /\ wire'.irq = wire.irq
    BY <1>18, <1>a DEF S!DevWake, Devices, Wires
  <2> QED
    BY <1>18, <2>1, IrqKept
<1> QED
  BY <1>1, <1>2, <1>3, <1>4, <1>5, <1>6, <1>8, <1>9, <1>10, <1>11, <1>12, <1>13,
     <1>14, <1>15, <1>16, <1>17, <1>18
     DEF S!SplitNext, S!Driver, S!Device

-----------------------------------------------------------------------------
(* The invariant, and what follows from it *)

LEMMA SplitStart ==
    ASSUME S!SplitInit
    PROVE  SplitInv
<1>1. PICK n \in Sizes, f \in Features :
         /\ vq = S!Vq(n, f)
         /\ desc = S!FreshDesc(n) /\ avail = S!FreshAvail(n) /\ used = S!FreshUsed(n)
  BY DEF S!SplitInit
<1>2. f.event \in BOOLEAN /\ f.indirect \in BOOLEAN
  BY FeaturesAreFlags
<1>3. n \in Nat \ {0} /\ 0 \in Index /\ IdxMod \in Nat /\ IdxMod > 1
  BY SizesArePositive, IndexesWrap
<1>4. vq \in Queues /\ vq.num = n /\ vq.last_used_idx = 0 /\ vq.num_added = 0
      /\ vq.free_head = 0 /\ vq.num_free = n
  BY <1>1, <1>2, <1>3 DEF S!Vq, Queues
<1>5. /\ drv = [at |-> "drain", size |-> 0] /\ wire = [kick |-> FALSE, irq |-> FALSE]
      /\ dev = [at |-> "run", last_avail |-> 0, taken |-> {}, signalled |-> 0]
  BY DEF S!SplitInit, S!DriverAwake, S!QuietWire, S!DeviceOff
<1>6. SplitShape
  <2>1. dev \in Devices(n)
    BY <1>3, <1>5 DEF Devices
  <2>2. avail \in AvailRings(n) /\ used \in UsedRings(n)
    BY <1>1, FreshShapes
  <2> QED
    BY <1>4, <1>5, <2>1, <2>2 DEF SplitShape, Drivers, Wires
<1>7. PoolInv /\ Heads(desc) = {}
  BY <1>1, <1>3, <1>4, PoolFresh DEF PoolInv
<1>8. DataDistinct
  BY <1>7 DEF DataDistinct
<1>9. KickInv
  BY <1>3, <1>4, <1>5 DEF KickInv
<1>10. avail.idx = 0 /\ avail.used_event = 0 /\ ~avail.flag /\ used.idx = 0
  BY <1>1 DEF S!FreshAvail, S!FreshUsed
<1>11. QueueInv
  <2> DEFINE q == [j \in 0 .. -1 |-> 0]
  <2>1. 0 % IdxMod = 0
    BY IndexesWrap
  <2>2. InOrder(n, 0, {}, q, 0, 0, 0, used.ring, {}, avail.ring)
    BY <1>3 DEF InOrder, IsInjective, Range
  <2>3. Ordered(q, 0, 0, 0)
    BY <1>4, <1>5, <1>7, <1>10, <2>1, <2>2 DEF Ordered
  <2> QED
    BY <1>3, <1>4, <2>3, OrderedIsQueue
<1>12. IrqInv
  <2>1. (0 - 0) % IdxMod = 0
    BY IndexesWrap, NoDifference
  <2>2. Wish = 0 /\ Decided
    BY <1>4, <1>5, <1>10, <2>1 DEF Wish, Decided
  <2> QED
    BY <1>5, <1>10, <2>2 DEF IrqInv
<1> QED
  BY <1>6, <1>7, <1>8, <1>9, <1>11, <1>12 DEF SplitInv

LEMMA SplitStep ==
    ASSUME SplitInv, S!SplitNext
    PROVE  SplitInv'
<1>1. /\ SplitShape /\ PoolInv /\ DataDistinct /\ KickInv /\ QueueInv /\ IrqInv
      /\ vq.num_added = IdxMod - 1 => drv.at = "kick"
  BY DEF SplitInv, KickInv
<1>2. SplitShape'
  BY <1>1, ShapeNext
<1>3. PoolInv' /\ DataDistinct'
  BY <1>1, PoolNext
<1>4. KickInv'
  BY <1>1, KickNext
<1>5. QueueInv'
  BY <1>1, <1>2, QueueNext
<1>6. IrqInv'
  BY <1>1, <1>2, IrqNext
<1> QED
  BY <1>2, <1>3, <1>4, <1>5, <1>6 DEF SplitInv

LEMMA SplitStutter ==
    ASSUME SplitInv, UNCHANGED <<vq, drv, wire, dev, desc, avail, used>>
    PROVE  SplitInv'
<1>1. SplitShape' /\ PoolInv' /\ DataDistinct' /\ KickInv'
  BY DEF SplitInv, SplitShape, PoolInv, DataDistinct, KickInv
<1>2. QueueInv'
  BY OrderedKept DEF SplitInv
<1>3. IrqInv'
  BY IrqKept DEF SplitInv
<1> QED
  BY <1>1, <1>2, <1>3 DEF SplitInv

LEMMA TypesFollow ==
    ASSUME SplitInv
    PROVE  S!SplitTypeOK
<1>1. /\ vq \in Queues /\ avail \in AvailRings(vq.num) /\ used \in UsedRings(vq.num)
      /\ Pool(desc, vq.num, vq.free_head, vq.num_free)
  BY DEF SplitInv, SplitShape, PoolInv
<1>2. /\ vq.num \in Sizes /\ vq.num_free \in 0 .. vq.num /\ vq.free_head \in S!Slots(vq.num)
      /\ vq.last_used_idx \in Index /\ vq.num_added \in Index
      /\ desc \in [S!Slots(vq.num) -> Descriptor(vq.num)]
  BY <1>1 DEF Queues, Pool, Table
<1> QED
  BY <1>1, <1>2 DEF S!SplitTypeOK, Index, Descriptor, AvailRings, UsedRings

LEMMA ConservationFollows ==
    ASSUME PoolInv
    PROVE  S!DescriptorsConserved
<1> DEFINE n == vq.num
           f == ListIn(desc, vq.free_head, vq.num_free)
           free == S!Range(S!List(vq.free_head, vq.num_free))
<1>1. \A g : S!Range(g) = Range(g)
  BY DEF S!Range, Range
<1>2. /\ free = Range(f) /\ \A i : S!Range(S!Chain(i)) = Range(ChainIn(desc, n, i))
  BY <1>1, ListsOfTable, ChainsOfTable
<1>3. S!HasData = Heads(desc)
  BY DEF S!HasData, Heads
<1>4. Pool(desc, n, vq.free_head, vq.num_free)
  BY DEF PoolInv
<1>5. /\ n \in Nat /\ vq.num_free \in Nat /\ DOMAIN desc = S!Slots(n)
      /\ f \in [0 .. vq.num_free - 1 -> S!Slots(n)] /\ IsInjective(f)
      /\ Range(f) = {s \in S!Slots(n) : ~desc[s].mapped}
  BY <1>4, PoolFacts DEF Pool
<1>6. \A i \in Heads(desc) : \A s \in Range(ChainIn(desc, n, i)) :
         s \in S!Slots(n) /\ desc[s].mapped
  BY <1>4, PoolFacts
<1>7. /\ \A i, j \in Heads(desc) :
            i # j => Range(ChainIn(desc, n, i)) \cap Range(ChainIn(desc, n, j)) = {}
      /\ \A s \in S!Slots(n) :
            desc[s].mapped => \E i \in Heads(desc) : s \in Range(ChainIn(desc, n, i))
  BY <1>4 DEF Pool
<1>8. Cardinality(Range(f)) = vq.num_free
  BY <1>5, PathFits
<1> HIDE DEF f, n, free
<1>9. Cardinality(free) = vq.num_free
  BY <1>2, <1>8
<1>10. \A i \in S!HasData : free \cap S!Range(S!Chain(i)) = {}
  BY <1>2, <1>3, <1>5, <1>6
<1>11. \A i, j \in S!HasData : i # j => S!Range(S!Chain(i)) \cap S!Range(S!Chain(j)) = {}
  BY <1>2, <1>3, <1>7
<1>12. free \cup UNION {S!Range(S!Chain(i)) : i \in S!HasData} = DOMAIN desc
  <2>1. ASSUME NEW s \in S!Slots(n)
        PROVE  s \in free \cup UNION {S!Range(S!Chain(i)) : i \in S!HasData}
    <3>1. CASE ~desc[s].mapped
      BY <1>2, <1>5, <3>1
    <3>2. CASE desc[s].mapped
      <4>1. PICK i \in S!HasData : s \in S!Range(S!Chain(i))
        BY <1>2, <1>3, <1>7, <3>2
      <4> QED
        BY <4>1
    <3> QED
      BY <3>1, <3>2
  <2>2. free \subseteq S!Slots(n)
    BY <1>2, <1>5
  <2>3. \A i \in S!HasData : S!Range(S!Chain(i)) \subseteq S!Slots(n)
    BY <1>2, <1>3, <1>6
  <2> QED
    BY <1>5, <2>1, <2>2, <2>3
<1>13. {i \in DOMAIN desc : desc[i].mapped} = DOMAIN desc \ free
  BY <1>2, <1>5
<1>14. S!Cardinality(free) = Cardinality(free)
  BY DEF S!Cardinality, Cardinality
<1> QED
  BY <1>9, <1>10, <1>11, <1>12, <1>13, <1>14 DEF S!DescriptorsConserved, free

LEMMA NoKickIsLost ==
    ASSUME SplitShape, KickInv
    PROVE  S!NoLostKick
<1>1. SUFFICES ASSUME dev.at = "sleep", ~wire.kick, vq.num_added = 0, ~vq.broken
               PROVE  dev.last_avail = avail.idx
  BY DEF S!NoLostKick, S!DeviceRests
<1>2. avail.idx \in Index /\ dev.last_avail \in Index
  BY DEF SplitShape, AvailRings, Devices
<1> DEFINE b == (avail.idx - dev.last_avail) % IdxMod
<1>3. b <= 0
  BY <1>1 DEF KickInv
<1>4. b \in Index /\ (b = 0 <=> avail.idx = dev.last_avail)
  BY <1>2, Differences, NoDifference
<1> HIDE DEF b
<1>5. b = 0
  BY <1>3, <1>4 DEF Index
<1> QED
  BY <1>4, <1>5

LEMMA NoInterruptIsLost ==
    ASSUME SplitShape, PoolInv, QueueInv, IrqInv
    PROVE  S!NoLostInterrupt
<1> DEFINE owed == (avail.idx - used.idx) % IdxMod
           wish == (avail.used_event - used.idx) % IdxMod
<1>1. SUFFICES ASSUME drv.at = "idle", ~wire.irq, ~vq.broken, Decided, S!more_used
               PROVE  IF vq.event THEN wish < owed ELSE owed > 0
  BY DEF S!NoLostInterrupt, S!DriverRests, Decided
<1>2. /\ Ready \in Index /\ Wish \in Index /\ All \in Index /\ Ready <= All
      /\ Ready # 0 /\ owed = All - Ready
  BY <1>1, Offsets
<1>3. /\ Wish = 0 \/ Wish < All
      /\ IF vq.event THEN Ready <= Wish ELSE Ready = 0 \/ Ready < All
  BY <1>1 DEF IrqInv
<1>4. IdxMod \in Nat /\ used.idx \in Index /\ avail.used_event \in Index
      /\ vq.last_used_idx \in Index
  BY IndexesWrap DEF SplitShape, UsedRings, AvailRings, Queues
<1>5. Ready <= Wish => wish = Wish - Ready
  <2> DEFINE u == used.idx
             e == avail.used_event
             c == vq.last_used_idx
  <2>1. /\ Ready = IF u >= c THEN u - c ELSE u - c + IdxMod
        /\ Wish = IF e >= c THEN e - c ELSE e - c + IdxMod
        /\ wish = IF e >= u THEN e - u ELSE e - u + IdxMod
    BY <1>4, Differences, ZenonT(40) DEF Ready, Wish
  <2>2. IdxMod \in Nat /\ u \in 0 .. IdxMod - 1 /\ e \in 0 .. IdxMod - 1 /\ c \in 0 .. IdxMod - 1
    BY <1>4 DEF Index
  <2> HIDE DEF u, e, c, wish
  <2> QED
    BY <2>1, <2>2
<1> HIDE DEF owed, wish
<1> QED
  BY <1>2, <1>3, <1>5 DEF Index

-----------------------------------------------------------------------------
(* The theorems, about the queues that did not negotiate the packed layout *)

SplitInUse == packed_ring = FALSE /\ SplitInv

\* Nothing that the driver, the device, a failed add, a failed kick or a resize does
\* leads out of the invariant.
THEOREM SplitInvariance == ASSUME Layouts = {FALSE} PROVE Spec => []SplitInUse
<1>1. Init => SplitInUse
  BY SplitStart DEF Init, SplitInUse
<1>2. SplitInUse /\ [Next]_vars => SplitInUse'
  <2> SUFFICES ASSUME SplitInUse, [Next]_vars PROVE SplitInUse'
    OBVIOUS
  <2>1. CASE Next
    <3>1. S!SplitNext /\ packed_ring' = packed_ring
      BY <2>1 DEF Next, SplitInUse
    <3> QED
      BY <3>1, SplitStep DEF SplitInUse
  <2>2. CASE UNCHANGED vars
    BY <2>2, SplitStutter DEF SplitInUse, vars
  <2> QED
    BY <2>1, <2>2
<1> QED
  BY <1>1, <1>2, PTL DEF Spec

\* The indexes stay below 2^16, num_free within the ring, and what either side reads
\* from a ring is a slot of it, in every state of a queue of any size.
THEOREM RingsKeepTheirTypes == ASSUME Layouts = {FALSE} PROVE Spec => []RingTypeOK
<1>1. SplitInUse => RingTypeOK
  BY TypesFollow DEF SplitInUse, RingTypeOK
<1> QED
  BY <1>1, SplitInvariance, PTL

\* add, get_buf, detach_unused_buf, the unmapping of a failed add and resize never
\* lose a descriptor and never give one to two buffers, for every ring size, every
\* number of entries and every order of completion.
THEOREM DescriptorsAreConserved == ASSUME Layouts = {FALSE} PROVE Spec => []NothingLeaks
<1>1. SplitInUse => NothingLeaks
  BY ConservationFollows DEF SplitInUse, SplitInv, NothingLeaks
<1> QED
  BY <1>1, SplitInvariance, PTL

\* virtqueue_kick_prepare suppresses no doorbell that a sleeping device needs, by the
\* flag or by the event index, also where num_added and the indexes wrap around.
THEOREM NoKickGetsLost == ASSUME Layouts = {FALSE} PROVE Spec => []NoLostKick
<1>1. SplitInUse => NoLostKick
  BY NoKickIsLost DEF SplitInUse, SplitInv, NoLostKick
<1> QED
  BY <1>1, SplitInvariance, PTL

\* A driver that has enabled its callbacks, at once or delayed, and rests is told of
\* what the device uses, whatever interleaving of the two sides led there.
THEOREM NoInterruptGetsLost == ASSUME Layouts = {FALSE} PROVE Spec => []NoLostInterrupt
<1>1. SplitInUse => NoLostInterrupt
  BY NoInterruptIsLost DEF SplitInUse, SplitInv, NoLostInterrupt
<1> QED
  BY <1>1, SplitInvariance, PTL

-----------------------------------------------------------------------------
(* The ring implements the queue *)

LEMMA OrderExists ==
    ASSUME SplitInv, drv.at # "reset"
    PROVE  \E u, v, k \in Nat : \E q : Ordered(q, u, v, k)
<1>1. vq.num \in Nat
  BY SizesArePositive DEF SplitInv, SplitShape, Queues
<1> QED
  BY <1>1 DEF SplitInv, QueueInv

\* The used buffers that wait to be collected are the first in the order.
FirstAreUsed(q, u, v, k) ==
    /\ u <= v /\ v <= k /\ k <= vq.num
    /\ \A j \in 0 .. u - 1 : used.ring[(vq.last_used_idx + j) % vq.num] = q[j]
    /\ \A j \in 0 .. k - 1 : q[j] \in Heads(desc)
    /\ \A i, j \in 0 .. k - 1 : q[i] = q[j] => i = j
    /\ dev.taken = {q[j] : j \in u .. v - 1}
    /\ Ready = u
    /\ S!Uncollected = [j \in 1 .. u |-> desc[q[j - 1]].data]

LEMMA UsedInOrder ==
    ASSUME SplitInv, drv.at # "reset", NEW u \in Nat, NEW v \in Nat, NEW k \in Nat, NEW q,
           Ordered(q, u, v, k)
    PROVE  FirstAreUsed(q, u, v, k)
<1>1. SplitShape /\ PoolInv /\ QueueInv
  BY DEF SplitInv
<1>2. vq.num \in Nat /\ vq.last_used_idx \in Nat
  BY <1>1, SizesArePositive, IndexesWrap DEF SplitShape, Queues, Index
<1>6. Ready = u
  BY <1>1, OrderedFacts
<1>7. /\ u <= v /\ v <= k /\ k <= vq.num
      /\ \A j \in 0 .. u - 1 : used.ring[(vq.last_used_idx + j) % vq.num] = q[j]
      /\ q \in [0 .. k - 1 -> Heads(desc)] /\ IsInjective(q)
      /\ dev.taken = {q[j] : j \in u .. v - 1}
  BY DEF Ordered, InOrder
<1>8. /\ \A j \in 0 .. k - 1 : q[j] \in Heads(desc)
      /\ \A i, j \in 0 .. k - 1 : q[i] = q[j] => i = j
  BY <1>7 DEF IsInjective
<1>9. S!Uncollected = [j \in 1 .. u |-> desc[q[j - 1]].data]
  <2>1. S!Uncollected = [j \in 1 .. u |->
                            desc[used.ring[(vq.last_used_idx + j - 1) % vq.num]].data]
    BY <1>6 DEF S!Uncollected, Ready
  <2>2. ASSUME NEW j \in 1 .. u
        PROVE  used.ring[(vq.last_used_idx + j - 1) % vq.num] = q[j - 1]
    <3>1. j - 1 \in 0 .. u - 1 /\ vq.last_used_idx + j - 1 = vq.last_used_idx + (j - 1)
      BY <1>2
    <3> QED
      BY <1>7, <3>1
  <2> QED
    BY <2>1, <2>2
<1> QED
  BY <1>6, <1>7, <1>8, <1>9 DEF FirstAreUsed

LEMMA HeldIsData ==
    ASSUME SplitInv
    PROVE  /\ \A i \in Heads(desc) : desc[i].data \in Data
           /\ S!Held \subseteq Data /\ S!Held = {desc[i].data : i \in Heads(desc)}
           /\ \A i, j \in Heads(desc) : desc[i].data = desc[j].data => i = j
           /\ S!Uncollected \in Seq(Data)
           /\ Range(S!Uncollected) \subseteq S!Held
           /\ drv.at = "reset" => S!Uncollected = << >>
<1>1. S!Held = {desc[i].data : i \in Heads(desc)}
  BY DEF S!Held, S!HasData, Heads
<1>2. \A i \in Heads(desc) : desc[i].data \in Data
  BY PoolFacts DEF SplitInv, PoolInv, Descriptor, Heads
<1>3. drv.at = "reset" => S!Uncollected = << >>
  BY DEF S!Uncollected
<1>4. CASE drv.at = "reset"
  <2>1. S!Uncollected \in Seq(Data) /\ Range(S!Uncollected) = {}
    BY <1>3, <1>4 DEF Range
  <2> QED
    BY <1>1, <1>2, <1>3, <2>1 DEF SplitInv, DataDistinct
<1>5. CASE drv.at # "reset"
  <2>a. PICK u \in Nat, v \in Nat, k \in Nat : \E q : Ordered(q, u, v, k)
    BY <1>5, OrderExists
  <2>1. PICK q : Ordered(q, u, v, k)
    BY <2>a
  <2>o. FirstAreUsed(q, u, v, k)
    BY <1>5, <2>1, UsedInOrder
  <2>2. /\ u <= v /\ v <= k
        /\ \A j \in 0 .. k - 1 : q[j] \in Heads(desc)
        /\ S!Uncollected = [j \in 1 .. u |-> desc[q[j - 1]].data]
    BY <2>o DEF FirstAreUsed
  <2>3. \A j \in 1 .. u : desc[q[j - 1]].data \in S!Held
    <3>1. \A j \in 1 .. u : j - 1 \in 0 .. k - 1
      BY <2>2
    <3> QED
      BY <1>1, <2>2, <3>1
  <2>4. S!Held \subseteq Data
    BY <1>1, <1>2
  <2>5. S!Uncollected \in Seq(Data)
    BY <2>2, <2>3, <2>4
  <2>6. Range(S!Uncollected) \subseteq S!Held
    BY <2>2, <2>3 DEF Range
  <2> QED
    BY <1>1, <1>2, <1>3, <2>4, <2>5, <2>6 DEF SplitInv, DataDistinct
<1> QED
  BY <1>4, <1>5

LEMMA ViewKept ==
    ASSUME drv'.at = "reset" <=> drv.at = "reset", vq'.num = vq.num,
           vq'.last_used_idx = vq.last_used_idx, used'.idx = used.idx,
           used'.ring = used.ring, desc' = desc
    PROVE  S!Uncollected' = S!Uncollected /\ S!Held' = S!Held
  BY DEF S!Uncollected, S!Held, S!HasData

\* What is in the table is what the driver holds.
LEMMA HeldNext == S!Held' = {desc'[i].data : i \in Heads(desc')}
  BY DEF S!Held, S!HasData, Heads

LEMMA ReadyNext ==
    ASSUME SplitShape', NEW u \in Nat, NEW v \in Nat, NEW k \in Nat, NEW q,
           Ordered(q, u, v, k)'
    PROVE  Ready' = u
<1> DEFINE c == vq'.last_used_idx
           n == vq'.num
<1>1. c \in Index /\ n \in Sizes /\ n \in Nat
  BY SizesArePositive DEF SplitShape, Queues
<1>2. u <= n /\ used'.idx = (c + u) % IdxMod
  BY <1>1 DEF Ordered, InOrder
<1>3. (((c + u) % IdxMod) - c) % IdxMod = u
  BY <1>1, <1>2, CountOn
<1>4. Ready' = (used'.idx - c) % IdxMod
  BY DEF Ready
<1> QED
  BY <1>2, <1>3, <1>4

LEMMA AppendIs ==
    ASSUME NEW T, NEW s \in Seq(T), NEW d \in T
    PROVE  Append(s, d) = [j \in 1 .. Len(s) + 1 |-> IF j = Len(s) + 1 THEN d ELSE s[j]]
<1> DEFINE g == Append(s, d)
           m == Len(s)
           f == [j \in 1 .. m + 1 |-> IF j = m + 1 THEN d ELSE s[j]]
<1>1. g \in Seq(T) /\ Len(g) = m + 1 /\ g[m + 1] = d /\ \A j \in 1 .. m : g[j] = s[j]
  BY AppendProperties
<1>2. m \in Nat /\ \A j \in 1 .. m : s[j] \in T
  BY LenProperties, ElementOfSeq
<1>3. \A j \in 1 .. m + 1 : f[j] = (IF j = m + 1 THEN d ELSE s[j]) /\ f[j] \in T
  BY <1>2
<1>4. f \in Seq(T) /\ Len(f) = m + 1
  BY <1>2, <1>3
<1>5. \A j \in 1 .. m + 1 : f[j] = g[j]
  <2>1. \A j \in 1 .. m + 1 : j \in 1 .. m \/ j = m + 1
    BY <1>2
  <2> HIDE DEF f, g, m
  <2> QED
    BY <1>1, <1>3, <2>1
<1> HIDE DEF f, g, m
<1>6. f = g
  BY <1>1, <1>4, <1>5, SeqEqual
<1> QED
  BY <1>6 DEF f, g, m

\* add: one more buffer is held.
LEMMA AddPosts ==
    ASSUME SplitInv, SplitInv', NEW b \in Data, NEW sg \in 1 .. MaxSg, NEW ind \in BOOLEAN,
           S!Add(b, sg, ind)
    PROVE  b \notin S!Held /\ S!Uncollected' = S!Uncollected /\ S!Held' = S!Held \cup {b}
<1>1. /\ SplitShape /\ PoolInv /\ SplitShape'
      /\ drv.at = "drain" /\ drv'.at \in {"drain", "kick"}
      /\ UNCHANGED used /\ vq'.num = vq.num /\ vq'.last_used_idx = vq.last_used_idx
      /\ \A i \in DOMAIN desc : desc[i].data # b
  BY DEF S!Add, S!CanCall, SplitInv, SplitShape, Drivers, Queues
<1>2. /\ vq.free_head \notin Heads(desc)
      /\ Heads(desc') = Heads(desc) \cup {vq.free_head}
      /\ desc'[vq.free_head].data = b
      /\ \A i \in Heads(desc) : desc'[i].data = desc[i].data
  BY <1>1, AddTakesFromPool
<1>3. S!Held = {desc[i].data : i \in Heads(desc)} /\ S!Held' = {desc'[i].data : i \in Heads(desc')}
  BY HeldIsData, HeldNext
<1>4. b \notin S!Held
  BY <1>1, <1>3 DEF Heads
<1>5. S!Held' = S!Held \cup {b}
  BY <1>2, <1>3
<1>a. drv.at # "reset"
  BY <1>1
<1>6. PICK u \in Nat, v \in Nat, k \in Nat : \E q : Ordered(q, u, v, k)
  BY <1>a, OrderExists
<1>7. PICK q : Ordered(q, u, v, k)
  BY <1>6
<1>o. FirstAreUsed(q, u, v, k)
  BY <1>a, <1>7, UsedInOrder
<1>8. /\ u <= v /\ v <= k
      /\ \A j \in 0 .. u - 1 : used.ring[(vq.last_used_idx + j) % vq.num] = q[j]
      /\ \A j \in 0 .. k - 1 : q[j] \in Heads(desc)
      /\ S!Uncollected = [j \in 1 .. u |-> desc[q[j - 1]].data] /\ Ready = u
  BY <1>o DEF FirstAreUsed
<1>9. Ready' = u
  BY <1>1, <1>8 DEF Ready
<1>10. vq.last_used_idx \in Nat
  BY <1>1, IndexesWrap DEF SplitShape, Queues, Index
<1>11. S!Uncollected' = [j \in 1 .. u |->
          desc'[used.ring[(vq.last_used_idx + j - 1) % vq.num]].data]
  BY <1>1, <1>9 DEF S!Uncollected, Ready
<1>12. ASSUME NEW j \in 1 .. u
       PROVE  desc'[used.ring[(vq.last_used_idx + j - 1) % vq.num]].data = desc[q[j - 1]].data
  <2>1. /\ j - 1 \in 0 .. u - 1 /\ j - 1 \in 0 .. k - 1
        /\ vq.last_used_idx + j - 1 = vq.last_used_idx + (j - 1)
    BY <1>8, <1>10
  <2> QED
    BY <1>2, <1>8, <2>1
<1> QED
  BY <1>4, <1>5, <1>8, <1>11, <1>12

\* A failed add: nothing changes for the driver.
LEMMA FailedAddPostsNothing ==
    ASSUME SplitInv, NEW sg \in 1 .. MaxSg, NEW m \in 1 .. MaxSg, S!AddMapFails(sg, m)
    PROVE  S!Uncollected' = S!Uncollected /\ S!Held' = S!Held
<1>1. /\ SplitShape /\ PoolInv /\ drv.at = "drain" /\ UNCHANGED <<vq, drv, used>>
  BY DEF S!AddMapFails, S!CanCall, SplitInv
<1>2. /\ Heads(desc') = Heads(desc)
      /\ \A i \in Heads(desc) : desc'[i].data = desc[i].data
  BY <1>1, FailedAddMarks
<1>3. S!Held = {desc[i].data : i \in Heads(desc)} /\ S!Held' = {desc'[i].data : i \in Heads(desc')}
  BY HeldIsData, HeldNext
<1>5. S!Held' = S!Held
  BY <1>2, <1>3
<1>a. drv.at # "reset"
  BY <1>1
<1>6. PICK u \in Nat, v \in Nat, k \in Nat : \E q : Ordered(q, u, v, k)
  BY <1>a, OrderExists
<1>7. PICK q : Ordered(q, u, v, k)
  BY <1>6
<1>o. FirstAreUsed(q, u, v, k)
  BY <1>a, <1>7, UsedInOrder
<1>8. /\ u <= v /\ v <= k
      /\ \A j \in 0 .. u - 1 : used.ring[(vq.last_used_idx + j) % vq.num] = q[j]
      /\ \A j \in 0 .. k - 1 : q[j] \in Heads(desc)
      /\ S!Uncollected = [j \in 1 .. u |-> desc[q[j - 1]].data] /\ Ready = u
  BY <1>o DEF FirstAreUsed
<1>9. Ready' = u
  BY <1>1, <1>8 DEF Ready
<1>10. vq.last_used_idx \in Nat
  BY <1>1, IndexesWrap DEF SplitShape, Queues, Index
<1>11. S!Uncollected' = [j \in 1 .. u |->
          desc'[used.ring[(vq.last_used_idx + j - 1) % vq.num]].data]
  BY <1>1, <1>9 DEF S!Uncollected, Ready
<1>12. ASSUME NEW j \in 1 .. u
       PROVE  desc'[used.ring[(vq.last_used_idx + j - 1) % vq.num]].data = desc[q[j - 1]].data
  <2>1. /\ j - 1 \in 0 .. u - 1 /\ j - 1 \in 0 .. k - 1
        /\ vq.last_used_idx + j - 1 = vq.last_used_idx + (j - 1)
    BY <1>8, <1>10
  <2> QED
    BY <1>2, <1>8, <2>1
<1> QED
  BY <1>5, <1>8, <1>11, <1>12

\* The device uses a buffer: it is the last of the used ones.
LEMMA UseCompletes ==
    ASSUME SplitInv, SplitInv', NEW head \in dev.taken, S!DevUse(head)
    PROVE  /\ desc[head].data \in S!Held \ Range(S!Uncollected)
           /\ S!Uncollected' = Append(S!Uncollected, desc[head].data)
           /\ S!Held' = S!Held
<1>1. /\ SplitShape /\ PoolInv /\ SplitShape' /\ drv.at # "reset"
      /\ UNCHANGED <<vq, drv, desc>>
      /\ used'.ring = [used.ring EXCEPT ![used.idx % vq.num] = head]
  BY DEF S!DevUse, SplitInv, SplitShape, UsedRings
<1>2. PICK u \in Nat, v \in Nat, k \in Nat : \E q : Ordered(q, u, v, k)
  BY <1>1, OrderExists
<1>3. PICK q : Ordered(q, u, v, k)
  BY <1>2
<1>a. drv.at # "reset"
  BY <1>1
<1>o. FirstAreUsed(q, u, v, k)
  BY <1>a, <1>3, UsedInOrder
<1>4. /\ u <= v /\ v <= k /\ k <= vq.num
      /\ \A j \in 0 .. u - 1 : used.ring[(vq.last_used_idx + j) % vq.num] = q[j]
      /\ \A j \in 0 .. k - 1 : q[j] \in Heads(desc)
      /\ \A i, j \in 0 .. k - 1 : q[i] = q[j] => i = j
      /\ dev.taken = {q[j] : j \in u .. v - 1}
      /\ Ready = u
      /\ S!Uncollected = [j \in 1 .. u |-> desc[q[j - 1]].data]
  BY <1>o DEF FirstAreUsed
<1>5. /\ vq.num \in Nat \ {0} /\ vq.last_used_idx \in Nat
      /\ used.idx % vq.num = (vq.last_used_idx + u) % vq.num
      /\ used.ring \in [S!Slots(vq.num) -> S!Slots(vq.num)]
  BY <1>1, <1>3, OrderedFacts
<1>6. u < v /\ head \in Heads(desc) /\ \E q2 : Ordered(q2, u + 1, v, k)'
  BY <1>1, <1>3, OrderedUse
<1>7. Ready' = u + 1
  BY <1>1, <1>6, ReadyNext
<1>8. /\ \A i, j \in Heads(desc) : desc[i].data = desc[j].data => i = j
      /\ S!Held = {desc[i].data : i \in Heads(desc)}
  BY HeldIsData
<1>9. S!Held' = S!Held
  BY <1>1 DEF S!Held, S!HasData
<1>10. desc[head].data \notin Range(S!Uncollected)
  <2> SUFFICES ASSUME NEW j \in 1 .. u, desc[q[j - 1]].data = desc[head].data PROVE FALSE
    BY <1>4 DEF Range
  <2>1. PICK m \in u .. v - 1 : head = q[m]
    BY <1>4
  <2>2. j - 1 \in 0 .. k - 1 /\ m \in 0 .. k - 1 /\ j - 1 # m
    BY <1>4
  <2>3. q[j - 1] = q[m]
    BY <1>4, <1>8, <2>1, <2>2
  <2> QED
    BY <1>4, <2>2, <2>3
<1>11. S!Uncollected' = [j \in 1 .. u + 1 |->
          desc[used'.ring[(vq.last_used_idx + j - 1) % vq.num]].data]
  BY <1>1, <1>7 DEF S!Uncollected, Ready
<1> DEFINE n == vq.num
           c == vq.last_used_idx
<1>12. (c + u) % n \in S!Slots(n)
  <2>1. c + u \in Nat
    BY <1>5
  <2> HIDE DEF c, n
  <2> QED
    BY <1>5, <2>1 DEF S!Slots, n, c
<1>13. ASSUME NEW j \in 1 .. u
       PROVE  used'.ring[(c + j - 1) % n] = q[j - 1]
  <2> DEFINE m == j - 1
  <2>1. /\ m \in 0 .. u - 1 /\ m \in Nat /\ m < n /\ u < n /\ m # u
        /\ c + j - 1 = c + m
    BY <1>4, <1>5, <1>6
  <2> HIDE DEF m
  <2>2. (c + m) % n # (c + u) % n
    BY <1>5, <2>1, OtherPlace
  <2>3. (c + m) % n \in S!Slots(n)
    <3>1. c + m \in Nat
      BY <1>5, <2>1
    <3> HIDE DEF c, n
    <3> QED
      BY <1>5, <3>1 DEF S!Slots, n, c
  <2>4. used'.ring[(c + m) % n] = used.ring[(c + m) % n]
    BY <1>1, <1>5, <2>2, <2>3
  <2>5. used.ring[(c + m) % n] = q[m]
    BY <1>4, <2>1
  <2>6. used'.ring[(c + j - 1) % n] = used'.ring[(c + m) % n]
    BY <2>1
  <2> QED
    BY <2>4, <2>5, <2>6 DEF m
<1>14. used'.ring[(c + (u + 1) - 1) % n] = head
  <2>1. c + (u + 1) - 1 = c + u
    BY <1>5
  <2> QED
    BY <1>1, <1>5, <1>12, <2>1
<1>15. S!Uncollected' = Append(S!Uncollected, desc[head].data)
  <2> DEFINE old == [j \in 1 .. u |-> desc[q[j - 1]].data]
             new == [j \in 1 .. u + 1 |-> desc[used'.ring[(c + j - 1) % n]].data]
             d == desc[head].data
  <2>1. \A j \in 1 .. u : new[j] = old[j]
    BY <1>13
  <2>2. new[u + 1] = d
    BY <1>14
  <2>3. new = [j \in 1 .. u + 1 |-> IF j = u + 1 THEN d ELSE old[j]]
    <3>1. \A j \in 1 .. u + 1 : j \in 1 .. u \/ j = u + 1
      OBVIOUS
    <3>2. \A j \in 1 .. u + 1 : new[j] = IF j = u + 1 THEN d ELSE old[j]
      <4> HIDE DEF new, old, d
      <4> QED
        BY <2>1, <2>2, <3>1
    <3> QED
      BY <3>2, Zenon
  <2>4. old \in Seq(Data) /\ Len(old) = u
    BY <1>4, HeldIsData
  <2>5. d \in Data
    BY <1>6, HeldIsData
  <2>6. S!Uncollected = old /\ S!Uncollected' = new
    BY <1>4, <1>11
  <2> HIDE DEF new, old, d
  <2>7. Append(old, d) = [j \in 1 .. u + 1 |-> IF j = u + 1 THEN d ELSE old[j]]
    BY <2>4, <2>5, AppendIs
  <2> QED
    BY <2>3, <2>6, <2>7 DEF d
<1> QED
  BY <1>6, <1>8, <1>9, <1>10, <1>15

LEMMA TailIs ==
    ASSUME NEW T, NEW s \in Seq(T), s # << >>
    PROVE  /\ Tail(s) = [j \in 1 .. Len(s) - 1 |-> s[j + 1]]
           /\ Len(s) \in Nat /\ Len(s) > 0
<1> DEFINE g == Tail(s)
           m == Len(s) - 1
           f == [j \in 1 .. m |-> s[j + 1]]
<1>1. g \in Seq(T) /\ Len(g) = m /\ \A j \in 1 .. m : g[j] = s[j + 1]
  BY HeadTailProperties
<1>2. Len(s) \in Nat /\ Len(s) > 0 /\ m \in Nat
  BY EmptySeq, LenProperties
<1>3. \A j \in 1 .. m : f[j] = s[j + 1] /\ f[j] \in T
  <2>1. \A j \in 1 .. m : j + 1 \in 1 .. Len(s)
    BY <1>2
  <2> QED
    BY <2>1, ElementOfSeq
<1>4. f \in Seq(T) /\ Len(f) = m
  BY <1>2, <1>3
<1> HIDE DEF f, g, m
<1>5. f = g
  BY <1>1, <1>3, <1>4, SeqEqual
<1> QED
  BY <1>2, <1>5 DEF f, g, m

\* get_buf: the first of the used buffers is handed back.
LEMMA GetBufHandsBack ==
    ASSUME SplitInv, SplitInv', S!GetBuf
    PROVE  /\ S!Uncollected # << >>
           /\ S!Uncollected' = Tail(S!Uncollected)
           /\ S!Held' = S!Held \ {S!Uncollected[1]}
           /\ S!Uncollected[1] \notin Range(Tail(S!Uncollected))
<1>1. SplitShape /\ PoolInv /\ SplitShape' /\ drv.at = "drain" /\ drv' = drv
  BY DEF S!GetBuf, S!CanCall, SplitInv
<1>a. drv.at # "reset"
  BY <1>1
<1>2. PICK u \in Nat, v \in Nat, k \in Nat : \E q : Ordered(q, u, v, k)
  BY <1>a, OrderExists
<1>3. PICK q : Ordered(q, u, v, k)
  BY <1>2
<1>o. FirstAreUsed(q, u, v, k)
  BY <1>a, <1>3, UsedInOrder
<1>4. /\ u <= v /\ v <= k
      /\ \A j \in 0 .. u - 1 : used.ring[(vq.last_used_idx + j) % vq.num] = q[j]
      /\ \A j \in 0 .. k - 1 : q[j] \in Heads(desc)
      /\ \A i, j \in 0 .. k - 1 : q[i] = q[j] => i = j
      /\ S!Uncollected = [j \in 1 .. u |-> desc[q[j - 1]].data]
  BY <1>o DEF FirstAreUsed
<1>5. /\ u > 0
      /\ q[0] \in Heads(desc) /\ Heads(desc') = Heads(desc) \ {q[0]}
      /\ vq'.last_used_idx = (vq.last_used_idx + 1) % IdxMod /\ vq'.num = vq.num
      /\ \A i \in Heads(desc') : desc'[i].data = desc[i].data
      /\ UNCHANGED used
      /\ \E q2 : Ordered(q2, u - 1, v - 1, k - 1)'
  BY <1>1, <1>3, OrderedGetBuf
<1>6. u - 1 \in Nat /\ v - 1 \in Nat /\ k - 1 \in Nat
  BY <1>4, <1>5
<1>7. Ready' = u - 1
  BY <1>1, <1>5, <1>6, ReadyNext
<1>8. /\ \A i, j \in Heads(desc) : desc[i].data = desc[j].data => i = j
      /\ S!Held = {desc[i].data : i \in Heads(desc)}
      /\ S!Held' = {desc'[i].data : i \in Heads(desc')}
      /\ S!Uncollected \in Seq(Data)
  BY HeldIsData, HeldNext
<1>9. vq.last_used_idx \in Index /\ vq.last_used_idx \in Nat /\ vq.num \in Sizes
  BY <1>1, IndexesWrap DEF SplitShape, Queues, Index
<1> DEFINE n == vq.num
           c == vq.last_used_idx
           c2 == (c + 1) % IdxMod
           s == S!Uncollected
<1>10. ASSUME NEW j \in 1 .. u - 1
       PROVE  desc'[used.ring[(c2 + j - 1) % n]].data = desc[q[j]].data
  <2>1. j - 1 \in Nat /\ j \in 0 .. u - 1 /\ j \in 0 .. k - 1 /\ j # 0 /\ 0 \in 0 .. k - 1
    BY <1>4, <1>5
  <2>2. (c2 + (j - 1)) % n = (c + 1 + (j - 1)) % n
    BY <1>9, <2>1, CountOn
  <2>3. c + 1 + (j - 1) = c + j
    BY <1>9
  <2>4. c2 + (j - 1) = c2 + j - 1
    BY <1>9, IndexesWrap DEF Index
  <2>5. used.ring[(c2 + j - 1) % n] = q[j]
    BY <1>4, <2>1, <2>2, <2>3, <2>4
  <2>6. q[j] \in Heads(desc')
    BY <1>4, <1>5, <2>1
  <2> QED
    BY <1>5, <2>5, <2>6
<1>11. S!Uncollected' = [j \in 1 .. u - 1 |-> desc'[used.ring[(c2 + j - 1) % n]].data]
  BY <1>1, <1>5, <1>7 DEF S!Uncollected, Ready
<1>12. S!Uncollected' = [j \in 1 .. u - 1 |-> desc[q[j]].data]
  BY <1>10, <1>11
<1>13. Len(s) = u /\ s[1] = desc[q[0]].data /\ s # << >>
       /\ \A j \in 1 .. u - 1 : s[j + 1] = desc[q[j]].data
  <2>1. Len(s) = u
    BY <1>4
  <2>2. 1 \in 1 .. u
    BY <1>5
  <2>3. s[1] = desc[q[0]].data
    BY <1>4, <2>2
  <2>4. ASSUME NEW j \in 1 .. u - 1 PROVE s[j + 1] = desc[q[j]].data
    <3>1. j + 1 \in 1 .. u /\ (j + 1) - 1 = j
      OBVIOUS
    <3> QED
      BY <1>4, <3>1
  <2> QED
    BY <1>5, <2>1, <2>3, <2>4
<1>14. Tail(s) = [j \in 1 .. u - 1 |-> s[j + 1]]
  BY <1>8, <1>13, TailIs
<1>15. S!Uncollected' = Tail(s)
  BY <1>12, <1>13, <1>14
<1>16. S!Held' = S!Held \ {s[1]}
  <2>1. S!Held' = {desc[i].data : i \in Heads(desc) \ {q[0]}}
    BY <1>5, <1>8
  <2> QED
    BY <1>5, <1>8, <1>13, <2>1
<1>17. s[1] \notin Range(Tail(s))
  <2> SUFFICES ASSUME NEW j \in 1 .. u - 1, desc[q[j]].data = desc[q[0]].data PROVE FALSE
    BY <1>12, <1>13, <1>15 DEF Range
  <2>1. j \in 0 .. k - 1 /\ 0 \in 0 .. k - 1 /\ j # 0
    BY <1>4, <1>5
  <2>2. q[j] = q[0]
    BY <1>4, <1>8, <2>1
  <2> QED
    BY <1>4, <2>1, <2>2
<1> QED
  BY <1>13, <1>15, <1>16, <1>17

\* detach_unused_buf: one buffer less is held.
LEMMA DetachRecycles ==
    ASSUME SplitInv, SplitInv', S!DetachUnused
    PROVE  /\ S!Uncollected = << >> /\ S!Uncollected' = << >>
           /\ \E b \in S!Held : S!Held' = S!Held \ {b}
<1>1. SplitShape /\ PoolInv /\ drv.at = "reset" /\ drv' = drv
  BY DEF S!DetachUnused, SplitInv
<1>2. PICK head \in Heads(desc) : S!Detach(head, [vq EXCEPT !.last_used_idx = vq.last_used_idx])
  BY <1>1, DetachUnusedDetaches
<1>3. vq.last_used_idx \in Index
  BY <1>1 DEF SplitShape, Queues
<1>4. /\ Heads(desc') = Heads(desc) \ {head}
      /\ \A i \in Heads(desc') : desc'[i].data = desc[i].data
  BY <1>1, <1>2, <1>3, DetachReturnsToPool
<1>5. /\ \A i, j \in Heads(desc) : desc[i].data = desc[j].data => i = j
      /\ S!Held = {desc[i].data : i \in Heads(desc)}
      /\ S!Held' = {desc'[i].data : i \in Heads(desc')}
  BY HeldIsData, HeldNext
<1>6. S!Uncollected = << >> /\ S!Uncollected' = << >>
  BY <1>1 DEF S!Uncollected
<1>7. S!Held' = {desc[i].data : i \in Heads(desc) \ {head}}
  BY <1>4, <1>5
<1>8. S!Held' = S!Held \ {desc[head].data}
  BY <1>2, <1>5, <1>7
<1> QED
  BY <1>2, <1>5, <1>6, <1>8

\* The new ring is as empty as the old one.
LEMMA ResizeKeepsEmpty ==
    ASSUME SplitInv, SplitInv', S!ResizeSplit
    PROVE  S!Uncollected' = S!Uncollected /\ S!Held' = S!Held
<1>1. /\ SplitShape /\ PoolInv /\ drv.at = "reset" /\ drv.size \in Sizes
      /\ S!HasData = {}
  BY DEF S!ResizeSplit, S!ResizeEnd, SplitInv, SplitShape
<1>2. Heads(desc') = {}
  <2>1. drv.size \in Nat \ {0}
    BY <1>1, SizesArePositive
  <2>2. Heads(S!FreshDesc(drv.size)) = {}
    BY <2>1, PoolFresh
  <2> QED
    BY <1>1, <2>2 DEF S!ResizeSplit, S!HasData, Heads
<1>3. S!Held = {} /\ S!Held' = {}
  BY <1>1, <1>2, HeldNext DEF S!Held
<1>4. used'.idx = 0 /\ vq'.last_used_idx = 0
  <2>1. vq \in Queues
    BY <1>1 DEF SplitShape
  <2>2. vq'.last_used_idx = 0
    BY <2>1 DEF S!ResizeSplit, S!Reinit, Queues
  <2>3. used'.idx = 0
    BY DEF S!ResizeSplit, S!FreshUsed
  <2> QED
    BY <2>2, <2>3
<1>5. (0 - 0) % IdxMod = 0
  BY IndexesWrap, NoDifference
<1>6. S!Uncollected = << >>
  BY <1>1 DEF S!Uncollected
<1>7. S!Uncollected' = << >>
  <2>1. (used'.idx - vq'.last_used_idx) % IdxMod = 0
    BY <1>4, <1>5
  <2>2. 1 .. 0 = {}
    OBVIOUS
  <2> QED
    BY <2>1, <2>2 DEF S!Uncollected
<1> QED
  BY <1>3, <1>6, <1>7

\* What a step makes of the used buffers and of those that the driver holds.
LEMMA QueueSteps ==
    ASSUME SplitInv, SplitInv', S!SplitNext
    PROVE  \/ S!Uncollected' = S!Uncollected /\ S!Held' = S!Held
           \/ \E b \in Data : /\ b \notin S!Held /\ S!Uncollected' = S!Uncollected
                              /\ S!Held' = S!Held \cup {b}
           \/ \E b \in S!Held \ Range(S!Uncollected) :
                 S!Uncollected' = Append(S!Uncollected, b) /\ S!Held' = S!Held
           \/ /\ S!Uncollected # << >> /\ S!Uncollected' = Tail(S!Uncollected)
              /\ S!Held' = S!Held \ {S!Uncollected[1]}
              /\ S!Uncollected[1] \notin Range(Tail(S!Uncollected))
           \/ S!Uncollected' = << >> /\ S!Held' = S!Held
           \/ /\ S!Uncollected = << >> /\ S!Uncollected' = << >>
              /\ \E b \in S!Held : S!Held' = S!Held \ {b}
<1> DEFINE Same == S!Uncollected' = S!Uncollected /\ S!Held' = S!Held
<1>a. /\ vq \in Queues /\ drv \in Drivers
      /\ dev \in Devices(vq.num) /\ used \in UsedRings(vq.num)
      /\ SplitShape
      /\ drv.at = "reset" => dev.at = "off"
  BY DEF SplitInv, SplitShape
<1>1. ASSUME NEW sg \in 1 .. MaxSg, S!AddFull(sg) PROVE Same
  BY <1>1, ViewKept DEF S!AddFull
<1>2. ASSUME S!KickSplit PROVE Same
  <2>1. /\ drv.at # "reset" /\ drv'.at = "drain"
        /\ vq'.num = vq.num /\ vq'.last_used_idx = vq.last_used_idx
        /\ UNCHANGED <<desc, used>>
    BY <1>2, <1>a, KickSplitEffect DEF Queues, Drivers
  <2> QED
    BY <2>1, ViewKept
<1>3. ASSUME S!DisableCb PROVE Same
  BY <1>3, ViewKept DEF S!DisableCb
<1>4. ASSUME NEW to \in {"poll", "delayed"}, NEW e, S!Enable(to, e) PROVE Same
  <2>1. /\ drv.at = "drain" /\ drv' = [drv EXCEPT !.at = to]
        /\ vq' = [vq EXCEPT !.event_triggered = FALSE]
        /\ UNCHANGED <<desc, used>>
    BY <1>4, <1>a, EnableEffect
  <2>2. /\ drv.at # "reset" /\ drv'.at # "reset"
        /\ vq'.num = vq.num /\ vq'.last_used_idx = vq.last_used_idx
    BY <1>a, <2>1 DEF Queues, Drivers
  <2> QED
    BY <2>1, <2>2, ViewKept
<1>5. ASSUME S!Poll \/ S!PollDelayed \/ S!Leave PROVE Same
  <2>1. /\ drv.at # "reset" /\ drv'.at # "reset" /\ UNCHANGED <<vq, desc, used>>
    BY <1>5, <1>a DEF S!Poll, S!PollDelayed, S!Leave, S!CanStop, Drivers
  <2> QED
    BY <2>1, ViewKept
<1>6. ASSUME S!Enter \/ S!Interrupt(S!more_used), UNCHANGED <<desc, avail, used>>
      PROVE  Same
  <2>1. /\ drv'.at = "reset" <=> drv.at = "reset"
        /\ vq'.num = vq.num /\ vq'.last_used_idx = vq.last_used_idx
    <3>1. CASE S!Enter
      BY <3>1, <1>a DEF S!Enter, Drivers
    <3>2. CASE S!Interrupt(S!more_used)
      <4>1. vq'.num = vq.num /\ vq'.last_used_idx = vq.last_used_idx
        BY <3>2, <1>a, InterruptEffect DEF Queues
      <4>2. drv.at # "idle" => drv' = drv
        BY <3>2, <1>a, InterruptEffect
      <4>3. drv.at = "idle" => drv' = drv \/ drv' = [drv EXCEPT !.at = "drain"]
        BY <3>2, <1>a, InterruptEffect
      <4> QED
        BY <1>a, <4>1, <4>2, <4>3 DEF Drivers
    <3> QED
      BY <1>6, <3>1, <3>2
  <2> QED
    BY <1>6, <2>1, ViewKept
<1>7. ASSUME S!DevTake \/ S!DevEnable \/ S!DevRecheck \/ S!DevSignal PROVE Same
  <2>1. UNCHANGED <<vq, drv, desc>> /\ used'.idx = used.idx /\ used'.ring = used.ring
    BY <1>7, <1>a, RecheckEffect, SignalEffect DEF S!DevTake, S!DevEnable, UsedRings
  <2> QED
    BY <2>1, ViewKept
<1>8. ASSUME S!DevWake([dev EXCEPT !.at = "run"]), UNCHANGED <<desc, avail, used>>
      PROVE  Same
  BY <1>8, ViewKept DEF S!DevWake
<1>9. ASSUME S!ResizeStart(S!DeviceOff), UNCHANGED <<desc, avail, used>>
      PROVE  S!Uncollected' = << >> /\ S!Held' = S!Held
  <2>1. drv'.at = "reset"
    BY <1>9, <1>a DEF S!ResizeStart, Drivers
  <2> QED
    BY <1>9, <2>1 DEF S!Uncollected, S!Held, S!HasData
<1>10. CASE \E b \in Data, sg \in 1 .. MaxSg, ind \in BOOLEAN : S!Add(b, sg, ind)
  BY <1>10, AddPosts
<1>11. ASSUME NEW sg \in 1 .. MaxSg, NEW k \in 1 .. MaxSg, S!AddMapFails(sg, k) PROVE Same
  BY <1>11, FailedAddPostsNothing
<1>12. CASE S!GetBuf
  BY <1>12, GetBufHandsBack
<1>13. CASE S!DetachUnused
  BY <1>13, DetachRecycles
<1>14. CASE S!ResizeSplit
  BY <1>14, ResizeKeepsEmpty
<1>15. CASE \E head \in dev.taken : S!DevUse(head)
  <2>1. PICK head \in dev.taken : S!DevUse(head)
    BY <1>15
  <2> QED
    BY <2>1, UseCompletes
<1> QED
  BY <1>1, <1>2, <1>3, <1>4, <1>5, <1>6, <1>7, <1>8, <1>9, <1>10, <1>11, <1>12, <1>13,
     <1>14, <1>15
     DEF S!SplitNext, S!Driver, S!Device, S!EnableCb, S!EnableCbDelayed

\* A queue made of what is used and of what is held takes the abstract steps.
QueueOf(done, held) == [done |-> done, posted |-> held \ Range(done)]

LEMMA QueueFields ==
    ASSUME NEW d, NEW p, NEW r, r = [done |-> d, posted |-> p], NEW x
    PROVE  /\ [r EXCEPT !.posted = x] = [done |-> d, posted |-> x]
           /\ [r EXCEPT !.done = x] = [done |-> x, posted |-> p]
  OBVIOUS

LEMMA BuffersHeld ==
    ASSUME NEW done, NEW held, Range(done) \subseteq held
    PROVE  Queue!Buffers(QueueOf(done, held)) = held
<1>1. Queue!ToSet(done) = Range(done)
  BY DEF Queue!ToSet, Range
<1> QED
  BY <1>1 DEF Queue!Buffers, QueueOf

LEMMA QueuePosts ==
    ASSUME NEW done, NEW held, Range(done) \subseteq held, NEW b \in Data, b \notin held
    PROVE  QueueOf(done, held \cup {b}) \in Queue!Post(QueueOf(done, held))
<1> DEFINE q == QueueOf(done, held)
<1>1. QueueOf(done, held \cup {b}) = [q EXCEPT !.posted = q.posted \cup {b}]
  BY DEF QueueOf
<1>2. b \in Data \ Queue!Buffers(q)
  BY BuffersHeld
<1> QED
  BY <1>1, <1>2 DEF Queue!Post

LEMMA QueueCompletes ==
    ASSUME NEW done \in Seq(Data), NEW held \in SUBSET Data, Range(done) \subseteq held,
           NEW b \in held \ Range(done)
    PROVE  QueueOf(Append(done, b), held) \in Queue!Complete(QueueOf(done, held))
<1> DEFINE q == QueueOf(done, held)
           m == Len(done)
           s == Append(done, b)
<1>1. DOMAIN done = 1 .. m /\ m \in Nat
  BY LenProperties
<1>2. b \in Data
  OBVIOUS
<1>3. s = [j \in 1 .. m + 1 |-> IF j = m + 1 THEN b ELSE done[j]]
  BY <1>2, AppendIs
<1> HIDE DEF m, s
<1>4. Range(s) = Range(done) \cup {b}
  <2>1. \A j \in 1 .. m + 1 : j \in 1 .. m \/ j = m + 1
    BY <1>1
  <2>2. \A j \in 1 .. m : j \in 1 .. m + 1 /\ j # m + 1
    BY <1>1
  <2>3. m + 1 \in 1 .. m + 1
    BY <1>1
  <2> DEFINE w == m + 1
  <2> HIDE DEF w
  <2>4. /\ \A j \in 1 .. w : j \in 1 .. m \/ j = w
        /\ \A j \in 1 .. m : j \in 1 .. w /\ j # w
        /\ w \in 1 .. w /\ s = [j \in 1 .. w |-> IF j = w THEN b ELSE done[j]]
    BY <1>3, <2>1, <2>2, <2>3 DEF w
  <2> QED
    BY <1>1, <2>4 DEF Range
<1>5. QueueOf(s, held) = [posted |-> q.posted \ {b}, done |-> s]
  BY <1>4 DEF QueueOf
<1>6. b \in q.posted /\ q.done = done
  BY DEF QueueOf
<1> QED
  BY <1>5, <1>6 DEF Queue!Complete, s

LEMMA QueueHandsBack ==
    ASSUME NEW done \in Seq(Data), NEW held, done # << >>,
           done[1] \notin Range(Tail(done))
    PROVE  QueueOf(Tail(done), held \ {done[1]}) \in Queue!HandBack(QueueOf(done, held))
<1> DEFINE q == QueueOf(done, held)
           m == Len(done)
           s == Tail(done)
<1>1. DOMAIN done = 1 .. m /\ m \in Nat /\ m > 0
  BY LenProperties, TailIs
<1>2. s = [j \in 1 .. m - 1 |-> done[j + 1]]
  BY TailIs
<1> HIDE DEF m, s
<1>3. DOMAIN s = 1 .. m - 1 /\ \A j \in 1 .. m - 1 : s[j] = done[j + 1]
  BY <1>2
<1>4. ASSUME NEW j \in 1 .. m PROVE done[j] \in {done[1]} \cup Range(s)
  <2>1. CASE j = 1
    BY <2>1
  <2>2. CASE j # 1
    <3>1. j - 1 \in 1 .. m - 1 /\ (j - 1) + 1 = j
      BY <1>1, <2>2
    <3>2. s[j - 1] = done[j]
      BY <1>3, <3>1
    <3> QED
      BY <1>3, <3>1, <3>2 DEF Range
  <2> QED
    BY <2>1, <2>2
<1>5. ASSUME NEW j \in 1 .. m - 1 PROVE s[j] \in Range(done)
  <2>1. j + 1 \in 1 .. m
    BY <1>1
  <2>2. done[j + 1] \in Range(done)
    BY <1>1, <2>1 DEF Range
  <2> QED
    BY <1>3, <2>2
<1>6. done[1] \in Range(done)
  <2>1. 1 \in 1 .. m
    BY <1>1
  <2> QED
    BY <1>1, <2>1 DEF Range
<1>7. Range(done) = {done[1]} \cup Range(s)
  BY <1>1, <1>3, <1>4, <1>5, <1>6 DEF Range
<1>8. QueueOf(s, held \ {done[1]}) = [q EXCEPT !.done = s]
  <2>1. (held \ {done[1]}) \ Range(s) = held \ Range(done)
    BY <1>7
  <2>2. QueueOf(s, held \ {done[1]}) = [done |-> s, posted |-> held \ Range(done)]
    BY <2>1 DEF QueueOf
  <2>3. q = [done |-> done, posted |-> held \ Range(done)]
    BY DEF QueueOf
  <2> DEFINE p == held \ Range(done)
  <2> HIDE DEF q, p
  <2>4. [q EXCEPT !.done = s] = [done |-> s, posted |-> p]
    <3>1. q = [done |-> done, posted |-> p]
      BY <2>3 DEF p
    <3> QED
      BY <3>1, QueueFields
  <2> QED
    BY <2>2, <2>4, Zenon DEF p
<1>9. q.done = done
  BY DEF QueueOf
<1> QED
  BY <1>8, <1>9 DEF Queue!HandBack, s

LEMMA QueueForgets ==
    ASSUME NEW done, NEW held, Range(done) \subseteq held
    PROVE  QueueOf(<< >>, held) \in Queue!Forget(QueueOf(done, held))
<1>1. Range(<< >>) = {}
  BY DEF Range
<1>2. QueueOf(<< >>, held) = [posted |-> held, done |-> << >>]
  BY <1>1 DEF QueueOf
<1> QED
  BY <1>2, BuffersHeld DEF Queue!Forget

LEMMA QueueRecycles ==
    ASSUME NEW held, NEW b \in held
    PROVE  QueueOf(<< >>, held \ {b}) \in Queue!Recycle(QueueOf(<< >>, held))
<1> DEFINE q == QueueOf(<< >>, held)
<1>1. Range(<< >>) = {}
  BY DEF Range
<1>2. q = [done |-> << >>, posted |-> held]
  BY <1>1 DEF QueueOf
<1>3. QueueOf(<< >>, held \ {b}) = [done |-> << >>, posted |-> held \ {b}]
  BY <1>1 DEF QueueOf
<1> HIDE DEF q
<1>4. b \in q.posted
  BY <1>2
<1>5. QueueOf(<< >>, held \ {b}) = [q EXCEPT !.posted = q.posted \ {b}]
  <2> DEFINE p == held \ {b}
  <2>1. q.posted \ {b} = p
    BY <1>2
  <2> HIDE DEF p
  <2>2. [q EXCEPT !.posted = p] = [done |-> << >>, posted |-> p]
    BY <1>2, QueueFields
  <2> QED
    BY <1>3, <2>1, <2>2, Zenon DEF p
<1> QED
  BY <1>4, <1>5 DEF Queue!Recycle, q

\* The refinement, step by step.
LEMMA SplitStepRefines ==
    ASSUME SplitInv, SplitInv', S!SplitNext
    PROVE  LET q  == QueueOf(S!Uncollected, S!Held)
               q2 == QueueOf(S!Uncollected', S!Held')
           IN  q2 = q \/ q2 \in Queue!Steps(q)
<1> DEFINE done  == S!Uncollected
           held  == S!Held
           done2 == S!Uncollected'
           held2 == S!Held'
           q  == QueueOf(done, held)
           q2 == QueueOf(done2, held2)
<1>1. done \in Seq(Data) /\ held \in SUBSET Data /\ Range(done) \subseteq held
  BY HeldIsData
<1>2. \/ done2 = done /\ held2 = held
      \/ \E b \in Data : b \notin held /\ done2 = done /\ held2 = held \cup {b}
      \/ \E b \in held \ Range(done) : done2 = Append(done, b) /\ held2 = held
      \/ /\ done # << >> /\ done2 = Tail(done) /\ held2 = held \ {done[1]}
         /\ done[1] \notin Range(Tail(done))
      \/ done2 = << >> /\ held2 = held
      \/ done = << >> /\ done2 = << >> /\ \E b \in held : held2 = held \ {b}
  BY QueueSteps
<1> HIDE DEF done, held, done2, held2
<1>3. ASSUME NEW b \in Data, b \notin held, done2 = done, held2 = held \cup {b}
      PROVE  q2 \in Queue!Post(q)
  BY <1>1, <1>3, QueuePosts
<1>4. ASSUME NEW b \in held \ Range(done), done2 = Append(done, b), held2 = held
      PROVE  q2 \in Queue!Complete(q)
  BY <1>1, <1>4, QueueCompletes
<1>5. ASSUME done # << >>, done2 = Tail(done), held2 = held \ {done[1]},
             done[1] \notin Range(Tail(done))
      PROVE  q2 \in Queue!HandBack(q)
  BY <1>1, <1>5, QueueHandsBack
<1>6. ASSUME done2 = << >>, held2 = held PROVE q2 \in Queue!Forget(q)
  BY <1>1, <1>6, QueueForgets
<1>7. ASSUME done = << >>, done2 = << >>, NEW b \in held, held2 = held \ {b}
      PROVE  q2 \in Queue!Recycle(q)
  BY <1>7, QueueRecycles
<1>8. done2 = done /\ held2 = held => q2 = q
  OBVIOUS
<1> HIDE DEF q, q2
<1>9. q2 = q \/ q2 \in Queue!Steps(q)
  BY <1>2, <1>3, <1>4, <1>5, <1>6, <1>7, <1>8 DEF Queue!Steps
<1> QED
  BY <1>9 DEF q, q2, done, held, done2, held2

\* What the driver and the device see of a queue without the packed layout.
LEMMA QueueSeen ==
    ASSUME packed_ring = FALSE
    PROVE  (LET done == Uncollected IN [done |-> done, posted |-> Held \ Range(done)])
           = QueueOf(S!Uncollected, S!Held)
  BY DEF Uncollected, Held, QueueOf

LEMMA QueueSeenNext ==
    ASSUME packed_ring' = FALSE
    PROVE  (LET done == Uncollected IN [done |-> done, posted |-> Held \ Range(done)])'
           = QueueOf(S!Uncollected', S!Held')
  BY DEF Uncollected, Held, QueueOf

\* A new queue holds nothing.
LEMMA QueueStarts ==
    ASSUME Layouts = {FALSE}, Init
    PROVE  Queue!QueueInit
<1>1. packed_ring = FALSE /\ S!SplitInit
  BY DEF Init
<1>2. SplitInv
  BY <1>1, SplitStart
<1>3. PICK n \in Sizes, f \in Features :
         /\ vq = S!Vq(n, f)
         /\ desc = S!FreshDesc(n) /\ avail = S!FreshAvail(n) /\ used = S!FreshUsed(n)
  BY <1>1 DEF S!SplitInit
<1>4. used.idx = 0 /\ vq.last_used_idx = 0 /\ IdxMod \in Nat \ {0}
  BY <1>3, SizesFitIndexes DEF S!Vq, S!FreshUsed
<1>5. Ready = 0
  BY <1>4 DEF Ready
<1>6. S!Uncollected = << >>
  <2>1. CASE drv.at = "reset"
    BY <2>1 DEF S!Uncollected
  <2>2. CASE drv.at # "reset"
    <3>1. (used.idx - vq.last_used_idx) % IdxMod = 0
      BY <1>5 DEF Ready
    <3>2. S!Uncollected = [j \in 1 .. 0 |->
                              desc[used.ring[(vq.last_used_idx + j - 1) % vq.num]].data]
      BY <2>2, <3>1 DEF S!Uncollected
    <3>3. 1 .. 0 = {}
      OBVIOUS
    <3> QED
      BY <3>2, <3>3
  <2> QED
    BY <2>1, <2>2
<1>7. S!Held = {}
  <2>1. Heads(desc) = {}
    BY <1>3, PoolFresh, SizesFitIndexes
  <2> QED
    BY <1>2, <2>1, HeldIsData
<1>8. QueueOf(<< >>, {}) = [posted |-> {}, done |-> << >>]
  BY DEF QueueOf
<1> QED
  BY <1>1, <1>6, <1>7, <1>8, QueueSeen DEF Queue!QueueInit

\* Every step of a ring, taken where the invariant holds, is a step of the queue.
LEMMA QueueGoesOn ==
    ASSUME SplitInUse, SplitInUse', [Next]_vars
    PROVE  [Queue!QueueNext]_(LET done == Uncollected
                              IN [done |-> done, posted |-> Held \ Range(done)])
<1> DEFINE seen  == LET done == Uncollected IN [done |-> done, posted |-> Held \ Range(done)]
<1>1. /\ seen = QueueOf(S!Uncollected, S!Held)
      /\ seen' = QueueOf(S!Uncollected', S!Held')
  BY QueueSeen, QueueSeenNext DEF SplitInUse
<1>2. CASE S!SplitNext
  <2>1. seen' = seen \/ seen' \in Queue!Steps(seen)
    BY <1>1, <1>2, SplitStepRefines DEF SplitInUse
  <2> QED
    BY <2>1 DEF Queue!QueueNext
<1>3. CASE UNCHANGED vars
  <2>1. S!Uncollected' = S!Uncollected /\ S!Held' = S!Held
    BY <1>3, ViewKept DEF vars
  <2> QED
    BY <1>1, <2>1
<1> QED
  BY <1>2, <1>3 DEF Next, SplitInUse

\* A buffer that is added comes back exactly once, after the device has used it and
\* in the order of completion; only a reset hands it back unused
\* (virtqueue_add_split, virtqueue_get_buf_ctx_split, virtqueue_detach_unused_buf_split).
THEOREM RingImplementsQueue == ASSUME Layouts = {FALSE} PROVE Spec => ImplementsQueue
<1>1. Init => Queue!QueueInit
  BY QueueStarts
<1>2. SplitInUse /\ SplitInUse' /\ [Next]_vars
      => [Queue!QueueNext]_(LET done == Uncollected
                            IN [done |-> done, posted |-> Held \ Range(done)])
  BY QueueGoesOn
<1>3. Spec => []SplitInUse
  BY SplitInvariance
<1> QED
  BY <1>1, <1>2, <1>3, PTL DEF Spec, ImplementsQueue, Queue!QueueSpec
=============================================================================
