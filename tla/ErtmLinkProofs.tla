--------------------------- MODULE ErtmLinkProofs ----------------------------
(***************************************************************************)
(* Both ends of the enhanced retransmission mode and the frames between    *)
(* them: with a window of at most half of the sequence numbers the ends    *)
(* implement the reliable link, whatever is lost, repeated or late.        *)
(***************************************************************************)
EXTENDS ErtmProofs

-----------------------------------------------------------------------------
(* The inductive invariant *)

\* The number of the unit after the n'th.
Nth(n) == (First + n) % Modulus

\* Units that were acknowledged, and units that were sent at least once.
Forgotten(c) == c.sent - Len(c.tx_q)
Newest(c)    == Forgotten(c) + c.unacked

\* Numbers of sent units are those of their places.
TxExact(c) ==
    /\ Forgotten(c) \in Nat
    /\ c.expected_ack_seq = Nth(Forgotten(c))
    /\ \A i \in DOMAIN c.tx_q : c.tx_q[i].sdu = Forgotten(c) + i
    /\ \A i \in 1 .. c.head : c.tx_q[i].txseq = Nth(Forgotten(c) + i - 1)

InOrder(got) == \A i \in DOMAIN got : got[i] = i

\* The number of the unit that the socket is to get next, and what is stored behind it.
RxExact(c) ==
    /\ c.buffer_seq = Nth(Len(c.got))
    /\ \A f \in c.srej_q : f.sdu = Len(c.got) + offset(f.txseq, c.buffer_seq) + 1

\* How far what a frame acknowledges, or rejects, is from what the other end knows to have
\* arrived.
Ahead(p, f) == offset(f.reqseq, Nth(p.base))

\* A frame that was sent by an end which has sent units up to top and whose socket has got
\* g: a unit is not a window behind any that the other end has.
Fair(p, top, g, f) ==
    /\ f.super = "I" => /\ f.sdu \in 1 .. top /\ f.txseq = Nth(f.sdu - 1)
                        /\ \A u \in p.units : u < f.sdu + TxWin
    /\ f.super = "SREJ" => ~f.poll /\ p.base + Ahead(p, f) < p.newest
    /\ f.super # "SREJ" => p.base + Ahead(p, f) <= g

\* A frame e that was sent before f: the unit of f is not a window behind that of e, and
\* what e acknowledges is not beyond what f acknowledges or rejects.
Before(p, e, f) ==
    /\ e.super = "I" /\ f.super = "I" => e.sdu < f.sdu + TxWin
    /\ e.super # "SREJ" => Ahead(p, e) <= Ahead(p, f)

Lane(p, top, g, l) ==
    /\ \A i \in DOMAIN l : Fair(p, top, g, l[i])
    /\ \A i, j \in DOMAIN l : j < i => Before(p, l[j], l[i])

Flow(p, c) ==
    /\ RxExact(c)
    /\ \A b \in p.caps : Len(c.got) <= b /\ \A f \in c.srej_q : f.sdu <= b
    /\ p.top <= Newest(c) /\ \A u \in p.units : u <= Newest(c)
    /\ Lane(p, Newest(c), Len(c.got), p.link \o c.out)

EndExact(p, c) ==
    /\ TxExact(c) /\ InOrder(c.got) /\ c.sent = p.sent
    /\ p.base <= Len(c.got) /\ p.got <= Len(c.got) /\ Len(c.got) <= p.newest
    /\ p.from <= Forgotten(c) /\ \A b \in p.acks : Forgotten(c) <= b

Exact(p, c) == EndExact(p, c) /\ (c.up => Flow(p, c))

\* What an end relies on while a handler runs: the frames on its link when it began; the
\* units that the other end knows to have arrived, those it has sent, those it has got or
\* stored; limits to what this end may get and to what may be acknowledged; the units that
\* it was given, that were acknowledged and that its socket had got when it began.
Places ==
    {p \in [link : Seq(Frame), base : Nat, newest : Nat, units : SUBSET Nat, caps : SUBSET Nat,
            acks : SUBSET Nat, top : Nat, sent : Nat, from : Nat, got : Nat] :
        p.newest \in p.caps /\ p.newest <= p.base + TxWin}

Sound(p, c) == Good(FALSE, c) /\ Exact(p, c)

-----------------------------------------------------------------------------
(* Numbers of units *)

LEMMA Remainders ==
    ASSUME NEW M \in {2, 4, 8, 16, 32, 64}, NEW a \in Int, NEW b \in Int
    PROVE  /\ ((a % M) + b) % M = (a + b) % M
           /\ ((a % M) - (b % M)) % M = (a - b) % M
           /\ 0 <= a /\ a < M => a % M = a
<1>1. CASE M = 2  BY <1>1
<1>2. CASE M = 4  BY <1>2
<1>3. CASE M = 8  BY <1>3
<1>4. CASE M = 16  BY <1>4
<1>5. CASE M = 32  BY <1>5
<1>6. CASE M = 64  BY <1>6
<1> QED
  BY <1>1, <1>2, <1>3, <1>4, <1>5, <1>6

LEMMA Nths ==
    ASSUME NEW n \in Nat
    PROVE  /\ Nth(n) \in Number /\ n + 1 \in Nat
           /\ \A k \in Nat : (Nth(n) + k) % Modulus = Nth(n + k)
           /\ next(Nth(n)) = Nth(n + 1)
           /\ \A m \in Nat : n <= m /\ m < n + Modulus => offset(Nth(m), Nth(n)) = m - n
           /\ \A x \in Number : x = Nth(n + offset(x, Nth(n)))
<1>1. Modulus \in {2, 4, 8, 16, 32, 64} /\ First \in Nat /\ First + n \in Int
  BY WindowFits, BoundsAreNumbers
<1>2. Nth(n) \in Number
  BY <1>1, Numbers DEF Nth
<1>3. ASSUME NEW k \in Nat PROVE (Nth(n) + k) % Modulus = Nth(n + k)
  <2>1. (((First + n) % Modulus) + k) % Modulus = (First + n + k) % Modulus
    BY <1>1, Remainders, SMTT(30)
  <2>2. First + n + k = First + (n + k)
    BY <1>1
  <2> QED
    BY <2>1, <2>2 DEF Nth
<1>4. ASSUME NEW m \in Nat, n <= m, m < n + Modulus PROVE offset(Nth(m), Nth(n)) = m - n
  <2>1. First + m \in Int /\ First + m - (First + n) = m - n /\ m - n \in Int
        /\ 0 <= m - n /\ m - n < Modulus
    BY <1>1, <1>4
  <2>2. (((First + m) % Modulus) - ((First + n) % Modulus)) % Modulus = (First + m - (First + n)) % Modulus
    BY <1>1, <2>1, Remainders
  <2>3. (m - n) % Modulus = m - n
    BY <1>1, <2>1, Remainders
  <2>4. offset(Nth(m), Nth(n)) = (((First + m) % Modulus) - ((First + n) % Modulus)) % Modulus
    BY DEF Nth, offset
  <2>5. (First + m - (First + n)) % Modulus = (m - n) % Modulus
    BY <2>1
  <2> QED
    BY <2>2, <2>3, <2>4, <2>5
<1>5. ASSUME NEW x \in Number PROVE x = Nth(n + offset(x, Nth(n)))
  <2> DEFINE k == offset(x, Nth(n))
  <2>1. k \in Number
    BY <1>2, OffsetIs
  <2>2. offset((Nth(n) + k) % Modulus, Nth(n)) = k /\ (Nth(n) + k) % Modulus \in Number
    BY <1>2, <2>1, PlusOffset, PlusIs
  <2>3. (Nth(n) + k) % Modulus = x
    BY <1>2, <2>2, OffsetsAdd
  <2>4. k \in Nat
    BY <2>1, Numbers
  <2> HIDE DEF k
  <2>5. (Nth(n) + k) % Modulus = Nth(n + k)
    BY <2>4, <1>3
  <2> QED
    BY <2>3, <2>5 DEF k
<1>6. next(Nth(n)) = Nth(n + 1)
  BY <1>3 DEF next
<1> QED
  BY <1>2, <1>3, <1>4, <1>5, <1>6

-----------------------------------------------------------------------------
(* Frames that are sent *)

LEMMA PlaceFields ==
    ASSUME NEW p \in Places
    PROVE  /\ p.link \in Seq(Frame) /\ p.base \in Nat /\ p.newest \in Nat /\ p.units \in SUBSET Nat
           /\ p.caps \in SUBSET Nat /\ p.acks \in SUBSET Nat /\ p.sent \in Nat
           /\ p.top \in Nat /\ p.from \in Nat /\ p.got \in Nat
           /\ p.newest \in p.caps /\ p.newest <= p.base + TxWin
  BY DEF Places

\* A frame that an end sends as it stands.
Fresh(p, top, g, f) ==
    /\ f.super = "I" => f.sdu \in 1 .. top /\ f.txseq = Nth(f.sdu - 1) /\ top < f.sdu + TxWin
    /\ f.super # "SREJ" => f.reqseq = Nth(g)
    /\ f.super = "SREJ" => ~f.poll /\ \E x \in Nat : g <= x /\ x < p.newest /\ f.reqseq = Nth(x)

\* What the end has got is within a window of what the other end knows.
Near(p, g) == g \in Nat /\ p.base <= g /\ g <= p.newest

LEMMA FreshAhead ==
    ASSUME NEW p \in Places, NEW top \in Int, NEW g, Near(p, g), NEW f \in Frame,
           Fresh(p, top, g, f)
    PROVE  /\ Ahead(p, f) \in Nat /\ g <= p.base + Ahead(p, f)
           /\ f.super # "SREJ" => p.base + Ahead(p, f) = g
           /\ f.super = "SREJ" => p.base + Ahead(p, f) < p.newest
<1>1. /\ p.base \in Nat /\ p.newest \in Nat /\ p.newest <= p.base + TxWin
      /\ TxWin \in Nat /\ Modulus \in Nat /\ TxWin < Modulus
      /\ g \in Nat /\ p.base <= g /\ g <= p.newest
  BY PlaceFields, Numbers DEF Near
<1>2. \A x \in Nat : p.base <= x /\ x <= p.newest => offset(Nth(x), Nth(p.base)) = x - p.base
  <2> TAKE x \in Nat
  <2> HAVE p.base <= x /\ x <= p.newest
  <2>1. x < p.base + Modulus
    BY <1>1
  <2> QED
    BY <1>1, <2>1, Nths
<1>3. CASE f.super # "SREJ"
  <2>1. Ahead(p, f) = g - p.base
    BY <1>1, <1>2, <1>3 DEF Fresh, Ahead
  <2> QED
    BY <1>1, <1>3, <2>1
<1>4. CASE f.super = "SREJ"
  <2>1. PICK x \in Nat : g <= x /\ x < p.newest /\ f.reqseq = Nth(x)
    BY <1>4 DEF Fresh
  <2>2. Ahead(p, f) = x - p.base
    <3>1. p.base <= x /\ x <= p.newest
      BY <1>1, <2>1
    <3> QED
      BY <1>2, <2>1, <3>1 DEF Ahead
  <2> QED
    BY <1>1, <1>4, <2>1, <2>2
<1> QED
  BY <1>3, <1>4

LEMMA FrameAhead ==
    ASSUME NEW p \in Places, NEW f \in Frame
    PROVE  /\ Ahead(p, f) \in Nat /\ f.sdu \in Nat /\ f.super \in {"I", "RR", "RNR", "SREJ"}
           /\ f.txseq \in Number /\ f.reqseq \in Number /\ f.poll \in BOOLEAN
<1>1. f.reqseq \in Number /\ p.base \in Nat
  BY PlaceFields DEF Frame
<1>2. Ahead(p, f) \in Nat
  BY <1>1, Nths, OffsetIs, Numbers DEF Ahead
<1> QED
  BY <1>2 DEF Frame

\* What was fair stays fair when the end sends and gets more.
LEMMA FairLater ==
    ASSUME NEW p \in Places, NEW top \in Int, NEW top2 \in Int, top <= top2,
           NEW g \in Nat, NEW g2 \in Nat, g <= g2, NEW f \in Frame, Fair(p, top, g, f)
    PROVE  Fair(p, top2, g2, f)
<1>1. p.base \in Nat /\ Ahead(p, f) \in Nat /\ f.sdu \in Nat
  BY PlaceFields, FrameAhead
<1> QED
  BY <1>1 DEF Fair

LEMMA FreshFair ==
    ASSUME NEW p \in Places, NEW top \in Int, \A u \in p.units : u <= top,
           NEW g, Near(p, g), NEW f \in Frame, Fresh(p, top, g, f)
    PROVE  Fair(p, top, g, f)
<1>1. /\ f.super # "SREJ" => p.base + Ahead(p, f) = g
      /\ f.super = "SREJ" => p.base + Ahead(p, f) < p.newest
  BY FreshAhead
<1>2. p.units \in SUBSET Nat /\ TxWin \in Nat /\ g \in Nat /\ f.sdu \in Nat
  BY PlaceFields, Numbers, FrameAhead DEF Near
<1>3. f.super = "I" => \A u \in p.units : u < f.sdu + TxWin
  BY <1>2 DEF Fresh
<1> QED
  BY <1>1, <1>2, <1>3 DEF Fair, Fresh

LEMMA FreshLast ==
    ASSUME NEW p \in Places, NEW top \in Int, NEW top2 \in Int, top <= top2,
           NEW g \in Nat, NEW g2, Near(p, g2), g <= g2,
           NEW e \in Frame, Fair(p, top, g, e) \/ Fresh(p, top2, g2, e),
           NEW f \in Frame, Fresh(p, top2, g2, f)
    PROVE  Before(p, e, f)
<1>1. /\ Ahead(p, f) \in Nat /\ Ahead(p, e) \in Nat /\ p.base \in Nat /\ g2 \in Nat /\ TxWin \in Nat
      /\ e.sdu \in Nat /\ f.sdu \in Nat
  BY PlaceFields, FrameAhead, Numbers DEF Near
<1>2. g2 <= p.base + Ahead(p, f)
  BY FreshAhead
<1>3. e.super = "I" => e.sdu <= top2
  BY <1>1 DEF Fair, Fresh
<1>4. e.super # "SREJ" => p.base + Ahead(p, e) <= g2
  BY <1>1, FreshAhead DEF Fair
<1>5. f.super = "I" => top2 < f.sdu + TxWin
  BY DEF Fresh
<1> QED
  BY <1>1, <1>2, <1>3, <1>4, <1>5 DEF Before

LEMMA LaneGrows ==
    ASSUME NEW p \in Places, NEW top \in Int, NEW top2 \in Int, top <= top2,
           \A u \in p.units : u <= top2, NEW g \in Nat, NEW g2, Near(p, g2), g <= g2,
           NEW l \in Seq(Frame), Lane(p, top, g, l), NEW new \in Seq(Frame),
           \A i \in DOMAIN new : Fresh(p, top2, g2, new[i])
    PROVE  Lane(p, top2, g2, l \o new)
<1> DEFINE n == Len(l)
           a == l \o new
<1>1. /\ n \in Nat /\ a \in Seq(Frame) /\ DOMAIN l = 1 .. n /\ DOMAIN a \subseteq Nat
      /\ \A i \in DOMAIN a : i <= n => i \in DOMAIN l /\ a[i] = l[i]
      /\ \A i \in DOMAIN a : i > n => i - n \in DOMAIN new /\ a[i] = new[i - n]
      /\ \A i \in DOMAIN a : a[i] \in Frame
  OBVIOUS
<1> HIDE DEF n, a
<1>2. g2 \in Nat
  BY DEF Near
<1>3. \A i \in DOMAIN a : \/ i <= n /\ Fair(p, top, g, a[i])
                          \/ i > n /\ Fresh(p, top2, g2, a[i])
  BY <1>1 DEF Lane
<1>4. ASSUME NEW i \in DOMAIN a PROVE Fair(p, top2, g2, a[i])
  BY <1>1, <1>2, <1>3, FairLater, FreshFair
<1>5. ASSUME NEW i \in DOMAIN a, NEW j \in DOMAIN a, j < i PROVE Before(p, a[j], a[i])
  <2>1. CASE i <= n
    <3>1. j <= n
      BY <1>1, <1>5, <2>1
    <3> QED
      BY <1>1, <1>5, <2>1, <3>1 DEF Lane
  <2>2. CASE i > n
    <3>1. Fresh(p, top2, g2, a[i]) /\ a[i] \in Frame /\ a[j] \in Frame
      BY <1>1, <1>3, <2>2
    <3>2. Fair(p, top, g, a[j]) \/ Fresh(p, top2, g2, a[j])
      BY <1>3
    <3> QED
      BY <3>1, <3>2, FreshLast
  <2> QED
    BY <1>1, <2>1, <2>2
<1> QED
  BY <1>4, <1>5 DEF Lane, a

\* d differs from c in nothing that Exact looks at, but for what it has sent.
Alike(c, d) ==
    /\ d.sent = c.sent /\ d.expected_ack_seq = c.expected_ack_seq
    /\ d.head = c.head /\ d.unacked = c.unacked /\ Len(d.tx_q) = Len(c.tx_q)
    /\ \A i \in DOMAIN c.tx_q : d.tx_q[i].sdu = c.tx_q[i].sdu /\ d.tx_q[i].txseq = c.tx_q[i].txseq
    /\ d.buffer_seq = c.buffer_seq /\ d.srej_q = c.srej_q /\ d.got = c.got
    /\ d.up => c.up

LEMMA AlikeExact ==
    ASSUME NEW c \in Chan, NEW d \in Chan, Alike(c, d)
    PROVE  /\ Forgotten(d) = Forgotten(c) /\ Newest(d) = Newest(c)
           /\ TxInv(c) /\ TxExact(c) => TxExact(d)
           /\ RxExact(c) => RxExact(d)
           /\ \A p : TxInv(c) /\ EndExact(p, c) => EndExact(p, d)
<1>1. DOMAIN d.tx_q = DOMAIN c.tx_q /\ DOMAIN c.tx_q = 1 .. Len(c.tx_q) /\ Len(c.tx_q) \in Nat
      /\ c.head \in Nat
  BY ChanNumbers DEF Alike
<1>2. Forgotten(d) = Forgotten(c) /\ Newest(d) = Newest(c)
  BY DEF Alike, Forgotten, Newest
<1>3. ASSUME TxInv(c), TxExact(c) PROVE TxExact(d)
  <2>1. \A i \in 1 .. c.head : i \in DOMAIN c.tx_q
    BY <1>1, <1>3 DEF TxInv
  <2> QED
    BY <1>1, <1>2, <1>3, <2>1 DEF Alike, TxExact
<1>4. RxExact(c) => RxExact(d)
  BY DEF Alike, RxExact
<1>5. \A p : TxInv(c) /\ EndExact(p, c) => EndExact(p, d)
  BY <1>2, <1>3 DEF EndExact, Alike
<1> QED
  BY <1>2, <1>3, <1>4, <1>5

LEMMA NearIs ==
    ASSUME NEW p \in Places, NEW c \in Chan, EndExact(p, c), Flow(p, c)
    PROVE  /\ Near(p, Len(c.got)) /\ Len(c.got) \in Nat /\ Newest(c) \in Nat
           /\ Forgotten(c) \in Nat /\ Newest(c) = Forgotten(c) + c.unacked
<1>1. c.got \in Seq(Nat) /\ c.unacked \in Nat
  BY ChanNumbers
<1>2. p.newest \in p.caps
  BY PlaceFields
<1> QED
  BY <1>1, <1>2 DEF EndExact, Flow, Near, TxExact, Newest

LEMMA LinkGrows ==
    ASSUME NEW l \in Seq(Frame), NEW out \in Seq(Frame), NEW new \in Seq(Frame)
    PROVE  /\ l \o (out \o new) = (l \o out) \o new
           /\ l \o out \in Seq(Frame) /\ out \o <<>> = out
           /\ \A f \in Frame : Append(out, f) = out \o <<f>> /\ <<f>> \in Seq(Frame)
                               /\ DOMAIN <<f>> = {1} /\ <<f>>[1] = f
<1>1. l \o (out \o new) = (l \o out) \o new
  BY ConcatAssociative
<1>2. \A f \in Frame : Append(out, f) = out \o <<f>> /\ <<f>> \in Seq(Frame)
                       /\ DOMAIN <<f>> = {1} /\ <<f>>[1] = f
  BY AppendIsConcat
<1>3. l \o out \in Seq(Frame) /\ out \o <<>> = out
  OBVIOUS
<1> QED
  BY <1>1, <1>2, <1>3

\* Sending new frames and nothing else.
LEMMA Emits ==
    ASSUME NEW p \in Places, NEW c \in Chan, TxInv(c), Exact(p, c), NEW d \in Chan, Alike(c, d),
           NEW new \in Seq(Frame), d.out = c.out \o new,
           d.up => \A i \in DOMAIN new : Fresh(p, Newest(c), Len(c.got), new[i])
    PROVE  Exact(p, d)
<1>1. EndExact(p, d)
  BY AlikeExact DEF Exact
<1>2. ASSUME d.up PROVE Flow(p, d)
  <2>1. EndExact(p, c) /\ Flow(p, c)
    BY <1>2 DEF Exact, Alike
  <2>2. RxExact(d) /\ Newest(d) = Newest(c) /\ d.got = c.got /\ d.srej_q = c.srej_q
    BY <2>1, AlikeExact DEF Flow, Alike
  <2>3. /\ Near(p, Len(c.got)) /\ Len(c.got) \in Nat /\ Newest(c) \in Int /\ Newest(c) <= Newest(c)
        /\ Len(c.got) <= Len(c.got)
    BY <2>1, NearIs
  <2>4. p.link \in Seq(Frame) /\ c.out \in Seq(Frame)
    BY PlaceFields, ChanNumbers
  <2>5. p.link \o c.out \in Seq(Frame) /\ p.link \o d.out = (p.link \o c.out) \o new
    <3>1. p.link \o (c.out \o new) = (p.link \o c.out) \o new
      <4> DEFINE sent == p.link
                 out == c.out
      <4>1. sent \in Seq(Frame) /\ out \in Seq(Frame)
        BY <2>4
      <4> HIDE DEF sent, out
      <4>2. sent \o (out \o new) = (sent \o out) \o new
        BY <4>1, LinkGrows
      <4> QED
        BY <4>2 DEF sent, out
    <3>2. p.link \o c.out \in Seq(Frame)
      BY <2>4
    <3> QED
      BY <3>1, <3>2
  <2> DEFINE l == p.link \o c.out
             top == Newest(c)
             g == Len(c.got)
  <2>6. /\ l \in Seq(Frame) /\ Lane(p, top, g, l) /\ \A u \in p.units : u <= top
        /\ \A i \in DOMAIN new : Fresh(p, top, g, new[i])
        /\ Near(p, g) /\ g \in Nat /\ top \in Int /\ top <= top /\ g <= g
    BY <1>2, <2>1, <2>3, <2>5 DEF Flow
  <2> HIDE DEF l, top, g
  <2>7. Lane(p, top, g, l \o new)
    BY <2>6, LaneGrows
  <2> QED
    BY <2>1, <2>2, <2>5, <2>7 DEF Flow, l, top, g
<1> QED
  BY <1>1, <1>2 DEF Exact

LEMMA Stays ==
    ASSUME NEW p \in Places, NEW c \in Chan, TxInv(c), Exact(p, c), NEW d \in Chan, Alike(c, d),
           d.out = c.out
    PROVE  Exact(p, d)
<1>1. <<>> \in Seq(Frame) /\ DOMAIN <<>> = {} /\ d.out = c.out \o <<>>
  BY ChanNumbers
<1> QED
  BY <1>1, Emits

\* A number between what the socket has got and what is stored.
Behind(c, seq) ==
    \E f \in c.srej_q : offset(seq, c.buffer_seq) <= offset(f.txseq, c.buffer_seq)

LEMMA FreshSframe ==
    ASSUME NEW p \in Places, NEW c \in Chan, EndExact(p, c), Flow(p, c),
           NEW f \in Frame, f.super # "I",
           f.super # "SREJ" => f.reqseq = c.buffer_seq,
           f.super = "SREJ" => ~f.poll /\ Behind(c, f.reqseq)
    PROVE  Fresh(p, Newest(c), Len(c.got), f)
<1>1. c.buffer_seq = Nth(Len(c.got)) /\ Len(c.got) \in Nat /\ f.reqseq \in Number
  BY NearIs, FrameAhead DEF Flow, RxExact
<1>2. ASSUME f.super = "SREJ"
      PROVE  \E x \in Nat : Len(c.got) <= x /\ x < p.newest /\ f.reqseq = Nth(x)
  <2> DEFINE o == offset(f.reqseq, c.buffer_seq)
             x == Len(c.got) + o
  <2>1. PICK h \in c.srej_q : o <= offset(h.txseq, c.buffer_seq)
    BY <1>2 DEF Behind
  <2>2. h.sdu = Len(c.got) + offset(h.txseq, c.buffer_seq) + 1 /\ h.sdu <= p.newest
    BY PlaceFields DEF Flow, RxExact
  <2>3. o \in Nat /\ offset(h.txseq, c.buffer_seq) \in Nat /\ p.newest \in Nat
    BY <1>1, ChanNumbers, OffsetIs, Numbers, PlaceFields
  <2>4. f.reqseq = Nth(x)
    BY <1>1, Nths
  <2> HIDE DEF o
  <2> QED
    BY <1>1, <2>1, <2>2, <2>3, <2>4
<1> QED
  BY <1>1, <1>2 DEF Fresh

LEMMA SframeExact ==
    ASSUME NEW p \in Places, NEW c \in Chan, TxInv(c), Exact(p, c),
           NEW super \in {"RR", "RNR", "SREJ"}, NEW poll \in BOOLEAN, NEW final \in BOOLEAN,
           NEW reqseq \in Number, super # "SREJ" => reqseq = c.buffer_seq,
           super = "SREJ" => ~poll /\ (c.up => Behind(c, reqseq)),
           NEW d \in Chan, d = send_sframe(c, super, poll, final, reqseq)
    PROVE  Exact(p, d) /\ Alike(c, d) /\ d.up = c.up
<1> DEFINE owed == final \/ (c.send_fbit /\ ~poll)
           f == SFrame(super, reqseq, poll, owed)
<1>1. c.send_fbit \in BOOLEAN /\ c.out \in Seq(Frame) /\ 0 \in Number /\ owed \in BOOLEAN
  BY ChanNumbers, Numbers
<1> HIDE DEF owed
<1>2. f \in Frame /\ f.super = super /\ f.reqseq = reqseq /\ f.poll = poll
  BY <1>1 DEF SFrame, Frame
<1>3. d.out = Append(c.out, f) /\ Alike(c, d) /\ d.up = c.up
  BY DEF send_sframe, Chan, Alike, owed, f
<1> HIDE DEF f
<1>4. d.out = c.out \o <<f>> /\ <<f>> \in Seq(Frame) /\ DOMAIN <<f>> = {1} /\ <<f>>[1] = f
  BY <1>1, <1>2, <1>3, LinkGrows
<1>5. ASSUME d.up PROVE Fresh(p, Newest(c), Len(c.got), f)
  <2>1. EndExact(p, c) /\ Flow(p, c)
    BY <1>3, <1>5 DEF Exact
  <2> QED
    BY <1>2, <1>3, <1>5, <2>1, FreshSframe
<1>6. d.up => \A i \in DOMAIN <<f>> : Fresh(p, Newest(c), Len(c.got), <<f>>[i])
  BY <1>4, <1>5
<1>7. Exact(p, d)
  BY <1>3, <1>4, <1>6, Emits
<1> QED
  BY <1>3, <1>7

\* What SendMany leaves alone, and what it makes of the rest.
LEMMA SendManyFields ==
    ASSUME NEW c \in Chan, NEW out, NEW tx_q, NEW head, NEW next_seq, NEW fbit, NEW acked,
           NEW d, d = PutSent(c, out, tx_q, head, next_seq, fbit, acked)
    PROVE  /\ d.out = out /\ d.tx_q = tx_q /\ d.head = head /\ d.unacked = head
           /\ d.sent = c.sent /\ d.expected_ack_seq = c.expected_ack_seq
           /\ d.buffer_seq = c.buffer_seq /\ d.srej_q = c.srej_q /\ d.got = c.got /\ d.up = c.up
  BY DEF Chan, PutSent

\* The k units after the last one that was sent.
LEMMA SendManyExact ==
    ASSUME NEW p \in Places, NEW c, Sound(p, c), NEW k \in Nat, k # 0,
           k <= Len(c.tx_q) - c.head, k <= TxWin - c.unacked,
           NEW d \in Chan, d = SendMany(c, k)
    PROVE  Exact(p, d)
<1> DEFINE seq(j) == (c.next_tx_seq + j - 1) % Modulus
           frames == [j \in 1 .. k |-> IFrame(seq(j), c.tx_q[c.head + j].sdu, c.buffer_seq,
                                              c.send_fbit /\ j = 1)]
           out == c.out \o frames
           tx_q == [i \in DOMAIN c.tx_q |->
                      IF i - c.head \in 1 .. k
                      THEN [c.tx_q[i] EXCEPT !.txseq = seq(i - c.head), !.retries = 1]
                      ELSE c.tx_q[i]]
           head == c.head + k
           to == (c.next_tx_seq + k) % Modulus
           no == FALSE
           a == Forgotten(c)
<1>1. c \in Chan /\ TxInv(c) /\ Exact(p, c) /\ EndExact(p, c) /\ TxExact(c)
  BY DEF Sound, Good, Exact, EndExact
<1>2. /\ c.next_tx_seq \in Number /\ c.buffer_seq \in Number /\ c.expected_ack_seq \in Number
      /\ c.head \in Nat /\ c.tx_q \in Seq(Unit) /\ c.out \in Seq(Frame)
      /\ c.send_fbit \in BOOLEAN /\ c.got \in Seq(Nat) /\ c.unacked = c.head
      /\ Len(c.tx_q) \in Nat /\ DOMAIN c.tx_q = 1 .. Len(c.tx_q) /\ a \in Nat
      /\ TxWin \in Nat /\ Modulus \in Nat /\ TxWin < Modulus
  <2>1. a \in Nat
    BY <1>1 DEF TxExact
  <2>2. c.unacked = c.head
    BY <1>1 DEF TxInv
  <2>3. /\ c.next_tx_seq \in Number /\ c.buffer_seq \in Number /\ c.expected_ack_seq \in Number
        /\ c.head \in Nat /\ c.tx_q \in Seq(Unit) /\ c.out \in Seq(Frame)
        /\ c.send_fbit \in BOOLEAN /\ c.got \in Seq(Nat)
    BY <1>1, ChanNumbers
  <2>4. TxWin \in Nat /\ Modulus \in Nat /\ TxWin < Modulus
    BY Numbers
  <2>5. Len(c.tx_q) \in Nat /\ DOMAIN c.tx_q = 1 .. Len(c.tx_q)
    BY <2>3
  <2> HIDE DEF a, seq, frames, out, tx_q, head, to, no
  <2> QED
    BY <2>1, <2>2, <2>3, <2>4, <2>5
<1>a. ASSUME NEW j \in 1 .. k
      PROVE  /\ j \in Nat /\ 1 <= j /\ j <= k /\ c.head + j \in 1 .. Len(c.tx_q)
             /\ a + c.head + j - 1 \in Nat /\ a + (c.head + j) \in Nat
  <2>1. c.head \in Nat /\ Len(c.tx_q) \in Nat /\ a \in Nat
    BY <1>2
  <2> HIDE DEF a, seq, frames, out, tx_q, head, to, no
  <2> QED
    BY <2>1, SMTT(30)
<1>3. c.next_tx_seq = Nth(a + c.head)
  <2>1. c.expected_ack_seq = Nth(a) /\ offset(c.next_tx_seq, c.expected_ack_seq) = c.head
    BY <1>1, <1>2 DEF TxInv, TxExact
  <2> HIDE DEF a
  <2>2. c.next_tx_seq = Nth(a + offset(c.next_tx_seq, Nth(a)))
    BY <1>2, Nths
  <2> QED
    BY <2>1, <2>2
<1>4. \A j \in 1 .. k : seq(j) = Nth(a + c.head + j - 1)
  <2> TAKE j \in 1 .. k
  <2> DEFINE m == j - 1
  <2> HIDE DEF a
  <2>1. m \in Nat /\ c.next_tx_seq + j - 1 = Nth(a + c.head) + m
        /\ a + c.head \in Nat /\ a + c.head + m = a + c.head + j - 1
    <3>1. c.next_tx_seq \in Nat /\ j \in Nat /\ j >= 1
      <4>1. c.next_tx_seq \in Number
        BY <1>2
      <4>2. c.next_tx_seq \in Nat
        BY <4>1, Numbers
      <4> QED
        BY <1>a, <4>2
    <3> QED
      BY <1>2, <1>3, <3>1
  <2> HIDE DEF m
  <2>2. (Nth(a + c.head) + m) % Modulus = Nth(a + c.head + m)
    BY <2>1, Nths
  <2> QED
    BY <2>1, <2>2
<1>5. \A i \in DOMAIN c.tx_q : c.tx_q[i] \in Unit /\ c.tx_q[i].sdu = a + i
  BY <1>1, <1>2 DEF TxExact
<1>6. d = PutSent(c, out, tx_q, head, to, no, c.buffer_seq)
  BY <1>2 DEF SendMany, PutSent
<1>7. ASSUME NEW j \in 1 .. k
      PROVE  /\ frames[j] \in Frame /\ frames[j].super = "I" /\ frames[j].sdu = a + c.head + j
             /\ frames[j].txseq = Nth(a + c.head + j - 1) /\ frames[j].reqseq = c.buffer_seq
  <2> DEFINE t == seq(j)
             fbit == c.send_fbit /\ j = 1
             u == c.tx_q[c.head + j].sdu
  <2>1. t = Nth(a + c.head + j - 1) /\ t \in Number /\ fbit \in BOOLEAN
        /\ u = a + (c.head + j) /\ u \in Nat
    <3> HIDE DEF a, seq
    <3>1. c.head + j \in DOMAIN c.tx_q /\ a + c.head + j - 1 \in Nat /\ a + (c.head + j) \in Nat
      BY <1>2, <1>a
    <3>2. t = Nth(a + c.head + j - 1)
      BY <1>4
    <3>3. u = a + (c.head + j)
      BY <1>5, <3>1
    <3> QED
      BY <1>2, <3>1, <3>2, <3>3, Nths
  <2>2. frames[j] = IFrame(t, u, c.buffer_seq, fbit)
    OBVIOUS
  <2> HIDE DEF t, fbit, u, frames
  <2> QED
    BY <1>2, <2>1, <2>2 DEF IFrame, Frame
<1>8. frames \in Seq(Frame) /\ DOMAIN frames = 1 .. k
  <2>1. DOMAIN frames = 1 .. k /\ frames = [j \in 1 .. k |-> frames[j]]
    OBVIOUS
  <2> HIDE DEF frames
  <2> QED
    BY <1>7, <2>1
<1>9. ASSUME NEW i \in DOMAIN c.tx_q
      PROVE  /\ tx_q[i].sdu = c.tx_q[i].sdu
             /\ i <= c.head => tx_q[i].txseq = c.tx_q[i].txseq
             /\ i > c.head /\ i <= c.head + k => tx_q[i].txseq = Nth(a + i - 1)
  <2>1. c.tx_q[i] \in Unit
    BY <1>5
  <2>2. CASE i - c.head \in 1 .. k
    <3>1. seq(i - c.head) = Nth(a + c.head + (i - c.head) - 1)
      BY <1>4, <2>2
    <3>2. a + c.head + (i - c.head) - 1 = a + i - 1 /\ i > c.head
      BY <1>2, <2>2
    <3>3. tx_q[i] = [c.tx_q[i] EXCEPT !.txseq = seq(i - c.head), !.retries = 1]
      BY <2>2
    <3>4. i \in Nat
      BY <1>2
    <3> HIDE DEF tx_q, seq, a
    <3>5. tx_q[i].sdu = c.tx_q[i].sdu /\ tx_q[i].txseq = seq(i - c.head)
      BY <2>1, <3>3 DEF Unit
    <3> QED
      BY <1>2, <3>1, <3>2, <3>4, <3>5
  <2>3. CASE ~(i - c.head \in 1 .. k)
    <3>1. tx_q[i] = c.tx_q[i]
      BY <2>3
    <3>2. ~(i > c.head /\ i <= c.head + k)
      BY <1>2, <2>3
    <3> QED
      BY <3>1, <3>2
  <2> QED
    BY <2>2, <2>3
<1>10. DOMAIN tx_q = DOMAIN c.tx_q
  OBVIOUS
<1> HIDE DEF seq, frames, out, tx_q, head, to, no, a
<1>11. /\ d.out = out /\ d.tx_q = tx_q /\ d.head = head /\ d.unacked = head
       /\ d.sent = c.sent /\ d.expected_ack_seq = c.expected_ack_seq
       /\ d.buffer_seq = c.buffer_seq /\ d.srej_q = c.srej_q /\ d.got = c.got /\ d.up = c.up
  BY <1>1, <1>6, SendManyFields
<1>12. Len(tx_q) = Len(c.tx_q)
  BY <1>2, <1>10, <1>11, ChanNumbers
<1>13. Forgotten(d) = a /\ Newest(d) = a + head /\ Newest(c) = a + c.head
  BY <1>2, <1>11, <1>12 DEF Forgotten, Newest, a
<1>14. TxExact(d)
  <2>1. \A i \in 1 .. head : i \in DOMAIN c.tx_q /\ (i <= c.head \/ (i > c.head /\ i <= c.head + k))
    BY <1>2 DEF head
  <2>2. \A i \in 1 .. c.head : c.tx_q[i].txseq = Nth(a + i - 1)
    BY <1>1 DEF TxExact, a
  <2>3. ASSUME NEW i \in 1 .. head PROVE tx_q[i].txseq = Nth(a + i - 1)
    <3>1. CASE i <= c.head
      <4>1. i \in 1 .. c.head
        BY <1>2, <3>1
      <4> QED
        BY <1>9, <2>1, <2>2, <3>1, <4>1
    <3>2. CASE ~(i <= c.head)
      BY <1>9, <2>1, <3>2
    <3> QED
      BY <3>1, <3>2
  <2>4. c.expected_ack_seq = Nth(a)
    BY <1>1 DEF TxExact, a
  <2> QED
    BY <1>2, <1>5, <1>9, <1>10, <1>11, <1>13, <2>3, <2>4 DEF TxExact
<1>15. EndExact(p, d)
  BY <1>1, <1>11, <1>13, <1>14 DEF EndExact, a
<1>16. ASSUME d.up PROVE Flow(p, d)
  <2> DEFINE l == p.link \o c.out
             top == Newest(c)
             top2 == Newest(d)
             g == Len(c.got)
  <2>1. Flow(p, c) /\ EndExact(p, c)
    BY <1>1, <1>11, <1>16 DEF Exact
  <2>2. Near(p, g) /\ g \in Nat
    BY <1>1, <2>1, NearIs
  <2>3. /\ top = a + c.head /\ top2 = a + head /\ top \in Int /\ top2 \in Int /\ top <= top2
        /\ head = c.head + k /\ head <= TxWin
    BY <1>2, <1>13 DEF head
  <2>4. p.top <= top2 /\ \A u \in p.units : u <= top2
    <3>1. p.top <= top /\ p.top \in Nat /\ \A u \in p.units : u <= top /\ u \in Nat
      BY <2>1, PlaceFields DEF Flow
    <3> HIDE DEF top, top2
    <3> QED
      BY <2>3, <3>1
  <2>5. l \in Seq(Frame) /\ p.link \o d.out = l \o frames
    <3> DEFINE sent == p.link
               before == c.out
    <3>1. sent \in Seq(Frame) /\ before \in Seq(Frame) /\ d.out = before \o frames
      BY <1>2, <1>11, PlaceFields DEF out
    <3> HIDE DEF sent, before
    <3>2. sent \o (before \o frames) = (sent \o before) \o frames /\ sent \o before \in Seq(Frame)
      BY <1>8, <3>1, LinkGrows
    <3> QED
      BY <3>1, <3>2 DEF sent, before
  <2>6. Lane(p, top, g, l) /\ c.buffer_seq = Nth(g)
    BY <2>1 DEF Flow, RxExact
  <2> HIDE DEF l, top, top2, g
  <2>7. ASSUME NEW i \in DOMAIN frames PROVE Fresh(p, top2, g, frames[i])
    <3>1. /\ frames[i].super = "I" /\ frames[i].sdu = a + c.head + i
          /\ frames[i].txseq = Nth(a + c.head + i - 1) /\ frames[i].reqseq = Nth(g)
          /\ i \in 1 .. k
      BY <1>7, <1>8, <2>6
    <3>2. a + c.head + i \in 1 .. top2 /\ top2 < a + c.head + i + TxWin
      <4>1. /\ a \in Nat /\ c.head \in Nat /\ TxWin \in Nat /\ i \in Nat /\ 1 <= i /\ i <= k
            /\ top2 = a + head /\ head = c.head + k /\ head <= TxWin
        BY <1>2, <2>3, <3>1
      <4> QED
        BY <4>1, SMTT(30)
    <3>3. a + c.head + i - 1 = (a + c.head + i) - 1
      BY <1>2, <3>1
    <3> QED
      BY <3>1, <3>2, <3>3 DEF Fresh
  <2>8. Lane(p, top2, g, l \o frames)
    <3>1. top \in Int /\ top2 \in Int /\ top <= top2 /\ g <= g
      BY <2>2, <2>3
    <3> QED
      BY <1>8, <2>2, <2>4, <2>5, <2>6, <2>7, <3>1, LaneGrows
  <2>9. RxExact(d)
    BY <1>11, <2>1 DEF Flow, RxExact
  <2> QED
    BY <1>11, <2>1, <2>4, <2>5, <2>8, <2>9 DEF Flow, top2, g
<1> QED
  BY <1>15, <1>16 DEF Exact

\* Timers, flags, counters and states that Exact does not look at.
LEMMA Aside ==
    ASSUME NEW c \in Chan
    PROVE  /\ \A armed : LET d == PutTimers(c, armed)
                         IN  Alike(c, d) /\ d.out = c.out /\ d.up = c.up
           /\ \A armed, retry, state : LET d == PutPoll(c, armed, retry, state)
                                       IN  Alike(c, d) /\ d.out = c.out /\ d.up = c.up
           /\ \A remote_busy, fbit, act, save :
                  LET d == PutFlags(c, remote_busy, fbit, act, save)
                  IN  Alike(c, d) /\ d.out = c.out /\ d.up = c.up
  BY DEF Chan, Alike, PutTimers, PutPoll, PutFlags

LEMMA SoundIs ==
    ASSUME NEW p, NEW c
    PROVE  Sound(p, c) <=> /\ Good(FALSE, c) /\ Exact(p, c) /\ c \in Chan /\ TxInv(c) /\ RxInv(c)
  BY DEF Sound, Good

LEMMA SendsExact ==
    ASSUME NEW p \in Places, NEW c, Sound(p, c), NEW d, d = ertm_send(c)
    PROVE  Sound(p, d)
<1> DEFINE a == Len(c.tx_q) - c.head
           b == TxWin - c.unacked
           m == IF a <= b THEN a ELSE b
           k == IF ~c.up \/ c.remote_busy \/ c.tx_state # "XMIT" THEN 0 ELSE Min({a, b})
<1>1. c \in Chan /\ TxInv(c) /\ Good(FALSE, c)
  BY SoundIs
<1>2. c.head \in Nat /\ c.unacked \in Nat /\ c.tx_q \in Seq(Unit) /\ TxWin \in Nat
  BY <1>1, ChanNumbers, Numbers
<1>3. a \in Nat /\ b \in Nat
  <2>1. c.head <= Len(c.tx_q) /\ c.unacked <= TxWin /\ Len(c.tx_q) \in Nat
    BY <1>1, <1>2 DEF TxInv
  <2> QED
    BY <1>2, <2>1
<1> HIDE DEF a, b
<1>4. Min({a, b}) = m /\ m \in Nat /\ m <= a /\ m <= b
  BY <1>3, MinOfTwo
<1> HIDE DEF m
<1>5. k \in Nat /\ (k # 0 => k = m)
  BY <1>4
<1>6. d = IF k <= 0 THEN c ELSE set_retrans_timer(SendMany(c, k))
  BY DEF ertm_send, SendMany, k, a, b
<1> HIDE DEF k
<1>7. Good(FALSE, d)
  BY <1>1, Sends
<1>8. CASE k = 0
  BY <1>6, <1>8
<1>9. CASE k # 0
  <2> DEFINE e == SendMany(c, k)
             armed == IF "monitor" \in e.armed THEN e.armed ELSE e.armed \cup {"retrans"}
  <2>1. d = set_retrans_timer(e)
    BY <1>5, <1>6, <1>9
  <2>2. k <= Len(c.tx_q) - c.head /\ k <= TxWin - c.unacked
    BY <1>4, <1>5, <1>9 DEF a, b
  <2>3. e \in Chan /\ TxInv(e)
    BY <1>1, <1>5, <1>9, <2>2, SendsMany
  <2>4. Exact(p, e)
    BY <1>5, <1>9, <2>2, <2>3, SendManyExact
  <2> HIDE DEF e
  <2>5. d = PutTimers(e, armed)
    BY <2>1, <2>3 DEF set_retrans_timer, PutTimers, Chan
  <2>6. Alike(e, d) /\ d.out = e.out
    BY <2>3, <2>5, Aside
  <2>7. d \in Chan
    BY <1>7 DEF Good
  <2> QED
    BY <1>7, <2>3, <2>4, <2>6, <2>7, Stays DEF Sound
<1> QED
  BY <1>8, <1>9

\* An RR or RNR frame.
LEMMA ReportsExact ==
    ASSUME NEW p \in Places, NEW c, Sound(p, c), NEW poll \in BOOLEAN,
           NEW d, d = send_rr_or_rnr(c, poll)
    PROVE  Sound(p, d) /\ d.up = c.up
<1> DEFINE super == IF c.local_busy THEN "RNR" ELSE "RR"
           no == FALSE
<1>1. c \in Chan /\ TxInv(c) /\ Good(FALSE, c) /\ c.buffer_seq \in Number /\ Exact(p, c)
  BY SoundIs, ChanNumbers
<1>2. super \in {"RR", "RNR", "SREJ"} /\ super # "SREJ" /\ no \in BOOLEAN
  OBVIOUS
<1>3. d = send_sframe(c, super, poll, no, c.buffer_seq)
  BY DEF send_rr_or_rnr
<1>4. Good(FALSE, d) /\ d \in Chan
  BY <1>1, Reports DEF Good
<1> HIDE DEF super, no
<1>5. Exact(p, d) /\ d.up = c.up
  BY <1>1, <1>2, <1>3, <1>4, SframeExact
<1> QED
  BY <1>4, <1>5 DEF Sound

LEMMA AcksExact ==
    ASSUME NEW p \in Places, NEW c, Sound(p, c), NEW d, d = send_ack(c)
    PROVE  Sound(p, d)
<1> DEFINE c1 == ertm_send(c)
           frames_to_ack ==
                 IF ~c.remote_busy /\ c1.buffer_seq = c1.last_acked_seq THEN 0
                 ELSE offset(c.buffer_seq, c.last_acked_seq)
           no == FALSE
           super == IF c.local_busy /\ c.rx_state = "RECV" THEN "RNR" ELSE "RR"
<1>1. c \in Chan /\ Good(FALSE, c) /\ TxInv(c) /\ Exact(p, c) /\ c.buffer_seq \in Number
  BY SoundIs, ChanNumbers
<1>2. Sound(p, c1)
  BY SendsExact
<1>3. Good(FALSE, d) /\ d \in Chan
  BY <1>1, Acks DEF Good
<1> HIDE DEF c1
<1>4. c1 \in Chan /\ TxInv(c1) /\ Exact(p, c1) /\ c1.buffer_seq \in Number /\ no \in BOOLEAN
  BY <1>2, SoundIs, ChanNumbers
<1>5. CASE c.local_busy /\ c.rx_state = "RECV"
  <2>1. d = send_sframe(c, super, no, no, c.buffer_seq)
    BY <1>5 DEF send_ack
  <2>2. super \in {"RR", "RNR", "SREJ"} /\ super # "SREJ"
    OBVIOUS
  <2> HIDE DEF no, super
  <2>3. Exact(p, d)
    BY <1>1, <1>3, <1>4, <2>1, <2>2, SframeExact
  <2> QED
    BY <1>3, <2>3 DEF Sound
<1>6. CASE ~(c.local_busy /\ c.rx_state = "RECV") /\ frames_to_ack >= (TxWin * 3) \div 4
  <2>1. d = send_sframe(c1, super, no, no, c1.buffer_seq)
    BY <1>6 DEF send_ack, c1
  <2>2. super \in {"RR", "RNR", "SREJ"} /\ super # "SREJ"
    OBVIOUS
  <2> HIDE DEF no, super
  <2>3. Exact(p, d)
    BY <1>3, <1>4, <2>1, <2>2, SframeExact
  <2> QED
    BY <1>3, <2>3 DEF Sound
<1>7. CASE ~(c.local_busy /\ c.rx_state = "RECV") /\ ~(frames_to_ack >= (TxWin * 3) \div 4)
  <2>1. d = IF frames_to_ack > 0 THEN [c1 EXCEPT !.armed = @ \cup {"ack"}] ELSE c1
    BY <1>7 DEF send_ack, c1
  <2> HIDE DEF frames_to_ack
  <2>2. CASE frames_to_ack > 0
    <3>1. d = PutTimers(c1, c1.armed \cup {"ack"})
      BY <2>1, <2>2 DEF PutTimers
    <3>2. Alike(c1, d) /\ d.out = c1.out
      BY <1>4, <3>1, Aside
    <3> QED
      BY <1>3, <1>4, <3>2, Stays DEF Sound
  <2>3. CASE ~(frames_to_ack > 0)
    BY <1>2, <2>1, <2>3
  <2> QED
    BY <2>2, <2>3
<1> QED
  BY <1>5, <1>6, <1>7

-----------------------------------------------------------------------------
(* Sending again *)

LEMMA FindFirst ==
    ASSUME NEW S, NEW q \in Seq(S), NEW txseq, NEW j \in DOMAIN q, q[j].txseq = txseq
    PROVE  Find(q, txseq) \in 1 .. j /\ q[Find(q, txseq)].txseq = txseq
<1> DEFINE I == {i \in 1 .. Len(q) : q[i].txseq = txseq}
<1>1. Len(q) \in Nat /\ DOMAIN q = 1 .. Len(q)
  OBVIOUS
<1>2. j \in I /\ I \subseteq Nat /\ I # {} /\ \A i \in I : i \in 1 .. Len(q) /\ q[i].txseq = txseq
  BY <1>1
<1>3. Find(q, txseq) = Min(I)
  BY <1>2 DEF Find, SelectInSeq
<1> HIDE DEF I
<1>4. Min(I) \in I /\ Min(I) <= j
  BY <1>2, MinIs
<1> QED
  BY <1>1, <1>2, <1>3, <1>4

\* The number of a unit that was sent and not acknowledged.
Sent(c, seq) == \E j \in 1 .. c.head : c.tx_q[j].txseq = seq

LEMMA AlikeSent ==
    ASSUME NEW c \in Chan, TxInv(c), NEW d \in Chan, Alike(c, d), NEW seq, Sent(c, seq)
    PROVE  Sent(d, seq)
<1>1. \A j \in 1 .. c.head : j \in DOMAIN c.tx_q
  BY ChanNumbers DEF TxInv
<1> QED
  BY <1>1 DEF Sent, Alike

LEMMA AlikeAll ==
    ASSUME NEW c \in Chan, NEW d \in Chan, NEW e \in Chan, Alike(c, d), Alike(d, e)
    PROVE  Alike(c, e)
<1>1. DOMAIN c.tx_q = 1 .. Len(c.tx_q) /\ DOMAIN d.tx_q = 1 .. Len(d.tx_q)
  BY ChanNumbers
<1> QED
  BY <1>1 DEF Alike

LEMMA DisconnectExact ==
    ASSUME NEW p \in Places, NEW c, Sound(p, c), NEW d, d = send_disconn_req(c)
    PROVE  Sound(p, d) /\ Alike(c, d) /\ d.up = FALSE
<1>1. c \in Chan /\ TxInv(c) /\ Exact(p, c) /\ Good(FALSE, c)
  BY SoundIs
<1>2. Good(FALSE, d) /\ d \in Chan
  BY <1>1, Disconnects DEF Good
<1>3. Alike(c, d) /\ d.out = c.out /\ d.up = FALSE
  BY <1>1 DEF send_disconn_req, Chan, Alike
<1> QED
  BY <1>1, <1>2, <1>3, Stays DEF Sound

LEMMA ResendOneExact ==
    ASSUME NEW p \in Places, NEW c, Sound(p, c), NEW seq \in Number, Sent(c, seq),
           NEW d, d = ResendOne(c, seq)
    PROVE  Sound(p, d) /\ Alike(c, d)
<1> DEFINE i == Find(c.tx_q, seq)
           limit == c.max_tx # 0 /\ c.tx_q[i].retries + 1 > c.max_tx
           f == IFrame(seq, c.tx_q[i].sdu, c.buffer_seq, c.send_fbit)
           u == [c.tx_q[i] EXCEPT !.retries = Count(c, @)]
           tx_q == [c.tx_q EXCEPT ![i] = u]
           a == Forgotten(c)
<1>1. c \in Chan /\ TxInv(c) /\ Exact(p, c) /\ TxExact(c) /\ Good(FALSE, c)
  BY SoundIs DEF Exact, EndExact
<1>2. /\ c.tx_q \in Seq(Unit) /\ c.out \in Seq(Frame) /\ c.buffer_seq \in Number
      /\ c.send_fbit \in BOOLEAN /\ Len(c.tx_q) \in Nat /\ DOMAIN c.tx_q = 1 .. Len(c.tx_q)
      /\ c.head \in Nat /\ a \in Nat /\ TxWin \in Nat
  <2>1. /\ c.tx_q \in Seq(Unit) /\ c.out \in Seq(Frame) /\ c.buffer_seq \in Number
        /\ c.send_fbit \in BOOLEAN /\ c.head \in Nat
    BY <1>1, ChanNumbers
  <2>2. Len(c.tx_q) \in Nat /\ DOMAIN c.tx_q = 1 .. Len(c.tx_q)
    BY <2>1
  <2>3. a \in Nat /\ TxWin \in Nat
    BY <1>1, Numbers DEF TxExact
  <2> QED
    BY <2>1, <2>2, <2>3
<1>3. Good(FALSE, d) /\ d \in Chan
  BY <1>1, ResendsOne DEF Good
<1>4. i \in 1 .. c.head /\ i \in DOMAIN c.tx_q /\ c.tx_q[i].txseq = seq
  <2>1. PICK j \in 1 .. c.head : c.tx_q[j].txseq = seq
    BY DEF Sent
  <2>2. j \in DOMAIN c.tx_q
    BY <1>1, <1>2, <2>1 DEF TxInv
  <2>3. i \in 1 .. j /\ c.tx_q[i].txseq = seq
    BY <1>2, <2>1, <2>2, FindFirst
  <2> HIDE DEF i
  <2> QED
    BY <1>2, <2>1, <2>2, <2>3
<1>5. CASE ~c.up
  <2>1. d = c
    BY <1>5 DEF ResendOne
  <2> QED
    BY <2>1 DEF Alike
<1>6. CASE c.up /\ limit
  <2>1. d = send_disconn_req(c)
    BY <1>2, <1>4, <1>6 DEF ResendOne
  <2> QED
    BY <2>1, DisconnectExact
<1>7. CASE c.up /\ ~limit
  <2>1. d = [c EXCEPT !.out = Append(c.out, f), !.tx_q = tx_q, !.send_fbit = FALSE,
                      !.last_acked_seq = c.buffer_seq]
    <3>1. i # 0
      BY <1>2, <1>4
    <3> QED
      BY <1>7, <3>1 DEF ResendOne
  <2>2. c.tx_q[i] \in Unit /\ c.tx_q[i].sdu = a + i /\ c.tx_q[i].txseq = Nth(a + i - 1)
    BY <1>1, <1>2, <1>4 DEF TxExact
  <2>3. i \in Nat /\ 1 <= i /\ i <= c.head
    BY <1>2, <1>4
  <2> HIDE DEF i
  <2>4. f \in Frame /\ f.super = "I" /\ f.sdu = a + i /\ f.txseq = seq /\ f.reqseq = c.buffer_seq
    <3>1. c.tx_q[i].sdu \in Nat
      BY <2>2 DEF Unit
    <3> QED
      BY <1>2, <2>2, <3>1 DEF IFrame, Frame
  <2>5. /\ Len(tx_q) = Len(c.tx_q)
        /\ \A k \in DOMAIN c.tx_q : tx_q[k].sdu = c.tx_q[k].sdu /\ tx_q[k].txseq = c.tx_q[k].txseq
    <3>1. u.sdu = c.tx_q[i].sdu /\ u.txseq = c.tx_q[i].txseq
      BY <2>2 DEF Unit
    <3> HIDE DEF u
    <3> QED
      BY <1>2, <1>4, <3>1
  <2> HIDE DEF f, tx_q
  <2>6. d.out = Append(c.out, f) /\ Alike(c, d) /\ d.up = c.up
    BY <1>1, <2>1, <2>5 DEF Chan, Alike
  <2>7. d.out = c.out \o <<f>> /\ <<f>> \in Seq(Frame) /\ DOMAIN <<f>> = {1} /\ <<f>>[1] = f
    BY <1>2, <2>4, <2>6, LinkGrows
  <2>8. ASSUME d.up PROVE Fresh(p, Newest(c), Len(c.got), f)
    <3>1. EndExact(p, c) /\ Flow(p, c)
      BY <1>1, <1>7 DEF Exact
    <3>2. c.buffer_seq = Nth(Len(c.got)) /\ Newest(c) = a + c.head
      BY <1>1, <3>1 DEF Flow, RxExact, Newest, TxInv
    <3>3. c.head <= TxWin
      BY <1>1 DEF TxInv
    <3> HIDE DEF a
    <3>4. a + i \in 1 .. a + c.head /\ a + i - 1 = (a + i) - 1 /\ a + c.head < a + i + TxWin
      BY <1>2, <2>3, <3>3
    <3> QED
      BY <1>4, <2>2, <2>4, <3>2, <3>4 DEF Fresh
  <2>9. d.up => \A k \in DOMAIN <<f>> : Fresh(p, Newest(c), Len(c.got), <<f>>[k])
    BY <2>7, <2>8
  <2>10. Exact(p, d)
    BY <1>1, <1>3, <2>6, <2>7, <2>9, Emits
  <2> QED
    BY <1>3, <2>6, <2>10 DEF Sound
<1> QED
  BY <1>5, <1>6, <1>7

LEMMA ResendsExact ==
    ASSUME NEW p \in Places, NEW c, Sound(p, c), NEW seqs \in Seq(Number),
           \A j \in DOMAIN seqs : Sent(c, seqs[j]), NEW d, d = ertm_resend(c, seqs)
    PROVE  Sound(p, d) /\ Alike(c, d)
<1> DEFINE n == Len(seqs)
           C == {e \in Chan : Sound(p, e) /\ Alike(c, e)}
           F == [e \in C |-> [j \in 1 .. n |-> ResendOne(e, seqs[j])]]
           done == CHOOSE g : g = [j \in 0 .. n |-> IF j = 0 THEN c
                                                    ELSE ResendOne(g[j - 1], seqs[j])]
<1>1. c \in Chan /\ TxInv(c) /\ Alike(c, c) /\ c \in C
  BY SoundIs DEF Alike
<1>2. CASE c.remote_busy
  <2>1. d = c
    BY <1>2 DEF ertm_resend
  <2> QED
    BY <1>1, <2>1
<1>3. CASE ~c.remote_busy
  <2>1. n \in Nat /\ \A j \in 1 .. n : seqs[j] \in Number /\ Sent(c, seqs[j])
    OBVIOUS
  <2>2. d = done[n]
    BY <1>3 DEF ertm_resend, InTurn
  <2>4. ASSUME NEW e \in C, NEW j \in 1 .. n PROVE ResendOne(e, seqs[j]) \in C
    <3> DEFINE x == ResendOne(e, seqs[j])
    <3>1. e \in Chan /\ Sound(p, e) /\ Alike(c, e) /\ seqs[j] \in Number /\ Sent(c, seqs[j])
      BY <2>1
    <3>2. Sent(e, seqs[j])
      BY <1>1, <3>1, AlikeSent
    <3>3. Sound(p, x) /\ Alike(e, x)
      BY <3>1, <3>2, ResendOneExact
    <3> HIDE DEF x
    <3>4. x \in Chan
      BY <3>3, SoundIs
    <3>5. Alike(c, x)
      BY <1>1, <3>1, <3>3, <3>4, AlikeAll
    <3> QED
      BY <3>3, <3>4, <3>5 DEF x
  <2>5. F \in [C -> [1 .. n -> C]] /\ \A e \in C, j \in 1 .. n : F[e][j] = ResendOne(e, seqs[j])
    <3> HIDE DEF C
    <3> QED
      BY <2>4
  <2> HIDE DEF C, F, n, done
  <2>a. n \in Nat /\ c \in C /\ F \in Steps(n, C)
    BY <1>1, <2>1, <2>5 DEF Steps
  <2>b. PICK g : Leads(g, n, C, c, F)
    BY <2>a, TurnsExist
  <2>6. g \in [0 .. n -> C] /\ g[0] = c /\ \A j \in 1 .. n : g[j] = F[g[j - 1]][j]
    BY <2>b DEF Leads
  <2>7. g = [j \in 0 .. n |-> IF j = 0 THEN c ELSE ResendOne(g[j - 1], seqs[j])]
    <3>1. ASSUME NEW j \in 0 .. n
          PROVE  g[j] = IF j = 0 THEN c ELSE ResendOne(g[j - 1], seqs[j])
      <4>1. CASE j = 0
        BY <2>6, <4>1
      <4>2. CASE j # 0
        <5>1. j \in 1 .. n /\ j - 1 \in 0 .. n
          BY <2>1, <4>2
        <5> QED
          BY <2>5, <2>6, <4>2, <5>1
      <4> QED
        BY <4>1, <4>2
    <3>2. g = [j \in 0 .. n |-> g[j]]
      BY <2>6
    <3> QED
      BY <3>1, <3>2
  <2>8. done = [j \in 0 .. n |-> IF j = 0 THEN c ELSE ResendOne(done[j - 1], seqs[j])]
    <3> DEFINE Is(h) == h = [j \in 0 .. n |-> IF j = 0 THEN c
                                              ELSE ResendOne(h[j - 1], seqs[j])]
    <3>1. \E h : Is(h)
      BY <2>7
    <3>2. done = CHOOSE h : Is(h)
      BY DEF done
    <3> HIDE DEF Is, done
    <3>3. Is(done)
      BY <3>1, <3>2
    <3> QED
      BY <3>3 DEF Is
  <2>9. done[0] \in C
    BY <1>1, <2>1, <2>8
  <2>10. ASSUME NEW j \in 1 .. n, done[j - 1] \in C PROVE done[j] \in C
    <3>1. j \in 0 .. n /\ j # 0
      BY <2>1
    <3>2. done[j] = ResendOne(done[j - 1], seqs[j])
      BY <2>8, <3>1
    <3> QED
      BY <2>4, <2>10, <3>2
  <2>11. done[n] \in C
    BY <2>1, <2>9, <2>10, TurnsHold
  <2> QED
    BY <2>2, <2>11 DEF C
<1> QED
  BY <1>2, <1>3

LEMMA RetransmitExact ==
    ASSUME NEW p \in Places, NEW c, Sound(p, c), NEW reqseq \in Number, Sent(c, reqseq),
           NEW d, d = retransmit(c, reqseq)
    PROVE  Sound(p, d) /\ Alike(c, d)
<1>1. <<reqseq>> \in Seq(Number) /\ \A j \in DOMAIN <<reqseq>> : Sent(c, <<reqseq>>[j])
  OBVIOUS
<1> QED
  BY <1>1, ResendsExact DEF retransmit

LEMMA RetransmitAllExact ==
    ASSUME NEW p \in Places, NEW c, Sound(p, c), NEW reqseq \in Number,
           NEW d, d = retransmit_all(c, reqseq)
    PROVE  Sound(p, d)
<1> DEFINE q == SubSeq(c.tx_q, 1, c.head)
           i == Find(q, reqseq)
           n == c.head - i + 1
           seqs == [j \in 1 .. n |-> c.tx_q[i + j - 1].txseq]
<1>1. CASE c.unacked = 0 \/ i = 0
  BY <1>1 DEF retransmit_all
<1>2. CASE ~(c.unacked = 0 \/ i = 0)
  <2>1. d = ertm_resend(c, seqs)
    BY <1>2 DEF retransmit_all
  <2>2. c.tx_q \in Seq(Unit) /\ c.head \in Nat /\ c.head <= Len(c.tx_q) /\ Len(c.tx_q) \in Nat
    <3>1. c \in Chan /\ TxInv(c)
      BY SoundIs
    <3>2. c.tx_q \in Seq(Unit) /\ c.head \in Nat /\ c.head <= Len(c.tx_q)
      BY <3>1, ChanNumbers DEF TxInv
    <3> QED
      BY <3>2
  <2>3. q \in Seq(Unit) /\ Len(q) = c.head
    BY <2>2
  <2> HIDE DEF q
  <2>4. i \in 0 .. c.head
    BY <2>3, FindIs
  <2> HIDE DEF i
  <2>5. /\ n \in Nat /\ i >= 1 /\ i \in Nat
        /\ \A j \in 1 .. n : i + j - 1 \in 1 .. Len(c.tx_q) /\ i + j - 1 \in 1 .. c.head
    BY <1>2, <2>2, <2>4
  <2>6. ASSUME NEW j \in 1 .. n
        PROVE  c.tx_q[i + j - 1].txseq \in Number /\ Sent(c, c.tx_q[i + j - 1].txseq)
    <3>1. c.tx_q[i + j - 1] \in Unit
      BY <2>2, <2>5
    <3> QED
      BY <2>5, <3>1 DEF Unit, Sent
  <2> HIDE DEF n
  <2>7. seqs \in [1 .. n -> Number] /\ \A j \in 1 .. n : Sent(c, seqs[j])
    BY <2>6
  <2> HIDE DEF seqs
  <2>8. seqs \in Seq(Number) /\ DOMAIN seqs = 1 .. n
    BY <2>5, <2>7
  <2> QED
    BY <2>1, <2>7, <2>8, ResendsExact
<1> QED
  BY <1>1, <1>2

-----------------------------------------------------------------------------
(* What is acknowledged *)

LEMMA AcknowledgedExact ==
    ASSUME NEW p \in Places, NEW c, Sound(p, c), NEW reqseq \in Number, valid_reqseq(c, reqseq),
           \A b \in p.acks : Forgotten(c) + offset(reqseq, c.expected_ack_seq) <= b,
           NEW d, d = process_reqseq(c, reqseq)
    PROVE  Sound(p, d) /\ SameRx(c, d) /\ SameState(c, d)
<1> DEFINE k == offset(reqseq, c.expected_ack_seq)
           tx_q == SubSeq(c.tx_q, k + 1, Len(c.tx_q))
           a == Forgotten(c)
<1>1. c \in Chan /\ TxInv(c) /\ Exact(p, c) /\ EndExact(p, c) /\ TxExact(c) /\ Good(FALSE, c)
  BY SoundIs DEF Exact, EndExact
<1>2. /\ c.tx_q \in Seq(Unit) /\ c.next_tx_seq \in Number /\ c.expected_ack_seq \in Number
      /\ c.head \in Nat /\ c.sent \in Nat /\ c.unacked = c.head /\ c.head <= Len(c.tx_q)
      /\ offset(c.next_tx_seq, c.expected_ack_seq) = c.unacked
  BY <1>1, ChanNumbers DEF TxInv
<1>3. /\ Len(c.tx_q) \in Nat /\ DOMAIN c.tx_q = 1 .. Len(c.tx_q) /\ a = c.sent - Len(c.tx_q)
      /\ p.from \in Nat
  BY <1>2, PlaceFields DEF Forgotten
<1>4. k \in Nat /\ offset(c.next_tx_seq, reqseq) \in Nat
  BY <1>2, OffsetIs, Numbers
<1>5. offset(c.next_tx_seq, c.expected_ack_seq) = offset(c.next_tx_seq, reqseq) + k
  BY <1>2, OffsetSplits DEF valid_reqseq
<1>6. /\ a \in Nat /\ c.expected_ack_seq = Nth(a) /\ p.from <= a /\ \A b \in p.acks : a + k <= b
      /\ \A i \in DOMAIN c.tx_q : c.tx_q[i].sdu = a + i
      /\ \A i \in 1 .. c.head : c.tx_q[i].txseq = Nth(a + i - 1)
  BY <1>1 DEF EndExact, TxExact
<1>7. reqseq = Nth(a + k)
  <2>1. a \in Nat /\ c.expected_ack_seq = Nth(a)
    BY <1>6
  <2> HIDE DEF a
  <2> QED
    BY <2>1, Nths DEF k
<1>8. Good(FALSE, d) /\ d \in Chan /\ SameState(c, d) /\ Keeps(c, d) /\ d.up = c.up
  <2> DEFINE calm == FALSE
  <2>1. calm \in BOOLEAN /\ Good(calm, c)
    BY <1>1
  <2> HIDE DEF calm
  <2>2. Good(calm, d) /\ SameState(c, d) /\ Keeps(c, d)
    BY <2>1, Acknowledged
  <2> QED
    BY <2>2 DEF Good, SameState, calm
<1>9. CASE c.unacked = 0 \/ k = 0
  <2>1. d = c
    BY <1>9 DEF process_reqseq
  <2> QED
    BY <2>1 DEF SameRx, SameState
<1>10. CASE ~(c.unacked = 0 \/ k = 0)
  <2> HIDE DEF k, a
  <2>1. /\ d.tx_q = tx_q /\ d.head = c.head - k /\ d.unacked = c.head - k
        /\ d.expected_ack_seq = reqseq /\ d.sent = c.sent /\ d.out = c.out
    <3> DEFINE c1 == [c EXCEPT !.tx_q = tx_q, !.head = c.head - k, !.unacked = c.head - k,
                               !.expected_ack_seq = reqseq]
    <3>1. d = IF c1.unacked = 0 THEN [c1 EXCEPT !.armed = c1.armed \ {"retrans"}] ELSE c1
      BY <1>2, <1>10 DEF process_reqseq, clear_timer, k
    <3> HIDE DEF tx_q
    <3> QED
      BY <1>1, <3>1 DEF Chan
  <2>2. k <= c.head /\ k <= Len(c.tx_q)
    BY <1>2, <1>3, <1>4, <1>5
  <2>3. /\ Len(tx_q) = Len(c.tx_q) - k /\ DOMAIN tx_q = 1 .. Len(c.tx_q) - k
        /\ \A i \in 1 .. Len(c.tx_q) - k : tx_q[i] = c.tx_q[k + i] /\ k + i \in DOMAIN c.tx_q
    BY <1>2, <1>3, <1>4, <2>2
  <2> HIDE DEF tx_q
  <2>4. Forgotten(d) = a + k /\ a + k \in Nat /\ Newest(d) = Newest(c)
    <3>1. Forgotten(d) = a + k
      BY <1>2, <1>3, <1>4, <2>1, <2>3 DEF Forgotten
    <3>2. Newest(c) = a + c.head
      BY <1>2 DEF Newest, a
    <3> QED
      BY <1>2, <1>4, <1>6, <2>1, <3>1, <3>2 DEF Newest
  <2>5. \A i \in DOMAIN tx_q : tx_q[i].sdu = a + k + i
    <3> TAKE i \in DOMAIN tx_q
    <3>1. tx_q[i].sdu = a + (k + i) /\ i \in Nat
      BY <1>6, <2>3
    <3> QED
      BY <1>4, <1>6, <3>1
  <2>6. \A i \in 1 .. c.head - k : tx_q[i].txseq = Nth(a + k + i - 1)
    <3> TAKE i \in 1 .. c.head - k
    <3>1. k + i \in 1 .. c.head /\ i \in 1 .. Len(c.tx_q) - k
      BY <1>2, <1>3, <1>4, <2>2
    <3>2. tx_q[i].txseq = Nth(a + (k + i) - 1)
      BY <1>6, <2>3, <3>1
    <3>3. a + (k + i) - 1 = a + k + i - 1
      BY <1>4, <1>6
    <3> QED
      BY <3>2, <3>3
  <2>7. TxExact(d)
    BY <1>7, <2>1, <2>4, <2>5, <2>6 DEF TxExact
  <2>8. SameRx(c, d)
    BY <1>8 DEF Keeps
  <2>9. EndExact(p, d)
    <3>1. p.from <= a + k
      BY <1>3, <1>4, <1>6
    <3> QED
      BY <1>1, <1>6, <2>1, <2>4, <2>7, <2>8, <3>1 DEF EndExact, SameRx
  <2>10. ASSUME d.up PROVE Flow(p, d)
    <3>1. Flow(p, c)
      BY <1>1, <1>8, <2>10 DEF Exact
    <3> QED
      BY <2>1, <2>4, <2>8, <3>1 DEF Flow, RxExact, SameRx
  <2> QED
    BY <1>8, <2>8, <2>9, <2>10 DEF Sound, Exact
<1> QED
  BY <1>9, <1>10

LEMMA FbitExact ==
    ASSUME NEW p \in Places, NEW c, Sound(p, c), NEW final \in BOOLEAN,
           NEW d, d = pass_to_tx_fbit(c, final)
    PROVE  Sound(p, d) /\ Alike(c, d) /\ d.out = c.out /\ SameRx(c, d) /\ d.up = c.up
<1>1. c \in Chan /\ TxInv(c) /\ Exact(p, c) /\ Good(FALSE, c)
  BY SoundIs
<1>2. Good(FALSE, d) /\ d \in Chan /\ SameRx(c, d)
  BY <1>1, FbitPasses DEF Good, Keeps
<1>3. Alike(c, d) /\ d.out = c.out /\ d.up = c.up
  BY <1>1 DEF pass_to_tx_fbit, clear_timer, set_retrans_timer, Chan, Alike
<1> QED
  BY <1>1, <1>2, <1>3, Stays DEF Sound

LEMMA PassesExact ==
    ASSUME NEW p \in Places, NEW c, Sound(p, c), NEW f \in Frame, valid_reqseq(c, f.reqseq),
           \A b \in p.acks : Forgotten(c) + offset(f.reqseq, c.expected_ack_seq) <= b,
           NEW d, d = pass_to_tx(c, f)
    PROVE  Sound(p, d) /\ SameRx(c, d) /\ d.up = c.up
<1> DEFINE e == process_reqseq(c, f.reqseq)
<1>1. f.reqseq \in Number /\ f.final \in BOOLEAN
  BY DEF Frame
<1>2. Sound(p, e) /\ SameRx(c, e) /\ e.up = c.up
  BY <1>1, AcknowledgedExact DEF SameState
<1>3. d = pass_to_tx_fbit(e, f.final)
  BY DEF pass_to_tx
<1> HIDE DEF e
<1>4. Sound(p, d) /\ SameRx(e, d) /\ d.up = e.up
  BY <1>1, <1>2, <1>3, FbitExact
<1> QED
  BY <1>2, <1>4 DEF SameRx

-----------------------------------------------------------------------------
(* What is stored and rejected *)

\* Changes of the receiver's part that Exact does not look at.
LEMMA ListAside ==
    ASSUME NEW c \in Chan, NEW expected, NEW list, NEW state, NEW act,
           NEW d, d = PutRx(c, expected, c.buffer_seq, c.srej_q, list, state, act)
    PROVE  Alike(c, d) /\ d.out = c.out /\ d.up = c.up
  BY DEF Chan, Alike, PutRx

RejectingExact(p, c, n, d) == Rejecting(FALSE, c, n, d) /\ Exact(p, d) /\ Alike(c, d)

LEMMA RejectOneExact ==
    ASSUME NEW p \in Places, NEW c \in Chan, NEW n \in Nat, NEW d, RejectingExact(p, c, n, d),
           NEW j \in Nat, offset((c.expected_tx_seq + j - 1) % Modulus, c.buffer_seq) < n,
           \E h \in c.srej_q : n <= offset(h.txseq, c.buffer_seq),
           NEW x, x = Reject(c, d, j)
    PROVE  RejectingExact(p, c, n, x)
<1> DEFINE seq == (c.expected_tx_seq + j - 1) % Modulus
           no == FALSE
           super == "SREJ"
           y == send_sframe(d, super, no, no, seq)
           list == AppendSeq(y.srej_list, seq)
<1>1. /\ Rejecting(FALSE, c, n, d) /\ Exact(p, d) /\ Alike(c, d) /\ d \in Chan /\ TxInv(d)
      /\ Fit(FALSE, d)
  BY DEF RejectingExact, Rejecting, Fit
<1>2. Rejecting(FALSE, c, n, x) /\ x \in Chan
  <2> DEFINE calm == FALSE
  <2>1. calm \in BOOLEAN /\ Rejecting(calm, c, n, d)
    BY <1>1
  <2> HIDE DEF calm, seq, no, super, y, list
  <2>2. Rejecting(calm, c, n, x)
    BY <2>1, RejectsOne
  <2> QED
    BY <2>2 DEF Rejecting, Fit, calm
<1>3. CASE \E f \in c.srej_q : f.txseq = seq
  <2>1. x = d
    BY <1>3 DEF Reject
  <2> QED
    BY <2>1
<1>4. CASE ~ \E f \in c.srej_q : f.txseq = seq
  <2>1. x = [y EXCEPT !.srej_list = list]
    BY <1>4 DEF Reject
  <2>2. seq \in Number /\ c.buffer_seq \in Number /\ offset(seq, c.buffer_seq) < n
    <3>1. c.expected_tx_seq \in Number /\ c.buffer_seq \in Number
      BY ChanNumbers
    <3>2. c.expected_tx_seq + j - 1 \in Int
      BY <3>1, Numbers
    <3> QED
      BY <3>1, <3>2, Numbers
  <2>3. no \in BOOLEAN /\ super \in {"RR", "RNR", "SREJ"} /\ super = "SREJ" /\ ~no
    OBVIOUS
  <2> HIDE DEF seq, no, super
  <2>4. Behind(d, seq)
    <3>1. d.srej_q = c.srej_q /\ d.buffer_seq = c.buffer_seq
      BY <1>1 DEF Alike
    <3>2. PICK h \in c.srej_q : n <= offset(h.txseq, c.buffer_seq)
      OBVIOUS
    <3>3. offset(h.txseq, c.buffer_seq) \in Nat /\ offset(seq, c.buffer_seq) \in Nat
      BY <2>2, ChanNumbers, OffsetIs, Numbers
    <3> QED
      BY <2>2, <3>1, <3>2, <3>3 DEF Behind
  <2>5. Fit(FALSE, y) /\ y \in Chan
    <3>1. Fit(FALSE, y)
      BY <1>1, <2>2, <2>3, FitSframes
    <3> QED
      BY <3>1 DEF Fit
  <2>6. Exact(p, y) /\ Alike(d, y) /\ TxInv(y)
    BY <1>1, <2>2, <2>3, <2>4, <2>5, SframeExact DEF Fit
  <2> HIDE DEF y, list
  <2>7. x = PutRx(y, y.expected_tx_seq, y.buffer_seq, y.srej_q, list, y.rx_state, y.srej_act)
    BY <2>1, <2>5 DEF PutRx, Chan
  <2>8. Alike(y, x) /\ x.out = y.out
    BY <2>5, <2>7, ListAside
  <2>9. Exact(p, x)
    BY <1>2, <2>5, <2>6, <2>8, Stays
  <2>10. Alike(c, x)
    BY <1>1, <1>2, <2>5, <2>6, <2>8, AlikeAll
  <2> QED
    BY <1>2, <2>9, <2>10 DEF RejectingExact
<1> QED
  BY <1>3, <1>4

LEMMA RejectManyExact ==
    ASSUME NEW p \in Places, NEW c \in Chan, NEW n \in Nat, RejectingExact(p, c, n, c),
           NEW m \in Nat,
           \A j \in 1 .. m : offset((c.expected_tx_seq + j - 1) % Modulus, c.buffer_seq) < n,
           \E h \in c.srej_q : n <= offset(h.txseq, c.buffer_seq),
           NEW d, d = RejectTurns(c, m)
    PROVE  RejectingExact(p, c, n, d)
<1> DEFINE C == {x \in Chan : RejectingExact(p, c, n, x)}
           F == [x \in C |-> [j \in 1 .. m |-> Reject(c, x, j)]]
           done == CHOOSE g : g = [j \in 0 .. m |-> IF j = 0 THEN c ELSE Reject(c, g[j - 1], j)]
<1>1. d = done[m]
  BY DEF RejectTurns, InTurn
<1>2. c \in C
  OBVIOUS
<1>3. ASSUME NEW x \in C, NEW j \in 1 .. m PROVE Reject(c, x, j) \in C
  <2> DEFINE y == Reject(c, x, j)
  <2>1. RejectingExact(p, c, n, y)
    BY RejectOneExact
  <2>2. y \in Chan
    BY <2>1 DEF RejectingExact, Rejecting, Fit
  <2> QED
    BY <2>1, <2>2
<1>4. F \in [C -> [1 .. m -> C]] /\ \A x \in C, j \in 1 .. m : F[x][j] = Reject(c, x, j)
  <2> HIDE DEF C
  <2> QED
    BY <1>3
<1> HIDE DEF C, F, done
<1>5. F \in Steps(m, C)
  BY <1>4 DEF Steps
<1>6. PICK g : Leads(g, m, C, c, F)
  BY <1>2, <1>5, TurnsExist
<1>7. g \in [0 .. m -> C] /\ g[0] = c /\ \A j \in 1 .. m : g[j] = F[g[j - 1]][j]
  BY <1>6 DEF Leads
<1>8. g = [j \in 0 .. m |-> IF j = 0 THEN c ELSE Reject(c, g[j - 1], j)]
  <2>1. ASSUME NEW j \in 0 .. m
        PROVE  g[j] = IF j = 0 THEN c ELSE Reject(c, g[j - 1], j)
    <3>1. CASE j = 0
      BY <1>7, <3>1
    <3>2. CASE j # 0
      <4>1. j \in 1 .. m /\ j - 1 \in 0 .. m
        BY <3>2
      <4> QED
        BY <1>4, <1>7, <3>2, <4>1
    <3> QED
      BY <3>1, <3>2
  <2>2. g = [j \in 0 .. m |-> g[j]]
    BY <1>7
  <2> QED
    BY <2>1, <2>2
<1>9. done = [j \in 0 .. m |-> IF j = 0 THEN c ELSE Reject(c, done[j - 1], j)]
  <2> DEFINE Is(h) == h = [j \in 0 .. m |-> IF j = 0 THEN c ELSE Reject(c, h[j - 1], j)]
  <2>1. \E h : Is(h)
    BY <1>8
  <2>2. done = CHOOSE h : Is(h)
    BY DEF done
  <2> HIDE DEF Is
  <2>3. Is(done)
    BY <2>1, <2>2
  <2> QED
    BY <2>3 DEF Is
<1>10. done[0] \in C
  BY <1>2, <1>9
<1>11. ASSUME NEW j \in 1 .. m, done[j - 1] \in C PROVE done[j] \in C
  <2>1. j \in 0 .. m /\ j # 0
    OBVIOUS
  <2>2. done[j] = Reject(c, done[j - 1], j)
    BY <1>9, <2>1
  <2> QED
    BY <1>3, <1>11, <2>2
<1>12. done[m] \in C
  BY <1>10, <1>11, TurnsHold
<1> QED
  BY <1>1, <1>12 DEF C

LEMMA SrejsExact ==
    ASSUME NEW p \in Places, NEW c, Fit(FALSE, c), Exact(p, c), NEW txseq \in Number,
           Gap(c, txseq), NEW d, d = send_srej(c, txseq)
    PROVE  Exact(p, d) /\ Fit(FALSE, d)
<1> DEFINE m == offset(txseq, c.expected_tx_seq)
           end == offset(c.expected_tx_seq, c.buffer_seq)
           acked == offset(c.buffer_seq, c.last_acked_seq)
           n == end + m
           to == next(txseq)
           x == RejectTurns(c, m)
           calm == FALSE
<1>1. /\ c \in Chan /\ c.expected_tx_seq \in Number /\ c.buffer_seq \in Number
      /\ c.last_acked_seq \in Number /\ c.srej_q \in SUBSET Frames
      /\ \A f \in c.srej_q : f.txseq \in Number
  BY ChanNumbers DEF Fit
<1>2. /\ m \in Number /\ end \in Number /\ acked \in Number /\ to \in Number
      /\ m \in Nat /\ end \in Nat /\ acked \in Nat /\ n \in Nat
      /\ TxWin \in Nat /\ Modulus \in Nat /\ TxWin < Modulus
  <2>1. m \in Number /\ end \in Number /\ acked \in Number /\ to \in Number
    BY <1>1, OffsetIs, NextIs
  <2> HIDE DEF m, end, acked, to
  <2> QED
    BY <2>1, Numbers
<1>3. /\ acked + end + m < TxWin
      /\ \E f \in c.srej_q : f.txseq = txseq
      /\ ListFits(c.srej_list, c.buffer_seq, end, c.srej_q)
  BY DEF Gap
<1>4. d = [x EXCEPT !.expected_tx_seq = to]
  BY DEF send_srej, RejectTurns, Reject
<1>5. ASSUME NEW j \in 1 .. m
      PROVE  offset((c.expected_tx_seq + j - 1) % Modulus, c.buffer_seq) < n
  <2> DEFINE seq == (c.expected_tx_seq + j - 1) % Modulus
  <2>1. j \in Number /\ j \in Nat /\ j # 0 /\ j <= m
    BY <1>2, Numbers
  <2>2. offset(seq, c.expected_tx_seq) = j - 1 /\ seq \in Number
    BY <1>1, <2>1, PlusOffset, PlusIs
  <2> HIDE DEF seq
  <2>3. end + offset(seq, c.expected_tx_seq) < Modulus =>
            offset(seq, c.buffer_seq) = end + offset(seq, c.expected_tx_seq)
    BY <1>1, <2>2, OffsetsAdd
  <2> HIDE DEF m, end, acked
  <2>4. offset(seq, c.buffer_seq) < n
    BY <1>2, <1>3, <2>1, <2>2, <2>3
  <2> QED
    BY <2>4 DEF seq
<1>6. ListFits(c.srej_list, c.buffer_seq, n, c.srej_q)
  <2>1. \A i \in DOMAIN c.srej_list : offset(c.srej_list[i], c.buffer_seq) \in Nat
    BY <1>1, ChanNumbers, OffsetIs, Numbers
  <2> HIDE DEF m, end, acked
  <2> QED
    BY <1>2, <1>3, <2>1 DEF ListFits
<1>7. \E h \in c.srej_q : n <= offset(h.txseq, c.buffer_seq)
  <2>1. end + m < Modulus => offset(txseq, c.buffer_seq) = end + m
    BY <1>1, OffsetsAdd DEF m, end
  <2> HIDE DEF m, end, acked
  <2>2. offset(txseq, c.buffer_seq) = n
    BY <1>2, <1>3, <2>1
  <2>3. n <= n
    BY <1>2
  <2> QED
    BY <1>3, <2>2, <2>3
<1> HIDE DEF m, end, acked
<1>8. RejectingExact(p, c, n, c)
  <2>1. Rejecting(calm, c, n, c)
    BY <1>6 DEF Rejecting, RxIs
  <2> QED
    BY <2>1 DEF RejectingExact, Alike
<1>9. RejectingExact(p, c, n, x)
  BY <1>1, <1>2, <1>5, <1>7, <1>8, RejectManyExact
<1> HIDE DEF x, n, to
<1>10. /\ x \in Chan /\ x.buffer_seq \in Number /\ x.srej_q \in SUBSET Frames
       /\ x.srej_list \in Seq(Number) /\ x.rx_state \in RxStates /\ x.srej_act \in BOOLEAN
       /\ Fit(FALSE, x) /\ TxInv(x) /\ Exact(p, x)
  <2>1. x \in Chan /\ Fit(FALSE, x) /\ TxInv(x) /\ Exact(p, x)
    BY <1>9 DEF RejectingExact, Rejecting, Fit
  <2> QED
    BY <2>1, ChanNumbers DEF RxStates
<1>11. d = PutRx(x, to, x.buffer_seq, x.srej_q, x.srej_list, x.rx_state, x.srej_act)
  BY <1>4, <1>10 DEF PutRx, Chan
<1>12. Fit(FALSE, d) /\ d \in Chan
  <2>1. to \in Number /\ calm \in BOOLEAN /\ Fit(calm, x)
    BY <1>2, <1>10
  <2> HIDE DEF calm
  <2>2. Fit(calm, d)
    BY <1>10, <1>11, <2>1, FitRx
  <2> QED
    BY <2>2 DEF Fit, calm
<1>13. Alike(x, d) /\ d.out = x.out
  BY <1>10, <1>11, ListAside
<1>14. Exact(p, d)
  BY <1>10, <1>12, <1>13, Stays
<1> QED
  BY <1>12, <1>14

\* What is rejected comes before the last frame that is stored.
LEMMA ListedBehind ==
    ASSUME NEW c \in Chan, NEW seq \in Number,
           offset(seq, c.buffer_seq) < offset(c.expected_tx_seq, c.buffer_seq),
           \E f \in c.srej_q : next(f.txseq) = c.expected_tx_seq
    PROVE  Behind(c, seq)
<1> DEFINE ahead(x) == offset(x, c.buffer_seq)
<1>1. PICK f \in c.srej_q : next(f.txseq) = c.expected_tx_seq
  OBVIOUS
<1>2. c.buffer_seq \in Number /\ c.expected_tx_seq \in Number /\ f.txseq \in Number
  BY ChanNumbers
<1>3. ahead(f.txseq) + 1 < Modulus => ahead(next(f.txseq)) = ahead(f.txseq) + 1
  BY <1>2, OffsetsAdd
<1>4. ahead(f.txseq) \in Number /\ ahead(seq) \in Number
  BY <1>2, OffsetIs
<1>5. ahead(seq) < ahead(next(f.txseq))
  BY <1>1
<1> HIDE DEF ahead
<1>6. /\ Modulus \in Nat /\ ahead(f.txseq) \in Nat /\ ahead(f.txseq) < Modulus
      /\ ahead(seq) \in Nat /\ ahead(seq) < Modulus
  BY <1>4, Numbers
<1>7. ahead(seq) <= ahead(f.txseq)
  BY <1>3, <1>5, <1>6
<1> QED
  BY <1>7 DEF Behind, ahead

LEMMA SrejFits ==
    ASSUME NEW calm \in BOOLEAN, NEW c, Fit(calm, c), NEW seq \in Number, NEW no \in BOOLEAN,
           NEW d, d = send_sframe(c, "SREJ", no, no, seq)
    PROVE  Fit(calm, d) /\ Keeps(c, d) /\ d.last_acked_seq = c.last_acked_seq
<1>1. "SREJ" \in {"RR", "RNR", "SREJ"}
  OBVIOUS
<1> QED
  BY <1>1, FitSframes

\* One more SREJ frame.
LEMMA SrejExact ==
    ASSUME NEW p \in Places, NEW c, Fit(FALSE, c), Exact(p, c), NEW seq \in Number,
           Behind(c, seq), NEW d, d = send_sframe(c, "SREJ", FALSE, FALSE, seq)
    PROVE  Fit(FALSE, d) /\ Exact(p, d) /\ Alike(c, d) /\ Keeps(c, d)
           /\ d.last_acked_seq = c.last_acked_seq
<1> DEFINE no == FALSE
           calm == FALSE
           super == "SREJ"
<1>1. /\ no \in BOOLEAN /\ calm \in BOOLEAN /\ super \in {"RR", "RNR", "SREJ"}
      /\ super = "SREJ" /\ ~no /\ Fit(calm, c) /\ d = send_sframe(c, super, no, no, seq)
      /\ d = send_sframe(c, "SREJ", no, no, seq)
  OBVIOUS
<1>2. c \in Chan /\ TxInv(c)
  BY DEF Fit
<1> HIDE DEF no, calm, super
<1>3. Fit(FALSE, d) /\ Keeps(c, d) /\ d.last_acked_seq = c.last_acked_seq
  <2>1. \A x : Fit(FALSE, x) => Fit(calm, x)
    BY DEF calm
  <2>2. \A x : Fit(calm, x) => Fit(FALSE, x)
    BY DEF calm
  <2>3. d = send_sframe(c, "SREJ", no, no, seq) /\ no \in BOOLEAN /\ calm \in BOOLEAN
    BY <1>1
  <2>4. Fit(calm, c)
    BY <2>1
  <2>5. Fit(calm, d) /\ Keeps(c, d) /\ d.last_acked_seq = c.last_acked_seq
    BY <2>3, <2>4, SrejFits, ZenonT(40)
  <2> QED
    BY <2>2, <2>5
<1>4. d \in Chan
  BY <1>3 DEF Fit
<1>5. Exact(p, d) /\ Alike(c, d)
  BY <1>1, <1>2, <1>4, SframeExact
<1> QED
  BY <1>1, <1>3, <1>4, <1>5

LEMMA SrejTailExact ==
    ASSUME NEW p \in Places, NEW c, Sound(p, c), NEW d, d = send_srej_tail(c)
    PROVE  Sound(p, d)
<1> DEFINE seq == Last(c.srej_list)
           n == Len(c.srej_list)
<1>1. c \in Chan /\ RxInv(c) /\ c.srej_list \in Seq(Number) /\ Good(FALSE, c) /\ Exact(p, c)
  BY SoundIs, ChanNumbers
<1>2. Fit(FALSE, c)
  BY <1>1, GoodIs
<1>3. CASE c.srej_list = <<>>
  BY <1>3 DEF send_srej_tail
<1>4. CASE c.srej_list # <<>>
  <2>1. n \in DOMAIN c.srej_list /\ seq = c.srej_list[n] /\ seq \in Number
    BY <1>1, <1>4 DEF Last
  <2>2. offset(seq, c.buffer_seq) < offset(c.expected_tx_seq, c.buffer_seq)
    BY <1>1, <2>1 DEF RxInv
  <2>3. c.buffer_seq \in Number /\ c.expected_tx_seq \in Number
    BY <1>1, ChanNumbers
  <2>4. d = send_sframe(c, "SREJ", FALSE, FALSE, seq)
    BY <1>4 DEF send_srej_tail
  <2> HIDE DEF seq, n
  <2>5. offset(seq, c.buffer_seq) \in Nat /\ offset(c.expected_tx_seq, c.buffer_seq) \in Nat
    BY <2>1, <2>3, OffsetIs, Numbers
  <2>6. Behind(c, seq)
    <3>1. offset(c.expected_tx_seq, c.buffer_seq) # 0
      BY <2>2, <2>5
    <3>2. \E f \in c.srej_q : next(f.txseq) = c.expected_tx_seq
      BY <1>1, <3>1 DEF RxInv
    <3> QED
      BY <1>1, <2>1, <2>2, <3>2, ListedBehind
  <2>7. Fit(FALSE, d) /\ Exact(p, d) /\ Keeps(c, d)
    BY <1>1, <1>2, <2>1, <2>4, <2>6, SrejExact
  <2>8. RxInv(d)
    BY <1>1, <2>7, RxKept DEF Fit
  <2> QED
    BY <2>7, <2>8, GoodIs DEF Sound
<1> QED
  BY <1>3, <1>4

RepeatingExact(p, c, d) == Repeating(FALSE, c, d) /\ Exact(p, d) /\ Alike(c, d)

LEMMA RejectAgainExact ==
    ASSUME NEW p \in Places, NEW c \in Chan, RepeatingExact(p, c, c), NEW m \in Nat,
           \A j \in 1 .. m : j \in DOMAIN c.srej_list /\ Behind(c, c.srej_list[j]),
           NEW d, d = AgainTurns(c, m)
    PROVE  RepeatingExact(p, c, d)
<1> DEFINE C == {x \in Chan : RepeatingExact(p, c, x)}
           F == [x \in C |-> [j \in 1 .. m |-> RejectAgain(c, x, j)]]
           done == CHOOSE g : g = [j \in 0 .. m |-> IF j = 0 THEN c
                                                    ELSE RejectAgain(c, g[j - 1], j)]
<1>1. d = done[m]
  BY DEF AgainTurns, InTurn
<1>2. c \in C
  OBVIOUS
<1>3. ASSUME NEW x \in C, NEW j \in 1 .. m PROVE RejectAgain(c, x, j) \in C
  <2> DEFINE y == RejectAgain(c, x, j)
             seq == c.srej_list[j]
  <2>1. y = send_sframe(x, "SREJ", FALSE, FALSE, seq)
    BY DEF RejectAgain
  <2>2. seq \in Number /\ Behind(c, seq)
    BY ChanNumbers
  <2>3. /\ Fit(FALSE, x) /\ Repeating(FALSE, c, x) /\ Exact(p, x) /\ Alike(c, x) /\ x \in Chan
    BY DEF Repeating, RepeatingExact
  <2> HIDE DEF y, seq, C
  <2>4. Behind(x, seq)
    BY <2>2, <2>3 DEF Alike, Behind
  <2>5. /\ Fit(FALSE, y) /\ Exact(p, y) /\ Alike(x, y) /\ Keeps(x, y)
        /\ y.last_acked_seq = x.last_acked_seq
    BY <2>1, <2>2, <2>3, <2>4, SrejExact
  <2>6. Repeating(FALSE, c, y) /\ y \in Chan
    BY <2>3, <2>5 DEF Repeating, RxIs, Keeps, SameRx, Fit
  <2>7. Alike(c, y)
    BY <2>3, <2>5, <2>6, AlikeAll
  <2> QED
    BY <2>5, <2>6, <2>7 DEF RepeatingExact, C, y
<1>4. F \in [C -> [1 .. m -> C]] /\ \A x \in C, j \in 1 .. m : F[x][j] = RejectAgain(c, x, j)
  <2> HIDE DEF C
  <2> QED
    BY <1>3
<1> HIDE DEF C, F, done
<1>5. F \in Steps(m, C)
  BY <1>4 DEF Steps
<1>6. PICK g : Leads(g, m, C, c, F)
  BY <1>2, <1>5, TurnsExist
<1>7. g \in [0 .. m -> C] /\ g[0] = c /\ \A j \in 1 .. m : g[j] = F[g[j - 1]][j]
  BY <1>6 DEF Leads
<1>8. g = [j \in 0 .. m |-> IF j = 0 THEN c ELSE RejectAgain(c, g[j - 1], j)]
  <2>1. ASSUME NEW j \in 0 .. m
        PROVE  g[j] = IF j = 0 THEN c ELSE RejectAgain(c, g[j - 1], j)
    <3>1. CASE j = 0
      BY <1>7, <3>1
    <3>2. CASE j # 0
      <4>1. j \in 1 .. m /\ j - 1 \in 0 .. m
        BY <3>2
      <4> QED
        BY <1>4, <1>7, <3>2, <4>1
    <3> QED
      BY <3>1, <3>2
  <2>2. g = [j \in 0 .. m |-> g[j]]
    BY <1>7
  <2> QED
    BY <2>1, <2>2
<1>9. done = [j \in 0 .. m |-> IF j = 0 THEN c ELSE RejectAgain(c, done[j - 1], j)]
  <2> DEFINE Is(h) == h = [j \in 0 .. m |-> IF j = 0 THEN c ELSE RejectAgain(c, h[j - 1], j)]
  <2>1. \E h : Is(h)
    BY <1>8
  <2>2. done = CHOOSE h : Is(h)
    BY DEF done
  <2> HIDE DEF Is
  <2>3. Is(done)
    BY <2>1, <2>2
  <2> QED
    BY <2>3 DEF Is
<1>10. done[0] \in C
  BY <1>2, <1>9
<1>11. ASSUME NEW j \in 1 .. m, done[j - 1] \in C PROVE done[j] \in C
  <2>1. j \in 0 .. m /\ j # 0
    OBVIOUS
  <2>2. done[j] = RejectAgain(c, done[j - 1], j)
    BY <1>9, <2>1
  <2> QED
    BY <1>3, <1>11, <2>2
<1>12. done[m] \in C
  BY <1>10, <1>11, TurnsHold
<1> QED
  BY <1>1, <1>12 DEF C

LEMMA SrejListExact ==
    ASSUME NEW p \in Places, NEW c, Fit(FALSE, c), Exact(p, c), NEW txseq \in Number,
           Pending(c, txseq), NEW d, d = send_srej_list(c, txseq)
    PROVE  Exact(p, d)
<1> DEFINE list == c.srej_list
           i == SelectInSeq(list, LAMBDA seq : seq = txseq)
           l == Turned(list, i)
           x == AgainTurns(c, i - 1)
           calm == FALSE
<1>1. /\ c \in Chan /\ list \in Seq(Number) /\ c.buffer_seq \in Number
  BY ChanNumbers DEF Fit
<1>2. i \in DOMAIN list /\ list[i] = txseq
  <2> DEFINE I == {j \in 1 .. Len(list) : list[j] = txseq}
  <2>1. i = IF I # {} THEN Min(I) ELSE 0
    BY DEF SelectInSeq
  <2>2. DOMAIN list = 1 .. Len(list) /\ I \subseteq Nat
    BY <1>1
  <2>3. I # {}
    BY <2>2 DEF Pending
  <2>4. i \in I
    <3> HIDE DEF I, i
    <3> QED
      BY <2>1, <2>2, <2>3, MinIs
  <2> HIDE DEF i
  <2> QED
    BY <2>2, <2>4
<1>3. i \in Nat /\ i # 0 /\ i - 1 \in Nat /\ i <= Len(list) /\ DOMAIN list = 1 .. Len(list)
      /\ Len(list) \in Nat
  <2> HIDE DEF i
  <2> QED
    BY <1>1, <1>2
<1>4. \A j \in 1 .. i - 1 : j \in DOMAIN list /\ Behind(c, list[j])
  <2> TAKE j \in 1 .. i - 1
  <2>1. j \in DOMAIN list
    <3> HIDE DEF i, list
    <3> QED
      BY <1>3
  <2>2. list[j] \in Number /\ offset(list[j], c.buffer_seq) < offset(c.expected_tx_seq, c.buffer_seq)
    BY <1>1, <2>1, ChanNumbers DEF Pending
  <2>3. \E f \in c.srej_q : next(f.txseq) = c.expected_tx_seq
    BY DEF Pending
  <2> HIDE DEF i, list
  <2> QED
    BY <1>1, <2>1, <2>2, <2>3, ListedBehind
<1>5. d = [x EXCEPT !.srej_list = SubSeq(@, i + 1, Len(@)) \o SubSeq(@, 1, i - 1)]
  <2>1. d = [x EXCEPT !.srej_list = SubSeq(@, i - 1 + 2, Len(@)) \o SubSeq(@, 1, i - 1)]
    BY <1>3 DEF send_srej_list, AgainTurns, RejectAgain
  <2>2. i - 1 + 2 = i + 1
    <3> HIDE DEF i
    <3> QED
      BY <1>3
  <2> HIDE DEF x, i
  <2> QED
    BY <2>1, <2>2
<1>6. Fit(FALSE, d) /\ d \in Chan
  <2>1. calm \in BOOLEAN /\ Fit(calm, c)
    OBVIOUS
  <2> HIDE DEF calm, i, list, l, x
  <2>2. Fit(calm, d)
    BY <2>1, SrejLists
  <2> QED
    BY <2>2 DEF Fit, calm
<1> HIDE DEF i, x
<1>7. RepeatingExact(p, c, c)
  BY DEF RepeatingExact, Repeating, RxIs, Alike
<1>8. RepeatingExact(p, c, x)
  BY <1>1, <1>3, <1>4, <1>7, RejectAgainExact DEF x
<1>9. x \in Chan /\ TxInv(x) /\ Exact(p, x) /\ x.srej_list = list
  BY <1>8 DEF RepeatingExact, Repeating, Fit, RxIs
<1>10. d = [x EXCEPT !.srej_list = l]
  BY <1>5, <1>9 DEF Turned
<1> HIDE DEF l
<1>11. d = PutRx(x, x.expected_tx_seq, x.buffer_seq, x.srej_q, l, x.rx_state, x.srej_act)
  BY <1>9, <1>10 DEF PutRx, Chan
<1>12. Alike(x, d) /\ d.out = x.out
  BY <1>9, <1>11, ListAside
<1> QED
  BY <1>6, <1>9, <1>12, Stays

-----------------------------------------------------------------------------
(* The receiver's socket *)

\* What receiving leaves alone.
SameSender(c, d) ==
    /\ d.sent = c.sent /\ d.expected_ack_seq = c.expected_ack_seq /\ d.head = c.head
    /\ d.unacked = c.unacked /\ d.tx_q = c.tx_q /\ d.out = c.out

LEMMA SenderExact ==
    ASSUME NEW c, NEW d, SameSender(c, d)
    PROVE  /\ Forgotten(d) = Forgotten(c) /\ Newest(d) = Newest(c) /\ (TxExact(c) => TxExact(d))
           /\ TxInv(c) /\ d.next_tx_seq = c.next_tx_seq => TxInv(d)
  BY DEF SameSender, Forgotten, Newest, TxExact, TxInv

\* What is stored may be thrown away.
LEMMA ShrinkExact ==
    ASSUME NEW p \in Places, NEW c \in Chan, Exact(p, c), NEW d, SameSender(c, d),
           d.got = c.got, d.buffer_seq = c.buffer_seq, d.srej_q \subseteq c.srej_q, d.up => c.up
    PROVE  Exact(p, d)
<1>1. EndExact(p, d)
  BY SenderExact DEF Exact, EndExact, SameSender
<1>2. ASSUME d.up PROVE Flow(p, d)
  <2>1. Flow(p, c)
    BY <1>2 DEF Exact
  <2> QED
    BY <2>1, SenderExact DEF Flow, RxExact, SameSender
<1> QED
  BY <1>1, <1>2 DEF Exact

\* The next unit.
LEMMA GrowExact ==
    ASSUME NEW p \in Places, NEW c \in Chan, Exact(p, c),
           \A b \in p.caps : Len(c.got) + 1 <= b, NEW d, SameSender(c, d),
           d.got = Append(c.got, Len(c.got) + 1), d.buffer_seq = next(c.buffer_seq),
           d.srej_q \subseteq c.srej_q, \A f \in d.srej_q : f.txseq # c.buffer_seq,
           d.up => c.up
    PROVE  Exact(p, d) /\ Len(d.got) = Len(c.got) + 1
<1> DEFINE g == Len(c.got)
           top == Newest(c)
           l == p.link \o c.out
           none == <<>>
<1>1. c.got \in Seq(Nat) /\ c.out \in Seq(Frame) /\ c.buffer_seq \in Number
      /\ \A f \in c.srej_q : f.txseq \in Number
  BY ChanNumbers
<1>2. g \in Nat /\ Len(d.got) = g + 1 /\ DOMAIN d.got = 1 .. g + 1 /\ DOMAIN c.got = 1 .. g
      /\ d.got[g + 1] = g + 1 /\ \A i \in 1 .. g : d.got[i] = c.got[i]
  BY <1>1
<1>3. /\ p.base \in Nat /\ p.newest \in Nat /\ p.got \in Nat /\ p.newest \in p.caps
      /\ p.caps \in SUBSET Nat
  BY PlaceFields
<1>4. EndExact(p, c) /\ p.base <= g /\ p.got <= g /\ InOrder(c.got) /\ TxExact(c)
  BY DEF Exact, EndExact
<1>5. \A b \in p.caps : g + 1 <= b
  OBVIOUS
<1> HIDE DEF g
<1>6. InOrder(d.got)
  <2>1. \A i \in 1 .. g + 1 : i \in 1 .. g \/ i = g + 1
    BY <1>2
  <2> QED
    BY <1>2, <1>4, <2>1 DEF InOrder
<1>7. EndExact(p, d)
  <2>1. p.base <= g + 1 /\ p.got <= g + 1 /\ g + 1 <= p.newest
    BY <1>2, <1>3, <1>4, <1>5
  <2> QED
    BY <1>2, <1>4, <1>6, <2>1, SenderExact DEF EndExact, SameSender
<1>8. ASSUME d.up PROVE Flow(p, d)
  <2>1. /\ Flow(p, c) /\ RxExact(c) /\ Lane(p, top, g, l) /\ \A u \in p.units : u <= top
        /\ \A b \in p.caps : \A f \in c.srej_q : f.sdu <= b
    BY <1>8 DEF Exact, Flow, g
  <2>2. RxExact(d)
    <3>1. c.buffer_seq = Nth(g) /\ \A f \in c.srej_q : f.sdu = g + offset(f.txseq, c.buffer_seq) + 1
      BY <2>1 DEF RxExact, g
    <3>2. d.buffer_seq = Nth(g + 1)
      BY <1>2, <3>1, Nths
    <3>3. ASSUME NEW f \in d.srej_q PROVE f.sdu = g + 1 + offset(f.txseq, d.buffer_seq) + 1
      <4> DEFINE x == offset(f.txseq, c.buffer_seq)
                 y == offset(f.txseq, d.buffer_seq)
      <4>1. f \in c.srej_q /\ f.txseq \in Number /\ f.txseq # c.buffer_seq
        BY <1>1
      <4>2. y = x - 1
        BY <1>1, <4>1, OffsetsAdd
      <4>3. x \in Nat /\ f.sdu = g + x + 1
        BY <1>1, <3>1, <4>1, OffsetIs, Numbers
      <4> HIDE DEF x, y
      <4>4. f.sdu = g + 1 + y + 1
        BY <1>2, <4>2, <4>3
      <4> QED
        BY <4>4 DEF y
    <3> QED
      BY <1>2, <3>2, <3>3 DEF RxExact
  <2>3. Near(p, g) /\ top \in Nat
    BY <1>4, <2>1, NearIs DEF g
  <2>4. Near(p, g + 1) /\ g <= g + 1
    BY <1>2, <1>3, <1>5, <2>3 DEF Near
  <2>5. l \in Seq(Frame) /\ none \in Seq(Frame) /\ DOMAIN none = {} /\ l \o none = l
    <3>1. p.link \in Seq(Frame)
      BY PlaceFields
    <3>2. l \in Seq(Frame)
      BY <1>1, <3>1
    <3> HIDE DEF l
    <3> QED
      BY <3>2
  <2> HIDE DEF l, top, none
  <2>6. top \in Int /\ top <= top /\ g \in Nat
    BY <1>2, <2>3
  <2>7. Lane(p, top, g + 1, l \o none)
    <3>1. \A i \in DOMAIN none : Fresh(p, top, g + 1, none[i])
      BY <2>5
    <3> DEFINE g2 == g + 1
    <3> HIDE DEF g2
    <3>2. Near(p, g2) /\ g <= g2 /\ \A i \in DOMAIN none : Fresh(p, top, g2, none[i])
      BY <2>4, <3>1 DEF g2
    <3>3. Lane(p, top, g2, l \o none)
      BY <2>1, <2>5, <2>6, <3>2, LaneGrows
    <3> QED
      BY <3>3 DEF g2
  <2> QED
    BY <1>2, <1>5, <2>1, <2>2, <2>5, <2>7, SenderExact DEF Flow, SameSender, l, top
<1> QED
  BY <1>2, <1>7, <1>8 DEF Exact, g

LEMMA BusyDetectedExact ==
    ASSUME NEW p \in Places, NEW c, Sound(p, c), NEW d, d = busy_detected(c)
    PROVE  Sound(p, d)
<1> DEFINE no == FALSE
           yes == TRUE
           c1 == [c EXCEPT !.local_busy = yes]
           c2 == IF c.rx_state = "SREJ_SENT" THEN abort_rx_srej_sent(c1) ELSE c1
<1>1. c \in Chan /\ c.full \in BOOLEAN /\ c.got \in Seq(Nat) /\ Exact(p, c) /\ Good(FALSE, c)
  BY SoundIs, ChanNumbers
<1>2. d = send_ack(c2)
  BY DEF busy_detected
<1>3. c1 = PutBusy(c, yes, c.full, c.got)
  BY <1>1 DEF PutBusy, Chan
<1>4. no \in BOOLEAN /\ yes \in BOOLEAN /\ no = FALSE /\ Good(no, c)
  BY <1>1
<1>5. /\ c1.got = c.got /\ c1.buffer_seq = c.buffer_seq /\ c1.srej_q = c.srej_q
      /\ c1.up = c.up /\ SameSender(c, c1)
  BY <1>1 DEF Chan, SameSender
<1> HIDE DEF c1, no, yes
<1>6. Good(no, c1) /\ c1 \in Chan
  <2>1. c.full \in BOOLEAN /\ c.got \in Seq(Nat)
    BY <1>1
  <2>2. Good(no, c1)
    BY <1>3, <1>4, <2>1, GoodBusy
  <2> QED
    BY <2>2 DEF Good
<1>7. Exact(p, c1)
  BY <1>1, <1>5, ShrinkExact
<1>8. Good(no, c2) /\ Exact(p, c2)
  <2>1. CASE c.rx_state = "SREJ_SENT"
    <3> DEFINE e == abort_rx_srej_sent(c1)
    <3>1. Good(no, e)
      BY <1>4, <1>6, Aborts
    <3>2. /\ e.got = c1.got /\ e.buffer_seq = c1.buffer_seq /\ e.srej_q \subseteq c1.srej_q
          /\ e.up = c1.up /\ SameSender(c1, e)
      BY <1>6 DEF abort_rx_srej_sent, Chan, SameSender
    <3> HIDE DEF e
    <3>3. Exact(p, e)
      BY <1>6, <1>7, <3>2, ShrinkExact
    <3> QED
      BY <2>1, <3>1, <3>3 DEF e
  <2>2. CASE c.rx_state # "SREJ_SENT"
    BY <1>6, <1>7, <2>2
  <2> QED
    BY <2>1, <2>2
<1> HIDE DEF c2
<1>9. Sound(p, c2)
  BY <1>4, <1>8 DEF Sound
<1> QED
  BY <1>2, <1>9, AcksExact

LEMMA PollExact ==
    ASSUME NEW p \in Places, NEW c, Sound(p, c), NEW d \in Chan, d = PollAndWait(c)
    PROVE  Exact(p, d)
<1>1. c \in Chan /\ TxInv(c) /\ Exact(p, c)
  BY SoundIs
<1>2. Alike(c, d) /\ d.out = c.out
  BY <1>1 DEF PollAndWait, set_monitor_timer, Chan, Alike
<1> QED
  BY <1>1, <1>2, Stays

LEMMA BusyClearedExact ==
    ASSUME NEW p \in Places, NEW c, Sound(p, c), NEW d, d = busy_clear(c)
    PROVE  Sound(p, d)
<1> DEFINE no == FALSE
           yes == TRUE
           super == "RR"
           c1 == [c EXCEPT !.local_busy = no]
           c2 == send_sframe(c1, super, yes, no, c.buffer_seq)
<1>1. /\ c \in Chan /\ c.full \in BOOLEAN /\ c.got \in Seq(Nat) /\ c.buffer_seq \in Number
      /\ Exact(p, c) /\ Good(FALSE, c)
  BY SoundIs, ChanNumbers
<1>2. d = IF c.rnr_sent THEN PollAndWait(c2) ELSE c1
  BY DEF busy_clear
<1>3. c1 = PutBusy(c, no, c.full, c.got)
  BY <1>1 DEF PutBusy, Chan
<1>4. no \in BOOLEAN /\ no = FALSE /\ Good(no, c) /\ yes \in BOOLEAN
      /\ super \in {"RR", "RNR", "SREJ"} /\ super # "SREJ" /\ super = "RR"
  BY <1>1
<1>5. /\ c1.got = c.got /\ c1.buffer_seq = c.buffer_seq /\ c1.srej_q = c.srej_q
      /\ c1.up = c.up /\ SameSender(c, c1)
  BY <1>1 DEF Chan, SameSender
<1>6. Good(FALSE, d) /\ d \in Chan
  BY <1>1, BusyCleared DEF Good
<1> HIDE DEF c1, no, yes, super
<1>7. Good(no, c1) /\ c1 \in Chan /\ TxInv(c1)
  BY <1>1, <1>3, <1>4, GoodBusy, SMTT(30) DEF Good
<1>8. Exact(p, c1)
  BY <1>1, <1>5, ShrinkExact
<1>9. Good(no, c2) /\ c2 \in Chan
  <2>1. no => super # "RNR"
    BY <1>4
  <2>2. Good(no, c2)
    BY <1>1, <1>4, <1>5, <1>7, <2>1, Sframes
  <2> QED
    BY <2>2 DEF Good
<1>10. Exact(p, c2)
  BY <1>1, <1>4, <1>5, <1>7, <1>8, <1>9, SframeExact
<1> HIDE DEF c2
<1>11. Sound(p, c2)
  BY <1>4, <1>9, <1>10 DEF Sound
<1>12. Exact(p, d)
  BY <1>2, <1>6, <1>8, <1>11, PollExact
<1> QED
  BY <1>6, <1>12 DEF Sound

\* A unit that is passed on by the handler that took c to the point where its number is
\* done with.
LEMMA ReceivedExact ==
    ASSUME NEW p \in Places, NEW c, Good(FALSE, c), EndExact(p, c), NEW sdu \in Nat,
           NEW e, e = [c EXCEPT !.got = Append(@, sdu)], Exact(p, e), NEW filled \in BOOLEAN,
           NEW d, d = recv(c, sdu, filled)
    PROVE  Sound(p, d) /\ (d.up /\ ~d.local_busy => SameWindow(c, d))
<1> DEFINE no == FALSE
           yes == TRUE
           h == [e EXCEPT !.full = yes]
<1>1. c \in Chan /\ c.full \in BOOLEAN /\ c.got \in Seq(Nat) /\ c.local_busy \in BOOLEAN
  BY ChanNumbers DEF Good
<1>2. Good(FALSE, d) /\ d \in Chan /\ (d.up /\ ~d.local_busy => SameWindow(c, d))
  <2>1. no \in BOOLEAN /\ Good(no, c) /\ (no => ~filled)
    OBVIOUS
  <2> HIDE DEF no, yes, h
  <2>2. Good(no, d) /\ (d.up /\ ~d.local_busy => SameWindow(c, d))
    BY <2>1, Received
  <2> QED
    BY <2>2 DEF Good, no
<1>3. e = PutBusy(c, c.local_busy, c.full, Append(c.got, sdu)) /\ e \in Chan
      /\ h = PutBusy(c, c.local_busy, yes, Append(c.got, sdu))
      /\ SameSender(e, h) /\ h.got = e.got /\ h.buffer_seq = e.buffer_seq
      /\ h.srej_q = e.srej_q /\ h.up = e.up
  <2> DEFINE got == Append(c.got, sdu)
  <2>1. got \in Seq(Nat) /\ e = [c EXCEPT !.got = got]
    BY <1>1
  <2> HIDE DEF got
  <2>2. e = PutBusy(c, c.local_busy, c.full, got) /\ e \in Chan
        /\ h = PutBusy(c, c.local_busy, yes, got)
        /\ SameSender(e, h) /\ h.got = e.got /\ h.buffer_seq = e.buffer_seq
        /\ h.srej_q = e.srej_q /\ h.up = e.up
    BY <1>1, <2>1, ZenonT(40) DEF PutBusy, Chan, SameSender
  <2> QED
    BY <2>2 DEF got
<1>4. CASE c.full
  <2>1. d = send_disconn_req(c)
    BY <1>4 DEF recv
  <2>2. d.up = FALSE /\ SameSender(c, d) /\ d.got = c.got
    BY <1>1, <2>1 DEF send_disconn_req, Chan, SameSender
  <2>3. EndExact(p, d)
    BY <2>2, SenderExact DEF EndExact, SameSender
  <2> QED
    BY <1>2, <2>2, <2>3 DEF Sound, Exact
<1>5. CASE ~c.full /\ ~filled
  <2>1. d = e
    BY <1>5 DEF recv
  <2> QED
    BY <1>2, <2>1 DEF Sound
<1>6. CASE ~c.full /\ filled
  <2>1. d = busy_detected(h)
    BY <1>6 DEF recv
  <2>2. Exact(p, h)
    BY <1>3, ShrinkExact
  <2>3. Good(FALSE, h)
    <3> DEFINE got == Append(c.got, sdu)
    <3>1. no \in BOOLEAN /\ yes \in BOOLEAN /\ Good(no, c) /\ (no => ~c.local_busy /\ ~yes)
      OBVIOUS
    <3>2. got \in Seq(Nat) /\ h = PutBusy(c, c.local_busy, yes, got)
      BY <1>1, <1>3
    <3> HIDE DEF no, yes, h, got
    <3>3. Good(no, h)
      BY <1>1, <3>1, <3>2, GoodBusy
    <3> QED
      BY <3>3 DEF Good, no
  <2> HIDE DEF h
  <2>4. Sound(p, h)
    BY <2>2, <2>3 DEF Sound
  <2>5. Sound(p, d)
    BY <2>1, <2>4, BusyDetectedExact
  <2> QED
    BY <1>2, <2>5
<1> QED
  BY <1>4, <1>5, <1>6

LEMMA TakesFirst ==
    ASSUME NEW d, Good(FALSE, d), d.rx_state = "SREJ_SENT", NEW f \in d.srej_q,
           f.txseq = d.buffer_seq, NEW e, e = [d EXCEPT !.srej_q = @ \ {f}, !.buffer_seq = next(@)]
    PROVE  Good(FALSE, e)
<1>1. FALSE \in BOOLEAN
  OBVIOUS
<1> QED
  BY <1>1, TakesOne

\* The first unit that is stored is passed on.
LEMMA TakeExact ==
    ASSUME NEW p \in Places, NEW d, Sound(p, d), d.up, d.rx_state = "SREJ_SENT",
           NEW f \in d.srej_q, f.txseq = d.buffer_seq, NEW filled \in BOOLEAN,
           NEW e, e = [d EXCEPT !.srej_q = @ \ {f}, !.buffer_seq = next(@)],
           NEW x, x = recv(e, f.sdu, filled)
    PROVE  Sound(p, x) /\ (x.up /\ ~x.local_busy => SameWindow(e, x))
<1> DEFINE g == Len(d.got)
           h == [e EXCEPT !.got = Append(@, f.sdu)]
<1>1. d \in Chan /\ Good(FALSE, d) /\ Exact(p, d) /\ RxInv(d) /\ EndExact(p, d) /\ Flow(p, d)
      /\ d.buffer_seq \in Number /\ d.got \in Seq(Nat) /\ f.sdu \in Nat
  BY SoundIs, ChanNumbers DEF Exact
<1>2. Good(FALSE, e) /\ e \in Chan
  <2>1. Good(FALSE, d)
    BY <1>1
  <2> HIDE DEF g, h
  <2>2. Good(FALSE, e)
    BY <2>1, TakesFirst
  <2> QED
    BY <2>2 DEF Good
<1>3. f.sdu = g + 1 /\ \A b \in p.caps : g + 1 <= b
  <2>1. f.sdu = g + offset(f.txseq, d.buffer_seq) + 1 /\ \A b \in p.caps : f.sdu <= b
    BY <1>1 DEF Flow, RxExact
  <2>2. offset(f.txseq, d.buffer_seq) = 0 /\ g \in Nat
    BY <1>1, OffsetsAdd
  <2>3. f.sdu = g + 1
    BY <2>1, <2>2
  <2> QED
    BY <2>1, <2>3
<1>4. /\ SameSender(d, e) /\ e.got = d.got /\ e.up = d.up
      /\ SameSender(d, h) /\ h.got = Append(d.got, f.sdu) /\ h.up = d.up
      /\ h.buffer_seq = next(d.buffer_seq) /\ h.srej_q = d.srej_q \ {f}
  <2> DEFINE to == next(d.buffer_seq)
             q == d.srej_q \ {f}
             got == Append(d.got, f.sdu)
  <2>1. e = [d EXCEPT !.srej_q = q, !.buffer_seq = to] /\ e.got = d.got
    BY <1>1 DEF Chan
  <2>2. h = [e EXCEPT !.got = got]
    BY <2>1
  <2> HIDE DEF to, q, got, h
  <2>3. /\ SameSender(d, e) /\ e.got = d.got /\ e.up = d.up
        /\ SameSender(d, h) /\ h.got = got /\ h.up = d.up
        /\ h.buffer_seq = to /\ h.srej_q = q
    BY <1>1, <2>1, <2>2, ZenonT(40) DEF Chan, SameSender
  <2> QED
    BY <2>3 DEF to, q, got
<1>5. EndExact(p, e)
  BY <1>1, <1>4, SenderExact DEF EndExact, SameSender
<1>6. \A k \in d.srej_q \ {f} : k.txseq # d.buffer_seq
  BY <1>1 DEF RxInv
<1>7. Exact(p, h)
  <2>1. \A b \in p.caps : Len(d.got) + 1 <= b
    BY <1>3
  <2>2. h.got = Append(d.got, Len(d.got) + 1) /\ h.srej_q \subseteq d.srej_q
        /\ \A k \in h.srej_q : k.txseq # d.buffer_seq
    BY <1>3, <1>4, <1>6
  <2> HIDE DEF h, g
  <2> QED
    BY <1>1, <1>4, <2>1, <2>2, GrowExact
<1>8. h = [e EXCEPT !.got = Append(@, f.sdu)]
  OBVIOUS
<1> HIDE DEF h, g
<1> QED
  BY <1>1, <1>2, <1>5, <1>7, <1>8, ReceivedExact

PassingExact(p, c, m, d, j) == Passing(FALSE, c, m, d, j) /\ Exact(p, d)

LEMMA PassOneExact ==
    ASSUME NEW p \in Places, NEW c \in Chan, NEW m \in Number,
           \A j \in 1 .. m : Stored(c, j) # {}, NEW fill \in Nat,
           NEW j \in 1 .. m, NEW d, PassingExact(p, c, m, d, j - 1),
           NEW x, x = Pass(c, fill, d, j)
    PROVE  PassingExact(p, c, m, x, j)
<1>1. c.buffer_seq \in Nat /\ j \in Nat /\ j <= m /\ m \in Nat
  <2>1. c.buffer_seq \in Number
    BY ChanNumbers
  <2> QED
    BY <2>1, Numbers
<1>2. Passing(FALSE, c, m, d, j - 1) /\ Exact(p, d) /\ Good(FALSE, d) /\ Sound(p, d)
  BY DEF PassingExact, Passing, Sound
<1>3. Passing(FALSE, c, m, x, j)
  <2> DEFINE calm == FALSE
  <2>1. calm \in BOOLEAN /\ (calm => fill = 0)
    OBVIOUS
  <2>2. Passing(calm, c, m, d, j - 1)
    BY <1>2
  <2> HIDE DEF calm
  <2>3. Passing(calm, c, m, x, j)
    BY <2>1, <2>2, PassesOne
  <2> QED
    BY <2>3 DEF calm
<1>4. CASE d.local_busy \/ ~d.up
  <2>1. x = d
    BY <1>4 DEF Pass
  <2> QED
    BY <1>2, <1>3, <2>1 DEF PassingExact
<1>5. CASE ~(d.local_busy \/ ~d.up)
  <2> DEFINE f == CHOOSE f \in Stored(c, j) : TRUE
             e == [d EXCEPT !.srej_q = @ \ {f}, !.buffer_seq = next(@)]
             filled == j = fill
  <2>1. x = recv(e, f.sdu, filled) /\ filled \in BOOLEAN
    BY <1>5 DEF Pass
  <2>2. f \in Stored(c, j)
    OBVIOUS
  <2>3. /\ d.buffer_seq = (c.buffer_seq + (j - 1)) % Modulus /\ d.rx_state = "SREJ_SENT"
        /\ \A h \in j - 1 + 1 .. m : Stored(c, h) \subseteq d.srej_q
    BY <1>2, <1>5 DEF Passing
  <2> HIDE DEF f, filled
  <2>4. c.buffer_seq + (j - 1) = c.buffer_seq + j - 1 /\ j \in j - 1 + 1 .. m
    BY <1>1
  <2>5. f \in d.srej_q /\ f.txseq = d.buffer_seq
    BY <2>2, <2>3, <2>4 DEF Stored
  <2>6. d.up
    BY <1>5
  <2> HIDE DEF e
  <2>7. e = [d EXCEPT !.srej_q = @ \ {f}, !.buffer_seq = next(@)]
    BY DEF e
  <2>8. Sound(p, x)
    BY <1>2, <2>1, <2>3, <2>5, <2>6, <2>7, TakeExact
  <2> QED
    BY <1>3, <2>8 DEF PassingExact, Sound
<1> QED
  BY <1>4, <1>5

LEMMA PassManyExact ==
    ASSUME NEW p \in Places, NEW c \in Chan, NEW m \in Number,
           \A j \in 1 .. m : Stored(c, j) # {}, NEW fill \in Nat,
           PassingExact(p, c, m, c, 0), NEW d, d = PassTurns(c, fill, m)
    PROVE  PassingExact(p, c, m, d, m)
<1> DEFINE I == [j \in 0 .. m |-> {x \in Chan : PassingExact(p, c, m, x, j)}]
<1>1. m \in Nat
  BY Numbers
<1>2. (\A j \in 0 .. m : I[j] \subseteq Chan) /\ c \in I[0]
  BY <1>1
<1>3. ASSUME NEW j \in 1 .. m, NEW x \in I[j - 1] PROVE Pass(c, fill, x, j) \in I[j]
  <2> DEFINE y == Pass(c, fill, x, j)
  <2>1. j - 1 \in 0 .. m /\ j \in 0 .. m
    BY <1>1
  <2>2. PassingExact(p, c, m, x, j - 1)
    BY <2>1
  <2>3. PassingExact(p, c, m, y, j)
    BY <2>2, PassOneExact
  <2> HIDE DEF y
  <2>4. y \in Chan
    BY <2>3 DEF PassingExact, Passing, Good
  <2> QED
    BY <2>1, <2>3, <2>4 DEF y
<1> HIDE DEF I
<1>4. d \in I[m]
  BY <1>1, <1>2, <1>3, PassTurnsReach
<1>5. m \in 0 .. m
  BY <1>1
<1> QED
  BY <1>4, <1>5 DEF I

LEMMA QueuedExact ==
    ASSUME NEW p \in Places, NEW c, Sound(p, c), c.rx_state = "SREJ_SENT",
           NEW fill \in Nat, NEW d, d = rx_queued_iframes(c, fill)
    PROVE  Sound(p, d)
<1> DEFINE state == "RECV"
           no == FALSE
<1>1. c \in Chan /\ RxInv(c) /\ Good(no, c) /\ Exact(p, c) /\ no \in BOOLEAN
  BY SoundIs
<1>2. PICK run \in Number :
          /\ \A j \in 1 .. run : Stored(c, j) # {}
          /\ LET c1 == PassTurns(c, fill, run)
             IN  d = IF c1.srej_q = {} THEN send_ack([c1 EXCEPT !.rx_state = "RECV"]) ELSE c1
  BY <1>1, QueueRun
<1> DEFINE c1 == PassTurns(c, fill, run)
           e == [c1 EXCEPT !.rx_state = state]
<1>3. d = IF c1.srej_q = {} THEN send_ack(e) ELSE c1
  BY <1>2
<1>4. PassingExact(p, c, run, c, 0)
  <2> HIDE DEF no
  <2>1. Passing(no, c, run, c, 0)
    BY <1>1, QueueStarts
  <2> QED
    BY <1>1, <2>1 DEF PassingExact, no
<1>5. PassingExact(p, c, run, c1, run)
  BY <1>1, <1>2, <1>4, PassManyExact
<1>6. state \in RxStates
  BY DEF RxStates
<1> HIDE DEF c1, state
<1>7. Sound(p, c1) /\ Good(no, c1) /\ c1 \in Chan /\ TxInv(c1) /\ Exact(p, c1)
  <2>1. Sound(p, c1)
    BY <1>5 DEF PassingExact, Passing, Sound
  <2> QED
    BY <2>1, SoundIs
<1>8. ASSUME c1.srej_q = {} PROVE Sound(p, e)
  <2> HIDE DEF e, no
  <2>1. e = [c1 EXCEPT !.rx_state = state]
    BY DEF e
  <2>2. /\ Good(no, e)
        /\ e = PutRx(c1, c1.expected_tx_seq, c1.buffer_seq, c1.srej_q, c1.srej_list, state,
                     c1.srej_act)
    BY <1>1, <1>6, <1>7, <1>8, <2>1, QueueEmpties
  <2>3. Good(FALSE, e) /\ e \in Chan
    BY <2>2 DEF Good, no
  <2>4. Alike(c1, e) /\ e.out = c1.out
    BY <1>7, <2>2, ListAside
  <2>5. Exact(p, e)
    BY <1>7, <2>3, <2>4, Stays
  <2> QED
    BY <2>3, <2>5 DEF Sound
<1> HIDE DEF e
<1>9. CASE c1.srej_q = {}
  BY <1>3, <1>8, <1>9, AcksExact
<1> QED
  BY <1>3, <1>7, <1>9

-----------------------------------------------------------------------------
(* Flags, answers *)

LEMMA FlagsExact ==
    ASSUME NEW p \in Places, NEW c, Sound(p, c), NEW remote_busy \in BOOLEAN,
           NEW fbit \in BOOLEAN, NEW act \in BOOLEAN, NEW save \in Number,
           NEW d, d = PutFlags(c, remote_busy, fbit, act, save)
    PROVE  Sound(p, d) /\ Alike(c, d) /\ SameRx(c, d) /\ SameTx(c, d) /\ d.up = c.up
<1> DEFINE calm == FALSE
<1>1. c \in Chan /\ TxInv(c) /\ Exact(p, c) /\ Good(FALSE, c)
  BY SoundIs
<1>2. calm \in BOOLEAN /\ (calm => ~remote_busy) /\ Good(calm, c)
  BY <1>1
<1> HIDE DEF calm
<1>3. Good(calm, d) /\ Keeps(c, d) /\ SameTx(c, d)
  BY <1>2, GoodFlags
<1>4. Good(FALSE, d) /\ d \in Chan /\ SameRx(c, d) /\ SameTx(c, d)
  BY <1>3 DEF calm, Good, Keeps
<1>5. Alike(c, d) /\ d.out = c.out /\ d.up = c.up
  BY <1>1, Aside
<1> QED
  BY <1>1, <1>4, <1>5, Stays DEF Sound

LEMMA ReadyExact ==
    ASSUME NEW p \in Places, NEW c, Sound(p, c), NEW d, d = MarkReady(c)
    PROVE  Sound(p, d) /\ Alike(c, d) /\ SameRx(c, d) /\ SameTx(c, d) /\ d.up = c.up
<1> DEFINE no == FALSE
<1>1. /\ c \in Chan /\ c.send_fbit \in BOOLEAN /\ c.srej_act \in BOOLEAN
      /\ c.srej_save \in Number /\ no \in BOOLEAN
  BY SoundIs, ChanNumbers DEF Chan
<1>2. d = [c EXCEPT !.remote_busy = no]
  BY DEF MarkReady
<1> HIDE DEF no
<1>3. d = PutFlags(c, no, c.send_fbit, c.srej_act, c.srej_save)
  BY <1>1, <1>2 DEF PutFlags, Chan
<1> QED
  BY <1>1, <1>3, FlagsExact

LEMMA BusyExact ==
    ASSUME NEW p \in Places, NEW c, Sound(p, c), NEW d, d = RemoteBusy(c)
    PROVE  Sound(p, d) /\ Alike(c, d) /\ SameRx(c, d) /\ SameTx(c, d) /\ d.up = c.up
<1> DEFINE yes == TRUE
<1>1. /\ c \in Chan /\ c.send_fbit \in BOOLEAN /\ c.srej_act \in BOOLEAN
      /\ c.srej_save \in Number /\ yes \in BOOLEAN
  BY SoundIs, ChanNumbers DEF Chan
<1>2. d = [c EXCEPT !.remote_busy = yes]
  BY DEF RemoteBusy
<1> HIDE DEF yes
<1>3. d = PutFlags(c, yes, c.send_fbit, c.srej_act, c.srej_save)
  BY <1>1, <1>2 DEF PutFlags, Chan
<1> QED
  BY <1>1, <1>3, FlagsExact

LEMMA OwesExact ==
    ASSUME NEW p \in Places, NEW c, Sound(p, c), NEW d, d = MarkOwing(c)
    PROVE  Sound(p, d) /\ Alike(c, d) /\ SameRx(c, d) /\ SameTx(c, d) /\ d.up = c.up
<1> DEFINE yes == TRUE
<1>1. /\ c \in Chan /\ c.remote_busy \in BOOLEAN /\ c.srej_act \in BOOLEAN
      /\ c.srej_save \in Number /\ yes \in BOOLEAN
  BY SoundIs, ChanNumbers DEF Chan
<1>2. d = [c EXCEPT !.send_fbit = yes]
  BY DEF MarkOwing
<1> HIDE DEF yes
<1>3. d = PutFlags(c, c.remote_busy, yes, c.srej_act, c.srej_save)
  BY <1>1, <1>2 DEF PutFlags, Chan
<1> QED
  BY <1>1, <1>3, FlagsExact

LEMMA RememberExact ==
    ASSUME NEW p \in Places, NEW c, Sound(p, c), NEW f \in Frame, NEW d, d = RememberSrej(c, f)
    PROVE  Sound(p, d)
<1> DEFINE yes == TRUE
           save == f.reqseq
<1>1. /\ c \in Chan /\ c.remote_busy \in BOOLEAN /\ c.send_fbit \in BOOLEAN
      /\ save \in Number /\ yes \in BOOLEAN
  BY SoundIs, ChanNumbers DEF Frame
<1>2. d = IF c.tx_state = "WAIT_F" THEN [c EXCEPT !.srej_act = yes, !.srej_save = save] ELSE c
  BY DEF RememberSrej
<1> HIDE DEF yes, save
<1>3. [c EXCEPT !.srej_act = yes, !.srej_save = save] =
          PutFlags(c, c.remote_busy, c.send_fbit, yes, save)
  BY <1>1 DEF PutFlags, Chan
<1>4. CASE c.tx_state = "WAIT_F"
  <2>1. d = PutFlags(c, c.remote_busy, c.send_fbit, yes, save)
    BY <1>2, <1>3, <1>4
  <2> QED
    BY <1>1, <2>1, FlagsExact
<1>5. CASE c.tx_state # "WAIT_F"
  BY <1>2, <1>5
<1> QED
  BY <1>4, <1>5

LEMMA ForgetExact ==
    ASSUME NEW p \in Places, NEW c, Sound(p, c), NEW d, d = Forget(c)
    PROVE  Sound(p, d)
<1> DEFINE no == FALSE
<1>1. /\ c \in Chan /\ c.remote_busy \in BOOLEAN /\ c.send_fbit \in BOOLEAN
      /\ c.srej_save \in Number /\ no \in BOOLEAN
  BY SoundIs, ChanNumbers DEF Chan
<1>2. d = [c EXCEPT !.srej_act = no]
  BY DEF Forget
<1> HIDE DEF no
<1>3. d = PutFlags(c, c.remote_busy, c.send_fbit, no, c.srej_save)
  BY <1>1, <1>2 DEF PutFlags, Chan
<1> QED
  BY <1>1, <1>3, FlagsExact

LEMMA TimersExact ==
    ASSUME NEW p \in Places, NEW c, Sound(p, c), NEW armed, NEW d, d = PutTimers(c, armed),
           Good(FALSE, d)
    PROVE  Sound(p, d)
<1>1. c \in Chan /\ TxInv(c) /\ Exact(p, c)
  BY SoundIs
<1>2. d \in Chan
  BY DEF Good
<1>3. Alike(c, d) /\ d.out = c.out
  BY <1>1, Aside
<1> QED
  BY <1>1, <1>2, <1>3, Stays DEF Sound

LEMMA RemoteReadyExact ==
    ASSUME NEW p \in Places, NEW c, Sound(p, c), NEW d, d = RemoteReady(c)
    PROVE  Sound(p, d) /\ SameRx(c, d)
<1> DEFINE c1 == MarkReady(c)
           armed == c1.armed \cup {"retrans"}
<1>1. Sound(p, c1) /\ SameRx(c, c1)
  BY ReadyExact
<1>2. d = IF c.remote_busy /\ c.unacked > 0 THEN set_retrans_timer(c1) ELSE c1
  BY DEF RemoteReady, MarkReady
<1>3. Good(FALSE, c1)
  BY <1>1 DEF Sound
<1> HIDE DEF c1
<1>4. set_retrans_timer(c1) = IF "monitor" \in c1.armed THEN c1 ELSE PutTimers(c1, armed)
  BY DEF set_retrans_timer, PutTimers
<1>5. CASE ~(c.remote_busy /\ c.unacked > 0) \/ "monitor" \in c1.armed
  BY <1>1, <1>2, <1>4, <1>5
<1>6. CASE (c.remote_busy /\ c.unacked > 0) /\ "monitor" \notin c1.armed
  <2>1. d = set_retrans_timer(c1) /\ d = PutTimers(c1, armed)
    BY <1>2, <1>4, <1>6
  <2> DEFINE calm == FALSE
  <2>2. calm \in BOOLEAN /\ Good(calm, c1)
    BY <1>3
  <2> HIDE DEF calm, armed
  <2>3. Good(calm, d) /\ Keeps(c1, d)
    BY <2>1, <2>2, RetransStarts
  <2>4. Good(FALSE, d) /\ SameRx(c1, d)
    BY <2>3 DEF calm, Keeps
  <2>5. Sound(p, d)
    BY <1>1, <2>1, <2>4, TimersExact
  <2> QED
    BY <1>1, <2>4, <2>5 DEF SameRx
<1> QED
  BY <1>5, <1>6

LEMMA SframeSound ==
    ASSUME NEW p \in Places, NEW c, Sound(p, c), NEW super \in {"RR", "RNR"},
           NEW poll \in BOOLEAN, NEW final \in BOOLEAN, NEW reqseq, reqseq = c.buffer_seq,
           NEW d, d = send_sframe(c, super, poll, final, reqseq)
    PROVE  Sound(p, d) /\ SameRx(c, d)
<1>1. c \in Chan /\ TxInv(c) /\ Exact(p, c) /\ Good(FALSE, c)
  BY SoundIs
<1>2. reqseq \in Number /\ super \in {"RR", "RNR", "SREJ"} /\ super # "SREJ"
  BY <1>1, ChanNumbers
<1> DEFINE calm == FALSE
<1>3. calm \in BOOLEAN /\ (calm => super # "RNR") /\ Good(calm, c)
  BY <1>1
<1> HIDE DEF calm
<1>4. Good(calm, d) /\ Keeps(c, d)
  BY <1>2, <1>3, Sframes
<1>5. Good(FALSE, d) /\ d \in Chan /\ SameRx(c, d)
  BY <1>4 DEF calm, Good, Keeps
<1>6. Exact(p, d)
  BY <1>1, <1>2, <1>5, SframeExact
<1> QED
  BY <1>5, <1>6 DEF Sound

LEMMA AnswersExact ==
    ASSUME NEW p \in Places, NEW c, Sound(p, c), NEW d, d = send_i_or_rr_or_rnr(c)
    PROVE  Sound(p, d)
<1> DEFINE yes == TRUE
           no == FALSE
           c1 == MarkOwing(c)
           c2 == IF c.local_busy THEN send_sframe(c1, "RNR", no, yes, c.buffer_seq) ELSE c1
           r == RemoteReady(c2)
           c3 == ertm_send(r)
<1>1. d = IF ~c.local_busy /\ c3.send_fbit THEN send_sframe(c3, "RR", no, yes, c.buffer_seq)
          ELSE c3
  BY DEF send_i_or_rr_or_rnr, MarkOwing
<1>2. Sound(p, c1) /\ c1.buffer_seq = c.buffer_seq
  BY OwesExact DEF SameRx
<1>3. yes \in BOOLEAN /\ no \in BOOLEAN /\ "RR" \in {"RR", "RNR"} /\ "RNR" \in {"RR", "RNR"}
  OBVIOUS
<1> HIDE DEF yes, no, c1
<1>4. Sound(p, c2) /\ c2.buffer_seq = c.buffer_seq
  <2>1. CASE c.local_busy
    <3>1. c2 = send_sframe(c1, "RNR", no, yes, c.buffer_seq)
      BY <2>1
    <3> HIDE DEF c2
    <3> QED
      BY <1>2, <1>3, <3>1, SframeSound DEF SameRx
  <2>2. CASE ~c.local_busy
    BY <1>2, <2>2
  <2> QED
    BY <2>1, <2>2
<1> HIDE DEF c2
<1>5. Sound(p, r) /\ r.buffer_seq = c.buffer_seq
  BY <1>4, RemoteReadyExact DEF SameRx
<1> HIDE DEF r
<1>6. Sound(p, c3) /\ c3.buffer_seq = c.buffer_seq
  <2>1. Sound(p, c3)
    BY <1>5, SendsExact
  <2>2. Good(FALSE, r)
    BY <1>5 DEF Sound
  <2> DEFINE calm == FALSE
  <2>3. calm \in BOOLEAN /\ Good(calm, r)
    BY <2>2
  <2> HIDE DEF calm
  <2>4. Keeps(r, c3)
    BY <2>3, Sends
  <2> HIDE DEF c3
  <2> QED
    BY <1>5, <2>1, <2>4 DEF Keeps, SameRx
<1> HIDE DEF c3
<1>7. CASE ~c.local_busy /\ c3.send_fbit
  <2>1. d = send_sframe(c3, "RR", no, yes, c.buffer_seq)
    BY <1>1, <1>7
  <2> QED
    BY <1>3, <1>6, <2>1, SframeSound
<1>8. CASE ~(~c.local_busy /\ c3.send_fbit)
  BY <1>1, <1>6, <1>8
<1> QED
  BY <1>7, <1>8

LEMMA FinalExact ==
    ASSUME NEW p \in Places, NEW c, Sound(p, c), NEW f \in Frame, NEW d, d = Final(c, f)
    PROVE  Sound(p, d)
<1> DEFINE e == retransmit_all(c, f.reqseq)
<1>1. f.reqseq \in Number
  BY DEF Frame
<1>2. Sound(p, e)
  BY <1>1, RetransmitAllExact
<1>3. d = ertm_send(e)
  BY DEF Final
<1> HIDE DEF e
<1> QED
  BY <1>2, <1>3, SendsExact

-----------------------------------------------------------------------------
(* Frames that arrive *)

\* What the end c may rely on of a frame that the other end has sent to it: a unit is less
\* than a window behind what it has, what is acknowledged has arrived, and what is rejected
\* has been sent and not acknowledged.
Arrives(p, c, f) ==
    /\ f.super = "I" => /\ f.sdu > 0 /\ f.txseq = Nth(f.sdu - 1)
                        /\ Len(c.got) < f.sdu + TxWin
                        /\ \A b \in p.caps : f.sdu <= b
    /\ f.super = "SREJ" => ~f.poll /\ offset(f.reqseq, c.expected_ack_seq) < c.unacked
    /\ f.super # "SREJ" =>
           \A b \in p.acks : Forgotten(c) + offset(f.reqseq, c.expected_ack_seq) <= b

\* What is rejected is in the queue.
LEMMA RejectedWasSent ==
    ASSUME NEW c \in Chan, TxInv(c), TxExact(c), NEW seq \in Number,
           offset(seq, c.expected_ack_seq) < c.unacked
    PROVE  Sent(c, seq)
<1> DEFINE k == offset(seq, c.expected_ack_seq)
<1>1. /\ Forgotten(c) \in Nat /\ c.expected_ack_seq = Nth(Forgotten(c)) /\ c.head = c.unacked
      /\ \A i \in 1 .. c.head : c.tx_q[i].txseq = Nth(Forgotten(c) + i - 1)
      /\ c.head \in Nat /\ c.expected_ack_seq \in Number
  BY ChanNumbers DEF TxExact, TxInv
<1>2. seq = Nth(Forgotten(c) + k)
  BY <1>1, Nths
<1>3. k \in Nat /\ k < c.head
  BY <1>1, OffsetIs, Numbers
<1> HIDE DEF k
<1>4. k + 1 \in 1 .. c.head /\ Forgotten(c) + (k + 1) - 1 = Forgotten(c) + k
  BY <1>1, <1>3
<1>5. c.tx_q[k + 1].txseq = seq
  BY <1>1, <1>2, <1>4
<1> QED
  BY <1>4, <1>5 DEF Sent

LEMMA SrejHandledExact ==
    ASSUME NEW p \in Places, NEW c, Sound(p, c), NEW f \in Frame, f.super = "SREJ",
           Arrives(p, c, f), NEW d, d = handle_srej(c, f)
    PROVE  Sound(p, d)
<1> DEFINE i == Find(c.tx_q, f.reqseq)
           c1 == MarkReady(c)
           c2 == pass_to_tx_fbit(c1, f.final)
           r2 == retransmit(c2, f.reqseq)
<1>1. f.reqseq \in Number /\ f.final \in BOOLEAN /\ ~f.poll
      /\ c \in Chan /\ TxInv(c) /\ TxExact(c)
      /\ offset(f.reqseq, c.expected_ack_seq) < c.unacked
  BY SoundIs DEF Frame, Arrives, Exact, EndExact
<1>2. \/ d = send_disconn_req(c)
      \/ d = c
      \/ d = RememberSrej(r2, f)
      \/ d = Forget(c2)
      \/ d = r2
  BY <1>1 DEF handle_srej, MarkReady, Forget
<1>3. Sound(p, send_disconn_req(c))
  BY DisconnectExact
<1>4. Sound(p, c1) /\ Alike(c, c1)
  BY ReadyExact
<1>5. Sent(c, f.reqseq)
  BY <1>1, RejectedWasSent
<1> HIDE DEF c1, i
<1>6. Sound(p, c2) /\ Alike(c1, c2)
  BY <1>1, <1>4, FbitExact
<1> HIDE DEF c2
<1>7. Sent(c2, f.reqseq)
  <2>1. c1 \in Chan /\ c2 \in Chan /\ TxInv(c1)
    BY <1>4, <1>6, SoundIs
  <2>2. Sent(c1, f.reqseq)
    BY <1>1, <1>4, <1>5, <2>1, AlikeSent
  <2> QED
    BY <1>6, <2>1, <2>2, AlikeSent
<1>8. Sound(p, r2)
  BY <1>1, <1>6, <1>7, RetransmitExact
<1> HIDE DEF r2
<1>9. Sound(p, RememberSrej(r2, f)) /\ Sound(p, Forget(c2))
  BY <1>6, <1>8, RememberExact, ForgetExact
<1> QED
  BY <1>2, <1>3, <1>6, <1>8, <1>9

LEMMA PassExact ==
    ASSUME NEW p \in Places, NEW c, Sound(p, c), NEW f \in Frame, f.super # "SREJ",
           Arrives(p, c, f), valid_reqseq(c, f.reqseq), NEW d, d = pass_to_tx(c, f)
    PROVE  Sound(p, d) /\ SameRx(c, d) /\ d.up = c.up
BY PassesExact DEF Arrives

LEMMA RRExact ==
    ASSUME NEW p \in Places, NEW c, Sound(p, c), NEW f \in Frame, f.super = "RR",
           Arrives(p, c, f), valid_reqseq(c, f.reqseq), NEW d, d = RecvRR(c, f)
    PROVE  Sound(p, d)
<1> DEFINE c1 == pass_to_tx(c, f)
           m == MarkReady(c1)
           r == RemoteReady(c1)
           o == MarkOwing(r)
           sent == c.rx_state = "SREJ_SENT"
<1>1. d = IF f.final THEN Final(m, f)
          ELSE IF f.poll THEN IF sent THEN send_srej_tail(o) ELSE send_i_or_rr_or_rnr(c1)
          ELSE IF sent THEN send_ack(r) ELSE ertm_send(r)
  BY DEF RecvRR, MarkReady, MarkOwing
<1>2. Sound(p, c1)
  BY PassExact
<1> HIDE DEF c1, sent
<1>3. Sound(p, m) /\ Sound(p, r)
  BY <1>2, ReadyExact, RemoteReadyExact
<1> HIDE DEF m, r
<1>4. Sound(p, o)
  BY <1>3, OwesExact
<1> HIDE DEF o
<1>5. /\ Sound(p, Final(m, f)) /\ Sound(p, send_srej_tail(o))
      /\ Sound(p, send_i_or_rr_or_rnr(c1)) /\ Sound(p, send_ack(r))
      /\ Sound(p, ertm_send(r))
  BY <1>2, <1>3, <1>4, FinalExact, SrejTailExact, AnswersExact, AcksExact, SendsExact
<1> QED
  BY <1>1, <1>5

LEMMA RetransStopsExact ==
    ASSUME NEW p \in Places, NEW c, Sound(p, c), NEW d, d = clear_timer(c, "retrans")
    PROVE  Sound(p, d)
<1>1. Good(FALSE, c)
  BY DEF Sound
<1>2. Good(FALSE, d)
  BY <1>1, RetransStops
<1> DEFINE armed == c.armed \ {"retrans"}
<1>3. d = PutTimers(c, armed)
  BY DEF clear_timer, PutTimers
<1> QED
  BY <1>2, <1>3, TimersExact

LEMMA RNRExact ==
    ASSUME NEW p \in Places, NEW c, Sound(p, c), NEW f \in Frame, f.super = "RNR",
           Arrives(p, c, f), valid_reqseq(c, f.reqseq), NEW d, d = RecvRNR(c, f)
    PROVE  Sound(p, d)
<1> DEFINE no == FALSE
           b == RemoteBusy(c)
           c1 == pass_to_tx(b, f)
           o == MarkOwing(c1)
           r == send_rr_or_rnr(o, no)
           s == send_sframe(c1, "RR", no, no, c.buffer_seq)
           x == IF f.poll THEN r ELSE c1
<1>1. d = IF c.rx_state = "RECV" THEN clear_timer(x, "retrans")
          ELSE IF f.poll THEN send_srej_tail(c1) ELSE s
  BY DEF RecvRNR, RemoteBusy, MarkOwing
<1>2. no \in BOOLEAN /\ "RR" \in {"RR", "RNR"}
  OBVIOUS
<1> HIDE DEF no
<1>3. Sound(p, b) /\ Alike(c, b) /\ SameRx(c, b) /\ SameTx(c, b)
  BY BusyExact
<1> HIDE DEF b
<1>4. valid_reqseq(b, f.reqseq) /\ Arrives(p, b, f)
  <2>1. Forgotten(b) = Forgotten(c) /\ b.got = c.got
    BY <1>3 DEF Forgotten, Alike
  <2> QED
    BY <1>3, <2>1 DEF valid_reqseq, SameTx, Arrives
<1>5. Sound(p, c1) /\ SameRx(b, c1)
  BY <1>3, <1>4, PassExact
<1>6. c1.buffer_seq = c.buffer_seq
  BY <1>3, <1>5 DEF SameRx
<1> HIDE DEF c1
<1>7. Sound(p, o)
  BY <1>5, OwesExact
<1> HIDE DEF o
<1>8. Sound(p, r)
  BY <1>2, <1>7, ReportsExact
<1>9. Sound(p, s)
  BY <1>2, <1>5, <1>6, SframeSound
<1>10. Sound(p, send_srej_tail(c1))
  BY <1>5, SrejTailExact
<1> HIDE DEF r, s
<1>11. Sound(p, x)
  BY <1>5, <1>8
<1> HIDE DEF x
<1>12. Sound(p, clear_timer(x, "retrans"))
  BY <1>11, RetransStopsExact
<1> QED
  BY <1>1, <1>9, <1>10, <1>12

-----------------------------------------------------------------------------
(* Units that arrive *)

\* With a window of at most half of the sequence numbers, a number within the window of
\* the receiver belongs to one unit.
LEMMA Placed ==
    ASSUME 2 * TxWin <= Modulus, NEW p \in Places, NEW c \in Chan, RxExact(c), EndExact(p, c),
           NEW f \in Frame, f.super = "I", Arrives(p, c, f),
           offset(f.txseq, c.buffer_seq) < TxWin
    PROVE  f.sdu = Len(c.got) + offset(f.txseq, c.buffer_seq) + 1
<1> DEFINE g == Len(c.got)
           m == f.sdu - 1
<1>1. /\ f.sdu \in Nat /\ f.sdu > 0 /\ f.txseq = Nth(m) /\ g < f.sdu + TxWin /\ c.buffer_seq = Nth(g)
      /\ f.sdu <= p.newest
  BY FrameFields, PlaceFields DEF Arrives, RxExact
<1>2. /\ p.newest \in Nat /\ p.base \in Nat /\ p.newest <= p.base + TxWin /\ p.base <= g
      /\ TxWin \in Nat /\ Modulus \in Nat /\ TxWin < Modulus
  BY PlaceFields, Numbers DEF EndExact
<1>3. g \in Nat
  <2>1. c.got \in Seq(Nat)
    BY ChanNumbers
  <2> QED
    BY <2>1
<1> HIDE DEF g
<1>4. m \in Nat /\ f.sdu = m + 1
  BY <1>1
<1> HIDE DEF m
<1>5. m < g + TxWin /\ g < m + 1 + TxWin
  BY <1>1, <1>2, <1>3, <1>4
<1>6. CASE g <= m
  <2>1. offset(Nth(m), Nth(g)) = m - g
    <3>1. m < g + Modulus
      BY <1>2, <1>3, <1>4, <1>5
    <3> QED
      BY <1>3, <1>4, <1>6, <3>1, Nths
  <2> QED
    BY <1>1, <1>3, <1>4, <2>1 DEF g
<1>7. CASE m < g
  <2>1. offset(Nth(g), Nth(m)) = g - m
    <3>1. m <= g /\ g < m + Modulus
      BY <1>2, <1>3, <1>4, <1>5, <1>7
    <3> QED
      BY <1>3, <1>4, <3>1, Nths
  <2>2. Nth(g) \in Number /\ Nth(m) \in Number /\ \A x \in Number : x \in Nat /\ x < Modulus
    BY <1>3, <1>4, Nths, Numbers
  <2> DEFINE x == Nth(g)
             y == Nth(m)
  <2>3. x \in Nat /\ y \in Nat /\ x < Modulus /\ y < Modulus
    BY <2>2
  <2>4. /\ offset(x, y) = IF x >= y THEN x - y ELSE x - y + Modulus
        /\ offset(y, x) = IF y >= x THEN y - x ELSE y - x + Modulus
    BY <2>2, OffsetIs
  <2>5. offset(y, x) < TxWin /\ offset(x, y) = g - m
    BY <1>1, <2>1
  <2> HIDE DEF x, y
  <2>6. 1 <= g - m /\ g - m <= TxWin /\ g - m \in Nat
    BY <1>2, <1>3, <1>4, <1>5, <1>7
  <2>7. offset(y, x) = Modulus - (g - m)
    BY <1>2, <2>3, <2>4, <2>5, <2>6
  <2> QED
    BY <1>2, <2>5, <2>6, <2>7
<1> QED
  BY <1>3, <1>4, <1>6, <1>7

LEMMA InWindow ==
    ASSUME NEW c \in Chan, RxInv(c), NEW x \in Number,
           \/ /\ offset(c.expected_tx_seq, c.last_acked_seq) <= offset(x, c.last_acked_seq)
              /\ offset(x, c.last_acked_seq) < TxWin
           \/ StartsWith(c.srej_list, x)
           \/ offset(x, c.last_acked_seq) < TxWin /\ Listed(c.srej_list, x)
    PROVE  offset(x, c.buffer_seq) < TxWin
<1> DEFINE acked == offset(c.buffer_seq, c.last_acked_seq)
           end == offset(c.expected_tx_seq, c.buffer_seq)
           behind(y) == offset(y, c.last_acked_seq)
           ahead(y) == offset(y, c.buffer_seq)
<1>1. /\ c.expected_tx_seq \in Number /\ c.buffer_seq \in Number /\ c.last_acked_seq \in Number
      /\ c.srej_list \in Seq(Number) /\ \A i \in DOMAIN c.srej_list : c.srej_list[i] \in Number
  BY ChanNumbers
<1>2. /\ acked \in Nat /\ end \in Nat /\ acked + end <= TxWin /\ TxWin \in Nat
      /\ behind(c.expected_tx_seq) = acked + end
      /\ \A y \in Number : ahead(y) < end => behind(y) < acked + end
      /\ behind(x) \in Nat /\ ahead(x) \in Nat
      /\ \A y \in Number : behind(y) \in Nat /\ ahead(y) \in Nat
  BY Window
<1>3. \A i \in DOMAIN c.srej_list : ahead(c.srej_list[i]) < end
  BY DEF RxInv
<1>4. acked <= behind(x) => behind(x) = acked + ahead(x)
  BY <1>1, OffsetsAdd
<1> HIDE DEF acked, end, behind, ahead
<1>5. CASE acked + end <= behind(x) /\ behind(x) < TxWin
  <2>1. ahead(x) < TxWin
    BY <1>2, <1>4, <1>5
  <2> QED
    BY <2>1 DEF ahead
<1>6. ASSUME NEW i \in DOMAIN c.srej_list, c.srej_list[i] = x PROVE ahead(x) < TxWin
  BY <1>2, <1>3, <1>6
<1>7. CASE StartsWith(c.srej_list, x)
  <2>1. 1 \in DOMAIN c.srej_list /\ c.srej_list[1] = x
    BY <1>1, <1>7 DEF StartsWith
  <2>2. ahead(x) < TxWin
    BY <1>6, <2>1
  <2> QED
    BY <2>2 DEF ahead
<1>8. CASE behind(x) < TxWin /\ Listed(c.srej_list, x)
  <2>1. PICK i \in DOMAIN c.srej_list : c.srej_list[i] % Slots = x % Slots
    BY <1>8 DEF Listed
  <2>2. behind(c.srej_list[i]) < TxWin
    BY <1>1, <1>2, <1>3
  <2>3. c.srej_list[i] = x
    BY <1>1, <1>8, <2>1, <2>2, SameSlot DEF behind
  <2>4. ahead(x) < TxWin
    BY <1>6, <2>3
  <2> QED
    BY <2>4 DEF ahead
<1> QED
  BY <1>2, <1>5, <1>7, <1>8 DEF behind

LEMMA StoreExact ==
    ASSUME NEW p \in Places, NEW c \in Chan, Exact(p, c), NEW f \in Frame,
           f.sdu = Len(c.got) + offset(f.txseq, c.buffer_seq) + 1,
           \A b \in p.caps : f.sdu <= b, NEW d, SameSender(c, d), d.got = c.got,
           d.buffer_seq = c.buffer_seq, d.srej_q = c.srej_q \cup {Kept(f)}, d.up => c.up
    PROVE  Exact(p, d)
<1>1. /\ Forgotten(d) = Forgotten(c) /\ Newest(d) = Newest(c) /\ (TxExact(c) => TxExact(d))
      /\ d.sent = c.sent /\ d.out = c.out
  BY SenderExact DEF SameSender
<1>2. EndExact(p, d)
  BY <1>1 DEF Exact, EndExact
<1>3. Kept(f).txseq = f.txseq /\ Kept(f).sdu = f.sdu
  BY DEF Kept
<1>4. ASSUME d.up PROVE Flow(p, d)
  <2>1. Flow(p, c)
    BY <1>4 DEF Exact
  <2>2. RxExact(d)
    BY <1>3, <2>1 DEF Flow, RxExact
  <2>3. \A b \in p.caps : Len(d.got) <= b /\ \A h \in d.srej_q : h.sdu <= b
    BY <1>3, <2>1 DEF Flow
  <2> QED
    BY <1>1, <2>1, <2>2, <2>3 DEF Flow
<1> QED
  BY <1>2, <1>4 DEF Exact

-----------------------------------------------------------------------------
(* I-frames *)

LEMMA NextExact ==
    ASSUME NEW p \in Places, NEW c, Sound(p, c), c.rx_state = "RECV", NEW f \in Frame,
           f.txseq = c.expected_tx_seq, offset(f.txseq, c.last_acked_seq) < TxWin,
           f.sdu = Len(c.got) + offset(f.txseq, c.buffer_seq) + 1,
           \A b \in p.caps : f.sdu <= b, NEW filled \in BOOLEAN,
           NEW d, d = recv(Advance(c, next(f.txseq)), f.sdu, filled)
    PROVE  Sound(p, d)
<1> DEFINE g == Advance(c, next(f.txseq))
           e == [g EXCEPT !.got = Append(@, f.sdu)]
<1>1. c \in Chan /\ RxInv(c) /\ Exact(p, c) /\ EndExact(p, c) /\ Good(FALSE, c)
  BY SoundIs DEF Exact
<1>2. /\ c.expected_tx_seq \in Number /\ c.buffer_seq \in Number /\ f.sdu \in Nat
      /\ c.got \in Seq(Nat) /\ Len(c.got) \in Nat /\ next(f.txseq) \in Number
      /\ \A h \in c.srej_q : h.txseq \in Number
  <2>1. c.expected_tx_seq \in Number /\ c.buffer_seq \in Number /\ c.got \in Seq(Nat)
        /\ \A h \in c.srej_q : h.txseq \in Number
    BY <1>1, ChanNumbers
  <2> QED
    BY <2>1, FrameFields, NextIs
<1>3. offset(c.expected_tx_seq, c.buffer_seq) = 0
      /\ \A h \in c.srej_q : offset(h.txseq, c.buffer_seq) < 0
  BY <1>1 DEF RxInv
<1>4. c.expected_tx_seq = c.buffer_seq
  BY <1>2, <1>3, OffsetsAdd
<1>5. \A h \in c.srej_q : FALSE
  <2> SUFFICES ASSUME NEW h \in c.srej_q PROVE FALSE
    OBVIOUS
  <2>1. offset(h.txseq, c.buffer_seq) \in Nat
    BY <1>2, OffsetIs, Numbers
  <2> QED
    BY <1>3, <2>1
<1>6. f.sdu = Len(c.got) + 1
  BY <1>2, <1>3
<1>7. Good(FALSE, g)
  <2> DEFINE calm == FALSE
             seq == next(f.txseq)
  <2>1. calm \in BOOLEAN /\ Good(calm, c)
    BY <1>1
  <2>2. seq = next(c.expected_tx_seq) /\ g = Advance(c, seq)
    OBVIOUS
  <2> HIDE DEF calm, g, seq
  <2>3. Good(calm, g)
    BY <2>1, <2>2, Advances
  <2> QED
    BY <2>3 DEF calm
<1>8. SameSender(c, g) /\ g.got = c.got /\ g.up = c.up /\ g.buffer_seq = next(c.buffer_seq)
      /\ g.srej_q = c.srej_q
  BY <1>1, <1>4 DEF Advance, Chan, SameSender
<1> HIDE DEF g
<1>9. EndExact(p, g)
  <2>1. Forgotten(g) = Forgotten(c) /\ (TxExact(c) => TxExact(g)) /\ g.sent = c.sent
    BY <1>8, SenderExact DEF SameSender
  <2> QED
    BY <1>1, <1>8, <2>1 DEF EndExact
<1>10. Exact(p, e)
  <2>1. g \in Chan
    BY <1>7 DEF Good
  <2>2. SameSender(g, e) /\ e.got = Append(g.got, f.sdu) /\ e.buffer_seq = g.buffer_seq
        /\ e.srej_q = g.srej_q /\ e.up = g.up
    BY <2>1 DEF Chan, SameSender
  <2> HIDE DEF e
  <2>3. SameSender(c, e) /\ e.got = Append(c.got, Len(c.got) + 1)
        /\ e.buffer_seq = next(c.buffer_seq) /\ e.srej_q \subseteq c.srej_q /\ (e.up => c.up)
    BY <1>6, <1>8, <2>2 DEF SameSender
  <2>4. \A h \in e.srej_q : h.txseq # c.buffer_seq
    BY <1>5, <2>3
  <2>5. \A b \in p.caps : Len(c.got) + 1 <= b
    BY <1>6
  <2> QED
    BY <1>1, <2>3, <2>4, <2>5, GrowExact
<1> HIDE DEF e
<1>11. e = [g EXCEPT !.got = Append(@, f.sdu)] /\ d = recv(g, f.sdu, filled)
  BY DEF e, g
<1> QED
  BY <1>2, <1>7, <1>9, <1>10, <1>11, ReceivedExact

LEMMA StoredExact ==
    ASSUME NEW p \in Places, NEW c, Sound(p, c), NEW f \in Frame,
           f.sdu = Len(c.got) + offset(f.txseq, c.buffer_seq) + 1,
           \A b \in p.caps : f.sdu <= b, NEW q, q = c.srej_q \cup {Kept(f)},
           NEW expected, NEW list, NEW state, NEW act,
           NEW d, d = PutRx(c, expected, c.buffer_seq, q, list, state, act)
    PROVE  Exact(p, d)
<1>1. c \in Chan /\ Exact(p, c)
  BY SoundIs
<1>2. SameSender(c, d) /\ d.got = c.got /\ d.buffer_seq = c.buffer_seq /\ d.srej_q = q
      /\ d.up = c.up
  BY <1>1 DEF PutRx, Chan, SameSender
<1> QED
  BY <1>1, <1>2, StoreExact

LEMMA UnexpectedExact ==
    ASSUME NEW p \in Places, NEW c, Sound(p, c), NEW f \in Frame,
           offset(c.expected_tx_seq, c.last_acked_seq) <= offset(f.txseq, c.last_acked_seq),
           offset(f.txseq, c.last_acked_seq) < TxWin,
           f.sdu = Len(c.got) + offset(f.txseq, c.buffer_seq) + 1,
           \A b \in p.caps : f.sdu <= b,
           NEW d, d = Rejected(send_srej(Restart(Store(c, f)), f.txseq))
    PROVE  Sound(p, d)
<1> DEFINE q == c.srej_q \cup {Kept(f)}
           none == <<>>
           no == FALSE
           g == Restart(Store(c, f))
           h == send_srej(g, f.txseq)
           calm == FALSE
<1>1. c \in Chan /\ RxInv(c) /\ Fit(FALSE, c) /\ Good(FALSE, c)
  BY SoundIs DEF Fit, Good
<1>2. q \in SUBSET Frames /\ f.txseq \in Number /\ none \in Seq(Number) /\ no \in BOOLEAN
      /\ c.expected_tx_seq \in Number /\ c.buffer_seq \in Number /\ c.rx_state \in RxStates
  BY <1>1, FrameFields, ChanNumbers DEF RxStates
<1>3. g = PutRx(c, c.expected_tx_seq, c.buffer_seq, q, none, c.rx_state, no)
  BY <1>1 DEF Restart, Store, PutRx, Chan, Kept
<1>4. d = Rejected(h)
  OBVIOUS
<1>5. calm \in BOOLEAN /\ Fit(calm, c) /\ Good(calm, c)
  BY <1>1
<1> HIDE DEF g, no, h, calm
<1>6. Gap(g, f.txseq) /\ Fit(calm, g)
  <2>1. Fit(calm, g) /\ RxIs(g, c.expected_tx_seq, c.buffer_seq, q, none, c.rx_state)
        /\ g.last_acked_seq = c.last_acked_seq
    <3> HIDE DEF q, none
    <3> QED
      BY <1>1, <1>2, <1>3, <1>5, FitRx
  <2> QED
    BY <1>1, <1>2, <2>1, MakesGap
<1>7. Exact(p, g)
  <2> HIDE DEF q, none
  <2> QED
    BY <1>3, StoredExact DEF q
<1>8. Exact(p, h) /\ Fit(FALSE, h)
  <2>1. Fit(FALSE, g)
    BY <1>6 DEF calm
  <2> QED
    BY <1>2, <1>6, <1>7, <2>1, SrejsExact DEF h
<1>9. Good(FALSE, d)
  <2>1. Good(calm, d)
    BY <1>5, Unexpecteds
  <2> QED
    BY <2>1 DEF calm
<1>10. Exact(p, d)
  <2> DEFINE state == "SREJ_SENT"
  <2>1. h \in Chan /\ TxInv(h) /\ d \in Chan
    BY <1>8, <1>9 DEF Fit, Good
  <2>2. d = [h EXCEPT !.rx_state = state]
    BY <1>4 DEF Rejected
  <2> HIDE DEF state
  <2>3. d = PutRx(h, h.expected_tx_seq, h.buffer_seq, h.srej_q, h.srej_list, state, h.srej_act)
    BY <2>1, <2>2, ZenonT(40) DEF PutRx, Chan
  <2>4. Alike(h, d) /\ d.out = h.out
    BY <2>1, <2>3, ListAside
  <2> QED
    BY <1>8, <2>1, <2>4, Stays
<1> QED
  BY <1>9, <1>10 DEF Sound

LEMMA PassKeeps ==
    ASSUME NEW c, Good(FALSE, c), NEW f \in Frame, valid_reqseq(c, f.reqseq),
           NEW d, d = pass_to_tx(c, f)
    PROVE  SameRx(c, d) /\ d.last_acked_seq = c.last_acked_seq
<1> DEFINE calm == FALSE
<1>1. calm \in BOOLEAN /\ Good(calm, c)
  OBVIOUS
<1> HIDE DEF calm
<1>2. Keeps(c, d) /\ d.last_acked_seq = c.last_acked_seq
  BY <1>1, PassesToTx
<1> QED
  BY <1>2 DEF Keeps

LEMMA IframeExact ==
    ASSUME 2 * TxWin <= Modulus, NEW p \in Places, NEW c, Sound(p, c), c.up,
           c.rx_state = "RECV", NEW f \in Frame, f.super = "I", Arrives(p, c, f),
           valid_reqseq(c, f.reqseq), NEW fill \in Nat, NEW d, d = RecvIframe(c, f, fill)
    PROVE  Sound(p, d)
<1> DEFINE class == classify_txseq(c, f.txseq)
           c1 == pass_to_tx(c, f)
           filled == fill = 1
           c2 == recv(Advance(c1, next(f.txseq)), f.sdu, filled)
           c3 == IF f.final THEN Final(c2, f) ELSE c2
           c4 == IF c3.local_busy THEN c3 ELSE send_ack(c3)
           c5 == IF ~c2.up THEN c2 ELSE c4
           u == Rejected(send_srej(Restart(Store(c1, f)), f.txseq))
<1>1. c \in Chan /\ RxInv(c) /\ Good(FALSE, c) /\ RxExact(c) /\ EndExact(p, c)
  BY SoundIs DEF Exact, Flow
<1>2. f.txseq \in Number /\ f.sdu \in Nat /\ f.final \in BOOLEAN /\ filled \in BOOLEAN
  BY FrameFields
<1>3. /\ class \in {"INVALID_IGNORE", "INVALID", "EXPECTED", "DUPLICATE", "UNEXPECTED"}
      /\ class = "EXPECTED" => /\ f.txseq = c.expected_tx_seq
                               /\ offset(f.txseq, c.last_acked_seq) < TxWin
      /\ class = "UNEXPECTED" =>
             /\ offset(c.expected_tx_seq, c.last_acked_seq) <= offset(f.txseq, c.last_acked_seq)
             /\ offset(f.txseq, c.last_acked_seq) < TxWin
  BY <1>1, <1>2, Classes
<1>4. /\ Sound(p, c1) /\ c1.last_acked_seq = c.last_acked_seq
      /\ c1.expected_tx_seq = c.expected_tx_seq /\ c1.rx_state = c.rx_state
      /\ c1.buffer_seq = c.buffer_seq /\ c1.got = c.got
  <2>1. SameRx(c, c1) /\ c1.last_acked_seq = c.last_acked_seq
    BY <1>1, PassKeeps
  <2>2. Sound(p, c1)
    BY PassExact
  <2> QED
    BY <2>1, <2>2 DEF SameRx
<1>5. d = CASE class = "EXPECTED" -> IF c.local_busy THEN c1 ELSE c5
            [] class = "UNEXPECTED" -> IF c.local_busy THEN c1 ELSE u
            [] class = "DUPLICATE" -> c1
            [] class = "INVALID_IGNORE" -> c
            [] class = "INVALID" -> send_disconn_req(c)
  BY DEF RecvIframe, Advance, Restart, Rejected
<1> HIDE DEF c1, class
<1>6. ASSUME class \in {"EXPECTED", "UNEXPECTED"}
      PROVE  /\ f.sdu = Len(c.got) + offset(f.txseq, c.buffer_seq) + 1
             /\ \A b \in p.caps : f.sdu <= b
  <2>1. offset(c.expected_tx_seq, c.last_acked_seq) <= offset(f.txseq, c.last_acked_seq)
        /\ offset(f.txseq, c.last_acked_seq) < TxWin
    <3>1. offset(c.expected_tx_seq, c.last_acked_seq) \in Nat
      BY <1>1, Window, ChanNumbers
    <3> QED
      BY <1>3, <1>6, <3>1
  <2>2. offset(f.txseq, c.buffer_seq) < TxWin
    BY <1>1, <1>2, <2>1, InWindow
  <2>3. \A b \in p.caps : f.sdu <= b
    BY DEF Arrives
  <2> QED
    BY <1>1, <2>2, <2>3, Placed
<1>7. ASSUME class = "EXPECTED" PROVE Sound(p, c5)
  <2>1. Sound(p, c2)
    <3> HIDE DEF filled, c2
    <3> QED
      BY <1>2, <1>3, <1>4, <1>6, <1>7, NextExact DEF c2
  <2> HIDE DEF c2
  <2>2. Sound(p, c3)
    BY <2>1, FinalExact
  <2> HIDE DEF c3
  <2>3. Sound(p, c4)
    BY <2>2, AcksExact
  <2> QED
    BY <2>1, <2>3
<1>8. ASSUME class = "UNEXPECTED" PROVE Sound(p, u)
  <2> HIDE DEF u
  <2> QED
    BY <1>3, <1>4, <1>6, <1>8, UnexpectedExact DEF u
<1> HIDE DEF c5, u
<1>9. Sound(p, send_disconn_req(c))
  BY DisconnectExact
<1> QED
  BY <1>3, <1>4, <1>5, <1>7, <1>8, <1>9

\* A number that was rejected, but not first: the list turns.
LEMMA MakesPending ==
    ASSUME NEW c \in Chan, RxInv(c), NEW f \in Frame, offset(f.txseq, c.last_acked_seq) < TxWin,
           Listed(c.srej_list, f.txseq), ~\E g \in c.srej_q : g.txseq = f.txseq, NEW d,
           RxIs(d, c.expected_tx_seq, c.buffer_seq, c.srej_q \cup {Kept(f)}, c.srej_list,
                c.rx_state),
           d.last_acked_seq = c.last_acked_seq
    PROVE  Pending(d, f.txseq)
<1> DEFINE q == c.srej_q \cup {Kept(f)}
           t == f.txseq
           ahead(x) == offset(x, c.buffer_seq)
           acked == offset(c.buffer_seq, c.last_acked_seq)
           end == ahead(c.expected_tx_seq)
<1>1. t \in Number /\ c.srej_list \in Seq(Number) /\ c.last_acked_seq \in Number
      /\ Kept(f).txseq = t
      /\ \A i \in DOMAIN c.srej_list : c.srej_list[i] \in Number
  BY FrameFields, ChanNumbers
<1>2. /\ acked + end <= TxWin
      /\ \A h \in c.srej_q : ahead(h.txseq) < end
      /\ \A h, k \in c.srej_q : h.txseq = k.txseq => h = k
      /\ \A i \in DOMAIN c.srej_list : ahead(c.srej_list[i]) < end
      /\ \A i, j \in DOMAIN c.srej_list : c.srej_list[i] = c.srej_list[j] => i = j
      /\ \A i \in DOMAIN c.srej_list, h \in c.srej_q : c.srej_list[i] # h.txseq
      /\ end = 0 \/ \E h \in c.srej_q : next(h.txseq) = c.expected_tx_seq
  BY DEF RxInv
<1>3. PICK i \in DOMAIN c.srej_list : c.srej_list[i] % Slots = t % Slots
  BY DEF Listed
<1>4. /\ acked \in Nat /\ end \in Nat /\ TxWin \in Nat
      /\ \A x \in Number : ahead(x) < end => offset(x, c.last_acked_seq) < acked + end
      /\ \A x \in Number : offset(x, c.last_acked_seq) \in Nat
      /\ \A x \in Number : ahead(x) \in Nat
  BY Window
<1> HIDE DEF acked, end
<1>5. offset(c.srej_list[i], c.last_acked_seq) < TxWin
  BY <1>1, <1>2, <1>4
<1>6. c.srej_list[i] = t
  BY <1>1, <1>3, <1>5, SameSlot
<1>7. ahead(t) < end /\ end # 0
  BY <1>1, <1>2, <1>4, <1>6
<1> HIDE DEF ahead
<1>8. \A h \in q : ahead(h.txseq) < end
  BY <1>1, <1>2, <1>7
<1>9. \A h, k \in q : h.txseq = k.txseq => h = k
  BY <1>1, <1>2
<1>10. \A j \in DOMAIN c.srej_list, h \in q : c.srej_list[j] = h.txseq => h.txseq = t
  BY <1>1, <1>2
<1>11. \E h \in q : next(h.txseq) = c.expected_tx_seq
  BY <1>2, <1>7
<1>12. \E j \in DOMAIN c.srej_list : c.srej_list[j] = t
  BY <1>6
<1>13. RxIs(d, c.expected_tx_seq, c.buffer_seq, q, c.srej_list, c.rx_state)
  OBVIOUS
<1>14. Pending(d, t)
  <2> HIDE DEF q, t
  <2> QED
    BY <1>2, <1>8, <1>9, <1>10, <1>11, <1>12, <1>13 DEF Pending, RxIs, acked, end, ahead
<1> QED
  BY <1>14

LEMMA StoreIs ==
    ASSUME NEW c, Good(FALSE, c), NEW f \in Frame, NEW q, q = c.srej_q \cup {Kept(f)},
           NEW d, d = Store(c, f)
    PROVE  /\ Fit(FALSE, d)
           /\ RxIs(d, c.expected_tx_seq, c.buffer_seq, q, c.srej_list, c.rx_state)
           /\ d.last_acked_seq = c.last_acked_seq
<1> DEFINE calm == FALSE
<1>1. calm \in BOOLEAN /\ Good(calm, c)
  OBVIOUS
<1> HIDE DEF calm
<1>2. /\ Fit(calm, d)
      /\ RxIs(d, c.expected_tx_seq, c.buffer_seq, q, c.srej_list, c.rx_state)
      /\ d.last_acked_seq = c.last_acked_seq
  BY <1>1, StoredIs
<1> QED
  BY <1>2 DEF calm

LEMMA FurtherGapExact ==
    ASSUME NEW p \in Places, NEW c, Sound(p, c), NEW f \in Frame, c.rx_state = "SREJ_SENT",
           offset(c.expected_tx_seq, c.last_acked_seq) <= offset(f.txseq, c.last_acked_seq),
           offset(f.txseq, c.last_acked_seq) < TxWin,
           f.sdu = Len(c.got) + offset(f.txseq, c.buffer_seq) + 1,
           \A b \in p.caps : f.sdu <= b, NEW d, d = send_srej(Store(c, f), f.txseq)
    PROVE  Sound(p, d)
<1> DEFINE q == c.srej_q \cup {Kept(f)}
           g == Store(c, f)
           calm == FALSE
<1>1. c \in Chan /\ RxInv(c) /\ Good(FALSE, c)
  BY SoundIs
<1>2. f.txseq \in Number /\ c.srej_list \in Seq(Number)
  BY <1>1, FrameFields, ChanNumbers
<1>3. g = PutRx(c, c.expected_tx_seq, c.buffer_seq, q, c.srej_list, c.rx_state, c.srej_act)
  BY <1>1, Stores
<1>4. calm \in BOOLEAN /\ Good(calm, c) /\ d = send_srej(g, f.txseq)
  BY <1>1
<1> HIDE DEF g, q, calm
<1>5. Fit(FALSE, g) /\ RxIs(g, c.expected_tx_seq, c.buffer_seq, q, c.srej_list, c.rx_state)
      /\ g.last_acked_seq = c.last_acked_seq
  BY <1>1, StoreIs DEF g, q
<1>6. Gap(g, f.txseq)
  BY <1>1, <1>2, <1>5, MakesGap DEF q
<1>7. Exact(p, g)
  BY <1>3, StoredExact DEF q
<1>8. Exact(p, d)
  BY <1>2, <1>4, <1>5, <1>6, <1>7, SrejsExact
<1>9. Good(calm, d)
  BY <1>4, FurtherGaps DEF g
<1> QED
  BY <1>8, <1>9 DEF Sound, calm

LEMMA LaterOneExact ==
    ASSUME NEW p \in Places, NEW c, Sound(p, c), NEW f \in Frame, c.rx_state = "SREJ_SENT",
           offset(f.txseq, c.last_acked_seq) < TxWin, Listed(c.srej_list, f.txseq),
           ~\E g \in c.srej_q : g.txseq = f.txseq,
           f.sdu = Len(c.got) + offset(f.txseq, c.buffer_seq) + 1,
           \A b \in p.caps : f.sdu <= b, NEW d, d = send_srej_list(Store(c, f), f.txseq)
    PROVE  Sound(p, d)
<1> DEFINE q == c.srej_q \cup {Kept(f)}
           g == Store(c, f)
           calm == FALSE
<1>1. c \in Chan /\ RxInv(c) /\ Good(FALSE, c)
  BY SoundIs
<1>2. f.txseq \in Number /\ c.srej_list \in Seq(Number)
  BY <1>1, FrameFields, ChanNumbers
<1>3. g = PutRx(c, c.expected_tx_seq, c.buffer_seq, q, c.srej_list, c.rx_state, c.srej_act)
  BY <1>1, Stores
<1>4. calm \in BOOLEAN /\ Good(calm, c) /\ d = send_srej_list(g, f.txseq)
  BY <1>1
<1> HIDE DEF g, q, calm
<1>5. Fit(FALSE, g) /\ RxIs(g, c.expected_tx_seq, c.buffer_seq, q, c.srej_list, c.rx_state)
      /\ g.last_acked_seq = c.last_acked_seq
  BY <1>1, StoreIs DEF g, q
<1>6. Pending(g, f.txseq)
  BY <1>1, <1>5, MakesPending DEF q
<1>7. Exact(p, g)
  BY <1>3, StoredExact DEF q
<1>8. Exact(p, d)
  BY <1>2, <1>4, <1>5, <1>6, <1>7, SrejListExact
<1>9. Good(calm, d)
  BY <1>4, LaterOnes DEF g
<1> QED
  BY <1>8, <1>9 DEF Sound, calm

LEMMA FirstOneExact ==
    ASSUME NEW p \in Places, NEW c, Sound(p, c), NEW f \in Frame, c.rx_state = "SREJ_SENT",
           StartsWith(c.srej_list, f.txseq),
           f.sdu = Len(c.got) + offset(f.txseq, c.buffer_seq) + 1,
           \A b \in p.caps : f.sdu <= b, NEW d, d = Behead(Store(c, f))
    PROVE  Sound(p, d) /\ d.rx_state = "SREJ_SENT"
<1> DEFINE q == c.srej_q \cup {Kept(f)}
           list == Tail(c.srej_list)
           calm == FALSE
<1>1. c \in Chan
  BY SoundIs
<1>2. d = PutRx(c, c.expected_tx_seq, c.buffer_seq, q, list, c.rx_state, c.srej_act)
  BY <1>1 DEF Behead, Store, Kept, PutRx, Chan
<1>3. calm \in BOOLEAN /\ Good(calm, c)
  BY DEF Sound
<1> HIDE DEF q, list, calm
<1>4. Exact(p, d)
  BY <1>2, StoredExact DEF q
<1>5. Good(calm, d) /\ d.rx_state = "SREJ_SENT"
  BY <1>3, FirstOnes
<1> QED
  BY <1>4, <1>5 DEF Sound, calm

LEMMA NextBehindExact ==
    ASSUME NEW p \in Places, NEW c, Sound(p, c), NEW f \in Frame, c.rx_state = "SREJ_SENT",
           f.txseq = c.expected_tx_seq, offset(f.txseq, c.last_acked_seq) < TxWin,
           f.sdu = Len(c.got) + offset(f.txseq, c.buffer_seq) + 1,
           \A b \in p.caps : f.sdu <= b,
           NEW d, d = [Store(c, f) EXCEPT !.expected_tx_seq = next(f.txseq)]
    PROVE  Sound(p, d)
<1> DEFINE q == c.srej_q \cup {Kept(f)}
           e == next(f.txseq)
           calm == FALSE
<1>1. c \in Chan
  BY SoundIs
<1>2. d = PutRx(c, e, c.buffer_seq, q, c.srej_list, c.rx_state, c.srej_act)
  BY <1>1 DEF Store, Kept, PutRx, Chan
<1>3. calm \in BOOLEAN /\ Good(calm, c)
  BY DEF Sound
<1>4. q = c.srej_q \cup {Kept(f)}
  OBVIOUS
<1> HIDE DEF q, e, calm
<1>6. Exact(p, d)
  <2>1. SameSender(c, d) /\ d.got = c.got /\ d.buffer_seq = c.buffer_seq /\ d.srej_q = q
        /\ d.up = c.up
    BY <1>1, <1>2, ZenonT(40) DEF PutRx, Chan, SameSender
  <2>2. Exact(p, c)
    BY SoundIs
  <2> QED
    BY <1>1, <1>4, <2>1, <2>2, StoreExact
<1>5. Good(calm, d)
  BY <1>3, Nexts
<1> QED
  BY <1>5, <1>6 DEF Sound, calm

LEMMA IframeBehindExact ==
    ASSUME 2 * TxWin <= Modulus, NEW p \in Places, NEW c, Sound(p, c), c.up,
           c.rx_state = "SREJ_SENT", NEW f \in Frame, f.super = "I", Arrives(p, c, f),
           valid_reqseq(c, f.reqseq), NEW fill \in Nat, NEW d, d = RecvIframeSrejSent(c, f, fill)
    PROVE  Sound(p, d)
<1> DEFINE class == classify_txseq(c, f.txseq)
           c1 == pass_to_tx(c, f)
           g == Store(c1, f)
           n == [g EXCEPT !.expected_tx_seq = next(f.txseq)]
           b == Behead(g)
           r == rx_queued_iframes(b, fill)
           u == send_srej(g, f.txseq)
           l == send_srej_list(g, f.txseq)
<1>1. c \in Chan /\ RxInv(c) /\ Good(FALSE, c) /\ RxExact(c) /\ EndExact(p, c)
  BY SoundIs DEF Exact, Flow
<1>2. f.txseq \in Number
  BY FrameFields
<1>3. /\ class \in {"INVALID_IGNORE", "INVALID", "EXPECTED", "DUPLICATE", "UNEXPECTED",
                    "EXPECTED_SREJ", "DUPLICATE_SREJ", "UNEXPECTED_SREJ"}
      /\ class = "EXPECTED" => /\ f.txseq = c.expected_tx_seq
                               /\ offset(f.txseq, c.last_acked_seq) < TxWin
      /\ class = "UNEXPECTED" =>
             /\ offset(c.expected_tx_seq, c.last_acked_seq) <= offset(f.txseq, c.last_acked_seq)
             /\ offset(f.txseq, c.last_acked_seq) < TxWin
      /\ class = "EXPECTED_SREJ" => StartsWith(c.srej_list, f.txseq)
      /\ class = "UNEXPECTED_SREJ" =>
             /\ offset(f.txseq, c.last_acked_seq) < TxWin
             /\ Listed(c.srej_list, f.txseq) /\ ~\E x \in c.srej_q : x.txseq = f.txseq
  BY <1>1, <1>2, Classes DEF StartsWith
<1>4. /\ Sound(p, c1) /\ c1.last_acked_seq = c.last_acked_seq
      /\ c1.expected_tx_seq = c.expected_tx_seq /\ c1.rx_state = c.rx_state
      /\ c1.srej_list = c.srej_list /\ c1.srej_q = c.srej_q
      /\ c1.buffer_seq = c.buffer_seq /\ c1.got = c.got
  <2>1. SameRx(c, c1) /\ c1.last_acked_seq = c.last_acked_seq
    BY <1>1, PassKeeps
  <2>2. Sound(p, c1)
    BY PassExact
  <2> QED
    BY <2>1, <2>2 DEF SameRx
<1>5. d = CASE class = "EXPECTED" -> n
            [] class = "EXPECTED_SREJ" -> r
            [] class = "UNEXPECTED" -> u
            [] class = "UNEXPECTED_SREJ" -> l
            [] class = "DUPLICATE_SREJ" -> c1
            [] class \in {"DUPLICATE", "INVALID_IGNORE"} -> c
            [] class = "INVALID" -> send_disconn_req(c)
  BY DEF RecvIframeSrejSent, Behead
<1> HIDE DEF class, c1
<1>6. ASSUME class \in {"EXPECTED", "EXPECTED_SREJ", "UNEXPECTED", "UNEXPECTED_SREJ"}
      PROVE  /\ f.sdu = Len(c1.got) + offset(f.txseq, c1.buffer_seq) + 1
             /\ \A x \in p.caps : f.sdu <= x
  <2>1. \/ /\ offset(c.expected_tx_seq, c.last_acked_seq) <= offset(f.txseq, c.last_acked_seq)
           /\ offset(f.txseq, c.last_acked_seq) < TxWin
        \/ StartsWith(c.srej_list, f.txseq)
        \/ offset(f.txseq, c.last_acked_seq) < TxWin /\ Listed(c.srej_list, f.txseq)
    <3>1. offset(c.expected_tx_seq, c.last_acked_seq) \in Nat
      BY <1>1, Window, ChanNumbers
    <3> QED
      BY <1>3, <1>6, <3>1
  <2>2. offset(f.txseq, c.buffer_seq) < TxWin
    BY <1>1, <1>2, <2>1, InWindow
  <2>3. \A x \in p.caps : f.sdu <= x
    BY DEF Arrives
  <2> QED
    BY <1>1, <1>4, <2>2, <2>3, Placed
<1>7. ASSUME class = "EXPECTED" PROVE Sound(p, n)
  <2> HIDE DEF n
  <2> QED
    BY <1>3, <1>4, <1>6, <1>7, NextBehindExact DEF n
<1>8. ASSUME class = "EXPECTED_SREJ" PROVE Sound(p, r)
  <2>1. Sound(p, b) /\ b.rx_state = "SREJ_SENT"
    <3> HIDE DEF b
    <3> QED
      BY <1>3, <1>4, <1>6, <1>8, FirstOneExact DEF b
  <2> HIDE DEF b
  <2> QED
    BY <2>1, QueuedExact
<1>9. ASSUME class = "UNEXPECTED" PROVE Sound(p, u)
  <2> HIDE DEF u
  <2> QED
    BY <1>3, <1>4, <1>6, <1>9, FurtherGapExact DEF u
<1>10. ASSUME class = "UNEXPECTED_SREJ" PROVE Sound(p, l)
  <2> HIDE DEF l
  <2> QED
    BY <1>3, <1>4, <1>6, <1>10, LaterOneExact DEF l
<1>11. Sound(p, send_disconn_req(c))
  BY DisconnectExact
<1> HIDE DEF n, r, u, l
<1> QED
  BY <1>3, <1>4, <1>5, <1>7, <1>8, <1>9, <1>10, <1>11

LEMMA FrameExact ==
    ASSUME 2 * TxWin <= Modulus, NEW p \in Places, NEW c, Sound(p, c), c.up, NEW f \in Frame,
           Arrives(p, c, f), NEW fill \in Nat, NEW d, d = data_rcv(c, f, fill)
    PROVE  Sound(p, d)
<1>1. c.rx_state \in {"RECV", "SREJ_SENT"} /\ f.super \in {"I", "RR", "RNR", "SREJ"}
  BY SoundIs, ChanNumbers, FrameFields
<1>2. Sound(p, send_disconn_req(c))
  BY DisconnectExact
<1>3. ASSUME valid_reqseq(c, f.reqseq), f.super = "I", c.rx_state = "RECV"
      PROVE  Sound(p, RecvIframe(c, f, fill))
  BY <1>3, IframeExact
<1>4. ASSUME valid_reqseq(c, f.reqseq), f.super = "I", c.rx_state = "SREJ_SENT"
      PROVE  Sound(p, RecvIframeSrejSent(c, f, fill))
  BY <1>4, IframeBehindExact
<1>5. ASSUME valid_reqseq(c, f.reqseq), f.super = "RR"
      PROVE  Sound(p, RecvRR(c, f))
  BY <1>5, RRExact
<1>6. ASSUME valid_reqseq(c, f.reqseq), f.super = "RNR"
      PROVE  Sound(p, RecvRNR(c, f))
  BY <1>6, RNRExact
<1>7. ASSUME f.super = "SREJ"
      PROVE  Sound(p, handle_srej(c, f))
  BY <1>7, SrejHandledExact
<1> QED
  BY <1>1, <1>2, <1>3, <1>4, <1>5, <1>6, <1>7 DEF data_rcv

-----------------------------------------------------------------------------
(* Timers, requests, reading *)

LEMMA TimersAside ==
    ASSUME NEW p \in Places, NEW c, Sound(p, c), NEW t \in Timer
    PROVE  /\ Exact(p, Taken(c, t)) /\ Exact(p, Rearmed(Taken(c, t), t))
           /\ Exact(p, Fired(c, t))
<1>1. c \in Chan /\ TxInv(c) /\ Exact(p, c)
  BY SoundIs
<1>2. c.armed \in SUBSET Timer /\ c.due \in SUBSET Timer
  BY <1>1, ChanNumbers
<1>3. /\ Taken(c, t) \in Chan /\ Alike(c, Taken(c, t)) /\ Taken(c, t).out = c.out
  BY <1>1, <1>2 DEF Taken, Chan, Alike
<1>4. /\ Rearmed(Taken(c, t), t) \in Chan /\ Alike(c, Rearmed(Taken(c, t), t))
      /\ Rearmed(Taken(c, t), t).out = c.out
  BY <1>1, <1>2 DEF Taken, Rearmed, Chan, Alike
<1>5. /\ Fired(c, t) \in Chan /\ Alike(c, Fired(c, t)) /\ Fired(c, t).out = c.out
  BY <1>1, <1>2 DEF Fired, Chan, Alike
<1> QED
  BY <1>1, <1>3, <1>4, <1>5, Stays

LEMMA RearmedExact ==
    ASSUME NEW p \in Places, NEW c, Sound(p, c), NEW t \in Timer,
           t = "retrans" \/ (t = "monitor" /\ c.tx_state = "WAIT_F"),
           NEW d, d = Rearmed(Taken(c, t), t)
    PROVE  Sound(p, d)
<1> DEFINE calm == FALSE
<1>1. calm \in BOOLEAN /\ Good(calm, c)
  BY DEF Sound
<1> HIDE DEF calm
<1>2. Good(calm, d)
  BY <1>1, RearmedGood
<1> QED
  BY <1>2, TimersAside DEF Sound, calm

LEMMA RetransExact ==
    ASSUME NEW p \in Places, NEW c, Sound(p, c), NEW d, d = retrans_timeout(Taken(c, "retrans"))
    PROVE  Sound(p, d)
<1> DEFINE t == "retrans"
           b == Taken(c, t)
           x == Rearmed(b, t)
           yes == TRUE
           y == send_rr_or_rnr(x, yes)
           calm == FALSE
<1>1. t \in Timer /\ c \in Chan /\ yes \in BOOLEAN
  BY SoundIs DEF Timer
<1>2. b \in Chan
  BY <1>1, TakenFields
<1>3. Good(FALSE, d)
  <2>1. calm \in BOOLEAN /\ Good(calm, c)
    BY DEF Sound
  <2> HIDE DEF calm
  <2>2. Good(calm, d)
    BY <2>1, RetransExpires
  <2> QED
    BY <2>2 DEF calm
<1>4. d = PollAndWait(y) \/ d = b
  <2>1. d = PollAndWait(send_rr_or_rnr(b, TRUE)) \/ d = b
    BY DEF retrans_timeout
  <2>2. PollAndWait(y) = PollAndWait(send_rr_or_rnr(b, TRUE))
    <3> HIDE DEF b
    <3> QED
      BY <1>2, PollsAlike
  <2> QED
    BY <2>1, <2>2
<1>5. Exact(p, b)
  BY <1>1, TimersAside
<1>6. Sound(p, x)
  BY <1>1, RearmedExact
<1> HIDE DEF x, yes, b
<1>7. Sound(p, y)
  BY <1>1, <1>6, ReportsExact
<1>8. d \in Chan
  BY <1>3 DEF Good
<1> HIDE DEF y
<1>9. Exact(p, d)
  BY <1>4, <1>5, <1>7, <1>8, PollExact
<1> QED
  BY <1>3, <1>9 DEF Sound

LEMMA MonitorExact ==
    ASSUME NEW p \in Places, NEW c, Sound(p, c), NEW d, d = monitor_timeout(Taken(c, "monitor"))
    PROVE  Sound(p, d)
<1> DEFINE t == "monitor"
           b == Taken(c, t)
           x == Rearmed(b, t)
           yes == TRUE
           y == send_rr_or_rnr(x, yes)
           calm == FALSE
<1>1. t \in Timer /\ c \in Chan /\ c.tx_state \in {"XMIT", "WAIT_F"} /\ yes \in BOOLEAN
  BY SoundIs, ChanNumbers DEF Timer
<1>2. b \in Chan /\ b.tx_state = c.tx_state
  BY <1>1, TakenFields
<1>3. Good(FALSE, d) /\ d \in Chan
  <2>1. calm \in BOOLEAN /\ Good(calm, c)
    BY DEF Sound
  <2> HIDE DEF calm
  <2>2. Good(calm, d)
    BY <2>1, MonitorExpires
  <2> QED
    BY <2>2 DEF calm, Good
<1>4. CASE c.tx_state = "WAIT_F"
  <2>1. d = Repeat(b) \/ d = send_disconn_req(b)
    BY <1>2, <1>4 DEF monitor_timeout, Repeat
  <2>2. d = Repeat(x) \/ d = send_disconn_req(x)
    <3> HIDE DEF b
    <3> QED
      BY <1>2, <2>1, PollsAlike
  <2>3. Sound(p, x)
    BY <1>1, <1>4, RearmedExact
  <2> HIDE DEF x, yes
  <2>4. Sound(p, y) /\ y \in Chan /\ TxInv(y) /\ Exact(p, y)
    BY <1>1, <2>3, ReportsExact, SoundIs
  <2>5. Exact(p, Repeat(x)) \/ d # Repeat(x)
    <3>1. SUFFICES ASSUME d = Repeat(x) PROVE Exact(p, d)
      OBVIOUS
    <3>2. d = [set_monitor_timer(y) EXCEPT !.retry_count = Count(x, @)]
      BY <3>1 DEF Repeat, yes
    <3> HIDE DEF y
    <3>3. Alike(y, d) /\ d.out = y.out
      BY <2>4, <3>2 DEF set_monitor_timer, Chan, Alike
    <3> QED
      BY <1>3, <2>4, <3>3, Stays
  <2>6. Sound(p, send_disconn_req(x))
    BY <2>3, DisconnectExact
  <2> QED
    BY <1>3, <2>2, <2>5, <2>6 DEF Sound
<1>5. CASE c.tx_state = "XMIT"
  <2>1. d = b
    BY <1>2, <1>5 DEF monitor_timeout
  <2>2. Exact(p, b)
    BY <1>1, TimersAside
  <2> QED
    BY <1>3, <2>1, <2>2 DEF Sound
<1> QED
  BY <1>1, <1>4, <1>5

LEMMA AckExact ==
    ASSUME NEW p \in Places, NEW c, Sound(p, c), NEW d, d = ack_timeout(Taken(c, "ack"))
    PROVE  Sound(p, d)
<1> DEFINE t == "ack"
           b == Taken(c, t)
           no == FALSE
           calm == FALSE
<1>1. t \in Timer /\ t # "retrans" /\ t # "monitor" /\ no \in BOOLEAN
  BY DEF Timer
<1>2. d = b \/ d = send_rr_or_rnr(b, no)
  BY DEF ack_timeout
<1>3. calm \in BOOLEAN /\ Good(calm, c)
  BY DEF Sound
<1> HIDE DEF t, no, calm
<1>4. Good(calm, b)
  BY <1>1, <1>3, TakenGood
<1>5. Sound(p, b)
  BY <1>1, <1>4, TimersAside DEF Sound, calm
<1> HIDE DEF b
<1> QED
  BY <1>1, <1>2, <1>5, ReportsExact

LEMMA QueueExact ==
    ASSUME NEW p \in Places, NEW c, Sound(p, c), NEW p2, p2 = [p EXCEPT !.sent = c.sent + 1],
           NEW tx_q, tx_q = Append(c.tx_q, [txseq |-> 0, retries |-> 0, sdu |-> c.sent + 1]),
           NEW d, d = PutQueue(c, c.sent + 1, tx_q)
    PROVE  Exact(p2, d)
<1> DEFINE more == c.sent + 1
           unit == [txseq |-> 0, retries |-> 0, sdu |-> more]
           n == Len(c.tx_q)
<1>1. c \in Chan /\ TxInv(c) /\ Exact(p, c)
  BY SoundIs
<1>2. c.tx_q \in Seq(Unit) /\ c.sent \in Nat /\ c.head \in Nat /\ n \in Nat /\ c.unacked \in Nat
      /\ c.head <= n
  <2>1. c.tx_q \in Seq(Unit) /\ c.sent \in Nat /\ c.head \in Nat /\ c.unacked \in Nat
        /\ c.head <= n
    BY <1>1, ChanNumbers DEF TxInv
  <2> QED
    BY <2>1
<1>3. unit \in Unit
  <2>1. more \in Nat
    BY <1>2
  <2> HIDE DEF more
  <2> QED
    BY <2>1, Numbers DEF Unit
<1>4. /\ tx_q \in Seq(Unit) /\ Len(tx_q) = n + 1 /\ DOMAIN tx_q = 1 .. n + 1
      /\ \A i \in 1 .. n : tx_q[i] = c.tx_q[i] /\ i \in DOMAIN c.tx_q
      /\ tx_q[n + 1] = unit
  <2>1. tx_q = Append(c.tx_q, unit)
    OBVIOUS
  <2> HIDE DEF unit
  <2> QED
    BY <1>2, <1>3, <2>1
<1>5. unit.sdu = more
  OBVIOUS
<1> HIDE DEF unit, more
<1>6. /\ d.sent = more /\ d.tx_q = tx_q /\ d.head = c.head /\ d.unacked = c.unacked
      /\ d.expected_ack_seq = c.expected_ack_seq /\ d.got = c.got /\ d.out = c.out
      /\ d.buffer_seq = c.buffer_seq /\ d.srej_q = c.srej_q /\ d.up = c.up
  <2>1. d = PutQueue(c, more, tx_q)
    BY DEF more
  <2> QED
    BY <1>1, <2>1 DEF PutQueue, Chan
<1>7. /\ p2.link = p.link /\ p2.base = p.base /\ p2.newest = p.newest /\ p2.units = p.units
      /\ p2.caps = p.caps /\ p2.acks = p.acks /\ p2.from = p.from /\ p2.got = p.got
      /\ p2.sent = more
  BY DEF Places, more
<1>8. Forgotten(d) = Forgotten(c) /\ Newest(d) = Newest(c) /\ Forgotten(c) = c.sent - n
      /\ more = c.sent + 1
  <2>1. Forgotten(d) = Forgotten(c)
    <3>1. Forgotten(d) = more - (n + 1) /\ Forgotten(c) = c.sent - n
      BY <1>4, <1>6 DEF Forgotten
    <3> HIDE DEF n
    <3> QED
      BY <1>2, <3>1 DEF more
  <2> QED
    BY <1>6, <2>1 DEF Newest, Forgotten, more
<1>9. TxExact(d)
  <2>1. TxExact(c)
    BY <1>1 DEF Exact, EndExact
  <2>2. ASSUME NEW i \in DOMAIN tx_q PROVE tx_q[i].sdu = Forgotten(c) + i
    <3>1. CASE i = n + 1
      BY <1>2, <1>4, <1>5, <1>8, <3>1
    <3>2. CASE i # n + 1
      <4>1. i \in 1 .. n
        BY <1>2, <1>4, <3>2
      <4> QED
        BY <1>4, <2>1, <4>1 DEF TxExact
    <3> QED
      BY <3>1, <3>2
  <2>3. \A i \in 1 .. c.head : i \in 1 .. n
    BY <1>2
  <2>4. \A i \in 1 .. c.head : tx_q[i].txseq = Nth(Forgotten(c) + i - 1)
    BY <1>4, <2>1, <2>3 DEF TxExact
  <2> QED
    BY <1>6, <1>8, <2>1, <2>2, <2>4 DEF TxExact
<1>10. EndExact(p2, d)
  BY <1>1, <1>6, <1>7, <1>8, <1>9 DEF Exact, EndExact
<1>11. ASSUME d.up PROVE Flow(p2, d)
  <2>1. Flow(p, c)
    BY <1>1, <1>6, <1>11 DEF Exact
  <2>2. RxExact(d)
    BY <1>6, <2>1 DEF Flow, RxExact
  <2>3. Lane(p2, Newest(d), Len(d.got), p2.link \o d.out)
    <3>1. Lane(p, Newest(c), Len(c.got), p.link \o c.out)
      BY <2>1 DEF Flow
    <3>2. /\ \A f : Ahead(p2, f) = Ahead(p, f)
          /\ \A top, got, f : Fair(p, top, got, f) => Fair(p2, top, got, f)
          /\ \A e, f : Before(p, e, f) => Before(p2, e, f)
      BY <1>7 DEF Fair, Before, Ahead
    <3>3. Lane(p2, Newest(c), Len(c.got), p.link \o c.out)
      BY <3>1, <3>2 DEF Lane
    <3> QED
      BY <1>6, <1>7, <1>8, <3>3
  <2> QED
    BY <1>6, <1>7, <1>8, <2>1, <2>2, <2>3 DEF Flow
<1> QED
  BY <1>10, <1>11 DEF Exact

LEMMA RequestExact ==
    ASSUME NEW p \in Places, NEW c, Sound(p, c), NEW p2, p2 = [p EXCEPT !.sent = c.sent + 1],
           NEW d, d = data_request(c)
    PROVE  Sound(p2, d) /\ d.up = c.up
<1> DEFINE g == PutQueue(c, c.sent + 1, Waiting(c))
           calm == FALSE
<1>1. c \in Chan /\ Good(calm, c) /\ calm \in BOOLEAN
  BY SoundIs
<1>2. c.sent \in Nat /\ c.sent + 1 \in Nat
  BY <1>1, ChanNumbers
<1>3. d = ertm_send(g)
  BY DEF data_request, PutQueue, Waiting
<1>4. p2 \in Places
  BY <1>2 DEF Places
<1>5. Exact(p2, g)
  BY QueueExact DEF Waiting
<1> HIDE DEF g, calm
<1>6. Good(calm, g) /\ g.up = c.up
  BY <1>1, QueueGood DEF g, SameState
<1>7. Sound(p2, d)
  BY <1>3, <1>4, <1>5, <1>6, SendsExact DEF Sound, calm
<1>8. SameState(g, d)
  BY <1>1, <1>3, <1>6, Sends
<1> QED
  BY <1>6, <1>7, <1>8 DEF SameState

-----------------------------------------------------------------------------
(* The two ends *)

\* The units that an end has: the last of those that its socket got, and those it stored.
Units(c) == {Len(c.got)} \cup {f.sdu : f \in c.srej_q}

\* What the frames l from the end c to the end d are measured by.
View(d) == [base |-> Forgotten(d), newest |-> Newest(d), units |-> Units(d)]
Half(c, d, l) ==
    /\ TxExact(c) /\ RxExact(c) /\ InOrder(c.got)
    /\ Forgotten(c) <= Len(d.got) /\ \A u \in Units(d) : u <= Newest(c)
    /\ Lane(View(d), Newest(c), Len(c.got), l)

LinkInv ==
    /\ AckedHasArrived
    /\ Up => \A s \in Side : Half(chan[s], chan[Peer(s)], link[s])

\* What c relies on while its handler runs, with the frames l on its link and those of k on
\* their way to it.
Place(c, d, l, k) ==
    [link |-> l, base |-> Forgotten(d), newest |-> Newest(d), units |-> Units(d),
     caps |-> {Newest(d)} \cup {k[i].sdu + TxWin - 1 : i \in {j \in DOMAIN k : k[j].super = "I"}},
     acks |-> {Len(d.got)} \cup
              {Forgotten(c) + offset(k[i].reqseq, Nth(Forgotten(c))) : i \in DOMAIN k},
     top |-> Newest(c), sent |-> c.sent, from |-> Forgotten(c), got |-> Len(c.got)]

\* Of an end between two handlers.
Idle(c) == Good(FALSE, c) /\ c.out = <<>>

LEMMA UnitsAre ==
    ASSUME NEW c \in Chan
    PROVE  /\ Units(c) \in SUBSET Nat /\ Len(c.got) \in Units(c) /\ Len(c.got) \in Nat
           /\ \A f \in c.srej_q : f.sdu \in Units(c)
           /\ \A u \in Units(c) : u = Len(c.got) \/ \E f \in c.srej_q : u = f.sdu
<1>1. c.got \in Seq(Nat) /\ \A f \in c.srej_q : f.sdu \in Nat
  BY ChanNumbers
<1> QED
  BY <1>1 DEF Units

\* Lanes are measured alike by whatever has the same fields.
LEMMA SameLane ==
    ASSUME NEW p, NEW q, p.base = q.base, p.newest = q.newest, p.units = q.units,
           NEW top, NEW g, NEW l
    PROVE  Lane(p, top, g, l) <=> Lane(q, top, g, l)
  BY DEF Lane, Fair, Before, Ahead

LEMMA HalfNumbers ==
    ASSUME NEW c \in Chan, TxInv(c), TxExact(c)
    PROVE  /\ Forgotten(c) \in Nat /\ Newest(c) \in Nat /\ Newest(c) = Forgotten(c) + c.unacked
           /\ Newest(c) <= Forgotten(c) + TxWin /\ Forgotten(c) <= Newest(c)
           /\ c.expected_ack_seq = Nth(Forgotten(c)) /\ Newest(c) <= c.sent
<1>1. /\ c.unacked \in Nat /\ c.unacked <= TxWin /\ Forgotten(c) \in Nat /\ TxWin \in Nat
      /\ c.head = c.unacked /\ c.head <= Len(c.tx_q) /\ Len(c.tx_q) \in Nat /\ c.sent \in Nat
      /\ c.expected_ack_seq = Nth(Forgotten(c))
  <2>1. c.unacked \in Nat /\ c.tx_q \in Seq(Unit) /\ c.sent \in Nat /\ TxWin \in Nat
    BY ChanNumbers, Numbers
  <2>2. Len(c.tx_q) \in Nat
    BY <2>1
  <2> QED
    BY <2>1, <2>2 DEF TxInv, TxExact
<1> QED
  BY <1>1 DEF Newest, Forgotten

LEMMA PlaceIs ==
    ASSUME NEW c \in Chan, NEW d \in Chan, TxInv(c), TxInv(d), TxExact(c), TxExact(d),
           NEW l \in Seq(Frame), NEW k \in Seq(Frame), NEW p, p = Place(c, d, l, k)
    PROVE  p \in Places
<1>1. /\ Forgotten(c) \in Nat /\ Newest(c) \in Nat /\ Forgotten(d) \in Nat /\ Newest(d) \in Nat
      /\ Newest(d) <= Forgotten(d) + TxWin /\ c.sent \in Nat /\ TxWin \in Nat /\ 0 < TxWin
  BY HalfNumbers, ChanNumbers, Numbers
<1>2. Units(d) \in SUBSET Nat /\ Len(c.got) \in Nat /\ Len(d.got) \in Nat
  BY UnitsAre
<1>3. \A i \in DOMAIN k : k[i].sdu \in Nat /\ k[i].reqseq \in Number
  <2>1. \A i \in DOMAIN k : k[i] \in Frame
    OBVIOUS
  <2> QED
    BY <2>1, FrameFields
<1> DEFINE caps == {Newest(d)} \cup
                   {k[i].sdu + TxWin - 1 : i \in {j \in DOMAIN k : k[j].super = "I"}}
           acks == {Len(d.got)} \cup
                   {Forgotten(c) + offset(k[i].reqseq, Nth(Forgotten(c))) : i \in DOMAIN k}
<1>4. caps \in SUBSET Nat /\ Newest(d) \in caps
  BY <1>1, <1>3
<1>5. acks \in SUBSET Nat
  <2>1. \A i \in DOMAIN k : offset(k[i].reqseq, Nth(Forgotten(c))) \in Nat
    BY <1>1, <1>3, Nths, OffsetIs, Numbers
  <2> QED
    BY <1>1, <1>2, <2>1
<1>6. p = [link |-> l, base |-> Forgotten(d), newest |-> Newest(d), units |-> Units(d),
           caps |-> caps, acks |-> acks, top |-> Newest(c), sent |-> c.sent,
           from |-> Forgotten(c), got |-> Len(c.got)]
  BY DEF Place
<1> HIDE DEF caps, acks
<1> QED
  BY <1>1, <1>2, <1>4, <1>5, <1>6 DEF Places

\* Frames of a, in their order, with none repeated: what is left of b.
Left(a, b) ==
    /\ \A i \in DOMAIN a : \E m \in DOMAIN b : a[i] = b[m]
    /\ \A i, j \in DOMAIN a : j < i => \E m, n \in DOMAIN b : n < m /\ a[i] = b[m] /\ a[j] = b[n]

LEMMA LeftLane ==
    ASSUME NEW p, NEW top, NEW g, NEW a, NEW b, Left(a, b), Lane(p, top, g, b)
    PROVE  Lane(p, top, g, a)
  BY DEF Left, Lane

LEMMA LeftHalf ==
    ASSUME NEW c, NEW d, NEW a, NEW b, Left(a, b), Half(c, d, b)
    PROVE  Half(c, d, a)
  BY LeftLane DEF Half

LEMMA RestLeft ==
    ASSUME NEW b \in Seq(Frame), b # <<>>
    PROVE  /\ Left(Tail(b), b) /\ 1 \in DOMAIN b /\ Head(b) = b[1]
           /\ \A i \in DOMAIN Tail(b) : \E m \in DOMAIN b : 1 < m /\ Tail(b)[i] = b[m]
<1>1. /\ Tail(b) \in Seq(Frame) /\ Len(Tail(b)) = Len(b) - 1 /\ Len(b) \in Nat
      /\ \A i \in 1 .. Len(b) - 1 : Tail(b)[i] = b[i + 1]
      /\ DOMAIN Tail(b) = 1 .. Len(Tail(b)) /\ DOMAIN b = 1 .. Len(b) /\ Len(b) > 0
  OBVIOUS
<1> DEFINE a == Tail(b)
<1>2. \A i \in DOMAIN a : i \in Nat /\ i + 1 \in DOMAIN b /\ a[i] = b[i + 1] /\ 1 < i + 1
  BY <1>1
<1>3. \A i, j \in DOMAIN a : j < i => j + 1 < i + 1
  BY <1>2
<1>4. 1 \in DOMAIN b /\ Head(b) = b[1]
  BY <1>1
<1> HIDE DEF a
<1>5. Left(a, b)
  BY <1>2, <1>3 DEF Left
<1> QED
  BY <1>2, <1>4, <1>5 DEF a

LEMMA LossLeft ==
    ASSUME NEW b \in Seq(Frame), NEW n \in DOMAIN b, NEW a, a = RemoveAt(b, n)
    PROVE  Left(a, b)
<1>1. Len(b) \in Nat /\ DOMAIN b = 1 .. Len(b) /\ n \in 1 .. Len(b)
  OBVIOUS
<1>2. a = SubSeq(b, 1, n - 1) \o SubSeq(b, n + 1, Len(b))
  BY DEF RemoveAt
<1> DEFINE at(i) == IF i < n THEN i ELSE i + 1
<1>3. DOMAIN a = 1 .. Len(b) - 1 /\ \A i \in 1 .. Len(b) - 1 : a[i] = b[at(i)]
  <2> DEFINE x == SubSeq(b, 1, n - 1)
             y == SubSeq(b, n + 1, Len(b))
  <2>1. x \in Seq(Frame) /\ Len(x) = n - 1 /\ \A i \in 1 .. n - 1 : x[i] = b[i]
    BY <1>1, SubSeqProperties
  <2>2. y \in Seq(Frame) /\ Len(y) = Len(b) - n /\ \A i \in 1 .. Len(b) - n : y[i] = b[i + n]
    BY <1>1, SubSeqProperties
  <2>0. a = x \o y
    BY <1>2
  <2> HIDE DEF x, y
  <2>5. /\ x \o y \in Seq(Frame) /\ Len(x \o y) = Len(x) + Len(y)
        /\ \A i \in 1 .. Len(x) + Len(y) :
              (x \o y)[i] = IF i <= Len(x) THEN x[i] ELSE y[i - Len(x)]
    BY <2>1, <2>2, ConcatProperties
  <2>3. Len(a) = Len(b) - 1 /\ DOMAIN a = 1 .. Len(a)
        /\ \A i \in 1 .. Len(b) - 1 : a[i] = IF i <= n - 1 THEN x[i] ELSE y[i - (n - 1)]
    BY <1>1, <2>0, <2>1, <2>2, <2>5
  <2>4. ASSUME NEW i \in 1 .. Len(b) - 1 PROVE a[i] = b[at(i)]
    <3>1. CASE i < n
      <4>1. i <= n - 1 /\ i \in 1 .. n - 1
        BY <1>1, <3>1
      <4> QED
        BY <2>1, <2>3, <3>1, <4>1
    <3>2. CASE ~(i < n)
      <4>1. /\ i - (n - 1) \in 1 .. Len(b) - n /\ i - (n - 1) + n = i + 1
            /\ ~(i <= n - 1)
        BY <1>1, <3>2
      <4>2. a[i] = y[i - (n - 1)]
        BY <2>3, <4>1
      <4>3. y[i - (n - 1)] = b[i - (n - 1) + n]
        BY <2>2, <4>1
      <4> QED
        BY <3>2, <4>1, <4>2, <4>3
    <3> QED
      BY <3>1, <3>2
  <2> QED
    BY <2>3, <2>4
<1>4. \A i \in DOMAIN a : at(i) \in DOMAIN b /\ a[i] = b[at(i)]
  BY <1>1, <1>3
<1>5. \A i, j \in DOMAIN a : j < i => at(j) < at(i)
  BY <1>1, <1>3
<1> HIDE DEF at
<1> QED
  BY <1>4, <1>5 DEF Left

LEMMA PlaceSound ==
    ASSUME NEW c, NEW d, Idle(c), Idle(d), NEW l \in Seq(Frame), NEW k \in Seq(Frame),
           Half(c, d, l), Half(d, c, k), NEW p, p = Place(c, d, l, k)
    PROVE  p \in Places /\ Sound(p, c)
<1>1. /\ c \in Chan /\ d \in Chan /\ TxInv(c) /\ TxInv(d) /\ TxExact(c) /\ TxExact(d)
      /\ c.out = <<>> /\ Good(FALSE, c)
  BY DEF Idle, Good, Half
<1>2. p \in Places
  BY <1>1, PlaceIs
<1>3. /\ p.link = l /\ p.base = Forgotten(d) /\ p.newest = Newest(d) /\ p.units = Units(d)
      /\ p.caps = {Newest(d)} \cup
                  {k[i].sdu + TxWin - 1 : i \in {j \in DOMAIN k : k[j].super = "I"}}
      /\ p.acks = {Len(d.got)} \cup
                  {Forgotten(c) + offset(k[i].reqseq, Nth(Forgotten(c))) : i \in DOMAIN k}
      /\ p.top = Newest(c) /\ p.sent = c.sent /\ p.from = Forgotten(c) /\ p.got = Len(c.got)
  BY DEF Place
<1>4. /\ Forgotten(c) \in Nat /\ Newest(c) \in Nat /\ Forgotten(d) \in Nat /\ Newest(d) \in Nat
      /\ TxWin \in Nat
  BY <1>1, HalfNumbers, Numbers
<1>5. /\ Units(c) \in SUBSET Nat /\ Len(c.got) \in Units(c) /\ Len(c.got) \in Nat
      /\ \A f \in c.srej_q : f.sdu \in Units(c)
  BY <1>1, UnitsAre
<1>6. \A i \in DOMAIN k : k[i] \in Frame
  OBVIOUS
<1>7. /\ \A u \in Units(c) : u <= Newest(d)
      /\ \A i \in DOMAIN k : k[i].super = "I" => \A u \in Units(c) : u < k[i].sdu + TxWin
  BY DEF Half, Lane, Fair, View
<1>8. EndExact(p, c)
  <2>1. TxExact(c) /\ InOrder(c.got) /\ Forgotten(c) <= Len(d.got)
    BY DEF Half
  <2>2. Forgotten(d) <= Len(c.got)
    BY DEF Half
  <2>3. Len(c.got) <= Newest(d)
    BY <1>5, <1>7
  <2>4. \A b \in p.acks : Forgotten(c) <= b
    <3>1. \A i \in DOMAIN k : offset(k[i].reqseq, Nth(Forgotten(c))) \in Nat
      BY <1>4, <1>6, FrameFields, Nths, OffsetIs, Numbers
    <3> QED
      BY <1>3, <1>4, <2>1, <3>1
  <2> QED
    BY <1>3, <1>4, <1>5, <2>1, <2>2, <2>3, <2>4 DEF EndExact
<1>9. Flow(p, c)
  <2>1. RxExact(c) /\ \A u \in Units(d) : u <= Newest(c)
    BY DEF Half
  <2>2. \A b \in p.caps : \A u \in Units(c) : u <= b
    <3>1. \A i \in DOMAIN k : k[i].sdu \in Nat
      BY <1>6, FrameFields
    <3> QED
      BY <1>3, <1>4, <1>5, <1>7, <3>1
  <2>3. Lane(p, Newest(c), Len(c.got), p.link \o c.out)
    <3>1. l \o <<>> = l
      OBVIOUS
    <3>2. Lane(View(d), Newest(c), Len(c.got), l)
      BY DEF Half
    <3>3. p.base = View(d).base /\ p.newest = View(d).newest /\ p.units = View(d).units
      BY <1>3 DEF View
    <3>4. Lane(p, Newest(c), Len(c.got), l)
      BY <3>2, <3>3, SameLane
    <3> QED
      BY <1>1, <1>3, <3>1, <3>4
  <2> QED
    BY <1>3, <1>4, <1>5, <2>1, <2>2, <2>3 DEF Flow
<1> QED
  BY <1>1, <1>2, <1>8, <1>9 DEF Sound, Exact

\* The frame that is first on its way to c is one that c may rely on.
LEMMA HeadArrives ==
    ASSUME NEW c, NEW d, Idle(c), Idle(d), NEW l \in Seq(Frame), NEW k \in Seq(Frame),
           k # <<>>, Half(c, d, l), Half(d, c, k), NEW p, p = Place(c, d, l, Tail(k)),
           NEW f, f = Head(k)
    PROVE  f \in Frame /\ Arrives(p, c, f)
<1> DEFINE v == View(c)
           g == Len(d.got)
           rest == Tail(k)
<1>1. /\ c \in Chan /\ d \in Chan /\ TxInv(c) /\ TxInv(d) /\ TxExact(c) /\ TxExact(d)
  BY DEF Idle, Good, Half
<1>2. /\ p.caps = {Newest(d)} \cup
                  {rest[i].sdu + TxWin - 1 : i \in {j \in DOMAIN rest : rest[j].super = "I"}}
      /\ p.acks = {g} \cup
                  {Forgotten(c) + offset(rest[i].reqseq, Nth(Forgotten(c))) : i \in DOMAIN rest}
  BY DEF Place
<1>3. /\ Forgotten(c) \in Nat /\ Newest(c) \in Nat /\ Newest(d) \in Nat /\ TxWin \in Nat
      /\ Newest(c) = Forgotten(c) + c.unacked /\ c.expected_ack_seq = Nth(Forgotten(c))
      /\ c.unacked \in Nat /\ g \in Nat
  BY <1>1, HalfNumbers, Numbers, UnitsAre, ChanNumbers
<1>4. Len(c.got) \in Units(c) /\ Len(c.got) \in Nat
  BY <1>1, UnitsAre
<1>5. /\ f = k[1] /\ 1 \in DOMAIN k
      /\ \A i \in DOMAIN rest : \E m \in DOMAIN k : 1 < m /\ rest[i] = k[m]
  BY RestLeft
<1>6. f \in Frame /\ rest \in Seq(Frame)
  BY <1>5
<1> HIDE DEF rest
<1>7. \A i \in DOMAIN rest : rest[i] \in Frame /\ rest[i].sdu \in Nat /\ rest[i].reqseq \in Number
  BY <1>6, FrameFields
<1>8. Lane(v, Newest(d), g, k)
  BY DEF Half
<1>9. Fair(v, Newest(d), g, f) /\ \A i \in DOMAIN rest : Before(v, f, rest[i])
  BY <1>5, <1>8 DEF Lane
<1>10. v.base = Forgotten(c) /\ v.newest = Newest(c) /\ v.units = Units(c)
  BY DEF View
<1> HIDE DEF v, g
<1>11. /\ \A x : Ahead(v, x) = offset(x.reqseq, Nth(Forgotten(c)))
       /\ \A x \in Frame : Ahead(v, x) \in Nat
  <2>1. \A x \in Frame : x.reqseq \in Number
    BY FrameFields
  <2> QED
    BY <1>3, <1>10, <2>1, Nths, OffsetIs, Numbers DEF Ahead
<1>12. f.sdu \in Nat /\ f.reqseq \in Number
  BY <1>6, FrameFields
<1>13. ASSUME f.super = "I"
       PROVE  /\ f.sdu > 0 /\ f.txseq = Nth(f.sdu - 1) /\ Len(c.got) < f.sdu + TxWin
              /\ \A b \in p.caps : f.sdu <= b
  <2>1. f.sdu \in 1 .. Newest(d) /\ f.txseq = Nth(f.sdu - 1) /\ Len(c.got) < f.sdu + TxWin
    BY <1>4, <1>9, <1>10, <1>13 DEF Fair
  <2>2. \A i \in DOMAIN rest : rest[i].super = "I" => f.sdu < rest[i].sdu + TxWin
    BY <1>9, <1>13 DEF Before
  <2>3. ASSUME NEW b \in p.caps PROVE f.sdu <= b
    <3>1. CASE b = Newest(d)
      BY <1>3, <2>1, <3>1
    <3>2. CASE b # Newest(d)
      <4>1. PICK i \in DOMAIN rest : rest[i].super = "I" /\ b = rest[i].sdu + TxWin - 1
        BY <1>2, <3>2
      <4>2. f.sdu < rest[i].sdu + TxWin /\ rest[i].sdu \in Nat
        BY <1>7, <2>2, <4>1
      <4> QED
        BY <1>3, <1>12, <4>1, <4>2
    <3> QED
      BY <3>1, <3>2
  <2>4. f.sdu > 0
    BY <1>12, <2>1
  <2> QED
    BY <2>1, <2>3, <2>4
<1>14. ASSUME f.super = "SREJ" PROVE ~f.poll /\ offset(f.reqseq, c.expected_ack_seq) < c.unacked
  BY <1>3, <1>6, <1>9, <1>10, <1>11, <1>14 DEF Fair
<1>15. ASSUME f.super # "SREJ", NEW b \in p.acks
       PROVE  Forgotten(c) + offset(f.reqseq, c.expected_ack_seq) <= b
  <2>1. Forgotten(c) + Ahead(v, f) <= g
    BY <1>9, <1>10, <1>15 DEF Fair
  <2>2. \A i \in DOMAIN rest : Ahead(v, f) <= Ahead(v, rest[i])
    BY <1>9, <1>15 DEF Before
  <2>3. \/ b = g
        \/ \E i \in DOMAIN rest : b = Forgotten(c) + Ahead(v, rest[i])
    BY <1>2, <1>11, <1>15
  <2>4. Forgotten(c) + Ahead(v, f) <= b
    <3>1. Ahead(v, f) \in Nat /\ \A i \in DOMAIN rest : Ahead(v, rest[i]) \in Nat
      BY <1>6, <1>7, <1>11
    <3> QED
      BY <1>3, <2>1, <2>2, <2>3, <3>1
  <2> QED
    BY <1>3, <1>11, <2>4
<1> QED
  BY <1>6, <1>13, <1>14, <1>15 DEF Arrives

LEMMA OutAside ==
    ASSUME NEW e \in Chan, NEW e2, e2 = [e EXCEPT !.out = <<>>]
    PROVE  /\ e2 \in Chan /\ Forgotten(e2) = Forgotten(e) /\ Newest(e2) = Newest(e)
           /\ Units(e2) = Units(e) /\ View(e2) = View(e) /\ e2.got = e.got /\ e2.sent = e.sent
           /\ e2.up = e.up /\ (TxExact(e) => TxExact(e2)) /\ (RxExact(e) => RxExact(e2))
           /\ Len(e2.tx_q) = Len(e.tx_q)
<1>1. /\ e2.sent = e.sent /\ e2.tx_q = e.tx_q /\ e2.unacked = e.unacked /\ e2.head = e.head
      /\ e2.got = e.got /\ e2.srej_q = e.srej_q /\ e2.buffer_seq = e.buffer_seq
      /\ e2.expected_ack_seq = e.expected_ack_seq /\ e2.up = e.up
  BY DEF Chan
<1> DEFINE none == <<>>
<1>2. none \in Seq(Frame) /\ e2 = [e EXCEPT !.out = none]
  OBVIOUS
<1> HIDE DEF none
<1>3. e2 \in Chan
  BY <1>2, ZenonT(40) DEF Chan
<1>4. Forgotten(e2) = Forgotten(e) /\ Newest(e2) = Newest(e) /\ Units(e2) = Units(e)
  BY <1>1 DEF Forgotten, Newest, Units
<1> QED
  BY <1>1, <1>3, <1>4 DEF View, TxExact, RxExact

\* What a frame acknowledges, counted from a later unit.
LEMMA Rebased ==
    ASSUME NEW x \in Nat, NEW y \in Nat, x <= y, NEW seq \in Number,
           y <= x + offset(seq, Nth(x))
    PROVE  y + offset(seq, Nth(y)) = x + offset(seq, Nth(x)) /\ offset(seq, Nth(x)) \in Nat
<1> DEFINE a == offset(seq, Nth(x))
           n == x + a
<1>1. a \in Number /\ a \in Nat /\ a < Modulus /\ Modulus \in Nat
  BY Nths, OffsetIs, Numbers
<1>2. seq = Nth(x + a)
  BY Nths
<1> HIDE DEF a
<1>3. n \in Nat /\ y <= n /\ n < y + Modulus
  BY <1>1 DEF a
<1> HIDE DEF n
<1>4. offset(Nth(n), Nth(y)) = n - y
  BY <1>3, Nths
<1>5. offset(seq, Nth(y)) = n - y
  BY <1>2, <1>4 DEF n
<1> QED
  BY <1>1, <1>3, <1>5 DEF n, a

\* What a handler of c has come to, whether c is up or not.
Ended(c, d, n, e) ==
    /\ Forgotten(e) <= Len(d.got) /\ Forgotten(d) <= Len(e.got)
    /\ InOrder(e.got) /\ Len(c.got) <= Len(e.got) /\ Len(e.got) <= d.sent
    /\ e.sent = n /\ e.got \in Seq(Nat)

LEMMA Endings ==
    ASSUME NEW c, NEW d, Idle(c), Idle(d), NEW l \in Seq(Frame), NEW k \in Seq(Frame),
           Half(c, d, l), Half(d, c, k), NEW n \in Nat,
           NEW p, p = [Place(c, d, l, k) EXCEPT !.sent = n], NEW e, Sound(p, e),
           NEW e2, e2 = [e EXCEPT !.out = <<>>]
    PROVE  Ended(c, d, n, e2)
<1>1. /\ c \in Chan /\ d \in Chan /\ TxInv(d) /\ TxExact(d) /\ e \in Chan /\ EndExact(p, e)
  BY DEF Idle, Good, Half, Sound, Exact
<1>2. /\ p.base = Forgotten(d) /\ p.newest = Newest(d) /\ p.sent = n /\ p.got = Len(c.got)
      /\ Len(d.got) \in p.acks
  BY DEF Place
<1>3. Newest(d) <= d.sent /\ Newest(d) \in Nat /\ d.sent \in Nat
  BY <1>1, HalfNumbers, ChanNumbers
<1>4. /\ Forgotten(e) <= Len(d.got) /\ Forgotten(d) <= Len(e.got) /\ InOrder(e.got)
      /\ Len(c.got) <= Len(e.got) /\ Len(e.got) <= Newest(d) /\ e.sent = n
  BY <1>1, <1>2 DEF EndExact
<1>5. e.got \in Seq(Nat) /\ Len(e.got) \in Nat
  BY <1>1, ChanNumbers
<1>6. Forgotten(e2) = Forgotten(e) /\ e2.got = e.got /\ e2.sent = e.sent /\ e2.up = e.up
  BY <1>1, OutAside
<1> QED
  BY <1>3, <1>4, <1>5, <1>6 DEF Ended

\* A handler of c that leaves it up leaves both halves as they are to be.
LEMMA Settles ==
    ASSUME NEW c, NEW d, Idle(c), Idle(d), NEW l \in Seq(Frame), NEW k \in Seq(Frame),
           Half(c, d, l), Half(d, c, k), NEW n \in Nat,
           NEW p, p = [Place(c, d, l, k) EXCEPT !.sent = n], NEW e, Sound(p, e), e.up,
           NEW e2, e2 = [e EXCEPT !.out = <<>>]
    PROVE  Half(e2, d, l \o e.out) /\ Half(d, e2, k)
<1>1. /\ c \in Chan /\ d \in Chan /\ TxInv(c) /\ TxInv(d) /\ TxExact(c) /\ TxExact(d)
      /\ e \in Chan /\ TxInv(e) /\ EndExact(p, e) /\ Flow(p, e) /\ TxExact(e)
  BY DEF Idle, Good, Half, Sound, Exact, EndExact
<1>2. /\ p.link = l /\ p.base = Forgotten(d) /\ p.newest = Newest(d) /\ p.units = Units(d)
      /\ p.caps = {Newest(d)} \cup
                  {k[i].sdu + TxWin - 1 : i \in {j \in DOMAIN k : k[j].super = "I"}}
      /\ p.acks = {Len(d.got)} \cup
                  {Forgotten(c) + offset(k[i].reqseq, Nth(Forgotten(c))) : i \in DOMAIN k}
      /\ p.top = Newest(c) /\ p.from = Forgotten(c)
  BY DEF Place
<1>3. /\ Forgotten(c) \in Nat /\ Newest(c) \in Nat /\ Forgotten(e) \in Nat /\ Newest(e) \in Nat
      /\ Newest(d) \in Nat /\ TxWin \in Nat
      /\ Newest(c) = Forgotten(c) + c.unacked /\ Newest(e) = Forgotten(e) + e.unacked
  BY <1>1, HalfNumbers, Numbers
<1>4. /\ Units(e) \in SUBSET Nat /\ Len(e.got) \in Nat /\ Len(d.got) \in Nat
      /\ \A u \in Units(e) : u = Len(e.got) \/ \E f \in e.srej_q : u = f.sdu
      /\ Len(d.got) \in Units(d) /\ Len(d.got) \in Nat
  BY <1>1, UnitsAre
<1>5. /\ RxExact(e) /\ InOrder(e.got) /\ Forgotten(e) <= Len(d.got) /\ Forgotten(d) <= Len(e.got)
      /\ Forgotten(c) <= Forgotten(e) /\ Newest(c) <= Newest(e)
      /\ \A u \in Units(d) : u <= Newest(e)
      /\ \A b \in p.acks : Forgotten(e) <= b
      /\ \A u \in Units(e), b \in p.caps : u <= b
      /\ Lane(p, Newest(e), Len(e.got), l \o e.out)
  <2>1. /\ InOrder(e.got) /\ p.base <= Len(e.got) /\ p.from <= Forgotten(e)
        /\ \A b \in p.acks : Forgotten(e) <= b
    BY <1>1 DEF EndExact
  <2>2. /\ RxExact(e) /\ p.top <= Newest(e) /\ \A u \in p.units : u <= Newest(e)
        /\ \A b \in p.caps : Len(e.got) <= b /\ \A f \in e.srej_q : f.sdu <= b
        /\ Lane(p, Newest(e), Len(e.got), p.link \o e.out)
    BY <1>1 DEF Flow
  <2>3. \A u \in Units(e), b \in p.caps : u <= b
    BY <1>4, <2>2
  <2>4. Forgotten(e) <= Len(d.got)
    BY <1>2, <2>1
  <2> QED
    BY <1>2, <2>1, <2>2, <2>3, <2>4
<1>6. /\ Forgotten(e2) = Forgotten(e) /\ Newest(e2) = Newest(e) /\ Units(e2) = Units(e)
      /\ View(e2) = View(e) /\ e2.got = e.got /\ TxExact(e2) /\ RxExact(e2)
  BY <1>1, <1>5, OutAside
<1>7. Half(e2, d, l \o e.out)
  <2>1. p.base = View(d).base /\ p.newest = View(d).newest /\ p.units = View(d).units
    BY <1>2 DEF View
  <2>2. Lane(View(d), Newest(e), Len(e.got), l \o e.out)
    BY <1>5, <2>1, SameLane
  <2> QED
    BY <1>5, <1>6, <2>2 DEF Half
<1> DEFINE v == View(c)
           w == View(e)
           top == Newest(d)
           g == Len(d.got)
<1>8. Lane(v, top, g, k)
  BY DEF Half
<1>9. /\ v.base = Forgotten(c) /\ v.newest = Newest(c) /\ w.base = Forgotten(e)
      /\ w.newest = Newest(e) /\ w.units = Units(e)
  BY DEF View
<1> HIDE DEF v, w
<1>10. \A i \in DOMAIN k : k[i] \in Frame /\ k[i].reqseq \in Number /\ k[i].sdu \in Nat
  BY FrameFields
<1>11. ASSUME NEW i \in DOMAIN k
       PROVE  /\ w.base + Ahead(w, k[i]) = v.base + Ahead(v, k[i])
              /\ Ahead(v, k[i]) \in Nat /\ Ahead(w, k[i]) \in Nat
  <2>1. Forgotten(e) <= Forgotten(c) + offset(k[i].reqseq, Nth(Forgotten(c)))
    BY <1>2, <1>5
  <2>2. /\ Forgotten(e) + offset(k[i].reqseq, Nth(Forgotten(e))) =
           Forgotten(c) + offset(k[i].reqseq, Nth(Forgotten(c)))
        /\ offset(k[i].reqseq, Nth(Forgotten(c))) \in Nat
    BY <1>3, <1>5, <1>10, <2>1, Rebased
  <2>3. offset(k[i].reqseq, Nth(Forgotten(e))) \in Nat
    BY <1>3, <1>10, Nths, OffsetIs, Numbers
  <2> QED
    BY <1>9, <2>2, <2>3 DEF Ahead
<1>12. ASSUME NEW i \in DOMAIN k PROVE Fair(w, top, g, k[i])
  <2>1. Fair(v, top, g, k[i])
    BY <1>8 DEF Lane
  <2>2. ASSUME k[i].super = "I", NEW u \in Units(e) PROVE u < k[i].sdu + TxWin
    <3>1. k[i].sdu + TxWin - 1 \in p.caps
      BY <1>2, <2>2
    <3>2. u <= k[i].sdu + TxWin - 1 /\ u \in Nat
      BY <1>4, <1>5, <3>1
    <3> QED
      BY <1>3, <1>10, <3>2
  <2>3. k[i].super = "SREJ" => ~k[i].poll /\ w.base + Ahead(w, k[i]) < w.newest
    <3>1. k[i].super = "SREJ" => ~k[i].poll /\ w.base + Ahead(w, k[i]) < Newest(c)
      BY <1>9, <1>11, <2>1 DEF Fair
    <3>2. w.base + Ahead(w, k[i]) \in Nat
      BY <1>3, <1>9, <1>11
    <3> QED
      BY <1>3, <1>5, <1>9, <3>1, <3>2
  <2> QED
    BY <1>9, <1>11, <2>1, <2>2, <2>3 DEF Fair
<1>13. ASSUME NEW i \in DOMAIN k, NEW j \in DOMAIN k, j < i PROVE Before(w, k[j], k[i])
  <2>1. Before(v, k[j], k[i])
    BY <1>8, <1>13 DEF Lane
  <2>2. Ahead(v, k[j]) <= Ahead(v, k[i]) => Ahead(w, k[j]) <= Ahead(w, k[i])
    <3>1. /\ w.base + Ahead(w, k[i]) = v.base + Ahead(v, k[i])
          /\ w.base + Ahead(w, k[j]) = v.base + Ahead(v, k[j])
          /\ Ahead(v, k[i]) \in Nat /\ Ahead(w, k[i]) \in Nat /\ Ahead(v, k[j]) \in Nat
          /\ Ahead(w, k[j]) \in Nat /\ v.base \in Nat /\ w.base \in Nat
      BY <1>3, <1>9, <1>11
    <3> QED
      BY <3>1, SMTT(30)
  <2> QED
    BY <2>1, <2>2 DEF Before
<1>14. Lane(w, top, g, k)
  BY <1>12, <1>13 DEF Lane
<1>15. Half(d, e2, k)
  <2>1. TxExact(d) /\ RxExact(d) /\ InOrder(d.got)
    BY DEF Half
  <2>2. \A u \in Units(e2) : u <= top
    BY <1>2, <1>5, <1>6
  <2> QED
    BY <1>5, <1>6, <1>14, <2>1, <2>2 DEF Half, w
<1> QED
  BY <1>7, <1>15

LEMMA TwoSides ==
    ASSUME NEW s \in Side
    PROVE  /\ Peer(s) \in Side /\ Peer(s) # s /\ Peer(Peer(s)) = s
           /\ \A q \in Side : q = s \/ q = Peer(s)
<1> DEFINE p == Peer(s)
           rest == Side \ {s}
           none == rest \ {p}
<1>1. p \in Side /\ p # s
  BY OtherEnd
<1> HIDE DEF p
<1>2. IsFiniteSet(rest) /\ Cardinality(rest) = 1
  BY TwoEnds, FS_RemoveElement
<1>3. p \in rest
  BY <1>1
<1> HIDE DEF rest
<1>4. IsFiniteSet(none) /\ Cardinality(none) = 0
  BY <1>2, <1>3, FS_RemoveElement
<1>5. none = {}
  <2> HIDE DEF none
  <2> QED
    BY <1>4, FS_EmptySet
<1>6. \A q \in Side : q = s \/ q = p
  BY <1>5 DEF rest
<1>7. \A q \in Side : q # p => q = s
  BY <1>6
<1>8. Peer(p) = s
  <2>1. s \in Side /\ s # p
    BY <1>1
  <2>2. \A q \in Side : (q # p) = (q = s)
    BY <1>7, <2>1
  <2>3. Peer(p) \in Side /\ Peer(p) # p
    BY <1>1, OtherEnd
  <2> QED
    BY <1>7, <2>3
<1> QED
  BY <1>1, <1>6, <1>8 DEF p

LEMMA LinkInvIs ==
    LinkInv <=>
      /\ \A s \in Side : Forgotten(chan[s]) <= Len(chan[Peer(s)].got)
      /\ Up => \A s \in Side : Half(chan[s], chan[Peer(s)], link[s])
  BY DEF LinkInv, AckedHasArrived, Forgotten

\* What a step of the end s does to what the sockets see, when s has sent n units then.
Advanced(s, n) ==
    LET c == chan[s]
        d == chan[Peer(s)]
        e == chan'[s]
    IN  /\ chan' \in [Side -> Chan] /\ chan'[Peer(s)] = d
        /\ e.sent = n /\ InOrder(e.got) /\ Len(c.got) <= Len(e.got) /\ Len(e.got) <= d.sent
        /\ InOrder(c.got) /\ Up'=e.up

LEMMA Settled ==
    ASSUME ErtmInv, LinkInv, Up, NEW s \in Side, NEW d, d = chan[Peer(s)],
           NEW links \in [Side -> Seq(Frame)], links[s] = link[s],
           NEW k, k = links[Peer(s)], Left(k, link[Peer(s)]),
           NEW n \in Nat, NEW e, Sound([Place(chan[s], d, link[s], k) EXCEPT !.sent = n], e),
           Commit(s, e, links)
    PROVE  LinkInv' /\ Advanced(s, n)
<1> DEFINE c == chan[s]
           l == link[s]
           t == Peer(s)
           p == [Place(c, d, l, k) EXCEPT !.sent = n]
           e2 == [e EXCEPT !.out = <<>>]
           sent == e.out
<1>1. t \in Side /\ t # s /\ Peer(t) = s /\ \A q \in Side : q = s \/ q = t
  BY TwoSides
<1>2. /\ chan \in [Side -> Chan] /\ link \in [Side -> Seq(Frame)] /\ Idle(c) /\ Idle(d)
      /\ l \in Seq(Frame) /\ k \in Seq(Frame)
  <2>1. \A q \in Side : chan[q].out = <<>> /\ Good(FALSE, chan[q])
    BY ErtmInvIs DEF Good
  <2> QED
    BY <1>1, <2>1, ErtmInvIs DEF Idle
<1>3. Half(c, d, l) /\ Half(d, c, k)
  <2>1. Half(c, d, l) /\ Half(d, c, link[t])
    BY <1>1, LinkInvIs
  <2> QED
    BY <2>1, LeftHalf
<1>4. e \in Chan /\ e2 \in Chan /\ sent \in Seq(Frame) /\ e2.up = e.up /\ e.up \in BOOLEAN
  <2>1. e \in Chan
    BY DEF Sound, Good
  <2> QED
    BY <2>1, OutAside, ChanNumbers
<1>5. chan' = [chan EXCEPT ![s] = e2] /\ link' = [links EXCEPT ![s] = l \o sent]
  BY DEF Commit
<1> HIDE DEF e2, sent, t
<1>6. /\ chan' \in [Side -> Chan] /\ chan'[s] = e2 /\ chan'[t] = d
      /\ link'[s] = l \o sent /\ link'[t] = k
  <2>1. chan' \in [Side -> Chan] /\ chan'[s] = e2 /\ chan'[t] = chan[t]
    BY <1>1, <1>2, <1>4, <1>5
  <2>2. link'[s] = l \o sent /\ link'[t] = links[t]
    BY <1>1, <1>5
  <2> QED
    BY <2>1, <2>2 DEF t
<1>7. Sound(p, e)
  OBVIOUS
<1>8. /\ Forgotten(e2) <= Len(d.got) /\ Forgotten(d) <= Len(e2.got)
      /\ InOrder(e2.got) /\ Len(c.got) <= Len(e2.got) /\ Len(e2.got) <= d.sent
      /\ e2.sent = n /\ e2.got \in Seq(Nat)
  <2> DEFINE a == c
             m == l
  <2>1. Idle(a) /\ Idle(d) /\ m \in Seq(Frame) /\ Half(a, d, m) /\ Half(d, a, k)
        /\ p = [Place(a, d, m, k) EXCEPT !.sent = n]
    BY <1>2, <1>3
  <2>3. e2 = [e EXCEPT !.out = <<>>]
    BY DEF e2
  <2> HIDE DEF a, m, p
  <2>2. Ended(a, d, n, e2)
    <3>1. k \in Seq(Frame) /\ Sound(p, e)
      BY <1>2, <1>7
    <3> QED
      BY <2>1, <2>3, <3>1, Endings
  <2> QED
    BY <2>2 DEF a, Ended
<1>9. ASSUME e.up PROVE Half(e2, d, l \o sent) /\ Half(d, e2, k)
  <2> DEFINE a == c
             m == l
  <2>1. Idle(a) /\ Idle(d) /\ m \in Seq(Frame) /\ Half(a, d, m) /\ Half(d, a, k)
        /\ p = [Place(a, d, m, k) EXCEPT !.sent = n]
    BY <1>2, <1>3
  <2> HIDE DEF a, m, p
  <2>2. Half(e2, d, m \o sent) /\ Half(d, e2, k)
    BY <1>2, <1>7, <1>9, <2>1, Settles DEF e2, sent
  <2> QED
    BY <2>2 DEF m
<1>10. d.up /\ (\A q \in Side : chan'[q].up) = e.up
  <2>1. d.up
    BY <1>1 DEF Up, t
  <2> QED
    BY <1>1, <1>4, <1>6, <2>1
<1>11. Up' = e.up
  BY <1>10 DEF Up
<1>12. \A q \in Side : Forgotten(chan'[q]) <= Len(chan'[Peer(q)].got)
  <2>1. Forgotten(chan'[s]) <= Len(chan'[Peer(s)].got)
    BY <1>6, <1>8 DEF t
  <2>2. Forgotten(chan'[t]) <= Len(chan'[Peer(t)].got)
    BY <1>1, <1>6, <1>8
  <2> QED
    BY <1>1, <2>1, <2>2
<1>13. ASSUME e.up PROVE \A q \in Side : Half(chan'[q], chan'[Peer(q)], link'[q])
  <2>1. Half(chan'[s], chan'[Peer(s)], link'[s])
    BY <1>6, <1>9, <1>13 DEF t
  <2>2. Half(chan'[t], chan'[Peer(t)], link'[t])
    BY <1>1, <1>6, <1>9, <1>13
  <2> QED
    BY <1>1, <2>1, <2>2
<1>14. LinkInv'
  BY <1>11, <1>12, <1>13 DEF LinkInv, AckedHasArrived, Forgotten
<1>15. InOrder(c.got)
  BY <1>3 DEF Half
<1> QED
  BY <1>4, <1>6, <1>8, <1>11, <1>14, <1>15 DEF Advanced, t

\* No frame of the others is taken off the links.
LEMMA AllLeft ==
    ASSUME NEW b \in Seq(Frame)
    PROVE  Left(b, b)
  BY DEF Left

\* A handler that takes nothing off a link.
LEMMA HandlerSettles ==
    ASSUME ErtmInv, LinkInv, Up, NEW s \in Side, NEW n \in Nat, NEW e, Commit(s, e, link),
           LET place == Place(chan[s], chan[Peer(s)], link[s], link[Peer(s)])
           IN  place \in Places /\ Sound(place, chan[s]) => Sound([place EXCEPT !.sent = n], e)
    PROVE  LinkInv' /\ Advanced(s, n)
<1> DEFINE c == chan[s]
           d == chan[Peer(s)]
           l == link[s]
           k == link[Peer(s)]
<1>1. Peer(s) \in Side /\ Peer(Peer(s)) = s
  BY TwoSides
<1>2. /\ link \in [Side -> Seq(Frame)] /\ Idle(c) /\ Idle(d) /\ l \in Seq(Frame)
      /\ k \in Seq(Frame) /\ Half(c, d, l) /\ Half(d, c, k)
  <2>1. \A q \in Side : chan[q].out = <<>> /\ Good(FALSE, chan[q])
    BY ErtmInvIs DEF Good
  <2>2. \A q \in Side : Half(chan[q], chan[Peer(q)], link[q])
    BY LinkInvIs
  <2>3. link \in [Side -> Seq(Frame)]
    BY ErtmInvIs
  <2> QED
    BY <1>1, <2>1, <2>2, <2>3 DEF Idle
<1> DEFINE place == Place(c, d, l, k)
<1>3. place \in Places /\ Sound(place, c)
  <2> DEFINE r == place
  <2>1. r = Place(c, d, l, k)
    OBVIOUS
  <2> HIDE DEF r, c, d, l, k
  <2>2. r \in Places /\ Sound(r, c)
    BY <1>2, <2>1, PlaceSound
  <2> QED
    BY <2>2 DEF r
<1>4. Sound([place EXCEPT !.sent = n], e)
  BY <1>3
<1>5. Left(k, k)
  BY <1>2, AllLeft
<1> QED
  BY <1>2, <1>4, <1>5, Settled

\* What was sent is what the place says.
LEMMA SameSent ==
    ASSUME NEW c, NEW d, NEW l, NEW k, NEW p, p = Place(c, d, l, k)
    PROVE  p.sent = c.sent /\ [p EXCEPT !.sent = c.sent] = p
  BY DEF Place

LEMMA EmptiedExact ==
    ASSUME NEW p \in Places, NEW c, Sound(p, c), c.local_busy, NEW d, d = Emptied(c)
    PROVE  Sound(p, d)
<1> DEFINE no == FALSE
           local_busy == c.local_busy
           got == c.got
<1>1. c \in Chan /\ Exact(p, c) /\ Good(FALSE, c)
  BY SoundIs
<1>2. local_busy \in BOOLEAN /\ got \in Seq(Nat) /\ no \in BOOLEAN
  BY <1>1, ChanNumbers
<1>3. d = PutBusy(c, local_busy, no, got)
  BY <1>1 DEF PutBusy, Emptied, Chan
<1>4. no => ~local_busy /\ ~no
  OBVIOUS
<1>5. Good(no, c)
  BY <1>1
<1> HIDE DEF no, local_busy, got
<1>6. Good(no, d)
  BY <1>2, <1>3, <1>4, <1>5, GoodBusy
<1>7. d.got = c.got /\ d.buffer_seq = c.buffer_seq /\ d.srej_q = c.srej_q /\ d.up = c.up
      /\ SameSender(c, d)
  BY <1>1 DEF Chan, SameSender, Emptied
<1>8. Exact(p, d)
  BY <1>1, <1>7, ShrinkExact
<1> QED
  BY <1>6, <1>8 DEF Sound, no

LEMMA SendSettles ==
    ASSUME ErtmInv, LinkInv, NEW s \in Side, Send(s)
    PROVE  /\ LinkInv' /\ Advanced(s, chan[s].sent + 1)
           /\ chan'[s].got = chan[s].got /\ chan'[s].up = chan[s].up
<1> DEFINE c == chan[s]
           e == data_request(c)
           n == c.sent + 1
           p == Place(c, chan[Peer(s)], link[s], link[Peer(s)])
<1>1. Up /\ Commit(s, e, link)
  BY DEF Send
<1>2. chan \in [Side -> Chan] /\ c \in Chan /\ n \in Nat
  <2>1. chan \in [Side -> Chan] /\ c \in Chan
    BY ErtmInvIs
  <2> QED
    BY <2>1, ChanNumbers
<1>3. p \in Places /\ Sound(p, c) => Sound([p EXCEPT !.sent = n], e) /\ e.up = c.up
  <2> DEFINE b == c
  <2> HIDE DEF p, b
  <2>1. p \in Places /\ Sound(p, b)
        => Sound([p EXCEPT !.sent = b.sent + 1], data_request(b)) /\ data_request(b).up = b.up
    BY RequestExact
  <2> QED
    BY <2>1 DEF b
<1>4. LinkInv' /\ Advanced(s, n)
  <2> DEFINE r == e
             m == n
  <2>1. Commit(s, r, link) /\ m \in Nat
        /\ (p \in Places /\ Sound(p, c) => Sound([p EXCEPT !.sent = m], r))
    BY <1>1, <1>2, <1>3
  <2> HIDE DEF r, m
  <2>2. LinkInv' /\ Advanced(s, m)
    BY <1>1, <2>1, HandlerSettles
  <2> QED
    BY <2>2 DEF m
<1>5. e.got = c.got /\ e \in Chan /\ e.up = c.up
  <2> DEFINE b == c
             q == Append(b.tx_q, [txseq |-> 0, retries |-> 0, sdu |-> b.sent + 1])
             a == PutQueue(b, b.sent + 1, q)
             calm == FALSE
  <2>1. b \in Chan /\ Good(calm, b) /\ calm \in BOOLEAN
    BY <1>2, ErtmInvIs DEF Good
  <2>2. a.got = b.got /\ a.up = b.up
    BY <2>1 DEF Chan, PutQueue
  <2>3. data_request(b) = ertm_send(a)
    BY DEF data_request, PutQueue
  <2>4. Good(calm, data_request(b))
    <3> HIDE DEF calm, b
    <3> QED
      BY <2>1, Requests
  <2> HIDE DEF b, a
  <2>5. ertm_send(a).got = a.got /\ ertm_send(a).up = a.up
    BY DEF ertm_send, set_retrans_timer
  <2> QED
    BY <2>2, <2>3, <2>4, <2>5 DEF Good, b
<1>6. chan'[s].got = e.got /\ chan'[s].up = e.up
  <2> DEFINE r == e
             e2 == [r EXCEPT !.out = <<>>]
  <2>1. r \in Chan /\ chan' = [chan EXCEPT ![s] = e2]
    BY <1>1, <1>5 DEF Commit
  <2> HIDE DEF r
  <2>2. e2.got = r.got /\ e2.up = r.up
    BY <2>1 DEF Chan
  <2> HIDE DEF e2
  <2>3. chan'[s] = e2
    BY <1>2, <2>1
  <2> QED
    BY <2>2, <2>3 DEF r
<1> QED
  BY <1>4, <1>5, <1>6

LEMMA TimeoutSettles ==
    ASSUME ErtmInv, LinkInv, NEW s \in Side, NEW t \in Timer, Timeout(s, t)
    PROVE  LinkInv' /\ Advanced(s, chan[s].sent)
<1> DEFINE b == chan[s]
           c == Taken(b, t)
           e == CASE t = "retrans" -> retrans_timeout(c)
                  [] t = "monitor" -> monitor_timeout(c)
                  [] t = "ack" -> ack_timeout(c)
           n == b.sent
           p == Place(b, chan[Peer(s)], link[s], link[Peer(s)])
<1>1. Up /\ Commit(s, e, link)
  BY DEF Timeout, Taken
<1>2. n \in Nat
  <2>1. b \in Chan
    BY ErtmInvIs
  <2> QED
    BY <2>1, ChanNumbers
<1>3. [p EXCEPT !.sent = n] = p
  BY SameSent
<1>4. ASSUME p \in Places, Sound(p, b) PROVE Sound(p, e)
  <2> HIDE DEF p, b
  <2>1. CASE t = "retrans"
    <3>1. Sound(p, retrans_timeout(Taken(b, "retrans")))
      BY <1>4, RetransExact
    <3> QED
      BY <2>1, <3>1
  <2>2. CASE t = "monitor"
    <3>1. Sound(p, monitor_timeout(Taken(b, "monitor")))
      BY <1>4, MonitorExact
    <3> QED
      BY <2>2, <3>1
  <2>3. CASE t = "ack"
    <3>1. Sound(p, ack_timeout(Taken(b, "ack")))
      BY <1>4, AckExact
    <3> QED
      BY <2>3, <3>1
  <2> QED
    BY <2>1, <2>2, <2>3 DEF Timer
<1> HIDE DEF e, n
<1>5. p \in Places /\ Sound(p, b) => Sound([p EXCEPT !.sent = n], e)
  BY <1>3, <1>4
<1>6. LinkInv' /\ Advanced(s, n)
  BY <1>1, <1>2, <1>5, HandlerSettles
<1> QED
  BY <1>6 DEF n

LEMMA ReadSettles ==
    ASSUME ErtmInv, LinkInv, NEW s \in Side, NEW half \in BOOLEAN, Read(s, half)
    PROVE  LinkInv' /\ Advanced(s, chan[s].sent)
<1> DEFINE b == chan[s]
           c == Emptied(b)
           e == IF half THEN busy_clear(c) ELSE c
           n == b.sent
           p == Place(b, chan[Peer(s)], link[s], link[Peer(s)])
<1>1. Up /\ Commit(s, e, link) /\ b.local_busy
  BY DEF Read, Emptied
<1>2. n \in Nat
  <2>1. b \in Chan
    BY ErtmInvIs
  <2> QED
    BY <2>1, ChanNumbers
<1>3. [p EXCEPT !.sent = n] = p
  BY SameSent
<1>4. ASSUME p \in Places, Sound(p, b) PROVE Sound(p, e)
  <2> HIDE DEF p, b
  <2>1. Sound(p, c)
    BY <1>1, <1>4, EmptiedExact
  <2> HIDE DEF c
  <2>2. Sound(p, busy_clear(c))
    BY <1>4, <2>1, BusyClearedExact
  <2> QED
    BY <2>1, <2>2
<1> HIDE DEF e, n
<1>5. p \in Places /\ Sound(p, b) => Sound([p EXCEPT !.sent = n], e)
  BY <1>3, <1>4
<1>6. LinkInv' /\ Advanced(s, n)
  BY <1>1, <1>2, <1>5, HandlerSettles
<1> QED
  BY <1>6 DEF n

LEMMA ExpireSettles ==
    ASSUME ErtmInv, LinkInv, NEW s \in Side, NEW t \in Timer, Expire(s, t)
    PROVE  LinkInv' /\ Advanced(s, chan[s].sent)
<1> DEFINE b == chan[s]
           e == Fired(b, t)
           e2 == [e EXCEPT !.out = <<>>]
           n == b.sent
           p == Place(b, chan[Peer(s)], link[s], link[Peer(s)])
<1>1. /\ chan \in [Side -> Chan] /\ link \in [Side -> Seq(Frame)] /\ b \in Chan /\ b.out = <<>>
      /\ Good(FALSE, b)
  BY ErtmInvIs DEF Good
<1>2. Up /\ t \in b.armed /\ link' = link
  BY DEF Expire
<1>3. chan' = [chan EXCEPT ![s] = e]
  BY <1>1 DEF Expire, Fired
<1>4. Good(FALSE, e) /\ e.out = <<>> /\ e \in Chan
  <2> DEFINE calm == FALSE
  <2>1. calm \in BOOLEAN /\ Good(calm, b)
    BY <1>1
  <2> HIDE DEF calm, b
  <2>2. Good(calm, e) /\ e.out = b.out /\ e \in Chan
    BY <1>2, <2>1, FiredGood
  <2> QED
    BY <1>1, <2>2 DEF calm
<1>5. n \in Nat
  BY <1>1, ChanNumbers
<1>6. [p EXCEPT !.sent = n] = p
  BY SameSent
<1>7. ASSUME p \in Places, Sound(p, b) PROVE Sound(p, e)
  <2> HIDE DEF p, b
  <2>1. Exact(p, Fired(b, t))
    BY <1>7, TimersAside
  <2> QED
    BY <1>4, <2>1 DEF Sound
<1> HIDE DEF e, n
<1>8. e2 = e
  BY <1>4 DEF Chan
<1>9. Commit(s, e, link)
  <2>1. chan' = [chan EXCEPT ![s] = e2]
    BY <1>3, <1>8
  <2>2. link[s] \o <<>> = link[s] /\ link' = [link EXCEPT ![s] = link[s]]
    BY <1>1, <1>2
  <2>3. link' = [link EXCEPT ![s] = link[s] \o e.out]
    BY <1>4, <2>2
  <2> QED
    BY <2>1, <2>3 DEF Commit
<1>10. p \in Places /\ Sound(p, b) => Sound([p EXCEPT !.sent = n], e)
  BY <1>6, <1>7
<1>11. LinkInv' /\ Advanced(s, n)
  BY <1>2, <1>5, <1>9, <1>10, HandlerSettles
<1> QED
  BY <1>11 DEF n

LEMMA ReceiveSettles ==
    ASSUME 2 * TxWin <= Modulus, ErtmInv, LinkInv, NEW s \in Side, NEW fill \in Nat,
           Receive(s, fill)
    PROVE  LinkInv' /\ Advanced(s, chan[s].sent)
<1> DEFINE t == Peer(s)
           c == chan[s]
           d == chan[t]
           l == link[s]
           b == link[t]
           k == Tail(b)
           f == Head(b)
           links == [link EXCEPT ![t] = k]
           e == data_rcv(c, f, fill)
           n == c.sent
           p == Place(c, d, l, k)
<1>1. Up /\ b # <<>> /\ Commit(s, e, links)
  BY DEF Receive
<1>2. t \in Side /\ t # s /\ Peer(t) = s
  BY TwoSides
<1>3. /\ chan \in [Side -> Chan] /\ link \in [Side -> Seq(Frame)] /\ Idle(c) /\ Idle(d)
      /\ l \in Seq(Frame) /\ b \in Seq(Frame) /\ Half(c, d, l) /\ Half(d, c, b)
      /\ c.up /\ n \in Nat
  <2>1. \A q \in Side : chan[q].out = <<>> /\ Good(FALSE, chan[q])
    BY ErtmInvIs DEF Good
  <2>2. Half(c, d, l) /\ Half(d, c, b)
    BY <1>1, <1>2, LinkInvIs
  <2>3. chan \in [Side -> Chan] /\ link \in [Side -> Seq(Frame)]
    BY ErtmInvIs
  <2>4. n \in Nat
    BY <2>3, ChanNumbers
  <2> QED
    BY <1>1, <1>2, <2>1, <2>2, <2>3, <2>4 DEF Idle, Up
<1>4. k \in Seq(Frame) /\ Left(k, b)
  BY <1>1, <1>3, RestLeft
<1>5. Half(d, c, k)
  BY <1>3, <1>4, LeftHalf
<1>6. p \in Places /\ Sound(p, c) /\ f \in Frame /\ Arrives(p, c, f)
  <2> DEFINE r == p
             h == f
  <2>1. /\ r = Place(c, d, l, k) /\ h = Head(b) /\ r = Place(c, d, l, Tail(b))
    OBVIOUS
  <2>2. k \in Seq(Frame)
    BY <1>4
  <2> HIDE DEF r, h, c, d, l, k, b
  <2>3. r \in Places /\ Sound(r, c)
    BY <1>3, <1>5, <2>1, <2>2, PlaceSound
  <2>4. h \in Frame /\ Arrives(r, c, h)
    BY <1>1, <1>3, <2>1, HeadArrives
  <2> QED
    BY <2>3, <2>4 DEF r, h
<1>7. Sound(p, e)
  <2> HIDE DEF p, f, c
  <2> QED
    BY <1>3, <1>6, FrameExact
<1>8. [p EXCEPT !.sent = n] = p
  BY SameSent
<1>9. links \in [Side -> Seq(Frame)] /\ links[s] = link[s] /\ links[t] = k
  BY <1>2, <1>3, <1>4
<1>10. Sound([p EXCEPT !.sent = n], e)
  <2> HIDE DEF p, n, e
  <2> QED
    BY <1>7, <1>8
<1> HIDE DEF e, n, links, k
<1>11. LinkInv' /\ Advanced(s, n)
  BY <1>1, <1>3, <1>4, <1>9, <1>10, Settled DEF p
<1> QED
  BY <1>11 DEF n

LEMMA LoseSettles ==
    ASSUME ErtmInv, LinkInv, NEW s \in Side, Lose(s)
    PROVE  LinkInv' /\ chan' = chan
<1>1. PICK i \in DOMAIN link[s] : link' = [link EXCEPT ![s] = RemoveAt(@, i)]
  BY DEF Lose
<1>2. link \in [Side -> Seq(Frame)] /\ chan' = chan /\ Up
  BY ErtmInvIs DEF Lose
<1> DEFINE l == RemoveAt(link[s], i)
<1>3. Left(l, link[s])
  BY <1>2, LossLeft
<1>4. link' = [link EXCEPT ![s] = l]
  BY <1>1
<1> HIDE DEF l
<1>5. link'[s] = l /\ \A q \in Side : q # s => link'[q] = link[q]
  BY <1>2, <1>4
<1>6. \A q \in Side : Half(chan[q], chan[Peer(q)], link'[q])
  <2> TAKE q \in Side
  <2>1. Half(chan[q], chan[Peer(q)], link[q])
    BY <1>2, LinkInvIs
  <2>2. CASE q = s
    BY <1>3, <1>5, <2>1, <2>2, LeftHalf
  <2>3. CASE q # s
    BY <1>5, <2>1, <2>3
  <2> QED
    BY <2>2, <2>3
<1>7. \A q \in Side : Forgotten(chan[q]) <= Len(chan[Peer(q)].got)
  BY LinkInvIs
<1> QED
  BY <1>2, <1>6, <1>7 DEF LinkInv, AckedHasArrived, Forgotten

LEMMA FirstIs == First \in Nat /\ First < Modulus /\ Nth(0) = First
<1>1. First \in Nat /\ First < Modulus /\ First \in Int /\ 0 <= First
      /\ Modulus \in {2, 4, 8, 16, 32, 64}
  BY BoundsAreNumbers, WindowFits
<1>2. First % Modulus = First
  <2> DEFINE zero == 0
  <2>1. zero \in Int
    OBVIOUS
  <2> HIDE DEF zero
  <2> QED
    BY <1>1, <2>1, Remainders
<1> QED
  BY <1>1, <1>2 DEF Nth

LEMMA LinkStarts == ErtmInit => LinkInv
<1> SUFFICES ASSUME ErtmInit
             PROVE  LinkInv
  OBVIOUS
<1>1. PICK max_tx \in MaxTx, sdus \in Sdus : chan = [s \in Side |-> NewChan(max_tx, sdus[s])]
  BY DEF ErtmInit
<1>2. link = [s \in Side |-> <<>>]
  BY DEF ErtmInit
<1>3. First \in Nat /\ First < Modulus /\ Nth(0) = First
  BY FirstIs
<1>4. ASSUME NEW s \in Side
      PROVE  LET c == chan[s]
             IN  /\ c.sent = 0 /\ c.tx_q = <<>> /\ c.head = 0 /\ c.unacked = 0 /\ c.got = <<>>
                 /\ c.srej_q = {} /\ c.buffer_seq = First /\ c.expected_ack_seq = First
  BY <1>1, <1>4 DEF NewChan
<1>5. ASSUME NEW s \in Side
      PROVE  LET c == chan[s]
             IN  /\ Forgotten(c) = 0 /\ Newest(c) = 0 /\ Units(c) = {0} /\ TxExact(c) /\ RxExact(c)
                 /\ InOrder(c.got) /\ Len(c.got) = 0
  <2> DEFINE c == chan[s]
  <2>1. /\ c.sent = 0 /\ c.tx_q = <<>> /\ c.head = 0 /\ c.unacked = 0 /\ c.got = <<>>
        /\ c.srej_q = {} /\ c.buffer_seq = First /\ c.expected_ack_seq = First
    BY <1>4
  <2> HIDE DEF c
  <2>2. Len(c.got) = 0 /\ Len(c.tx_q) = 0 /\ DOMAIN c.got = {} /\ DOMAIN c.tx_q = {}
    BY <2>1
  <2>3. Forgotten(c) = 0 /\ Newest(c) = 0 /\ Units(c) = {0}
    <3>1. Forgotten(c) = 0
      <4> DEFINE queued == Len(c.tx_q)
                 all == c.sent
      <4>1. all = 0 /\ queued = 0 /\ Forgotten(c) = all - queued
        BY <2>1, <2>2, Zenon DEF Forgotten
      <4> HIDE DEF all, queued
      <4> QED
        BY <4>1
    <3>2. Newest(c) = 0
      BY <2>1, <3>1 DEF Newest
    <3>3. {f.sdu : f \in c.srej_q} = {}
      BY <2>1
    <3> QED
      BY <2>2, <3>1, <3>2, <3>3 DEF Units
  <2>4. TxExact(c)
    BY <1>3, <2>1, <2>2, <2>3 DEF TxExact
  <2>5. RxExact(c) /\ InOrder(c.got)
    BY <1>3, <2>1, <2>2 DEF RxExact, InOrder
  <2> QED
    BY <2>2, <2>3, <2>4, <2>5 DEF c
<1>6. ASSUME NEW s \in Side PROVE Half(chan[s], chan[Peer(s)], link[s])
  <2>1. Peer(s) \in Side
    BY TwoSides
  <2>2. Lane(View(chan[Peer(s)]), Newest(chan[s]), Len(chan[s].got), link[s])
    <3>1. DOMAIN link[s] = {}
      BY <1>2
    <3> QED
      BY <3>1 DEF Lane
  <2> QED
    BY <1>5, <2>1, <2>2, SMTT(30) DEF Half
<1>7. \A s \in Side : Forgotten(chan[s]) <= Len(chan[Peer(s)].got)
  BY <1>5, TwoSides
<1> QED
  BY <1>6, <1>7, LinkInvIs

-----------------------------------------------------------------------------
(* The reliable link *)



LEMMA StepsSettle ==
    ASSUME 2 * TxWin <= Modulus, ErtmInv, LinkInv, [ErtmNext]_ertmVars
    PROVE  /\ LinkInv'
           /\ \/ chan' = chan
              \/ \E s \in Side : Up /\ Advanced(s, chan[s].sent)
              \/ \E s \in Side : /\ Up /\ Advanced(s, chan[s].sent + 1)
                                 /\ chan'[s].got = chan[s].got /\ chan'[s].up = chan[s].up
<1>1. CASE UNCHANGED ertmVars
  BY <1>1 DEF ertmVars, LinkInv, AckedHasArrived, Up
<1>2. CASE ErtmNext
  <2> PICK s \in Side :
          \/ Send(s)
          \/ \E fill \in 0 .. TxWin : Receive(s, fill)
          \/ Lose(s)
          \/ \E t \in Timer : Expire(s, t) \/ Timeout(s, t)
          \/ \E half \in BOOLEAN : Read(s, half)
    BY <1>2 DEF ErtmNext
  <2>1. CASE Send(s)
    <3>1. Up
      BY <2>1 DEF Send
    <3> QED
      BY <2>1, <3>1, SendSettles
  <2>2. ASSUME NEW fill \in 0 .. TxWin, Receive(s, fill)
        PROVE  LinkInv' /\ Up /\ Advanced(s, chan[s].sent)
    <3>1. Up /\ fill \in Nat
      BY <2>2, Numbers DEF Receive
    <3> QED
      BY <2>2, <3>1, ReceiveSettles
  <2>3. CASE Lose(s)
    BY <2>3, LoseSettles
  <2>4. ASSUME NEW t \in Timer, Expire(s, t)
        PROVE  LinkInv' /\ Up /\ Advanced(s, chan[s].sent)
    <3>1. Up
      BY <2>4 DEF Expire
    <3> QED
      BY <2>4, <3>1, ExpireSettles
  <2>5. ASSUME NEW t \in Timer, Timeout(s, t)
        PROVE  LinkInv' /\ Up /\ Advanced(s, chan[s].sent)
    <3>1. Up
      BY <2>5 DEF Timeout
    <3> QED
      BY <2>5, <3>1, TimeoutSettles
  <2>6. ASSUME NEW half \in BOOLEAN, Read(s, half)
        PROVE  LinkInv' /\ Up /\ Advanced(s, chan[s].sent)
    <3>1. Up
      BY <2>6 DEF Read
    <3> QED
      BY <2>6, <3>1, ReadSettles
  <2> QED
    BY <2>1, <2>2, <2>3, <2>4, <2>5, <2>6
<1> QED
  BY <1>1, <1>2

\* What is got in order is known by how much of it there is.
LEMMA GotIs ==
    ASSUME NEW got \in Seq(Nat), InOrder(got)
    PROVE  got = [i \in 1 .. Len(got) |-> i]
<1>1. DOMAIN got = 1 .. Len(got) /\ got = [i \in DOMAIN got |-> got[i]]
  OBVIOUS
<1> QED
  BY <1>1 DEF InOrder

\* A step of the end s that sends nothing new is one of the link's, or none.
LEMMA HandlersDeliver ==
    ASSUME ErtmInv, Up, NEW s \in Side, Advanced(s, chan[s].sent)
    PROVE  [Link!LinkNext]_(Link!linkVars)
<1> DEFINE sent == [q \in Side |-> chan[q].sent]
           sent2 == [q \in Side |-> chan'[q].sent]
           arrived == [q \in Side |-> chan[Peer(q)].got]
           arrived2 == [q \in Side |-> chan'[Peer(q)].got]
           t == Peer(s)
           was == chan[s].got
           got == chan'[s].got
<1>1. t \in Side /\ t # s /\ Peer(t) = s /\ \A q \in Side : q = s \/ q = t
  BY TwoSides
<1> HIDE DEF t
<1>2. /\ chan \in [Side -> Chan] /\ chan' \in [Side -> Chan] /\ chan'[t] = chan[t]
      /\ chan'[s].sent = chan[s].sent /\ InOrder(got) /\ InOrder(was)
      /\ Len(was) <= Len(got) /\ Len(got) <= chan[t].sent
  BY ErtmInvIs DEF Advanced, t
<1>3. Up' \in BOOLEAN
  BY DEF Up
<1>4. was \in Seq(Nat) /\ got \in Seq(Nat) /\ Len(was) \in Nat /\ Len(got) \in Nat
      /\ chan[t].sent \in Nat
  BY <1>1, <1>2, ChanNumbers
<1>5. was = [i \in 1 .. Len(was) |-> i] /\ got = [i \in 1 .. Len(got) |-> i]
  BY <1>2, <1>4, GotIs
<1>6. sent2 = sent
  <2>1. \A q \in Side : chan'[q].sent = chan[q].sent
    BY <1>1, <1>2
  <2> QED
    BY <2>1
<1>7. arrived[t] = was /\ arrived2 = [arrived EXCEPT ![t] = got] /\ sent[t] = chan[t].sent
  <2>1. \A q \in Side : chan'[Peer(q)].got = IF q = t THEN got ELSE chan[Peer(q)].got
    <3> TAKE q \in Side
    <3>1. CASE q = t
      BY <1>1, <3>1
    <3>2. CASE q # t
      BY <1>1, <1>2, <3>2 DEF t
    <3> QED
      BY <3>1, <3>2
  <2> HIDE DEF got
  <2> QED
    BY <1>1, <2>1
<1>8. /\ Link!linkVars = <<sent, arrived, Up>>
      /\ Link!linkVars' = <<sent2, arrived2, Up'>>
  BY DEF Link!linkVars
<1>9. CASE Len(got) = Len(was)
  <2>1. got = was
    BY <1>5, <1>9
  <2>2. arrived2 = arrived
    <3> HIDE DEF got, was
    <3>1. \A q \in Side : arrived2[q] = arrived[q]
      BY <1>1, <1>7, <2>1
    <3> QED
      BY <3>1
  <2>3. CASE Up'
    <3>1. Up' = Up
      BY <2>3
    <3> QED
      BY <1>6, <1>8, <2>2, <3>1
  <2>4. CASE ~Up'
    <3>1. Link!Disconnect
      BY <1>6, <2>2, <2>4 DEF Link!Disconnect
    <3> QED
      BY <3>1 DEF Link!LinkNext
  <2> QED
    BY <2>3, <2>4
<1>10. CASE Len(got) # Len(was)
  <2>1. Len(got) \in Len(was) + 1 .. chan[t].sent
    BY <1>2, <1>4, <1>10
  <2>2. Link!Deliver(t)
    <3> DEFINE n == Len(got)
    <3>1. n \in Len(arrived[t]) + 1 .. sent[t]
      BY <1>7, <2>1
    <3>2. arrived2 = [arrived EXCEPT ![t] = [i \in 1 .. n |-> i]]
      BY <1>5, <1>7
    <3> HIDE DEF n
    <3> QED
      BY <1>3, <1>6, <3>1, <3>2 DEF Link!Deliver
  <2> QED
    BY <1>1, <2>2 DEF Link!LinkNext
<1> QED
  BY <1>9, <1>10

LEMMA SendsAccept ==
    ASSUME ErtmInv, Up, NEW s \in Side, Advanced(s, chan[s].sent + 1),
           chan'[s].got = chan[s].got, chan'[s].up = chan[s].up
    PROVE  [Link!LinkNext]_(Link!linkVars)
<1> DEFINE sent == [q \in Side |-> chan[q].sent]
           sent2 == [q \in Side |-> chan'[q].sent]
           arrived == [q \in Side |-> chan[Peer(q)].got]
           arrived2 == [q \in Side |-> chan'[Peer(q)].got]
           n == chan[s].sent + 1
<1>1. /\ Peer(s) \in Side /\ Peer(s) # s /\ \A q \in Side : q = s \/ q = Peer(s)
      /\ \A q \in Side : Peer(q) \in Side
  BY TwoSides
<1>2. chan'[Peer(s)] = chan[Peer(s)] /\ chan'[s].sent = n
  BY DEF Advanced
<1>3. \A q \in Side : chan'[q].got = chan[q].got /\ chan'[q].up = chan[q].up
  BY <1>1, <1>2
<1>4. Up' = Up
  BY <1>3 DEF Up
<1>5. arrived2 = arrived
  BY <1>1, <1>3
<1>6. sent2 = [sent EXCEPT ![s] = @ + 1]
  <2>1. \A q \in Side : chan'[q].sent = IF q = s THEN n ELSE chan[q].sent
    BY <1>1, <1>2
  <2> QED
    BY <2>1
<1>7. Link!Accept(s)
  BY <1>4, <1>5, <1>6 DEF Link!Accept
<1> QED
  BY <1>7 DEF Link!LinkNext

LEMMA LinkGoesOn ==
    ASSUME 2 * TxWin <= Modulus, ErtmInv, LinkInv, [ErtmNext]_ertmVars
    PROVE  [Link!LinkNext]_(Link!linkVars)
<1>1. CASE chan' = chan
  BY <1>1 DEF Link!linkVars, Up
<1>2. ASSUME NEW s \in Side, Up, Advanced(s, chan[s].sent)
      PROVE  [Link!LinkNext]_(Link!linkVars)
  BY <1>2, HandlersDeliver
<1>3. ASSUME NEW s \in Side, Up, Advanced(s, chan[s].sent + 1), chan'[s].got = chan[s].got,
             chan'[s].up = chan[s].up
      PROVE  [Link!LinkNext]_(Link!linkVars)
  BY <1>3, SendsAccept
<1> QED
  BY <1>1, <1>2, <1>3, StepsSettle

LEMMA LinkBegins == ErtmInit => Link!LinkInit
<1> SUFFICES ASSUME ErtmInit
             PROVE  Link!LinkInit
  OBVIOUS
<1>1. PICK max_tx \in MaxTx, sdus \in Sdus : chan = [s \in Side |-> NewChan(max_tx, sdus[s])]
  BY DEF ErtmInit
<1>2. \A s \in Side : chan[s].sent = 0 /\ chan[s].got = <<>> /\ chan[s].up
  BY <1>1 DEF NewChan
<1>3. \A s \in Side : Peer(s) \in Side
  BY TwoSides
<1> QED
  BY <1>2, <1>3 DEF Link!LinkInit, Up

\* With a window of at most half of the sequence numbers the two halves always fit.
THEOREM LinkInvariant == ASSUME 2 * TxWin <= Modulus PROVE ErtmSpec => []LinkInv
<1>1. ErtmInit => LinkInv
  BY LinkStarts
<1>2. ErtmInv /\ LinkInv /\ [ErtmNext]_ertmVars => LinkInv'
  BY StepsSettle
<1> QED
  BY <1>1, <1>2, ErtmInvariant, PTL DEF ErtmSpec

\* A unit that its sender has forgotten is in the other end's socket, whatever is lost,
\* repeated or late: l2cap_ertm_ack_frames frees nothing that has not arrived.
THEOREM ForgottenHasArrived == ASSUME 2 * TxWin <= Modulus PROVE ErtmSpec => []AckedHasArrived
<1>1. LinkInv => AckedHasArrived
  BY DEF LinkInv
<1> QED
  BY <1>1, LinkInvariant, PTL

\* The two ends implement the reliable link: the units that l2cap_chan_send was given come
\* out of the other socket once, in their order and with none left out.
THEOREM EndsImplementLink == ASSUME 2 * TxWin <= Modulus PROVE ErtmSpec => ImplementsLink
<1>1. ErtmInit => Link!LinkInit
  BY LinkBegins
<1>2. ErtmInv /\ LinkInv /\ [ErtmNext]_ertmVars => [Link!LinkNext]_(Link!linkVars)
  BY LinkGoesOn
<1> QED
  BY <1>1, <1>2, ErtmInvariant, LinkInvariant, PTL DEF ErtmSpec, ImplementsLink, Link!LinkSpec
=============================================================================
