----------------------------- MODULE ErtmProofs ------------------------------
(***************************************************************************)
(* The enhanced retransmission mode, for every window, every number of     *)
(* units and every bound on what the links and the receivers do.           *)
(***************************************************************************)
EXTENDS Ertm, TLAPS, FiniteSetTheorems, SequenceTheorems

-----------------------------------------------------------------------------
(* The inductive invariant *)

Number == 0 .. Modulus - 1
Frame  == [super : {"I", "RR", "RNR", "SREJ"}, txseq : Number, sdu : Nat, reqseq : Number,
           poll : BOOLEAN, final : BOOLEAN]
Unit   == [txseq : Number, retries : Nat, sdu : Nat]

\* The channel in the middle of a handler.
Chan ==
    [up : BOOLEAN, max_tx : Nat, out : Seq(Frame), tx_q : Seq(Unit), head : Nat,
     next_tx_seq : Number, expected_ack_seq : Number, unacked : Nat,
     tx_state : {"XMIT", "WAIT_F"}, retry_count : Nat, send_fbit : BOOLEAN,
     remote_busy : BOOLEAN, srej_act : BOOLEAN, srej_save : Number,
     rx_state : {"RECV", "SREJ_SENT"}, expected_tx_seq : Number, buffer_seq : Number,
     last_acked_seq : Number, srej_q : SUBSET Frames, srej_list : Seq(Number),
     local_busy : BOOLEAN, rnr_sent : BOOLEAN, full : BOOLEAN, got : Seq(Nat), sent : Nat,
     sdus : Nat, armed : SUBSET Timer, due : SUBSET Timer]

\* What is sent and not acknowledged is the first part of the queue, and fits the window.
TxInv(c) ==
    /\ c.head = c.unacked /\ c.head <= Len(c.tx_q) /\ c.unacked <= TxWin
    /\ offset(c.next_tx_seq, c.expected_ack_seq) = c.unacked

\* What is stored behind a gap, and what is rejected, lies between buffer_seq and
\* expected_tx_seq, of which the last is stored; all of it is within the window.
RxInv(c) ==
    LET ahead(x) == offset(x, c.buffer_seq)
        end == ahead(c.expected_tx_seq)
    IN  /\ offset(c.buffer_seq, c.last_acked_seq) + end <= TxWin
        /\ \A f \in c.srej_q : ahead(f.txseq) < end
        /\ \A f, g \in c.srej_q : f.txseq = g.txseq => f = g
        /\ \A i \in DOMAIN c.srej_list : ahead(c.srej_list[i]) < end
        /\ \A i, j \in DOMAIN c.srej_list : c.srej_list[i] = c.srej_list[j] => i = j
        /\ \A i \in DOMAIN c.srej_list, f \in c.srej_q : c.srej_list[i] # f.txseq
        /\ end = 0 \/ \E f \in c.srej_q : next(f.txseq) = c.expected_tx_seq
        /\ c.rx_state = "RECV" => end = 0

Timers(c) == c.armed \cup c.due

\* The monitor timer runs from a poll to its answer.
Timed(c) ==
    /\ c.tx_state = "WAIT_F" => "monitor" \in Timers(c)
    /\ c.tx_state = "XMIT" => "monitor" \notin c.armed

\* As long as nobody has been busy.
Calm(c) ==
    /\ ~c.remote_busy /\ ~c.local_busy /\ ~c.full
    /\ \A i \in DOMAIN c.out : c.out[i].super # "RNR"
    /\ c.up /\ c.tx_state = "XMIT" /\ c.unacked > 0 => "retrans" \in Timers(c)

Good(calm, c) == 
    /\ c \in Chan /\ TxInv(c) /\ RxInv(c) 
    /\ c.up => Timed(c)
    /\ calm => Calm(c)

ErtmInv ==
    /\ chan \in [Side -> Chan] /\ link \in [Side -> Seq(Frame)]
    /\ \A s \in Side : chan[s].out = <<>> /\ Good(fills = 0, chan[s])
    /\ fills = 0 => \A s \in Side : \A i \in DOMAIN link[s] : link[s][i].super # "RNR"
    /\ lost \in 0 .. MaxLost /\ fills \in 0 .. MaxFull /\ early \in 0 .. MaxEarly

-----------------------------------------------------------------------------
(* Sequence numbers *)

LEMMA Numbers ==
    /\ Modulus \in Nat /\ Modulus > 1 /\ TxWin \in Nat /\ 0 < TxWin /\ TxWin < Modulus
    /\ \A x \in Int : x % Modulus \in Number
    /\ 0 \in Number /\ 1 \in Number
    /\ \A x \in Number : x \in Nat /\ 0 <= x /\ x < Modulus
    /\ \A x \in Nat : x < Modulus => x \in Number
  BY WindowFits DEF Number

\* Remainders of numbers that are off by no more than one turn.
LEMMA Turns ==
    ASSUME NEW M \in Nat \ {0}, NEW a \in 0 .. M - 1, NEW b \in 0 .. M - 1
    PROVE  /\ (a - b) % M = IF a >= b THEN a - b ELSE a - b + M
           /\ (a + b) % M = IF a + b < M THEN a + b ELSE a + b - M
           /\ (a + b - 1) % M = IF a + b = 0 THEN M - 1 ELSE
                                IF a + b - 1 < M THEN a + b - 1 ELSE a + b - 1 - M
           /\ a % M = a
<1>1. (a - b) % M = IF a >= b THEN a - b ELSE a - b + M
  OBVIOUS
<1>2. (a + b) % M = IF a + b < M THEN a + b ELSE a + b - M
  OBVIOUS
<1>3. (a + b - 1) % M = IF a + b = 0 THEN M - 1 ELSE
                        IF a + b - 1 < M THEN a + b - 1 ELSE a + b - 1 - M
  OBVIOUS
<1>4. a % M = a
  OBVIOUS
<1> QED
  BY <1>1, <1>2, <1>3, <1>4

LEMMA OffsetIs ==
    ASSUME NEW a \in Number, NEW b \in Number
    PROVE  /\ offset(a, b) = IF a >= b THEN a - b ELSE a - b + Modulus
           /\ offset(a, b) \in Number
<1> DEFINE o == offset(a, b)
<1>1. Modulus \in Nat \ {0} /\ a \in 0 .. Modulus - 1 /\ b \in 0 .. Modulus - 1
  BY Numbers DEF Number
<1>2. o = IF a >= b THEN a - b ELSE a - b + Modulus
  BY <1>1, Turns DEF offset
<1> HIDE DEF o
<1>3. o \in Number
  BY <1>1, <1>2 DEF Number
<1> QED
  BY <1>2, <1>3 DEF o

LEMMA PlusIs ==
    ASSUME NEW a \in Number, NEW k \in Number
    PROVE  /\ (a + k) % Modulus = IF a + k < Modulus THEN a + k ELSE a + k - Modulus
           /\ (a + k) % Modulus \in Number
           /\ k # 0 => (a + k - 1) % Modulus =
                           IF a + k - 1 < Modulus THEN a + k - 1 ELSE a + k - 1 - Modulus
           /\ (a + k - 1) % Modulus \in Number
<1>1. Modulus \in Nat \ {0} /\ a \in 0 .. Modulus - 1 /\ k \in 0 .. Modulus - 1
  BY Numbers DEF Number
<1>2. /\ (a + k) % Modulus = IF a + k < Modulus THEN a + k ELSE a + k - Modulus
      /\ (a + k - 1) % Modulus = IF a + k = 0 THEN Modulus - 1 ELSE
                 IF a + k - 1 < Modulus THEN a + k - 1 ELSE a + k - 1 - Modulus
  BY <1>1, Turns, ZenonT(40)
<1>3. (a + k) % Modulus \in Number /\ (a + k - 1) % Modulus \in Number
  BY <1>1, Numbers
<1>4. k # 0 => a + k # 0
  BY <1>1
<1> QED
  BY <1>2, <1>3, <1>4

LEMMA NextIs ==
    ASSUME NEW a \in Number
    PROVE  /\ next(a) = IF a = Modulus - 1 THEN 0 ELSE a + 1
           /\ next(a) \in Number
<1>1. 1 \in Number /\ a \in Nat /\ a < Modulus /\ Modulus \in Nat
  BY Numbers
<1>2. next(a) = IF a + 1 < Modulus THEN a + 1 ELSE a + 1 - Modulus
  BY <1>1, PlusIs DEF next
<1>3. next(a) \in Number
  BY <1>1, PlusIs DEF next
<1> QED
  BY <1>1, <1>2, <1>3

\* Distances within one turn add up.
LEMMA OffsetsAdd ==
    ASSUME NEW a \in Number, NEW b \in Number, NEW c \in Number
    PROVE  /\ offset(b, c) + offset(a, b) < Modulus => offset(a, c) = offset(b, c) + offset(a, b)
           /\ offset(b, c) <= offset(a, c) => offset(a, c) = offset(b, c) + offset(a, b)
           /\ offset(a, b) = 0 <=> a = b
           /\ offset(a, c) = offset(b, c) => a = b
           /\ offset(a, c) + 1 < Modulus => offset(next(a), c) = offset(a, c) + 1
           /\ a # b => offset(a, next(b)) = offset(a, b) - 1
           /\ offset(next(a), a) = 1
<1> DEFINE x == offset(a, b)
           y == offset(b, c)
           z == offset(a, c)
           na == next(a)
           nb == next(b)
           u == offset(na, c)
           v == offset(a, nb)
           w == offset(na, a)
<1>1. /\ Modulus \in Nat /\ Modulus > 1
      /\ a \in Nat /\ a < Modulus /\ b \in Nat /\ b < Modulus /\ c \in Nat /\ c < Modulus
  BY Numbers
<1>2. /\ x = IF a >= b THEN a - b ELSE a - b + Modulus
      /\ y = IF b >= c THEN b - c ELSE b - c + Modulus
      /\ z = IF a >= c THEN a - c ELSE a - c + Modulus
  BY OffsetIs
<1>3. /\ na = IF a = Modulus - 1 THEN 0 ELSE a + 1
      /\ nb = IF b = Modulus - 1 THEN 0 ELSE b + 1
      /\ na \in Number /\ nb \in Number
  BY NextIs
<1> HIDE DEF x, y, z, na, nb
<1>4. /\ u = IF na >= c THEN na - c ELSE na - c + Modulus
      /\ v = IF a >= nb THEN a - nb ELSE a - nb + Modulus
      /\ w = IF na >= a THEN na - a ELSE na - a + Modulus
  BY <1>3, OffsetIs
<1> HIDE DEF u, v, w
<1>5. /\ y + x < Modulus => z = y + x
      /\ y <= z => z = y + x
      /\ x = 0 <=> a = b
      /\ z = y => a = b
  BY <1>1, <1>2
<1>6. /\ z + 1 < Modulus => u = z + 1
      /\ a # b => v = x - 1
      /\ w = 1
  BY <1>1, <1>2, <1>3, <1>4
<1> QED
  BY <1>5, <1>6 DEF x, y, z, na, nb, u, v, w

LEMMA PlusOffset ==
    ASSUME NEW a \in Number, NEW k \in Number
    PROVE  /\ offset((a + k) % Modulus, a) = k
           /\ k # 0 => offset((a + k - 1) % Modulus, a) = k - 1
<1> DEFINE p == (a + k) % Modulus
           q == (a + k - 1) % Modulus
           x == offset(p, a)
           y == offset(q, a)
<1>1. Modulus \in Nat /\ Modulus > 1 /\ a \in Nat /\ a < Modulus /\ k \in Nat /\ k < Modulus
  BY Numbers
<1>2. /\ p = IF a + k < Modulus THEN a + k ELSE a + k - Modulus
      /\ k # 0 => q = IF a + k - 1 < Modulus THEN a + k - 1 ELSE a + k - 1 - Modulus
      /\ p \in Number /\ q \in Number
  BY PlusIs
<1> HIDE DEF p, q
<1>3. /\ x = IF p >= a THEN p - a ELSE p - a + Modulus
      /\ y = IF q >= a THEN q - a ELSE q - a + Modulus
  BY <1>2, OffsetIs
<1> HIDE DEF x, y
<1>4. x = k /\ (k # 0 => y = k - 1)
  BY <1>1, <1>2, <1>3
<1> QED
  BY <1>4 DEF p, q, x, y

-----------------------------------------------------------------------------
(* Handlers *)

SameRx(c, d) ==
    /\ d.rx_state = c.rx_state /\ d.expected_tx_seq = c.expected_tx_seq
    /\ d.buffer_seq = c.buffer_seq /\ d.srej_q = c.srej_q /\ d.srej_list = c.srej_list
    /\ d.local_busy = c.local_busy /\ d.full = c.full /\ d.got = c.got
SameTx(c, d) ==
    /\ d.head = c.head /\ d.unacked = c.unacked /\ Len(d.tx_q) = Len(c.tx_q)
    /\ d.next_tx_seq = c.next_tx_seq /\ d.expected_ack_seq = c.expected_ack_seq
SameState(c, d) ==
    /\ d.up = c.up /\ d.tx_state = c.tx_state /\ d.remote_busy = c.remote_busy /\ d.due = c.due

\* What sending leaves alone: the receiver's part and whether it is busy.
Keeps(c, d) ==
    /\ SameRx(c, d) /\ d.last_acked_seq \in {c.last_acked_seq, c.buffer_seq}
    /\ d.due = c.due /\ (d.up => c.up)

LEMMA KeepsAll ==
    ASSUME NEW c, NEW d, NEW e, Keeps(c, d), Keeps(d, e)
    PROVE  Keeps(c, e)
  BY DEF Keeps, SameRx

LEMMA ChanNumbers ==
    ASSUME NEW c \in Chan
    PROVE  /\ c.next_tx_seq \in Number /\ c.expected_ack_seq \in Number
           /\ c.expected_tx_seq \in Number /\ c.buffer_seq \in Number
           /\ c.last_acked_seq \in Number /\ c.head \in Nat /\ c.unacked \in Nat
           /\ c.tx_q \in Seq(Unit) /\ c.out \in Seq(Frame) /\ c.srej_list \in Seq(Number)
           /\ c.srej_q \in SUBSET Frames /\ c.armed \in SUBSET Timer /\ c.due \in SUBSET Timer
           /\ \A f \in c.srej_q : f.txseq \in Number /\ f.sdu \in Nat
           /\ \A i \in DOMAIN c.srej_list : c.srej_list[i] \in Number
           /\ c.retry_count \in Nat /\ c.max_tx \in Nat /\ c.sent \in Nat /\ c.got \in Seq(Nat)
           /\ c.tx_state \in {"XMIT", "WAIT_F"} /\ c.rx_state \in {"RECV", "SREJ_SENT"}
           /\ c.up \in BOOLEAN /\ c.send_fbit \in BOOLEAN /\ c.remote_busy \in BOOLEAN
           /\ c.srej_act \in BOOLEAN /\ c.local_busy \in BOOLEAN /\ c.rnr_sent \in BOOLEAN
           /\ c.full \in BOOLEAN
<1>1. /\ c.next_tx_seq \in Number /\ c.expected_ack_seq \in Number
      /\ c.expected_tx_seq \in Number /\ c.buffer_seq \in Number
      /\ c.last_acked_seq \in Number /\ c.head \in Nat /\ c.unacked \in Nat
      /\ c.tx_q \in Seq(Unit) /\ c.out \in Seq(Frame) /\ c.srej_list \in Seq(Number)
      /\ c.srej_q \in SUBSET Frames /\ c.armed \in SUBSET Timer /\ c.due \in SUBSET Timer
      /\ c.retry_count \in Nat /\ c.max_tx \in Nat /\ c.sent \in Nat /\ c.got \in Seq(Nat)
      /\ c.tx_state \in {"XMIT", "WAIT_F"} /\ c.rx_state \in {"RECV", "SREJ_SENT"}
      /\ c.up \in BOOLEAN /\ c.send_fbit \in BOOLEAN /\ c.remote_busy \in BOOLEAN
      /\ c.srej_act \in BOOLEAN /\ c.local_busy \in BOOLEAN /\ c.rnr_sent \in BOOLEAN
      /\ c.full \in BOOLEAN
  BY DEF Chan
<1>2. \A f \in c.srej_q : f.txseq \in Number /\ f.sdu \in Nat
  BY <1>1 DEF Frames, Number
<1>3. \A i \in DOMAIN c.srej_list : c.srej_list[i] \in Number
  BY <1>1
<1> QED
  BY <1>1, <1>2, <1>3

LEMMA RxKept ==
    ASSUME NEW c \in Chan, NEW d \in Chan, RxInv(c), Keeps(c, d)
    PROVE  RxInv(d)
<1>1. c.buffer_seq \in Number /\ c.expected_tx_seq \in Number /\ c.last_acked_seq \in Number
  BY ChanNumbers
<1>2. offset(c.buffer_seq, c.buffer_seq) = 0 /\ offset(c.buffer_seq, c.last_acked_seq) \in Number
      /\ offset(c.expected_tx_seq, c.buffer_seq) \in Number
  BY <1>1, OffsetsAdd, OffsetIs
<1>3. offset(d.buffer_seq, d.last_acked_seq) \in Nat
      /\ offset(d.buffer_seq, d.last_acked_seq) <= offset(c.buffer_seq, c.last_acked_seq)
  BY <1>2, Numbers DEF Keeps, SameRx
<1>4. offset(c.buffer_seq, c.last_acked_seq) + offset(c.expected_tx_seq, c.buffer_seq) <= TxWin
  BY DEF RxInv
<1>5. offset(d.buffer_seq, d.last_acked_seq) + offset(d.expected_tx_seq, d.buffer_seq) <= TxWin
  BY <1>2, <1>3, <1>4, Numbers DEF Keeps, SameRx
<1> QED
  BY <1>5 DEF RxInv, Keeps, SameRx

LEMMA TxKept ==
    ASSUME NEW c, NEW d, TxInv(c), SameTx(c, d)
    PROVE  TxInv(d)
  BY DEF TxInv, SameTx

\* A disconnect is always possible.
LEMMA Disconnects ==
    ASSUME NEW calm \in BOOLEAN, NEW c, Good(calm, c), NEW d, d = send_disconn_req(c)
    PROVE  Good(calm, d) /\ Keeps(c, d) /\ SameTx(c, d) /\ d.up = FALSE /\ d.out = c.out
<1>1. c \in Chan
  BY DEF Good
<1>2. d \in Chan /\ d.up = FALSE /\ SameTx(c, d) /\ Keeps(c, d)
      /\ d.remote_busy = c.remote_busy /\ d.out = c.out
  BY <1>1 DEF send_disconn_req, Chan, SameTx, Keeps, SameRx
<1>3. RxInv(d) /\ TxInv(d)
  BY <1>1, <1>2, RxKept, TxKept DEF Good
<1>4. calm => Calm(d)
  BY <1>2 DEF Good, Calm, Keeps, SameRx
<1> QED
  BY <1>2, <1>3, <1>4 DEF Good

PutSframe(c, out, rnr, acked, armed) ==
    [c EXCEPT !.out = out, !.send_fbit = FALSE, !.rnr_sent = rnr, !.last_acked_seq = acked,
              !.armed = armed]

LEMMA SframeFields ==
    ASSUME NEW c \in Chan, NEW out \in Seq(Frame), NEW rnr \in BOOLEAN, NEW acked \in Number,
           NEW armed \in SUBSET Timer
    PROVE  LET d == PutSframe(c, out, rnr, acked, armed)
           IN  /\ d \in Chan /\ SameRx(c, d) /\ SameTx(c, d) /\ SameState(c, d)
               /\ d.out = out /\ d.last_acked_seq = acked /\ d.armed = armed
               /\ d.tx_q = c.tx_q /\ d.rnr_sent = rnr
  BY ZenonT(40) DEF Chan, SameRx, SameTx, SameState, PutSframe

\* What sending relies on: everything but the receiver's part.
Fit(calm, c) ==
    c \in Chan /\ TxInv(c) /\ (c.up => Timed(c)) /\ (calm => Calm(c))

LEMMA GoodIs ==
    ASSUME NEW calm, NEW c
    PROVE  Good(calm, c) <=> Fit(calm, c) /\ RxInv(c)
  BY DEF Good, Fit

LEMMA FitSframes ==
    ASSUME NEW calm \in BOOLEAN, NEW c, Fit(calm, c),
           NEW super \in {"RR", "RNR", "SREJ"}, NEW poll \in BOOLEAN, NEW final \in BOOLEAN,
           NEW reqseq \in Number, super # "SREJ" => reqseq = c.buffer_seq,
           calm => super # "RNR",
           NEW d, d = send_sframe(c, super, poll, final, reqseq)
    PROVE  /\ Fit(calm, d) /\ Keeps(c, d) /\ SameTx(c, d) /\ SameState(c, d)
           /\ d.tx_q = c.tx_q /\ (super = "SREJ" => d.last_acked_seq = c.last_acked_seq)
<1> DEFINE f == SFrame(super, reqseq, poll, final \/ (c.send_fbit /\ ~poll))
           out == Append(c.out, f)
           rnr == IF super = "SREJ" THEN c.rnr_sent ELSE super = "RNR"
           acked == IF super = "SREJ" THEN c.last_acked_seq ELSE reqseq
           armed == IF super = "SREJ" THEN c.armed ELSE c.armed \ {"ack"}
<1>1. c \in Chan
  BY DEF Fit
<1>2. f \in Frame /\ f.super = super
  BY <1>1, Numbers, ChanNumbers DEF SFrame, Frame
<1>3. d = PutSframe(c, out, rnr, acked, armed)
  BY DEF send_sframe, PutSframe
<1> HIDE DEF f
<1>4. /\ out \in Seq(Frame) /\ rnr \in BOOLEAN /\ acked \in Number
      /\ armed \in SUBSET Timer
  <2>1. c.out \in Seq(Frame) /\ c.armed \in SUBSET Timer /\ c.rnr_sent \in BOOLEAN
        /\ c.last_acked_seq \in Number
    BY <1>1, ChanNumbers
  <2>2. out \in Seq(Frame)
    BY <1>2, <2>1
  <2>3. armed \in SUBSET Timer
    BY <2>1
  <2>4. rnr \in BOOLEAN
    BY <2>1
  <2>5. acked \in Number
    BY <2>1
  <2> QED
    BY <2>2, <2>3, <2>4, <2>5
<1>5. acked \in {c.last_acked_seq, c.buffer_seq}
      /\ (super = "SREJ" => acked = c.last_acked_seq)
      /\ ("monitor" \in armed <=> "monitor" \in c.armed)
      /\ ("retrans" \in armed <=> "retrans" \in c.armed)
  OBVIOUS
<1>6. ASSUME calm, \A i \in DOMAIN c.out : c.out[i].super # "RNR"
      PROVE  \A i \in DOMAIN out : out[i].super # "RNR"
  BY <1>1, <1>2, <1>6, ChanNumbers
<1> HIDE DEF out, rnr, acked, armed
<1>7. /\ d \in Chan /\ Keeps(c, d) /\ SameTx(c, d) /\ SameState(c, d)
      /\ d.tx_q = c.tx_q /\ d.armed = armed /\ d.out = out /\ d.last_acked_seq = acked
  <2>1. /\ d \in Chan /\ SameRx(c, d) /\ SameTx(c, d) /\ SameState(c, d)
        /\ d.out = out /\ d.last_acked_seq = acked /\ d.armed = armed
        /\ d.tx_q = c.tx_q /\ d.rnr_sent = rnr
    BY <1>1, <1>3, <1>4, SframeFields
  <2> QED
    BY <1>5, <2>1 DEF Keeps, SameState
<1>8. TxInv(d)
  BY <1>1, <1>7, TxKept DEF Fit
<1>9. Timed(c) => Timed(d)
  BY <1>5, <1>7 DEF Timed, Timers, SameState
<1>10. calm => Calm(d)
  BY <1>5, <1>6, <1>7 DEF Fit, Calm, Timers, Keeps, SameRx, SameTx, SameState
<1> QED
  BY <1>5, <1>7, <1>8, <1>9, <1>10 DEF Fit, SameState

LEMMA Sframes ==
    ASSUME NEW calm \in BOOLEAN, NEW c, Good(calm, c),
           NEW super \in {"RR", "RNR", "SREJ"}, NEW poll \in BOOLEAN, NEW final \in BOOLEAN,
           NEW reqseq \in Number, super # "SREJ" => reqseq = c.buffer_seq,
           calm => super # "RNR",
           NEW d, d = send_sframe(c, super, poll, final, reqseq)
    PROVE  /\ Good(calm, d) /\ Keeps(c, d) /\ SameTx(c, d) /\ SameState(c, d)
           /\ d.tx_q = c.tx_q
<1>1. Fit(calm, c) /\ RxInv(c) /\ c \in Chan
  BY GoodIs DEF Fit
<1>2. /\ Fit(calm, d) /\ Keeps(c, d) /\ SameTx(c, d) /\ SameState(c, d)
      /\ d.tx_q = c.tx_q
  BY <1>1, FitSframes, SMTT(60)
<1>3. RxInv(d)
  BY <1>1, <1>2, RxKept DEF Fit
<1> QED
  BY <1>2, <1>3, GoodIs

-----------------------------------------------------------------------------
(* Timers *)

PutTimers(c, armed) == [c EXCEPT !.armed = armed]

LEMMA TimersFields ==
    ASSUME NEW c \in Chan, NEW armed \in SUBSET Timer
    PROVE  LET d == PutTimers(c, armed)
           IN  /\ d \in Chan /\ SameRx(c, d) /\ SameTx(c, d) /\ SameState(c, d)
               /\ d.armed = armed /\ d.out = c.out /\ d.tx_q = c.tx_q
               /\ d.last_acked_seq = c.last_acked_seq /\ d.retry_count = c.retry_count
               /\ d.send_fbit = c.send_fbit
  BY DEF Chan, SameRx, SameTx, SameState, PutTimers

PutPoll(c, armed, retry, state) ==
    [c EXCEPT !.armed = armed, !.retry_count = retry, !.tx_state = state]

LEMMA PollFields ==
    ASSUME NEW c \in Chan, NEW armed \in SUBSET Timer, NEW retry \in Nat,
           NEW state \in {"XMIT", "WAIT_F"}
    PROVE  LET d == PutPoll(c, armed, retry, state)
           IN  /\ d \in Chan /\ SameRx(c, d) /\ SameTx(c, d) /\ d.up = c.up
               /\ d.tx_state = state /\ d.remote_busy = c.remote_busy /\ d.due = c.due
               /\ d.armed = armed /\ d.out = c.out /\ d.tx_q = c.tx_q
               /\ d.last_acked_seq = c.last_acked_seq
  BY DEF Chan, SameRx, SameTx, PutPoll

\* A timer that is stopped or started, where the invariant allows it.
LEMMA TimersGood ==
    ASSUME NEW calm \in BOOLEAN, NEW c, Good(calm, c), NEW armed \in SUBSET Timer,
           NEW d, d = PutTimers(c, armed),
           c.up => \/ c.tx_state = "WAIT_F"
                      /\ ("monitor" \in armed \/ "monitor" \notin c.armed)
                   \/ c.tx_state = "XMIT" /\ "monitor" \notin armed,
           calm /\ c.up /\ c.tx_state = "XMIT" /\ c.unacked > 0 =>
               "retrans" \in armed \/ "retrans" \notin c.armed
    PROVE  /\ Good(calm, d) /\ Keeps(c, d) /\ SameTx(c, d) /\ SameState(c, d)
           /\ d.armed = armed /\ d.tx_q = c.tx_q
<1>1. c \in Chan
  BY DEF Good
<1>2. /\ d \in Chan /\ SameRx(c, d) /\ SameTx(c, d) /\ SameState(c, d)
      /\ d.armed = armed /\ d.out = c.out /\ d.tx_q = c.tx_q
      /\ d.last_acked_seq = c.last_acked_seq
  BY <1>1, TimersFields
<1>3. Keeps(c, d)
  BY <1>2 DEF Keeps, SameState
<1>4. RxInv(d) /\ TxInv(d)
  BY <1>1, <1>2, <1>3, RxKept, TxKept DEF Good
<1>5. d.up => Timed(d)
  BY <1>2 DEF Timed, Timers, SameState, Good
<1>6. calm => Calm(d)
  BY <1>2 DEF Good, Calm, Timers, SameRx, SameTx, SameState
<1> QED
  BY <1>2, <1>3, <1>4, <1>5, <1>6 DEF Good

\* A poll starts, is repeated or is answered.
LEMMA PollGood ==
    ASSUME NEW calm \in BOOLEAN, NEW c, Good(calm, c), NEW armed \in SUBSET Timer,
           NEW retry \in Nat, NEW state \in {"XMIT", "WAIT_F"},
           NEW d, d = PutPoll(c, armed, retry, state),
           state = "WAIT_F" => "monitor" \in armed,
           state = "XMIT" => "monitor" \notin armed,
           state = "XMIT" /\ c.unacked > 0 => "retrans" \in armed
    PROVE  /\ Good(calm, d) /\ Keeps(c, d) /\ SameTx(c, d) /\ d.tx_state = state
           /\ d.last_acked_seq = c.last_acked_seq
<1>1. c \in Chan
  BY DEF Good
<1>2. /\ d \in Chan /\ SameRx(c, d) /\ SameTx(c, d) /\ d.up = c.up
      /\ d.tx_state = state /\ d.remote_busy = c.remote_busy /\ d.due = c.due
      /\ d.armed = armed /\ d.out = c.out /\ d.tx_q = c.tx_q
      /\ d.last_acked_seq = c.last_acked_seq
  BY <1>1, PollFields
<1>3. Keeps(c, d)
  BY <1>2 DEF Keeps
<1>4. RxInv(d) /\ TxInv(d)
  BY <1>1, <1>2, <1>3, RxKept, TxKept DEF Good
<1>5. Timed(d)
  BY <1>2 DEF Timed, Timers
<1>6. calm => Calm(d)
  BY <1>2 DEF Good, Calm, Timers, SameRx, SameTx
<1> QED
  BY <1>2, <1>3, <1>4, <1>5, <1>6 DEF Good

LEMMA RetransStarts ==
    ASSUME NEW calm \in BOOLEAN, NEW c, Good(calm, c), NEW d, d = set_retrans_timer(c)
    PROVE  Good(calm, d) /\ Keeps(c, d) /\ SameTx(c, d) /\ SameState(c, d) /\ d.tx_q = c.tx_q
           /\ d.send_fbit = c.send_fbit
<1>1. c \in Chan /\ c.armed \in SUBSET Timer /\ (c.up => Timed(c))
  BY ChanNumbers DEF Good
<1>2. CASE "monitor" \in c.armed
  BY <1>2 DEF set_retrans_timer, Keeps, SameRx, SameTx, SameState
<1>3. CASE "monitor" \notin c.armed
  <2> DEFINE armed == c.armed \cup {"retrans"}
  <2>1. armed \in SUBSET Timer /\ "retrans" \in armed /\ "monitor" \notin armed
    BY <1>1, <1>3 DEF Timer
  <2>2. d = PutTimers(c, armed)
    BY <1>3 DEF set_retrans_timer, PutTimers
  <2> HIDE DEF armed
  <2>3. d.send_fbit = c.send_fbit
    BY <1>1, <2>1, <2>2, TimersFields
  <2>4. c.up => c.tx_state \in {"XMIT", "WAIT_F"}
    BY <1>1, ChanNumbers
  <2> QED
    BY <1>3, <2>1, <2>2, <2>3, <2>4, TimersGood
<1> QED
  BY <1>2, <1>3

\* PollAndWait after the poll is sent.
LEMMA Polls ==
    ASSUME NEW calm \in BOOLEAN, NEW c, Good(calm, c), NEW d, d = PollAndWait(c)
    PROVE  Good(calm, d) /\ Keeps(c, d)
<1> DEFINE armed == (c.armed \ {"retrans"}) \cup {"monitor"}
<1>1. c \in Chan /\ c.armed \in SUBSET Timer
  BY ChanNumbers DEF Good
<1>2. armed \in SUBSET Timer /\ "monitor" \in armed
  BY <1>1 DEF Timer
<1>3. d = [[c EXCEPT !.armed = armed] EXCEPT !.retry_count = 1, !.tx_state = "WAIT_F"]
  BY DEF PollAndWait, set_monitor_timer
<1> HIDE DEF armed
<1>4. d = PutPoll(c, armed, 1, "WAIT_F")
  BY <1>1, <1>3 DEF PutPoll, Chan
<1> QED
  BY <1>2, <1>4, PollGood

-----------------------------------------------------------------------------
(* Things done in turn *)

\* A set of numbers has a least one.
LEMMA Least ==
    ASSUME NEW T, T \subseteq Nat, T # {}
    PROVE  \E x \in T : \A y \in T : x <= y
<1> DEFINE F == {0 .. n - 1 : n \in T}
<1> DEFINE R == StrictSubsetOrdering(Nat)
<1>1. F \subseteq FiniteSubsetsOf(Nat) /\ F # {}
  <2>1. ASSUME NEW n \in T PROVE 0 .. n - 1 \in FiniteSubsetsOf(Nat)
    <3>1. n - 1 \in Int /\ 0 .. n - 1 \subseteq Nat
      OBVIOUS
    <3> QED
      BY <3>1, FS_Interval DEF FiniteSubsetsOf
  <2> QED
    BY <2>1
<1>2. IsWellFoundedOn(R, FiniteSubsetsOf(Nat))
  BY FS_StrictSubsetOrderingWellFounded
<1> HIDE DEF R
<1>3. PICK X \in F : \A Y \in F : ~(<<Y, X>> \in R)
  BY <1>1, <1>2, WFMin, Zenon
<1>4. PICK n \in T : X = 0 .. n - 1
  OBVIOUS
<1>5. ASSUME NEW y \in T PROVE n <= y
  <2>1. ~(<<0 .. y - 1, 0 .. n - 1>> \in R)
    BY <1>3, <1>4
  <2>2. y < n => <<0 .. y - 1, 0 .. n - 1>> \in R
    <3> SUFFICES ASSUME y < n PROVE <<0 .. y - 1, 0 .. n - 1>> \in R
      OBVIOUS
    <3>1. 0 .. y - 1 \subseteq 0 .. n - 1 /\ y \in 0 .. n - 1 /\ y \notin 0 .. y - 1
      OBVIOUS
    <3> QED
      BY <3>1 DEF R, StrictSubsetOrdering
  <2> QED
    BY <2>1, <2>2
<1> QED
  BY <1>5

\* What holds at first and after each turn holds in the end.
LEMMA TurnsHold ==
    ASSUME NEW n \in Nat, NEW C, NEW g, g[0] \in C,
           \A j \in 1 .. n : g[j - 1] \in C => g[j] \in C
    PROVE  g[n] \in C
<1> SUFFICES ASSUME g[n] \notin C PROVE FALSE
  OBVIOUS
<1> DEFINE T == {j \in 0 .. n : g[j] \notin C}
<1>1. T \subseteq Nat /\ T # {}
  OBVIOUS
<1> HIDE DEF T
<1>2. PICK x \in T : \A y \in T : x <= y
  BY <1>1, Least
<1>3. x \in 0 .. n /\ g[x] \notin C
  BY DEF T
<1>4. x # 0 /\ x \in 1 .. n /\ x - 1 \in 0 .. n
  BY <1>3
<1>5. x - 1 \notin T
  BY <1>2, <1>4
<1> QED
  BY <1>3, <1>4, <1>5 DEF T

\* What the numbers up to n turn the members of C into, and what they lead to from c.
Steps(n, C) == [C -> [1 .. n -> C]]
Leads(g, n, C, c, F) ==
    g \in [0 .. n -> C] /\ g[0] = c /\ \A j \in 1 .. n : g[j] = F[g[j - 1]][j]

\* There is something that the turns lead to.
LEMMA TurnsExist ==
    ASSUME NEW n \in Nat, NEW C, NEW c \in C, NEW F \in Steps(n, C)
    PROVE  \E g : Leads(g, n, C, c, F)
<1> DEFINE Is(g, m) == g[0] = c /\ \A j \in 1 .. m : g[j] = F[g[j - 1]][j]
           T == {m \in 0 .. n : ~ \E g \in [0 .. m -> C] : Is(g, m)}
<1>0. F \in [C -> [1 .. n -> C]]
  BY DEF Steps
<1> SUFFICES ASSUME n \in T PROVE FALSE
  BY DEF Leads
<1>1. T \subseteq Nat /\ T # {}
  <2>1. n \in T
    OBVIOUS
  <2>2. \A m \in T : m \in 0 .. n
    OBVIOUS
  <2> HIDE DEF T
  <2> QED
    BY <2>1, <2>2
<1>a. \A m \in T : m \in 0 .. n /\ ~ \E g \in [0 .. m -> C] : Is(g, m)
  OBVIOUS
<1>b. \A m \in 0 .. n : m \notin T => \E g \in [0 .. m -> C] : Is(g, m)
  OBVIOUS
<1> HIDE DEF T
<1>2. PICK x \in T : \A y \in T : x <= y
  BY <1>1, Least
<1>3. x # 0
  <2>1. Is([j \in 0 .. 0 |-> c], 0) /\ [j \in 0 .. 0 |-> c] \in [0 .. 0 -> C]
    OBVIOUS
  <2> QED
    BY <1>a, <2>1
<1>4. x \in 1 .. n /\ x - 1 \in 0 .. n /\ x - 1 \notin T
  BY <1>a, <1>2, <1>3
<1>5. PICK g \in [0 .. x - 1 -> C] : Is(g, x - 1)
  BY <1>4, <1>b
<1> DEFINE v == F[g[x - 1]][x]
           h == [j \in 0 .. x |-> IF j = x THEN v ELSE g[j]]
<1>6. v \in C
  BY <1>0, <1>4
<1>7. h \in [0 .. x -> C]
  BY <1>4, <1>6
<1>8. h[0] = c
  BY <1>4, <1>5
<1>9. ASSUME NEW j \in 1 .. x PROVE h[j] = F[h[j - 1]][j]
  <2>1. j - 1 \in 0 .. x - 1 /\ h[j - 1] = g[j - 1]
    BY <1>4
  <2>2. CASE j = x
    BY <2>1, <2>2, <1>4
  <2>3. CASE j # x
    <3>1. j \in 1 .. x - 1 /\ h[j] = g[j]
      BY <2>3, <1>4
    <3> QED
      BY <1>5, <2>1, <3>1
  <2> QED
    BY <2>2, <2>3
<1> QED
  BY <1>7, <1>8, <1>9, <1>a

-----------------------------------------------------------------------------
(* Sending *)

LEMMA MinOfTwo ==
    ASSUME NEW a \in Int, NEW b \in Int
    PROVE  Min({a, b}) = IF a <= b THEN a ELSE b
<1> DEFINE m == IF a <= b THEN a ELSE b
<1>1. m \in {a, b} /\ \A y \in {a, b} : m <= y
  OBVIOUS
<1>2. \A x \in {a, b} : (\A y \in {a, b} : x <= y) => x = m
  OBVIOUS
<1> QED
  BY <1>1, <1>2 DEF Min

PutSent(c, out, tx_q, head, next_seq, fbit, acked) ==
    [c EXCEPT !.out = out, !.tx_q = tx_q, !.head = head, !.unacked = head,
              !.next_tx_seq = next_seq, !.send_fbit = fbit, !.last_acked_seq = acked]

LEMMA SentFields ==
    ASSUME NEW c \in Chan, NEW out \in Seq(Frame), NEW tx_q \in Seq(Unit), NEW head \in Nat,
           NEW next_seq \in Number, NEW fbit \in BOOLEAN, NEW acked \in Number,
           NEW d, d = PutSent(c, out, tx_q, head, next_seq, fbit, acked)
    PROVE  /\ d \in Chan /\ SameRx(c, d) /\ SameState(c, d)
           /\ d.out = out /\ d.tx_q = tx_q /\ d.head = head /\ d.unacked = head
           /\ d.next_tx_seq = next_seq /\ d.expected_ack_seq = c.expected_ack_seq
           /\ d.send_fbit = fbit /\ d.last_acked_seq = acked /\ d.armed = c.armed
  BY ZenonT(40) DEF Chan, SameRx, SameState, PutSent

\* ertm_send where there is something to send.
SendMany(c, k) ==
    LET seq(j) == (c.next_tx_seq + j - 1) % Modulus
        frames == [j \in 1 .. k |-> IFrame(seq(j), c.tx_q[c.head + j].sdu, c.buffer_seq,
                                           c.send_fbit /\ j = 1)]
    IN  [c EXCEPT !.out = @ \o frames,
                  !.tx_q = [i \in DOMAIN @ |->
                              IF i - c.head \in 1 .. k
                              THEN [@[i] EXCEPT !.txseq = seq(i - c.head), !.retries = 1]
                              ELSE @[i]],
                  !.head = @ + k, !.unacked = @ + k, !.next_tx_seq = (@ + k) % Modulus,
                  !.send_fbit = FALSE, !.last_acked_seq = c.buffer_seq]

LEMMA SendsMany ==
    ASSUME NEW calm \in BOOLEAN, NEW c, Good(calm, c), NEW k \in Nat, k # 0,
           k <= Len(c.tx_q) - c.head, k <= TxWin - c.unacked,
           NEW d, d = SendMany(c, k)
    PROVE  /\ d \in Chan /\ TxInv(d) /\ RxInv(d) /\ Keeps(c, d) /\ SameState(c, d)
           /\ d.armed = c.armed /\ d.send_fbit = FALSE
           /\ calm => \A i \in DOMAIN d.out : d.out[i].super # "RNR"
<1> DEFINE seq(j) == (c.next_tx_seq + j - 1) % Modulus
           frames == [j \in 1 .. k |-> IFrame(seq(j), c.tx_q[c.head + j].sdu, c.buffer_seq,
                                              c.send_fbit /\ j = 1)]
           out == c.out \o frames
           tx_q == [i \in DOMAIN c.tx_q |->
                      IF i - c.head \in 1 .. k
                      THEN [c.tx_q[i] EXCEPT !.txseq = seq(i - c.head), !.retries = 1]
                      ELSE c.tx_q[i]]
           head == c.head + k
           to == (c.next_tx_seq + k) % Modulus
           no == FALSE
<1>1. c \in Chan /\ TxInv(c)
  BY DEF Good
<1>2. /\ c.next_tx_seq \in Number /\ c.buffer_seq \in Number /\ c.expected_ack_seq \in Number
      /\ c.head \in Nat /\ c.unacked \in Nat /\ c.tx_q \in Seq(Unit) /\ c.out \in Seq(Frame)
      /\ c.send_fbit \in BOOLEAN /\ c.last_acked_seq \in Number
  BY <1>1, ChanNumbers
<1>3. c.head = c.unacked /\ c.head <= Len(c.tx_q) /\ Len(c.tx_q) \in Nat
      /\ offset(c.next_tx_seq, c.expected_ack_seq) = c.unacked
  BY <1>1, <1>2 DEF TxInv
<1>a. /\ \A j \in Nat : c.next_tx_seq + j - 1 \in Int
      /\ c.next_tx_seq + k \in Int /\ c.head + k \in Nat
      /\ c.head + k <= Len(c.tx_q) /\ c.head + k <= TxWin /\ c.unacked + k = c.head + k
      /\ k \in Number /\ c.unacked + k < Modulus
  <2> HIDE DEF seq, frames, out, tx_q, head, to
  <2>1. c.next_tx_seq \in Nat /\ TxWin \in Nat /\ Modulus \in Nat /\ TxWin < Modulus
        /\ \A x \in Nat : x < Modulus => x \in Number
    BY <1>2, Numbers
  <2> QED
    BY <1>2, <1>3, <2>1, SMTT(30)
<1>4. \A j \in Nat : seq(j) \in Number
  BY <1>a, Numbers
<1>5. \A i \in DOMAIN c.tx_q : c.tx_q[i] \in Unit
  BY <1>2
<1>6. frames \in Seq(Frame) /\ \A j \in DOMAIN frames : frames[j].super = "I"
  <2> HIDE DEF seq
  <2>1. ASSUME NEW j \in 1 .. k
        PROVE  /\ IFrame(seq(j), c.tx_q[c.head + j].sdu, c.buffer_seq, c.send_fbit /\ j = 1)
                      \in Frame
               /\ IFrame(seq(j), c.tx_q[c.head + j].sdu, c.buffer_seq, c.send_fbit /\ j = 1).super
                      = "I"
    <3>1. c.head + j \in DOMAIN c.tx_q
      BY <1>2, <1>3
    <3>2. c.tx_q[c.head + j].sdu \in Nat
      BY <1>5, <3>1 DEF Unit
    <3>3. (c.send_fbit /\ j = 1) \in BOOLEAN /\ 0 \in Number
      BY Numbers
    <3> QED
      BY <1>2, <1>4, <3>2, <3>3 DEF IFrame, Frame
  <2>2. frames \in [1 .. k -> Frame] /\ \A j \in 1 .. k : frames[j].super = "I"
    BY <2>1
  <2> HIDE DEF frames
  <2> QED
    BY <2>2
<1>7. out \in Seq(Frame)
  <2> HIDE DEF frames
  <2> QED
    BY <1>2, <1>6
<1>8. tx_q \in Seq(Unit) /\ Len(tx_q) = Len(c.tx_q)
  <2> HIDE DEF seq
  <2>1. ASSUME NEW i \in DOMAIN c.tx_q, i - c.head \in 1 .. k
        PROVE  [c.tx_q[i] EXCEPT !.txseq = seq(i - c.head), !.retries = 1] \in Unit
    <3>1. seq(i - c.head) \in Number /\ c.tx_q[i] \in Unit
      BY <1>4, <1>5, <2>1
    <3> QED
      BY <3>1 DEF Unit
  <2>2. \A i \in DOMAIN c.tx_q : tx_q[i] \in Unit
    BY <1>5, <2>1
  <2>3. DOMAIN c.tx_q = 1 .. Len(c.tx_q) /\ DOMAIN tx_q = DOMAIN c.tx_q
    BY <1>2
  <2>4. tx_q = [i \in DOMAIN c.tx_q |-> tx_q[i]]
    OBVIOUS
  <2> HIDE DEF tx_q
  <2>5. tx_q \in [1 .. Len(c.tx_q) -> Unit]
    BY <2>2, <2>3, <2>4
  <2> QED
    BY <2>5, <1>3
<1>9. head \in Nat /\ to \in Number /\ head <= Len(c.tx_q) /\ head <= TxWin
  BY <1>a, Numbers
<1>10. offset(to, c.expected_ack_seq) = head
  <2>1. k \in Number
    BY <1>a
  <2>2. offset(to, c.next_tx_seq) = k
    BY <1>2, <2>1, PlusOffset
  <2> HIDE DEF seq, frames, out, tx_q, head, to
  <2>3. offset(c.next_tx_seq, c.expected_ack_seq) + offset(to, c.next_tx_seq) < Modulus =>
            offset(to, c.expected_ack_seq) =
                offset(c.next_tx_seq, c.expected_ack_seq) + offset(to, c.next_tx_seq)
    BY <1>2, <1>9, OffsetsAdd
  <2>4. offset(to, c.expected_ack_seq) = c.unacked + k
    BY <1>3, <1>a, <2>2, <2>3
  <2>5. head = c.head + k
    BY DEF head
  <2> QED
    BY <1>a, <2>4, <2>5
<1>11. d = PutSent(c, out, tx_q, head, to, no, c.buffer_seq)
  BY <1>a DEF SendMany, PutSent
<1>12. calm => \A i \in DOMAIN out : out[i].super # "RNR"
  <2> SUFFICES ASSUME calm PROVE \A i \in DOMAIN out : out[i].super # "RNR"
    OBVIOUS
  <2>1. \A i \in DOMAIN c.out : c.out[i].super # "RNR"
    BY DEF Good, Calm
  <2> HIDE DEF frames
  <2>2. \A i \in DOMAIN out : out[i] = IF i <= Len(c.out) THEN c.out[i]
                                      ELSE frames[i - Len(c.out)]
    BY <1>2, <1>6
  <2>3. ASSUME NEW i \in DOMAIN out, i > Len(c.out) PROVE i - Len(c.out) \in DOMAIN frames
    BY <1>2, <1>6, <2>3
  <2>4. ASSUME NEW i \in DOMAIN out, i <= Len(c.out) PROVE i \in DOMAIN c.out
    BY <1>2, <1>6, <2>4
  <2>5. \A i \in DOMAIN out : i \in Nat
    BY <1>7
  <2>6. Len(c.out) \in Nat
    BY <1>2
  <2> HIDE DEF out
  <2> QED
    BY <1>6, <2>1, <2>2, <2>3, <2>4, <2>5, <2>6
<1>b. no \in BOOLEAN
  OBVIOUS
<1> HIDE DEF seq, frames, out, tx_q, head, to, no
<1>13. /\ d \in Chan /\ SameRx(c, d) /\ SameState(c, d)
       /\ d.out = out /\ d.tx_q = tx_q /\ d.head = head /\ d.unacked = head
       /\ d.next_tx_seq = to /\ d.expected_ack_seq = c.expected_ack_seq
       /\ d.send_fbit = no /\ d.last_acked_seq = c.buffer_seq /\ d.armed = c.armed
  <2> DEFINE acked == c.buffer_seq
  <2>1. /\ c \in Chan /\ out \in Seq(Frame) /\ tx_q \in Seq(Unit) /\ head \in Nat
        /\ to \in Number /\ no \in BOOLEAN /\ acked \in Number
        /\ d = PutSent(c, out, tx_q, head, to, no, acked)
    BY <1>1, <1>2, <1>7, <1>8, <1>9, <1>11, <1>b
  <2> HIDE DEF acked
  <2>2. /\ d \in Chan /\ SameRx(c, d) /\ SameState(c, d)
        /\ d.out = out /\ d.tx_q = tx_q /\ d.head = head /\ d.unacked = head
        /\ d.next_tx_seq = to /\ d.expected_ack_seq = c.expected_ack_seq
        /\ d.send_fbit = no /\ d.last_acked_seq = acked /\ d.armed = c.armed
    BY <2>1, SentFields, SMT
  <2> QED
    BY <2>2 DEF acked
<1>14. Keeps(c, d)
  BY <1>13 DEF Keeps, SameState
<1>15. TxInv(d)
  BY <1>8, <1>9, <1>10, <1>13 DEF TxInv
<1> QED
  BY <1>1, <1>12, <1>13, <1>14, <1>15, RxKept DEF Good, no

LEMMA Sends ==
    ASSUME NEW calm \in BOOLEAN, NEW c, Good(calm, c), NEW d, d = ertm_send(c)
    PROVE  Good(calm, d) /\ Keeps(c, d) /\ SameState(c, d)
<1> DEFINE a == Len(c.tx_q) - c.head
           b == TxWin - c.unacked
           m == IF a <= b THEN a ELSE b
           k == IF ~c.up \/ c.remote_busy \/ c.tx_state # "XMIT" THEN 0 ELSE Min({a, b})
<1>1. c \in Chan /\ TxInv(c) /\ (c.up => Timed(c))
  BY DEF Good
<1>2. /\ c.head \in Nat /\ c.unacked \in Nat /\ c.tx_q \in Seq(Unit) /\ c.armed \in SUBSET Timer
      /\ TxWin \in Nat
  BY <1>1, ChanNumbers, Numbers
<1>3. a \in Nat /\ b \in Nat
  <2>1. c.head <= Len(c.tx_q) /\ c.unacked <= TxWin /\ Len(c.tx_q) \in Nat
    BY <1>1, <1>2 DEF TxInv
  <2> QED
    BY <1>2, <2>1
<1> HIDE DEF a, b
<1>4. Min({a, b}) = m /\ m \in Nat /\ m <= a /\ m <= b
  BY <1>3, MinOfTwo
<1> HIDE DEF m
<1>5. k \in Nat /\ (k # 0 => k = m /\ c.up /\ ~c.remote_busy /\ c.tx_state = "XMIT")
  BY <1>4
<1>6. d = IF k <= 0 THEN c ELSE set_retrans_timer(SendMany(c, k))
  BY DEF ertm_send, SendMany, k, a, b
<1> HIDE DEF k
<1>7. CASE k = 0
  <2>1. d = c
    BY <1>6, <1>7
  <2> QED
    BY <2>1 DEF Keeps, SameRx, SameState
<1>8. CASE k # 0
  <2> DEFINE e == SendMany(c, k)
             armed == c.armed \cup {"retrans"}
  <2>1. d = set_retrans_timer(e)
    BY <1>5, <1>6, <1>8
  <2>2. k <= Len(c.tx_q) - c.head /\ k <= TxWin - c.unacked
    BY <1>4, <1>5, <1>8 DEF a, b
  <2>3. /\ e \in Chan /\ TxInv(e) /\ RxInv(e) /\ Keeps(c, e) /\ SameState(c, e)
        /\ e.armed = c.armed /\ e.send_fbit = FALSE
        /\ calm => \A i \in DOMAIN e.out : e.out[i].super # "RNR"
    BY <1>5, <1>8, <2>2, SendsMany
  <2> HIDE DEF e
  <2>4. c.up /\ c.tx_state = "XMIT" /\ "monitor" \notin c.armed
    BY <1>1, <1>5, <1>8 DEF Timed
  <2>5. armed \in SUBSET Timer /\ "retrans" \in armed /\ "monitor" \notin armed
    BY <1>2, <2>4 DEF Timer
  <2>6. d = PutTimers(e, armed)
    BY <2>1, <2>3, <2>4 DEF set_retrans_timer, PutTimers
  <2> HIDE DEF armed
  <2>7. /\ d \in Chan /\ SameRx(e, d) /\ SameTx(e, d) /\ SameState(e, d)
        /\ d.armed = armed /\ d.out = e.out /\ d.tx_q = e.tx_q
        /\ d.last_acked_seq = e.last_acked_seq
    BY <2>3, <2>5, <2>6, TimersFields
  <2>8. Keeps(e, d)
    BY <2>7 DEF Keeps, SameState
  <2>9. RxInv(d) /\ TxInv(d) /\ Keeps(c, d)
    BY <2>3, <2>7, <2>8, RxKept, TxKept, KeepsAll
  <2>10. SameState(c, d)
    BY <2>3, <2>7 DEF SameState
  <2>11. Timed(d)
    BY <2>4, <2>5, <2>7, <2>10 DEF Timed, Timers, SameState
  <2>12. calm => Calm(d)
    BY <2>3, <2>5, <2>7, <2>9, <2>10 DEF Good, Calm, Timers, Keeps, SameRx, SameState
  <2> QED
    BY <2>7, <2>9, <2>10, <2>11, <2>12 DEF Good
<1> QED
  BY <1>7, <1>8

-----------------------------------------------------------------------------
(* Sending again *)

LEMMA MinIs ==
    ASSUME NEW T, T \subseteq Nat, T # {}
    PROVE  Min(T) \in T /\ \A y \in T : Min(T) <= y
  BY Least DEF Min

LEMMA FindIs ==
    ASSUME NEW S, NEW q \in Seq(S), NEW txseq
    PROVE  /\ Find(q, txseq) \in 0 .. Len(q)
           /\ Find(q, txseq) # 0 => /\ Find(q, txseq) \in DOMAIN q
                                    /\ q[Find(q, txseq)].txseq = txseq
           /\ Find(q, txseq) = 0 => \A i \in DOMAIN q : q[i].txseq # txseq
<1> DEFINE I == {i \in 1 .. Len(q) : q[i].txseq = txseq}
<1>1. Find(q, txseq) = IF I # {} THEN Min(I) ELSE 0
  BY DEF Find, SelectInSeq
<1>2. Len(q) \in Nat /\ DOMAIN q = 1 .. Len(q) /\ I \subseteq Nat /\ I \subseteq 1 .. Len(q)
  OBVIOUS
<1>3. \A i \in I : q[i].txseq = txseq
  OBVIOUS
<1>4. \A i \in 1 .. Len(q) : q[i].txseq = txseq => i \in I
  OBVIOUS
<1> HIDE DEF I
<1>5. CASE I = {}
  BY <1>1, <1>2, <1>4, <1>5
<1>6. CASE I # {}
  <2>1. Find(q, txseq) \in I
    BY <1>1, <1>2, <1>6, MinIs
  <2>2. Find(q, txseq) \in 1 .. Len(q)
    BY <1>2, <2>1
  <2>3. Find(q, txseq) # 0 /\ Find(q, txseq) \in 0 .. Len(q)
    BY <1>2, <2>2
  <2> QED
    BY <1>2, <1>3, <2>1, <2>2, <2>3
<1> QED
  BY <1>5, <1>6

PutResent(c, out, tx_q, fbit, acked) ==
    [c EXCEPT !.out = out, !.tx_q = tx_q, !.send_fbit = fbit, !.last_acked_seq = acked]

LEMMA ResentFields ==
    ASSUME NEW c \in Chan, NEW out \in Seq(Frame), NEW tx_q \in Seq(Unit),
           NEW fbit \in BOOLEAN, NEW acked \in Number, Len(tx_q) = Len(c.tx_q),
           NEW d, d = PutResent(c, out, tx_q, fbit, acked)
    PROVE  /\ d \in Chan /\ SameRx(c, d) /\ SameTx(c, d) /\ SameState(c, d)
           /\ d.out = out /\ d.tx_q = tx_q /\ d.last_acked_seq = acked /\ d.armed = c.armed
  BY DEF Chan, SameRx, SameTx, SameState, PutResent

LEMMA ResendsOne ==
    ASSUME NEW calm \in BOOLEAN, NEW c, Good(calm, c), NEW seq \in Number,
           NEW d, d = ResendOne(c, seq)
    PROVE  /\ Good(calm, d) /\ Keeps(c, d) /\ SameTx(c, d)
           /\ d.remote_busy = c.remote_busy /\ d.tx_state = c.tx_state
<1> DEFINE i == Find(c.tx_q, seq)
           limit == c.max_tx # 0 /\ c.tx_q[i].retries + 1 > c.max_tx
           f == IFrame(seq, c.tx_q[i].sdu, c.buffer_seq, c.send_fbit)
           out == Append(c.out, f)
           u == [c.tx_q[i] EXCEPT !.retries = Count(c, @)]
           tx_q == [c.tx_q EXCEPT ![i] = u]
           no == FALSE
           acked == c.buffer_seq
<1>1. c \in Chan
  BY DEF Good
<1>2. /\ c.tx_q \in Seq(Unit) /\ c.out \in Seq(Frame) /\ c.buffer_seq \in Number
      /\ c.send_fbit \in BOOLEAN /\ c.max_tx \in Nat
  BY <1>1, ChanNumbers
<1>3. CASE ~c.up \/ i = 0
  <2>1. d = c
    BY <1>3 DEF ResendOne
  <2> QED
    BY <2>1 DEF Keeps, SameRx, SameTx
<1>4. CASE ~(~c.up \/ i = 0) /\ limit
  <2>1. d = send_disconn_req(c)
    BY <1>4 DEF ResendOne
  <2>2. d.remote_busy = c.remote_busy /\ d.tx_state = c.tx_state
    BY <1>1, <2>1 DEF send_disconn_req, Chan
  <2> QED
    BY <2>1, <2>2, Disconnects
<1>5. CASE ~(~c.up \/ i = 0) /\ ~limit
  <2>1. i \in DOMAIN c.tx_q /\ i # 0
    BY <1>2, <1>5, FindIs
  <2>2. d = PutResent(c, out, tx_q, no, acked)
    BY <1>5 DEF ResendOne, PutResent
  <2>3. c.tx_q[i] \in Unit
    BY <1>2, <2>1
  <2> HIDE DEF i
  <2>4. f \in Frame /\ f.super = "I"
    <3>1. c.tx_q[i].sdu \in Nat /\ FALSE \in BOOLEAN
      BY <2>3 DEF Unit
    <3> QED
      BY <1>2, <3>1 DEF IFrame, Frame
  <2>5. u \in Unit
    <3>1. c.tx_q[i].retries \in Nat
      BY <2>3 DEF Unit
    <3>2. Count(c, c.tx_q[i].retries) \in Nat
      BY <3>1 DEF Count
    <3> QED
      BY <2>3, <3>2 DEF Unit
  <2> HIDE DEF f, u
  <2>6. tx_q \in Seq(Unit) /\ Len(tx_q) = Len(c.tx_q)
    BY <1>2, <2>1, <2>5
  <2>7. out \in Seq(Frame)
    BY <1>2, <2>4
  <2>8. (\A j \in DOMAIN c.out : c.out[j].super # "RNR") =>
            \A j \in DOMAIN out : out[j].super # "RNR"
    BY <1>2, <2>4
  <2>9. no \in BOOLEAN /\ acked \in Number
    BY <1>2
  <2> HIDE DEF out, tx_q, no
  <2>10. /\ d \in Chan /\ SameRx(c, d) /\ SameTx(c, d) /\ SameState(c, d)
         /\ d.out = out /\ d.tx_q = tx_q /\ d.last_acked_seq = acked /\ d.armed = c.armed
    <3> HIDE DEF acked
    <3> QED
      BY <1>1, <2>2, <2>6, <2>7, <2>9, ResentFields, SMT
  <2>11. Keeps(c, d)
    BY <2>10 DEF Keeps, SameState
  <2>12. RxInv(d) /\ TxInv(d)
    BY <1>1, <2>10, <2>11, RxKept, TxKept DEF Good
  <2>13. d.up => Timed(d)
    BY <2>10 DEF Timed, Timers, SameState, Good
  <2>14. calm => Calm(d)
    BY <2>8, <2>10 DEF Good, Calm, Timers, SameRx, SameTx, SameState
  <2> QED
    BY <2>10, <2>11, <2>12, <2>13, <2>14 DEF Good, SameState
<1> QED
  BY <1>3, <1>4, <1>5

LEMMA Resends ==
    ASSUME NEW calm \in BOOLEAN, NEW c, Good(calm, c), NEW seqs \in Seq(Number),
           NEW d, d = ertm_resend(c, seqs)
    PROVE  /\ Good(calm, d) /\ Keeps(c, d) /\ SameTx(c, d)
           /\ d.remote_busy = c.remote_busy /\ d.tx_state = c.tx_state
<1> DEFINE n == Len(seqs)
           Hits(e) == /\ Good(calm, e) /\ Keeps(c, e) /\ SameTx(c, e)
                      /\ e.remote_busy = c.remote_busy /\ e.tx_state = c.tx_state
           C == {e \in Chan : Hits(e)}
           F == [e \in C |-> [j \in 1 .. n |-> ResendOne(e, seqs[j])]]
           done == CHOOSE g : g = [j \in 0 .. n |-> IF j = 0 THEN c
                                                    ELSE ResendOne(g[j - 1], seqs[j])]
<1>1. Hits(c)
  BY DEF Keeps, SameRx, SameTx
<1>2. CASE c.remote_busy
  <2>1. d = c
    BY <1>2 DEF ertm_resend
  <2> QED
    BY <1>1, <2>1
<1>3. CASE ~c.remote_busy
  <2>1. n \in Nat /\ \A j \in 1 .. n : seqs[j] \in Number
    OBVIOUS
  <2>2. d = done[n]
    BY <1>3 DEF ertm_resend, InTurn
  <2>3. c \in C
    BY <1>1 DEF Good
  <2>4. ASSUME NEW e \in C, NEW j \in 1 .. n PROVE ResendOne(e, seqs[j]) \in C
    <3> DEFINE x == ResendOne(e, seqs[j])
    <3>1. Hits(e) /\ seqs[j] \in Number
      BY <2>1
    <3>2. /\ Good(calm, x) /\ Keeps(e, x) /\ SameTx(e, x)
          /\ x.remote_busy = e.remote_busy /\ x.tx_state = e.tx_state
      BY <3>1, ResendsOne
    <3> HIDE DEF x
    <3>3. Keeps(c, x)
      BY <3>1, <3>2, KeepsAll
    <3>4. SameTx(c, x)
      BY <3>1, <3>2 DEF SameTx
    <3>5. x \in Chan
      BY <3>2 DEF Good
    <3> QED
      BY <3>1, <3>2, <3>3, <3>4, <3>5 DEF x
  <2>5. F \in [C -> [1 .. n -> C]] /\ \A e \in C, j \in 1 .. n : F[e][j] = ResendOne(e, seqs[j])
    <3> HIDE DEF C
    <3> QED
      BY <2>4
  <2> HIDE DEF C, F, n, Fit, done
  <2>a. n \in Nat /\ c \in C /\ F \in Steps(n, C)
    BY <2>1, <2>3, <2>5 DEF Steps
  <2>b. PICK g : Leads(g, n, C, c, F)
    BY <2>a, TurnsExist
  <2>6. g \in [0 .. n -> C] /\ g[0] = c /\ \A j \in 1 .. n : g[j] = F[g[j - 1]][j]
    BY <2>b DEF Leads
  <2>7. g = [j \in 0 .. n |-> IF j = 0 THEN c ELSE ResendOne(g[j - 1], seqs[j])]
    <3>1. ASSUME NEW j \in 0 .. n
          PROVE  g[j] = IF j = 0 THEN c ELSE ResendOne(g[j - 1], seqs[j])
      <4>1. CASE j = 0
        BY <2>6, <4>1
      <4>2. CASE j # 0
        <5>1. j \in 1 .. n /\ j - 1 \in 0 .. n
          BY <2>1, <4>2
        <5> QED
          BY <2>5, <2>6, <4>2, <5>1
      <4> QED
        BY <4>1, <4>2
    <3>2. g = [j \in 0 .. n |-> g[j]]
      BY <2>6
    <3> QED
      BY <3>1, <3>2
  <2>8. done = [j \in 0 .. n |-> IF j = 0 THEN c ELSE ResendOne(done[j - 1], seqs[j])]
    <3> DEFINE Is(h) == h = [j \in 0 .. n |-> IF j = 0 THEN c
                                              ELSE ResendOne(h[j - 1], seqs[j])]
    <3>1. \E h : Is(h)
      BY <2>7
    <3>2. done = CHOOSE h : Is(h)
      BY DEF done
    <3> HIDE DEF Is, done
    <3>3. Is(done)
      BY <3>1, <3>2
    <3> QED
      BY <3>3 DEF Is
  <2> HIDE DEF done
  <2>9. done[0] \in C
    BY <2>1, <2>3, <2>8
  <2>10. ASSUME NEW j \in 1 .. n, done[j - 1] \in C PROVE done[j] \in C
    <3>1. j \in 0 .. n /\ j # 0
      BY <2>1
    <3>2. done[j] = ResendOne(done[j - 1], seqs[j])
      BY <2>8, <3>1
    <3> QED
      BY <2>4, <2>10, <3>2
  <2>11. done[n] \in C
    BY <2>1, <2>9, <2>10, TurnsHold
  <2> QED
    BY <2>2, <2>11 DEF C, Fit
<1> QED
  BY <1>2, <1>3

LEMMA Retransmits ==
    ASSUME NEW calm \in BOOLEAN, NEW c, Good(calm, c), NEW reqseq \in Number,
           NEW d, d = retransmit(c, reqseq)
    PROVE  /\ Good(calm, d) /\ Keeps(c, d) /\ SameTx(c, d)
           /\ d.remote_busy = c.remote_busy /\ d.tx_state = c.tx_state
<1>1. <<reqseq>> \in Seq(Number)
  OBVIOUS
<1> QED
  BY <1>1, Resends DEF retransmit

LEMMA RetransmitsAll ==
    ASSUME NEW calm \in BOOLEAN, NEW c, Good(calm, c), NEW reqseq \in Number,
           NEW d, d = retransmit_all(c, reqseq)
    PROVE  /\ Good(calm, d) /\ Keeps(c, d) /\ SameTx(c, d)
           /\ d.remote_busy = c.remote_busy /\ d.tx_state = c.tx_state
<1> DEFINE q == SubSeq(c.tx_q, 1, c.head)
           i == Find(q, reqseq)
           n == c.head - i + 1
           seqs == [j \in 1 .. n |-> c.tx_q[i + j - 1].txseq]
<1>1. CASE c.unacked = 0 \/ i = 0
  <2>1. d = c
    BY <1>1 DEF retransmit_all
  <2> QED
    BY <2>1 DEF Keeps, SameRx, SameTx
<1>2. CASE ~(c.unacked = 0 \/ i = 0)
  <2>1. d = ertm_resend(c, seqs)
    BY <1>2 DEF retransmit_all
  <2>2. c.tx_q \in Seq(Unit) /\ c.head \in Nat /\ c.head <= Len(c.tx_q) /\ Len(c.tx_q) \in Nat
    BY ChanNumbers DEF Good, TxInv
  <2>3. q \in Seq(Unit) /\ Len(q) = c.head
    BY <2>2
  <2> HIDE DEF q
  <2>4. i \in 0 .. c.head
    BY <2>3, FindIs
  <2> HIDE DEF i
  <2>5. n \in Nat /\ i >= 1 /\ i \in Nat /\ \A j \in 1 .. n : i + j - 1 \in 1 .. Len(c.tx_q)
    BY <1>2, <2>2, <2>4
  <2>6. ASSUME NEW j \in 1 .. n PROVE c.tx_q[i + j - 1].txseq \in Number
    <3>1. c.tx_q[i + j - 1] \in Unit
      BY <2>2, <2>5
    <3> QED
      BY <3>1 DEF Unit
  <2> HIDE DEF n
  <2>7. seqs \in [1 .. n -> Number]
    BY <2>6
  <2> HIDE DEF seqs
  <2>8. seqs \in Seq(Number)
    BY <2>5, <2>7
  <2> QED
    BY <2>1, <2>8, Resends
<1> QED
  BY <1>1, <1>2

\* An RR or RNR frame.
LEMMA Reports ==
    ASSUME NEW calm \in BOOLEAN, NEW c, Good(calm, c), NEW poll \in BOOLEAN,
           NEW d, d = send_rr_or_rnr(c, poll)
    PROVE  /\ Good(calm, d) /\ Keeps(c, d) /\ SameTx(c, d) /\ SameState(c, d)
           /\ d.tx_q = c.tx_q
<1> DEFINE super == IF c.local_busy THEN "RNR" ELSE "RR"
           no == FALSE
<1>1. c \in Chan /\ c.buffer_seq \in Number
  BY ChanNumbers DEF Good
<1>2. super \in {"RR", "RNR", "SREJ"} /\ super # "SREJ" /\ no \in BOOLEAN
  OBVIOUS
<1>3. calm => super # "RNR"
  BY DEF Good, Calm
<1>4. d = send_sframe(c, super, poll, no, c.buffer_seq)
  BY DEF send_rr_or_rnr
<1> HIDE DEF super, no
<1> QED
  BY <1>1, <1>2, <1>3, <1>4, Sframes, SMTT(30)

\* A timer for an acknowledgement.
LEMMA AckStarts ==
    ASSUME NEW calm \in BOOLEAN, NEW c, Good(calm, c),
           NEW d, d = PutTimers(c, c.armed \cup {"ack"})
    PROVE  Good(calm, d) /\ Keeps(c, d) /\ SameTx(c, d) /\ SameState(c, d)
<1> DEFINE armed == c.armed \cup {"ack"}
<1>1. c \in Chan /\ c.armed \in SUBSET Timer /\ (c.up => Timed(c))
      /\ c.tx_state \in {"XMIT", "WAIT_F"}
  BY ChanNumbers DEF Good
<1>2. armed \in SUBSET Timer /\ ("monitor" \in armed <=> "monitor" \in c.armed)
      /\ ("retrans" \in armed <=> "retrans" \in c.armed)
  BY <1>1 DEF Timer
<1>3. d = PutTimers(c, armed)
  OBVIOUS
<1> HIDE DEF armed
<1>4. c.up /\ c.tx_state = "XMIT" => "monitor" \notin armed
  BY <1>1, <1>2 DEF Timed
<1>5. c.up => \/ c.tx_state = "WAIT_F" /\ ("monitor" \in armed \/ "monitor" \notin c.armed)
              \/ c.tx_state = "XMIT" /\ "monitor" \notin armed
  BY <1>1, <1>2, <1>4
<1>6. calm /\ c.up /\ c.tx_state = "XMIT" /\ c.unacked > 0 =>
          "retrans" \in armed \/ "retrans" \notin c.armed
  BY <1>2
<1> QED
  BY <1>2, <1>3, <1>5, <1>6, TimersGood

LEMMA Acks ==
    ASSUME NEW calm \in BOOLEAN, NEW c, Good(calm, c), NEW d, d = send_ack(c)
    PROVE  Good(calm, d) /\ Keeps(c, d) /\ SameState(c, d)
<1> DEFINE c1 == ertm_send(c)
           frames_to_ack ==
                 IF ~c.remote_busy /\ c1.buffer_seq = c1.last_acked_seq THEN 0
                 ELSE offset(c.buffer_seq, c.last_acked_seq)
           no == FALSE
<1>1. c \in Chan /\ c.buffer_seq \in Number
  BY ChanNumbers DEF Good
<1>2. Good(calm, c1) /\ Keeps(c, c1) /\ SameState(c, c1)
  BY Sends
<1>3. c1.buffer_seq \in Number /\ no \in BOOLEAN
  BY <1>2, ChanNumbers DEF Good
<1>4. CASE c.local_busy /\ c.rx_state = "RECV"
  <2>1. d = send_sframe(c, "RNR", no, no, c.buffer_seq)
    BY <1>4 DEF send_ack
  <2>2. ~calm
    BY <1>4 DEF Good, Calm
  <2> HIDE DEF no
  <2> QED
    BY <1>1, <1>3, <2>1, <2>2, Sframes
<1>5. CASE ~(c.local_busy /\ c.rx_state = "RECV") /\ frames_to_ack >= (TxWin * 3) \div 4
  <2>1. d = send_sframe(c1, "RR", no, no, c1.buffer_seq)
    BY <1>5 DEF send_ack
  <2> HIDE DEF no, c1
  <2>2. Good(calm, d) /\ Keeps(c1, d) /\ SameState(c1, d)
    BY <1>2, <1>3, <2>1, Sframes
  <2>3. Keeps(c, d)
    BY <1>2, <2>2, KeepsAll
  <2> QED
    BY <1>2, <2>2, <2>3 DEF SameState
<1>6. CASE ~(c.local_busy /\ c.rx_state = "RECV") /\ ~(frames_to_ack >= (TxWin * 3) \div 4)
  <2>1. d = IF frames_to_ack > 0 THEN [c1 EXCEPT !.armed = @ \cup {"ack"}] ELSE c1
    BY <1>6 DEF send_ack
  <2> HIDE DEF c1, frames_to_ack
  <2>2. CASE frames_to_ack > 0
    <3>1. d = PutTimers(c1, c1.armed \cup {"ack"})
      BY <2>1, <2>2 DEF PutTimers
    <3>2. Good(calm, d) /\ Keeps(c1, d) /\ SameState(c1, d)
      BY <1>2, <3>1, AckStarts
    <3>3. Keeps(c, d)
      BY <1>2, <3>2, KeepsAll
    <3> QED
      BY <1>2, <3>2, <3>3 DEF SameState
  <2>3. CASE ~(frames_to_ack > 0)
    BY <1>2, <2>1, <2>3
  <2> QED
    BY <2>2, <2>3
<1> QED
  BY <1>4, <1>5, <1>6

-----------------------------------------------------------------------------
(* What is acknowledged *)

LEMMA OffsetSplits ==
    ASSUME NEW a \in Number, NEW b \in Number, NEW c \in Number, offset(a, b) <= offset(a, c)
    PROVE  offset(a, c) = offset(a, b) + offset(b, c)
<1> DEFINE x == offset(a, b)
           y == offset(b, c)
           z == offset(a, c)
<1>1. /\ Modulus \in Nat /\ Modulus > 1
      /\ a \in Nat /\ a < Modulus /\ b \in Nat /\ b < Modulus /\ c \in Nat /\ c < Modulus
  BY Numbers
<1>2. /\ x = IF a >= b THEN a - b ELSE a - b + Modulus
      /\ y = IF b >= c THEN b - c ELSE b - c + Modulus
      /\ z = IF a >= c THEN a - c ELSE a - c + Modulus
  BY OffsetIs
<1>3. x <= z
  OBVIOUS
<1> HIDE DEF x, y, z
<1>4. z = x + y
  BY <1>1, <1>2, <1>3
<1> QED
  BY <1>4 DEF x, y, z

PutAcked(c, tx_q, head, acked, armed) ==
    [c EXCEPT !.tx_q = tx_q, !.head = head, !.unacked = head, !.expected_ack_seq = acked,
              !.armed = armed]

LEMMA AckedFields ==
    ASSUME NEW c \in Chan, NEW tx_q \in Seq(Unit), NEW head \in Nat, NEW acked \in Number,
           NEW armed \in SUBSET Timer, NEW d, d = PutAcked(c, tx_q, head, acked, armed)
    PROVE  /\ d \in Chan /\ SameRx(c, d) /\ SameState(c, d)
           /\ d.tx_q = tx_q /\ d.head = head /\ d.unacked = head
           /\ d.next_tx_seq = c.next_tx_seq /\ d.expected_ack_seq = acked
           /\ d.armed = armed /\ d.last_acked_seq = c.last_acked_seq /\ d.out = c.out
  BY DEF Chan, SameRx, SameState, PutAcked

LEMMA Acknowledged ==
    ASSUME NEW calm \in BOOLEAN, NEW c, Good(calm, c), NEW reqseq \in Number,
           valid_reqseq(c, reqseq), NEW d, d = process_reqseq(c, reqseq)
    PROVE  /\ Good(calm, d) /\ Keeps(c, d) /\ SameState(c, d) /\ d.next_tx_seq = c.next_tx_seq
           /\ d.last_acked_seq = c.last_acked_seq
<1> DEFINE k == offset(reqseq, c.expected_ack_seq)
           tx_q == SubSeq(c.tx_q, k + 1, Len(c.tx_q))
           head == c.head - k
           armed == IF head = 0 THEN c.armed \ {"retrans"} ELSE c.armed
<1>1. c \in Chan /\ TxInv(c) /\ (c.up => Timed(c))
  BY DEF Good
<1>2. /\ c.next_tx_seq \in Number /\ c.expected_ack_seq \in Number /\ c.head \in Nat
      /\ c.tx_q \in Seq(Unit) /\ c.armed \in SUBSET Timer
  BY <1>1, ChanNumbers
<1>3. /\ c.head = c.unacked /\ c.head <= Len(c.tx_q) /\ Len(c.tx_q) \in Nat
      /\ c.unacked <= TxWin /\ offset(c.next_tx_seq, c.expected_ack_seq) = c.unacked
  BY <1>1, <1>2 DEF TxInv
<1>4. k \in Nat /\ offset(c.next_tx_seq, reqseq) \in Nat
  BY <1>2, OffsetIs, Numbers
<1>5. offset(c.next_tx_seq, c.expected_ack_seq) = offset(c.next_tx_seq, reqseq) + k
  BY <1>2, OffsetSplits DEF valid_reqseq
<1> HIDE DEF k
<1>6. head \in Nat /\ offset(c.next_tx_seq, reqseq) = head /\ k <= Len(c.tx_q)
  BY <1>2, <1>3, <1>4, <1>5
<1>7. CASE c.unacked = 0 \/ k = 0
  <2>1. d = c
    BY <1>7 DEF process_reqseq, k
  <2> QED
    BY <2>1 DEF Keeps, SameRx, SameState
<1>8. CASE ~(c.unacked = 0 \/ k = 0)
  <2>1. d = PutAcked(c, tx_q, head, reqseq, armed)
    <3> DEFINE c1 == [c EXCEPT !.tx_q = tx_q, !.head = head, !.unacked = head,
                               !.expected_ack_seq = reqseq]
    <3>1. d = IF c1.unacked = 0 THEN [c1 EXCEPT !.armed = c1.armed \ {"retrans"}] ELSE c1
      BY <1>3, <1>8 DEF process_reqseq, clear_timer, k
    <3> HIDE DEF tx_q, head
    <3> QED
      BY <1>1, <3>1 DEF Chan, PutAcked
  <2>2. tx_q \in Seq(Unit) /\ Len(tx_q) = Len(c.tx_q) - k
    BY <1>2, <1>3, <1>4, <1>6
  <2>3. armed \in SUBSET Timer /\ ("monitor" \in armed <=> "monitor" \in c.armed)
        /\ (head > 0 /\ "retrans" \in c.armed => "retrans" \in armed)
    BY <1>2, <1>6
  <2>4. head <= Len(c.tx_q) - k /\ head <= TxWin /\ (head > 0 => c.unacked > 0)
    <3>1. TxWin \in Nat /\ c.unacked \in Nat /\ c.head = c.unacked /\ c.head <= Len(c.tx_q)
          /\ Len(c.tx_q) \in Nat /\ c.unacked <= TxWin /\ k \in Nat
      BY <1>2, <1>3, <1>4, Numbers
    <3> HIDE DEF tx_q, armed
    <3> QED
      BY <3>1
  <2> HIDE DEF tx_q, head, armed
  <2>5. /\ d \in Chan /\ SameRx(c, d) /\ SameState(c, d)
        /\ d.tx_q = tx_q /\ d.head = head /\ d.unacked = head
        /\ d.next_tx_seq = c.next_tx_seq /\ d.expected_ack_seq = reqseq
        /\ d.armed = armed /\ d.last_acked_seq = c.last_acked_seq /\ d.out = c.out
    BY <1>1, <1>6, <2>1, <2>2, <2>3, AckedFields, SMT
  <2>6. Keeps(c, d)
    BY <2>5 DEF Keeps, SameState
  <2>7. RxInv(d)
    BY <1>1, <2>5, <2>6, RxKept DEF Good
  <2>8. TxInv(d)
    BY <1>6, <2>2, <2>4, <2>5 DEF TxInv
  <2>9. d.up => Timed(d)
    BY <1>1, <2>3, <2>5 DEF Timed, Timers, SameState
  <2>10. calm => Calm(d)
    BY <2>3, <2>4, <2>5 DEF Good, Calm, Timers, SameRx, SameState
  <2> QED
    BY <2>5, <2>6, <2>7, <2>8, <2>9, <2>10 DEF Good
<1> QED
  BY <1>7, <1>8

LEMMA FbitPasses ==
    ASSUME NEW calm \in BOOLEAN, NEW c, Good(calm, c), NEW final \in BOOLEAN,
           NEW d, d = pass_to_tx_fbit(c, final)
    PROVE  /\ Good(calm, d) /\ Keeps(c, d) /\ SameTx(c, d)
           /\ d.last_acked_seq = c.last_acked_seq
<1> DEFINE cleared == c.armed \ {"monitor"}
           armed == IF c.unacked > 0 THEN cleared \cup {"retrans"} ELSE cleared
<1>1. c \in Chan /\ c.armed \in SUBSET Timer
  BY ChanNumbers DEF Good
<1>2. CASE ~(c.tx_state = "WAIT_F" /\ final)
  <2>1. d = c
    BY <1>2 DEF pass_to_tx_fbit
  <2> QED
    BY <2>1 DEF Keeps, SameRx, SameTx
<1>3. CASE c.tx_state = "WAIT_F" /\ final
  <2>1. armed \in SUBSET Timer /\ "monitor" \notin armed
        /\ (c.unacked > 0 => "retrans" \in armed) /\ "monitor" \notin cleared
    BY <1>1 DEF Timer
  <2>2. d = PutPoll(c, armed, 0, "XMIT")
    <3> DEFINE c1 == [c EXCEPT !.armed = cleared]
               c2 == IF c.unacked > 0 THEN [c1 EXCEPT !.armed = c1.armed \cup {"retrans"}] ELSE c1
    <3>1. c1.armed = cleared
      BY <1>1 DEF Chan
    <3>2. c2 = IF c.unacked > 0 THEN set_retrans_timer(c1) ELSE c1
      BY <2>1, <3>1 DEF set_retrans_timer
    <3>3. d = [c2 EXCEPT !.retry_count = 0, !.tx_state = "XMIT"]
      BY <1>3, <3>2 DEF pass_to_tx_fbit, clear_timer
    <3> HIDE DEF cleared
    <3> QED
      BY <1>1, <3>3 DEF Chan, PutPoll
  <2> HIDE DEF armed
  <2> QED
    BY <2>1, <2>2, PollGood
<1> QED
  BY <1>2, <1>3

LEMMA PassesToTx ==
    ASSUME NEW calm \in BOOLEAN, NEW c, Good(calm, c), NEW f \in Frame,
           valid_reqseq(c, f.reqseq), NEW d, d = pass_to_tx(c, f)
    PROVE  /\ Good(calm, d) /\ Keeps(c, d) /\ d.next_tx_seq = c.next_tx_seq
           /\ d.last_acked_seq = c.last_acked_seq
<1> DEFINE e == process_reqseq(c, f.reqseq)
<1>1. f.reqseq \in Number /\ f.final \in BOOLEAN
  BY DEF Frame
<1>2. /\ Good(calm, e) /\ Keeps(c, e) /\ e.next_tx_seq = c.next_tx_seq
      /\ e.last_acked_seq = c.last_acked_seq
  BY <1>1, Acknowledged
<1>3. d = pass_to_tx_fbit(e, f.final)
  BY DEF pass_to_tx
<1> HIDE DEF e
<1>4. /\ Good(calm, d) /\ Keeps(e, d) /\ d.next_tx_seq = e.next_tx_seq
      /\ d.last_acked_seq = e.last_acked_seq
  BY <1>1, <1>2, <1>3, FbitPasses DEF SameTx
<1>5. Keeps(c, d)
  BY <1>2, <1>4, KeepsAll
<1> QED
  BY <1>2, <1>4, <1>5

-----------------------------------------------------------------------------
(* What is stored and rejected *)

PutRx(c, expected, buffer, srej_q, srej_list, rx_state, act) ==
    [c EXCEPT !.expected_tx_seq = expected, !.buffer_seq = buffer, !.srej_q = srej_q,
              !.srej_list = srej_list, !.rx_state = rx_state, !.srej_act = act]

RxIs(c, expected, buffer, srej_q, srej_list, rx_state) ==
    /\ c.expected_tx_seq = expected /\ c.buffer_seq = buffer /\ c.srej_q = srej_q
    /\ c.srej_list = srej_list /\ c.rx_state = rx_state

RxStates == {"RECV", "SREJ_SENT"}

LEMMA FitRx ==
    ASSUME NEW calm \in BOOLEAN, NEW c, Fit(calm, c),
           NEW expected \in Number, NEW buffer \in Number,
           NEW srej_q \in SUBSET Frames, NEW srej_list \in Seq(Number),
           NEW rx_state \in RxStates, NEW act \in BOOLEAN,
           NEW d, d = PutRx(c, expected, buffer, srej_q, srej_list, rx_state, act)
    PROVE  /\ Fit(calm, d) /\ RxIs(d, expected, buffer, srej_q, srej_list, rx_state)
           /\ d.last_acked_seq = c.last_acked_seq /\ SameTx(c, d) /\ SameState(c, d)
           /\ d.local_busy = c.local_busy /\ d.full = c.full /\ d.got = c.got
           /\ d.srej_act = act
<1>1. c \in Chan
  BY DEF Fit
<1>2. /\ d \in Chan /\ RxIs(d, expected, buffer, srej_q, srej_list, rx_state)
      /\ SameTx(c, d) /\ SameState(c, d) /\ d.last_acked_seq = c.last_acked_seq
      /\ d.local_busy = c.local_busy /\ d.full = c.full /\ d.got = c.got
      /\ d.armed = c.armed /\ d.out = c.out /\ d.tx_q = c.tx_q /\ d.srej_act = act
  BY <1>1 DEF Chan, RxIs, SameTx, SameState, PutRx, RxStates
<1>3. TxInv(d)
  BY <1>2, TxKept DEF Fit
<1>4. d.up => Timed(d)
  BY <1>2 DEF Fit, Timed, Timers, SameState
<1>5. calm => Calm(d)
  BY <1>2 DEF Fit, Calm, Timers, SameTx, SameState
<1> QED
  BY <1>2, <1>3, <1>4, <1>5 DEF Fit

\* A list of numbers rejected, none of which is stored: they are at most n after buffer.
ListFits(list, buffer, n, srej_q) ==
    /\ \A i \in DOMAIN list : offset(list[i], buffer) < n
    /\ \A i, j \in DOMAIN list : list[i] = list[j] => i = j
    /\ \A i \in DOMAIN list, f \in srej_q : list[i] # f.txseq

\* What is stored lies before expected_tx_seq, with numbers of its own; txseq is stored
\* behind a gap.
Gap(c, txseq) ==
    LET ahead(x) == offset(x, c.buffer_seq)
        end == ahead(c.expected_tx_seq)
        n == offset(txseq, c.expected_tx_seq)
    IN  /\ offset(c.buffer_seq, c.last_acked_seq) + end + n < TxWin
        /\ \E f \in c.srej_q : f.txseq = txseq
        /\ \A f \in c.srej_q : ahead(f.txseq) < end \/ f.txseq = txseq
        /\ \A f, g \in c.srej_q : f.txseq = g.txseq => f = g
        /\ ListFits(c.srej_list, c.buffer_seq, end, c.srej_q)

\* RxInv, whatever the state is.
RxRest(c) ==
    LET ahead(x) == offset(x, c.buffer_seq)
        end == ahead(c.expected_tx_seq)
    IN  /\ offset(c.buffer_seq, c.last_acked_seq) + end <= TxWin
        /\ \A f \in c.srej_q : ahead(f.txseq) < end
        /\ \A f, g \in c.srej_q : f.txseq = g.txseq => f = g
        /\ ListFits(c.srej_list, c.buffer_seq, end, c.srej_q)
        /\ end = 0 \/ \E f \in c.srej_q : next(f.txseq) = c.expected_tx_seq

LEMMA RxRestIs ==
    ASSUME NEW c
    PROVE  RxInv(c) <=> RxRest(c) /\ (c.rx_state = "RECV" => 
                                         offset(c.expected_tx_seq, c.buffer_seq) = 0)
  BY DEF RxInv, RxRest, ListFits

LEMMA ListGrows ==
    ASSUME NEW list \in Seq(Number), NEW seq \in Number, NEW buffer \in Number, NEW n \in Nat,
           NEW srej_q, ListFits(list, buffer, n, srej_q), offset(seq, buffer) < n,
           \A f \in srej_q : f.txseq # seq
    PROVE  /\ AppendSeq(list, seq) \in Seq(Number)
           /\ ListFits(AppendSeq(list, seq), buffer, n, srej_q)
<1>1. CASE Listed(list, seq)
  BY <1>1 DEF AppendSeq
<1>2. CASE ~Listed(list, seq)
  <2> DEFINE l == Append(list, seq)
  <2>1. AppendSeq(list, seq) = l
    BY <1>2 DEF AppendSeq
  <2>2. \A i \in DOMAIN list : list[i] # seq
    BY <1>2 DEF Listed
  <2>3. /\ l \in Seq(Number) /\ DOMAIN l = 1 .. Len(list) + 1 /\ DOMAIN list = 1 .. Len(list)
        /\ Len(list) \in Nat
        /\ \A i \in DOMAIN l : IF i = Len(list) + 1 THEN l[i] = seq
                               ELSE i \in DOMAIN list /\ l[i] = list[i]
    OBVIOUS
  <2> HIDE DEF l
  <2>4. ListFits(l, buffer, n, srej_q)
    BY <2>2, <2>3 DEF ListFits
  <2> QED
    BY <2>1, <2>3, <2>4
<1> QED
  BY <1>1, <1>2

\* One number is rejected.
Reject(c, d, j) ==
    LET seq == (c.expected_tx_seq + j - 1) % Modulus
    IN  IF \E f \in c.srej_q : f.txseq = seq THEN d
        ELSE [send_sframe(d, "SREJ", FALSE, FALSE, seq) EXCEPT !.srej_list = AppendSeq(@, seq)]

\* Between two rejects: only the list of c and what is sent has changed.
Rejecting(calm, c, n, d) ==
    /\ Fit(calm, d)
    /\ RxIs(d, c.expected_tx_seq, c.buffer_seq, c.srej_q, d.srej_list, c.rx_state)
    /\ d.last_acked_seq = c.last_acked_seq
    /\ ListFits(d.srej_list, c.buffer_seq, n, c.srej_q)

LEMMA RejectsOne ==
    ASSUME NEW calm \in BOOLEAN, NEW c \in Chan, NEW n \in Nat, NEW d, Rejecting(calm, c, n, d),
           NEW j \in Nat, offset((c.expected_tx_seq + j - 1) % Modulus, c.buffer_seq) < n,
           NEW x, x = Reject(c, d, j)
    PROVE  Rejecting(calm, c, n, x)
<1> DEFINE seq == (c.expected_tx_seq + j - 1) % Modulus
           no == FALSE
           y == send_sframe(d, "SREJ", no, no, seq)
           list == AppendSeq(y.srej_list, seq)
<1>1. CASE \E f \in c.srej_q : f.txseq = seq
  <2>1. x = d
    BY <1>1 DEF Reject
  <2> QED
    BY <2>1
<1>2. CASE ~ \E f \in c.srej_q : f.txseq = seq
  <2>1. x = [y EXCEPT !.srej_list = list]
    BY <1>2 DEF Reject
  <2>2. c.expected_tx_seq \in Number /\ c.buffer_seq \in Number
    BY ChanNumbers
  <2>3. c.expected_tx_seq + j - 1 \in Int
    BY <2>2, Numbers
  <2>4. seq \in Number /\ no \in BOOLEAN
    BY <2>3, Numbers
  <2>5. offset(seq, c.buffer_seq) < n
    OBVIOUS
  <2> HIDE DEF seq, no
  <2>6. Fit(calm, d) /\ "SREJ" \in {"RR", "RNR", "SREJ"}
    BY DEF Rejecting
  <2>7. Fit(calm, y) /\ Keeps(d, y) /\ y.last_acked_seq = d.last_acked_seq
    BY <2>4, <2>6, FitSframes
  <2> HIDE DEF y
  <2>8. y.srej_list = d.srej_list /\ y.expected_tx_seq = c.expected_tx_seq
        /\ y.buffer_seq = c.buffer_seq /\ y.srej_q = c.srej_q /\ y.rx_state = c.rx_state
        /\ y.last_acked_seq = c.last_acked_seq
    BY <2>7 DEF Rejecting, RxIs, Keeps, SameRx
  <2>9. /\ y \in Chan /\ y.expected_tx_seq \in Number /\ y.buffer_seq \in Number
        /\ y.srej_q \in SUBSET Frames /\ y.srej_list \in Seq(Number) /\ y.rx_state \in RxStates
        /\ y.srej_act \in BOOLEAN
    <3>1. y \in Chan
      BY <2>7 DEF Fit
    <3> QED
      BY <3>1, ChanNumbers DEF RxStates
  <2>10. list \in Seq(Number) /\ ListFits(list, c.buffer_seq, n, c.srej_q)
    BY <1>2, <2>2, <2>4, <2>5, <2>8, <2>9, ListGrows DEF Rejecting
  <2> HIDE DEF list
  <2>11. x = PutRx(y, y.expected_tx_seq, y.buffer_seq, y.srej_q, list, y.rx_state, y.srej_act)
    BY <2>1, <2>9 DEF PutRx, Chan
  <2>12. /\ Fit(calm, x) /\ x.last_acked_seq = y.last_acked_seq
         /\ RxIs(x, y.expected_tx_seq, y.buffer_seq, y.srej_q, list, y.rx_state)
    BY <2>7, <2>9, <2>10, <2>11, FitRx
  <2> QED
    BY <2>8, <2>10, <2>12 DEF Rejecting, RxIs
<1> QED
  BY <1>1, <1>2

RejectTurns(c, m) == InTurn(c, m, LAMBDA x, j : Reject(c, x, j))

LEMMA RejectsMany ==
    ASSUME NEW calm \in BOOLEAN, NEW c \in Chan, NEW n \in Nat, Rejecting(calm, c, n, c),
           NEW m \in Nat,
           \A j \in 1 .. m : offset((c.expected_tx_seq + j - 1) % Modulus, c.buffer_seq) < n,
           NEW d, d = RejectTurns(c, m)
    PROVE  Rejecting(calm, c, n, d)
<1> DEFINE C == {x \in Chan : Rejecting(calm, c, n, x)}
           F == [x \in C |-> [j \in 1 .. m |-> Reject(c, x, j)]]
           done == CHOOSE g : g = [j \in 0 .. m |-> IF j = 0 THEN c ELSE Reject(c, g[j - 1], j)]
<1>1. d = done[m]
  BY DEF RejectTurns, InTurn
<1>2. c \in C
  OBVIOUS
<1>3. ASSUME NEW x \in C, NEW j \in 1 .. m PROVE Reject(c, x, j) \in C
  <2> DEFINE y == Reject(c, x, j)
  <2>1. Rejecting(calm, c, n, y)
    BY RejectsOne
  <2>2. y \in Chan
    BY <2>1 DEF Rejecting, Fit
  <2> QED
    BY <2>1, <2>2
<1>4. F \in [C -> [1 .. m -> C]] /\ \A x \in C, j \in 1 .. m : F[x][j] = Reject(c, x, j)
  <2> HIDE DEF C
  <2> QED
    BY <1>3
<1> HIDE DEF C, F, done
<1>5. F \in Steps(m, C)
  BY <1>4 DEF Steps
<1>6. PICK g : Leads(g, m, C, c, F)
  BY <1>2, <1>5, TurnsExist
<1>7. g \in [0 .. m -> C] /\ g[0] = c /\ \A j \in 1 .. m : g[j] = F[g[j - 1]][j]
  BY <1>6 DEF Leads
<1>8. g = [j \in 0 .. m |-> IF j = 0 THEN c ELSE Reject(c, g[j - 1], j)]
  <2>1. ASSUME NEW j \in 0 .. m
        PROVE  g[j] = IF j = 0 THEN c ELSE Reject(c, g[j - 1], j)
    <3>1. CASE j = 0
      BY <1>7, <3>1
    <3>2. CASE j # 0
      <4>1. j \in 1 .. m /\ j - 1 \in 0 .. m
        BY <3>2
      <4> QED
        BY <1>4, <1>7, <3>2, <4>1
    <3> QED
      BY <3>1, <3>2
  <2>2. g = [j \in 0 .. m |-> g[j]]
    BY <1>7
  <2> QED
    BY <2>1, <2>2
<1>9. done = [j \in 0 .. m |-> IF j = 0 THEN c ELSE Reject(c, done[j - 1], j)]
  <2> DEFINE Is(h) == h = [j \in 0 .. m |-> IF j = 0 THEN c ELSE Reject(c, h[j - 1], j)]
  <2>1. \E h : Is(h)
    BY <1>8
  <2>2. done = CHOOSE h : Is(h)
    BY DEF done
  <2> HIDE DEF Is
  <2>3. Is(done)
    BY <2>1, <2>2
  <2> QED
    BY <2>3 DEF Is
<1>10. done[0] \in C
  BY <1>2, <1>9
<1>11. ASSUME NEW j \in 1 .. m, done[j - 1] \in C PROVE done[j] \in C
  <2>1. j \in 0 .. m /\ j # 0
    OBVIOUS
  <2>2. done[j] = Reject(c, done[j - 1], j)
    BY <1>9, <2>1
  <2> QED
    BY <1>3, <1>11, <2>2
<1>12. done[m] \in C
  BY <1>10, <1>11, TurnsHold
<1> QED
  BY <1>1, <1>12 DEF C

LEMMA Srejs ==
    ASSUME NEW calm \in BOOLEAN, NEW c, Fit(calm, c), NEW txseq \in Number, Gap(c, txseq),
           NEW d, d = send_srej(c, txseq)
    PROVE  Fit(calm, d) /\ RxRest(d) /\ d.rx_state = c.rx_state
<1> DEFINE m == offset(txseq, c.expected_tx_seq)
           end == offset(c.expected_tx_seq, c.buffer_seq)
           acked == offset(c.buffer_seq, c.last_acked_seq)
           n == end + m
           to == next(txseq)
           x == RejectTurns(c, m)
<1>1. /\ c \in Chan /\ c.expected_tx_seq \in Number /\ c.buffer_seq \in Number
      /\ c.last_acked_seq \in Number /\ c.srej_q \in SUBSET Frames
      /\ \A f \in c.srej_q : f.txseq \in Number
  BY ChanNumbers DEF Fit
<1>2. /\ m \in Number /\ end \in Number /\ acked \in Number /\ to \in Number
      /\ m \in Nat /\ end \in Nat /\ acked \in Nat /\ n \in Nat
      /\ TxWin \in Nat /\ Modulus \in Nat /\ TxWin < Modulus
  BY <1>1, OffsetIs, NextIs, Numbers
<1>3. /\ acked + end + m < TxWin
      /\ \E f \in c.srej_q : f.txseq = txseq
      /\ \A f \in c.srej_q : offset(f.txseq, c.buffer_seq) < end \/ f.txseq = txseq
      /\ \A f, g \in c.srej_q : f.txseq = g.txseq => f = g
      /\ ListFits(c.srej_list, c.buffer_seq, end, c.srej_q)
  BY DEF Gap
<1>4. d = [x EXCEPT !.expected_tx_seq = to]
  BY DEF send_srej, RejectTurns, Reject
<1>5. ASSUME NEW j \in 1 .. m
      PROVE  offset((c.expected_tx_seq + j - 1) % Modulus, c.buffer_seq) < n
  <2> DEFINE seq == (c.expected_tx_seq + j - 1) % Modulus
  <2>1. j \in Number /\ j \in Nat /\ j # 0 /\ j <= m
    BY <1>2, Numbers
  <2>2. offset(seq, c.expected_tx_seq) = j - 1 /\ seq \in Number
    BY <1>1, <2>1, PlusOffset, PlusIs
  <2> HIDE DEF seq
  <2>3. end + offset(seq, c.expected_tx_seq) < Modulus =>
            offset(seq, c.buffer_seq) = end + offset(seq, c.expected_tx_seq)
    BY <1>1, <2>2, OffsetsAdd
  <2> HIDE DEF m, end, acked
  <2>4. offset(seq, c.buffer_seq) < n
    BY <1>2, <1>3, <2>1, <2>2, <2>3
  <2> QED
    BY <2>4 DEF seq
<1>6. ListFits(c.srej_list, c.buffer_seq, n, c.srej_q)
  <2>1. \A i \in DOMAIN c.srej_list : offset(c.srej_list[i], c.buffer_seq) \in Nat
    BY <1>1, ChanNumbers, OffsetIs, Numbers
  <2> HIDE DEF m, end, acked
  <2> QED
    BY <1>2, <1>3, <2>1 DEF ListFits
<1> HIDE DEF m, end, acked
<1>7. Rejecting(calm, c, n, c)
  BY <1>6 DEF Rejecting, RxIs
<1>8. Rejecting(calm, c, n, x)
  BY <1>1, <1>2, <1>5, <1>7, RejectsMany
<1> HIDE DEF x, n
<1>9. /\ x \in Chan /\ x.buffer_seq \in Number /\ x.srej_q \in SUBSET Frames
      /\ x.srej_list \in Seq(Number) /\ x.rx_state \in RxStates /\ x.srej_act \in BOOLEAN
      /\ Fit(calm, x)
  <2>1. x \in Chan /\ Fit(calm, x)
    BY <1>8 DEF Rejecting, Fit
  <2> QED
    BY <2>1, ChanNumbers DEF RxStates
<1> HIDE DEF to
<1>10. d = PutRx(x, to, x.buffer_seq, x.srej_q, x.srej_list, x.rx_state, x.srej_act)
  BY <1>4, <1>9 DEF PutRx, Chan
<1>11. /\ Fit(calm, d) /\ d.last_acked_seq = x.last_acked_seq
       /\ RxIs(d, to, x.buffer_seq, x.srej_q, x.srej_list, x.rx_state)
  <2>1. to \in Number
    BY <1>2
  <2> QED
    BY <1>9, <1>10, <2>1, FitRx
<1>12. /\ Fit(calm, d) /\ d.last_acked_seq = c.last_acked_seq
       /\ RxIs(d, to, c.buffer_seq, c.srej_q, d.srej_list, c.rx_state)
       /\ ListFits(d.srej_list, c.buffer_seq, n, c.srej_q)
  BY <1>8, <1>11 DEF Rejecting, RxIs
<1>13. offset(txseq, c.buffer_seq) = n /\ offset(to, c.buffer_seq) = n + 1
  <2>1. /\ end + m < Modulus => offset(txseq, c.buffer_seq) = end + m
        /\ offset(txseq, c.buffer_seq) + 1 < Modulus =>
              offset(to, c.buffer_seq) = offset(txseq, c.buffer_seq) + 1
    BY <1>1, OffsetsAdd DEF m, end, to
  <2> QED
    BY <1>2, <1>3, <2>1 DEF n
<1>14. RxRest(d)
  <2> DEFINE q == c.srej_q
             list == d.srej_list
  <2>1. acked + (n + 1) <= TxWin
    BY <1>2, <1>3 DEF n
  <2>2. \A f \in q : offset(f.txseq, c.buffer_seq) < n + 1
    <3>1. \A f \in q : offset(f.txseq, c.buffer_seq) \in Nat
      BY <1>1, OffsetIs, Numbers
    <3>2. n = end + m
      BY DEF n
    <3> QED
      BY <1>2, <1>3, <1>13, <3>1, <3>2
  <2>3. \E f \in q : next(f.txseq) = to
    BY <1>3 DEF to
  <2>4. ListFits(list, c.buffer_seq, n + 1, q)
    <3>1. \A i \in DOMAIN list : offset(list[i], c.buffer_seq) \in Nat
      <4>1. d \in Chan
        BY <1>12 DEF Fit
      <4> QED
        BY <1>1, <4>1, ChanNumbers, OffsetIs, Numbers
    <3> HIDE DEF list, q
    <3> QED
      BY <1>2, <1>12, <3>1 DEF ListFits, list, q
  <2> HIDE DEF list, q
  <2>5. /\ d.expected_tx_seq = to /\ d.buffer_seq = c.buffer_seq /\ d.srej_q = q
        /\ d.srej_list = list /\ d.last_acked_seq = c.last_acked_seq
        /\ \A f, g \in q : f.txseq = g.txseq => f = g
    BY <1>3, <1>12 DEF RxIs, list, q
  <2> QED
    BY <1>13, <2>1, <2>2, <2>3, <2>4, <2>5 DEF RxRest, acked
<1> QED
  BY <1>12, <1>14 DEF RxIs

\* What was rejected is rejected again.
RejectAgain(c, d, j) == send_sframe(d, "SREJ", FALSE, FALSE, c.srej_list[j])
AgainTurns(c, m) == InTurn(c, m, LAMBDA x, j : RejectAgain(c, x, j))

Repeating(calm, c, d) ==
    /\ Fit(calm, d)
    /\ RxIs(d, c.expected_tx_seq, c.buffer_seq, c.srej_q, c.srej_list, c.rx_state)
    /\ d.last_acked_seq = c.last_acked_seq

LEMMA RejectsAgain ==
    ASSUME NEW calm \in BOOLEAN, NEW c \in Chan, Repeating(calm, c, c), NEW m \in Nat,
           \A j \in 1 .. m : j \in DOMAIN c.srej_list,
           NEW d, d = AgainTurns(c, m)
    PROVE  Repeating(calm, c, d)
<1> DEFINE C == {x \in Chan : Repeating(calm, c, x)}
           F == [x \in C |-> [j \in 1 .. m |-> RejectAgain(c, x, j)]]
           done == CHOOSE g : g = [j \in 0 .. m |-> IF j = 0 THEN c
                                                    ELSE RejectAgain(c, g[j - 1], j)]
<1>1. d = done[m]
  BY DEF AgainTurns, InTurn
<1>2. c \in C
  OBVIOUS
<1>3. ASSUME NEW x \in C, NEW j \in 1 .. m PROVE RejectAgain(c, x, j) \in C
  <2> DEFINE y == RejectAgain(c, x, j)
             no == FALSE
             seq == c.srej_list[j]
  <2>1. y = send_sframe(x, "SREJ", no, no, seq)
    BY DEF RejectAgain
  <2>2. seq \in Number /\ no \in BOOLEAN /\ "SREJ" \in {"RR", "RNR", "SREJ"}
    BY ChanNumbers
  <2>3. Fit(calm, x) /\ Repeating(calm, c, x)
    BY DEF Repeating
  <2> HIDE DEF y, no, seq, C
  <2>4. Fit(calm, y) /\ Keeps(x, y) /\ y.last_acked_seq = x.last_acked_seq
    BY <2>1, <2>2, <2>3, FitSframes
  <2>5. Repeating(calm, c, y) /\ y \in Chan
    BY <2>3, <2>4 DEF Repeating, RxIs, Keeps, SameRx, Fit
  <2> QED
    BY <2>5 DEF C, y
<1>4. F \in [C -> [1 .. m -> C]] /\ \A x \in C, j \in 1 .. m : F[x][j] = RejectAgain(c, x, j)
  <2> HIDE DEF C
  <2> QED
    BY <1>3
<1> HIDE DEF C, F, done
<1>5. F \in Steps(m, C)
  BY <1>4 DEF Steps
<1>6. PICK g : Leads(g, m, C, c, F)
  BY <1>2, <1>5, TurnsExist
<1>7. g \in [0 .. m -> C] /\ g[0] = c /\ \A j \in 1 .. m : g[j] = F[g[j - 1]][j]
  BY <1>6 DEF Leads
<1>8. g = [j \in 0 .. m |-> IF j = 0 THEN c ELSE RejectAgain(c, g[j - 1], j)]
  <2>1. ASSUME NEW j \in 0 .. m
        PROVE  g[j] = IF j = 0 THEN c ELSE RejectAgain(c, g[j - 1], j)
    <3>1. CASE j = 0
      BY <1>7, <3>1
    <3>2. CASE j # 0
      <4>1. j \in 1 .. m /\ j - 1 \in 0 .. m
        BY <3>2
      <4> QED
        BY <1>4, <1>7, <3>2, <4>1
    <3> QED
      BY <3>1, <3>2
  <2>2. g = [j \in 0 .. m |-> g[j]]
    BY <1>7
  <2> QED
    BY <2>1, <2>2
<1>9. done = [j \in 0 .. m |-> IF j = 0 THEN c ELSE RejectAgain(c, done[j - 1], j)]
  <2> DEFINE Is(h) == h = [j \in 0 .. m |-> IF j = 0 THEN c ELSE RejectAgain(c, h[j - 1], j)]
  <2>1. \E h : Is(h)
    BY <1>8
  <2>2. done = CHOOSE h : Is(h)
    BY DEF done
  <2> HIDE DEF Is
  <2>3. Is(done)
    BY <2>1, <2>2
  <2> QED
    BY <2>3 DEF Is
<1>10. done[0] \in C
  BY <1>2, <1>9
<1>11. ASSUME NEW j \in 1 .. m, done[j - 1] \in C PROVE done[j] \in C
  <2>1. j \in 0 .. m /\ j # 0
    OBVIOUS
  <2>2. done[j] = RejectAgain(c, done[j - 1], j)
    BY <1>9, <2>1
  <2> QED
    BY <1>3, <1>11, <2>2
<1>12. done[m] \in C
  BY <1>10, <1>11, TurnsHold
<1> QED
  BY <1>1, <1>12 DEF C

LEMMA ConcatIs ==
    ASSUME NEW a \in Seq(Number), NEW b \in Seq(Number), NEW l, l = a \o b
    PROVE  /\ l \in Seq(Number) /\ Len(l) = Len(a) + Len(b)
           /\ \A j \in 1 .. Len(l) : l[j] = IF j <= Len(a) THEN a[j] ELSE b[j - Len(a)]
  OBVIOUS

\* A list without its i'th member, which starts with what is behind that.
Turned(list, i) == SubSeq(list, i + 1, Len(list)) \o SubSeq(list, 1, i - 1)

LEMMA ListTurns ==
    ASSUME NEW list \in Seq(Number), NEW i \in DOMAIN list,
           \A g, h \in DOMAIN list : list[g] = list[h] => g = h,
           NEW l, l = Turned(list, i)
    PROVE  /\ l \in Seq(Number)
           /\ \A j \in DOMAIN l : \E h \in DOMAIN list : h # i /\ l[j] = list[h]
           /\ \A g, h \in DOMAIN l : l[g] = l[h] => g = h
<1> DEFINE n == Len(list)
           a == SubSeq(list, i + 1, n)
           b == SubSeq(list, 1, i - 1)
<1>1. n \in Nat /\ DOMAIN list = 1 .. n /\ i \in 1 .. n
  OBVIOUS
<1>2. a \in Seq(Number) /\ Len(a) = n - i /\ \A j \in 1 .. n - i : a[j] = list[i + j]
  OBVIOUS
<1>3. b \in Seq(Number) /\ Len(b) = i - 1 /\ \A j \in 1 .. i - 1 : b[j] = list[j]
  OBVIOUS
<1> HIDE DEF n, a, b
<1>4. l = a \o b
  BY DEF Turned, a, b, n
<1>c. \A j \in 1 .. Len(l) : l[j] = IF j <= Len(a) THEN a[j] ELSE b[j - Len(a)]
  <2>1. a \in Seq(Number) /\ b \in Seq(Number)
    BY <1>2, <1>3
  <2> QED
    BY <1>4, <2>1, ConcatIs
<1>5. l \in Seq(Number) /\ Len(l) = n - 1
  <2>1. l \in Seq(Number) /\ Len(l) = Len(a) + Len(b)
    BY <1>2, <1>3, <1>4, ConcatIs
  <2> QED
    BY <1>1, <1>2, <1>3, <2>1
<1> DEFINE at(j) == IF j <= n - i THEN i + j ELSE j - (n - i)
<1>6. \A j \in 1 .. n - 1 : at(j) \in 1 .. n /\ at(j) # i
  BY <1>1
<1>7. ASSUME NEW j \in 1 .. n - 1 PROVE l[j] = list[at(j)]
  <2>1. l[j] = IF j <= Len(a) THEN a[j] ELSE b[j - Len(a)]
    BY <1>c, <1>5
  <2>2. CASE j <= n - i
    <3>1. j \in 1 .. n - i
      BY <1>1, <2>2
    <3> QED
      BY <1>2, <2>1, <2>2, <3>1
  <2>3. CASE ~(j <= n - i)
    <3>1. j - (n - i) \in 1 .. i - 1
      BY <1>1, <2>3
    <3> QED
      BY <1>2, <1>3, <2>1, <2>3, <3>1
  <2> QED
    BY <2>2, <2>3
<1>8. \A g, h \in 1 .. n - 1 : at(g) = at(h) => g = h
  BY <1>1
<1> HIDE DEF at
<1>9. DOMAIN l = 1 .. n - 1
  BY <1>5
<1>10. \A j \in DOMAIN l : \E h \in DOMAIN list : h # i /\ l[j] = list[h]
  BY <1>1, <1>6, <1>7, <1>9
<1>11. ASSUME NEW g \in DOMAIN l, NEW h \in DOMAIN l, l[g] = l[h] PROVE g = h
  <2>1. at(g) = at(h)
    BY <1>1, <1>6, <1>7, <1>9, <1>11
  <2> QED
    BY <1>8, <1>9, <2>1
<1> QED
  BY <1>5, <1>10, <1>11

LEMMA SrejTails ==
    ASSUME NEW calm \in BOOLEAN, NEW c, Good(calm, c), NEW d, d = send_srej_tail(c)
    PROVE  Good(calm, d) /\ Keeps(c, d) /\ SameTx(c, d) /\ SameState(c, d)
<1> DEFINE seq == Last(c.srej_list)
           no == FALSE
<1>1. c.srej_list \in Seq(Number)
  BY ChanNumbers DEF Good
<1>2. CASE c.srej_list = <<>>
  <2>1. d = c
    BY <1>2 DEF send_srej_tail
  <2> QED
    BY <2>1 DEF Keeps, SameRx, SameTx, SameState
<1>3. CASE c.srej_list # <<>>
  <2>1. d = send_sframe(c, "SREJ", no, no, seq)
    BY <1>3 DEF send_srej_tail
  <2>2. Len(c.srej_list) \in DOMAIN c.srej_list
    BY <1>1, <1>3
  <2>3. seq \in Number /\ no \in BOOLEAN /\ "SREJ" \in {"RR", "RNR", "SREJ"}
    BY <1>1, <2>2 DEF Last
  <2> HIDE DEF seq, no
  <2> QED
    BY <2>1, <2>3, Sframes
<1> QED
  BY <1>2, <1>3

\* RxRest, but for txseq, which is stored and listed.
Pending(c, txseq) ==
    LET ahead(x) == offset(x, c.buffer_seq)
        end == ahead(c.expected_tx_seq)
    IN  /\ offset(c.buffer_seq, c.last_acked_seq) + end <= TxWin
        /\ \A f \in c.srej_q : ahead(f.txseq) < end
        /\ \A f, g \in c.srej_q : f.txseq = g.txseq => f = g
        /\ \A i \in DOMAIN c.srej_list : ahead(c.srej_list[i]) < end
        /\ \A i, j \in DOMAIN c.srej_list : c.srej_list[i] = c.srej_list[j] => i = j
        /\ \A i \in DOMAIN c.srej_list, f \in c.srej_q :
              c.srej_list[i] = f.txseq => f.txseq = txseq
        /\ \E i \in DOMAIN c.srej_list : c.srej_list[i] = txseq
        /\ \E f \in c.srej_q : next(f.txseq) = c.expected_tx_seq

LEMMA SrejLists ==
    ASSUME NEW calm \in BOOLEAN, NEW c, Fit(calm, c), NEW txseq \in Number,
           Pending(c, txseq), NEW d, d = send_srej_list(c, txseq)
    PROVE  Fit(calm, d) /\ RxRest(d) /\ d.rx_state = c.rx_state
<1> DEFINE list == c.srej_list
           i == SelectInSeq(list, LAMBDA seq : seq = txseq)
           l == Turned(list, i)
           x == AgainTurns(c, i - 1)
<1>1. /\ c \in Chan /\ list \in Seq(Number) /\ c.buffer_seq \in Number
  BY ChanNumbers DEF Fit
<1>2. i \in DOMAIN list /\ list[i] = txseq
  <2> DEFINE I == {j \in 1 .. Len(list) : list[j] = txseq}
  <2>1. i = IF I # {} THEN Min(I) ELSE 0
    BY DEF SelectInSeq
  <2>2. DOMAIN list = 1 .. Len(list) /\ I \subseteq Nat
    BY <1>1
  <2>3. I # {}
    BY <2>2 DEF Pending
  <2>4. i \in I
    <3> HIDE DEF I, i
    <3> QED
      BY <2>1, <2>2, <2>3, MinIs
  <2> HIDE DEF i
  <2> QED
    BY <2>2, <2>4
<1>3. i \in Nat /\ i # 0 /\ i - 1 \in Nat /\ i <= Len(list) /\ DOMAIN list = 1 .. Len(list)
      /\ Len(list) \in Nat
  <2> HIDE DEF i
  <2> QED
    BY <1>1, <1>2
<1>4. \A j \in 1 .. i - 1 : j \in DOMAIN list
  <2> HIDE DEF i, list
  <2> QED
    BY <1>3
<1>5. d = [x EXCEPT !.srej_list = SubSeq(@, i + 1, Len(@)) \o SubSeq(@, 1, i - 1)]
  <2>1. d = [x EXCEPT !.srej_list = SubSeq(@, i - 1 + 2, Len(@)) \o SubSeq(@, 1, i - 1)]
    BY <1>3 DEF send_srej_list, AgainTurns, RejectAgain
  <2>2. i - 1 + 2 = i + 1
    <3> HIDE DEF i
    <3> QED
      BY <1>3
  <2> HIDE DEF x, i
  <2> QED
    BY <2>1, <2>2
<1> HIDE DEF i, x
<1>6. Repeating(calm, c, c)
  BY DEF Repeating, RxIs
<1>7. Repeating(calm, c, x)
  BY <1>1, <1>3, <1>4, <1>6, RejectsAgain DEF x
<1>8. /\ x \in Chan /\ x.expected_tx_seq \in Number /\ x.buffer_seq \in Number
      /\ x.srej_q \in SUBSET Frames /\ x.rx_state \in RxStates /\ x.srej_act \in BOOLEAN
      /\ Fit(calm, x) /\ x.srej_list = list
  <2>1. x \in Chan /\ Fit(calm, x) /\ x.srej_list = list
    BY <1>7 DEF Repeating, Fit, RxIs
  <2> QED
    BY <2>1, ChanNumbers DEF RxStates
<1>9. d = [x EXCEPT !.srej_list = l]
  BY <1>5, <1>8 DEF Turned
<1>10. \A g, h \in DOMAIN list : list[g] = list[h] => g = h
  BY DEF Pending
<1>11. /\ l \in Seq(Number)
       /\ \A j \in DOMAIN l : \E h \in DOMAIN list : h # i /\ l[j] = list[h]
       /\ \A g, h \in DOMAIN l : l[g] = l[h] => g = h
  <2> HIDE DEF l, list
  <2> QED
    BY <1>1, <1>2, <1>10, ListTurns DEF l
<1> HIDE DEF l
<1>12. d = PutRx(x, x.expected_tx_seq, x.buffer_seq, x.srej_q, l, x.rx_state, x.srej_act)
  BY <1>8, <1>9 DEF PutRx, Chan
<1>13. /\ Fit(calm, d) /\ d.last_acked_seq = x.last_acked_seq
       /\ RxIs(d, x.expected_tx_seq, x.buffer_seq, x.srej_q, l, x.rx_state)
  BY <1>8, <1>11, <1>12, FitRx
<1>14. /\ Fit(calm, d) /\ d.last_acked_seq = c.last_acked_seq
       /\ RxIs(d, c.expected_tx_seq, c.buffer_seq, c.srej_q, l, c.rx_state)
  BY <1>7, <1>13 DEF Repeating, RxIs
<1>15. ListFits(l, c.buffer_seq, offset(c.expected_tx_seq, c.buffer_seq), c.srej_q)
  <2> DEFINE n == offset(c.expected_tx_seq, c.buffer_seq)
  <2>1. /\ \A h \in DOMAIN list : offset(list[h], c.buffer_seq) < n
        /\ \A h \in DOMAIN list, f \in c.srej_q : list[h] = f.txseq => f.txseq = txseq
    BY DEF Pending
  <2>2. \A h \in DOMAIN list : h # i => list[h] # txseq
    BY <1>2, <1>10
  <2> HIDE DEF list, n
  <2>3. \A j \in DOMAIN l : offset(l[j], c.buffer_seq) < n
    BY <1>11, <2>1
  <2>4. \A j \in DOMAIN l, f \in c.srej_q : l[j] # f.txseq
    BY <1>11, <2>1, <2>2
  <2> QED
    BY <1>11, <2>3, <2>4 DEF ListFits, n
<1>16. RxRest(d)
  BY <1>14, <1>15 DEF RxRest, RxIs, Pending
<1> QED
  BY <1>14, <1>16 DEF RxIs

-----------------------------------------------------------------------------
(* The receiver's socket *)

PutBusy(c, local_busy, full, got) ==
    [c EXCEPT !.local_busy = local_busy, !.full = full, !.got = got]

\* All that the receiver's invariant speaks of.
SameWindow(c, d) ==
    /\ d.rx_state = c.rx_state /\ d.expected_tx_seq = c.expected_tx_seq
    /\ d.buffer_seq = c.buffer_seq /\ d.srej_q = c.srej_q /\ d.srej_list = c.srej_list
    /\ d.last_acked_seq = c.last_acked_seq

LEMMA WindowKept ==
    ASSUME NEW c, NEW d, SameWindow(c, d)
    PROVE  (RxInv(c) => RxInv(d)) /\ (RxRest(c) => RxRest(d))
  BY DEF SameWindow, RxInv, RxRest

LEMMA GoodBusy ==
    ASSUME NEW calm \in BOOLEAN, NEW c, Good(calm, c), NEW local_busy \in BOOLEAN,
           NEW full \in BOOLEAN, NEW got \in Seq(Nat), calm => ~local_busy /\ ~full,
           NEW d, d = PutBusy(c, local_busy, full, got)
    PROVE  /\ Good(calm, d) /\ SameWindow(c, d) /\ d.local_busy = local_busy /\ d.full = full
           /\ d.got = got /\ d.up = c.up /\ d.rnr_sent = c.rnr_sent
<1>1. c \in Chan
  BY DEF Good
<1>2. /\ d \in Chan /\ SameWindow(c, d) /\ SameTx(c, d) /\ SameState(c, d)
      /\ d.local_busy = local_busy /\ d.full = full /\ d.got = got
      /\ d.armed = c.armed /\ d.out = c.out /\ d.rnr_sent = c.rnr_sent
  BY <1>1, ZenonT(40) DEF Chan, SameWindow, SameTx, SameState, PutBusy
<1>3. TxInv(d) /\ RxInv(d)
  BY <1>2, TxKept, WindowKept DEF Good
<1>4. d.up => Timed(d)
  BY <1>2 DEF Good, Timed, Timers, SameState
<1>5. calm => Calm(d)
  BY <1>2 DEF Good, Calm, Timers, SameTx, SameState
<1> QED
  BY <1>2, <1>3, <1>4, <1>5 DEF Good, SameState

\* What is stored behind the gap is thrown away.
LEMMA Aborts ==
    ASSUME NEW calm \in BOOLEAN, NEW c, Good(calm, c), NEW d, d = abort_rx_srej_sent(c)
    PROVE  Good(calm, d)
<1> DEFINE none == {}
           empty == <<>>
           recv_state == "RECV"
<1>1. /\ c \in Chan /\ c.buffer_seq \in Number /\ c.expected_tx_seq \in Number
      /\ c.last_acked_seq \in Number /\ c.srej_act \in BOOLEAN
  BY ChanNumbers DEF Good
<1>2. d = PutRx(c, c.buffer_seq, c.buffer_seq, none, empty, recv_state, c.srej_act)
  BY <1>1 DEF abort_rx_srej_sent, PutRx, Chan
<1>3. none \in SUBSET Frames /\ empty \in Seq(Number) /\ recv_state \in RxStates
  BY DEF RxStates
<1> HIDE DEF none, empty, recv_state
<1>4. Fit(calm, c)
  BY GoodIs
<1>5. /\ Fit(calm, d) /\ RxIs(d, c.buffer_seq, c.buffer_seq, none, empty, recv_state)
      /\ d.last_acked_seq = c.last_acked_seq
  BY <1>1, <1>2, <1>3, <1>4, FitRx
<1>6. offset(c.buffer_seq, c.buffer_seq) = 0 /\ offset(c.buffer_seq, c.last_acked_seq) \in Nat
      /\ offset(c.expected_tx_seq, c.buffer_seq) \in Nat /\ TxWin \in Nat
  BY <1>1, OffsetsAdd, OffsetIs, Numbers, ZenonT(40)
<1>7. offset(c.buffer_seq, c.last_acked_seq) + 0 <= TxWin
  <2>1. offset(c.buffer_seq, c.last_acked_seq) + offset(c.expected_tx_seq, c.buffer_seq) <= TxWin
    BY DEF Good, RxInv
  <2> QED
    BY <1>6, <2>1
<1>8. RxInv(d)
  BY <1>5, <1>6, <1>7 DEF RxInv, RxIs, none, empty
<1> QED
  BY <1>5, <1>8, GoodIs

LEMMA BusyDetected ==
    ASSUME NEW c, Good(FALSE, c), NEW d, d = busy_detected(c)
    PROVE  Good(FALSE, d) /\ d.local_busy = TRUE
<1> DEFINE no == FALSE
           yes == TRUE
           c1 == [c EXCEPT !.local_busy = yes]
           c2 == IF c.rx_state = "SREJ_SENT" THEN abort_rx_srej_sent(c1) ELSE c1
<1>1. c \in Chan /\ c.full \in BOOLEAN /\ c.got \in Seq(Nat)
  BY ChanNumbers DEF Good
<1>2. d = send_ack(c2)
  BY DEF busy_detected
<1>3. c1 = PutBusy(c, yes, c.full, c.got)
  BY <1>1 DEF PutBusy, Chan
<1>4. no \in BOOLEAN /\ yes \in BOOLEAN /\ no = FALSE /\ Good(no, c)
  OBVIOUS
<1> HIDE DEF c1, no, yes
<1>5. Good(no, c1) /\ c1.local_busy = yes
  BY <1>1, <1>3, <1>4, GoodBusy
<1>6. Good(no, c2) /\ c2.local_busy = yes
  <2>1. CASE c.rx_state = "SREJ_SENT"
    <3>1. c2 = abort_rx_srej_sent(c1)
      BY <2>1
    <3>2. Good(no, c2)
      BY <1>4, <1>5, <3>1, Aborts
    <3>3. c2.local_busy = c1.local_busy
      <4>1. c1 \in Chan
        BY <1>5 DEF Good
      <4> QED
        BY <3>1, <4>1 DEF abort_rx_srej_sent, Chan
    <3> QED
      BY <1>5, <3>2, <3>3
  <2>2. CASE c.rx_state # "SREJ_SENT"
    BY <1>5, <2>2
  <2> QED
    BY <2>1, <2>2
<1> HIDE DEF c2
<1>7. Good(no, d) /\ Keeps(c2, d)
  BY <1>2, <1>4, <1>6, Acks
<1> QED
  BY <1>4, <1>6, <1>7 DEF Keeps, SameRx, yes

LEMMA BusyCleared ==
    ASSUME NEW c, Good(FALSE, c), NEW d, d = busy_clear(c)
    PROVE  Good(FALSE, d)
<1> DEFINE no == FALSE
           c1 == [c EXCEPT !.local_busy = no]
           c2 == send_sframe(c1, "RR", TRUE, FALSE, c.buffer_seq)
<1>1. c \in Chan /\ c.full \in BOOLEAN /\ c.got \in Seq(Nat) /\ c.buffer_seq \in Number
  BY ChanNumbers DEF Good
<1>2. d = IF c.rnr_sent THEN PollAndWait(c2) ELSE c1
  BY DEF busy_clear
<1>3. c1 = PutBusy(c, no, c.full, c.got)
  BY <1>1 DEF PutBusy, Chan
<1>4. no \in BOOLEAN /\ no = FALSE /\ Good(no, c)
  OBVIOUS
<1> HIDE DEF c1, no
<1>5. Good(no, c1) /\ c1.buffer_seq = c.buffer_seq
  BY <1>1, <1>3, <1>4, GoodBusy DEF SameWindow
<1>6. Good(no, c2)
  <2> DEFINE poll == TRUE
             final == FALSE
  <2>1. poll \in BOOLEAN /\ final \in BOOLEAN /\ "RR" \in {"RR", "RNR", "SREJ"}
    OBVIOUS
  <2>2. c2 = send_sframe(c1, "RR", poll, final, c.buffer_seq)
    OBVIOUS
  <2> HIDE DEF c2, poll, final
  <2> QED
    BY <1>1, <1>4, <1>5, <2>1, <2>2, Sframes
<1> HIDE DEF c2
<1>7. Good(no, d)
  BY <1>2, <1>4, <1>5, <1>6, Polls
<1> QED
  BY <1>4, <1>7

LEMMA Received ==
    ASSUME NEW calm \in BOOLEAN, NEW c, Good(calm, c), NEW sdu \in Nat, NEW filled \in BOOLEAN,
           calm => ~filled, NEW d, d = recv(c, sdu, filled)
    PROVE  Good(calm, d) /\ (d.up /\ ~d.local_busy => SameWindow(c, d))
<1> DEFINE got == Append(c.got, sdu)
           no == FALSE
           yes == TRUE
           c1 == [c EXCEPT !.got = got]
           c2 == [c1 EXCEPT !.full = yes]
<1>1. c \in Chan /\ c.full \in BOOLEAN /\ c.got \in Seq(Nat) /\ c.local_busy \in BOOLEAN
  BY ChanNumbers DEF Good
<1>2. got \in Seq(Nat) /\ no \in BOOLEAN /\ yes \in BOOLEAN /\ no = FALSE
  BY <1>1
<1>3. CASE c.full
  <2>1. d = send_disconn_req(c)
    BY <1>3 DEF recv
  <2> QED
    BY <2>1, Disconnects
<1>4. CASE ~c.full /\ ~filled
  <2>1. d = PutBusy(c, c.local_busy, c.full, got)
    <3>1. d = c1
      BY <1>4 DEF recv
    <3> HIDE DEF got
    <3> QED
      BY <1>1, <3>1 DEF PutBusy, Chan
  <2>2. calm => ~c.local_busy /\ ~c.full
    BY DEF Good, Calm
  <2> HIDE DEF got
  <2> QED
    BY <1>1, <1>2, <2>1, <2>2, GoodBusy
<1>5. CASE ~c.full /\ filled
  <2>1. d = busy_detected(c2)
    BY <1>5 DEF recv
  <2>2. c2 = PutBusy(c, c.local_busy, yes, got)
    <3> HIDE DEF got, yes
    <3> QED
      BY <1>1 DEF PutBusy, Chan
  <2>3. Good(no, c) /\ calm = no
    BY <1>1, <1>5 DEF Good
  <2> HIDE DEF got, yes, c2, no
  <2>4. Good(no, c2)
    BY <1>1, <1>2, <2>2, <2>3, GoodBusy
  <2>5. Good(FALSE, c2)
    BY <1>2, <2>4
  <2>6. Good(FALSE, d) /\ d.local_busy = TRUE
    BY <2>1, <2>5, BusyDetected
  <2> QED
    BY <1>2, <2>3, <2>6
<1> QED
  BY <1>3, <1>4, <1>5

\* What is stored for the j'th number from buffer_seq on.
Stored(c, j) == {f \in c.srej_q : f.txseq = (c.buffer_seq + j - 1) % Modulus}
Pass(c, fill, d, j) ==
    IF d.local_busy \/ ~d.up THEN d
    ELSE LET f == CHOOSE f \in Stored(c, j) : TRUE
         IN  recv([d EXCEPT !.srej_q = @ \ {f}, !.buffer_seq = next(@)], f.sdu, j = fill)
PassTurns(c, fill, m) == InTurn(c, m, LAMBDA d, j : Pass(c, fill, d, j))

\* After j of m units: unless it has stopped, the rest is still stored.
Passing(calm, c, m, d, j) ==
    /\ Good(calm, d)
    /\ d.up /\ ~d.local_busy =>
          /\ d.buffer_seq = (c.buffer_seq + j) % Modulus /\ d.rx_state = "SREJ_SENT"
          /\ \A h \in j + 1 .. m : Stored(c, h) \subseteq d.srej_q

\* The first unit that is stored is taken out, and the window moves.
LEMMA TakesOne ==
    ASSUME NEW calm \in BOOLEAN, NEW d, Good(calm, d), d.rx_state = "SREJ_SENT",
           NEW f \in d.srej_q, f.txseq = d.buffer_seq,
           NEW e, e = [d EXCEPT !.srej_q = @ \ {f}, !.buffer_seq = next(@)]
    PROVE  /\ Good(calm, e) /\ e.srej_q = d.srej_q \ {f} /\ e.buffer_seq = next(d.buffer_seq)
           /\ e.rx_state = d.rx_state
<1> DEFINE q == d.srej_q \ {f}
           to == next(d.buffer_seq)
           list == d.srej_list
           ahead(x) == offset(x, d.buffer_seq)
           ahead1(x) == offset(x, to)
           acked == offset(d.buffer_seq, d.last_acked_seq)
           end == ahead(d.expected_tx_seq)
<1>1. /\ d \in Chan /\ d.expected_tx_seq \in Number /\ d.buffer_seq \in Number
      /\ d.last_acked_seq \in Number /\ d.srej_q \in SUBSET Frames
      /\ list \in Seq(Number) /\ d.rx_state \in RxStates /\ d.srej_act \in BOOLEAN
      /\ \A g \in d.srej_q : g.txseq \in Number
      /\ \A i \in DOMAIN list : list[i] \in Number
  BY ChanNumbers DEF Good, RxStates
<1>2. q \in SUBSET Frames /\ to \in Number
  BY <1>1, NextIs
<1>3. e = PutRx(d, d.expected_tx_seq, to, q, list, d.rx_state, d.srej_act)
  <2> HIDE DEF q, to
  <2>1. e = [d EXCEPT !.srej_q = q, !.buffer_seq = to]
    BY DEF q, to
  <2> QED
    BY <1>1, <2>1 DEF PutRx, Chan
<1>4. Fit(calm, d) /\ RxInv(d)
  BY GoodIs
<1>5. /\ Fit(calm, e) /\ e.last_acked_seq = d.last_acked_seq
      /\ RxIs(e, d.expected_tx_seq, to, q, list, d.rx_state)
  <2> HIDE DEF q, to, list
  <2> QED
    BY <1>1, <1>2, <1>3, <1>4, FitRx
<1>6. /\ acked + end <= TxWin
      /\ \A g \in d.srej_q : ahead(g.txseq) < end
      /\ \A g, h \in d.srej_q : g.txseq = h.txseq => g = h
      /\ \A i \in DOMAIN list : ahead(list[i]) < end
      /\ \A i, j \in DOMAIN list : list[i] = list[j] => i = j
      /\ \A i \in DOMAIN list, g \in d.srej_q : list[i] # g.txseq
      /\ end = 0 \/ \E g \in d.srej_q : next(g.txseq) = d.expected_tx_seq
  BY <1>4 DEF RxInv
<1>7. /\ acked \in Nat /\ end \in Nat /\ TxWin \in Nat /\ Modulus \in Nat /\ TxWin < Modulus
      /\ \A x \in Number : ahead(x) \in Nat /\ ahead1(x) \in Nat
  BY <1>1, <1>2, OffsetIs, Numbers
<1>8. \A x \in Number : x # d.buffer_seq => ahead1(x) = ahead(x) - 1
  BY <1>1, OffsetsAdd
<1>9. ahead(d.buffer_seq) = 0
  BY <1>1, OffsetsAdd
<1>10. end > 0 /\ d.expected_tx_seq # d.buffer_seq
  BY <1>6, <1>7, <1>9
<1>11. ahead1(d.expected_tx_seq) = end - 1
  BY <1>1, <1>8, <1>10
<1>12. offset(to, d.last_acked_seq) = acked + 1
  <2>1. acked + 1 < Modulus => offset(to, d.last_acked_seq) = acked + 1
    BY <1>1, OffsetsAdd
  <2> HIDE DEF acked, end, to, q, list
  <2> QED
    BY <1>6, <1>7, <1>10, <2>1
<1>13. RxInv(e)
  <2>1. \A g \in q : g.txseq # d.buffer_seq /\ g \in d.srej_q
    BY <1>6
  <2>2. \A i \in DOMAIN list : list[i] # d.buffer_seq
    BY <1>6
  <2> HIDE DEF ahead, ahead1, acked, end, to, q, list
  <2>3. \A g \in q : ahead1(g.txseq) < end - 1
    BY <1>1, <1>6, <1>7, <1>8, <2>1
  <2>4. \A i \in DOMAIN list : ahead1(list[i]) < end - 1
    BY <1>1, <1>6, <1>7, <1>8, <2>2
  <2>5. (acked + 1) + (end - 1) <= TxWin
    BY <1>6, <1>7
  <2>6. end - 1 = 0 \/ \E g \in q : next(g.txseq) = d.expected_tx_seq
    <3>1. PICK g \in d.srej_q : next(g.txseq) = d.expected_tx_seq
      BY <1>6, <1>10
    <3>2. CASE g = f
      <4>1. to = d.expected_tx_seq
        BY <3>1, <3>2 DEF to
      <4>2. ahead1(to) = 0
        BY <1>2, OffsetsAdd DEF ahead1
      <4> QED
        BY <1>11, <4>1, <4>2
    <3>3. CASE g # f
      BY <3>1, <3>3 DEF q
    <3> QED
      BY <3>2, <3>3
  <2>7. /\ offset(e.buffer_seq, e.last_acked_seq) = acked + 1
        /\ offset(e.expected_tx_seq, e.buffer_seq) = end - 1
        /\ e.srej_q = q /\ e.srej_list = list /\ e.rx_state = "SREJ_SENT"
        /\ e.expected_tx_seq = d.expected_tx_seq
        /\ \A x : offset(x, e.buffer_seq) = ahead1(x)
    BY <1>5, <1>11, <1>12 DEF RxIs, ahead1
  <2>8. \A g, h \in q : g.txseq = h.txseq => g = h
    BY <1>6, <2>1
  <2>9. \A i \in DOMAIN list, g \in q : list[i] # g.txseq
    BY <1>6, <2>1
  <2> QED
    BY <1>6, <2>3, <2>4, <2>5, <2>6, <2>7, <2>8, <2>9 DEF RxInv
<1> QED
  BY <1>5, <1>13, GoodIs DEF RxIs

LEMMA NextPlus ==
    ASSUME NEW a \in Number, NEW k \in Number, k # 0
    PROVE  next((a + k - 1) % Modulus) = (a + k) % Modulus
<1> DEFINE p == (a + k - 1) % Modulus
           q == (a + k) % Modulus
<1>1. /\ Modulus \in Nat /\ Modulus > 1 /\ a \in Nat /\ a < Modulus /\ k \in Nat /\ k < Modulus
  BY Numbers
<1>2. /\ q = IF a + k < Modulus THEN a + k ELSE a + k - Modulus
      /\ p = IF a + k - 1 < Modulus THEN a + k - 1 ELSE a + k - 1 - Modulus
      /\ p \in Number /\ q \in Number
  BY PlusIs
<1> HIDE DEF p, q
<1>3. next(p) = IF p = Modulus - 1 THEN 0 ELSE p + 1
  BY <1>2, NextIs
<1>4. next(p) = q
  BY <1>1, <1>2, <1>3
<1> QED
  BY <1>4 DEF p, q

LEMMA PassesOne ==
    ASSUME NEW calm \in BOOLEAN, NEW c \in Chan, NEW m \in Number,
           \A j \in 1 .. m : Stored(c, j) # {}, NEW fill \in Nat, calm => fill = 0,
           NEW j \in 1 .. m, NEW d, Passing(calm, c, m, d, j - 1),
           NEW x, x = Pass(c, fill, d, j)
    PROVE  Passing(calm, c, m, x, j)
<1>1. c.buffer_seq \in Number /\ m \in Nat /\ m < Modulus /\ j \in Nat /\ j # 0 /\ j \in Number
  <2>1. c.buffer_seq \in Number /\ m \in Nat /\ m < Modulus /\ Modulus \in Nat
        /\ \A y \in Nat : y < Modulus => y \in Number
    BY ChanNumbers, Numbers
  <2>2. j \in Nat /\ j # 0 /\ j <= m
    BY <2>1
  <2> QED
    BY <2>1, <2>2
<1>2. CASE d.local_busy \/ ~d.up
  <2>1. x = d
    BY <1>2 DEF Pass
  <2>2. d.local_busy \in BOOLEAN /\ d.up \in BOOLEAN
    BY ChanNumbers DEF Passing, Good
  <2> QED
    BY <1>2, <2>1, <2>2 DEF Passing
<1>3. CASE ~(d.local_busy \/ ~d.up)
  <2> DEFINE f == CHOOSE f \in Stored(c, j) : TRUE
             e == [d EXCEPT !.srej_q = @ \ {f}, !.buffer_seq = next(@)]
             filled == j = fill
             at(h) == (c.buffer_seq + h - 1) % Modulus
  <2>1. x = recv(e, f.sdu, filled)
    BY <1>3 DEF Pass
  <2>2. f \in Stored(c, j)
    OBVIOUS
  <2>3. /\ Good(calm, d) /\ d.buffer_seq = (c.buffer_seq + (j - 1)) % Modulus
        /\ d.rx_state = "SREJ_SENT"
        /\ \A h \in j - 1 + 1 .. m : Stored(c, h) \subseteq d.srej_q
    BY <1>3 DEF Passing
  <2>4. j - 1 + 1 = j /\ c.buffer_seq + (j - 1) = c.buffer_seq + j - 1
    <3>1. c.buffer_seq \in Nat
      BY <1>1, Numbers
    <3> HIDE DEF f, e, filled, at
    <3> QED
      BY <1>1, <3>1
  <2>5. \A h \in j .. m : Stored(c, h) \subseteq d.srej_q
    BY <2>3, <2>4
  <2>6. j \in j .. m
    <3> HIDE DEF f, e, filled, at
    <3> QED
      BY <1>1
  <2> HIDE DEF f
  <2>7. f \in d.srej_q /\ f.txseq = at(j) /\ d.buffer_seq = at(j)
    BY <2>2, <2>3, <2>4, <2>5, <2>6 DEF Stored
  <2>8. /\ Good(calm, e) /\ e.srej_q = d.srej_q \ {f} /\ e.buffer_seq = next(d.buffer_seq)
        /\ e.rx_state = d.rx_state
    <3> HIDE DEF at
    <3> QED
      BY <2>3, <2>7, TakesOne, ZenonT(40)
  <2>9. f.sdu \in Nat /\ filled \in BOOLEAN /\ (calm => ~filled)
    BY <1>1, <2>3, <2>7, ChanNumbers DEF Good
  <2> HIDE DEF e, filled
  <2>10. Good(calm, x) /\ (x.up /\ ~x.local_busy => SameWindow(e, x))
    BY <2>1, <2>8, <2>9, Received
  <2>11. next(at(j)) = (c.buffer_seq + j) % Modulus
    BY <1>1, NextPlus
  <2>12. ASSUME NEW h \in j + 1 .. m, NEW g \in Stored(c, h) PROVE g \in d.srej_q \ {f}
    <3>1. h \in j .. m /\ h \in Number /\ h # 0 /\ h # j /\ h \in Nat
      <4> HIDE DEF at
      <4> QED
        BY <1>1, Numbers
    <3>2. offset(at(h), c.buffer_seq) = h - 1 /\ offset(at(j), c.buffer_seq) = j - 1
      BY <1>1, <3>1, PlusOffset
    <3>3. g.txseq = at(h) /\ g \in d.srej_q
      BY <2>5, <3>1 DEF Stored
    <3> HIDE DEF at
    <3>4. at(h) # at(j)
      BY <1>1, <3>1, <3>2
    <3> QED
      BY <2>7, <3>3, <3>4
  <2>13. \A h \in j + 1 .. m : Stored(c, h) \subseteq d.srej_q \ {f}
    BY <2>12
  <2> HIDE DEF at
  <2> QED
    BY <2>3, <2>7, <2>8, <2>10, <2>11, <2>13 DEF Passing, SameWindow
<1> QED
  BY <1>2, <1>3

\* What holds before the first turn and after each holds after the last.
LEMMA TurnsReach ==
    ASSUME NEW n \in Nat, NEW P, 0 \in P, \A j \in 1 .. n : j - 1 \in P => j \in P
    PROVE  n \in P
<1> SUFFICES ASSUME n \notin P PROVE FALSE
  OBVIOUS
<1> DEFINE T == {j \in 0 .. n : j \notin P}
<1>1. T \subseteq Nat /\ T # {}
  OBVIOUS
<1> HIDE DEF T
<1>2. PICK x \in T : \A y \in T : x <= y
  BY <1>1, Least
<1>3. x \in 0 .. n /\ x \notin P
  BY DEF T
<1>4. x # 0 /\ x \in 1 .. n /\ x - 1 \in 0 .. n
  BY <1>3
<1>5. x - 1 \notin T
  BY <1>2, <1>4
<1> QED
  BY <1>3, <1>4, <1>5 DEF T

\* What holds of the channel before the first unit and after each holds after the last.
LEMMA PassTurnsReach ==
    ASSUME NEW c \in Chan, NEW m \in Nat, NEW fill, NEW I,
           \A j \in 0 .. m : I[j] \subseteq Chan, c \in I[0],
           \A j \in 1 .. m : \A x \in I[j - 1] : Pass(c, fill, x, j) \in I[j],
           NEW d, d = PassTurns(c, fill, m)
    PROVE  d \in I[m]
<1> DEFINE step(x, j) == IF x \in I[j - 1] THEN Pass(c, fill, x, j) ELSE c
           F == [x \in Chan |-> [j \in 1 .. m |-> step(x, j)]]
           done == CHOOSE g : g = [j \in 0 .. m |-> IF j = 0 THEN c
                                                    ELSE Pass(c, fill, g[j - 1], j)]
<1>1. d = done[m]
  BY DEF PassTurns, InTurn
<1>2. ASSUME NEW j \in 1 .. m PROVE j \in 0 .. m /\ j # 0 /\ j - 1 \in 0 .. m
  OBVIOUS
<1>3. \A x \in Chan, j \in 1 .. m : step(x, j) \in Chan
  BY <1>2
<1>4. F \in [Chan -> [1 .. m -> Chan]] /\ \A x \in Chan, j \in 1 .. m : F[x][j] = step(x, j)
  <2> HIDE DEF step
  <2> QED
    BY <1>3
<1> HIDE DEF step, F, done
<1>5. F \in Steps(m, Chan)
  BY <1>4 DEF Steps
<1>6. PICK g : Leads(g, m, Chan, c, F)
  BY <1>5, TurnsExist
<1>7. g \in [0 .. m -> Chan] /\ g[0] = c /\ \A j \in 1 .. m : g[j] = F[g[j - 1]][j]
  BY <1>6 DEF Leads
<1>8. ASSUME NEW j \in 1 .. m PROVE g[j] = step(g[j - 1], j)
  BY <1>2, <1>4, <1>7
<1>9. \A j \in 0 .. m : g[j] \in I[j]
  <2> SUFFICES ASSUME NEW k \in 0 .. m PROVE g[k] \in I[k]
    OBVIOUS
  <2> DEFINE P == {j \in 0 .. m : g[j] \in I[j]}
  <2>1. k \in Nat /\ \A j \in 1 .. k : j \in 1 .. m
    OBVIOUS
  <2>2. 0 \in P
    BY <1>7
  <2>3. ASSUME NEW j \in 1 .. k, j - 1 \in P PROVE j \in P
    <3>1. j \in 1 .. m
      BY <2>1
    <3>2. g[j - 1] \in I[j - 1]
      BY <2>3
    <3>3. g[j] = Pass(c, fill, g[j - 1], j)
      BY <1>8, <3>1, <3>2 DEF step
    <3>4. g[j] \in I[j]
      BY <3>1, <3>2, <3>3
    <3> QED
      BY <1>2, <3>1, <3>4
  <2> HIDE DEF P
  <2>4. k \in P
    BY <2>1, <2>2, <2>3, TurnsReach
  <2> QED
    BY <2>4 DEF P
<1>10. g = [j \in 0 .. m |-> IF j = 0 THEN c ELSE Pass(c, fill, g[j - 1], j)]
  <2>1. ASSUME NEW j \in 0 .. m
        PROVE  g[j] = IF j = 0 THEN c ELSE Pass(c, fill, g[j - 1], j)
    <3>1. CASE j = 0
      BY <1>7, <3>1
    <3>2. CASE j # 0
      <4>1. j \in 1 .. m
        BY <3>2
      <4> QED
        BY <1>2, <1>8, <1>9, <3>2, <4>1 DEF step
    <3> QED
      BY <3>1, <3>2
  <2>2. g = [j \in 0 .. m |-> g[j]]
    BY <1>7
  <2> QED
    BY <2>1, <2>2
<1>11. done = [j \in 0 .. m |-> IF j = 0 THEN c ELSE Pass(c, fill, done[j - 1], j)]
  <2> DEFINE Is(h) == h = [j \in 0 .. m |-> IF j = 0 THEN c ELSE Pass(c, fill, h[j - 1], j)]
  <2>1. \E h : Is(h)
    BY <1>10
  <2>2. done = CHOOSE h : Is(h)
    BY DEF done
  <2> HIDE DEF Is
  <2>3. Is(done)
    BY <2>1, <2>2
  <2> QED
    BY <2>3 DEF Is
<1> DEFINE Q == {j \in 0 .. m : done[j] \in I[j]}
<1>12. 0 \in Q
  BY <1>11
<1>13. ASSUME NEW j \in 1 .. m, j - 1 \in Q PROVE j \in Q
  <2>1. done[j] = Pass(c, fill, done[j - 1], j)
    BY <1>2, <1>11
  <2>2. done[j - 1] \in I[j - 1]
    BY <1>13
  <2>3. done[j] \in I[j]
    BY <2>1, <2>2
  <2> QED
    BY <1>2, <2>3
<1> HIDE DEF Q
<1>14. m \in Q
  BY <1>12, <1>13, TurnsReach
<1> QED
  BY <1>1, <1>14 DEF Q

LEMMA PassesMany ==
    ASSUME NEW calm \in BOOLEAN, NEW c \in Chan, NEW m \in Number,
           \A j \in 1 .. m : Stored(c, j) # {}, NEW fill \in Nat, calm => fill = 0,
           Passing(calm, c, m, c, 0), NEW d, d = PassTurns(c, fill, m)
    PROVE  Passing(calm, c, m, d, m)
<1> DEFINE I == [j \in 0 .. m |-> {x \in Chan : Passing(calm, c, m, x, j)}]
<1>1. m \in Nat
  BY Numbers
<1>2. (\A j \in 0 .. m : I[j] \subseteq Chan) /\ c \in I[0]
  BY <1>1
<1>3. ASSUME NEW j \in 1 .. m, NEW x \in I[j - 1] PROVE Pass(c, fill, x, j) \in I[j]
  <2> DEFINE y == Pass(c, fill, x, j)
  <2>1. j - 1 \in 0 .. m /\ j \in 0 .. m
    BY <1>1
  <2>2. Passing(calm, c, m, x, j - 1)
    BY <2>1
  <2>3. Passing(calm, c, m, y, j)
    BY <2>2, PassesOne
  <2> HIDE DEF y
  <2>4. y \in Chan
    BY <2>3 DEF Passing, Good
  <2> QED
    BY <2>1, <2>3, <2>4 DEF y
<1> HIDE DEF I
<1>4. d \in I[m]
  BY <1>1, <1>2, <1>3, PassTurnsReach
<1>5. m \in 0 .. m
  BY <1>1
<1> QED
  BY <1>4, <1>5 DEF I

\* The units that are passed on: those up to the first that is missing.
LEMMA QueueRun ==
    ASSUME NEW c \in Chan, RxInv(c), NEW fill \in Nat, NEW d, d = rx_queued_iframes(c, fill)
    PROVE  \E run \in Number :
              /\ \A j \in 1 .. run : Stored(c, j) # {}
              /\ LET c1 == PassTurns(c, fill, run)
                 IN  d = IF c1.srej_q = {} THEN send_ack([c1 EXCEPT !.rx_state = "RECV"]) ELSE c1
<1> DEFINE none == {j \in 1 .. Modulus : Stored(c, j) = {}}
           run == Min(none) - 1
           c1 == PassTurns(c, fill, run)
           end == offset(c.expected_tx_seq, c.buffer_seq)
           recv_state == "RECV"
           e == [c1 EXCEPT !.rx_state = recv_state]
<1>1. /\ c \in Chan /\ c.buffer_seq \in Number /\ c.expected_tx_seq \in Number /\ RxInv(c)
      /\ \A f \in c.srej_q : f.txseq \in Number
  BY ChanNumbers
<1>2. d = IF c1.srej_q = {} THEN send_ack(e) ELSE c1
  BY DEF rx_queued_iframes, PassTurns, Pass, Stored
<1>3. /\ end \in Nat /\ end <= TxWin /\ end < Modulus /\ Modulus \in Nat /\ end \in Number
      /\ end + 1 <= Modulus
  <2>1. offset(c.buffer_seq, c.last_acked_seq) \in Nat /\ end \in Nat /\ end \in Number
        /\ TxWin \in Nat /\ Modulus \in Nat /\ TxWin < Modulus
    BY <1>1, ChanNumbers, OffsetIs, Numbers
  <2>2. offset(c.buffer_seq, c.last_acked_seq) + end <= TxWin
    BY <1>1 DEF RxInv
  <2> HIDE DEF end, none, run, c1, e
  <2> QED
    BY <2>1, <2>2
<1>4. end + 1 \in none
  <2>1. ASSUME NEW f \in Stored(c, end + 1) PROVE FALSE
    <3> DEFINE to == (c.buffer_seq + end) % Modulus
    <3>1. c.buffer_seq + (end + 1) - 1 = c.buffer_seq + end
      <4>1. c.buffer_seq \in Nat
        BY <1>1, Numbers
      <4> HIDE DEF end, none, run, c1, e, to
      <4> QED
        BY <1>3, <4>1
    <3>2. f \in c.srej_q /\ f.txseq = to
      BY <3>1 DEF Stored
    <3>3. offset(to, c.buffer_seq) = end
      BY <1>1, <1>3, PlusOffset
    <3>4. offset(f.txseq, c.buffer_seq) < end
      BY <1>1, <3>2 DEF RxInv
    <3> HIDE DEF to, end, none, run, c1, e
    <3> QED
      BY <1>3, <3>2, <3>3, <3>4
  <2>2. end + 1 \in 1 .. Modulus
    <3> HIDE DEF end, none, run, c1, e
    <3> QED
      BY <1>3
  <2> QED
    BY <2>1, <2>2
<1>5. none \subseteq Nat /\ none # {}
  BY <1>4
<1>6. /\ Min(none) \in none /\ \A y \in none : Min(none) <= y
  <2> HIDE DEF none
  <2> QED
    BY <1>5, MinIs
<1>7. /\ Min(none) \in 1 .. Modulus /\ Min(none) <= end + 1
  BY <1>4, <1>6
<1>8. run \in Number /\ run + 1 = Min(none)
  <2>1. \A y \in Nat : y < Modulus => y \in Number
    BY Numbers
  <2> DEFINE least == Min(none)
  <2>2. least \in 1 .. Modulus
    BY <1>7
  <2> HIDE DEF none, least
  <2>3. least - 1 \in Number /\ least - 1 + 1 = least
    BY <1>3, <2>1, <2>2
  <2> QED
    BY <2>3 DEF least
<1>9. \A j \in 1 .. run : Stored(c, j) # {}
  <2> SUFFICES ASSUME NEW j \in 1 .. run, Stored(c, j) = {} PROVE FALSE
    OBVIOUS
  <2>1. run \in Nat /\ run < Modulus
    BY <1>8, Numbers
  <2> HIDE DEF run
  <2>2. j \in 1 .. Modulus /\ j < run + 1
    BY <1>3, <2>1
  <2>3. j \in none
    BY <2>2
  <2>4. run + 1 <= j
    BY <1>6, <1>8, <2>3
  <2> HIDE DEF none, end, c1, e
  <2> QED
    BY <2>1, <2>2, <2>4
<1> HIDE DEF run, none
<1> QED
  BY <1>2, <1>8, <1>9

LEMMA QueueStarts ==
    ASSUME NEW calm \in BOOLEAN, NEW c, Good(calm, c), c.rx_state = "SREJ_SENT",
           NEW run \in Number
    PROVE  Passing(calm, c, run, c, 0)
<1>1. c.buffer_seq + 0 = c.buffer_seq /\ c.buffer_seq % Modulus = c.buffer_seq
  <2>1. c.buffer_seq \in Number
    BY ChanNumbers DEF Good
  <2>2. c.buffer_seq \in Nat /\ c.buffer_seq < Modulus /\ Modulus \in Nat
    BY <2>1, Numbers
  <2> QED
    BY <2>2
<1>2. \A h \in 0 + 1 .. run : Stored(c, h) \subseteq c.srej_q
  BY DEF Stored
<1> QED
  BY <1>1, <1>2 DEF Passing

\* Once nothing is stored, no gap is left.
LEMMA QueueEmpties ==
    ASSUME NEW calm \in BOOLEAN, NEW c, Good(calm, c), c.srej_q = {},
           NEW state \in RxStates, NEW d, d = [c EXCEPT !.rx_state = state]
    PROVE  /\ Good(calm, d)
           /\ d = PutRx(c, c.expected_tx_seq, c.buffer_seq, c.srej_q, c.srej_list, state, c.srej_act)
<1>1. /\ c \in Chan /\ c.expected_tx_seq \in Number /\ c.buffer_seq \in Number
      /\ c.srej_q \in SUBSET Frames /\ c.srej_list \in Seq(Number)
      /\ c.srej_act \in BOOLEAN
  BY ChanNumbers DEF Good
<1>2. d = PutRx(c, c.expected_tx_seq, c.buffer_seq, c.srej_q, c.srej_list, state, c.srej_act)
  BY <1>1 DEF PutRx, Chan
<1>3. Fit(calm, c) /\ RxRest(c)
  BY GoodIs, RxRestIs
<1>4. /\ Fit(calm, d) /\ d.last_acked_seq = c.last_acked_seq
      /\ RxIs(d, c.expected_tx_seq, c.buffer_seq, c.srej_q, c.srej_list, state)
  BY <1>1, <1>2, <1>3, FitRx
<1>5. offset(c.expected_tx_seq, c.buffer_seq) = 0
  BY <1>3 DEF RxRest
<1>6. RxRest(d)
  BY <1>3, <1>4 DEF RxRest, RxIs
<1>7. RxInv(d)
  BY <1>4, <1>5, <1>6, RxRestIs DEF RxIs
<1> QED
  BY <1>2, <1>4, <1>7, GoodIs

LEMMA Queued ==
    ASSUME NEW calm \in BOOLEAN, NEW c, Good(calm, c), c.rx_state = "SREJ_SENT",
           NEW fill \in Nat, calm => fill = 0, NEW d, d = rx_queued_iframes(c, fill)
    PROVE  Good(calm, d)
<1> DEFINE state == "RECV"
<1>1. c \in Chan /\ RxInv(c)
  BY DEF Good
<1>2. PICK run \in Number :
          /\ \A j \in 1 .. run : Stored(c, j) # {}
          /\ LET c1 == PassTurns(c, fill, run)
             IN  d = IF c1.srej_q = {} THEN send_ack([c1 EXCEPT !.rx_state = "RECV"]) ELSE c1
  BY <1>1, QueueRun
<1> DEFINE c1 == PassTurns(c, fill, run)
           e == [c1 EXCEPT !.rx_state = state]
<1>3. d = IF c1.srej_q = {} THEN send_ack(e) ELSE c1
  BY <1>2
<1>4. Passing(calm, c, run, c, 0)
  BY QueueStarts
<1>5. Passing(calm, c, run, c1, run)
  BY <1>1, <1>2, <1>4, PassesMany
<1>6. state \in RxStates
  BY DEF RxStates
<1> HIDE DEF c1, state
<1>7. Good(calm, c1)
  BY <1>5 DEF Passing
<1>8. c1.srej_q = {} => Good(calm, e)
  BY <1>6, <1>7, QueueEmpties
<1> HIDE DEF e
<1> QED
  BY <1>3, <1>7, <1>8, Acks

-----------------------------------------------------------------------------
(* Receiving *)

PutFlags(c, remote_busy, fbit, act, save) ==
    [c EXCEPT !.remote_busy = remote_busy, !.send_fbit = fbit, !.srej_act = act,
              !.srej_save = save]

LEMMA GoodFlags ==
    ASSUME NEW calm \in BOOLEAN, NEW c, Good(calm, c), NEW remote_busy \in BOOLEAN,
           NEW fbit \in BOOLEAN, NEW act \in BOOLEAN, NEW save \in Number,
           calm => ~remote_busy,
           NEW d, d = PutFlags(c, remote_busy, fbit, act, save)
    PROVE  Good(calm, d) /\ Keeps(c, d) /\ SameTx(c, d) /\ d.last_acked_seq = c.last_acked_seq
<1>1. c \in Chan
  BY DEF Good
<1>2. /\ d \in Chan /\ SameRx(c, d) /\ SameTx(c, d) /\ d.last_acked_seq = c.last_acked_seq
      /\ d.remote_busy = remote_busy /\ d.armed = c.armed /\ d.due = c.due /\ d.out = c.out
      /\ d.up = c.up /\ d.tx_state = c.tx_state
  BY <1>1, ZenonT(40) DEF Chan, SameRx, SameTx, PutFlags
<1>3. Keeps(c, d)
  BY <1>2 DEF Keeps
<1>4. TxInv(d) /\ RxInv(d)
  BY <1>1, <1>2, <1>3, TxKept, RxKept DEF Good
<1>5. d.up => Timed(d)
  BY <1>2 DEF Good, Timed, Timers
<1>6. calm => Calm(d)
  BY <1>2 DEF Good, Calm, Timers, SameTx, SameRx
<1> QED
  BY <1>2, <1>3, <1>4, <1>5, <1>6 DEF Good

MarkReady(c) == [c EXCEPT !.remote_busy = FALSE]
MarkOwing(c) == [c EXCEPT !.send_fbit = TRUE]

LEMMA Ready ==
    ASSUME NEW calm \in BOOLEAN, NEW c, Good(calm, c),
           NEW d, d = MarkReady(c)
    PROVE  Good(calm, d) /\ Keeps(c, d) /\ SameTx(c, d) /\ d.last_acked_seq = c.last_acked_seq
<1> DEFINE no == FALSE
<1>1. /\ c \in Chan /\ c.send_fbit \in BOOLEAN /\ c.srej_act \in BOOLEAN
      /\ c.srej_save \in Number /\ no \in BOOLEAN /\ (calm => ~no)
  BY ChanNumbers DEF Good, Chan
<1>2. d = [c EXCEPT !.remote_busy = no]
  BY DEF MarkReady
<1> HIDE DEF no
<1>3. d = PutFlags(c, no, c.send_fbit, c.srej_act, c.srej_save)
  BY <1>1, <1>2 DEF PutFlags, Chan
<1> QED
  BY <1>1, <1>3, GoodFlags, SMTT(30)

LEMMA Owes ==
    ASSUME NEW calm \in BOOLEAN, NEW c, Good(calm, c),
           NEW d, d = MarkOwing(c)
    PROVE  Good(calm, d) /\ Keeps(c, d) /\ SameTx(c, d) /\ d.last_acked_seq = c.last_acked_seq
<1> DEFINE yes == TRUE
<1>1. /\ c \in Chan /\ c.remote_busy \in BOOLEAN /\ c.srej_act \in BOOLEAN
      /\ c.srej_save \in Number /\ yes \in BOOLEAN /\ (calm => ~c.remote_busy)
  BY ChanNumbers DEF Good, Chan, Calm
<1>2. d = [c EXCEPT !.send_fbit = yes]
  BY DEF MarkOwing
<1> HIDE DEF yes
<1>3. d = PutFlags(c, c.remote_busy, yes, c.srej_act, c.srej_save)
  BY <1>1, <1>2 DEF PutFlags, Chan
<1> QED
  BY <1>1, <1>3, GoodFlags, SMTT(30)

LEMMA RemoteReadies ==
    ASSUME NEW calm \in BOOLEAN, NEW c, Good(calm, c), NEW d, d = RemoteReady(c)
    PROVE  Good(calm, d) /\ Keeps(c, d)
<1> DEFINE c1 == MarkReady(c)
<1>1. Good(calm, c1) /\ Keeps(c, c1)
  BY Ready
<1>2. d = IF c.remote_busy /\ c.unacked > 0 THEN set_retrans_timer(c1) ELSE c1
  BY DEF RemoteReady, MarkReady
<1> HIDE DEF c1
<1>3. CASE c.remote_busy /\ c.unacked > 0
  <2>1. Good(calm, d) /\ Keeps(c1, d)
    BY <1>1, <1>2, <1>3, RetransStarts
  <2> QED
    BY <1>1, <2>1, KeepsAll
<1>4. CASE ~(c.remote_busy /\ c.unacked > 0)
  BY <1>1, <1>2, <1>4
<1> QED
  BY <1>3, <1>4

LEMMA Answers ==
    ASSUME NEW calm \in BOOLEAN, NEW c, Good(calm, c), NEW d, d = send_i_or_rr_or_rnr(c)
    PROVE  Good(calm, d)
<1> DEFINE yes == TRUE
           no == FALSE
           c1 == MarkOwing(c)
           c2 == IF c.local_busy THEN send_sframe(c1, "RNR", no, yes, c.buffer_seq) ELSE c1
           r == RemoteReady(c2)
           c3 == ertm_send(r)
<1>1. d = IF ~c.local_busy /\ c3.send_fbit THEN send_sframe(c3, "RR", no, yes, c.buffer_seq)
          ELSE c3
  BY DEF send_i_or_rr_or_rnr, MarkOwing
<1>2. Good(calm, c1) /\ Keeps(c, c1)
  BY Owes
<1>3. yes \in BOOLEAN /\ no \in BOOLEAN /\ c.buffer_seq \in Number
      /\ "RR" \in {"RR", "RNR", "SREJ"} /\ "RNR" \in {"RR", "RNR", "SREJ"}
  BY ChanNumbers DEF Good
<1> HIDE DEF yes, no, c1
<1>4. Good(calm, c2) /\ Keeps(c, c2)
  <2>1. CASE c.local_busy
    <3>1. ~calm
      BY <2>1 DEF Good, Calm
    <3>2. c2 = send_sframe(c1, "RNR", no, yes, c.buffer_seq) /\ c1.buffer_seq = c.buffer_seq
      BY <1>2, <2>1 DEF Keeps, SameRx
    <3> HIDE DEF c2
    <3>3. Good(calm, c2) /\ Keeps(c1, c2)
      BY <1>2, <1>3, <3>1, <3>2, Sframes, SMTT(30)
    <3> QED
      BY <1>2, <3>3, KeepsAll
  <2>2. CASE ~c.local_busy
    BY <1>2, <2>2
  <2> QED
    BY <2>1, <2>2
<1> HIDE DEF c2
<1>5. Good(calm, r) /\ Keeps(c, r)
  <2>1. Good(calm, r) /\ Keeps(c2, r)
    BY <1>4, RemoteReadies
  <2> HIDE DEF r
  <2> QED
    BY <1>4, <2>1, KeepsAll
<1> HIDE DEF r
<1>6. Good(calm, c3) /\ Keeps(c, c3)
  <2>1. Good(calm, c3) /\ Keeps(r, c3)
    BY <1>5, Sends
  <2> HIDE DEF c3
  <2> QED
    BY <1>5, <2>1, KeepsAll
<1> HIDE DEF c3
<1>7. CASE ~c.local_busy /\ c3.send_fbit
  <2>1. d = send_sframe(c3, "RR", no, yes, c.buffer_seq) /\ c3.buffer_seq = c.buffer_seq
    BY <1>1, <1>6, <1>7 DEF Keeps, SameRx
  <2> QED
    BY <1>3, <1>6, <2>1, Sframes
<1>8. CASE ~(~c.local_busy /\ c3.send_fbit)
  BY <1>1, <1>6, <1>8
<1> QED
  BY <1>7, <1>8

\* Final: what is not acknowledged is sent again, and then what is new.
LEMMA Finals ==
    ASSUME NEW calm \in BOOLEAN, NEW c, Good(calm, c), NEW f \in Frame, NEW d, d = Final(c, f)
    PROVE  Good(calm, d) /\ Keeps(c, d)
<1> DEFINE e == retransmit_all(c, f.reqseq)
<1>1. f.reqseq \in Number
  BY DEF Frame
<1>2. Good(calm, e) /\ Keeps(c, e)
  BY <1>1, RetransmitsAll
<1>3. d = ertm_send(e)
  BY DEF Final
<1> HIDE DEF e
<1>4. Good(calm, d) /\ Keeps(e, d)
  BY <1>2, <1>3, Sends
<1> QED
  BY <1>2, <1>4, KeepsAll

LEMMA Remembers ==
    ASSUME NEW calm \in BOOLEAN, NEW c, Good(calm, c), NEW f \in Frame,
           NEW d, d = RememberSrej(c, f)
    PROVE  Good(calm, d)
<1> DEFINE yes == TRUE
<1>1. /\ c \in Chan /\ c.remote_busy \in BOOLEAN /\ c.send_fbit \in BOOLEAN
      /\ f.reqseq \in Number /\ yes \in BOOLEAN /\ (calm => ~c.remote_busy)
  BY ChanNumbers DEF Good, Chan, Calm, Frame
<1>2. d = IF c.tx_state = "WAIT_F"
          THEN PutFlags(c, c.remote_busy, c.send_fbit, yes, f.reqseq) ELSE c
  <2>1. d = IF c.tx_state = "WAIT_F"
            THEN [c EXCEPT !.srej_act = yes, !.srej_save = f.reqseq] ELSE c
    BY DEF RememberSrej
  <2> DEFINE save == f.reqseq
  <2> HIDE DEF yes, save
  <2>2. [c EXCEPT !.srej_act = yes, !.srej_save = save] =
            PutFlags(c, c.remote_busy, c.send_fbit, yes, save)
    BY <1>1 DEF PutFlags, Chan
  <2> QED
    BY <2>1, <2>2 DEF save
<1> HIDE DEF yes
<1>3. CASE c.tx_state = "WAIT_F"
  <2>1. d = PutFlags(c, c.remote_busy, c.send_fbit, yes, f.reqseq)
    BY <1>2, <1>3
  <2> QED
    BY <1>1, <2>1, GoodFlags, SMTT(30)
<1>4. CASE c.tx_state # "WAIT_F"
  BY <1>2, <1>4
<1> QED
  BY <1>3, <1>4

Forget(c) == [c EXCEPT !.srej_act = FALSE]

LEMMA Forgets ==
    ASSUME NEW calm \in BOOLEAN, NEW c, Good(calm, c), NEW d, d = Forget(c)
    PROVE  Good(calm, d)
<1> DEFINE no == FALSE
<1>1. /\ c \in Chan /\ c.remote_busy \in BOOLEAN /\ c.send_fbit \in BOOLEAN
      /\ c.srej_save \in Number /\ no \in BOOLEAN /\ (calm => ~c.remote_busy)
  BY ChanNumbers DEF Good, Chan, Calm
<1>2. d = [c EXCEPT !.srej_act = no]
  BY DEF Forget
<1> HIDE DEF no
<1>3. d = PutFlags(c, c.remote_busy, c.send_fbit, no, c.srej_save)
  BY <1>1, <1>2 DEF PutFlags, Chan
<1> QED
  BY <1>1, <1>3, GoodFlags

LEMMA SrejHandled ==
    ASSUME NEW calm \in BOOLEAN, NEW c, Good(calm, c), NEW f \in Frame,
           valid_reqseq(c, f.reqseq), NEW d, d = handle_srej(c, f)
    PROVE  Good(calm, d)
<1> DEFINE i == Find(c.tx_q, f.reqseq)
           c1 == MarkReady(c)
           c2 == pass_to_tx_fbit(c1, f.final)
           p == pass_to_tx(c1, f)
           o == MarkOwing(p)
           r == retransmit(o, f.reqseq)
           s == ertm_send(r)
           r2 == retransmit(c2, f.reqseq)
<1>1. f.reqseq \in Number /\ f.final \in BOOLEAN
  BY DEF Frame
<1>2. d = IF f.reqseq = c.next_tx_seq THEN send_disconn_req(c)
          ELSE IF i = 0 THEN c
          ELSE IF c.max_tx # 0 /\ c.tx_q[i].retries >= c.max_tx THEN send_disconn_req(c)
          ELSE IF f.poll THEN RememberSrej(s, f)
          ELSE IF ~f.final THEN RememberSrej(r2, f)
          ELSE IF c2.srej_act /\ c2.srej_save = f.reqseq THEN Forget(c2)
          ELSE r2
  BY DEF handle_srej, MarkReady, MarkOwing, Forget
<1>3. Good(calm, send_disconn_req(c))
  BY Disconnects
<1>4. Good(calm, c1) /\ SameTx(c, c1)
  BY Ready
<1> HIDE DEF c1, i
<1>5. valid_reqseq(c1, f.reqseq)
  BY <1>4 DEF valid_reqseq, SameTx
<1>6. Good(calm, c2)
  BY <1>1, <1>4, FbitPasses
<1>7. Good(calm, p)
  BY <1>4, <1>5, PassesToTx
<1> HIDE DEF c2, p
<1>8. Good(calm, r2) /\ Good(calm, o)
  BY <1>1, <1>6, <1>7, Retransmits, Owes
<1> HIDE DEF o, r2
<1>9. Good(calm, r)
  BY <1>1, <1>8, Retransmits
<1> HIDE DEF r
<1>10. Good(calm, s)
  BY <1>9, Sends
<1> HIDE DEF s
<1>11. Good(calm, RememberSrej(s, f)) /\ Good(calm, RememberSrej(r2, f)) /\ Good(calm, Forget(c2))
  BY <1>6, <1>8, <1>10, Remembers, Forgets
<1> QED
  BY <1>2, <1>3, <1>8, <1>11

LEMMA RRs ==
    ASSUME NEW calm \in BOOLEAN, NEW c, Good(calm, c), NEW f \in Frame,
           valid_reqseq(c, f.reqseq), NEW d, d = RecvRR(c, f)
    PROVE  Good(calm, d)
<1> DEFINE c1 == pass_to_tx(c, f)
           m == MarkReady(c1)
           r == RemoteReady(c1)
           o == MarkOwing(r)
           sent == c.rx_state = "SREJ_SENT"
<1>1. d = IF f.final THEN Final(m, f)
          ELSE IF f.poll THEN IF sent THEN send_srej_tail(o) ELSE send_i_or_rr_or_rnr(c1)
          ELSE IF sent THEN send_ack(r) ELSE ertm_send(r)
  BY DEF RecvRR, MarkReady, MarkOwing
<1>2. Good(calm, c1)
  BY PassesToTx
<1> HIDE DEF c1, sent
<1>3. Good(calm, m) /\ Good(calm, r)
  BY <1>2, Ready, RemoteReadies
<1> HIDE DEF m, r
<1>4. Good(calm, o)
  BY <1>3, Owes
<1> HIDE DEF o
<1>5. /\ Good(calm, Final(m, f)) /\ Good(calm, send_srej_tail(o))
      /\ Good(calm, send_i_or_rr_or_rnr(c1)) /\ Good(calm, send_ack(r))
      /\ Good(calm, ertm_send(r))
  BY <1>2, <1>3, <1>4, Finals, SrejTails, Answers, Acks, Sends
<1> QED
  BY <1>1, <1>5

LEMMA RetransStops ==
    ASSUME NEW c, Good(FALSE, c), NEW d, d = clear_timer(c, "retrans")
    PROVE  Good(FALSE, d)
<1> DEFINE no == FALSE
           armed == c.armed \ {"retrans"}
<1>1. c \in Chan /\ c.armed \in SUBSET Timer /\ (c.up => Timed(c))
      /\ c.tx_state \in {"XMIT", "WAIT_F"}
  BY ChanNumbers DEF Good
<1>2. armed \in SUBSET Timer /\ ("monitor" \in armed <=> "monitor" \in c.armed)
  BY <1>1
<1>3. d = PutTimers(c, armed)
  BY DEF clear_timer, PutTimers
<1>4. no \in BOOLEAN /\ ~no /\ Good(no, c) /\ no = FALSE
  OBVIOUS
<1> HIDE DEF armed, no
<1>5. c.up => \/ c.tx_state = "WAIT_F" /\ ("monitor" \in armed \/ "monitor" \notin c.armed)
              \/ c.tx_state = "XMIT" /\ "monitor" \notin armed
  BY <1>1, <1>2 DEF Timed
<1>6. Good(no, d)
  BY <1>2, <1>3, <1>4, <1>5, TimersGood
<1> QED
  BY <1>4, <1>6

RemoteBusy(c) == [c EXCEPT !.remote_busy = TRUE]

LEMMA RNRs ==
    ASSUME NEW c, Good(FALSE, c), NEW f \in Frame,
           valid_reqseq(c, f.reqseq), NEW d, d = RecvRNR(c, f)
    PROVE  Good(FALSE, d)
<1> DEFINE no == FALSE
           yes == TRUE
           b == RemoteBusy(c)
           c1 == pass_to_tx(b, f)
           o == MarkOwing(c1)
           r == send_rr_or_rnr(o, FALSE)
           s == send_sframe(c1, "RR", FALSE, FALSE, c.buffer_seq)
           x == IF f.poll THEN r ELSE c1
<1>1. d = IF c.rx_state = "RECV" THEN clear_timer(x, "retrans")
          ELSE IF f.poll THEN send_srej_tail(c1) ELSE s
  BY DEF RecvRNR, RemoteBusy, MarkOwing
<1>2. no \in BOOLEAN /\ ~no /\ Good(no, c) /\ yes \in BOOLEAN /\ no = FALSE
  OBVIOUS
<1>3. Good(no, b) /\ Keeps(c, b) /\ SameTx(c, b)
  <2>1. /\ c \in Chan /\ c.send_fbit \in BOOLEAN /\ c.srej_act \in BOOLEAN
        /\ c.srej_save \in Number
    BY ChanNumbers DEF Good, Chan
  <2>2. b = [c EXCEPT !.remote_busy = yes]
    BY DEF RemoteBusy
  <2> HIDE DEF b, yes, no
  <2>3. b = PutFlags(c, yes, c.send_fbit, c.srej_act, c.srej_save)
    BY <2>1, <2>2 DEF PutFlags, Chan
  <2> QED
    BY <1>2, <2>1, <2>3, GoodFlags
<1> HIDE DEF b
<1>4. valid_reqseq(b, f.reqseq)
  BY <1>3 DEF valid_reqseq, SameTx
<1>5. Good(no, c1) /\ Keeps(b, c1)
  <2> HIDE DEF no
  <2> QED
    BY <1>2, <1>3, <1>4, PassesToTx
<1>6. c1.buffer_seq = c.buffer_seq /\ c.buffer_seq \in Number
  BY <1>3, <1>5, ChanNumbers DEF Keeps, SameRx, Good
<1> HIDE DEF c1
<1>7. Good(no, o)
  <2> HIDE DEF no
  <2> QED
    BY <1>2, <1>5, Owes
<1> HIDE DEF o
<1>8. Good(no, r)
  <2>1. r = send_rr_or_rnr(o, no)
    OBVIOUS
  <2> HIDE DEF no, r
  <2> QED
    BY <1>2, <1>7, <2>1, Reports
<1>9. Good(no, s)
  <2>1. s = send_sframe(c1, "RR", no, no, c.buffer_seq) /\ "RR" \in {"RR", "RNR", "SREJ"}
    OBVIOUS
  <2> HIDE DEF no, s
  <2> QED
    BY <1>2, <1>5, <1>6, <2>1, Sframes
<1>10. Good(no, send_srej_tail(c1))
  <2> HIDE DEF no
  <2> QED
    BY <1>2, <1>5, SrejTails
<1>11. Good(FALSE, x)
  BY <1>5, <1>8
<1> HIDE DEF x, r, s
<1>12. Good(FALSE, clear_timer(x, "retrans"))
  BY <1>11, RetransStops
<1> QED
  BY <1>1, <1>2, <1>9, <1>10, <1>12

-----------------------------------------------------------------------------
(* Frames with data *)

Powers == {1, 2, 4, 8, 16, 32, 64}

LEMMA SlotsIs ==
    Slots \in Powers /\ TxWin <= Slots /\ Slots <= Modulus /\ Modulus \in Powers
<1> DEFINE T == {n \in Powers : n >= TxWin}
<1>1. Modulus \in Powers /\ TxWin \in Nat /\ TxWin <= Modulus
  BY WindowFits DEF Powers
<1>2. Modulus \in T /\ T \subseteq Nat /\ \A n \in T : n \in Powers /\ n >= TxWin
  BY <1>1 DEF Powers
<1>3. Slots = Min(T)
  BY DEF Slots, Powers
<1> HIDE DEF T
<1>4. Slots \in T /\ Slots <= Modulus
  BY <1>2, <1>3, MinIs
<1> QED
  BY <1>1, <1>2, <1>4

\* Numbers whose distances from a third are less than a number of slots that divides a turn.
LEMMA SlotsTellApart ==
    ASSUME NEW S \in Powers, NEW M \in Powers, S <= M,
           NEW x \in 0 .. M - 1, NEW y \in 0 .. M - 1, NEW z \in 0 .. M - 1,
           NEW u, u = IF x >= z THEN x - z ELSE x - z + M, u < S,
           NEW v, v = IF y >= z THEN y - z ELSE y - z + M, v < S,
           x % S = y % S
    PROVE  x = y
<1>1. CASE S = 1
  BY <1>1 DEF Powers
<1>2. CASE S = 2
  BY <1>2 DEF Powers
<1>3. CASE S = 4
  BY <1>3 DEF Powers
<1>4. CASE S = 8
  BY <1>4 DEF Powers
<1>5. CASE S = 16
  BY <1>5 DEF Powers
<1>6. CASE S = 32
  BY <1>6 DEF Powers
<1>7. CASE S = 64
  BY <1>7 DEF Powers
<1> QED
  BY <1>1, <1>2, <1>3, <1>4, <1>5, <1>6, <1>7 DEF Powers

LEMMA SameSlot ==
    ASSUME NEW x \in Number, NEW y \in Number, NEW z \in Number,
           offset(x, z) < TxWin, offset(y, z) < TxWin, x % Slots = y % Slots
    PROVE  x = y
<1> DEFINE u == offset(x, z)
           v == offset(y, z)
<1>1. /\ u = IF x >= z THEN x - z ELSE x - z + Modulus
      /\ v = IF y >= z THEN y - z ELSE y - z + Modulus
      /\ u \in Nat /\ v \in Nat
  BY OffsetIs, Numbers
<1>2. Slots \in Powers /\ Modulus \in Powers /\ Slots <= Modulus /\ Slots \in Nat
      /\ TxWin <= Slots /\ TxWin \in Nat
  BY SlotsIs, Numbers DEF Powers
<1>3. u < TxWin /\ v < TxWin
  OBVIOUS
<1> HIDE DEF u, v
<1>4. u < Slots /\ v < Slots
  BY <1>1, <1>2, <1>3
<1>5. x \in 0 .. Modulus - 1 /\ y \in 0 .. Modulus - 1 /\ z \in 0 .. Modulus - 1
  BY DEF Number
<1> QED
  BY <1>1, <1>2, <1>4, <1>5, SlotsTellApart

\* What the receiver's invariant says about distances from what is acknowledged.
LEMMA Window ==
    ASSUME NEW c \in Chan, RxInv(c)
    PROVE  LET acked == offset(c.buffer_seq, c.last_acked_seq)
               end == offset(c.expected_tx_seq, c.buffer_seq)
           IN  /\ acked \in Nat /\ end \in Nat /\ acked + end <= TxWin
               /\ TxWin \in Nat /\ Modulus \in Nat /\ TxWin < Modulus
               /\ offset(c.expected_tx_seq, c.last_acked_seq) = acked + end
               /\ \A x \in Number : offset(x, c.buffer_seq) < end =>
                     offset(x, c.last_acked_seq) < acked + end
               /\ \A x \in Number : offset(x, c.last_acked_seq) \in Nat
               /\ \A x \in Number : offset(x, c.buffer_seq) \in Nat
               /\ \A x \in Number : acked + end <= offset(x, c.last_acked_seq) =>
                     /\ offset(x, c.last_acked_seq) = acked + end + offset(x, c.expected_tx_seq)
                     /\ offset(x, c.expected_tx_seq) \in Nat
               /\ \A x \in Number : acked + end <= offset(x, c.last_acked_seq) =>
                     offset(x, c.buffer_seq) >= end
<1> DEFINE B == c.buffer_seq
           E == c.expected_tx_seq
           L == c.last_acked_seq
           acked == offset(B, L)
           end == offset(E, B)
<1>1. B \in Number /\ E \in Number /\ L \in Number
  BY ChanNumbers
<1>2. /\ acked \in Nat /\ end \in Nat
      /\ TxWin \in Nat /\ Modulus \in Nat /\ TxWin < Modulus
      /\ \A x \in Number : offset(x, L) \in Nat /\ offset(x, B) \in Nat /\ offset(x, E) \in Nat
                           /\ offset(x, L) < Modulus
  BY <1>1, OffsetIs, Numbers
<1>3. acked + end <= TxWin
  BY DEF RxInv
<1>4. acked + end < Modulus => offset(E, L) = acked + end
  BY <1>1, OffsetsAdd
<1> HIDE DEF B, E, L
<1>5. \A x \in Number : acked + offset(x, B) < Modulus => offset(x, L) = acked + offset(x, B)
  BY <1>1, OffsetsAdd
<1>6. \A x \in Number : offset(E, L) <= offset(x, L) =>
          offset(x, L) = offset(E, L) + offset(x, E)
  BY <1>1, OffsetsAdd
<1> HIDE DEF acked, end
<1>7. offset(E, L) = acked + end
  BY <1>2, <1>3, <1>4
<1>8. \A x \in Number : offset(x, B) < end => offset(x, L) < acked + end
  BY <1>2, <1>3, <1>5
<1>9. \A x \in Number : acked + end <= offset(x, L) =>
          offset(x, L) = acked + end + offset(x, E)
  BY <1>6, <1>7
<1>10. \A x \in Number : acked + end <= offset(x, L) => offset(x, B) >= end
  BY <1>2, <1>8
<1> QED
  BY <1>2, <1>3, <1>7, <1>8, <1>9, <1>10 DEF acked, end, B, E, L

\* What classify_txseq says is so.
LEMMA Classes ==
    ASSUME NEW c \in Chan, RxInv(c), NEW t \in Number, NEW class, class = classify_txseq(c, t)
    PROVE  LET ahead == offset(t, c.last_acked_seq)
               end == offset(c.expected_tx_seq, c.last_acked_seq)
               stored == \E g \in c.srej_q : g.txseq = t
           IN  /\ c.rx_state = "RECV" =>
                     class \in {"INVALID_IGNORE", "INVALID", "EXPECTED", "DUPLICATE", "UNEXPECTED"}
               /\ class \in {"INVALID_IGNORE", "INVALID", "EXPECTED", "DUPLICATE", "UNEXPECTED",
                             "EXPECTED_SREJ", "DUPLICATE_SREJ", "UNEXPECTED_SREJ"}
               /\ class = "EXPECTED" => t = c.expected_tx_seq /\ ahead < TxWin
               /\ class = "UNEXPECTED" => t # c.expected_tx_seq /\ end <= ahead /\ ahead < TxWin
               /\ class = "EXPECTED_SREJ" => c.srej_list # <<>> /\ Head(c.srej_list) = t
               /\ class = "UNEXPECTED_SREJ" => ahead < TxWin /\ Listed(c.srej_list, t) /\ ~stored
<1>1. /\ offset(t, c.last_acked_seq) \in Nat /\ TxWin \in Nat
      /\ offset(c.expected_tx_seq, c.last_acked_seq) \in Nat
  BY ChanNumbers, OffsetIs, Numbers
<1> QED
  BY <1>1 DEF classify_txseq, Outside

-----------------------------------------------------------------------------
(* Frames of information *)

Kept(f) == [txseq |-> f.txseq, sdu |-> f.sdu]

LEMMA FrameFields ==
    ASSUME NEW f \in Frame
    PROVE  /\ f.txseq \in Number /\ f.reqseq \in Number /\ f.sdu \in Nat
           /\ f.poll \in BOOLEAN /\ f.final \in BOOLEAN
           /\ f.super \in {"I", "RR", "RNR", "SREJ"}
           /\ Kept(f) \in Frames /\ Kept(f).txseq = f.txseq
  BY DEF Frame, Kept, Frames, Number

LEMMA Stores ==
    ASSUME NEW c \in Chan, NEW f \in Frame
    PROVE  Store(c, f) = PutRx(c, c.expected_tx_seq, c.buffer_seq, c.srej_q \cup {Kept(f)},
                               c.srej_list, c.rx_state, c.srej_act)
  BY DEF Store, PutRx, Chan, Kept

\* A frame beyond the one that is expected, stored, leaves a gap.
LEMMA MakesGap ==
    ASSUME NEW c \in Chan, RxInv(c), NEW f \in Frame,
           offset(c.expected_tx_seq, c.last_acked_seq) <= offset(f.txseq, c.last_acked_seq),
           offset(f.txseq, c.last_acked_seq) < TxWin,
           NEW list \in Seq(Number), list = <<>> \/ list = c.srej_list, NEW d, NEW rx_state,
           RxIs(d, c.expected_tx_seq, c.buffer_seq, c.srej_q \cup {Kept(f)}, list, rx_state),
           d.last_acked_seq = c.last_acked_seq
    PROVE  Gap(d, f.txseq)
<1> DEFINE ahead(x) == offset(x, c.buffer_seq)
           acked == offset(c.buffer_seq, c.last_acked_seq)
           end == ahead(c.expected_tx_seq)
           t == f.txseq
           n == offset(t, c.expected_tx_seq)
<1>1. t \in Number /\ Kept(f).txseq = t
  BY FrameFields
<1>2. offset(t, c.last_acked_seq) = acked + end + n /\ ahead(t) >= end
      /\ acked + end + n < TxWin /\ ahead(t) \in Nat /\ end \in Nat
  BY <1>1, Window
<1>3. /\ \A g \in c.srej_q : ahead(g.txseq) < end
      /\ \A g, h \in c.srej_q : g.txseq = h.txseq => g = h
      /\ ListFits(c.srej_list, c.buffer_seq, end, c.srej_q)
  BY DEF RxInv, ListFits
<1>4. \A g \in c.srej_q : g.txseq # t
  BY <1>2, <1>3
<1>5. ListFits(list, c.buffer_seq, end, c.srej_q \cup {Kept(f)})
  <2>1. CASE list = <<>>
    BY <2>1 DEF ListFits
  <2>2. CASE list = c.srej_list
    <3>1. \A i \in DOMAIN list : list[i] # t
      BY <1>2, <1>3, <2>2 DEF ListFits
    <3> QED
      BY <1>1, <1>3, <2>2, <3>1 DEF ListFits
  <2> QED
    BY <2>1, <2>2
<1>6. \E g \in c.srej_q \cup {Kept(f)} : g.txseq = t
  BY <1>1
<1>7. \A g \in c.srej_q \cup {Kept(f)} : ahead(g.txseq) < end \/ g.txseq = t
  BY <1>1, <1>3
<1>8. \A g, h \in c.srej_q \cup {Kept(f)} : g.txseq = h.txseq => g = h
  BY <1>1, <1>3, <1>4
<1> HIDE DEF acked, end, n
<1> QED
  BY <1>2, <1>5, <1>6, <1>7, <1>8 DEF Gap, RxIs, acked, end, n, ahead

\* The receiver's invariant, of its parts.
RxOf(last, expected, buffer, srej_q, list, rx_state) ==
    LET ahead(x) == offset(x, buffer)
        end == ahead(expected)
    IN  /\ offset(buffer, last) + end <= TxWin
        /\ \A f \in srej_q : ahead(f.txseq) < end
        /\ \A f, g \in srej_q : f.txseq = g.txseq => f = g
        /\ \A i \in DOMAIN list : ahead(list[i]) < end
        /\ \A i, j \in DOMAIN list : list[i] = list[j] => i = j
        /\ \A i \in DOMAIN list, f \in srej_q : list[i] # f.txseq
        /\ end = 0 \/ \E f \in srej_q : next(f.txseq) = expected
        /\ rx_state = "RECV" => end = 0

LEMMA RxOfIs ==
    ASSUME NEW d, NEW last, NEW expected, NEW buffer, NEW srej_q, NEW list, NEW rx_state,
           RxIs(d, expected, buffer, srej_q, list, rx_state), d.last_acked_seq = last,
           RxOf(last, expected, buffer, srej_q, list, rx_state)
    PROVE  RxInv(d)
  BY DEF RxOf, RxInv, RxIs

\* The frame that is expected, stored behind the gap.
LEMMA StoresNext ==
    ASSUME NEW calm \in BOOLEAN, NEW c, Good(calm, c), NEW f \in Frame,
           c.rx_state = "SREJ_SENT", f.txseq = c.expected_tx_seq,
           offset(f.txseq, c.last_acked_seq) < TxWin,
           NEW e, e = next(f.txseq), NEW q, q = c.srej_q \cup {Kept(f)},
           NEW d, d = PutRx(c, e, c.buffer_seq, q, c.srej_list, c.rx_state, c.srej_act)
    PROVE  Good(calm, d)
<1> DEFINE ahead(x) == offset(x, c.buffer_seq)
           acked == offset(c.buffer_seq, c.last_acked_seq)
           end == ahead(c.expected_tx_seq)
<1>1. c \in Chan /\ RxInv(c) /\ Fit(calm, c)
  BY DEF Good, Fit
<1>2. f.txseq \in Number /\ Kept(f).txseq = f.txseq /\ e \in Number /\ q \in SUBSET Frames
      /\ c.buffer_seq \in Number /\ c.srej_list \in Seq(Number) /\ c.rx_state \in RxStates
      /\ c.srej_act \in BOOLEAN
  BY <1>1, FrameFields, ChanNumbers, NextIs DEF RxStates
<1>3. /\ offset(c.expected_tx_seq, c.last_acked_seq) = acked + end /\ acked \in Nat
      /\ end \in Nat /\ TxWin \in Nat /\ Modulus \in Nat /\ TxWin < Modulus
  BY <1>1, Window
<1>4. ahead(f.txseq) + 1 < Modulus => ahead(e) = ahead(f.txseq) + 1
  BY <1>2, OffsetsAdd
<1>5. /\ \A g \in c.srej_q : ahead(g.txseq) < end
      /\ \A g, h \in c.srej_q : g.txseq = h.txseq => g = h
      /\ \A i \in DOMAIN c.srej_list : ahead(c.srej_list[i]) < end
      /\ \A i, j \in DOMAIN c.srej_list : c.srej_list[i] = c.srej_list[j] => i = j
      /\ \A i \in DOMAIN c.srej_list, g \in c.srej_q : c.srej_list[i] # g.txseq
  BY <1>1 DEF RxInv
<1>6. Fit(calm, d) /\ RxIs(d, e, c.buffer_seq, q, c.srej_list, c.rx_state)
      /\ d.last_acked_seq = c.last_acked_seq
  BY <1>1, <1>2, FitRx
<1>7. \A g \in c.srej_q : ahead(g.txseq) \in Nat
  BY <1>1, <1>2, ChanNumbers, Window
<1>8. \A i \in DOMAIN c.srej_list : ahead(c.srej_list[i]) \in Nat
  BY <1>1, <1>2, ChanNumbers, Window
<1> HIDE DEF acked, end
<1>9. ahead(e) = end + 1 /\ ahead(f.txseq) = end /\ acked + ahead(e) <= TxWin
  BY <1>3, <1>4 DEF end
<1>10. \A g \in q : ahead(g.txseq) < end + 1
  BY <1>2, <1>3, <1>5, <1>7, <1>9
<1>11. \A g, h \in q : g.txseq = h.txseq => g = h
  BY <1>2, <1>3, <1>5, <1>9
<1>12. \A i \in DOMAIN c.srej_list : ahead(c.srej_list[i]) < end + 1
  BY <1>3, <1>5, <1>8
<1>13. \A i \in DOMAIN c.srej_list, g \in q : c.srej_list[i] # g.txseq
  BY <1>2, <1>3, <1>5, <1>9
<1>14. \E g \in q : next(g.txseq) = e
  BY <1>2
<1>15. RxInv(d)
  <2>1. /\ offset(c.buffer_seq, c.last_acked_seq) + ahead(e) <= TxWin
        /\ \A g \in q : ahead(g.txseq) < ahead(e)
        /\ \A i \in DOMAIN c.srej_list : ahead(c.srej_list[i]) < ahead(e)
    BY <1>9, <1>10, <1>12 DEF acked
  <2>2. \A i, j \in DOMAIN c.srej_list : c.srej_list[i] = c.srej_list[j] => i = j
    BY <1>5
  <2> QED
    <3>1. RxOf(c.last_acked_seq, e, c.buffer_seq, q, c.srej_list, c.rx_state)
      BY <1>11, <1>13, <1>14, <2>1, <2>2 DEF RxOf
    <3> QED
      BY <1>6, <3>1, RxOfIs
<1> QED
  BY <1>6, <1>15, GoodIs

Follows(list, all) ==
    \A i \in DOMAIN list : i + 1 \in DOMAIN all /\ list[i] = all[i + 1] /\ i \in Nat /\ i # 0

\* The frame that was rejected first, stored.
LEMMA StoresFirst ==
    ASSUME NEW calm \in BOOLEAN, NEW c, Good(calm, c), NEW f \in Frame,
           c.rx_state = "SREJ_SENT", 1 \in DOMAIN c.srej_list, c.srej_list[1] = f.txseq,
           NEW list \in Seq(Number), Follows(list, c.srej_list), NEW q, q = c.srej_q \cup {Kept(f)},
           NEW d, d = PutRx(c, c.expected_tx_seq, c.buffer_seq, q, list, c.rx_state, c.srej_act)
    PROVE  Good(calm, d) /\ d.rx_state = "SREJ_SENT"
<1> DEFINE ahead(x) == offset(x, c.buffer_seq)
           end == ahead(c.expected_tx_seq)
<1>1. c \in Chan /\ RxInv(c) /\ Fit(calm, c)
  BY DEF Good, Fit
<1>2. f.txseq \in Number /\ Kept(f).txseq = f.txseq /\ q \in SUBSET Frames
      /\ c.expected_tx_seq \in Number
      /\ c.buffer_seq \in Number /\ c.srej_list \in Seq(Number) /\ c.rx_state \in RxStates
      /\ c.srej_act \in BOOLEAN
  BY <1>1, FrameFields, ChanNumbers DEF RxStates
<1>3. /\ 1 \in DOMAIN c.srej_list /\ c.srej_list[1] = f.txseq
      /\ list \in Seq(Number)
      /\ \A i \in DOMAIN list : i + 1 \in DOMAIN c.srej_list /\ list[i] = c.srej_list[i + 1]
                                /\ i \in Nat /\ i # 0
  BY DEF Follows
<1>5. /\ \A g \in c.srej_q : ahead(g.txseq) < end
      /\ \A g, h \in c.srej_q : g.txseq = h.txseq => g = h
      /\ \A i \in DOMAIN c.srej_list : ahead(c.srej_list[i]) < end
      /\ \A i, j \in DOMAIN c.srej_list : c.srej_list[i] = c.srej_list[j] => i = j
      /\ \A i \in DOMAIN c.srej_list, g \in c.srej_q : c.srej_list[i] # g.txseq
      /\ offset(c.buffer_seq, c.last_acked_seq) + end <= TxWin
      /\ end = 0 \/ \E g \in c.srej_q : next(g.txseq) = c.expected_tx_seq
  BY <1>1 DEF RxInv
<1>6. Fit(calm, d) /\ RxIs(d, c.expected_tx_seq, c.buffer_seq, q, list, c.rx_state)
      /\ d.last_acked_seq = c.last_acked_seq
  BY <1>1, <1>2, <1>3, FitRx
<1> HIDE DEF end
<1>10. \A g \in q : ahead(g.txseq) < end
  BY <1>2, <1>3, <1>5
<1>11. \A g, h \in q : g.txseq = h.txseq => g = h
  BY <1>2, <1>3, <1>5
<1>12. \A i \in DOMAIN list : ahead(list[i]) < end
  BY <1>3, <1>5
<1>13. \A i \in DOMAIN list, g \in q : list[i] # g.txseq
  <2> SUFFICES ASSUME NEW i \in DOMAIN list, NEW g \in q, list[i] = g.txseq
               PROVE  FALSE
    OBVIOUS
  <2>1. i + 1 \in DOMAIN c.srej_list /\ list[i] = c.srej_list[i + 1] /\ i + 1 # 1
    BY <1>3
  <2>2. g = Kept(f)
    BY <1>5, <2>1
  <2>3. c.srej_list[i + 1] = c.srej_list[1]
    BY <1>2, <1>3, <2>1, <2>2
  <2> QED
    BY <1>3, <1>5, <2>1, <2>3
<1>14. \A i, j \in DOMAIN list : list[i] = list[j] => i = j
  <2> SUFFICES ASSUME NEW i \in DOMAIN list, NEW j \in DOMAIN list, list[i] = list[j]
               PROVE  i = j
    OBVIOUS
  <2>1. i + 1 = j + 1
    BY <1>3, <1>5
  <2> QED
    BY <1>3, <2>1
<1>15. end = 0 \/ \E g \in q : next(g.txseq) = c.expected_tx_seq
  BY <1>5
<1>16. RxInv(d)
  <2>1. RxOf(c.last_acked_seq, c.expected_tx_seq, c.buffer_seq, q, list, c.rx_state)
    BY <1>5, <1>10, <1>11, <1>12, <1>13, <1>14, <1>15 DEF RxOf, end
  <2> QED
    BY <1>6, <2>1, RxOfIs
<1> QED
  BY <1>6, <1>16, GoodIs DEF RxIs

Advance(c, seq) == [c EXCEPT !.expected_tx_seq = seq, !.buffer_seq = seq]

LEMMA Advances ==
    ASSUME NEW calm \in BOOLEAN, NEW c, Good(calm, c), c.rx_state = "RECV",
           NEW seq, seq = next(c.expected_tx_seq),
           offset(c.expected_tx_seq, c.last_acked_seq) < TxWin, NEW d, d = Advance(c, seq)
    PROVE  Good(calm, d)
<1> DEFINE e == c.expected_tx_seq
           acked == offset(c.buffer_seq, c.last_acked_seq)
           end == offset(e, c.buffer_seq)
           far == offset(seq, c.last_acked_seq)
<1>1. c \in Chan /\ RxInv(c) /\ Fit(calm, c)
  BY DEF Good, Fit
<1>2. e \in Number /\ seq \in Number /\ c.buffer_seq \in Number /\ c.last_acked_seq \in Number
      /\ c.srej_list \in Seq(Number) /\ c.srej_q \in SUBSET Frames /\ c.rx_state \in RxStates
      /\ c.srej_act \in BOOLEAN
  BY <1>1, ChanNumbers, NextIs DEF RxStates
<1>3. d = PutRx(c, seq, seq, c.srej_q, c.srej_list, c.rx_state, c.srej_act)
  BY <1>1, <1>2 DEF PutRx, Chan, Advance
<1>4. Fit(calm, d) /\ RxIs(d, seq, seq, c.srej_q, c.srej_list, c.rx_state)
      /\ d.last_acked_seq = c.last_acked_seq
  BY <1>1, <1>2, <1>3, FitRx
<1>5. end = 0
  BY <1>1 DEF RxInv
<1>6. /\ offset(e, c.last_acked_seq) = acked + end /\ acked \in Nat
      /\ TxWin \in Nat /\ Modulus \in Nat /\ TxWin < Modulus
  BY <1>1, Window
<1>7. offset(e, c.last_acked_seq) + 1 < Modulus => far = offset(e, c.last_acked_seq) + 1
  BY <1>2, OffsetsAdd
<1>8. offset(seq, seq) = 0
  BY <1>2, OffsetsAdd
<1>9. c.srej_q = {} /\ \A i \in DOMAIN c.srej_list : FALSE
  <2>1. \A x \in Number : offset(x, c.buffer_seq) \in Nat
    BY <1>1, Window
  <2>2. /\ \A f \in c.srej_q : offset(f.txseq, c.buffer_seq) < 0
        /\ \A i \in DOMAIN c.srej_list : offset(c.srej_list[i], c.buffer_seq) < 0
    BY <1>1, <1>5 DEF RxInv
  <2>3. /\ \A f \in c.srej_q : f.txseq \in Number
        /\ \A i \in DOMAIN c.srej_list : c.srej_list[i] \in Number
    BY <1>1, ChanNumbers
  <2>4. \A f \in c.srej_q : FALSE
    BY <2>1, <2>2, <2>3
  <2> QED
    BY <2>1, <2>2, <2>3, <2>4
<1> HIDE DEF acked, end
<1>10. far <= TxWin /\ far \in Nat
  <2> HIDE DEF far, e
  <2>1. offset(e, c.last_acked_seq) < TxWin
    BY DEF e
  <2> QED
    BY <1>5, <1>6, <1>7, <2>1
<1>11. RxOf(c.last_acked_seq, seq, seq, c.srej_q, c.srej_list, c.rx_state)
  BY <1>8, <1>9, <1>10 DEF RxOf
<1> QED
  BY <1>4, <1>11, RxOfIs, GoodIs

Restart(c) == [c EXCEPT !.srej_act = FALSE, !.srej_list = <<>>]
Rejected(c) == [c EXCEPT !.rx_state = "SREJ_SENT"]

LEMMA RejectionStarts ==
    ASSUME NEW calm \in BOOLEAN, NEW c, Fit(calm, c), RxRest(c), NEW d, d = Rejected(c)
    PROVE  Good(calm, d)
<1> DEFINE sent == "SREJ_SENT"
<1>1. sent \in RxStates /\ c \in Chan /\ sent # "RECV"
  BY DEF RxStates, Fit
<1>2. d = PutRx(c, c.expected_tx_seq, c.buffer_seq, c.srej_q, c.srej_list, sent, c.srej_act)
  BY <1>1 DEF Rejected, PutRx, Chan
<1>3. c.expected_tx_seq \in Number /\ c.srej_list \in Seq(Number) /\ c.srej_q \in SUBSET Frames
      /\ c.srej_act \in BOOLEAN /\ c.buffer_seq \in Number
  BY <1>1, ChanNumbers
<1> HIDE DEF sent
<1>4. Fit(calm, d) /\ d.last_acked_seq = c.last_acked_seq
      /\ RxIs(d, c.expected_tx_seq, c.buffer_seq, c.srej_q, c.srej_list, sent)
  BY <1>1, <1>2, <1>3, FitRx
<1>5. RxRest(d)
  BY <1>4 DEF RxRest, RxIs
<1> QED
  BY <1>1, <1>4, <1>5, RxRestIs, GoodIs DEF RxIs

LEMMA Unexpecteds ==
    ASSUME NEW calm \in BOOLEAN, NEW c, Good(calm, c), NEW f \in Frame,
           offset(c.expected_tx_seq, c.last_acked_seq) <= offset(f.txseq, c.last_acked_seq),
           offset(f.txseq, c.last_acked_seq) < TxWin,
           NEW d, d = Rejected(send_srej(Restart(Store(c, f)), f.txseq))
    PROVE  Good(calm, d)
<1> DEFINE q == c.srej_q \cup {Kept(f)}
           none == <<>>
           no == FALSE
           g == Restart(Store(c, f))
           h == send_srej(g, f.txseq)
<1>1. c \in Chan /\ RxInv(c) /\ Fit(calm, c)
  BY DEF Good, Fit
<1>2. q \in SUBSET Frames /\ f.txseq \in Number /\ none \in Seq(Number) /\ no \in BOOLEAN
      /\ c.expected_tx_seq \in Number /\ c.buffer_seq \in Number /\ c.rx_state \in RxStates
  BY <1>1, FrameFields, ChanNumbers DEF RxStates
<1>3. g = PutRx(c, c.expected_tx_seq, c.buffer_seq, q, none, c.rx_state, no)
  BY <1>1 DEF Restart, Store, PutRx, Chan, Kept
<1> HIDE DEF g, no
<1>4. Gap(g, f.txseq) /\ Fit(calm, g)
  <2>1. Fit(calm, g) /\ RxIs(g, c.expected_tx_seq, c.buffer_seq, q, none, c.rx_state)
        /\ g.last_acked_seq = c.last_acked_seq
    <3> HIDE DEF q, none
    <3> QED
      BY <1>1, <1>2, <1>3, FitRx
  <2> QED
    BY <1>1, <1>2, <2>1, MakesGap
<1>5. Fit(calm, h) /\ RxRest(h)
  BY <1>2, <1>4, Srejs
<1>6. d = Rejected(h)
  BY DEF g, h
<1> HIDE DEF h
<1> QED
  BY <1>5, <1>6, RejectionStarts

\* An I-frame while nothing is missing.
LEMMA Iframes ==
    ASSUME NEW calm \in BOOLEAN, NEW c, Good(calm, c), c.rx_state = "RECV", NEW f \in Frame,
           valid_reqseq(c, f.reqseq), NEW fill \in Nat, calm => fill = 0,
           NEW d, d = RecvIframe(c, f, fill)
    PROVE  Good(calm, d)
<1> DEFINE class == classify_txseq(c, f.txseq)
           c1 == pass_to_tx(c, f)
           g == Advance(c1, next(f.txseq))
           c2 == recv(g, f.sdu, fill = 1)
           c3 == IF f.final THEN Final(c2, f) ELSE c2
           c4 == IF c3.local_busy THEN c3 ELSE send_ack(c3)
           c5 == IF ~c2.up THEN c2 ELSE c4
           u == Rejected(send_srej(Restart(Store(c1, f)), f.txseq))
<1>1. c \in Chan /\ RxInv(c)
  BY DEF Good
<1>2. f.txseq \in Number /\ f.sdu \in Nat /\ f.final \in BOOLEAN
  BY FrameFields
<1>3. /\ class \in {"INVALID_IGNORE", "INVALID", "EXPECTED", "DUPLICATE", "UNEXPECTED"}
      /\ class = "EXPECTED" => /\ f.txseq = c.expected_tx_seq
                               /\ offset(f.txseq, c.last_acked_seq) < TxWin
      /\ class = "UNEXPECTED" =>
             /\ offset(c.expected_tx_seq, c.last_acked_seq) <= offset(f.txseq, c.last_acked_seq)
             /\ offset(f.txseq, c.last_acked_seq) < TxWin
  BY <1>1, <1>2, Classes
<1>4. /\ Good(calm, c1) /\ c1.last_acked_seq = c.last_acked_seq
      /\ c1.expected_tx_seq = c.expected_tx_seq /\ c1.rx_state = c.rx_state
  BY PassesToTx DEF Keeps, SameRx
<1>5. d = CASE class = "EXPECTED" -> IF c.local_busy THEN c1 ELSE c5
            [] class = "UNEXPECTED" -> IF c.local_busy THEN c1 ELSE u
            [] class = "DUPLICATE" -> c1
            [] class = "INVALID_IGNORE" -> c
            [] class = "INVALID" -> send_disconn_req(c)
  BY DEF RecvIframe, Advance, Restart, Rejected
<1> HIDE DEF c1, class
<1>6. class = "EXPECTED" => Good(calm, c5)
  <2> SUFFICES ASSUME class = "EXPECTED"
               PROVE  Good(calm, c5)
    OBVIOUS
  <2> DEFINE filled == fill = 1
  <2>1. Good(calm, g)
    BY <1>3, <1>4, Advances
  <2>2. filled \in BOOLEAN /\ (calm => ~filled) /\ c2 = recv(g, f.sdu, filled)
    OBVIOUS
  <2> HIDE DEF g, filled, c2
  <2>3. Good(calm, c2)
    BY <1>2, <2>1, <2>2, Received
  <2>4. Good(calm, c3)
    BY <2>3, Finals
  <2> HIDE DEF c3
  <2>5. Good(calm, c4)
    BY <2>4, Acks
  <2> QED
    BY <2>3, <2>5
<1>7. class = "UNEXPECTED" => Good(calm, u)
  <2> HIDE DEF u
  <2> QED
    BY <1>3, <1>4, Unexpecteds DEF u
<1> HIDE DEF c5, u
<1>8. Good(calm, send_disconn_req(c))
  BY Disconnects
<1> QED
  BY <1>3, <1>4, <1>5, <1>6, <1>7, <1>8

LEMMA StoredIs ==
    ASSUME NEW calm \in BOOLEAN, NEW c, Good(calm, c), NEW f \in Frame,
           NEW q, q = c.srej_q \cup {Kept(f)}, NEW d, d = Store(c, f)
    PROVE  /\ Fit(calm, d)
           /\ RxIs(d, c.expected_tx_seq, c.buffer_seq, q, c.srej_list, c.rx_state)
           /\ d.last_acked_seq = c.last_acked_seq
<1>1. c \in Chan /\ Fit(calm, c)
  BY DEF Good, Fit
<1>2. q \in SUBSET Frames /\ c.expected_tx_seq \in Number /\ c.buffer_seq \in Number
      /\ c.srej_list \in Seq(Number) /\ c.rx_state \in RxStates /\ c.srej_act \in BOOLEAN
  BY <1>1, FrameFields, ChanNumbers DEF RxStates
<1>3. d = PutRx(c, c.expected_tx_seq, c.buffer_seq, q, c.srej_list, c.rx_state, c.srej_act)
  BY <1>1, Stores
<1> QED
  BY <1>1, <1>2, <1>3, FitRx

\* A frame beyond the one that is expected, while others are missing.
LEMMA FurtherGaps ==
    ASSUME NEW calm \in BOOLEAN, NEW c, Good(calm, c), NEW f \in Frame,
           c.rx_state = "SREJ_SENT",
           offset(c.expected_tx_seq, c.last_acked_seq) <= offset(f.txseq, c.last_acked_seq),
           offset(f.txseq, c.last_acked_seq) < TxWin,
           NEW d, d = send_srej(Store(c, f), f.txseq)
    PROVE  Good(calm, d)
<1> DEFINE q == c.srej_q \cup {Kept(f)}
           g == Store(c, f)
<1>1. c \in Chan /\ RxInv(c)
  BY DEF Good
<1>2. f.txseq \in Number /\ c.srej_list \in Seq(Number)
  BY <1>1, FrameFields, ChanNumbers
<1>3. Fit(calm, g) /\ RxIs(g, c.expected_tx_seq, c.buffer_seq, q, c.srej_list, c.rx_state)
      /\ g.last_acked_seq = c.last_acked_seq
  <2> HIDE DEF g, q
  <2> QED
    BY StoredIs DEF g, q
<1> HIDE DEF g
<1>4. Gap(g, f.txseq)
  BY <1>1, <1>2, <1>3, MakesGap
<1>5. Fit(calm, d) /\ RxRest(d) /\ d.rx_state = g.rx_state
  BY <1>2, <1>3, <1>4, Srejs DEF g
<1> QED
  BY <1>3, <1>5, RxRestIs, GoodIs DEF RxIs

\* A frame that was rejected, but not as the first of those that are missing.
LEMMA LaterOnes ==
    ASSUME NEW calm \in BOOLEAN, NEW c, Good(calm, c), NEW f \in Frame,
           c.rx_state = "SREJ_SENT", offset(f.txseq, c.last_acked_seq) < TxWin,
           Listed(c.srej_list, f.txseq), ~\E g \in c.srej_q : g.txseq = f.txseq,
           NEW d, d = send_srej_list(Store(c, f), f.txseq)
    PROVE  Good(calm, d)
<1> DEFINE q == c.srej_q \cup {Kept(f)}
           g == Store(c, f)
           t == f.txseq
           ahead(x) == offset(x, c.buffer_seq)
           acked == offset(c.buffer_seq, c.last_acked_seq)
           end == ahead(c.expected_tx_seq)
<1>1. c \in Chan /\ RxInv(c)
  BY DEF Good
<1>2. t \in Number /\ c.srej_list \in Seq(Number) /\ c.last_acked_seq \in Number
      /\ Kept(f).txseq = t
      /\ \A i \in DOMAIN c.srej_list : c.srej_list[i] \in Number
  BY <1>1, FrameFields, ChanNumbers
<1>3. Fit(calm, g) /\ RxIs(g, c.expected_tx_seq, c.buffer_seq, q, c.srej_list, c.rx_state)
      /\ g.last_acked_seq = c.last_acked_seq
  <2> HIDE DEF g, q
  <2> QED
    BY StoredIs DEF g, q
<1>4. /\ acked + end <= TxWin
      /\ \A h \in c.srej_q : ahead(h.txseq) < end
      /\ \A h, k \in c.srej_q : h.txseq = k.txseq => h = k
      /\ \A i \in DOMAIN c.srej_list : ahead(c.srej_list[i]) < end
      /\ \A i, j \in DOMAIN c.srej_list : c.srej_list[i] = c.srej_list[j] => i = j
      /\ \A i \in DOMAIN c.srej_list, h \in c.srej_q : c.srej_list[i] # h.txseq
      /\ end = 0 \/ \E h \in c.srej_q : next(h.txseq) = c.expected_tx_seq
  BY <1>1 DEF RxInv
<1>5. PICK i \in DOMAIN c.srej_list : c.srej_list[i] % Slots = t % Slots
  BY DEF Listed
<1>6. /\ acked \in Nat /\ end \in Nat /\ TxWin \in Nat
      /\ \A x \in Number : ahead(x) < end => offset(x, c.last_acked_seq) < acked + end
      /\ \A x \in Number : offset(x, c.last_acked_seq) \in Nat
      /\ \A x \in Number : ahead(x) \in Nat
  BY <1>1, Window
<1> HIDE DEF acked, end
<1>7. offset(c.srej_list[i], c.last_acked_seq) < TxWin
  BY <1>2, <1>4, <1>6
<1>8. c.srej_list[i] = t
  BY <1>2, <1>5, <1>7, SameSlot
<1>9. ahead(t) < end /\ end # 0
  BY <1>2, <1>4, <1>6, <1>8
<1> HIDE DEF g, ahead
<1>10. Pending(g, t)
  <2>1. \A h \in q : ahead(h.txseq) < end
    BY <1>2, <1>4, <1>9
  <2>2. \A h, k \in q : h.txseq = k.txseq => h = k
    BY <1>2, <1>4
  <2>3. \A j \in DOMAIN c.srej_list, h \in q : c.srej_list[j] = h.txseq => h.txseq = t
    BY <1>2, <1>4
  <2>4. \E h \in q : next(h.txseq) = c.expected_tx_seq
    BY <1>4, <1>9
  <2>5. \E j \in DOMAIN c.srej_list : c.srej_list[j] = t
    BY <1>8
  <2> HIDE DEF q, t
  <2> QED
    BY <1>3, <1>4, <2>1, <2>2, <2>3, <2>4, <2>5 DEF Pending, RxIs, acked, end, ahead
<1>11. Fit(calm, d) /\ RxRest(d) /\ d.rx_state = g.rx_state
  BY <1>2, <1>3, <1>10, SrejLists DEF g
<1> QED
  BY <1>3, <1>11, RxRestIs, GoodIs DEF RxIs

Behead(c) == [c EXCEPT !.srej_list = Tail(@)]
StartsWith(list, seq) == list # <<>> /\ Head(list) = seq

\* The frame that was rejected first, and what it lets through.
LEMMA FirstOnes ==
    ASSUME NEW calm \in BOOLEAN, NEW c, Good(calm, c), NEW f \in Frame,
           c.rx_state = "SREJ_SENT", StartsWith(c.srej_list, f.txseq),
           NEW d, d = Behead(Store(c, f))
    PROVE  Good(calm, d) /\ d.rx_state = "SREJ_SENT"
<1> DEFINE q == c.srej_q \cup {Kept(f)}
           list == Tail(c.srej_list)
<1>1. c \in Chan /\ c.srej_list \in Seq(Number)
  BY ChanNumbers DEF Good
<1>2. 1 \in DOMAIN c.srej_list /\ c.srej_list[1] = f.txseq
      /\ list \in Seq(Number) /\ Follows(list, c.srej_list)
  BY <1>1 DEF Follows, StartsWith
<1>3. d = PutRx(c, c.expected_tx_seq, c.buffer_seq, q, list, c.rx_state, c.srej_act)
  BY <1>1 DEF Behead, Store, Kept, PutRx, Chan
<1>4. q = c.srej_q \cup {Kept(f)}
  OBVIOUS
<1> HIDE DEF list, q
<1> QED
  BY <1>2, <1>3, <1>4, StoresFirst

LEMMA Nexts ==
    ASSUME NEW calm \in BOOLEAN, NEW c, Good(calm, c), NEW f \in Frame,
           c.rx_state = "SREJ_SENT", f.txseq = c.expected_tx_seq,
           offset(f.txseq, c.last_acked_seq) < TxWin,
           NEW d, d = [Store(c, f) EXCEPT !.expected_tx_seq = next(f.txseq)]
    PROVE  Good(calm, d)
<1> DEFINE q == c.srej_q \cup {Kept(f)}
           e == next(f.txseq)
<1>1. c \in Chan
  BY DEF Good
<1>2. d = PutRx(c, e, c.buffer_seq, q, c.srej_list, c.rx_state, c.srej_act)
  BY <1>1 DEF Store, Kept, PutRx, Chan
<1> QED
  BY <1>2, StoresNext

\* An I-frame while others are missing.
LEMMA IframesBehind ==
    ASSUME NEW calm \in BOOLEAN, NEW c, Good(calm, c), c.rx_state = "SREJ_SENT",
           NEW f \in Frame, valid_reqseq(c, f.reqseq), NEW fill \in Nat, calm => fill = 0,
           NEW d, d = RecvIframeSrejSent(c, f, fill)
    PROVE  Good(calm, d)
<1> DEFINE class == classify_txseq(c, f.txseq)
           p == pass_to_tx(c, f)
           g == Store(p, f)
           n == [g EXCEPT !.expected_tx_seq = next(f.txseq)]
           b == Behead(g)
           r == rx_queued_iframes(b, fill)
           u == send_srej(g, f.txseq)
           l == send_srej_list(g, f.txseq)
<1>1. c \in Chan /\ RxInv(c)
  BY DEF Good
<1>2. f.txseq \in Number
  BY FrameFields
<1>3. /\ class \in {"INVALID_IGNORE", "INVALID", "EXPECTED", "DUPLICATE", "UNEXPECTED",
                    "EXPECTED_SREJ", "DUPLICATE_SREJ", "UNEXPECTED_SREJ"}
      /\ class = "EXPECTED" => /\ f.txseq = c.expected_tx_seq
                               /\ offset(f.txseq, c.last_acked_seq) < TxWin
      /\ class = "UNEXPECTED" =>
             /\ offset(c.expected_tx_seq, c.last_acked_seq) <= offset(f.txseq, c.last_acked_seq)
             /\ offset(f.txseq, c.last_acked_seq) < TxWin
      /\ class = "EXPECTED_SREJ" => StartsWith(c.srej_list, f.txseq)
      /\ class = "UNEXPECTED_SREJ" =>
             /\ offset(f.txseq, c.last_acked_seq) < TxWin
             /\ Listed(c.srej_list, f.txseq) /\ ~\E x \in c.srej_q : x.txseq = f.txseq
  BY <1>1, <1>2, Classes DEF StartsWith
<1>4. /\ Good(calm, p) /\ p.last_acked_seq = c.last_acked_seq
      /\ p.expected_tx_seq = c.expected_tx_seq /\ p.rx_state = c.rx_state
      /\ p.srej_list = c.srej_list /\ p.srej_q = c.srej_q
  BY PassesToTx DEF Keeps, SameRx
<1>5. d = CASE class = "EXPECTED" -> n
            [] class = "EXPECTED_SREJ" -> r
            [] class = "UNEXPECTED" -> u
            [] class = "UNEXPECTED_SREJ" -> l
            [] class = "DUPLICATE_SREJ" -> p
            [] class \in {"DUPLICATE", "INVALID_IGNORE"} -> c
            [] class = "INVALID" -> send_disconn_req(c)
  BY DEF RecvIframeSrejSent, Behead
<1> HIDE DEF class, p
<1>6. class = "EXPECTED" => Good(calm, n)
  <2> HIDE DEF n
  <2> QED
    BY <1>3, <1>4, Nexts DEF n
<1>7. class = "EXPECTED_SREJ" => Good(calm, r)
  <2>1. class = "EXPECTED_SREJ" => Good(calm, b) /\ b.rx_state = "SREJ_SENT"
    <3> HIDE DEF b
    <3> QED
      BY <1>3, <1>4, FirstOnes DEF b
  <2> HIDE DEF b
  <2> QED
    BY <2>1, Queued
<1>8. class = "UNEXPECTED" => Good(calm, u)
  <2> HIDE DEF u
  <2> QED
    BY <1>3, <1>4, FurtherGaps DEF u
<1>9. class = "UNEXPECTED_SREJ" => Good(calm, l)
  <2> HIDE DEF l
  <2> QED
    BY <1>3, <1>4, LaterOnes DEF l
<1>10. Good(calm, send_disconn_req(c))
  BY Disconnects
<1> HIDE DEF n, r, u, l
<1> QED
  BY <1>3, <1>4, <1>5, <1>6, <1>7, <1>8, <1>9, <1>10

\* Whatever frame comes in.
LEMMA FramesReceived ==
    ASSUME NEW calm \in BOOLEAN, NEW c, Good(calm, c), NEW f \in Frame, NEW fill \in Nat,
           calm => fill = 0 /\ f.super # "RNR", NEW d, d = data_rcv(c, f, fill)
    PROVE  Good(calm, d)
<1>1. c.rx_state \in {"RECV", "SREJ_SENT"} /\ f.super \in {"I", "RR", "RNR", "SREJ"}
  BY ChanNumbers, FrameFields DEF Good
<1>2. Good(calm, send_disconn_req(c))
  BY Disconnects
<1>3. ASSUME valid_reqseq(c, f.reqseq), c.rx_state = "RECV"
      PROVE  Good(calm, RecvIframe(c, f, fill))
  BY <1>3, Iframes
<1>4. ASSUME valid_reqseq(c, f.reqseq), c.rx_state = "SREJ_SENT"
      PROVE  Good(calm, RecvIframeSrejSent(c, f, fill))
  BY <1>4, IframesBehind
<1>5. ASSUME valid_reqseq(c, f.reqseq)
      PROVE  Good(calm, RecvRR(c, f))
  BY <1>5, RRs
<1>6. ASSUME valid_reqseq(c, f.reqseq), f.super = "RNR"
      PROVE  Good(calm, RecvRNR(c, f))
  <2>1. calm = FALSE
    BY <1>6
  <2> QED
    BY <1>6, <2>1, RNRs
<1>7. ASSUME valid_reqseq(c, f.reqseq)
      PROVE  Good(calm, handle_srej(c, f))
  BY <1>7, SrejHandled
<1> QED
  BY <1>1, <1>2, <1>3, <1>4, <1>5, <1>6, <1>7 DEF data_rcv

-----------------------------------------------------------------------------
(* Data to send *)

PutQueue(c, sent, tx_q) == [c EXCEPT !.sent = sent, !.tx_q = tx_q]

\* A unit waits at the end of the queue.
Waiting(c) == Append(c.tx_q, [txseq |-> 0, retries |-> 0, sdu |-> c.sent + 1])

LEMMA QueueGood ==
    ASSUME NEW calm \in BOOLEAN, NEW c, Good(calm, c), NEW d,
           d = PutQueue(c, c.sent + 1, Waiting(c))
    PROVE  /\ Good(calm, d) /\ SameRx(c, d) /\ SameState(c, d) /\ d.out = c.out
           /\ d.last_acked_seq = c.last_acked_seq /\ d.max_tx = c.max_tx
<1> DEFINE unit == [txseq |-> 0, retries |-> 0, sdu |-> c.sent + 1]
           tx_q == Append(c.tx_q, unit)
           more == c.sent + 1
<1>1. c \in Chan /\ TxInv(c) /\ RxInv(c)
  BY DEF Good
<1>2. c.tx_q \in Seq(Unit) /\ c.sent \in Nat /\ more \in Nat /\ c.head \in Nat
  BY <1>1, ChanNumbers
<1>3. unit \in Unit
  BY <1>2, Numbers DEF Unit
<1>4. tx_q \in Seq(Unit) /\ Len(tx_q) = Len(c.tx_q) + 1 /\ Len(c.tx_q) \in Nat
  <2> HIDE DEF unit
  <2> QED
    BY <1>2, <1>3
<1>5. d = PutQueue(c, more, tx_q)
  BY DEF Waiting
<1> HIDE DEF tx_q, more
<1>6. /\ d \in Chan /\ SameRx(c, d) /\ SameState(c, d) /\ d.tx_q = tx_q /\ d.head = c.head
      /\ d.unacked = c.unacked /\ d.next_tx_seq = c.next_tx_seq
      /\ d.expected_ack_seq = c.expected_ack_seq /\ d.armed = c.armed /\ d.out = c.out
      /\ d.last_acked_seq = c.last_acked_seq /\ d.max_tx = c.max_tx
  BY <1>1, <1>2, <1>4, <1>5 DEF PutQueue, Chan, SameRx, SameState
<1>7. TxInv(d)
  <2>1. c.head <= Len(c.tx_q)
    BY <1>1 DEF TxInv
  <2>2. c.head <= Len(tx_q)
    BY <1>2, <1>4, <2>1
  <2> QED
    BY <1>1, <1>6, <2>2 DEF TxInv
<1>8. RxInv(d)
  BY <1>1, <1>6, WindowKept DEF SameWindow, SameRx
<1>9. Good(calm, d)
  BY <1>6, <1>7, <1>8 DEF Good, Timed, Calm, Timers, SameRx, SameState
<1> QED
  BY <1>6, <1>9

LEMMA Requests ==
    ASSUME NEW calm \in BOOLEAN, NEW c, Good(calm, c), NEW d, d = data_request(c)
    PROVE  Good(calm, d)
<1> DEFINE g == PutQueue(c, c.sent + 1, Waiting(c))
<1>1. d = ertm_send(g)
  BY DEF data_request, PutQueue, Waiting
<1>2. Good(calm, g)
  BY QueueGood
<1> HIDE DEF g
<1> QED
  BY <1>1, <1>2, Sends

-----------------------------------------------------------------------------
(* Timers that expire *)

\* The timer t is neither pending nor due any more, or pending again.
Taken(c, t)   == [c EXCEPT !.due = @ \ {t}]
Rearmed(c, t) == [c EXCEPT !.armed = @ \cup {t}]

LEMMA TakenFields ==
    ASSUME NEW c \in Chan, NEW t \in Timer, NEW d, d = Taken(c, t)
    PROVE  /\ d \in Chan /\ SameRx(c, d) /\ SameTx(c, d) /\ d.out = c.out /\ d.armed = c.armed
           /\ d.due = c.due \ {t} /\ d.tx_state = c.tx_state /\ d.up = c.up
           /\ d.remote_busy = c.remote_busy /\ d.last_acked_seq = c.last_acked_seq
  BY DEF Chan, Taken, SameRx, SameTx

LEMMA RearmedFields ==
    ASSUME NEW c \in Chan, NEW t \in Timer, NEW d, d = Rearmed(c, t)
    PROVE  /\ d \in Chan /\ SameRx(c, d) /\ SameTx(c, d) /\ d.out = c.out /\ d.due = c.due
           /\ d.armed = c.armed \cup {t} /\ d.tx_state = c.tx_state /\ d.up = c.up
           /\ d.remote_busy = c.remote_busy /\ d.last_acked_seq = c.last_acked_seq
  BY DEF Chan, Rearmed, SameRx, SameTx

\* A timer whose work begins is not missed, except for the two that matter in a state.
LEMMA TakenGood ==
    ASSUME NEW calm \in BOOLEAN, NEW c, Good(calm, c), NEW t \in Timer,
           ~(t = "retrans" /\ c.tx_state = "XMIT"), ~(t = "monitor" /\ c.tx_state = "WAIT_F"),
           NEW d, d = Taken(c, t)
    PROVE  Good(calm, d)
<1>1. c \in Chan /\ TxInv(c) /\ RxInv(c) /\ (c.up => Timed(c)) /\ (calm => Calm(c))
  BY DEF Good
<1>2. /\ d \in Chan /\ SameRx(c, d) /\ SameTx(c, d) /\ d.out = c.out /\ d.armed = c.armed
      /\ d.due = c.due \ {t} /\ d.tx_state = c.tx_state /\ d.up = c.up
      /\ d.remote_busy = c.remote_busy /\ d.last_acked_seq = c.last_acked_seq
  BY <1>1, TakenFields
<1>3. TxInv(d) /\ RxInv(d)
  BY <1>1, <1>2, TxKept, WindowKept DEF SameRx, SameWindow
<1>4. d.up => Timed(d)
  BY <1>1, <1>2 DEF Timed, Timers
<1>5. calm => Calm(d)
  BY <1>1, <1>2 DEF Calm, Timers, SameRx, SameTx
<1> QED
  BY <1>2, <1>3, <1>4, <1>5 DEF Good

\* With the timer pending again, those are not missed either.
LEMMA RearmedGood ==
    ASSUME NEW calm \in BOOLEAN, NEW c, Good(calm, c), NEW t \in Timer,
           t = "retrans" \/ (t = "monitor" /\ c.tx_state = "WAIT_F"),
           NEW d, d = Rearmed(Taken(c, t), t)
    PROVE  Good(calm, d)
<1> DEFINE b == Taken(c, t)
<1>1. c \in Chan /\ TxInv(c) /\ RxInv(c) /\ (c.up => Timed(c)) /\ (calm => Calm(c))
  BY DEF Good
<1>2. /\ b \in Chan /\ SameRx(c, b) /\ SameTx(c, b) /\ b.out = c.out /\ b.armed = c.armed
      /\ b.due = c.due \ {t} /\ b.tx_state = c.tx_state /\ b.up = c.up
      /\ b.remote_busy = c.remote_busy /\ b.last_acked_seq = c.last_acked_seq
  BY <1>1, TakenFields
<1> HIDE DEF b
<1>3. /\ d \in Chan /\ SameRx(b, d) /\ SameTx(b, d) /\ d.out = b.out /\ d.due = b.due
      /\ d.armed = b.armed \cup {t} /\ d.tx_state = b.tx_state /\ d.up = b.up
      /\ d.remote_busy = b.remote_busy /\ d.last_acked_seq = b.last_acked_seq
  BY <1>2, RearmedFields DEF b
<1>4. SameRx(c, d) /\ SameTx(c, d)
  BY <1>2, <1>3 DEF SameRx, SameTx
<1>5. TxInv(d) /\ RxInv(d)
  BY <1>1, <1>2, <1>3, <1>4, TxKept, WindowKept DEF SameRx, SameWindow
<1>6. d.up => Timed(d)
  BY <1>1, <1>2, <1>3 DEF Timed, Timers
<1>7. calm => Calm(d)
  BY <1>1, <1>2, <1>3, <1>4 DEF Calm, Timers, SameRx, SameTx
<1> QED
  BY <1>3, <1>5, <1>6, <1>7 DEF Good

PutAnswer(c, out, rnr, acked, armed, retry, state) ==
    [c EXCEPT !.out = out, !.send_fbit = FALSE, !.rnr_sent = rnr, !.last_acked_seq = acked,
              !.armed = armed, !.retry_count = retry, !.tx_state = state]

LEMMA AnswerRearmed ==
    ASSUME NEW c \in Chan, NEW t \in Timer, NEW out, NEW rnr, NEW acked, NEW armed, NEW retry,
           NEW state
    PROVE  PutAnswer(Rearmed(c, t), out, rnr, acked, armed, retry, state) =
           PutAnswer(c, out, rnr, acked, armed, retry, state)
  BY DEF PutAnswer, Rearmed, Chan

\* A poll starts the monitor timer and stops the retransmission timer, pending or not.
LEMMA PollIs ==
    ASSUME NEW c \in Chan
    PROVE  PollAndWait(send_rr_or_rnr(c, TRUE)) =
           PutAnswer(c, Append(c.out, SFrame(IF c.local_busy THEN "RNR" ELSE "RR",
                                             c.buffer_seq, TRUE, FALSE)),
                     c.local_busy, c.buffer_seq,
                     ((c.armed \ {"ack"}) \ {"retrans"}) \cup {"monitor"}, 1, "WAIT_F")
<1> DEFINE super == IF c.local_busy THEN "RNR" ELSE "RR"
           out == Append(c.out, SFrame(super, c.buffer_seq, TRUE, FALSE))
           armed == c.armed \ {"ack"}
           d == send_rr_or_rnr(c, TRUE)
<1>1. super # "SREJ" /\ (super = "RNR") = c.local_busy
  BY DEF Chan
<1>2. d = PutSframe(c, out, c.local_busy, c.buffer_seq, armed)
  <2>1. d = send_sframe(c, super, TRUE, FALSE, c.buffer_seq)
    BY DEF send_rr_or_rnr
  <2>2. Append(c.out, SFrame(super, c.buffer_seq, TRUE, FALSE \/ (c.send_fbit /\ ~TRUE))) = out
    BY DEF Chan
  <2> HIDE DEF out, armed, d, super
  <2> QED
    BY <1>1, <2>1, <2>2 DEF send_sframe, PutSframe, armed
<1> HIDE DEF out, armed, d
<1>3. PollAndWait(d) =
      PutAnswer(c, out, c.local_busy, c.buffer_seq, (armed \ {"retrans"}) \cup {"monitor"},
                1, "WAIT_F")
  BY <1>2 DEF PollAndWait, set_monitor_timer, PutSframe, PutAnswer, Chan
<1> QED
  BY <1>3 DEF d, out, armed

Repeat(c) == [set_monitor_timer(send_rr_or_rnr(c, TRUE)) EXCEPT !.retry_count = Count(c, @)]

LEMMA RepeatIs ==
    ASSUME NEW c \in Chan
    PROVE  Repeat(c) =
           PutAnswer(c, Append(c.out, SFrame(IF c.local_busy THEN "RNR" ELSE "RR",
                                             c.buffer_seq, TRUE, FALSE)),
                     c.local_busy, c.buffer_seq,
                     ((c.armed \ {"ack"}) \ {"retrans"}) \cup {"monitor"},
                     Count(c, c.retry_count), c.tx_state)
<1> DEFINE super == IF c.local_busy THEN "RNR" ELSE "RR"
           out == Append(c.out, SFrame(super, c.buffer_seq, TRUE, FALSE))
           armed == c.armed \ {"ack"}
           d == send_rr_or_rnr(c, TRUE)
           n == Count(c, c.retry_count)
<1>1. super # "SREJ" /\ (super = "RNR") = c.local_busy
  BY DEF Chan
<1>2. d = PutSframe(c, out, c.local_busy, c.buffer_seq, armed)
  <2>1. d = send_sframe(c, super, TRUE, FALSE, c.buffer_seq)
    BY DEF send_rr_or_rnr
  <2>2. Append(c.out, SFrame(super, c.buffer_seq, TRUE, FALSE \/ (c.send_fbit /\ ~TRUE))) = out
    BY DEF Chan
  <2> HIDE DEF out, armed, d, super
  <2> QED
    BY <1>1, <2>1, <2>2 DEF send_sframe, PutSframe, armed
<1> HIDE DEF out, armed
<1>3. d.armed = armed /\ d.retry_count = c.retry_count
  <2> HIDE DEF d
  <2> QED
    BY <1>2 DEF PutSframe, Chan
<1>4. Repeat(c) =
      [[d EXCEPT !.armed = (armed \ {"retrans"}) \cup {"monitor"}] EXCEPT !.retry_count = n]
  <2>1. Repeat(c) = [set_monitor_timer(d) EXCEPT !.retry_count = Count(c, @)]
    BY DEF Repeat
  <2> HIDE DEF d
  <2>2. set_monitor_timer(d).retry_count = c.retry_count
    BY <1>2, <1>3 DEF set_monitor_timer, PutSframe, Chan
  <2> QED
    BY <1>3, <2>1, <2>2 DEF set_monitor_timer
<1> HIDE DEF d, n
<1>5. Repeat(c) =
      PutAnswer(c, out, c.local_busy, c.buffer_seq, (armed \ {"retrans"}) \cup {"monitor"},
                n, c.tx_state)
  BY <1>2, <1>4 DEF PutSframe, PutAnswer, Chan
<1> QED
  BY <1>5 DEF n, out, armed

LEMMA CountIs ==
    ASSUME NEW c \in Chan, NEW n \in Nat
    PROVE  Count(c, n) \in Nat
  BY DEF Count

LEMMA Repeats ==
    ASSUME NEW calm \in BOOLEAN, NEW c, Good(calm, c), c.tx_state = "WAIT_F", NEW d, d = Repeat(c)
    PROVE  Good(calm, d)
<1> DEFINE yes == TRUE
           wait == "WAIT_F"
           g == send_rr_or_rnr(c, yes)
           armed == (g.armed \ {"retrans"}) \cup {"monitor"}
           n == Count(c, g.retry_count)
<1>1. d = [[g EXCEPT !.armed = armed] EXCEPT !.retry_count = n]
  <2>1. d = [set_monitor_timer(g) EXCEPT !.retry_count = Count(c, @)]
    BY DEF Repeat
  <2>2. g \in Chan
    BY Reports DEF Good
  <2> HIDE DEF g
  <2>3. set_monitor_timer(g).retry_count = g.retry_count
    BY <2>2 DEF set_monitor_timer, Chan
  <2> QED
    BY <2>1, <2>3 DEF set_monitor_timer
<1>2. yes \in BOOLEAN /\ wait \in {"XMIT", "WAIT_F"} /\ c \in Chan /\ wait # "XMIT"
  BY DEF Good
<1> HIDE DEF yes, g
<1>3. Good(calm, g) /\ g.tx_state = "WAIT_F"
  BY <1>2, Reports DEF g, SameState
<1>4. g \in Chan
  BY <1>3 DEF Good
<1>5. n \in Nat /\ armed \in SUBSET Timer /\ "monitor" \in armed
  BY <1>2, <1>4, CountIs, ChanNumbers DEF Timer
<1> HIDE DEF armed, n
<1>6. d = PutPoll(g, armed, n, wait)
  BY <1>1, <1>3, <1>4 DEF PutPoll, Chan
<1> HIDE DEF wait
<1> QED
  BY <1>2, <1>3, <1>5, <1>6, PollGood

\* The polls that timers send leave no trace of whether the timer was pending.
LEMMA PollsAlike ==
    ASSUME NEW c \in Chan
    PROVE  /\ PollAndWait(send_rr_or_rnr(Rearmed(c, "retrans"), TRUE)) =
              PollAndWait(send_rr_or_rnr(c, TRUE))
           /\ Repeat(Rearmed(c, "monitor")) = Repeat(c)
           /\ send_disconn_req(Rearmed(c, "monitor")) = send_disconn_req(c)
<1> DEFINE out == Append(c.out, SFrame(IF c.local_busy THEN "RNR" ELSE "RR", c.buffer_seq,
                                       TRUE, FALSE))
           armed == ((c.armed \ {"ack"}) \ {"retrans"}) \cup {"monitor"}
           r == "retrans"
           m == "monitor"
<1>1. r \in Timer /\ m \in Timer
  BY DEF Timer
<1>2. ASSUME NEW t \in Timer, NEW x, x = Rearmed(c, t)
      PROVE  /\ x \in Chan /\ x.out = c.out /\ x.local_busy = c.local_busy
             /\ x.buffer_seq = c.buffer_seq /\ x.armed = c.armed \cup {t}
             /\ x.tx_state = c.tx_state /\ x.retry_count = c.retry_count /\ x.max_tx = c.max_tx
  BY <1>2 DEF Rearmed, Chan
<1>3. PollAndWait(send_rr_or_rnr(Rearmed(c, r), TRUE)) = PollAndWait(send_rr_or_rnr(c, TRUE))
  <2> DEFINE x == Rearmed(c, r)
  <2>1. /\ x \in Chan /\ x.out = c.out /\ x.local_busy = c.local_busy
        /\ x.buffer_seq = c.buffer_seq /\ x.armed = c.armed \cup {r}
    BY <1>1, <1>2
  <2>2. ((x.armed \ {"ack"}) \ {"retrans"}) \cup {"monitor"} = armed
    <3> HIDE DEF x
    <3> QED
      BY <2>1
  <2> HIDE DEF x
  <2>3. PollAndWait(send_rr_or_rnr(x, TRUE)) =
        PutAnswer(x, out, c.local_busy, c.buffer_seq, armed, 1, "WAIT_F")
    BY <2>1, <2>2, PollIs
  <2>4. PollAndWait(send_rr_or_rnr(c, TRUE)) =
        PutAnswer(c, out, c.local_busy, c.buffer_seq, armed, 1, "WAIT_F")
    BY PollIs
  <2> HIDE DEF out, armed, r
  <2>5. PutAnswer(x, out, c.local_busy, c.buffer_seq, armed, 1, "WAIT_F") =
        PutAnswer(c, out, c.local_busy, c.buffer_seq, armed, 1, "WAIT_F")
    BY <1>1, AnswerRearmed DEF x
  <2> QED
    BY <2>3, <2>4, <2>5 DEF x
<1>4. Repeat(Rearmed(c, m)) = Repeat(c)
  <2> DEFINE x == Rearmed(c, m)
             n == Count(c, c.retry_count)
  <2>1. /\ x \in Chan /\ x.out = c.out /\ x.local_busy = c.local_busy
        /\ x.buffer_seq = c.buffer_seq /\ x.armed = c.armed \cup {m}
        /\ x.tx_state = c.tx_state /\ x.retry_count = c.retry_count /\ x.max_tx = c.max_tx
    BY <1>1, <1>2
  <2>2. ((x.armed \ {"ack"}) \ {"retrans"}) \cup {"monitor"} = armed
    <3> HIDE DEF x
    <3> QED
      BY <2>1
  <2>6. Count(x, x.retry_count) = n
    <3> HIDE DEF x
    <3> QED
      BY <2>1 DEF Count
  <2> HIDE DEF x, n
  <2>3. Repeat(x) = PutAnswer(x, out, c.local_busy, c.buffer_seq, armed, n, c.tx_state)
    BY <2>1, <2>2, <2>6, RepeatIs
  <2>4. Repeat(c) = PutAnswer(c, out, c.local_busy, c.buffer_seq, armed, n, c.tx_state)
    BY RepeatIs DEF n
  <2> HIDE DEF out, armed, m
  <2>5. PutAnswer(x, out, c.local_busy, c.buffer_seq, armed, n, c.tx_state) =
        PutAnswer(c, out, c.local_busy, c.buffer_seq, armed, n, c.tx_state)
    BY <1>1, AnswerRearmed DEF x
  <2> QED
    BY <2>3, <2>4, <2>5 DEF x
<1>5. send_disconn_req(Rearmed(c, m)) = send_disconn_req(c)
  BY DEF send_disconn_req, Rearmed, Chan
<1> QED
  BY <1>3, <1>4, <1>5

LEMMA RetransExpires ==
    ASSUME NEW calm \in BOOLEAN, NEW c, Good(calm, c),
           NEW d, d = retrans_timeout(Taken(c, "retrans"))
    PROVE  Good(calm, d)
<1> DEFINE t == "retrans"
           b == Taken(c, t)
           x == Rearmed(b, t)
           yes == TRUE
<1>1. t \in Timer /\ yes \in BOOLEAN /\ c \in Chan /\ c.tx_state \in {"XMIT", "WAIT_F"}
  BY ChanNumbers DEF Timer, Good
<1>2. b \in Chan /\ b.tx_state = c.tx_state
  BY <1>1, TakenFields
<1>3. CASE c.tx_state = "XMIT"
  <2>1. d = PollAndWait(send_rr_or_rnr(b, TRUE))
    BY <1>2, <1>3 DEF retrans_timeout
  <2>2. d = PollAndWait(send_rr_or_rnr(x, yes))
    <3> HIDE DEF b
    <3> QED
      BY <1>2, <2>1, PollsAlike
  <2>3. Good(calm, x)
    BY <1>1, RearmedGood
  <2> HIDE DEF x, yes
  <2>4. Good(calm, send_rr_or_rnr(x, yes))
    BY <1>1, <2>3, Reports
  <2> QED
    BY <2>2, <2>4, Polls
<1>4. CASE c.tx_state = "WAIT_F"
  <2>1. d = b
    BY <1>2, <1>4 DEF retrans_timeout
  <2>2. ~(t = "retrans" /\ c.tx_state = "XMIT") /\ ~(t = "monitor" /\ c.tx_state = "WAIT_F")
    BY <1>4
  <2> HIDE DEF t
  <2> QED
    BY <1>1, <2>1, <2>2, TakenGood
<1> QED
  BY <1>1, <1>3, <1>4

LEMMA MonitorExpires ==
    ASSUME NEW calm \in BOOLEAN, NEW c, Good(calm, c),
           NEW d, d = monitor_timeout(Taken(c, "monitor"))
    PROVE  Good(calm, d)
<1> DEFINE t == "monitor"
           b == Taken(c, t)
           x == Rearmed(b, t)
<1>1. t \in Timer /\ c \in Chan /\ c.tx_state \in {"XMIT", "WAIT_F"}
  BY ChanNumbers DEF Timer, Good
<1>2. b \in Chan /\ b.tx_state = c.tx_state
  BY <1>1, TakenFields
<1>3. CASE c.tx_state = "WAIT_F"
  <2>1. d = Repeat(b) \/ d = send_disconn_req(b)
    BY <1>2, <1>3 DEF monitor_timeout, Repeat
  <2>2. d = Repeat(x) \/ d = send_disconn_req(x)
    <3> HIDE DEF b
    <3> QED
      BY <1>2, <2>1, PollsAlike
  <2>3. Good(calm, x)
    BY <1>1, <1>3, RearmedGood
  <2>4. x.tx_state = "WAIT_F"
    BY <1>1, <1>2, <1>3, RearmedFields
  <2> HIDE DEF x
  <2> QED
    BY <2>2, <2>3, <2>4, Repeats, Disconnects
<1>4. CASE c.tx_state = "XMIT"
  <2>1. d = b
    BY <1>2, <1>4 DEF monitor_timeout
  <2>2. ~(t = "retrans" /\ c.tx_state = "XMIT") /\ ~(t = "monitor" /\ c.tx_state = "WAIT_F")
    BY <1>4
  <2> HIDE DEF t
  <2> QED
    BY <1>1, <2>1, <2>2, TakenGood
<1> QED
  BY <1>1, <1>3, <1>4

LEMMA AckExpires ==
    ASSUME NEW calm \in BOOLEAN, NEW c, Good(calm, c), NEW d, d = ack_timeout(Taken(c, "ack"))
    PROVE  Good(calm, d)
<1> DEFINE t == "ack"
           b == Taken(c, t)
           no == FALSE
<1>1. t \in Timer /\ t # "retrans" /\ t # "monitor" /\ no \in BOOLEAN
  BY DEF Timer
<1>2. d = b \/ d = send_rr_or_rnr(b, no)
  BY DEF ack_timeout
<1> HIDE DEF t, no
<1>3. Good(calm, b)
  BY <1>1, TakenGood
<1> HIDE DEF b
<1> QED
  BY <1>1, <1>2, <1>3, Reports

-----------------------------------------------------------------------------
(* Steps *)

NoRNR(frames) == \A i \in DOMAIN frames : frames[i].super # "RNR"

LEMMA Weaker ==
    ASSUME NEW calm \in BOOLEAN, NEW c, Good(calm, c), NEW less \in BOOLEAN, less => calm
    PROVE  Good(less, c)
  BY DEF Good

\* A handler's frames go onto the link.
LEMMA Flushed ==
    ASSUME NEW calm \in BOOLEAN, NEW c, Good(calm, c), NEW d, d = [c EXCEPT !.out = <<>>]
    PROVE  Good(calm, d) /\ d.out = <<>> /\ d \in Chan
<1>1. c \in Chan /\ TxInv(c) /\ RxInv(c) /\ (c.up => Timed(c)) /\ (calm => Calm(c))
  BY DEF Good
<1>2. /\ d \in Chan /\ SameRx(c, d) /\ SameTx(c, d) /\ SameState(c, d) /\ d.out = <<>>
      /\ d.armed = c.armed /\ d.last_acked_seq = c.last_acked_seq
  <2> DEFINE none == <<>>
  <2>1. none \in Seq(Frame)
    OBVIOUS
  <2>2. d = [c EXCEPT !.out = none]
    OBVIOUS
  <2> HIDE DEF none
  <2>3. d \in Chan
    BY <1>1, <2>1, <2>2, ZenonT(40) DEF Chan
  <2>4. SameRx(c, d) /\ SameTx(c, d) /\ SameState(c, d) /\ d.out = none
        /\ d.armed = c.armed /\ d.last_acked_seq = c.last_acked_seq
    BY <1>1, <2>2 DEF Chan, SameRx, SameTx, SameState
  <2> QED
    BY <2>3, <2>4 DEF none
<1>3. TxInv(d) /\ RxInv(d)
  BY <1>1, <1>2, TxKept, WindowKept DEF SameRx, SameWindow
<1>4. (d.up => Timed(d)) /\ (calm => Calm(d))
  BY <1>1, <1>2 DEF Timed, Calm, Timers, SameRx, SameTx, SameState
<1> QED
  BY <1>2, <1>3, <1>4 DEF Good

LEMMA Joins ==
    ASSUME NEW a \in Seq(Frame), NEW b \in Seq(Frame)
    PROVE  a \o b \in Seq(Frame) /\ (NoRNR(a) /\ NoRNR(b) => NoRNR(a \o b))
<1> DEFINE l == a \o b
<1>1. l \in Seq(Frame) /\ Len(l) = Len(a) + Len(b)
      /\ \A j \in 1 .. Len(l) : l[j] = IF j <= Len(a) THEN a[j] ELSE b[j - Len(a)]
  OBVIOUS
<1>2. Len(a) \in Nat /\ Len(b) \in Nat /\ DOMAIN a = 1 .. Len(a) /\ DOMAIN b = 1 .. Len(b)
  OBVIOUS
<1> HIDE DEF l
<1>3. DOMAIN l = 1 .. Len(l)
  BY <1>1
<1>4. ASSUME NoRNR(a), NoRNR(b), NEW j \in DOMAIN l
      PROVE  l[j].super # "RNR"
  <2>1. CASE j <= Len(a)
    BY <1>1, <1>2, <1>3, <1>4, <2>1 DEF NoRNR
  <2>2. CASE ~(j <= Len(a))
    <3>1. j - Len(a) \in DOMAIN b /\ l[j] = b[j - Len(a)]
      BY <1>1, <1>2, <1>3, <2>2
    <3> QED
      BY <1>4, <3>1 DEF NoRNR
  <2> QED
    BY <2>1, <2>2
<1> QED
  BY <1>1, <1>4 DEF NoRNR, l

\* What is left after the first, or one, of the frames is gone.
LEMMA Removes ==
    ASSUME NEW a \in Seq(Frame), a # <<>>
    PROVE  /\ Head(a) \in Frame /\ (NoRNR(a) => Head(a).super # "RNR")
           /\ Tail(a) \in Seq(Frame) /\ (NoRNR(a) => NoRNR(Tail(a)))
<1>1. 1 \in DOMAIN a /\ Head(a) = a[1] /\ a[1] \in Frame
  OBVIOUS
<1>2. Tail(a) \in Seq(Frame) /\ \A i \in DOMAIN Tail(a) : i + 1 \in DOMAIN a /\ Tail(a)[i] = a[i + 1]
  OBVIOUS
<1> QED
  BY <1>1, <1>2 DEF NoRNR

LEMMA Loses ==
    ASSUME NEW a \in Seq(Frame), NEW i \in DOMAIN a, NEW l, l = RemoveAt(a, i)
    PROVE  l \in Seq(Frame) /\ (NoRNR(a) => NoRNR(l))
<1>1. l = SubSeq(a, 1, i - 1) \o SubSeq(a, i + 1, Len(a))
  BY DEF RemoveAt
<1> DEFINE x == SubSeq(a, 1, i - 1)
           y == SubSeq(a, i + 1, Len(a))
<1>2. x \in Seq(Frame) /\ \A j \in DOMAIN x : j \in DOMAIN a /\ x[j] = a[j]
  OBVIOUS
<1>3. y \in Seq(Frame) /\ \A j \in DOMAIN y : j + i \in DOMAIN a /\ y[j] = a[j + i]
  OBVIOUS
<1> HIDE DEF x, y
<1>4. NoRNR(a) => NoRNR(x) /\ NoRNR(y)
  BY <1>2, <1>3 DEF NoRNR
<1> QED
  BY <1>1, <1>2, <1>3, <1>4, Joins DEF x, y

LEMMA OtherEnd ==
    ASSUME NEW s \in Side
    PROVE  Peer(s) \in Side /\ Peer(s) # s
<1>1. \E p \in Side : p # s
  <2> SUFFICES ASSUME \A p \in Side : p = s
               PROVE  FALSE
    OBVIOUS
  <2>1. Side = {s}
    OBVIOUS
  <2>2. Cardinality({s}) = 1
    BY FS_Singleton
  <2> QED
    BY <2>1, <2>2, TwoEnds
<1> QED
  BY <1>1 DEF Peer

LEMMA ErtmInvIs ==
    ErtmInv <=>
      /\ chan \in [Side -> Chan] /\ link \in [Side -> Seq(Frame)]
      /\ \A s \in Side : chan[s].out = <<>> /\ Good(fills = 0, chan[s])
      /\ fills = 0 => \A s \in Side : NoRNR(link[s])
      /\ lost \in 0 .. MaxLost /\ fills \in 0 .. MaxFull /\ early \in 0 .. MaxEarly
  BY DEF ErtmInv, NoRNR

\* What a handler leaves is committed.
LEMMA Commits ==
    ASSUME ErtmInv, NEW s \in Side, NEW calm \in BOOLEAN, calm = (fills' = 0), calm => fills = 0,
           NEW d, Good(calm, d), NEW links \in [Side -> Seq(Frame)],
           calm => \A q \in Side : NoRNR(links[q]), Commit(s, d, links),
           lost' \in 0 .. MaxLost, fills' \in 0 .. MaxFull, early' \in 0 .. MaxEarly
    PROVE  ErtmInv'
<1> DEFINE e == [d EXCEPT !.out = <<>>]
<1>1. Good(calm, e) /\ e.out = <<>> /\ e \in Chan
  BY Flushed
<1>2. d \in Chan /\ d.out \in Seq(Frame) /\ (calm => NoRNR(d.out))
  <2>1. d \in Chan /\ (calm => NoRNR(d.out))
    BY DEF Good, Calm, NoRNR
  <2> QED
    BY <2>1, ChanNumbers
<1>3. chan \in [Side -> Chan] /\ \A q \in Side : chan[q].out = <<>> /\ Good(fills = 0, chan[q])
  BY ErtmInvIs
<1>4. chan' = [chan EXCEPT ![s] = e] /\ link' = [links EXCEPT ![s] = @ \o d.out]
  BY DEF Commit
<1> HIDE DEF e
<1>5. chan' \in [Side -> Chan] /\ chan'[s] = e /\ \A q \in Side \ {s} : chan'[q] = chan[q]
  BY <1>1, <1>3, <1>4
<1>6. \A q \in Side : chan'[q].out = <<>> /\ Good(calm, chan'[q])
  <2> SUFFICES ASSUME NEW q \in Side
               PROVE  chan'[q].out = <<>> /\ Good(calm, chan'[q])
    OBVIOUS
  <2>1. CASE q = s
    BY <1>1, <1>5, <2>1
  <2>2. CASE q # s
    <3> DEFINE was == fills = 0
    <3>1. was \in BOOLEAN /\ Good(was, chan[q]) /\ (calm => was) /\ chan'[q] = chan[q]
      BY <1>3, <1>5, <2>2
    <3> HIDE DEF was
    <3>2. Good(calm, chan[q])
      BY <3>1, Weaker
    <3> QED
      BY <1>3, <3>1, <3>2
  <2> QED
    BY <2>1, <2>2
<1>7. links[s] \o d.out \in Seq(Frame) /\ (calm => NoRNR(links[s] \o d.out))
  <2>1. links[s] \in Seq(Frame)
    OBVIOUS
  <2> QED
    BY <1>2, <2>1, Joins
<1> DEFINE joined == links[s] \o d.out
<1>8. link' = [links EXCEPT ![s] = joined]
  BY <1>4
<1>9. joined \in Seq(Frame) /\ (calm => NoRNR(joined))
  BY <1>7
<1> HIDE DEF joined
<1>10. link' \in [Side -> Seq(Frame)] /\ (calm => \A q \in Side : NoRNR(link'[q]))
  BY <1>8, <1>9
<1>11. \A q \in Side : Good(fills' = 0, chan'[q])
  BY <1>6 DEF Good
<1> QED
  BY <1>5, <1>6, <1>10, <1>11 DEF ErtmInv, NoRNR

LEMMA NewChanGood ==
    ASSUME NEW max_tx \in Nat, NEW sdus \in Nat, NEW c, c = NewChan(max_tx, sdus)
    PROVE  Good(TRUE, c) /\ c.out = <<>>
<1>1. First \in Number
  BY BoundsAreNumbers DEF Number
<1>2. offset(First, First) = 0 /\ TxWin \in Nat
  BY <1>1, OffsetsAdd, Numbers
<1>3. /\ c.out = <<>> /\ c.tx_q = <<>> /\ c.head = 0 /\ c.unacked = 0 /\ c.tx_state = "XMIT"
      /\ c.next_tx_seq = First /\ c.expected_ack_seq = First /\ c.remote_busy = FALSE
      /\ c.expected_tx_seq = First /\ c.buffer_seq = First /\ c.last_acked_seq = First
      /\ c.srej_q = {} /\ c.srej_list = <<>> /\ c.local_busy = FALSE /\ c.full = FALSE
      /\ c.armed = {} /\ c.due = {}
  BY DEF NewChan
<1>4. c \in Chan
  <2> DEFINE out == <<>>
             tx_q == <<>>
             list == <<>>
             got == <<>>
  <2>1. out \in Seq(Frame) /\ tx_q \in Seq(Unit) /\ list \in Seq(Number) /\ got \in Seq(Nat)
        /\ 0 \in Number
    BY Numbers
  <2>2. c = [up |-> TRUE, max_tx |-> max_tx, out |-> out,
             tx_q |-> tx_q, head |-> 0, next_tx_seq |-> First, expected_ack_seq |-> First,
             unacked |-> 0, tx_state |-> "XMIT", retry_count |-> 0, send_fbit |-> FALSE,
             remote_busy |-> FALSE, srej_act |-> FALSE, srej_save |-> 0,
             rx_state |-> "RECV", expected_tx_seq |-> First, buffer_seq |-> First,
             last_acked_seq |-> First, srej_q |-> {}, srej_list |-> list,
             local_busy |-> FALSE, rnr_sent |-> FALSE, full |-> FALSE, got |-> got,
             sent |-> 0, sdus |-> sdus, armed |-> {}, due |-> {}]
    BY DEF NewChan
  <2> HIDE DEF out, tx_q, list, got
  <2> QED
    BY <1>1, <2>1, <2>2 DEF Chan
<1>5. TxInv(c)
  BY <1>2, <1>3 DEF TxInv
<1>6. RxInv(c)
  BY <1>2, <1>3 DEF RxInv
<1>7. Timed(c) /\ Calm(c)
  BY <1>3 DEF Timed, Calm
<1> QED
  BY <1>3, <1>4, <1>5, <1>6, <1>7 DEF Good

LEMMA StartsGood == ErtmInit => ErtmInv
<1> SUFFICES ASSUME ErtmInit
             PROVE  ErtmInv
  OBVIOUS
<1>1. PICK max_tx \in MaxTx, sdus \in Sdus : chan = [s \in Side |-> NewChan(max_tx, sdus[s])]
  BY DEF ErtmInit
<1>2. max_tx \in Nat /\ \A s \in Side : sdus[s] \in Nat
  BY BoundsAreNumbers
<1>3. \A s \in Side : Good(TRUE, chan[s]) /\ chan[s].out = <<>>
  BY <1>1, <1>2, NewChanGood
<1>4. chan \in [Side -> Chan]
  BY <1>1, <1>3 DEF Good
<1>5. link = [s \in Side |-> <<>>] /\ lost = 0 /\ fills = 0 /\ early = 0
  BY DEF ErtmInit
<1>6. link \in [Side -> Seq(Frame)] /\ \A s \in Side : NoRNR(link[s])
  BY <1>5 DEF NoRNR
<1>7. \A s \in Side : Good(fills = 0, chan[s])
  BY <1>3 DEF Good
<1>8. lost \in 0 .. MaxLost /\ fills \in 0 .. MaxFull /\ early \in 0 .. MaxEarly
  BY <1>5, BoundsAreNumbers
<1> QED
  BY <1>3, <1>4, <1>6, <1>7, <1>8 DEF ErtmInv, NoRNR

LEMMA SendKeeps ==
    ASSUME ErtmInv, NEW s \in Side, Send(s)
    PROVE  ErtmInv'
<1> DEFINE calm == fills' = 0
           d == data_request(chan[s])
<1>1. calm \in BOOLEAN /\ fills' = fills /\ lost' = lost /\ early' = early
      /\ Commit(s, d, link)
  BY DEF Send
<1>2. Good(calm, chan[s])
  BY <1>1, ErtmInvIs
<1>3. /\ calm = (fills' = 0) /\ (calm => fills = 0) /\ link \in [Side -> Seq(Frame)]
      /\ (calm => \A q \in Side : NoRNR(link[q]))
      /\ lost' \in 0 .. MaxLost /\ fills' \in 0 .. MaxFull /\ early' \in 0 .. MaxEarly
  BY <1>1, ErtmInvIs
<1> HIDE DEF calm, d
<1>4. Good(calm, d)
  BY <1>1, <1>2, Requests DEF d
<1> QED
  BY <1>1, <1>3, <1>4, Commits

LEMMA ReceiveKeeps ==
    ASSUME ErtmInv, NEW s \in Side, NEW fill \in Nat, Receive(s, fill)
    PROVE  ErtmInv'
<1> DEFINE calm == fills' = 0
           p == Peer(s)
           f == Head(link[p])
           d == data_rcv(chan[s], f, fill)
           rest == Tail(link[p])
           links == [link EXCEPT ![p] = rest]
<1>1. /\ link[p] # <<>> /\ Commit(s, d, links)
      /\ fills' = (IF fill > 0 THEN fills + 1 ELSE fills) /\ (fill > 0 => fills < MaxFull)
      /\ lost' = lost /\ early' = early
  BY DEF Receive
<1>2. /\ chan \in [Side -> Chan] /\ link \in [Side -> Seq(Frame)] /\ Good(fills = 0, chan[s])
      /\ (fills = 0 => \A q \in Side : NoRNR(link[q]))
      /\ lost \in 0 .. MaxLost /\ fills \in 0 .. MaxFull /\ early \in 0 .. MaxEarly
  BY ErtmInvIs
<1>3. p \in Side /\ MaxFull \in Nat
  BY OtherEnd, BoundsAreNumbers
<1>4. /\ calm \in BOOLEAN /\ calm = (fills' = 0) /\ (calm => fills = 0 /\ fill = 0)
      /\ fills' \in 0 .. MaxFull
  BY <1>1, <1>2, <1>3
<1> HIDE DEF calm, p
<1>5. f \in Frame /\ rest \in Seq(Frame)
      /\ (calm => f.super # "RNR" /\ NoRNR(rest))
  <2>1. link[p] \in Seq(Frame) /\ (calm => NoRNR(link[p]))
    BY <1>2, <1>3, <1>4
  <2> QED
    BY <1>1, <2>1, Removes
<1>6. Good(calm, chan[s])
  <2> DEFINE was == fills = 0
  <2>1. was \in BOOLEAN /\ Good(was, chan[s]) /\ (calm => was)
    BY <1>2, <1>4
  <2> HIDE DEF was
  <2> QED
    BY <1>4, <2>1, Weaker
<1> HIDE DEF f, rest
<1>7. Good(calm, d)
  <2> HIDE DEF d
  <2> QED
    BY <1>4, <1>5, <1>6, FramesReceived DEF d
<1>8. links \in [Side -> Seq(Frame)] /\ (calm => \A q \in Side : NoRNR(links[q]))
  BY <1>2, <1>3, <1>4, <1>5
<1> HIDE DEF d, links
<1> QED
  BY <1>1, <1>2, <1>4, <1>7, <1>8, Commits

LEMMA LoseKeeps ==
    ASSUME ErtmInv, NEW s \in Side, Lose(s)
    PROVE  ErtmInv'
<1>1. PICK i \in DOMAIN link[s] : link' = [link EXCEPT ![s] = RemoveAt(@, i)]
  BY DEF Lose
<1>2. lost < MaxLost /\ lost' = lost + 1 /\ chan' = chan /\ fills' = fills /\ early' = early
  BY DEF Lose
<1>3. /\ chan \in [Side -> Chan] /\ link \in [Side -> Seq(Frame)]
      /\ \A q \in Side : chan[q].out = <<>> /\ Good(fills = 0, chan[q])
      /\ (fills = 0 => \A q \in Side : NoRNR(link[q]))
      /\ lost \in 0 .. MaxLost /\ fills \in 0 .. MaxFull /\ early \in 0 .. MaxEarly
  BY ErtmInvIs
<1> DEFINE l == RemoveAt(link[s], i)
<1>4. l \in Seq(Frame) /\ (NoRNR(link[s]) => NoRNR(l))
  BY <1>3, Loses
<1>5. link' = [link EXCEPT ![s] = l]
  BY <1>1
<1> HIDE DEF l
<1>6. link' \in [Side -> Seq(Frame)] /\ (fills' = 0 => \A q \in Side : NoRNR(link'[q]))
  BY <1>2, <1>3, <1>4, <1>5
<1>7. lost' \in 0 .. MaxLost
  BY <1>2, <1>3, BoundsAreNumbers
<1> QED
  BY <1>2, <1>3, <1>6, <1>7 DEF ErtmInv, NoRNR

Fired(c, t) == [c EXCEPT !.armed = @ \ {t}, !.due = @ \cup {t}]

\* A timer that is due is as good as one that is pending.
LEMMA FiredGood ==
    ASSUME NEW calm \in BOOLEAN, NEW c, Good(calm, c), NEW t \in Timer, t \in c.armed,
           NEW d, d = Fired(c, t)
    PROVE  Good(calm, d) /\ d.out = c.out /\ d \in Chan
<1>1. c \in Chan /\ TxInv(c) /\ RxInv(c) /\ (c.up => Timed(c)) /\ (calm => Calm(c))
  BY DEF Good
<1>2. /\ d \in Chan /\ SameRx(c, d) /\ SameTx(c, d) /\ SameTx(c, d) /\ d.out = c.out
      /\ d.armed = c.armed \ {t} /\ d.due = c.due \cup {t} /\ d.tx_state = c.tx_state
      /\ d.up = c.up /\ d.remote_busy = c.remote_busy /\ d.last_acked_seq = c.last_acked_seq
  BY <1>1 DEF Fired, Chan, SameRx, SameTx
<1>3. TxInv(d) /\ RxInv(d)
  BY <1>1, <1>2, TxKept, WindowKept DEF SameRx, SameWindow
<1>4. Timers(d) = Timers(c)
  BY <1>2 DEF Timers
<1>5. (d.up => Timed(d)) /\ (calm => Calm(d))
  BY <1>1, <1>2, <1>4 DEF Timed, Calm, SameRx, SameTx
<1> QED
  BY <1>2, <1>3, <1>5 DEF Good

LEMMA ExpireKeeps ==
    ASSUME ErtmInv, NEW s \in Side, NEW t \in Timer, Expire(s, t)
    PROVE  ErtmInv'
<1> DEFINE d == Fired(chan[s], t)
<1>1. /\ chan \in [Side -> Chan] /\ link \in [Side -> Seq(Frame)]
      /\ \A q \in Side : chan[q].out = <<>> /\ Good(fills = 0, chan[q])
      /\ (fills = 0 => \A q \in Side : NoRNR(link[q]))
      /\ lost \in 0 .. MaxLost /\ fills \in 0 .. MaxFull /\ early \in 0 .. MaxEarly
  BY ErtmInvIs
<1>2. t \in chan[s].armed /\ link' = link /\ lost' = lost /\ fills' = fills
  BY DEF Expire
<1>3. early' \in 0 .. MaxEarly
  <2>1. early' = early \/ (early < MaxEarly /\ early' = early + 1)
    BY DEF Expire
  <2> QED
    BY <1>1, <2>1, BoundsAreNumbers
<1>4. chan' = [chan EXCEPT ![s] = d]
  BY <1>1 DEF Expire, Fired
<1>5. Good(fills = 0, d) /\ d.out = <<>> /\ d \in Chan
  <2> DEFINE calm == fills = 0
  <2>1. calm \in BOOLEAN /\ Good(calm, chan[s]) /\ chan[s].out = <<>>
    BY <1>1
  <2> HIDE DEF calm, d
  <2>2. Good(calm, d) /\ d.out = chan[s].out /\ d \in Chan
    BY <1>2, <2>1, FiredGood DEF d
  <2> QED
    BY <2>1, <2>2 DEF calm
<1> HIDE DEF d
<1>6. chan' \in [Side -> Chan] /\ chan'[s] = d /\ \A q \in Side \ {s} : chan'[q] = chan[q]
  BY <1>1, <1>4, <1>5
<1>7. \A q \in Side : chan'[q].out = <<>> /\ Good(fills' = 0, chan'[q])
  BY <1>1, <1>2, <1>5, <1>6
<1> QED
  BY <1>1, <1>2, <1>3, <1>6, <1>7 DEF ErtmInv, NoRNR

LEMMA TimeoutKeeps ==
    ASSUME ErtmInv, NEW s \in Side, NEW t \in Timer, Timeout(s, t)
    PROVE  ErtmInv'
<1> DEFINE calm == fills' = 0
           c == Taken(chan[s], t)
           d == CASE t = "retrans" -> retrans_timeout(c)
                  [] t = "monitor" -> monitor_timeout(c)
                  [] t = "ack" -> ack_timeout(c)
<1>1. calm \in BOOLEAN /\ fills' = fills /\ lost' = lost /\ early' = early
      /\ Commit(s, d, link)
  BY DEF Timeout, Taken
<1>2. Good(calm, chan[s])
  BY <1>1, ErtmInvIs
<1>3. /\ calm = (fills' = 0) /\ (calm => fills = 0) /\ link \in [Side -> Seq(Frame)]
      /\ (calm => \A q \in Side : NoRNR(link[q]))
      /\ lost' \in 0 .. MaxLost /\ fills' \in 0 .. MaxFull /\ early' \in 0 .. MaxEarly
  BY <1>1, ErtmInvIs
<1> HIDE DEF calm
<1>4. Good(calm, d)
  <2>1. CASE t = "retrans"
    <3>1. Good(calm, retrans_timeout(Taken(chan[s], "retrans")))
      BY <1>1, <1>2, RetransExpires
    <3> QED
      BY <2>1, <3>1
  <2>2. CASE t = "monitor"
    <3>1. Good(calm, monitor_timeout(Taken(chan[s], "monitor")))
      BY <1>1, <1>2, MonitorExpires
    <3> QED
      BY <2>2, <3>1
  <2>3. CASE t = "ack"
    <3>1. Good(calm, ack_timeout(Taken(chan[s], "ack")))
      BY <1>1, <1>2, AckExpires
    <3> QED
      BY <2>3, <3>1
  <2> QED
    BY <2>1, <2>2, <2>3 DEF Timer
<1> HIDE DEF d
<1> QED
  BY <1>1, <1>3, <1>4, Commits

Emptied(c) == [c EXCEPT !.full = FALSE]

LEMMA ReadKeeps ==
    ASSUME ErtmInv, NEW s \in Side, NEW half \in BOOLEAN, Read(s, half)
    PROVE  ErtmInv'
<1> DEFINE calm == fills' = 0
           c == Emptied(chan[s])
           d == IF half THEN busy_clear(c) ELSE c
           no == FALSE
<1>1. calm \in BOOLEAN /\ fills' = fills /\ lost' = lost /\ early' = early
      /\ Commit(s, d, link) /\ chan[s].local_busy
  BY DEF Read, Emptied
<1>2. Good(calm, chan[s])
  BY <1>1, ErtmInvIs
<1>3. /\ calm = (fills' = 0) /\ (calm => fills = 0) /\ link \in [Side -> Seq(Frame)]
      /\ (calm => \A q \in Side : NoRNR(link[q]))
      /\ lost' \in 0 .. MaxLost /\ fills' \in 0 .. MaxFull /\ early' \in 0 .. MaxEarly
  BY <1>1, ErtmInvIs
<1> HIDE DEF calm
<1>4. calm = FALSE
  BY <1>1, <1>2 DEF Good, Calm
<1>5. chan[s] \in Chan
  BY <1>2 DEF Good
<1>6. chan[s].local_busy \in BOOLEAN /\ chan[s].got \in Seq(Nat) /\ no \in BOOLEAN
  BY <1>5, ChanNumbers
<1>7. c = PutBusy(chan[s], chan[s].local_busy, no, chan[s].got)
  BY <1>5 DEF PutBusy, Emptied, Chan
<1>8. Good(calm, c)
  <2>1. calm => ~chan[s].local_busy /\ ~no
    BY <1>4
  <2> DEFINE b == chan[s]
             local_busy == chan[s].local_busy
             got == chan[s].got
  <2>2. /\ Good(calm, b) /\ local_busy \in BOOLEAN /\ got \in Seq(Nat) /\ calm \in BOOLEAN
        /\ (calm => ~local_busy /\ ~no) /\ c = PutBusy(b, local_busy, no, got)
        /\ no \in BOOLEAN
    BY <1>1, <1>2, <1>6, <1>7, <2>1
  <2> HIDE DEF b, local_busy, got, c, no, d
  <2> QED
    BY <2>2, GoodBusy
<1> HIDE DEF c, no
<1>9. Good(calm, d)
  BY <1>4, <1>8, BusyCleared
<1> HIDE DEF d
<1> QED
  BY <1>1, <1>3, <1>9, Commits

LEMMA StepsKeep == ErtmInv /\ [ErtmNext]_ertmVars => ErtmInv'
<1> SUFFICES ASSUME ErtmInv, [ErtmNext]_ertmVars
             PROVE  ErtmInv'
  OBVIOUS
<1>1. CASE UNCHANGED ertmVars
  BY <1>1 DEF ertmVars, ErtmInv
<1>2. CASE ErtmNext
  <2> PICK s \in Side :
          \/ Send(s)
          \/ \E fill \in 0 .. TxWin : Receive(s, fill)
          \/ Lose(s)
          \/ \E t \in Timer : Expire(s, t) \/ Timeout(s, t)
          \/ \E half \in BOOLEAN : Read(s, half)
    BY <1>2 DEF ErtmNext
  <2>1. CASE Send(s)
    BY <2>1, SendKeeps
  <2>2. ASSUME NEW fill \in 0 .. TxWin, Receive(s, fill)
        PROVE  ErtmInv'
    <3>1. fill \in Nat
      BY Numbers
    <3> QED
      BY <2>2, <3>1, ReceiveKeeps
  <2>3. CASE Lose(s)
    BY <2>3, LoseKeeps
  <2>4. ASSUME NEW t \in Timer, Expire(s, t)
        PROVE  ErtmInv'
    BY <2>4, ExpireKeeps
  <2>5. ASSUME NEW t \in Timer, Timeout(s, t)
        PROVE  ErtmInv'
    BY <2>5, TimeoutKeeps
  <2>6. ASSUME NEW half \in BOOLEAN, Read(s, half)
        PROVE  ErtmInv'
    BY <2>6, ReadKeeps
  <2> QED
    BY <2>1, <2>2, <2>3, <2>4, <2>5, <2>6
<1> QED
  BY <1>1, <1>2

-----------------------------------------------------------------------------
(* Theorems *)

\* The inductive invariant holds of every state: numbers, windows, what is stored and what
\* was rejected agree, and the timers that a channel depends on are pending or due.
THEOREM ErtmInvariant == ErtmSpec => []ErtmInv
<1> QED
  BY StartsGood, StepsKeep, PTL DEF ErtmSpec

\* The list of rejected numbers holds no more than the window, hence fits its slots.
LEMMA ListIsShort ==
    ASSUME NEW c \in Chan, RxInv(c)
    PROVE  Len(c.srej_list) <= TxWin
<1> DEFINE n == Len(c.srej_list)
           h == [i \in 1 .. n |-> offset(c.srej_list[i], c.buffer_seq)]
<1>1. c.srej_list \in Seq(Number) /\ c.buffer_seq \in Number
  BY ChanNumbers
<1>2. n \in Nat /\ DOMAIN c.srej_list = 1 .. n /\ TxWin \in Nat
      /\ \A i \in 1 .. n : c.srej_list[i] \in Number
  <2> HIDE DEF h
  <2>1. n \in Nat /\ DOMAIN c.srej_list = 1 .. n
    BY <1>1
  <2>2. \A i \in DOMAIN c.srej_list : c.srej_list[i] \in Number
    BY ChanNumbers
  <2> QED
    BY <2>1, <2>2, Numbers
<1>3. /\ \A i \in 1 .. n : offset(c.srej_list[i], c.buffer_seq) < TxWin
      /\ \A i \in 1 .. n : offset(c.srej_list[i], c.buffer_seq) \in Nat
  <2> DEFINE acked == offset(c.buffer_seq, c.last_acked_seq)
             end == offset(c.expected_tx_seq, c.buffer_seq)
  <2>1. acked \in Nat /\ end \in Nat /\ acked + end <= TxWin
        /\ \A x \in Number : offset(x, c.buffer_seq) \in Nat
    BY Window
  <2>2. \A i \in 1 .. n : offset(c.srej_list[i], c.buffer_seq) < end
    BY <1>2 DEF RxInv
  <2> HIDE DEF acked, end, n
  <2> QED
    BY <1>2, <2>1, <2>2
<1> HIDE DEF n
<1>4. h \in [1 .. n -> 0 .. TxWin - 1]
  BY <1>2, <1>3
<1>5. \A i, j \in 1 .. n : h[i] = h[j] => i = j
  <2> SUFFICES ASSUME NEW i \in 1 .. n, NEW j \in 1 .. n, h[i] = h[j]
               PROVE  i = j
    OBVIOUS
  <2>1. offset(c.srej_list[i], c.buffer_seq) = offset(c.srej_list[j], c.buffer_seq)
    OBVIOUS
  <2>2. c.srej_list[i] = c.srej_list[j]
    BY <1>1, <1>2, <2>1, OffsetsAdd
  <2> QED
    BY <1>2, <2>2 DEF RxInv
<1> HIDE DEF h
<1>6. IsFiniteSet(1 .. n) /\ Cardinality(1 .. n) = n
  <2>1. 1 \in Int /\ n \in Int
    BY <1>2
  <2>2. IsFiniteSet(1 .. n) /\ Cardinality(1 .. n) = IF 1 > n THEN 0 ELSE n - 1 + 1
    BY <2>1, FS_Interval
  <2> QED
    BY <1>2, <2>2
<1>7. IsFiniteSet(0 .. TxWin - 1) /\ Cardinality(0 .. TxWin - 1) = TxWin
  <2>1. 0 \in Int /\ TxWin - 1 \in Int
    BY <1>2
  <2>2. IsFiniteSet(0 .. TxWin - 1)
        /\ Cardinality(0 .. TxWin - 1) = IF 0 > TxWin - 1 THEN 0 ELSE TxWin - 1 - 0 + 1
    BY <2>1, FS_Interval
  <2> QED
    BY <1>2, <2>2
<1>8. ~(TxWin < n)
  <2> SUFFICES ASSUME TxWin < n
               PROVE  FALSE
    OBVIOUS
  <2> DEFINE S == 1 .. n
             T == 0 .. TxWin - 1
  <2>1. /\ IsFiniteSet(S) /\ IsFiniteSet(T) /\ Cardinality(T) < Cardinality(S)
        /\ h \in [S -> T] /\ \A i, j \in S : h[i] = h[j] => i = j
    BY <1>4, <1>5, <1>6, <1>7
  <2> HIDE DEF S, T
  <2>2. \E i, j \in S : i # j /\ h[i] = h[j]
    BY <2>1, FS_PigeonHole
  <2> QED
    BY <2>1, <2>2
<1> QED
  BY <1>2, <1>8 DEF n

\* Types, with the window and the slots of the sequence list as bounds.
THEOREM ErtmTyped == ErtmSpec => []ErtmTypeOK
<1>1. ErtmInv => ErtmTypeOK
  <2> SUFFICES ASSUME ErtmInv
               PROVE  ErtmTypeOK
    OBVIOUS
  <2>1. /\ chan \in [Side -> Chan]
        /\ \A s \in Side : chan[s].out = <<>> /\ Good(fills = 0, chan[s])
        /\ lost \in 0 .. MaxLost /\ fills \in 0 .. MaxFull /\ early \in 0 .. MaxEarly
    BY ErtmInvIs
  <2>2. \A s \in Side : TxInv(chan[s]) /\ RxInv(chan[s])
    BY <2>1 DEF Good
  <2>3. \A s \in Side : Len(chan[s].srej_list) <= Slots
    <3> SUFFICES ASSUME NEW s \in Side
                 PROVE  Len(chan[s].srej_list) <= Slots
      OBVIOUS
    <3>1. Len(chan[s].srej_list) <= TxWin /\ Len(chan[s].srej_list) \in Nat
      BY <2>1, <2>2, ListIsShort, ChanNumbers
    <3>2. TxWin <= Slots /\ Slots \in Nat /\ TxWin \in Nat
      BY SlotsIs, Numbers DEF Powers
    <3> QED
      BY <3>1, <3>2
  <2>4. \A s \in Side : chan[s].unacked \in 0 .. TxWin
    <3> SUFFICES ASSUME NEW s \in Side
                 PROVE  chan[s].unacked \in 0 .. TxWin
      OBVIOUS
    <3>1. chan[s].unacked \in Nat /\ chan[s].unacked <= TxWin
      BY <2>1, <2>2, ChanNumbers DEF TxInv
    <3> QED
      BY <3>1, Numbers
  <2> DEFINE Narrow == [up : BOOLEAN, max_tx : Nat, out : {<<>>},
                        tx_q : Seq(Unit), head : Nat, next_tx_seq : Number,
                        expected_ack_seq : Number, unacked : 0 .. TxWin,
                        tx_state : {"XMIT", "WAIT_F"}, retry_count : Nat,
                        send_fbit : BOOLEAN, remote_busy : BOOLEAN, srej_act : BOOLEAN,
                        srej_save : Number, rx_state : {"RECV", "SREJ_SENT"},
                        expected_tx_seq : Number, buffer_seq : Number,
                        last_acked_seq : Number, srej_q : SUBSET Frames,
                        srej_list : Seq(Number), local_busy : BOOLEAN,
                        rnr_sent : BOOLEAN, full : BOOLEAN, got : Seq(Nat), sent : Nat,
                        sdus : Nat, armed : SUBSET Timer, due : SUBSET Timer]
  <2>5. \A s \in Side : chan[s] \in Narrow
    <3> DEFINE none == {<<>>}
               window == 0 .. TxWin
    <3> SUFFICES ASSUME NEW s \in Side
                 PROVE  chan[s] \in Narrow
      OBVIOUS
    <3>1. chan[s] \in Chan /\ chan[s].out \in none /\ chan[s].unacked \in window
      BY <2>1, <2>4
    <3> HIDE DEF none, window
    <3> QED
      BY <3>1 DEF Chan, none, window
  <2>6. chan \in [Side -> Narrow]
    BY <2>1, <2>5
  <2> QED
    BY <2>1, <2>3, <2>6 DEF ErtmTypeOK, Number, Unit
<1> QED
  BY <1>1, ErtmInvariant, PTL

\* An end that awaits the answer to a poll has its monitor timer pending or due, and while
\* no end has been busy one that awaits acknowledgements has a timer: no loss leaves it
\* waiting for ever, for every window and every number of losses.
THEOREM AlwaysTimed == ErtmSpec => []WaitingIsTimed
<1>1. ErtmInv => WaitingIsTimed
  <2> SUFFICES ASSUME ErtmInv, Up, NEW s \in Side
               PROVE  /\ chan[s].tx_state = "WAIT_F" => "monitor" \in Timers(chan[s])
                      /\ (chan[s].unacked > 0 /\ ~chan[s].remote_busy /\ fills = 0) =>
                             Timers(chan[s]) \cap {"retrans", "monitor"} # {}
    BY DEF WaitingIsTimed, Timers
  <2>1. Good(fills = 0, chan[s]) /\ chan[s].up
    BY ErtmInvIs DEF Up
  <2>2. chan[s].tx_state \in {"XMIT", "WAIT_F"} /\ Timed(chan[s]) /\ (fills = 0 => Calm(chan[s]))
    BY <2>1, ChanNumbers DEF Good
  <2> QED
    BY <2>1, <2>2 DEF Timed, Calm
<1> QED
  BY <1>1, ErtmInvariant, PTL
=============================================================================
