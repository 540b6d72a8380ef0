--------------------------- MODULE ErtmOpenProofs ----------------------------
(***************************************************************************)
(* The enhanced retransmission mode never takes what is repeated or late   *)
(* for an error: with a window of at most half of the sequence numbers and *)
(* no limit on tries, neither end ever disconnects.                        *)
(***************************************************************************)
EXTENDS ErtmLinkProofs

-----------------------------------------------------------------------------
(* What handlers keep up *)

Mute(out) == \A i \in DOMAIN out : out[i].super = "SREJ"

\* A full socket is a busy one, and a busy end stores nothing behind a gap.
Busy(c) == (c.full => c.local_busy) /\ (c.local_busy => c.rx_state = "RECV")

\* What the end has told the other end to have got: all that it has, or still what ends at
\* the number m.
Tells(m, c) ==
    c.last_acked_seq = c.buffer_seq \/ (c.last_acked_seq = m /\ Mute(c.out))

\* Of an end in a handler that began at m: its limit on tries is x, and if there is none
\* it is up.
Steady(x, m, c) ==
    /\ c.max_tx = x
    /\ x = 0 => c.up /\ Busy(c) /\ Tells(m, c)

Firm(x, m, c) == Good(FALSE, c) /\ Steady(x, m, c)

\* What a function leaves alone that tells the other end all, or sends nothing.
Carries(c, d) ==
    /\ d.max_tx = c.max_tx /\ (c.max_tx = 0 /\ c.up => d.up)
    /\ d.full = c.full /\ d.local_busy = c.local_busy /\ d.rx_state = c.rx_state
    /\ d.buffer_seq = c.buffer_seq
    /\ \/ d.last_acked_seq = d.buffer_seq
       \/ d.last_acked_seq = c.last_acked_seq /\ d.out = c.out

LEMMA CarriesSteady ==
    ASSUME NEW x, NEW m, NEW c, Steady(x, m, c), NEW d, Carries(c, d)
    PROVE  Steady(x, m, d)
  BY DEF Steady, Carries, Busy, Tells

LEMMA CarriesFirm ==
    ASSUME NEW x, NEW m, NEW c, Firm(x, m, c), NEW d, Good(FALSE, d), Carries(c, d)
    PROVE  Firm(x, m, d)
  BY CarriesSteady DEF Firm

LEMMA FirmIs ==
    ASSUME NEW x, NEW m, NEW c, Firm(x, m, c)
    PROVE  Good(FALSE, c) /\ c \in Chan /\ Steady(x, m, c) /\ c.max_tx = x
  BY DEF Firm, Good, Steady

\* Steps that neither send nor receive: flags, timers, tries.
LEMMA AsideFirm ==
    ASSUME NEW x, NEW m, NEW c, Firm(x, m, c), NEW d, Good(FALSE, d),
           d.max_tx = c.max_tx, d.up = c.up, d.full = c.full, d.local_busy = c.local_busy,
           d.rx_state = c.rx_state, d.buffer_seq = c.buffer_seq,
           d.last_acked_seq = c.last_acked_seq, d.out = c.out
    PROVE  Firm(x, m, d)
<1>1. Carries(c, d)
  BY DEF Carries
<1> QED
  BY <1>1, CarriesFirm

LEMMA SframeSteady ==
    ASSUME NEW x, NEW m, NEW c \in Chan, Steady(x, m, c),
           NEW super \in {"RR", "RNR", "SREJ"}, NEW poll \in BOOLEAN, NEW final \in BOOLEAN,
           NEW reqseq \in Number, super # "SREJ" => reqseq = c.buffer_seq,
           NEW d, d = send_sframe(c, super, poll, final, reqseq)
    PROVE  d \in Chan /\ Steady(x, m, d) /\ SameRx(c, d)
<1> DEFINE f == SFrame(super, reqseq, poll, final \/ (c.send_fbit /\ ~poll))
           out == Append(c.out, f)
           rnr == IF super = "SREJ" THEN c.rnr_sent ELSE super = "RNR"
           acked == IF super = "SREJ" THEN c.last_acked_seq ELSE reqseq
           armed == IF super = "SREJ" THEN c.armed ELSE c.armed \ {"ack"}
<1>1. /\ c.out \in Seq(Frame) /\ c.armed \in SUBSET Timer /\ c.rnr_sent \in BOOLEAN
      /\ c.last_acked_seq \in Number /\ c.send_fbit \in BOOLEAN
  BY ChanNumbers
<1>2. f \in Frame /\ f.super = super
  BY <1>1, Numbers DEF SFrame, Frame
<1>3. d = PutSframe(c, out, rnr, acked, armed)
  BY DEF send_sframe, PutSframe
<1> HIDE DEF f
<1>4. /\ out \in Seq(Frame) /\ rnr \in BOOLEAN /\ acked \in Number
      /\ armed \in SUBSET Timer
  <2>1. out \in Seq(Frame)
    BY <1>1, <1>2
  <2>2. armed \in SUBSET Timer
    BY <1>1
  <2>3. rnr \in BOOLEAN
    BY <1>1
  <2>4. acked \in Number
    BY <1>1
  <2> QED
    BY <2>1, <2>2, <2>3, <2>4
<1>5. super = "SREJ" => acked = c.last_acked_seq /\ (Mute(c.out) => Mute(out))
  <2> SUFFICES ASSUME super = "SREJ", Mute(c.out) PROVE Mute(out)
    OBVIOUS
  <2>1. \A i \in DOMAIN out : (i \in DOMAIN c.out /\ out[i] = c.out[i]) \/ out[i] = f
    BY <1>1, <1>2
  <2> QED
    BY <1>2, <2>1 DEF Mute
<1>6. super # "SREJ" => acked = c.buffer_seq
  OBVIOUS
<1> HIDE DEF out, rnr, acked, armed
<1>7. /\ d \in Chan /\ SameRx(c, d) /\ SameState(c, d) /\ d.out = out
      /\ d.last_acked_seq = acked
  BY <1>3, <1>4, SframeFields
<1>8. d.max_tx = c.max_tx
  BY <1>3 DEF PutSframe, Chan
<1>9. Tells(m, c) => Tells(m, d)
  BY <1>5, <1>6, <1>7 DEF Tells, SameRx
<1> QED
  BY <1>7, <1>8, <1>9 DEF Steady, Busy, SameRx, SameState

LEMMA SframeFirm ==
    ASSUME NEW x, NEW m, NEW c, Firm(x, m, c),
           NEW super \in {"RR", "RNR", "SREJ"}, NEW poll \in BOOLEAN, NEW final \in BOOLEAN,
           NEW reqseq \in Number, super # "SREJ" => reqseq = c.buffer_seq,
           NEW d, d = send_sframe(c, super, poll, final, reqseq)
    PROVE  Firm(x, m, d)
<1> DEFINE calm == FALSE
<1>1. c \in Chan /\ Steady(x, m, c) /\ calm \in BOOLEAN /\ Good(calm, c) /\ ~calm
  BY FirmIs
<1> HIDE DEF calm
<1>2. Good(calm, d)
  BY <1>1, Sframes, SMTT(30)
<1>3. Steady(x, m, d)
  BY <1>1, SframeSteady, SMTT(30)
<1> QED
  BY <1>2, <1>3, <1>1 DEF Firm, Good

-----------------------------------------------------------------------------
(* Timers, flags, sending *)

LEMMA AsideFirmly ==
    ASSUME NEW x, NEW m, NEW c, Firm(x, m, c), NEW d, Good(FALSE, d)
    PROVE  /\ \A armed : d = PutTimers(c, armed) => Firm(x, m, d)
           /\ \A armed, retry, state : d = PutPoll(c, armed, retry, state) => Firm(x, m, d)
           /\ \A remote_busy, fbit, act, save :
                  d = PutFlags(c, remote_busy, fbit, act, save) => Firm(x, m, d)
<1> DEFINE Same ==
               /\ d.max_tx = c.max_tx /\ d.up = c.up /\ d.full = c.full
               /\ d.local_busy = c.local_busy /\ d.rx_state = c.rx_state
               /\ d.buffer_seq = c.buffer_seq /\ d.last_acked_seq = c.last_acked_seq
               /\ d.out = c.out
<1>1. c \in Chan
  BY FirmIs
<1>2. Same => Firm(x, m, d)
  BY AsideFirm
<1>3. \A armed : d = PutTimers(c, armed) => Same
  BY <1>1 DEF PutTimers, Chan
<1>4. \A armed, retry, state : d = PutPoll(c, armed, retry, state) => Same
  BY <1>1 DEF PutPoll, Chan
<1>5. \A remote_busy, fbit, act, save :
          d = PutFlags(c, remote_busy, fbit, act, save) => Same
  BY <1>1 DEF PutFlags, Chan
<1> QED
  BY <1>2, <1>3, <1>4, <1>5

LEMMA RetransStartsFirm ==
    ASSUME NEW x, NEW m, NEW c, Firm(x, m, c), NEW d, d = set_retrans_timer(c)
    PROVE  Firm(x, m, d)
<1> DEFINE armed == IF "monitor" \in c.armed THEN c.armed ELSE c.armed \cup {"retrans"}
<1>1. Good(FALSE, c) /\ c \in Chan
  BY FirmIs
<1>2. Good(FALSE, d)
  BY <1>1, RetransStarts
<1>3. d = PutTimers(c, armed)
  BY <1>1 DEF set_retrans_timer, PutTimers, Chan
<1> QED
  BY <1>2, <1>3, AsideFirmly

LEMMA PollsFirm ==
    ASSUME NEW x, NEW m, NEW c, Firm(x, m, c), NEW d, d = PollAndWait(c)
    PROVE  Firm(x, m, d)
<1> DEFINE armed == (c.armed \ {"retrans"}) \cup {"monitor"}
<1>1. Good(FALSE, c) /\ c \in Chan
  BY FirmIs
<1>2. Good(FALSE, d)
  BY <1>1, Polls
<1>3. d = [[c EXCEPT !.armed = armed] EXCEPT !.retry_count = 1, !.tx_state = "WAIT_F"]
  BY DEF PollAndWait, set_monitor_timer
<1> HIDE DEF armed
<1>4. d = PutPoll(c, armed, 1, "WAIT_F")
  BY <1>1, <1>3 DEF PutPoll, Chan
<1> QED
  BY <1>2, <1>4, AsideFirmly

\* A frame with data tells the other end all.
LEMMA SendManySteady ==
    ASSUME NEW x, NEW m, NEW c \in Chan, Steady(x, m, c), NEW k, NEW d, d = SendMany(c, k)
    PROVE  Steady(x, m, d)
<1> DEFINE seq(j) == (c.next_tx_seq + j - 1) % Modulus
           frames == [j \in 1 .. k |-> IFrame(seq(j), c.tx_q[c.head + j].sdu, c.buffer_seq,
                                              c.send_fbit /\ j = 1)]
           out == c.out \o frames
           tx_q == [i \in DOMAIN c.tx_q |->
                      IF i - c.head \in 1 .. k
                      THEN [c.tx_q[i] EXCEPT !.txseq = seq(i - c.head), !.retries = 1]
                      ELSE c.tx_q[i]]
           head == c.head + k
           unacked == c.unacked + k
           next_seq == (c.next_tx_seq + k) % Modulus
<1>1. d = [c EXCEPT !.out = out, !.tx_q = tx_q, !.head = head, !.unacked = unacked,
                    !.next_tx_seq = next_seq, !.send_fbit = FALSE,
                    !.last_acked_seq = c.buffer_seq]
  BY DEF SendMany
<1> HIDE DEF out, tx_q, head, unacked, next_seq
<1>2. /\ d.max_tx = c.max_tx /\ d.up = c.up /\ d.full = c.full /\ d.local_busy = c.local_busy
      /\ d.rx_state = c.rx_state /\ d.buffer_seq = c.buffer_seq
      /\ d.last_acked_seq = d.buffer_seq
  BY <1>1 DEF Chan
<1>3. Carries(c, d)
  BY <1>2 DEF Carries
<1> QED
  BY <1>3, CarriesSteady

LEMMA SendsFirm ==
    ASSUME NEW x, NEW m, NEW c, Firm(x, m, c), NEW d, d = ertm_send(c)
    PROVE  Firm(x, m, d)
<1> DEFINE a == Len(c.tx_q) - c.head
           b == TxWin - c.unacked
           n == IF a <= b THEN a ELSE b
           k == IF ~c.up \/ c.remote_busy \/ c.tx_state # "XMIT" THEN 0 ELSE Min({a, b})
<1>1. c \in Chan /\ Good(FALSE, c) /\ Steady(x, m, c) /\ TxInv(c)
  BY FirmIs DEF Good
<1>2. c.head \in Nat /\ c.unacked \in Nat /\ c.tx_q \in Seq(Unit) /\ TxWin \in Nat
  BY <1>1, ChanNumbers, Numbers
<1>3. a \in Nat /\ b \in Nat
  <2>1. c.head <= Len(c.tx_q) /\ c.unacked <= TxWin /\ Len(c.tx_q) \in Nat
    BY <1>1, <1>2 DEF TxInv
  <2> QED
    BY <1>2, <2>1
<1> HIDE DEF a, b
<1>4. Min({a, b}) = n /\ n \in Nat /\ n <= a /\ n <= b
  BY <1>3, MinOfTwo
<1> HIDE DEF n
<1>5. k \in Nat /\ (k # 0 => k = n)
  BY <1>4
<1>6. d = IF k <= 0 THEN c ELSE set_retrans_timer(SendMany(c, k))
  BY DEF ertm_send, SendMany, k, a, b
<1> HIDE DEF k
<1>7. Good(FALSE, d)
  BY <1>1, Sends
<1>8. CASE k = 0
  <2>1. d = c
    BY <1>6, <1>8
  <2> QED
    BY <2>1
<1>9. CASE k # 0
  <2> DEFINE e == SendMany(c, k)
             armed == IF "monitor" \in e.armed THEN e.armed ELSE e.armed \cup {"retrans"}
  <2>1. d = set_retrans_timer(e)
    BY <1>5, <1>6, <1>9
  <2>2. k <= Len(c.tx_q) - c.head /\ k <= TxWin - c.unacked
    BY <1>4, <1>5, <1>9 DEF a, b
  <2>3. e \in Chan
    BY <1>1, <1>5, <1>9, <2>2, SendsMany
  <2>4. Steady(x, m, e)
    BY <1>1, SendManySteady
  <2> HIDE DEF e
  <2>5. d = PutTimers(e, armed)
    BY <2>1, <2>3 DEF set_retrans_timer, PutTimers, Chan
  <2> HIDE DEF armed
  <2>6. Carries(e, d)
    BY <2>3, <2>5 DEF PutTimers, Chan, Carries
  <2>7. Steady(x, m, d)
    BY <2>4, <2>6, CarriesSteady
  <2> QED
    BY <1>7, <2>7 DEF Firm
<1> QED
  BY <1>8, <1>9

\* An RR or RNR frame.
LEMMA ReportsFirm ==
    ASSUME NEW x, NEW m, NEW c, Firm(x, m, c), NEW poll \in BOOLEAN,
           NEW d, d = send_rr_or_rnr(c, poll)
    PROVE  Firm(x, m, d)
<1> DEFINE super == IF c.local_busy THEN "RNR" ELSE "RR"
           no == FALSE
<1>1. c \in Chan /\ c.buffer_seq \in Number
  BY FirmIs, ChanNumbers
<1>2. super \in {"RR", "RNR", "SREJ"} /\ super # "SREJ" /\ no \in BOOLEAN
  OBVIOUS
<1>3. d = send_sframe(c, super, poll, no, c.buffer_seq)
  BY DEF send_rr_or_rnr
<1> HIDE DEF super, no
<1> QED
  BY <1>1, <1>2, <1>3, SframeFirm, SMTT(30)

LEMMA AcksFirm ==
    ASSUME NEW x, NEW m, NEW c, Firm(x, m, c), NEW d, d = send_ack(c)
    PROVE  Firm(x, m, d)
<1> DEFINE c1 == ertm_send(c)
           frames_to_ack ==
                 IF ~c.remote_busy /\ c1.buffer_seq = c1.last_acked_seq THEN 0
                 ELSE offset(c.buffer_seq, c.last_acked_seq)
           no == FALSE
           super == IF c.local_busy /\ c.rx_state = "RECV" THEN "RNR" ELSE "RR"
<1>1. c \in Chan /\ Good(FALSE, c) /\ c.buffer_seq \in Number
  BY FirmIs, ChanNumbers
<1>2. Firm(x, m, c1)
  BY SendsFirm
<1> HIDE DEF c1
<1>3. c1 \in Chan /\ Good(FALSE, c1) /\ c1.buffer_seq \in Number /\ no \in BOOLEAN
  BY <1>2, FirmIs, ChanNumbers
<1>4. super \in {"RR", "RNR", "SREJ"} /\ super # "SREJ"
  OBVIOUS
<1>5. CASE c.local_busy /\ c.rx_state = "RECV"
  <2>1. d = send_sframe(c, super, no, no, c.buffer_seq)
    BY <1>5 DEF send_ack
  <2> HIDE DEF no, super
  <2> QED
    BY <1>1, <1>3, <1>4, <2>1, SframeFirm, SMTT(30)
<1>6. CASE ~(c.local_busy /\ c.rx_state = "RECV") /\ frames_to_ack >= (TxWin * 3) \div 4
  <2>1. d = send_sframe(c1, super, no, no, c1.buffer_seq)
    BY <1>6 DEF send_ack, c1
  <2> HIDE DEF no, super
  <2> QED
    BY <1>2, <1>3, <1>4, <2>1, SframeFirm, SMTT(30)
<1>7. CASE ~(c.local_busy /\ c.rx_state = "RECV") /\ ~(frames_to_ack >= (TxWin * 3) \div 4)
  <2>1. d = IF frames_to_ack > 0 THEN [c1 EXCEPT !.armed = @ \cup {"ack"}] ELSE c1
    BY <1>7 DEF send_ack, c1
  <2> HIDE DEF frames_to_ack
  <2>2. CASE frames_to_ack > 0
    <3>1. d = PutTimers(c1, c1.armed \cup {"ack"})
      BY <2>1, <2>2 DEF PutTimers
    <3>2. Good(FALSE, d)
      BY <1>1, Acks
    <3> QED
      BY <1>2, <3>1, <3>2, AsideFirmly
  <2>3. CASE ~(frames_to_ack > 0)
    BY <1>2, <2>1, <2>3
  <2> QED
    BY <2>2, <2>3
<1> QED
  BY <1>5, <1>6, <1>7

-----------------------------------------------------------------------------
(* Sending again *)

LEMMA ResendOneFirm ==
    ASSUME NEW x, NEW m, NEW c, Firm(x, m, c), NEW seq \in Number, NEW d, d = ResendOne(c, seq)
    PROVE  Firm(x, m, d)
<1> DEFINE i == Find(c.tx_q, seq)
           limit == c.max_tx # 0 /\ c.tx_q[i].retries + 1 > c.max_tx
           out == Append(c.out, IFrame(seq, c.tx_q[i].sdu, c.buffer_seq, c.send_fbit))
           tx_q == [c.tx_q EXCEPT ![i].retries = Count(c, @)]
           no == FALSE
           acked == c.buffer_seq
<1>1. c \in Chan /\ Good(FALSE, c) /\ c.max_tx = x
  BY FirmIs
<1>2. Good(FALSE, d)
  BY <1>1, ResendsOne
<1>3. CASE ~c.up \/ i = 0
  <2>1. d = c
    BY <1>3 DEF ResendOne
  <2> QED
    BY <2>1
<1>4. CASE ~(~c.up \/ i = 0) /\ limit
  <2>1. d = send_disconn_req(c)
    BY <1>4 DEF ResendOne
  <2>2. d.max_tx = x /\ x # 0
    BY <1>1, <1>4, <2>1 DEF send_disconn_req, Chan
  <2> QED
    BY <1>2, <2>2 DEF Firm, Steady
<1>5. CASE ~(~c.up \/ i = 0) /\ ~limit
  <2>1. d = PutResent(c, out, tx_q, no, acked)
    BY <1>5 DEF ResendOne, PutResent
  <2> HIDE DEF out, tx_q, no, i
  <2>2. Carries(c, d)
    BY <1>1, <2>1 DEF PutResent, Chan, Carries
  <2> QED
    BY <1>2, <2>2, CarriesFirm
<1> QED
  BY <1>3, <1>4, <1>5

LEMMA ResendsFirm ==
    ASSUME NEW x, NEW m, NEW c, Firm(x, m, c), NEW seqs \in Seq(Number),
           NEW d, d = ertm_resend(c, seqs)
    PROVE  Firm(x, m, d)
<1> DEFINE n == Len(seqs)
           C == {e \in Chan : Firm(x, m, e)}
           F == [e \in C |-> [j \in 1 .. n |-> ResendOne(e, seqs[j])]]
           done == CHOOSE g : g = [j \in 0 .. n |-> IF j = 0 THEN c
                                                    ELSE ResendOne(g[j - 1], seqs[j])]
<1>1. c \in C
  BY FirmIs
<1>2. CASE c.remote_busy
  <2>1. d = c
    BY <1>2 DEF ertm_resend
  <2> QED
    BY <2>1
<1>3. CASE ~c.remote_busy
  <2>1. n \in Nat /\ \A j \in 1 .. n : seqs[j] \in Number
    OBVIOUS
  <2>2. d = done[n]
    BY <1>3 DEF ertm_resend, InTurn
  <2>4. ASSUME NEW e \in C, NEW j \in 1 .. n PROVE ResendOne(e, seqs[j]) \in C
    <3> DEFINE y == ResendOne(e, seqs[j])
    <3>1. Firm(x, m, e) /\ seqs[j] \in Number
      BY <2>1
    <3>2. Firm(x, m, y)
      BY <3>1, ResendOneFirm
    <3> HIDE DEF y
    <3>3. y \in Chan
      BY <3>2, FirmIs
    <3> QED
      BY <3>2, <3>3 DEF y
  <2>5. F \in [C -> [1 .. n -> C]] /\ \A e \in C, j \in 1 .. n : F[e][j] = ResendOne(e, seqs[j])
    <3> HIDE DEF C
    <3> QED
      BY <2>4
  <2> HIDE DEF C, F, n, done
  <2>a. n \in Nat /\ c \in C /\ F \in Steps(n, C)
    BY <1>1, <2>1, <2>5 DEF Steps
  <2>b. PICK g : Leads(g, n, C, c, F)
    BY <2>a, TurnsExist
  <2>6. g \in [0 .. n -> C] /\ g[0] = c /\ \A j \in 1 .. n : g[j] = F[g[j - 1]][j]
    BY <2>b DEF Leads
  <2>7. g = [j \in 0 .. n |-> IF j = 0 THEN c ELSE ResendOne(g[j - 1], seqs[j])]
    <3>1. ASSUME NEW j \in 0 .. n
          PROVE  g[j] = IF j = 0 THEN c ELSE ResendOne(g[j - 1], seqs[j])
      <4>1. CASE j = 0
        BY <2>6, <4>1
      <4>2. CASE j # 0
        <5>1. j \in 1 .. n /\ j - 1 \in 0 .. n
          BY <2>1, <4>2
        <5> QED
          BY <2>5, <2>6, <4>2, <5>1
      <4> QED
        BY <4>1, <4>2
    <3>2. g = [j \in 0 .. n |-> g[j]]
      BY <2>6
    <3> QED
      BY <3>1, <3>2
  <2>8. done = [j \in 0 .. n |-> IF j = 0 THEN c ELSE ResendOne(done[j - 1], seqs[j])]
    <3> DEFINE Is(h) == h = [j \in 0 .. n |-> IF j = 0 THEN c
                                              ELSE ResendOne(h[j - 1], seqs[j])]
    <3>1. \E h : Is(h)
      BY <2>7
    <3>2. done = CHOOSE h : Is(h)
      BY DEF done
    <3> HIDE DEF Is, done
    <3>3. Is(done)
      BY <3>1, <3>2
    <3> QED
      BY <3>3 DEF Is
  <2>9. done[0] \in C
    BY <1>1, <2>1, <2>8
  <2>10. ASSUME NEW j \in 1 .. n, done[j - 1] \in C PROVE done[j] \in C
    <3>1. j \in 0 .. n /\ j # 0
      BY <2>1
    <3>2. done[j] = ResendOne(done[j - 1], seqs[j])
      BY <2>8, <3>1
    <3> QED
      BY <2>4, <2>10, <3>2
  <2>11. done[n] \in C
    BY <2>1, <2>9, <2>10, TurnsHold
  <2> QED
    BY <2>2, <2>11 DEF C
<1> QED
  BY <1>2, <1>3

LEMMA RetransmitFirm ==
    ASSUME NEW x, NEW m, NEW c, Firm(x, m, c), NEW reqseq \in Number,
           NEW d, d = retransmit(c, reqseq)
    PROVE  Firm(x, m, d)
<1>1. <<reqseq>> \in Seq(Number)
  OBVIOUS
<1> QED
  BY <1>1, ResendsFirm DEF retransmit

LEMMA RetransmitAllFirm ==
    ASSUME NEW x, NEW m, NEW c, Firm(x, m, c), NEW reqseq \in Number,
           NEW d, d = retransmit_all(c, reqseq)
    PROVE  Firm(x, m, d)
<1> DEFINE q == SubSeq(c.tx_q, 1, c.head)
           i == Find(q, reqseq)
           n == c.head - i + 1
           seqs == [j \in 1 .. n |-> c.tx_q[i + j - 1].txseq]
<1>1. CASE c.unacked = 0 \/ i = 0
  <2>1. d = c
    BY <1>1 DEF retransmit_all
  <2> QED
    BY <2>1
<1>2. CASE ~(c.unacked = 0 \/ i = 0)
  <2>1. d = ertm_resend(c, seqs)
    BY <1>2 DEF retransmit_all
  <2>2. c.tx_q \in Seq(Unit) /\ c.head \in Nat /\ c.head <= Len(c.tx_q) /\ Len(c.tx_q) \in Nat
    <3>1. c \in Chan /\ TxInv(c)
      BY FirmIs DEF Good
    <3>2. c.tx_q \in Seq(Unit) /\ c.head \in Nat /\ c.head <= Len(c.tx_q)
      BY <3>1, ChanNumbers DEF TxInv
    <3> QED
      BY <3>2
  <2>3. q \in Seq(Unit) /\ Len(q) = c.head
    BY <2>2
  <2> HIDE DEF q
  <2>4. i \in 0 .. c.head
    BY <2>3, FindIs
  <2> HIDE DEF i
  <2>5. n \in Nat /\ i >= 1 /\ i \in Nat /\ \A j \in 1 .. n : i + j - 1 \in 1 .. Len(c.tx_q)
    BY <1>2, <2>2, <2>4
  <2>6. ASSUME NEW j \in 1 .. n PROVE c.tx_q[i + j - 1].txseq \in Number
    <3>1. c.tx_q[i + j - 1] \in Unit
      BY <2>2, <2>5
    <3> QED
      BY <3>1 DEF Unit
  <2> HIDE DEF n
  <2>7. seqs \in [1 .. n -> Number]
    BY <2>6
  <2> HIDE DEF seqs
  <2>8. seqs \in Seq(Number)
    BY <2>5, <2>7
  <2> QED
    BY <2>1, <2>8, ResendsFirm
<1> QED
  BY <1>1, <1>2

\* Final: what is not acknowledged is sent again, and then what is new.
LEMMA FinalFirm ==
    ASSUME NEW x, NEW m, NEW c, Firm(x, m, c), NEW f \in Frame, NEW d, d = Final(c, f)
    PROVE  Firm(x, m, d)
<1> DEFINE e == retransmit_all(c, f.reqseq)
<1>1. Firm(x, m, e)
  BY FrameFields, RetransmitAllFirm
<1>2. d = ertm_send(e)
  BY DEF Final
<1> HIDE DEF e
<1> QED
  BY <1>1, <1>2, SendsFirm

-----------------------------------------------------------------------------
(* What is acknowledged *)

\* Nothing that was received is acknowledged yet, and nothing but SREJ frames is sent.
Untold(m, c) == c.last_acked_seq = m /\ Mute(c.out)

\* d differs from c in nothing that Steady looks at.
Even(c, d) ==
    /\ d.max_tx = c.max_tx /\ d.up = c.up /\ d.full = c.full /\ d.local_busy = c.local_busy
    /\ d.rx_state = c.rx_state /\ d.buffer_seq = c.buffer_seq
    /\ d.last_acked_seq = c.last_acked_seq /\ d.out = c.out

LEMMA EvenFirm ==
    ASSUME NEW x, NEW m, NEW c, Firm(x, m, c), NEW d, Good(FALSE, d), Even(c, d)
    PROVE  Firm(x, m, d) /\ (Untold(m, c) => Untold(m, d))
<1>1. Firm(x, m, d)
  BY AsideFirm DEF Even
<1> QED
  BY <1>1 DEF Even, Untold

LEMMA AcknowledgedFirm ==
    ASSUME NEW x, NEW m, NEW c, Firm(x, m, c), NEW reqseq \in Number, valid_reqseq(c, reqseq),
           NEW d, d = process_reqseq(c, reqseq)
    PROVE  Firm(x, m, d) /\ Even(c, d)
<1> DEFINE k == offset(reqseq, c.expected_ack_seq)
           tx_q == SubSeq(c.tx_q, k + 1, Len(c.tx_q))
           head == c.head - k
           unacked == c.unacked - k
           c1 == [c EXCEPT !.tx_q = tx_q, !.head = head, !.unacked = unacked,
                           !.expected_ack_seq = reqseq]
<1>1. c \in Chan /\ Good(FALSE, c)
  BY FirmIs
<1>2. Good(FALSE, d)
  BY <1>1, Acknowledged
<1>3. d = IF c.unacked = 0 \/ k = 0 THEN c
          ELSE IF c1.unacked = 0 THEN [c1 EXCEPT !.armed = c1.armed \ {"retrans"}] ELSE c1
  BY DEF process_reqseq, clear_timer
<1> HIDE DEF k, tx_q, head, unacked
<1>4. Even(c, d)
  BY <1>1, <1>3 DEF Chan, Even
<1> QED
  BY <1>2, <1>4, EvenFirm

LEMMA FbitFirm ==
    ASSUME NEW x, NEW m, NEW c, Firm(x, m, c), NEW final \in BOOLEAN,
           NEW d, d = pass_to_tx_fbit(c, final)
    PROVE  Firm(x, m, d) /\ Even(c, d)
<1> DEFINE c1 == [c EXCEPT !.armed = c.armed \ {"monitor"}]
           armed == IF "monitor" \in c1.armed THEN c1.armed ELSE c1.armed \cup {"retrans"}
           c2 == IF c.unacked > 0 THEN PutTimers(c1, armed) ELSE c1
<1>1. c \in Chan /\ Good(FALSE, c)
  BY FirmIs
<1>2. Good(FALSE, d)
  BY <1>1, FbitPasses
<1>3. CASE ~(c.tx_state = "WAIT_F" /\ final)
  <2>1. d = c
    BY <1>3 DEF pass_to_tx_fbit
  <2> QED
    BY <2>1 DEF Even
<1>4. CASE c.tx_state = "WAIT_F" /\ final
  <2>1. /\ c1.max_tx = c.max_tx /\ c1.up = c.up /\ c1.full = c.full
        /\ c1.local_busy = c.local_busy /\ c1.rx_state = c.rx_state
        /\ c1.buffer_seq = c.buffer_seq /\ c1.last_acked_seq = c.last_acked_seq
        /\ c1.out = c.out /\ DOMAIN c1 = DOMAIN c
    BY <1>1 DEF Chan
  <2>2. c1 = clear_timer(c, "monitor")
    BY DEF clear_timer
  <2> HIDE DEF c1
  <2>3. set_retrans_timer(c1) \in {c1, PutTimers(c1, c1.armed \cup {"retrans"})}
    BY DEF set_retrans_timer, PutTimers
  <2>4. PICK e \in {c1, PutTimers(c1, c1.armed \cup {"retrans"})} :
            d = [e EXCEPT !.retry_count = 0, !.tx_state = "XMIT"]
    BY <1>4, <2>2, <2>3 DEF pass_to_tx_fbit
  <2>5. Even(c, e) /\ DOMAIN e = DOMAIN c
    BY <1>1, <2>1, <2>4 DEF PutTimers, Even, Chan
  <2>6. Even(e, d)
    BY <1>1, <2>4, <2>5 DEF Even, Chan
  <2>7. Even(c, d)
    BY <2>5, <2>6 DEF Even
  <2> QED
    BY <1>2, <2>7, EvenFirm
<1> QED
  BY <1>3, <1>4

LEMMA PassesFirm ==
    ASSUME NEW x, NEW m, NEW c, Firm(x, m, c), NEW f \in Frame, valid_reqseq(c, f.reqseq),
           NEW d, d = pass_to_tx(c, f)
    PROVE  Firm(x, m, d) /\ Even(c, d) /\ (Untold(m, c) => Untold(m, d))
<1> DEFINE e == process_reqseq(c, f.reqseq)
<1>1. f.reqseq \in Number /\ f.final \in BOOLEAN
  BY FrameFields
<1>2. Firm(x, m, e) /\ Even(c, e)
  BY <1>1, AcknowledgedFirm
<1>3. d = pass_to_tx_fbit(e, f.final)
  BY DEF pass_to_tx
<1> HIDE DEF e
<1>4. Firm(x, m, d) /\ Even(e, d)
  BY <1>1, <1>2, <1>3, FbitFirm
<1>5. Even(c, d)
  BY <1>2, <1>4 DEF Even
<1> QED
  BY <1>4, <1>5 DEF Even, Untold

-----------------------------------------------------------------------------
(* Flags, answers to polls *)

LEMMA MarksFirm ==
    ASSUME NEW x, NEW m, NEW c, Firm(x, m, c)
    PROVE  /\ Firm(x, m, MarkReady(c)) /\ Firm(x, m, MarkOwing(c))
           /\ Firm(x, m, Forget(c)) /\ Firm(x, m, RemoteBusy(c))
           /\ Even(c, MarkReady(c)) /\ Even(c, RemoteBusy(c))
<1> DEFINE no == FALSE
           yes == TRUE
           b == RemoteBusy(c)
<1>1. c \in Chan /\ Good(FALSE, c)
  BY FirmIs
<1>2. Good(FALSE, MarkReady(c)) /\ Good(FALSE, MarkOwing(c)) /\ Good(FALSE, Forget(c))
  BY <1>1, Ready, Owes, Forgets
<1>3. Good(FALSE, b)
  <2>1. /\ c.send_fbit \in BOOLEAN /\ c.srej_act \in BOOLEAN /\ c.srej_save \in Number
        /\ no \in BOOLEAN /\ ~no /\ yes \in BOOLEAN /\ Good(no, c) /\ no = FALSE
    BY <1>1 DEF Chan
  <2>2. b = [c EXCEPT !.remote_busy = yes]
    BY DEF RemoteBusy
  <2> HIDE DEF b, yes, no
  <2>3. b = PutFlags(c, yes, c.send_fbit, c.srej_act, c.srej_save)
    BY <1>1, <2>2 DEF PutFlags, Chan
  <2>4. Good(no, b)
    BY <2>1, <2>3, GoodFlags
  <2> QED
    BY <2>1, <2>4
<1>4. Even(c, MarkReady(c)) /\ Even(c, MarkOwing(c))
  BY <1>1 DEF MarkReady, MarkOwing, Even, Chan
<1>5. Even(c, Forget(c)) /\ Even(c, b)
  BY <1>1 DEF Forget, RemoteBusy, Even, Chan
<1> HIDE DEF b
<1>6. Firm(x, m, MarkReady(c)) /\ Firm(x, m, MarkOwing(c))
  BY <1>2, <1>4, EvenFirm
<1>7. Firm(x, m, Forget(c)) /\ Firm(x, m, b)
  BY <1>2, <1>3, <1>5, EvenFirm
<1> QED
  BY <1>4, <1>5, <1>6, <1>7 DEF b

LEMMA RemoteReadiesFirm ==
    ASSUME NEW x, NEW m, NEW c, Firm(x, m, c), NEW d, d = RemoteReady(c)
    PROVE  Firm(x, m, d)
<1> DEFINE c1 == MarkReady(c)
<1>1. Firm(x, m, c1)
  BY MarksFirm
<1>2. d = IF c.remote_busy /\ c.unacked > 0 THEN set_retrans_timer(c1) ELSE c1
  BY DEF RemoteReady, MarkReady
<1> HIDE DEF c1
<1>3. Firm(x, m, set_retrans_timer(c1))
  BY <1>1, RetransStartsFirm
<1> QED
  BY <1>1, <1>2, <1>3

LEMMA RemembersFirm ==
    ASSUME NEW x, NEW m, NEW c, Firm(x, m, c), NEW f \in Frame, NEW d, d = RememberSrej(c, f)
    PROVE  Firm(x, m, d)
<1> DEFINE yes == TRUE
           save == f.reqseq
<1>1. c \in Chan /\ Good(FALSE, c)
  BY FirmIs
<1>2. Good(FALSE, d)
  BY <1>1, Remembers
<1>3. d = IF c.tx_state = "WAIT_F" THEN [c EXCEPT !.srej_act = yes, !.srej_save = save] ELSE c
  BY DEF RememberSrej
<1> HIDE DEF yes, save
<1>4. Even(c, d)
  BY <1>1, <1>3 DEF Even, Chan
<1> QED
  BY <1>2, <1>4, EvenFirm

LEMMA AnswersFirm ==
    ASSUME NEW x, NEW m, NEW c, Firm(x, m, c), NEW d, d = send_i_or_rr_or_rnr(c)
    PROVE  Firm(x, m, d)
<1> DEFINE yes == TRUE
           no == FALSE
           c1 == MarkOwing(c)
           c2 == IF c.local_busy THEN send_sframe(c1, "RNR", no, yes, c.buffer_seq) ELSE c1
           r == RemoteReady(c2)
           c3 == ertm_send(r)
<1>1. d = IF ~c.local_busy /\ c3.send_fbit THEN send_sframe(c3, "RR", no, yes, c.buffer_seq)
          ELSE c3
  BY DEF send_i_or_rr_or_rnr, MarkOwing
<1>2. c \in Chan /\ Good(FALSE, c)
  BY FirmIs
<1>3. Firm(x, m, c1)
  BY MarksFirm
<1>4. yes \in BOOLEAN /\ no \in BOOLEAN /\ c.buffer_seq \in Number
      /\ "RR" \in {"RR", "RNR", "SREJ"} /\ "RNR" \in {"RR", "RNR", "SREJ"}
  BY <1>2, ChanNumbers
<1>5. Keeps(c, c1)
  BY <1>2, Owes
<1> HIDE DEF yes, no, c1
<1>6. Firm(x, m, c2) /\ Good(FALSE, c2) /\ c2.buffer_seq = c.buffer_seq
  <2>1. CASE c.local_busy
    <3>1. c2 = send_sframe(c1, "RNR", no, yes, c.buffer_seq) /\ c1.buffer_seq = c.buffer_seq
      BY <1>5, <2>1 DEF Keeps, SameRx
    <3> HIDE DEF c2
    <3>2. Firm(x, m, c2)
      BY <1>3, <1>4, <3>1, SframeFirm, SMTT(30)
    <3>3. c1 \in Chan /\ Steady(x, m, c1)
      BY <1>3, FirmIs
    <3>4. SameRx(c1, c2)
      BY <1>4, <3>1, <3>3, SframeSteady, SMTT(30)
    <3> QED
      BY <3>1, <3>2, <3>4, FirmIs DEF SameRx
  <2>2. CASE ~c.local_busy
    <3>1. c2 = c1
      BY <2>2
    <3> QED
      BY <1>3, <1>5, <3>1, FirmIs DEF Keeps, SameRx
  <2> QED
    BY <2>1, <2>2
<1> HIDE DEF c2
<1>7. Firm(x, m, r) /\ Good(FALSE, r) /\ r.buffer_seq = c.buffer_seq
  <2>1. Firm(x, m, r)
    BY <1>6, RemoteReadiesFirm
  <2>2. Keeps(c2, r)
    BY <1>6, RemoteReadies
  <2> HIDE DEF r
  <2> QED
    BY <1>6, <2>1, <2>2, FirmIs DEF Keeps, SameRx
<1> HIDE DEF r
<1>8. Firm(x, m, c3) /\ c3.buffer_seq = c.buffer_seq
  <2>1. Firm(x, m, c3)
    BY <1>7, SendsFirm
  <2>2. Keeps(r, c3)
    BY <1>7, Sends
  <2> HIDE DEF c3
  <2> QED
    BY <1>7, <2>1, <2>2 DEF Keeps, SameRx
<1> HIDE DEF c3
<1>9. CASE ~c.local_busy /\ c3.send_fbit
  <2>1. d = send_sframe(c3, "RR", no, yes, c.buffer_seq)
    BY <1>1, <1>9
  <2> QED
    BY <1>4, <1>8, <2>1, SframeFirm, SMTT(30)
<1>10. CASE ~(~c.local_busy /\ c3.send_fbit)
  BY <1>1, <1>8, <1>10
<1> QED
  BY <1>9, <1>10

-----------------------------------------------------------------------------
(* Selective rejects *)

\* After some rejects.
Still(x, m, c, d) ==
    d \in Chan /\ Steady(x, m, d) /\ d.local_busy = c.local_busy /\ d.rx_state = c.rx_state

LEMMA SrejStill ==
    ASSUME NEW x, NEW m, NEW c, NEW d, Still(x, m, c, d), NEW seq \in Number,
           NEW no \in BOOLEAN, NEW e, e = send_sframe(d, "SREJ", no, no, seq)
    PROVE  Still(x, m, c, e) /\ e.srej_list = d.srej_list
<1> DEFINE super == "SREJ"
<1>1. /\ super \in {"RR", "RNR", "SREJ"} /\ super = "SREJ"
      /\ e = send_sframe(d, super, no, no, seq)
  OBVIOUS
<1>3. /\ d \in Chan /\ Steady(x, m, d) /\ d.local_busy = c.local_busy
      /\ d.rx_state = c.rx_state
  BY DEF Still
<1> HIDE DEF super
<1>2. e \in Chan /\ Steady(x, m, e) /\ SameRx(d, e)
  BY <1>1, <1>3, SframeSteady, SMTT(30)
<1> QED
  BY <1>2, <1>3 DEF Still, SameRx

\* The list, and the number to expect, do not matter.
LEMMA ListStill ==
    ASSUME NEW x, NEW m, NEW c, NEW d, Still(x, m, c, d), NEW list \in Seq(Number),
           NEW expected \in Number
    PROVE  /\ \A e : e = [d EXCEPT !.srej_list = list] => Still(x, m, c, e)
           /\ \A e : e = [d EXCEPT !.expected_tx_seq = expected] => Still(x, m, c, e)
<1> DEFINE a == [d EXCEPT !.srej_list = list]
           b == [d EXCEPT !.expected_tx_seq = expected]
<1>1. d \in Chan /\ Steady(x, m, d)
  BY DEF Still
<1>2. a \in Chan /\ Carries(d, a) /\ a.local_busy = d.local_busy /\ a.rx_state = d.rx_state
  BY <1>1 DEF Chan, Carries
<1>3. b \in Chan /\ Carries(d, b) /\ b.local_busy = d.local_busy /\ b.rx_state = d.rx_state
  BY <1>1 DEF Chan, Carries
<1> HIDE DEF a, b
<1>4. Steady(x, m, a) /\ Steady(x, m, b)
  BY <1>1, <1>2, <1>3, CarriesSteady
<1>5. Still(x, m, c, a) /\ Still(x, m, c, b)
  BY <1>2, <1>3, <1>4 DEF Still
<1> QED
  BY <1>5 DEF a, b

LEMMA RejectStill ==
    ASSUME NEW x, NEW m, NEW c \in Chan, NEW d, Still(x, m, c, d), NEW j \in Nat,
           NEW e, e = Reject(c, d, j)
    PROVE  Still(x, m, c, e)
<1> DEFINE seq == (c.expected_tx_seq + j - 1) % Modulus
           no == FALSE
           y == send_sframe(d, "SREJ", no, no, seq)
           list == AppendSeq(y.srej_list, seq)
<1>1. e = d \/ e = [y EXCEPT !.srej_list = list]
  BY DEF Reject
<1>2. seq \in Number
  <2>1. c.expected_tx_seq + j - 1 \in Int
    <3>1. c.expected_tx_seq \in Number
      BY ChanNumbers
    <3>2. c.expected_tx_seq \in Nat
      BY <3>1, Numbers
    <3> QED
      BY <3>2
  <2> QED
    BY <2>1, Numbers
<1> HIDE DEF seq
<1>3. Still(x, m, c, y)
  <2>1. no \in BOOLEAN
    OBVIOUS
  <2> HIDE DEF no, y
  <2>2. y = send_sframe(d, "SREJ", no, no, seq)
    BY DEF y
  <2> QED
    BY <1>2, <2>1, <2>2, SrejStill
<1> HIDE DEF y
<1>4. y.srej_list \in Seq(Number)
  BY <1>3, ChanNumbers DEF Still
<1>5. list \in Seq(Number)
  BY <1>2, <1>4 DEF AppendSeq
<1> HIDE DEF list
<1>6. c.expected_tx_seq \in Number
  BY ChanNumbers
<1>7. \A a : a = [y EXCEPT !.srej_list = list] => Still(x, m, c, a)
  BY <1>3, <1>5, <1>6, ListStill
<1> QED
  BY <1>1, <1>7

LEMMA RejectManyStill ==
    ASSUME NEW x, NEW m, NEW c \in Chan, Still(x, m, c, c), NEW k \in Nat,
           NEW d, d = RejectTurns(c, k)
    PROVE  Still(x, m, c, d)
<1> DEFINE C == {e \in Chan : Still(x, m, c, e)}
           F == [e \in C |-> [j \in 1 .. k |-> Reject(c, e, j)]]
           done == CHOOSE g : g = [j \in 0 .. k |-> IF j = 0 THEN c ELSE Reject(c, g[j - 1], j)]
<1>1. d = done[k]
  BY DEF RejectTurns, InTurn
<1>2. c \in C
  OBVIOUS
<1>3. ASSUME NEW e \in C, NEW j \in 1 .. k PROVE Reject(c, e, j) \in C
  <2> DEFINE y == Reject(c, e, j)
  <2>1. Still(x, m, c, y)
    BY RejectStill
  <2>2. y \in Chan
    BY <2>1 DEF Still
  <2> QED
    BY <2>1, <2>2
<1>4. F \in [C -> [1 .. k -> C]] /\ \A e \in C, j \in 1 .. k : F[e][j] = Reject(c, e, j)
  <2> HIDE DEF C
  <2> QED
    BY <1>3
<1> HIDE DEF C, F, done
<1>5. F \in Steps(k, C)
  BY <1>4 DEF Steps
<1>6. PICK g : Leads(g, k, C, c, F)
  BY <1>2, <1>5, TurnsExist
<1>7. g \in [0 .. k -> C] /\ g[0] = c /\ \A j \in 1 .. k : g[j] = F[g[j - 1]][j]
  BY <1>6 DEF Leads
<1>8. g = [j \in 0 .. k |-> IF j = 0 THEN c ELSE Reject(c, g[j - 1], j)]
  <2>1. ASSUME NEW j \in 0 .. k
        PROVE  g[j] = IF j = 0 THEN c ELSE Reject(c, g[j - 1], j)
    <3>1. CASE j = 0
      BY <1>7, <3>1
    <3>2. CASE j # 0
      <4>1. j \in 1 .. k /\ j - 1 \in 0 .. k
        BY <3>2
      <4> QED
        BY <1>4, <1>7, <3>2, <4>1
    <3> QED
      BY <3>1, <3>2
  <2>2. g = [j \in 0 .. k |-> g[j]]
    BY <1>7
  <2> QED
    BY <2>1, <2>2
<1>9. done = [j \in 0 .. k |-> IF j = 0 THEN c ELSE Reject(c, done[j - 1], j)]
  <2> DEFINE Is(h) == h = [j \in 0 .. k |-> IF j = 0 THEN c ELSE Reject(c, h[j - 1], j)]
  <2>1. \E h : Is(h)
    BY <1>8
  <2>2. done = CHOOSE h : Is(h)
    BY DEF done
  <2> HIDE DEF Is
  <2>3. Is(done)
    BY <2>1, <2>2
  <2> QED
    BY <2>3 DEF Is
<1>10. done[0] \in C
  BY <1>2, <1>9
<1>11. ASSUME NEW j \in 1 .. k, done[j - 1] \in C PROVE done[j] \in C
  <2>1. j \in 0 .. k /\ j # 0
    OBVIOUS
  <2>2. done[j] = Reject(c, done[j - 1], j)
    BY <1>9, <2>1
  <2> QED
    BY <1>3, <1>11, <2>2
<1>12. done[k] \in C
  BY <1>10, <1>11, TurnsHold
<1> QED
  BY <1>1, <1>12 DEF C

LEMMA SrejsStill ==
    ASSUME NEW x, NEW m, NEW c \in Chan, Steady(x, m, c), NEW txseq \in Number,
           NEW d, d = send_srej(c, txseq)
    PROVE  Still(x, m, c, d)
<1> DEFINE k == offset(txseq, c.expected_tx_seq)
           to == next(txseq)
           y == RejectTurns(c, k)
<1>1. d = [y EXCEPT !.expected_tx_seq = to]
  BY DEF send_srej, RejectTurns, Reject
<1>2. k \in Nat /\ to \in Number
  <2>1. c.expected_tx_seq \in Number
    BY ChanNumbers
  <2>2. k \in Number /\ to \in Number
    BY <2>1, OffsetIs, NextIs
  <2> HIDE DEF k
  <2> QED
    BY <2>2, Numbers
<1>3. Still(x, m, c, c)
  BY DEF Still
<1> HIDE DEF k, to
<1>4. Still(x, m, c, y)
  BY <1>2, <1>3, RejectManyStill
<1> HIDE DEF y
<1>5. c.srej_list \in Seq(Number)
  BY ChanNumbers
<1>6. \A a : a = [y EXCEPT !.expected_tx_seq = to] => Still(x, m, c, a)
  BY <1>2, <1>4, <1>5, ListStill
<1> QED
  BY <1>1, <1>6

LEMMA RejectAgainStill ==
    ASSUME NEW x, NEW m, NEW c \in Chan, Still(x, m, c, c), NEW k \in Nat,
           \A j \in 1 .. k : j \in DOMAIN c.srej_list,
           NEW d, d = AgainTurns(c, k)
    PROVE  Still(x, m, c, d) /\ d.srej_list = c.srej_list
<1> DEFINE C == {e \in Chan : Still(x, m, c, e) /\ e.srej_list = c.srej_list}
           F == [e \in C |-> [j \in 1 .. k |-> RejectAgain(c, e, j)]]
           done == CHOOSE g : g = [j \in 0 .. k |-> IF j = 0 THEN c
                                                    ELSE RejectAgain(c, g[j - 1], j)]
<1>1. d = done[k]
  BY DEF AgainTurns, InTurn
<1>2. c \in C
  OBVIOUS
<1>3. ASSUME NEW e \in C, NEW j \in 1 .. k PROVE RejectAgain(c, e, j) \in C
  <2> DEFINE y == RejectAgain(c, e, j)
             seq == c.srej_list[j]
             no == FALSE
  <2>1. y = send_sframe(e, "SREJ", no, no, seq) /\ no \in BOOLEAN
    BY DEF RejectAgain
  <2>2. seq \in Number /\ Still(x, m, c, e) /\ e.srej_list = c.srej_list
    <3>1. c.srej_list \in Seq(Number) /\ j \in DOMAIN c.srej_list
      BY ChanNumbers
    <3> QED
      BY <3>1
  <2> HIDE DEF seq, y, C, no
  <2>3. Still(x, m, c, y) /\ y.srej_list = c.srej_list
    BY <2>1, <2>2, SrejStill
  <2>4. y \in Chan
    BY <2>3 DEF Still
  <2> QED
    BY <2>3, <2>4 DEF C, y
<1>4. F \in [C -> [1 .. k -> C]] /\ \A e \in C, j \in 1 .. k : F[e][j] = RejectAgain(c, e, j)
  <2> HIDE DEF C
  <2> QED
    BY <1>3
<1> HIDE DEF C, F, done
<1>5. F \in Steps(k, C)
  BY <1>4 DEF Steps
<1>6. PICK g : Leads(g, k, C, c, F)
  BY <1>2, <1>5, TurnsExist
<1>7. g \in [0 .. k -> C] /\ g[0] = c /\ \A j \in 1 .. k : g[j] = F[g[j - 1]][j]
  BY <1>6 DEF Leads
<1>8. g = [j \in 0 .. k |-> IF j = 0 THEN c ELSE RejectAgain(c, g[j - 1], j)]
  <2>1. ASSUME NEW j \in 0 .. k
        PROVE  g[j] = IF j = 0 THEN c ELSE RejectAgain(c, g[j - 1], j)
    <3>1. CASE j = 0
      BY <1>7, <3>1
    <3>2. CASE j # 0
      <4>1. j \in 1 .. k /\ j - 1 \in 0 .. k
        BY <3>2
      <4> QED
        BY <1>4, <1>7, <3>2, <4>1
    <3> QED
      BY <3>1, <3>2
  <2>2. g = [j \in 0 .. k |-> g[j]]
    BY <1>7
  <2> QED
    BY <2>1, <2>2
<1>9. done = [j \in 0 .. k |-> IF j = 0 THEN c ELSE RejectAgain(c, done[j - 1], j)]
  <2> DEFINE Is(h) == h = [j \in 0 .. k |-> IF j = 0 THEN c ELSE RejectAgain(c, h[j - 1], j)]
  <2>1. \E h : Is(h)
    BY <1>8
  <2>2. done = CHOOSE h : Is(h)
    BY DEF done
  <2> HIDE DEF Is
  <2>3. Is(done)
    BY <2>1, <2>2
  <2> QED
    BY <2>3 DEF Is
<1>10. done[0] \in C
  BY <1>2, <1>9
<1>11. ASSUME NEW j \in 1 .. k, done[j - 1] \in C PROVE done[j] \in C
  <2>1. j \in 0 .. k /\ j # 0
    OBVIOUS
  <2>2. done[j] = RejectAgain(c, done[j - 1], j)
    BY <1>9, <2>1
  <2> QED
    BY <1>3, <1>11, <2>2
<1>12. done[k] \in C
  BY <1>10, <1>11, TurnsHold
<1> QED
  BY <1>1, <1>12 DEF C

LEMMA SrejListsStill ==
    ASSUME NEW x, NEW m, NEW c \in Chan, Steady(x, m, c), NEW txseq \in Number,
           NEW d, d = send_srej_list(c, txseq)
    PROVE  Still(x, m, c, d)
<1> DEFINE i == SelectInSeq(c.srej_list, LAMBDA seq : seq = txseq)
           k == IF i = 0 THEN Len(c.srej_list) ELSE i - 1
           y == AgainTurns(c, k)
           list == SubSeq(y.srej_list, k + 2, Len(y.srej_list)) \o SubSeq(y.srej_list, 1, k)
<1>1. d = [y EXCEPT !.srej_list = list]
  BY DEF send_srej_list, AgainTurns, RejectAgain
<1>2. c.srej_list \in Seq(Number) /\ c.expected_tx_seq \in Number
  BY ChanNumbers
<1>3. i \in 0 .. Len(c.srej_list)
  <2> DEFINE I == {j \in 1 .. Len(c.srej_list) : c.srej_list[j] = txseq}
  <2>1. i = IF I # {} THEN Min(I) ELSE 0
    BY DEF SelectInSeq
  <2>2. I \subseteq Nat /\ I \subseteq 0 .. Len(c.srej_list)
    BY <1>2
  <2> HIDE DEF I
  <2>3. I # {} => Min(I) \in I
    BY <2>2, MinIs
  <2>4. 0 \in 0 .. Len(c.srej_list)
    BY <1>2
  <2> HIDE DEF i
  <2> QED
    BY <2>1, <2>2, <2>3, <2>4
<1> HIDE DEF i
<1>4. k \in Nat /\ \A j \in 1 .. k : j \in DOMAIN c.srej_list
  BY <1>2, <1>3
<1> HIDE DEF k
<1>5. Still(x, m, c, c)
  BY DEF Still
<1>6. Still(x, m, c, y) /\ y.srej_list = c.srej_list
  BY <1>4, <1>5, RejectAgainStill
<1> HIDE DEF y
<1>7. k <= Len(c.srej_list) /\ Len(c.srej_list) \in Nat
  BY <1>2, <1>3 DEF k
<1>8. list \in Seq(Number)
  <2> DEFINE p == SubSeq(y.srej_list, k + 2, Len(y.srej_list))
             q == SubSeq(y.srej_list, 1, k)
  <2>1. p \in Seq(Number)
    BY <1>2, <1>4, <1>6, <1>7
  <2>2. q \in Seq(Number)
    BY <1>2, <1>4, <1>6, <1>7
  <2> HIDE DEF p, q
  <2>3. p \o q \in Seq(Number)
    BY <2>1, <2>2
  <2> QED
    BY <2>3 DEF p, q
<1> HIDE DEF list
<1>9. \A a : a = [y EXCEPT !.srej_list = list] => Still(x, m, c, a)
  BY <1>2, <1>6, <1>8, ListStill
<1> QED
  BY <1>1, <1>9

LEMMA SrejTailsFirm ==
    ASSUME NEW x, NEW m, NEW c, Firm(x, m, c), NEW d, d = send_srej_tail(c)
    PROVE  Firm(x, m, d)
<1> DEFINE seq == Last(c.srej_list)
           no == FALSE
<1>1. c.srej_list \in Seq(Number)
  BY FirmIs, ChanNumbers
<1>2. CASE c.srej_list = <<>>
  <2>1. d = c
    BY <1>2 DEF send_srej_tail
  <2> QED
    BY <2>1
<1>3. CASE c.srej_list # <<>>
  <2>1. d = send_sframe(c, "SREJ", no, no, seq)
    BY <1>3 DEF send_srej_tail
  <2>2. Len(c.srej_list) \in DOMAIN c.srej_list
    BY <1>1, <1>3
  <2>3. seq \in Number /\ no \in BOOLEAN /\ "SREJ" \in {"RR", "RNR", "SREJ"}
    BY <1>1, <2>2 DEF Last
  <2> HIDE DEF seq, no
  <2> QED
    BY <2>1, <2>3, SframeFirm, SMTT(30)
<1> QED
  BY <1>2, <1>3

-----------------------------------------------------------------------------
(* A receiver that fills up, or that reads *)

LEMMA BusyDetectedFirm ==
    ASSUME NEW x, NEW m, NEW c, Good(FALSE, c), c.max_tx = x, x = 0 => c.up /\ Tells(m, c),
           NEW d, d = busy_detected(c)
    PROVE  Firm(x, m, d) /\ d.local_busy
<1> DEFINE no == FALSE
           yes == TRUE
           c1 == [c EXCEPT !.local_busy = yes]
           c2 == IF c.rx_state = "SREJ_SENT" THEN abort_rx_srej_sent(c1) ELSE c1
<1>1. /\ c \in Chan /\ c.full \in BOOLEAN /\ c.got \in Seq(Nat)
      /\ c.rx_state \in {"RECV", "SREJ_SENT"}
  BY ChanNumbers DEF Good, Chan
<1>2. d = send_ack(c2)
  BY DEF busy_detected
<1>3. c1 = PutBusy(c, yes, c.full, c.got)
  BY <1>1 DEF PutBusy, Chan
<1>4. no \in BOOLEAN /\ yes \in BOOLEAN /\ no = FALSE /\ Good(no, c)
  OBVIOUS
<1>12. yes
  OBVIOUS
<1> HIDE DEF c1, no, yes
<1>5. Good(no, c1) /\ c1 \in Chan
  <2>1. Good(no, c1)
    BY <1>1, <1>3, <1>4, GoodBusy
  <2> QED
    BY <2>1 DEF Good
<1>6. /\ c1.max_tx = c.max_tx /\ c1.up = c.up /\ c1.local_busy = yes
      /\ c1.rx_state = c.rx_state /\ c1.buffer_seq = c.buffer_seq
      /\ c1.last_acked_seq = c.last_acked_seq /\ c1.out = c.out
  BY <1>1, <1>3 DEF PutBusy, Chan
<1>7. Good(no, c2)
  BY <1>4, <1>5, Aborts
<1>8. /\ c2.max_tx = c.max_tx /\ c2.up = c.up /\ c2.local_busy = yes
      /\ c2.rx_state = "RECV" /\ c2.buffer_seq = c.buffer_seq
      /\ c2.last_acked_seq = c.last_acked_seq /\ c2.out = c.out
  <2>1. CASE c.rx_state = "SREJ_SENT"
    <3>1. c2 = abort_rx_srej_sent(c1)
      BY <2>1
    <3> HIDE DEF c2
    <3> QED
      BY <1>5, <1>6, <3>1 DEF abort_rx_srej_sent, Chan
  <2>2. CASE c.rx_state # "SREJ_SENT"
    BY <1>1, <1>6, <2>2
  <2> QED
    BY <2>1, <2>2
<1> HIDE DEF c2
<1>9. Firm(x, m, c2)
  <2>1. Steady(x, m, c2)
    BY <1>8, <1>12 DEF Steady, Busy, Tells
  <2> QED
    BY <1>4, <1>7, <2>1 DEF Firm
<1>10. Firm(x, m, d)
  BY <1>2, <1>9, AcksFirm
<1>11. d.local_busy = TRUE
  BY BusyDetected
<1> QED
  BY <1>10, <1>11

LEMMA BusyClearedFirm ==
    ASSUME NEW x, NEW m, NEW c, Firm(x, m, c), ~c.full, NEW d, d = busy_clear(c)
    PROVE  Firm(x, m, d)
<1> DEFINE no == FALSE
           yes == TRUE
           c1 == [c EXCEPT !.local_busy = no]
           c2 == send_sframe(c1, "RR", yes, no, c.buffer_seq)
<1>1. c \in Chan /\ c.full \in BOOLEAN /\ c.got \in Seq(Nat) /\ c.buffer_seq \in Number
      /\ Steady(x, m, c)
  BY FirmIs, ChanNumbers
<1>2. d = IF c.rnr_sent THEN PollAndWait(c2) ELSE c1
  BY DEF busy_clear
<1>3. c1 = PutBusy(c, no, c.full, c.got)
  BY <1>1 DEF PutBusy, Chan
<1>4. no \in BOOLEAN /\ yes \in BOOLEAN /\ no = FALSE /\ Good(no, c)
      /\ "RR" \in {"RR", "RNR", "SREJ"}
  BY FirmIs
<1>5. c2 = send_sframe(c1, "RR", yes, no, c.buffer_seq)
  OBVIOUS
<1> HIDE DEF c1, c2, no, yes
<1>6. Good(no, c1) /\ c1.buffer_seq = c.buffer_seq
  BY <1>1, <1>3, <1>4, GoodBusy DEF SameWindow
<1>7. /\ c1.max_tx = c.max_tx /\ c1.up = c.up /\ c1.full = c.full /\ c1.local_busy = no
      /\ c1.last_acked_seq = c.last_acked_seq /\ c1.out = c.out
  BY <1>1, <1>3 DEF PutBusy, Chan
<1>8. Firm(x, m, c1)
  <2>1. Steady(x, m, c1)
    BY <1>1, <1>4, <1>6, <1>7 DEF Steady, Busy, Tells
  <2> QED
    BY <1>4, <1>6, <2>1 DEF Firm
<1>9. Firm(x, m, c2)
  BY <1>1, <1>4, <1>5, <1>6, <1>8, SframeFirm, SMTT(30)
<1>10. Firm(x, m, PollAndWait(c2))
  BY <1>9, PollsFirm
<1> QED
  BY <1>2, <1>8, <1>10

\* A unit is passed to the socket.
LEMMA ReceivedFirm ==
    ASSUME NEW x, NEW m, NEW c, Firm(x, m, c), Untold(m, c), ~c.local_busy, NEW sdu \in Nat,
           NEW filled \in BOOLEAN, NEW d, d = recv(c, sdu, filled)
    PROVE  Firm(x, m, d) /\ (~d.local_busy => Untold(m, d))
<1> DEFINE got == Append(c.got, sdu)
           yes == TRUE
           no == FALSE
           c1 == [c EXCEPT !.got = got]
           c2 == [c1 EXCEPT !.full = yes]
<1>1. /\ c \in Chan /\ Good(FALSE, c) /\ Steady(x, m, c) /\ c.full \in BOOLEAN
      /\ c.got \in Seq(Nat) /\ c.local_busy \in BOOLEAN
  BY FirmIs, ChanNumbers
<1>2. got \in Seq(Nat) /\ no \in BOOLEAN /\ yes \in BOOLEAN /\ no = FALSE
  BY <1>1
<1>3. Good(FALSE, d)
  <2>1. Good(no, c) /\ (no => ~filled)
    BY <1>1
  <2> HIDE DEF no
  <2>2. Good(no, d)
    BY <1>2, <2>1, Received
  <2> QED
    BY <2>2 DEF no
<1>4. CASE c.full
  <2>1. d = send_disconn_req(c)
    BY <1>4 DEF recv
  <2>2. d.max_tx = c.max_tx /\ d.last_acked_seq = c.last_acked_seq /\ d.out = c.out
    BY <1>1, <2>1 DEF send_disconn_req, Chan
  <2>3. x # 0
    BY <1>1, <1>4 DEF Steady, Busy
  <2> QED
    BY <1>1, <1>3, <2>2, <2>3 DEF Firm, Steady, Untold
<1>5. CASE ~c.full /\ ~filled
  <2>1. d = c1
    BY <1>5 DEF recv
  <2> HIDE DEF got
  <2>2. Even(c, d)
    BY <1>1, <2>1 DEF Even, Chan
  <2> QED
    BY <1>3, <2>2, EvenFirm
<1>6. CASE ~c.full /\ filled
  <2>1. d = busy_detected(c2)
    BY <1>6 DEF recv
  <2>2. c2 = PutBusy(c, c.local_busy, yes, got)
    <3> HIDE DEF got, yes
    <3> QED
      BY <1>1 DEF PutBusy, Chan
  <2>3. Good(no, c)
    BY <1>1
  <2> HIDE DEF got, yes, c2, no
  <2>4. Good(no, c2)
    BY <1>1, <1>2, <2>2, <2>3, GoodBusy
  <2>5. Good(FALSE, c2)
    BY <1>2, <2>4
  <2>6. /\ c2.max_tx = c.max_tx /\ c2.up = c.up /\ c2.buffer_seq = c.buffer_seq
        /\ c2.last_acked_seq = c.last_acked_seq /\ c2.out = c.out
    BY <1>1, <2>2 DEF PutBusy, Chan
  <2>7. c2.max_tx = x /\ (x = 0 => c2.up /\ Tells(m, c2))
    BY <1>1, <2>6 DEF Steady, Tells
  <2>8. Firm(x, m, d) /\ d.local_busy
    BY <2>1, <2>5, <2>7, BusyDetectedFirm
  <2> QED
    BY <2>8
<1> QED
  BY <1>4, <1>5, <1>6

-----------------------------------------------------------------------------
(* Passing on what was stored *)

\* Until it is busy, the end tells nothing.
Passed(x, m, c, k, d, j) ==
    /\ Passing(FALSE, c, k, d, j) /\ Firm(x, m, d)
    /\ d.up /\ ~d.local_busy => Untold(m, d)

LEMMA PassOneFirm ==
    ASSUME NEW x, NEW m, NEW c \in Chan, NEW k \in Number,
           \A j \in 1 .. k : Stored(c, j) # {}, NEW fill \in Nat,
           NEW j \in 1 .. k, NEW d, Passed(x, m, c, k, d, j - 1),
           NEW y, y = Pass(c, fill, d, j)
    PROVE  Passed(x, m, c, k, y, j)
<1>1. c.buffer_seq \in Nat /\ j \in Nat /\ j <= k /\ k \in Nat
  <2>1. c.buffer_seq \in Number
    BY ChanNumbers
  <2> QED
    BY <2>1, Numbers
<1>2. Passing(FALSE, c, k, d, j - 1) /\ Firm(x, m, d) /\ Good(FALSE, d) /\ d \in Chan
      /\ d.up \in BOOLEAN /\ d.local_busy \in BOOLEAN
  <2>1. Passing(FALSE, c, k, d, j - 1) /\ Firm(x, m, d)
    BY DEF Passed
  <2>2. Good(FALSE, d) /\ d \in Chan
    BY <2>1, FirmIs
  <2>3. d.up \in BOOLEAN /\ d.local_busy \in BOOLEAN
    BY <2>2 DEF Chan
  <2> QED
    BY <2>1, <2>2, <2>3
<1>3. Passing(FALSE, c, k, y, j)
  <2> DEFINE calm == FALSE
  <2>1. calm \in BOOLEAN /\ (calm => fill = 0)
    OBVIOUS
  <2>2. Passing(calm, c, k, d, j - 1)
    BY <1>2
  <2> HIDE DEF calm
  <2>3. Passing(calm, c, k, y, j)
    BY <2>1, <2>2, PassesOne
  <2> QED
    BY <2>3 DEF calm
<1>4. CASE d.local_busy \/ ~d.up
  <2>1. y = d
    BY <1>4 DEF Pass
  <2> QED
    BY <1>2, <1>3, <1>4, <2>1 DEF Passed
<1>5. CASE ~(d.local_busy \/ ~d.up)
  <2> DEFINE f == CHOOSE f \in Stored(c, j) : TRUE
             e == [d EXCEPT !.srej_q = @ \ {f}, !.buffer_seq = next(@)]
             filled == j = fill
  <2>1. y = recv(e, f.sdu, filled) /\ filled \in BOOLEAN
    BY <1>5 DEF Pass
  <2>2. f \in Stored(c, j)
    OBVIOUS
  <2>3. /\ d.buffer_seq = (c.buffer_seq + (j - 1)) % Modulus /\ d.rx_state = "SREJ_SENT"
        /\ \A h \in j - 1 + 1 .. k : Stored(c, h) \subseteq d.srej_q
    BY <1>2, <1>5 DEF Passing
  <2> HIDE DEF f, filled
  <2>4. c.buffer_seq + (j - 1) = c.buffer_seq + j - 1 /\ j \in j - 1 + 1 .. k
    BY <1>1
  <2>5. f \in d.srej_q /\ f.txseq = d.buffer_seq
    BY <2>2, <2>3, <2>4 DEF Stored
  <2>6. f.sdu \in Nat
    BY <1>2, <2>5, ChanNumbers
  <2>7. e = [d EXCEPT !.srej_q = d.srej_q \ {f}, !.buffer_seq = next(d.buffer_seq)]
    OBVIOUS
  <2>8. Good(FALSE, e)
    BY <1>2, <2>3, <2>5, TakesFirst
  <2> DEFINE q == d.srej_q \ {f}
             to == next(d.buffer_seq)
  <2>9. e = [d EXCEPT !.srej_q = q, !.buffer_seq = to]
    BY <2>7
  <2> HIDE DEF e, q, to
  <2>10. /\ e.max_tx = d.max_tx /\ e.up = d.up /\ e.full = d.full
         /\ e.local_busy = d.local_busy /\ e.rx_state = d.rx_state
         /\ e.last_acked_seq = d.last_acked_seq /\ e.out = d.out
    BY <1>2, <2>9 DEF Chan
  <2>11. Untold(m, d) /\ Steady(x, m, d)
    BY <1>2, <1>5, FirmIs DEF Passed
  <2>12. Untold(m, e)
    BY <2>10, <2>11 DEF Untold
  <2>13. Steady(x, m, e)
    BY <2>10, <2>11, <2>12 DEF Steady, Busy, Tells, Untold
  <2>14. Firm(x, m, e) /\ ~e.local_busy
    BY <1>5, <2>8, <2>10, <2>13 DEF Firm
  <2>15. Firm(x, m, y) /\ (~y.local_busy => Untold(m, y))
    BY <2>1, <2>6, <2>12, <2>14, ReceivedFirm
  <2> QED
    BY <1>3, <2>15 DEF Passed
<1> QED
  BY <1>4, <1>5

LEMMA PassManyFirm ==
    ASSUME NEW x, NEW m, NEW c \in Chan, NEW k \in Number,
           \A j \in 1 .. k : Stored(c, j) # {}, NEW fill \in Nat,
           Passed(x, m, c, k, c, 0), NEW d, d = PassTurns(c, fill, k)
    PROVE  Passed(x, m, c, k, d, k)
<1> DEFINE I == [j \in 0 .. k |-> {y \in Chan : Passed(x, m, c, k, y, j)}]
<1>1. k \in Nat
  BY Numbers
<1>2. (\A j \in 0 .. k : I[j] \subseteq Chan) /\ c \in I[0]
  BY <1>1
<1>3. ASSUME NEW j \in 1 .. k, NEW y \in I[j - 1] PROVE Pass(c, fill, y, j) \in I[j]
  <2> DEFINE z == Pass(c, fill, y, j)
  <2>1. j - 1 \in 0 .. k /\ j \in 0 .. k
    BY <1>1
  <2>2. Passed(x, m, c, k, y, j - 1)
    BY <2>1
  <2>3. Passed(x, m, c, k, z, j)
    BY <2>2, PassOneFirm
  <2> HIDE DEF z
  <2>4. z \in Chan
    BY <2>3, FirmIs DEF Passed
  <2> QED
    BY <2>1, <2>3, <2>4 DEF z
<1> HIDE DEF I
<1>4. d \in I[k]
  BY <1>1, <1>2, <1>3, PassTurnsReach
<1>5. k \in 0 .. k
  BY <1>1
<1> QED
  BY <1>4, <1>5 DEF I

LEMMA QueuedFirm ==
    ASSUME NEW x, NEW m, NEW c, Firm(x, m, c), Untold(m, c), c.rx_state = "SREJ_SENT",
           NEW fill \in Nat, NEW d, d = rx_queued_iframes(c, fill)
    PROVE  Firm(x, m, d)
<1> DEFINE state == "RECV"
           no == FALSE
<1>1. c \in Chan /\ RxInv(c) /\ Good(no, c) /\ no \in BOOLEAN
  BY FirmIs DEF Good
<1>2. PICK run \in Number :
          /\ \A j \in 1 .. run : Stored(c, j) # {}
          /\ LET c1 == PassTurns(c, fill, run)
             IN  d = IF c1.srej_q = {} THEN send_ack([c1 EXCEPT !.rx_state = "RECV"]) ELSE c1
  BY <1>1, QueueRun
<1> DEFINE c1 == PassTurns(c, fill, run)
           e == [c1 EXCEPT !.rx_state = state]
<1>3. d = IF c1.srej_q = {} THEN send_ack(e) ELSE c1
  BY <1>2
<1>4. Passed(x, m, c, run, c, 0)
  <2> HIDE DEF no
  <2>1. Passing(no, c, run, c, 0)
    BY <1>1, QueueStarts
  <2> QED
    BY <2>1 DEF Passed, no
<1>5. Passed(x, m, c, run, c1, run)
  BY <1>1, <1>2, <1>4, PassManyFirm
<1>6. state \in RxStates
  BY DEF RxStates
<1>7. state = "RECV"
  OBVIOUS
<1> HIDE DEF c1, state
<1>8. Firm(x, m, c1) /\ Good(no, c1) /\ c1 \in Chan /\ Steady(x, m, c1)
  BY <1>5, FirmIs DEF Passed
<1>9. ASSUME c1.srej_q = {} PROVE Firm(x, m, e)
  <2> HIDE DEF e, no
  <2>1. e = [c1 EXCEPT !.rx_state = state]
    BY DEF e
  <2>2. Good(no, e)
    BY <1>1, <1>6, <1>8, <1>9, <2>1, QueueEmpties
  <2>3. /\ e.max_tx = c1.max_tx /\ e.up = c1.up /\ e.full = c1.full
        /\ e.local_busy = c1.local_busy /\ e.rx_state = state
        /\ e.buffer_seq = c1.buffer_seq
        /\ e.last_acked_seq = c1.last_acked_seq /\ e.out = c1.out
    BY <1>8, <2>1 DEF Chan
  <2>4. Steady(x, m, e)
    BY <1>7, <1>8, <2>3 DEF Steady, Busy, Tells
  <2> QED
    BY <2>2, <2>4 DEF Firm, no
<1> HIDE DEF e
<1>10. CASE c1.srej_q = {}
  BY <1>3, <1>9, <1>10, AcksFirm
<1> QED
  BY <1>3, <1>8, <1>10

-----------------------------------------------------------------------------
(* Units that arrive *)

\* What is stored, and what is rejected, does not matter.
LEMMA StoreSteady ==
    ASSUME NEW x, NEW m, NEW c \in Chan, Steady(x, m, c), NEW f \in Frame,
           NEW d, d = Store(c, f)
    PROVE  /\ d \in Chan /\ Steady(x, m, d) /\ d.local_busy = c.local_busy
           /\ d.rx_state = c.rx_state /\ d.out = c.out /\ d.last_acked_seq = c.last_acked_seq
<1> DEFINE q == c.srej_q \cup {Kept(f)}
<1>1. q \in SUBSET Frames /\ d = [c EXCEPT !.srej_q = q]
  BY ChanNumbers, FrameFields DEF Store, Kept
<1> HIDE DEF q
<1>2. d \in Chan
  BY <1>1, ZenonT(40) DEF Chan
<1>3. /\ d.max_tx = c.max_tx /\ d.up = c.up /\ d.full = c.full /\ d.local_busy = c.local_busy
      /\ d.rx_state = c.rx_state /\ d.buffer_seq = c.buffer_seq /\ d.out = c.out
      /\ d.last_acked_seq = c.last_acked_seq
  BY <1>1 DEF Chan
<1>4. Carries(c, d)
  BY <1>3 DEF Carries
<1> QED
  BY <1>2, <1>3, <1>4, CarriesSteady

LEMMA DisconnectsFirm ==
    ASSUME NEW x, NEW m, NEW c, Firm(x, m, c), x # 0, NEW d, d = send_disconn_req(c)
    PROVE  Firm(x, m, d)
<1> DEFINE calm == FALSE
<1>1. calm \in BOOLEAN /\ Good(calm, c) /\ c \in Chan /\ c.max_tx = x
  BY FirmIs
<1>2. d.max_tx = x
  BY <1>1 DEF send_disconn_req, Chan
<1> HIDE DEF calm
<1>3. Good(calm, d)
  BY <1>1, Disconnects
<1> QED
  BY <1>2, <1>3 DEF Firm, Steady, calm

\* The next number, of an end that has told nothing yet.
LEMMA AdvancesFirm ==
    ASSUME NEW x, NEW m, NEW c, Firm(x, m, c), Untold(m, c), c.rx_state = "RECV",
           offset(c.expected_tx_seq, c.last_acked_seq) < TxWin,
           NEW d, d = Advance(c, next(c.expected_tx_seq))
    PROVE  Firm(x, m, d) /\ Untold(m, d) /\ d.local_busy = c.local_busy
<1> DEFINE calm == FALSE
           seq == next(c.expected_tx_seq)
<1>1. calm \in BOOLEAN /\ Good(calm, c) /\ c \in Chan /\ Steady(x, m, c)
  BY FirmIs
<1>2. seq = next(c.expected_tx_seq) /\ d = Advance(c, seq)
  OBVIOUS
<1> HIDE DEF calm, seq
<1>3. Good(calm, d)
  BY <1>1, <1>2, Advances
<1>4. /\ d.max_tx = c.max_tx /\ d.up = c.up /\ d.full = c.full /\ d.local_busy = c.local_busy
      /\ d.rx_state = c.rx_state /\ d.last_acked_seq = c.last_acked_seq /\ d.out = c.out
  BY <1>1, <1>2 DEF Advance, Chan
<1>5. Untold(m, d)
  BY <1>4 DEF Untold
<1>6. Steady(x, m, d)
  BY <1>1, <1>4, <1>5 DEF Steady, Busy, Tells, Untold
<1> QED
  BY <1>3, <1>4, <1>5, <1>6 DEF Firm, calm

\* A gap is found: an end that is not busy starts to reject.
LEMMA UnexpectedFirm ==
    ASSUME NEW x, NEW m, NEW c, Firm(x, m, c), ~c.local_busy, NEW f \in Frame,
           offset(c.expected_tx_seq, c.last_acked_seq) <= offset(f.txseq, c.last_acked_seq),
           offset(f.txseq, c.last_acked_seq) < TxWin,
           NEW d, d = Rejected(send_srej(Restart(Store(c, f)), f.txseq))
    PROVE  Firm(x, m, d)
<1> DEFINE calm == FALSE
           no == FALSE
           none == <<>>
           s == Store(c, f)
           g == Restart(s)
           h == send_srej(g, f.txseq)
<1>1. calm \in BOOLEAN /\ Good(calm, c) /\ c \in Chan /\ Steady(x, m, c) /\ f.txseq \in Number
  BY FirmIs, FrameFields
<1> HIDE DEF calm
<1>2. Good(calm, d)
  BY <1>1, Unexpecteds
<1>3. s \in Chan /\ Steady(x, m, s) /\ s.local_busy = c.local_busy
  BY <1>1, StoreSteady
<1>4. d = Rejected(h)
  OBVIOUS
<1>5. /\ g = [s EXCEPT !.srej_act = no, !.srej_list = none]
      /\ no \in BOOLEAN /\ none \in Seq(Number)
  BY DEF Restart
<1> HIDE DEF s, g, h, no, none
<1>6. g \in Chan /\ Carries(s, g)
  BY <1>3, <1>5 DEF Chan, Carries
<1>7. g \in Chan /\ Steady(x, m, g) /\ g.local_busy = c.local_busy
  BY <1>3, <1>6, CarriesSteady DEF Carries
<1>8. Still(x, m, g, h)
  BY <1>1, <1>7, SrejsStill DEF h
<1>9. h \in Chan /\ Steady(x, m, h) /\ h.local_busy = c.local_busy
  BY <1>7, <1>8 DEF Still
<1>10. /\ d.max_tx = h.max_tx /\ d.up = h.up /\ d.full = h.full /\ d.local_busy = h.local_busy
       /\ d.buffer_seq = h.buffer_seq /\ d.last_acked_seq = h.last_acked_seq /\ d.out = h.out
  BY <1>4, <1>9 DEF Rejected, Chan
<1>11. Steady(x, m, d)
  BY <1>9, <1>10 DEF Steady, Busy, Tells
<1> QED
  BY <1>2, <1>11 DEF Firm, calm

LEMMA IframeFirm ==
    ASSUME NEW x, NEW m, NEW c, Firm(x, m, c), Untold(m, c), c.rx_state = "RECV",
           NEW f \in Frame, valid_reqseq(c, f.reqseq),
           x = 0 => classify_txseq(c, f.txseq) # "INVALID",
           NEW fill \in Nat, NEW d, d = RecvIframe(c, f, fill)
    PROVE  Firm(x, m, d)
<1> DEFINE class == classify_txseq(c, f.txseq)
           c1 == pass_to_tx(c, f)
           filled == fill = 1
           a == Advance(c1, next(f.txseq))
           c2 == recv(a, f.sdu, filled)
           c3 == IF f.final THEN Final(c2, f) ELSE c2
           c4 == IF c3.local_busy THEN c3 ELSE send_ack(c3)
           c5 == IF ~c2.up THEN c2 ELSE c4
           u == Rejected(send_srej(Restart(Store(c1, f)), f.txseq))
<1>1. c \in Chan /\ RxInv(c) /\ Good(FALSE, c)
  BY FirmIs DEF Good
<1>2. f.txseq \in Number /\ f.sdu \in Nat /\ f.final \in BOOLEAN /\ filled \in BOOLEAN
  BY FrameFields
<1>3. /\ class \in {"INVALID_IGNORE", "INVALID", "EXPECTED", "DUPLICATE", "UNEXPECTED"}
      /\ class = "EXPECTED" => /\ f.txseq = c.expected_tx_seq
                               /\ offset(f.txseq, c.last_acked_seq) < TxWin
      /\ class = "UNEXPECTED" =>
             /\ offset(c.expected_tx_seq, c.last_acked_seq) <= offset(f.txseq, c.last_acked_seq)
             /\ offset(f.txseq, c.last_acked_seq) < TxWin
  BY <1>1, <1>2, Classes
<1>4. /\ Firm(x, m, c1) /\ Untold(m, c1) /\ c1.last_acked_seq = c.last_acked_seq
      /\ c1.expected_tx_seq = c.expected_tx_seq /\ c1.rx_state = c.rx_state
      /\ c1.local_busy = c.local_busy
  <2>1. SameRx(c, c1) /\ c1.last_acked_seq = c.last_acked_seq
    BY <1>1, PassKeeps
  <2>2. Firm(x, m, c1) /\ Untold(m, c1)
    BY PassesFirm
  <2> QED
    BY <2>1, <2>2 DEF SameRx
<1>5. d = CASE class = "EXPECTED" -> IF c.local_busy THEN c1 ELSE c5
            [] class = "UNEXPECTED" -> IF c.local_busy THEN c1 ELSE u
            [] class = "DUPLICATE" -> c1
            [] class = "INVALID_IGNORE" -> c
            [] class = "INVALID" -> send_disconn_req(c)
  BY DEF RecvIframe, Advance, Restart, Rejected
<1>6. x = 0 => class # "INVALID"
  OBVIOUS
<1> HIDE DEF c1, class
<1>7. ASSUME class = "EXPECTED", ~c.local_busy PROVE Firm(x, m, c5)
  <2>1. Firm(x, m, a) /\ Untold(m, a) /\ ~a.local_busy
    <3>1. a = Advance(c1, next(c1.expected_tx_seq))
      BY <1>3, <1>4, <1>7
    <3> HIDE DEF a
    <3> QED
      BY <1>3, <1>4, <1>7, <3>1, AdvancesFirm
  <2> HIDE DEF a, filled
  <2>2. Firm(x, m, c2)
    BY <1>2, <2>1, ReceivedFirm
  <2> HIDE DEF c2
  <2>3. Firm(x, m, c3)
    BY <2>2, FinalFirm
  <2> HIDE DEF c3
  <2>4. Firm(x, m, c4)
    BY <2>3, AcksFirm
  <2> QED
    BY <2>2, <2>4
<1>8. ASSUME class = "UNEXPECTED", ~c.local_busy PROVE Firm(x, m, u)
  <2> HIDE DEF u
  <2> QED
    BY <1>3, <1>4, <1>8, UnexpectedFirm DEF u
<1> HIDE DEF c5, u
<1>9. x # 0 => Firm(x, m, send_disconn_req(c))
  BY DisconnectsFirm
<1> QED
  BY <1>3, <1>4, <1>5, <1>6, <1>7, <1>8, <1>9

\* An end that is rejecting stores the unit, rejects more of them, or passes on what it has.
LEMMA NextBehindFirm ==
    ASSUME NEW x, NEW m, NEW c, Firm(x, m, c), NEW f \in Frame, c.rx_state = "SREJ_SENT",
           f.txseq = c.expected_tx_seq, offset(f.txseq, c.last_acked_seq) < TxWin,
           NEW d, d = [Store(c, f) EXCEPT !.expected_tx_seq = next(f.txseq)]
    PROVE  Firm(x, m, d)
<1> DEFINE calm == FALSE
           s == Store(c, f)
           seq == next(f.txseq)
<1>1. calm \in BOOLEAN /\ Good(calm, c) /\ c \in Chan /\ Steady(x, m, c)
  BY FirmIs
<1>2. d = [s EXCEPT !.expected_tx_seq = seq]
  OBVIOUS
<1>3. s \in Chan /\ Steady(x, m, s)
  BY <1>1, StoreSteady
<1> HIDE DEF calm
<1>4. Good(calm, d)
  BY <1>1, Nexts
<1> HIDE DEF s, seq
<1>5. Carries(s, d)
  BY <1>2, <1>3 DEF Chan, Carries
<1>6. Steady(x, m, d)
  BY <1>3, <1>5, CarriesSteady
<1> QED
  BY <1>4, <1>6 DEF Firm, calm

LEMMA FirstOneFirm ==
    ASSUME NEW x, NEW m, NEW c, Firm(x, m, c), Untold(m, c), NEW f \in Frame,
           c.rx_state = "SREJ_SENT", StartsWith(c.srej_list, f.txseq),
           NEW d, d = Behead(Store(c, f))
    PROVE  Firm(x, m, d) /\ Untold(m, d) /\ d.rx_state = "SREJ_SENT"
<1> DEFINE calm == FALSE
           s == Store(c, f)
           list == Tail(s.srej_list)
<1>1. calm \in BOOLEAN /\ Good(calm, c) /\ c \in Chan /\ Steady(x, m, c)
  BY FirmIs
<1>2. d = [s EXCEPT !.srej_list = list]
  BY DEF Behead
<1>3. /\ s \in Chan /\ Steady(x, m, s) /\ s.out = c.out /\ s.last_acked_seq = c.last_acked_seq
  BY <1>1, StoreSteady
<1> HIDE DEF calm
<1>4. Good(calm, d) /\ d.rx_state = "SREJ_SENT"
  BY <1>1, FirstOnes
<1> HIDE DEF s, list
<1>5. Carries(s, d) /\ d.out = s.out /\ d.last_acked_seq = s.last_acked_seq
  BY <1>2, <1>3 DEF Chan, Carries
<1>6. Steady(x, m, d)
  BY <1>3, <1>5, CarriesSteady
<1>7. Untold(m, d)
  BY <1>3, <1>5 DEF Untold
<1> QED
  BY <1>4, <1>6, <1>7 DEF Firm, calm

LEMMA FurtherGapFirm ==
    ASSUME NEW x, NEW m, NEW c, Firm(x, m, c), NEW f \in Frame, c.rx_state = "SREJ_SENT",
           offset(c.expected_tx_seq, c.last_acked_seq) <= offset(f.txseq, c.last_acked_seq),
           offset(f.txseq, c.last_acked_seq) < TxWin,
           NEW d, d = send_srej(Store(c, f), f.txseq)
    PROVE  Firm(x, m, d)
<1> DEFINE calm == FALSE
           s == Store(c, f)
<1>1. calm \in BOOLEAN /\ Good(calm, c) /\ c \in Chan /\ Steady(x, m, c) /\ f.txseq \in Number
  BY FirmIs, FrameFields
<1>2. s \in Chan /\ Steady(x, m, s)
  BY <1>1, StoreSteady
<1> HIDE DEF calm
<1>3. Good(calm, d)
  BY <1>1, FurtherGaps
<1> HIDE DEF s
<1>4. Still(x, m, s, d)
  BY <1>1, <1>2, SrejsStill DEF s
<1> QED
  BY <1>3, <1>4 DEF Firm, Still, calm

LEMMA LaterOneFirm ==
    ASSUME NEW x, NEW m, NEW c, Firm(x, m, c), NEW f \in Frame, c.rx_state = "SREJ_SENT",
           offset(f.txseq, c.last_acked_seq) < TxWin, Listed(c.srej_list, f.txseq),
           ~\E g \in c.srej_q : g.txseq = f.txseq,
           NEW d, d = send_srej_list(Store(c, f), f.txseq)
    PROVE  Firm(x, m, d)
<1> DEFINE calm == FALSE
           s == Store(c, f)
<1>1. calm \in BOOLEAN /\ Good(calm, c) /\ c \in Chan /\ Steady(x, m, c) /\ f.txseq \in Number
  BY FirmIs, FrameFields
<1>2. s \in Chan /\ Steady(x, m, s)
  BY <1>1, StoreSteady
<1> HIDE DEF calm
<1>3. Good(calm, d)
  BY <1>1, LaterOnes
<1> HIDE DEF s
<1>4. Still(x, m, s, d)
  BY <1>1, <1>2, SrejListsStill DEF s
<1> QED
  BY <1>3, <1>4 DEF Firm, Still, calm

LEMMA IframeBehindFirm ==
    ASSUME NEW x, NEW m, NEW c, Firm(x, m, c), Untold(m, c), c.rx_state = "SREJ_SENT",
           NEW f \in Frame, valid_reqseq(c, f.reqseq),
           x = 0 => classify_txseq(c, f.txseq) # "INVALID",
           NEW fill \in Nat, NEW d, d = RecvIframeSrejSent(c, f, fill)
    PROVE  Firm(x, m, d)
<1> DEFINE class == classify_txseq(c, f.txseq)
           c1 == pass_to_tx(c, f)
           g == Store(c1, f)
           n == [g EXCEPT !.expected_tx_seq = next(f.txseq)]
           b == Behead(g)
           r == rx_queued_iframes(b, fill)
           u == send_srej(g, f.txseq)
           l == send_srej_list(g, f.txseq)
<1>1. c \in Chan /\ RxInv(c) /\ Good(FALSE, c)
  BY FirmIs DEF Good
<1>2. f.txseq \in Number
  BY FrameFields
<1>3. /\ class \in {"INVALID_IGNORE", "INVALID", "EXPECTED", "DUPLICATE", "UNEXPECTED",
                    "EXPECTED_SREJ", "DUPLICATE_SREJ", "UNEXPECTED_SREJ"}
      /\ class = "EXPECTED" => /\ f.txseq = c.expected_tx_seq
                               /\ offset(f.txseq, c.last_acked_seq) < TxWin
      /\ class = "UNEXPECTED" =>
             /\ offset(c.expected_tx_seq, c.last_acked_seq) <= offset(f.txseq, c.last_acked_seq)
             /\ offset(f.txseq, c.last_acked_seq) < TxWin
      /\ class = "EXPECTED_SREJ" => StartsWith(c.srej_list, f.txseq)
      /\ class = "UNEXPECTED_SREJ" =>
             /\ offset(f.txseq, c.last_acked_seq) < TxWin
             /\ Listed(c.srej_list, f.txseq) /\ ~\E y \in c.srej_q : y.txseq = f.txseq
  BY <1>1, <1>2, Classes DEF StartsWith
<1>4. /\ Firm(x, m, c1) /\ Untold(m, c1) /\ c1.last_acked_seq = c.last_acked_seq
      /\ c1.expected_tx_seq = c.expected_tx_seq /\ c1.rx_state = c.rx_state
      /\ c1.srej_list = c.srej_list /\ c1.srej_q = c.srej_q
  <2>1. SameRx(c, c1) /\ c1.last_acked_seq = c.last_acked_seq
    BY <1>1, PassKeeps
  <2>2. Firm(x, m, c1) /\ Untold(m, c1)
    BY PassesFirm
  <2> QED
    BY <2>1, <2>2 DEF SameRx
<1>5. d = CASE class = "EXPECTED" -> n
            [] class = "EXPECTED_SREJ" -> r
            [] class = "UNEXPECTED" -> u
            [] class = "UNEXPECTED_SREJ" -> l
            [] class = "DUPLICATE_SREJ" -> c1
            [] class \in {"DUPLICATE", "INVALID_IGNORE"} -> c
            [] class = "INVALID" -> send_disconn_req(c)
  BY DEF RecvIframeSrejSent, Behead
<1>6. x = 0 => class # "INVALID"
  OBVIOUS
<1> HIDE DEF class, c1
<1>7. ASSUME class = "EXPECTED" PROVE Firm(x, m, n)
  <2> HIDE DEF n
  <2> QED
    BY <1>3, <1>4, <1>7, NextBehindFirm DEF n
<1>8. ASSUME class = "EXPECTED_SREJ" PROVE Firm(x, m, r)
  <2>1. Firm(x, m, b) /\ Untold(m, b) /\ b.rx_state = "SREJ_SENT"
    <3> HIDE DEF b
    <3> QED
      BY <1>3, <1>4, <1>8, FirstOneFirm DEF b
  <2> HIDE DEF b
  <2> QED
    BY <2>1, QueuedFirm
<1>9. ASSUME class = "UNEXPECTED" PROVE Firm(x, m, u)
  <2> HIDE DEF u
  <2> QED
    BY <1>3, <1>4, <1>9, FurtherGapFirm DEF u
<1>10. ASSUME class = "UNEXPECTED_SREJ" PROVE Firm(x, m, l)
  <2> HIDE DEF l
  <2> QED
    BY <1>3, <1>4, <1>10, LaterOneFirm DEF l
<1>11. x # 0 => Firm(x, m, send_disconn_req(c))
  BY DisconnectsFirm
<1> HIDE DEF n, r, u, l
<1> QED
  BY <1>3, <1>4, <1>5, <1>6, <1>7, <1>8, <1>9, <1>10, <1>11

-----------------------------------------------------------------------------
(* Frames that arrive *)

LEMMA RRFirm ==
    ASSUME NEW x, NEW m, NEW c, Firm(x, m, c), NEW f \in Frame, valid_reqseq(c, f.reqseq),
           NEW d, d = RecvRR(c, f)
    PROVE  Firm(x, m, d)
<1> DEFINE c1 == pass_to_tx(c, f)
           y == MarkReady(c1)
           r == RemoteReady(c1)
           o == MarkOwing(r)
           sent == c.rx_state = "SREJ_SENT"
<1>1. d = IF f.final THEN Final(y, f)
          ELSE IF f.poll THEN IF sent THEN send_srej_tail(o) ELSE send_i_or_rr_or_rnr(c1)
          ELSE IF sent THEN send_ack(r) ELSE ertm_send(r)
  BY DEF RecvRR, MarkReady, MarkOwing
<1>2. Firm(x, m, c1)
  BY PassesFirm
<1> HIDE DEF c1, sent
<1>3. Firm(x, m, y) /\ Firm(x, m, r)
  BY <1>2, MarksFirm, RemoteReadiesFirm
<1> HIDE DEF y, r
<1>4. Firm(x, m, o)
  BY <1>3, MarksFirm
<1> HIDE DEF o
<1>5. /\ Firm(x, m, Final(y, f)) /\ Firm(x, m, send_srej_tail(o))
      /\ Firm(x, m, send_i_or_rr_or_rnr(c1)) /\ Firm(x, m, send_ack(r))
      /\ Firm(x, m, ertm_send(r))
  BY <1>2, <1>3, <1>4, FinalFirm, SrejTailsFirm, AnswersFirm, AcksFirm, SendsFirm
<1> QED
  BY <1>1, <1>5

LEMMA RetransStopsFirm ==
    ASSUME NEW x, NEW m, NEW c, Firm(x, m, c), NEW d, d = clear_timer(c, "retrans")
    PROVE  Firm(x, m, d)
<1> DEFINE armed == c.armed \ {"retrans"}
<1>1. Good(FALSE, c)
  BY FirmIs
<1>2. Good(FALSE, d)
  BY <1>1, RetransStops
<1>3. d = PutTimers(c, armed)
  BY DEF clear_timer, PutTimers
<1> QED
  BY <1>2, <1>3, AsideFirmly

LEMMA RNRFirm ==
    ASSUME NEW x, NEW m, NEW c, Firm(x, m, c), NEW f \in Frame, valid_reqseq(c, f.reqseq),
           NEW d, d = RecvRNR(c, f)
    PROVE  Firm(x, m, d)
<1> DEFINE no == FALSE
           b == RemoteBusy(c)
           c1 == pass_to_tx(b, f)
           o == MarkOwing(c1)
           r == send_rr_or_rnr(o, no)
           s == send_sframe(c1, "RR", no, no, c.buffer_seq)
           y == IF f.poll THEN r ELSE c1
<1>1. d = IF c.rx_state = "RECV" THEN clear_timer(y, "retrans")
          ELSE IF f.poll THEN send_srej_tail(c1) ELSE s
  BY DEF RecvRNR, RemoteBusy, MarkOwing
<1>2. no \in BOOLEAN /\ "RR" \in {"RR", "RNR", "SREJ"} /\ c \in Chan /\ c.buffer_seq \in Number
  BY FirmIs, ChanNumbers
<1>3. Firm(x, m, b) /\ Even(c, b)
  BY MarksFirm
<1>4. valid_reqseq(b, f.reqseq)
  <2>1. b.next_tx_seq = c.next_tx_seq /\ b.expected_ack_seq = c.expected_ack_seq
    BY <1>2 DEF RemoteBusy, Chan
  <2> QED
    BY <2>1 DEF valid_reqseq
<1> HIDE DEF no, b
<1>5. Firm(x, m, c1) /\ Even(b, c1)
  BY <1>3, <1>4, PassesFirm
<1>6. c1.buffer_seq = c.buffer_seq
  BY <1>3, <1>5 DEF Even
<1> HIDE DEF c1
<1>7. Firm(x, m, o)
  BY <1>5, MarksFirm
<1> HIDE DEF o
<1>8. Firm(x, m, r)
  BY <1>2, <1>7, ReportsFirm
<1>9. Firm(x, m, s)
  BY <1>2, <1>5, <1>6, SframeFirm, SMTT(30)
<1>10. Firm(x, m, send_srej_tail(c1))
  BY <1>5, SrejTailsFirm
<1> HIDE DEF r, s
<1>11. Firm(x, m, y)
  BY <1>5, <1>8
<1> HIDE DEF y
<1>12. Firm(x, m, clear_timer(y, "retrans"))
  BY <1>11, RetransStopsFirm
<1> QED
  BY <1>1, <1>9, <1>10, <1>12

LEMMA SrejHandledFirm ==
    ASSUME NEW x, NEW m, NEW c, Firm(x, m, c), NEW f \in Frame, valid_reqseq(c, f.reqseq),
           x = 0 => f.reqseq # c.next_tx_seq, NEW d, d = handle_srej(c, f)
    PROVE  Firm(x, m, d)
<1> DEFINE i == Find(c.tx_q, f.reqseq)
           c1 == MarkReady(c)
           c2 == pass_to_tx_fbit(c1, f.final)
           p == pass_to_tx(c1, f)
           o == MarkOwing(p)
           r == retransmit(o, f.reqseq)
           s == ertm_send(r)
           r2 == retransmit(c2, f.reqseq)
<1>1. f.reqseq \in Number /\ f.final \in BOOLEAN /\ c \in Chan /\ c.max_tx = x
  BY FrameFields, FirmIs
<1>2. \/ d = send_disconn_req(c) /\ x # 0
      \/ d = c \/ d = RememberSrej(s, f) \/ d = RememberSrej(r2, f) \/ d = Forget(c2) \/ d = r2
  BY <1>1 DEF handle_srej, MarkReady, MarkOwing, Forget
<1>3. x # 0 => Firm(x, m, send_disconn_req(c))
  BY DisconnectsFirm
<1>4. Firm(x, m, c1)
  BY MarksFirm
<1>5. valid_reqseq(c1, f.reqseq)
  <2>1. c1.next_tx_seq = c.next_tx_seq /\ c1.expected_ack_seq = c.expected_ack_seq
    BY <1>1 DEF MarkReady, Chan
  <2> QED
    BY <2>1 DEF valid_reqseq
<1> HIDE DEF c1, i
<1>6. Firm(x, m, c2)
  BY <1>1, <1>4, FbitFirm
<1>7. Firm(x, m, p)
  BY <1>4, <1>5, PassesFirm
<1> HIDE DEF c2, p
<1>8. Firm(x, m, r2) /\ Firm(x, m, o)
  BY <1>1, <1>6, <1>7, RetransmitFirm, MarksFirm
<1> HIDE DEF o, r2
<1>9. Firm(x, m, r)
  BY <1>1, <1>8, RetransmitFirm
<1> HIDE DEF r
<1>10. Firm(x, m, s)
  BY <1>9, SendsFirm
<1> HIDE DEF s
<1>11. /\ Firm(x, m, RememberSrej(s, f)) /\ Firm(x, m, RememberSrej(r2, f))
       /\ Firm(x, m, Forget(c2))
  BY <1>6, <1>8, <1>10, RemembersFirm, MarksFirm
<1> QED
  BY <1>2, <1>3, <1>8, <1>11

\* The frame f is not an error.
Welcome(c, f) ==
    /\ valid_reqseq(c, f.reqseq)
    /\ f.super = "I" => classify_txseq(c, f.txseq) # "INVALID"
    /\ f.super = "SREJ" => f.reqseq # c.next_tx_seq

LEMMA FrameFirm ==
    ASSUME NEW x, NEW m, NEW c, Firm(x, m, c), Untold(m, c), NEW f \in Frame,
           x = 0 => Welcome(c, f), NEW fill \in Nat, NEW d, d = data_rcv(c, f, fill)
    PROVE  Firm(x, m, d)
<1>1. c.rx_state \in {"RECV", "SREJ_SENT"} /\ f.super \in {"I", "RR", "RNR", "SREJ"}
  BY FirmIs, ChanNumbers, FrameFields
<1>2. ~valid_reqseq(c, f.reqseq) => Firm(x, m, send_disconn_req(c))
  BY DisconnectsFirm DEF Welcome
<1>3. ASSUME valid_reqseq(c, f.reqseq), f.super = "I", c.rx_state = "RECV"
      PROVE  Firm(x, m, RecvIframe(c, f, fill))
  BY <1>3, IframeFirm DEF Welcome
<1>4. ASSUME valid_reqseq(c, f.reqseq), f.super = "I", c.rx_state = "SREJ_SENT"
      PROVE  Firm(x, m, RecvIframeSrejSent(c, f, fill))
  BY <1>4, IframeBehindFirm DEF Welcome
<1>5. ASSUME valid_reqseq(c, f.reqseq), f.super = "RR"
      PROVE  Firm(x, m, RecvRR(c, f))
  BY <1>5, RRFirm
<1>6. ASSUME valid_reqseq(c, f.reqseq), f.super = "RNR"
      PROVE  Firm(x, m, RecvRNR(c, f))
  BY <1>6, RNRFirm
<1>7. ASSUME valid_reqseq(c, f.reqseq), f.super = "SREJ"
      PROVE  Firm(x, m, handle_srej(c, f))
  BY <1>7, SrejHandledFirm DEF Welcome
<1> QED
  BY <1>1, <1>2, <1>3, <1>4, <1>5, <1>6, <1>7 DEF data_rcv

-----------------------------------------------------------------------------
(* Timers, requests, reading *)

LEMMA TimersFirm ==
    ASSUME NEW x, NEW m, NEW c, Firm(x, m, c), NEW t \in Timer
    PROVE  /\ Even(c, Taken(c, t)) /\ Even(c, Rearmed(Taken(c, t), t)) /\ Even(c, Fired(c, t))
<1>1. c \in Chan
  BY FirmIs
<1>2. Even(c, Taken(c, t)) /\ Even(c, Fired(c, t))
  BY <1>1 DEF Even, Taken, Fired, Chan
<1>3. Even(c, Rearmed(Taken(c, t), t))
  BY <1>1 DEF Even, Taken, Rearmed, Chan
<1> QED
  BY <1>2, <1>3

LEMMA RearmedFirm ==
    ASSUME NEW x, NEW m, NEW c, Firm(x, m, c), NEW t \in Timer,
           t = "retrans" \/ (t = "monitor" /\ c.tx_state = "WAIT_F"),
           NEW d, d = Rearmed(Taken(c, t), t)
    PROVE  Firm(x, m, d)
<1> DEFINE calm == FALSE
<1>1. calm \in BOOLEAN /\ Good(calm, c) /\ ~calm
  BY FirmIs
<1> HIDE DEF calm
<1>2. Good(calm, d)
  BY <1>1, RearmedGood
<1>3. Good(FALSE, d)
  BY <1>2 DEF calm
<1> QED
  BY <1>3, TimersFirm, EvenFirm

LEMMA RetransFirm ==
    ASSUME NEW x, NEW m, NEW c, Firm(x, m, c), NEW d, d = retrans_timeout(Taken(c, "retrans"))
    PROVE  Firm(x, m, d)
<1> DEFINE t == "retrans"
           b == Taken(c, t)
           r == Rearmed(b, t)
           yes == TRUE
           y == send_rr_or_rnr(r, yes)
           calm == FALSE
<1>1. t \in Timer /\ t = "retrans" /\ c \in Chan /\ yes \in BOOLEAN
  BY FirmIs DEF Timer
<1>2. b \in Chan
  BY <1>1, TakenFields
<1>3. Good(FALSE, d)
  <2>1. calm \in BOOLEAN /\ Good(calm, c)
    BY FirmIs
  <2> HIDE DEF calm
  <2>2. Good(calm, d)
    BY <2>1, RetransExpires
  <2> QED
    BY <2>2 DEF calm
<1>4. d = PollAndWait(y) \/ d = b
  <2>1. d = PollAndWait(send_rr_or_rnr(b, TRUE)) \/ d = b
    BY DEF retrans_timeout
  <2>2. PollAndWait(y) = PollAndWait(send_rr_or_rnr(b, TRUE))
    <3> HIDE DEF b
    <3> QED
      BY <1>2, PollsAlike
  <2> QED
    BY <2>1, <2>2
<1> HIDE DEF t
<1>5. Even(c, b)
  BY <1>1, TimersFirm
<1>6. Firm(x, m, r)
  BY <1>1, RearmedFirm
<1> HIDE DEF r, yes, b
<1>7. Firm(x, m, y)
  BY <1>1, <1>6, ReportsFirm
<1> HIDE DEF y
<1>8. d = PollAndWait(y) => Firm(x, m, d)
  BY <1>7, PollsFirm
<1>9. d = b => Firm(x, m, d)
  BY <1>3, <1>5, EvenFirm
<1> QED
  BY <1>4, <1>8, <1>9

LEMMA MonitorFirm ==
    ASSUME NEW x, NEW m, NEW c, Firm(x, m, c), NEW d, d = monitor_timeout(Taken(c, "monitor"))
    PROVE  Firm(x, m, d)
<1> DEFINE t == "monitor"
           b == Taken(c, t)
           r == Rearmed(b, t)
           yes == TRUE
           y == send_rr_or_rnr(r, yes)
           calm == FALSE
<1>1. /\ t \in Timer /\ t = "monitor" /\ c \in Chan /\ c.tx_state \in {"XMIT", "WAIT_F"}
      /\ yes \in BOOLEAN /\ c.max_tx = x
  BY FirmIs, ChanNumbers DEF Timer
<1>2. b \in Chan /\ b.tx_state = c.tx_state /\ b.max_tx = x
  BY <1>1, TakenFields DEF Taken, Chan
<1>3. Good(FALSE, d)
  <2>1. calm \in BOOLEAN /\ Good(calm, c)
    BY FirmIs
  <2> HIDE DEF calm
  <2>2. Good(calm, d)
    BY <2>1, MonitorExpires
  <2> QED
    BY <2>2 DEF calm
<1>4. Even(c, b)
  BY <1>1, TimersFirm
<1>5. CASE c.tx_state = "WAIT_F"
  <2>1. d = Repeat(b) \/ (d = send_disconn_req(b) /\ x # 0)
    BY <1>2, <1>5 DEF monitor_timeout, Repeat
  <2>2. d = Repeat(r) \/ (d = send_disconn_req(r) /\ x # 0)
    <3> HIDE DEF b
    <3> QED
      BY <1>2, <2>1, PollsAlike
  <2> HIDE DEF t
  <2>3. Firm(x, m, r)
    BY <1>1, <1>5, RearmedFirm
  <2> HIDE DEF r, yes
  <2>4. Firm(x, m, y) /\ y \in Chan
    BY <1>1, <2>3, ReportsFirm, FirmIs
  <2>5. d = Repeat(r) => Firm(x, m, d)
    <3>1. SUFFICES ASSUME d = Repeat(r) PROVE Firm(x, m, d)
      OBVIOUS
    <3>2. d = [set_monitor_timer(y) EXCEPT !.retry_count = Count(r, @)]
      BY <3>1 DEF Repeat, yes
    <3> HIDE DEF y
    <3>3. Even(y, d)
      BY <2>4, <3>2 DEF set_monitor_timer, Chan, Even
    <3> QED
      BY <1>3, <2>4, <3>3, EvenFirm
  <2>6. x # 0 => Firm(x, m, send_disconn_req(r))
    BY <2>3, DisconnectsFirm
  <2> QED
    BY <2>2, <2>5, <2>6
<1>6. CASE c.tx_state = "XMIT"
  <2>1. d = b
    BY <1>2, <1>6 DEF monitor_timeout
  <2> QED
    BY <1>3, <1>4, <2>1, EvenFirm
<1> QED
  BY <1>1, <1>5, <1>6

LEMMA AckFirm ==
    ASSUME NEW x, NEW m, NEW c, Firm(x, m, c), NEW d, d = ack_timeout(Taken(c, "ack"))
    PROVE  Firm(x, m, d)
<1> DEFINE t == "ack"
           b == Taken(c, t)
           no == FALSE
           calm == FALSE
<1>1. t \in Timer /\ t # "retrans" /\ t # "monitor" /\ no \in BOOLEAN
  BY DEF Timer
<1>2. d = b \/ d = send_rr_or_rnr(b, no)
  BY DEF ack_timeout
<1>3. calm \in BOOLEAN /\ Good(calm, c)
  BY FirmIs
<1> HIDE DEF t, no, calm
<1>4. Good(calm, b)
  BY <1>1, <1>3, TakenGood
<1>5. Good(FALSE, b) /\ Even(c, b)
  BY <1>1, <1>4, TimersFirm DEF calm
<1> HIDE DEF b
<1>6. Firm(x, m, b)
  BY <1>5, EvenFirm
<1> QED
  BY <1>1, <1>2, <1>6, ReportsFirm

LEMMA RequestFirm ==
    ASSUME NEW x, NEW m, NEW c, Firm(x, m, c), NEW d, d = data_request(c)
    PROVE  Firm(x, m, d)
<1> DEFINE g == PutQueue(c, c.sent + 1, Waiting(c))
           calm == FALSE
<1>1. calm \in BOOLEAN /\ Good(calm, c) /\ c \in Chan
  BY FirmIs
<1>2. d = ertm_send(g)
  BY DEF data_request, PutQueue, Waiting
<1> HIDE DEF g, calm
<1>3. /\ Good(calm, g) /\ SameRx(c, g) /\ SameState(c, g) /\ g.out = c.out
      /\ g.last_acked_seq = c.last_acked_seq /\ g.max_tx = c.max_tx
  BY <1>1, QueueGood DEF g
<1>4. Good(FALSE, g) /\ Even(c, g)
  BY <1>3 DEF calm, Even, SameRx, SameState
<1>5. Firm(x, m, g)
  BY <1>4, EvenFirm
<1> QED
  BY <1>2, <1>5, SendsFirm

LEMMA EmptiedFirm ==
    ASSUME NEW x, NEW m, NEW c, Firm(x, m, c), NEW d, d = Emptied(c)
    PROVE  Firm(x, m, d) /\ ~d.full
<1> DEFINE no == FALSE
           local_busy == c.local_busy
           got == c.got
<1>1. c \in Chan /\ Good(no, c) /\ Steady(x, m, c)
  BY FirmIs
<1>2. local_busy \in BOOLEAN /\ got \in Seq(Nat) /\ no \in BOOLEAN /\ (no => ~local_busy /\ ~no)
  BY <1>1, ChanNumbers
<1>3. d = PutBusy(c, local_busy, no, got)
  BY <1>1 DEF PutBusy, Emptied, Chan
<1>4. /\ d.max_tx = c.max_tx /\ d.up = c.up /\ ~d.full /\ d.local_busy = c.local_busy
      /\ d.rx_state = c.rx_state /\ d.buffer_seq = c.buffer_seq
      /\ d.last_acked_seq = c.last_acked_seq /\ d.out = c.out
  BY <1>1 DEF Emptied, Chan
<1> HIDE DEF no, local_busy, got
<1>5. Good(no, d)
  BY <1>1, <1>2, <1>3, GoodBusy
<1>6. Steady(x, m, d)
  BY <1>1, <1>4 DEF Steady, Busy, Tells
<1> QED
  BY <1>4, <1>5, <1>6 DEF Firm, no

-----------------------------------------------------------------------------
(* Frames that are welcome *)

\* The end c has told the end that v views to have got m units: so say the frames l on its
\* link, and that end has not taken more of its own to have arrived.
Told(v, m, c, l) ==
    /\ m \in Nat /\ v.base <= m /\ m <= Len(c.got) /\ c.last_acked_seq = Nth(m)
    /\ \A i \in DOMAIN l : l[i].super # "SREJ" => v.base + Ahead(v, l[i]) <= m

\* What arrives at an end that is not in the middle of a gap is within its window.
LEMMA NextIsWelcome ==
    ASSUME 2 * TxWin <= Modulus, NEW p \in Places, NEW c, Sound(p, c), c.up,
           NEW f \in Frame, f.super = "I", Arrives(p, c, f), c.rx_state = "RECV",
           f.txseq = c.expected_tx_seq, NEW m \in Nat, p.base <= m, m <= Len(c.got),
           c.last_acked_seq = Nth(m)
    PROVE  offset(f.txseq, c.last_acked_seq) < TxWin
<1> DEFINE g == Len(c.got)
<1>1. c \in Chan /\ RxInv(c) /\ Exact(p, c) /\ EndExact(p, c) /\ RxExact(c)
  BY SoundIs DEF Exact, Flow
<1>2. /\ f.txseq \in Number /\ c.buffer_seq \in Number /\ c.buffer_seq = Nth(g) /\ g \in Nat
      /\ f.sdu \in Nat
  <2>1. c.got \in Seq(Nat)
    BY <1>1, ChanNumbers
  <2> QED
    BY <1>1, <2>1, ChanNumbers, FrameFields DEF RxExact
<1>3. offset(f.txseq, c.buffer_seq) = 0
  BY <1>1 DEF RxInv
<1>4. f.txseq = c.buffer_seq
  BY <1>2, <1>3, OffsetsAdd
<1>5. TxWin \in Nat /\ 0 < TxWin /\ TxWin < Modulus /\ Modulus \in Nat
  BY Numbers
<1>6. f.sdu = g + 1
  <2>1. offset(f.txseq, c.buffer_seq) < TxWin
    BY <1>3, <1>5
  <2>2. f.sdu = g + offset(f.txseq, c.buffer_seq) + 1
    BY <1>1, <2>1, Placed
  <2> QED
    BY <1>2, <1>3, <2>2
<1>7. f.sdu <= p.newest /\ p.newest <= p.base + TxWin /\ p.newest \in Nat /\ p.base \in Nat
  BY PlaceFields DEF Arrives
<1> HIDE DEF g
<1>8. m <= g
  BY DEF g
<1>9. g - m < TxWin /\ g < m + Modulus
  BY <1>2, <1>5, <1>6, <1>7, <1>8
<1>10. offset(Nth(g), Nth(m)) = g - m
  BY <1>2, <1>8, <1>9, Nths
<1> QED
  BY <1>2, <1>4, <1>9, <1>10

\* What a frame acknowledges or rejects was sent.
LEMMA AcksWhatWasSent ==
    ASSUME NEW c \in Chan, TxInv(c), NEW seq \in Number,
           offset(seq, c.expected_ack_seq) <= c.unacked
    PROVE  /\ valid_reqseq(c, seq)
           /\ offset(seq, c.expected_ack_seq) < c.unacked => seq # c.next_tx_seq
<1>1. /\ c.next_tx_seq \in Number /\ c.expected_ack_seq \in Number /\ c.unacked \in Nat
      /\ offset(c.next_tx_seq, c.expected_ack_seq) = c.unacked
  BY ChanNumbers DEF TxInv
<1>2. /\ offset(seq, c.expected_ack_seq) \in Nat /\ offset(c.next_tx_seq, seq) \in Nat
  BY <1>1, OffsetIs, Numbers
<1>3. offset(c.next_tx_seq, c.expected_ack_seq) =
      offset(seq, c.expected_ack_seq) + offset(c.next_tx_seq, seq)
  BY <1>1, OffsetsAdd
<1>4. valid_reqseq(c, seq)
  <2> DEFINE a == offset(c.next_tx_seq, c.expected_ack_seq)
             b == offset(seq, c.expected_ack_seq)
             o == offset(c.next_tx_seq, seq)
  <2>1. a = b + o /\ b \in Nat /\ o \in Nat
    BY <1>2, <1>3
  <2> HIDE DEF a, b, o
  <2>2. o <= a
    BY <2>1
  <2> QED
    BY <2>2 DEF valid_reqseq, a, o
<1>5. seq = c.next_tx_seq => offset(seq, c.expected_ack_seq) = c.unacked
  BY <1>1
<1> QED
  BY <1>1, <1>2, <1>4, <1>5

LEMMA OutsideIsIgnored ==
    ASSUME 2 * TxWin <= Modulus
    PROVE  Outside # "INVALID"
<1>1. TxWin <= Modulus \div 2
  <2>1. /\ Modulus = 2 => Modulus \div 2 = 1
        /\ Modulus = 4 => Modulus \div 2 = 2
        /\ Modulus = 8 => Modulus \div 2 = 4
        /\ Modulus = 16 => Modulus \div 2 = 8
        /\ Modulus = 32 => Modulus \div 2 = 16
        /\ Modulus = 64 => Modulus \div 2 = 32
    OBVIOUS
  <2> QED
    BY <2>1, WindowFits, Numbers
<1> QED
  BY <1>1 DEF Outside

\* No frame that is first on its way to c is an error.
LEMMA IsWelcome ==
    ASSUME 2 * TxWin <= Modulus, NEW c, NEW d, Idle(c), Idle(d), c.up,
           NEW l \in Seq(Frame), NEW k \in Seq(Frame), k # <<>>, Half(c, d, l), Half(d, c, k),
           NEW m, Told(View(d), m, c, l), NEW f, f = Head(k)
    PROVE  f \in Frame /\ Welcome(c, f)
<1> DEFINE p == Place(c, d, l, Tail(k))
<1>1. c \in Chan /\ d \in Chan /\ TxInv(c) /\ TxInv(d) /\ TxExact(c) /\ TxExact(d)
  BY DEF Idle, Good, Half
<1>2. Tail(k) \in Seq(Frame) /\ Left(Tail(k), k)
  BY RestLeft
<1>3. p \in Places /\ Sound(p, c) /\ f \in Frame /\ Arrives(p, c, f)
  <2> DEFINE r == p
             rest == Tail(k)
  <2>1. r = Place(c, d, l, Tail(k)) /\ r = Place(c, d, l, rest) /\ rest \in Seq(Frame)
    BY <1>2
  <2>2. Half(d, c, rest)
    BY <1>2, LeftHalf
  <2> HIDE DEF r, rest
  <2>3. r \in Places /\ Sound(r, c)
    BY <2>1, <2>2, PlaceSound
  <2>4. f \in Frame /\ Arrives(r, c, f)
    BY <2>1, HeadArrives
  <2> QED
    BY <2>3, <2>4 DEF r
<1>4. Len(d.got) \in p.acks /\ p.base = Forgotten(d)
  BY DEF Place
<1> HIDE DEF p
<1>5. f.reqseq \in Number /\ f.super \in {"I", "RR", "RNR", "SREJ"} /\ f.txseq \in Number
  BY <1>3, FrameFields
<1>6. c.expected_ack_seq \in Number /\ c.unacked \in Nat
  BY <1>1, ChanNumbers
<1>7. offset(f.reqseq, c.expected_ack_seq) \in Nat
  BY <1>5, <1>6, OffsetIs, Numbers
<1>8. f.super # "SREJ" => offset(f.reqseq, c.expected_ack_seq) <= c.unacked
  <2>1. f.super # "SREJ"
        => Forgotten(c) + offset(f.reqseq, c.expected_ack_seq) <= Len(d.got)
    BY <1>3, <1>4 DEF Arrives
  <2>2. /\ Len(d.got) \in Units(d) /\ Len(d.got) \in Nat /\ Forgotten(c) \in Nat
        /\ Newest(c) \in Nat /\ Newest(c) = Forgotten(c) + c.unacked
    BY <1>1, UnitsAre, HalfNumbers
  <2>3. Len(d.got) <= Newest(c)
    BY <2>2 DEF Half
  <2> QED
    BY <1>6, <1>7, <2>1, <2>2, <2>3
<1>9. f.super = "SREJ" => offset(f.reqseq, c.expected_ack_seq) < c.unacked
  BY <1>3 DEF Arrives
<1>10. valid_reqseq(c, f.reqseq) /\ (f.super = "SREJ" => f.reqseq # c.next_tx_seq)
  <2>1. offset(f.reqseq, c.expected_ack_seq) <= c.unacked
    BY <1>6, <1>7, <1>8, <1>9
  <2> QED
    BY <1>1, <1>5, <1>9, <2>1, AcksWhatWasSent
<1>11. ASSUME f.super = "I" PROVE classify_txseq(c, f.txseq) # "INVALID"
  <2>1. Outside # "INVALID"
    BY OutsideIsIgnored
  <2>2. ASSUME c.rx_state = "RECV", f.txseq = c.expected_tx_seq
        PROVE  offset(f.txseq, c.last_acked_seq) < TxWin
    <3>1. m \in Nat /\ p.base <= m /\ m <= Len(c.got) /\ c.last_acked_seq = Nth(m)
      BY <1>4 DEF Told, View
    <3> QED
      BY <1>3, <1>11, <2>2, <3>1, NextIsWelcome
  <2>3. c.rx_state \in {"RECV", "SREJ_SENT"}
    BY <1>1, ChanNumbers
  <2> DEFINE ahead == offset(f.txseq, c.last_acked_seq)
  <2>4. ahead \in Nat /\ TxWin \in Nat
    BY <1>1, <1>5, ChanNumbers, OffsetIs, Numbers
  <2>5. (ahead < TxWin) = ~(ahead >= TxWin)
    BY <2>4
  <2> QED
    BY <2>1, <2>2, <2>3, <2>5 DEF classify_txseq
<1> QED
  BY <1>3, <1>10, <1>11 DEF Welcome

-----------------------------------------------------------------------------
(* What an end was told to have arrived *)

\* The place of an end to which no more than b is acknowledged.
Reckons(q, b) == [q EXCEPT !.acks = @ \cup {b}]

LEMMA ReckonsPlace ==
    ASSUME NEW q \in Places, NEW b \in Nat, NEW p, p = Reckons(q, b)
    PROVE  /\ p.link = q.link /\ p.base = q.base /\ p.newest = q.newest /\ p.units = q.units
           /\ p.caps = q.caps /\ p.acks = q.acks \cup {b} /\ p.top = q.top /\ p.sent = q.sent
           /\ p.from = q.from /\ p.got = q.got
           /\ p \in Places
<1>1. q \in [link : Seq(Frame), base : Nat, newest : Nat, units : SUBSET Nat, caps : SUBSET Nat,
             acks : SUBSET Nat, top : Nat, sent : Nat, from : Nat, got : Nat]
      /\ q.newest \in q.caps /\ q.newest <= q.base + TxWin
  BY DEF Places
<1>2. /\ p.link = q.link /\ p.base = q.base /\ p.newest = q.newest /\ p.units = q.units
      /\ p.caps = q.caps /\ p.acks = q.acks \cup {b} /\ p.top = q.top /\ p.sent = q.sent
      /\ p.from = q.from /\ p.got = q.got
  BY <1>1 DEF Reckons
<1>3. p \in Places
  BY <1>1 DEF Places, Reckons
<1> QED
  BY <1>2, <1>3

LEMMA ReckonsSound ==
    ASSUME NEW q \in Places, NEW b \in Nat, NEW c
    PROVE  Sound(Reckons(q, b), c) <=> Sound(q, c) /\ Forgotten(c) <= b
<1> DEFINE r == Reckons(q, b)
<1>1. /\ r.link = q.link /\ r.base = q.base /\ r.newest = q.newest /\ r.units = q.units
      /\ r.caps = q.caps /\ r.acks = q.acks \cup {b} /\ r.top = q.top /\ r.sent = q.sent
      /\ r.from = q.from /\ r.got = q.got
  BY ReckonsPlace
<1> HIDE DEF r
<1>2. \A top, g, l : Lane(r, top, g, l) <=> Lane(q, top, g, l)
  BY <1>1, SameLane
<1>3. Flow(r, c) <=> Flow(q, c)
  BY <1>1, <1>2 DEF Flow
<1>4. EndExact(r, c) <=> EndExact(q, c) /\ Forgotten(c) <= b
  BY <1>1 DEF EndExact
<1>5. Sound(r, c) <=> Sound(q, c) /\ Forgotten(c) <= b
  BY <1>3, <1>4 DEF Sound, Exact
<1> QED
  BY <1>5 DEF r

LEMMA ReckonsArrives ==
    ASSUME NEW q \in Places, NEW b \in Nat, NEW c, NEW f
    PROVE  Arrives(Reckons(q, b), c, f) <=>
               /\ Arrives(q, c, f)
               /\ f.super # "SREJ" => Forgotten(c) + offset(f.reqseq, c.expected_ack_seq) <= b
<1> DEFINE r == Reckons(q, b)
<1>1. r.caps = q.caps /\ r.acks = q.acks \cup {b}
  BY ReckonsPlace
<1> HIDE DEF r
<1>2. Arrives(r, c, f) <=>
          /\ Arrives(q, c, f)
          /\ f.super # "SREJ" => Forgotten(c) + offset(f.reqseq, c.expected_ack_seq) <= b
  BY <1>1 DEF Arrives
<1> QED
  BY <1>2 DEF r

\* What counts as sent may be set before or after.
LEMMA ReckonsSent ==
    ASSUME NEW q \in Places, NEW b \in Nat, NEW n \in Nat
    PROVE  /\ [Reckons(q, b) EXCEPT !.sent = n] = Reckons([q EXCEPT !.sent = n], b)
           /\ [q EXCEPT !.sent = n] \in Places
  BY DEF Places, Reckons

\* What was told with more frames on the link.
LEMMA ToldLeft ==
    ASSUME NEW v, NEW m, NEW c, NEW a, NEW b, Left(a, b), Told(v, m, c, b)
    PROVE  Told(v, m, c, a)
  BY DEF Told, Left

\* After a handler of c the end has told all that it has got, or what it had told before.
LEMMA TellsOn ==
    ASSUME NEW c, NEW d, NEW l \in Seq(Frame), NEW m, Told(View(d), m, c, l),
           NEW e \in Chan, Tells(Nth(m), e), RxExact(e),
           Lane(View(d), Newest(e), Len(e.got), l \o e.out),
           Forgotten(d) <= Len(e.got), Len(c.got) <= Len(e.got), Len(c.got) \in Nat
    PROVE  \E u \in Nat : Told(View(d), u, e, l \o e.out)
<1> DEFINE v == View(d)
           sent == e.out
<1>1. RxExact(e) /\ Lane(v, Newest(e), Len(e.got), l \o sent)
  OBVIOUS
<1>2. sent \in Seq(Frame) /\ Len(e.got) \in Nat /\ v.base = Forgotten(d)
  <2>1. e.got \in Seq(Nat) /\ sent \in Seq(Frame)
    BY ChanNumbers
  <2> QED
    BY <2>1 DEF View
<1> HIDE DEF v, sent
<1>3. CASE e.last_acked_seq = e.buffer_seq
  <2>1. e.last_acked_seq = Nth(Len(e.got))
    BY <1>1, <1>3 DEF RxExact
  <2>2. \A i \in DOMAIN (l \o sent) : (l \o sent)[i].super # "SREJ"
                                      => v.base + Ahead(v, (l \o sent)[i]) <= Len(e.got)
    BY <1>1 DEF Lane, Fair
  <2>3. Told(v, Len(e.got), e, l \o sent)
    BY <1>2, <2>1, <2>2 DEF Told
  <2> QED
    BY <1>2, <2>3 DEF v, sent
<1>4. CASE e.last_acked_seq = Nth(m) /\ Mute(sent)
  <2>1. /\ m \in Nat /\ v.base <= m /\ m <= Len(c.got)
        /\ \A i \in DOMAIN l : l[i].super # "SREJ" => v.base + Ahead(v, l[i]) <= m
    BY DEF Told, v
  <2>2. m <= Len(e.got)
    BY <1>2, <2>1
  <2>3. \A i \in DOMAIN (l \o sent) : (l \o sent)[i].super # "SREJ"
                                      => v.base + Ahead(v, (l \o sent)[i]) <= m
    <3> SUFFICES ASSUME NEW i \in DOMAIN (l \o sent), (l \o sent)[i].super # "SREJ"
                 PROVE  v.base + Ahead(v, (l \o sent)[i]) <= m
      OBVIOUS
    <3>1. \/ i \in DOMAIN l /\ (l \o sent)[i] = l[i]
          \/ \E j \in DOMAIN sent : (l \o sent)[i] = sent[j]
      <4>1. i \in 1 .. Len(l) + Len(sent) /\ Len(l) \in Nat /\ Len(sent) \in Nat
        BY <1>2
      <4>2. CASE i <= Len(l)
        BY <1>2, <4>1, <4>2
      <4>3. CASE i > Len(l)
        <5>1. i - Len(l) \in DOMAIN sent /\ (l \o sent)[i] = sent[i - Len(l)]
          BY <1>2, <4>1, <4>3
        <5> QED
          BY <5>1
      <4> QED
        BY <4>1, <4>2, <4>3
    <3> QED
      BY <1>4, <2>1, <3>1 DEF Mute
  <2>4. Told(v, m, e, l \o sent)
    BY <1>4, <2>1, <2>2, <2>3 DEF Told
  <2> QED
    BY <2>1, <2>4 DEF v, sent
<1> QED
  BY <1>3, <1>4 DEF Tells, sent

\* What the other end had told holds for what c has forgotten since.
LEMMA ToldStays ==
    ASSUME NEW c, NEW d, NEW k \in Seq(Frame), NEW b, Told(View(c), b, d, k),
           NEW e, Forgotten(c) \in Nat, Forgotten(e) \in Nat, Forgotten(c) <= Forgotten(e),
           Forgotten(e) <= b,
           \A i \in DOMAIN k : Forgotten(e) <= Forgotten(c) + offset(k[i].reqseq, Nth(Forgotten(c)))
    PROVE  Told(View(e), b, d, k)
<1> DEFINE v == View(c)
           w == View(e)
<1>1. v.base = Forgotten(c) /\ w.base = Forgotten(e)
  BY DEF View
<1> HIDE DEF v, w
<1>2. /\ b \in Nat /\ b <= Len(d.got) /\ d.last_acked_seq = Nth(b)
      /\ \A i \in DOMAIN k : k[i].super # "SREJ" => v.base + Ahead(v, k[i]) <= b
  BY DEF Told, v
<1>3. \A i \in DOMAIN k : w.base + Ahead(w, k[i]) = v.base + Ahead(v, k[i])
  <2> SUFFICES ASSUME NEW i \in DOMAIN k
               PROVE  w.base + Ahead(w, k[i]) = v.base + Ahead(v, k[i])
    OBVIOUS
  <2>1. k[i].reqseq \in Number
    <3>1. k[i] \in Frame
      OBVIOUS
    <3> QED
      BY <3>1, FrameFields
  <2> QED
    BY <1>1, <2>1, Rebased DEF Ahead
<1> QED
  BY <1>1, <1>2, <1>3 DEF Told, w

\* What a handler of c has come to, when it has been given n units and the other end has told
\* it to have got b.
Reached(c, d, l, k, n, b, e) ==
    Sound([Place(c, d, l, k) EXCEPT !.sent = n], e) /\ Forgotten(e) <= b

\* A handler of c that leaves it up leaves both ends told as they are to be.
LEMMA OpenSettles ==
    ASSUME NEW c, NEW d, Idle(c), Idle(d), NEW l \in Seq(Frame), NEW k \in Seq(Frame),
           Half(c, d, l), Half(d, c, k), NEW n \in Nat,
           NEW m, Told(View(d), m, c, l), NEW b, Told(View(c), b, d, k),
           NEW e, Reached(c, d, l, k, n, b, e), e.up, Tells(Nth(m), e)
    PROVE  /\ \E u \in Nat : Told(View(d), u, e, l \o e.out)
           /\ Told(View(e), b, d, k)
<1> DEFINE p == [Place(c, d, l, k) EXCEPT !.sent = n]
<1>0. Sound(p, e) /\ Forgotten(e) <= b
  BY DEF Reached
<1>1. /\ c \in Chan /\ d \in Chan /\ TxInv(c) /\ TxInv(d) /\ TxExact(c) /\ TxExact(d)
      /\ e \in Chan /\ EndExact(p, e) /\ TxInv(e) /\ TxExact(e) /\ Flow(p, e)
  BY <1>0 DEF Idle, Good, Half, Sound, Exact, EndExact
<1>2. /\ p.link = l /\ p.base = Forgotten(d) /\ p.newest = Newest(d) /\ p.units = Units(d)
      /\ p.from = Forgotten(c) /\ p.got = Len(c.got)
      /\ p.acks = {Len(d.got)} \cup
                  {Forgotten(c) + offset(k[i].reqseq, Nth(Forgotten(c))) : i \in DOMAIN k}
  BY DEF Place
<1> HIDE DEF p
<1>3. /\ Forgotten(d) <= Len(e.got) /\ Len(c.got) <= Len(e.got) /\ Forgotten(c) <= Forgotten(e)
      /\ \A a \in p.acks : Forgotten(e) <= a
  BY <1>1, <1>2 DEF EndExact
<1>4. Len(c.got) \in Nat /\ Forgotten(c) \in Nat /\ Forgotten(e) \in Nat
  BY <1>1, UnitsAre, HalfNumbers
<1>5. RxExact(e) /\ Lane(View(d), Newest(e), Len(e.got), l \o e.out)
  <2>1. p.base = View(d).base /\ p.newest = View(d).newest /\ p.units = View(d).units
    BY <1>2 DEF View
  <2>2. Lane(p, Newest(e), Len(e.got), l \o e.out)
    BY <1>1, <1>2 DEF Flow
  <2>3. RxExact(e)
    BY <1>1 DEF Flow
  <2> QED
    BY <2>1, <2>2, <2>3, SameLane
<1>6. \E u \in Nat : Told(View(d), u, e, l \o e.out)
  BY <1>1, <1>3, <1>4, <1>5, TellsOn
<1>7. Told(View(e), b, d, k)
  BY <1>0, <1>2, <1>3, <1>4, ToldStays
<1> QED
  BY <1>6, <1>7

\* What an end has told does not depend on what it is about to send.
LEMMA ToldAside ==
    ASSUME NEW e \in Chan, NEW e2, e2 = [e EXCEPT !.out = <<>>]
    PROVE  /\ View(e2) = View(e) /\ e2.up = e.up /\ (Busy(e2) <=> Busy(e))
           /\ e2.max_tx = e.max_tx /\ e2 \in Chan
           /\ \A v, m, l : Told(v, m, e2, l) <=> Told(v, m, e, l)
<1>1. /\ e2.got = e.got /\ e2.last_acked_seq = e.last_acked_seq /\ e2.full = e.full
      /\ e2.local_busy = e.local_busy /\ e2.rx_state = e.rx_state /\ e2.max_tx = e.max_tx
  BY DEF Chan
<1>2. View(e2) = View(e) /\ e2.up = e.up /\ e2 \in Chan
  BY OutAside
<1> DEFINE a == e2
<1>3. /\ a.got = e.got /\ a.last_acked_seq = e.last_acked_seq /\ a.full = e.full
      /\ a.local_busy = e.local_busy /\ a.rx_state = e.rx_state
  BY <1>1
<1> HIDE DEF a
<1>4. (Busy(a) <=> Busy(e)) /\ \A v, m, l : Told(v, m, a, l) <=> Told(v, m, e, l)
  BY <1>3 DEF Busy, Told
<1> QED
  BY <1>1, <1>2, <1>4 DEF a

-----------------------------------------------------------------------------
(* Steps of the two ends *)

Unlimited == \A s \in Side : chan[s].max_tx = 0

\* Both ends have the same limit on tries. If it is none, they are up, and each has told the
\* other no less than that one has taken to have arrived.
OpenInv ==
    /\ \A s \in Side : chan[s].max_tx = chan[Peer(s)].max_tx
    /\ Unlimited =>
           /\ Up
           /\ \A s \in Side :
                  /\ Busy(chan[s])
                  /\ \E m \in Nat : Told(View(chan[Peer(s)]), m, chan[s], link[s])

\* Where the limit of one end is that of both.
LEMMA OneLimit ==
    ASSUME OpenInv, NEW s \in Side
    PROVE  Unlimited <=> chan[s].max_tx = 0
<1>1. Peer(s) \in Side /\ \A q \in Side : q = s \/ q = Peer(s)
  BY TwoSides
<1>2. chan[s].max_tx = chan[Peer(s)].max_tx
  BY DEF OpenInv
<1> QED
  BY <1>1, <1>2 DEF Unlimited

LEMMA OpenIs ==
    ASSUME OpenInv, Unlimited, NEW s \in Side
    PROVE  /\ chan[s].up /\ Busy(chan[s])
           /\ \E m \in Nat : Told(View(chan[Peer(s)]), m, chan[s], link[s])
  BY DEF OpenInv, Up

\* An end that begins a handler.
LEMMA BeginsFirm ==
    ASSUME ErtmInv, OpenInv, NEW s \in Side, NEW c, c = chan[s]
    PROVE  Firm(c.max_tx, c.last_acked_seq, c) /\ Untold(c.last_acked_seq, c)
<1>1. Good(FALSE, c) /\ c.out = <<>>
  BY ErtmInvIs DEF Good
<1>2. Untold(c.last_acked_seq, c)
  BY <1>1 DEF Untold, Mute
<1>3. c.max_tx = 0 => c.up /\ Busy(c)
  BY OneLimit, OpenIs
<1> QED
  BY <1>1, <1>2, <1>3 DEF Firm, Steady, Tells, Untold

\* What holds of both ends before a step.
LEMMA BothEnds ==
    ASSUME ErtmInv, LinkInv, Up, NEW s \in Side
    PROVE  /\ Peer(s) \in Side /\ Peer(s) # s /\ Peer(Peer(s)) = s
           /\ chan \in [Side -> Chan] /\ link \in [Side -> Seq(Frame)]
           /\ Idle(chan[s]) /\ Idle(chan[Peer(s)])
           /\ Half(chan[s], chan[Peer(s)], link[s]) /\ Half(chan[Peer(s)], chan[s], link[Peer(s)])
<1>1. Peer(s) \in Side /\ Peer(s) # s /\ Peer(Peer(s)) = s
  BY TwoSides
<1>2. \A q \in Side : chan[q].out = <<>> /\ Good(FALSE, chan[q])
  BY ErtmInvIs DEF Good
<1>3. \A q \in Side : Half(chan[q], chan[Peer(q)], link[q])
  BY LinkInvIs
<1>4. chan \in [Side -> Chan] /\ link \in [Side -> Seq(Frame)]
  BY ErtmInvIs
<1> QED
  BY <1>1, <1>2, <1>3, <1>4 DEF Idle

\* A handler that commits what is firm, sound and no further than the other end has told.
LEMMA Opened ==
    ASSUME ErtmInv, LinkInv, OpenInv, Up, NEW s \in Side, NEW c, c = chan[s],
           NEW d, d = chan[Peer(s)], NEW l, l = link[s],
           NEW links \in [Side -> Seq(Frame)], links[s] = l,
           NEW k, k = links[Peer(s)], Left(k, link[Peer(s)]), NEW n \in Nat,
           NEW e, Firm(c.max_tx, c.last_acked_seq, e), Commit(s, e, links),
           \A b \in Nat : Told(View(c), b, d, link[Peer(s)]) => Reached(c, d, l, k, n, b, e)
    PROVE  OpenInv'
<1> DEFINE t == Peer(s)
           e2 == [e EXCEPT !.out = <<>>]
           sent == e.out
           m0 == c.last_acked_seq
           x == c.max_tx
<1>1. t \in Side /\ t # s /\ Peer(t) = s /\ \A q \in Side : q = s \/ q = t
  BY TwoSides
<1>2. /\ chan \in [Side -> Chan] /\ link \in [Side -> Seq(Frame)] /\ Idle(c) /\ Idle(d)
      /\ l \in Seq(Frame) /\ k \in Seq(Frame) /\ Half(c, d, l) /\ Half(d, c, link[t])
  BY <1>1, BothEnds
<1>3. Half(d, c, k)
  BY <1>2, LeftHalf
<1>4. /\ e \in Chan /\ e2 \in Chan /\ e2.max_tx = x /\ Steady(x, m0, e)
      /\ View(e2) = View(e) /\ e2.up = e.up /\ (Busy(e2) <=> Busy(e))
      /\ \A v, m, q : Told(v, m, e2, q) <=> Told(v, m, e, q)
  <2>1. e \in Chan /\ e.max_tx = x /\ Steady(x, m0, e)
    BY FirmIs
  <2>2. /\ e2.max_tx = e.max_tx /\ e2 \in Chan
        /\ View(e2) = View(e) /\ e2.up = e.up /\ (Busy(e2) <=> Busy(e))
        /\ \A v, m, q : Told(v, m, e2, q) <=> Told(v, m, e, q)
    <3> DEFINE a == e2
    <3>1. a = [e EXCEPT !.out = <<>>]
      OBVIOUS
    <3> HIDE DEF a
    <3>2. /\ a.max_tx = e.max_tx /\ a \in Chan
          /\ View(a) = View(e) /\ a.up = e.up /\ (Busy(a) <=> Busy(e))
          /\ \A v, m, q : Told(v, m, a, q) <=> Told(v, m, e, q)
      BY <2>1, <3>1, ToldAside
    <3> QED
      BY <3>2 DEF a
  <2> QED
    BY <2>1, <2>2
<1>5. chan' = [chan EXCEPT ![s] = e2] /\ link' = [links EXCEPT ![s] = l \o sent]
  BY DEF Commit
<1> HIDE DEF e2, sent, t, x, m0
<1>6. chan'[s] = e2 /\ chan'[t] = d /\ link'[s] = l \o sent /\ link'[t] = k
  <2>1. chan'[s] = e2 /\ chan'[t] = chan[t]
    BY <1>1, <1>2, <1>4, <1>5
  <2>2. link'[s] = l \o sent /\ link'[t] = links[t]
    BY <1>1, <1>5
  <2> QED
    BY <2>1, <2>2 DEF t
<1>7. d.max_tx = x
  BY <1>1 DEF OpenInv, t, x
<1>8. \A q \in Side : chan'[q].max_tx = chan'[Peer(q)].max_tx
  <2>1. chan'[s].max_tx = chan'[Peer(s)].max_tx
    BY <1>4, <1>6, <1>7 DEF t
  <2>2. chan'[t].max_tx = chan'[Peer(t)].max_tx
    BY <1>1, <1>4, <1>6, <1>7
  <2> QED
    BY <1>1, <2>1, <2>2
<1>9. ASSUME x = 0
      PROVE  /\ e2.up /\ d.up /\ Busy(e2) /\ Busy(d)
             /\ \E u \in Nat : Told(View(d), u, e2, l \o sent)
             /\ \E u \in Nat : Told(View(e2), u, d, k)
  <2>1. Unlimited
    BY <1>9, OneLimit DEF x
  <2>2. PICK m \in Nat : Told(View(d), m, c, l)
    BY <2>1, OpenIs
  <2>3. d.up /\ Busy(d) /\ \E b \in Nat : Told(View(c), b, d, link[t])
    BY <1>1, <2>1, OpenIs DEF t
  <2>4. PICK b \in Nat : Told(View(c), b, d, link[t])
    BY <2>3
  <2>5. Told(View(c), b, d, k)
    BY <2>4, ToldLeft DEF t
  <2>6. Reached(c, d, l, k, n, b, e)
    BY <2>4 DEF t
  <2>7. m0 = Nth(m)
    BY <2>2 DEF Told, m0
  <2>8. e.up /\ Busy(e) /\ Tells(Nth(m), e)
    BY <1>4, <1>9, <2>7 DEF Steady
  <2>9. (\E u \in Nat : Told(View(d), u, e, l \o e.out)) /\ Told(View(e), b, d, k)
    BY <1>2, <1>3, <2>2, <2>5, <2>6, <2>8, OpenSettles
  <2> QED
    BY <1>4, <2>3, <2>8, <2>9 DEF sent
<1>10. Unlimited' => x = 0
  BY <1>1, <1>4, <1>6 DEF Unlimited
<1>11. x = 0 => Up'
  <2>1. x = 0 => \A q \in Side : chan'[q].up
    BY <1>1, <1>6, <1>9
  <2> QED
    BY <2>1 DEF Up
<1>12. x = 0 => \A q \in Side : /\ Busy(chan'[q])
                                /\ \E u \in Nat : Told(View(chan'[Peer(q)]), u, chan'[q], link'[q])
  <2>1. x = 0 => /\ Busy(chan'[s])
                 /\ \E u \in Nat : Told(View(chan'[Peer(s)]), u, chan'[s], link'[s])
    BY <1>6, <1>9 DEF t
  <2>2. x = 0 => /\ Busy(chan'[t])
                 /\ \E u \in Nat : Told(View(chan'[Peer(t)]), u, chan'[t], link'[t])
    BY <1>1, <1>6, <1>9
  <2> QED
    BY <1>1, <2>1, <2>2
<1> QED
  BY <1>8, <1>10, <1>11, <1>12 DEF OpenInv

\* A handler that takes nothing off a link.
LEMMA HandlerOpens ==
    ASSUME ErtmInv, LinkInv, OpenInv, Up, NEW s \in Side, NEW c, c = chan[s],
           NEW n \in Nat, NEW e, Commit(s, e, link), Firm(c.max_tx, c.last_acked_seq, e),
           \A p \in Places : Sound(p, c) => Sound([p EXCEPT !.sent = n], e)
    PROVE  OpenInv'
<1> DEFINE d == chan[Peer(s)]
           l == link[s]
           k == link[Peer(s)]
           place == Place(c, d, l, k)
<1>1. /\ link \in [Side -> Seq(Frame)] /\ l \in Seq(Frame) /\ k \in Seq(Frame)
      /\ Idle(c) /\ Idle(d) /\ Half(c, d, l) /\ Half(d, c, k) /\ Peer(s) \in Side
  BY BothEnds
<1>2. place \in Places /\ Sound(place, c)
  <2> DEFINE r == place
  <2>1. r = Place(c, d, l, k)
    OBVIOUS
  <2> HIDE DEF r, d, l, k
  <2>2. r \in Places /\ Sound(r, c)
    BY <1>1, <2>1, PlaceSound
  <2> QED
    BY <2>2 DEF r
<1> HIDE DEF place
<1>3. ASSUME NEW b \in Nat, Told(View(c), b, d, k)
      PROVE  Sound([place EXCEPT !.sent = n], e) /\ Forgotten(e) <= b
  <2> DEFINE q == [place EXCEPT !.sent = n]
  <2>1. /\ Reckons(place, b) \in Places /\ q \in Places
        /\ [Reckons(place, b) EXCEPT !.sent = n] = Reckons(q, b)
    BY <1>2, ReckonsPlace, ReckonsSent
  <2> HIDE DEF q
  <2>2. Forgotten(c) <= b
    BY <1>3 DEF Told, View
  <2>3. Sound(Reckons(place, b), c)
    BY <1>2, <2>2, ReckonsSound
  <2>4. Sound(Reckons(q, b), e)
    BY <2>1, <2>3
  <2>5. Sound(Reckons(q, b), e) <=> Sound(q, e) /\ Forgotten(e) <= b
    BY <2>1, ReckonsSound
  <2> QED
    BY <2>4, <2>5 DEF q
<1>4. \A b \in Nat : Told(View(c), b, d, k) => Reached(c, d, l, k, n, b, e)
  BY <1>3 DEF place, Reached
<1>5. Left(k, link[Peer(s)])
  BY <1>1, AllLeft
<1> HIDE DEF d, l, k
<1>6. d = chan[Peer(s)] /\ l = link[s] /\ k = link[Peer(s)]
  BY DEF d, l, k
<1> QED
  BY <1>1, <1>4, <1>5, <1>6, Opened

\* A handler that is given nothing to send.
LEMMA KeepsOpen ==
    ASSUME ErtmInv, LinkInv, OpenInv, Up, NEW s \in Side, NEW c, c = chan[s],
           NEW e, Commit(s, e, link), Firm(c.max_tx, c.last_acked_seq, e),
           \A p \in Places : Sound(p, c) => Sound(p, e)
    PROVE  OpenInv'
<1> DEFINE n == c.sent
<1>1. n \in Nat
  <2>1. c \in Chan
    BY ErtmInvIs
  <2> QED
    BY <2>1, ChanNumbers
<1>2. \A p \in Places : Sound(p, c) => Sound([p EXCEPT !.sent = n], e)
  <2> SUFFICES ASSUME NEW p \in Places, Sound(p, c)
               PROVE  Sound([p EXCEPT !.sent = n], e)
    OBVIOUS
  <2>1. p.sent = n
    BY DEF Sound, Exact, EndExact
  <2>2. [p EXCEPT !.sent = n] = p
    BY <2>1 DEF Places
  <2> QED
    BY <2>2
<1> HIDE DEF n
<1> QED
  BY <1>1, <1>2, HandlerOpens

LEMMA SendOpens ==
    ASSUME ErtmInv, LinkInv, OpenInv, NEW s \in Side, Send(s)
    PROVE  OpenInv'
<1> DEFINE c == chan[s]
           e == data_request(c)
           n == c.sent + 1
<1>1. Up /\ Commit(s, e, link)
  BY DEF Send
<1>2. n \in Nat
  <2>1. c \in Chan
    BY ErtmInvIs
  <2> QED
    BY <2>1, ChanNumbers
<1>3. Firm(c.max_tx, c.last_acked_seq, e)
  <2> HIDE DEF c
  <2> QED
    BY BeginsFirm, RequestFirm DEF c
<1>4. \A p \in Places : Sound(p, c) => Sound([p EXCEPT !.sent = n], e)
  <2> HIDE DEF c
  <2> QED
    BY RequestExact
<1> HIDE DEF c, e, n
<1>5. c = chan[s]
  BY DEF c
<1> QED
  BY <1>1, <1>2, <1>3, <1>4, <1>5, HandlerOpens

LEMMA TimeoutOpens ==
    ASSUME ErtmInv, LinkInv, OpenInv, NEW s \in Side, NEW t \in Timer, Timeout(s, t)
    PROVE  OpenInv'
<1> DEFINE c == chan[s]
           b == Taken(c, t)
           e == CASE t = "retrans" -> retrans_timeout(b)
                  [] t = "monitor" -> monitor_timeout(b)
                  [] t = "ack" -> ack_timeout(b)
           x == c.max_tx
           m == c.last_acked_seq
<1>1. Up /\ Commit(s, e, link)
  BY DEF Timeout, Taken
<1>2. Firm(x, m, c)
  BY BeginsFirm
<1>3. c = chan[s]
  OBVIOUS
<1> HIDE DEF c, x, m
<1>4. /\ Firm(x, m, retrans_timeout(Taken(c, "retrans")))
      /\ Firm(x, m, monitor_timeout(Taken(c, "monitor")))
      /\ Firm(x, m, ack_timeout(Taken(c, "ack")))
  BY <1>2, RetransFirm, MonitorFirm, AckFirm
<1>5. \A p \in Places : Sound(p, c) => /\ Sound(p, retrans_timeout(Taken(c, "retrans")))
                                       /\ Sound(p, monitor_timeout(Taken(c, "monitor")))
                                       /\ Sound(p, ack_timeout(Taken(c, "ack")))
  BY RetransExact, MonitorExact, AckExact
<1>6. \/ e = retrans_timeout(Taken(c, "retrans"))
      \/ e = monitor_timeout(Taken(c, "monitor"))
      \/ e = ack_timeout(Taken(c, "ack"))
  BY DEF Timer
<1> HIDE DEF e
<1>7. Firm(x, m, e) /\ \A p \in Places : Sound(p, c) => Sound(p, e)
  BY <1>4, <1>5, <1>6
<1> QED
  BY <1>1, <1>3, <1>7, KeepsOpen DEF x, m

LEMMA ReadOpens ==
    ASSUME ErtmInv, LinkInv, OpenInv, NEW s \in Side, NEW half \in BOOLEAN, Read(s, half)
    PROVE  OpenInv'
<1> DEFINE c == chan[s]
           b == Emptied(c)
           e == IF half THEN busy_clear(b) ELSE b
           x == c.max_tx
           m == c.last_acked_seq
<1>1. Up /\ Commit(s, e, link) /\ c.local_busy
  BY DEF Read, Emptied
<1>2. Firm(x, m, c)
  BY BeginsFirm
<1>3. c = chan[s]
  OBVIOUS
<1> HIDE DEF c, x, m
<1>4. Firm(x, m, b) /\ ~b.full
  BY <1>2, EmptiedFirm
<1>5. \A p \in Places : Sound(p, c) => Sound(p, b)
  BY <1>1, EmptiedExact
<1> HIDE DEF b
<1>6. Firm(x, m, busy_clear(b)) /\ \A p \in Places : Sound(p, c) => Sound(p, busy_clear(b))
  BY <1>4, <1>5, BusyClearedFirm, BusyClearedExact
<1>7. Firm(x, m, e) /\ \A p \in Places : Sound(p, c) => Sound(p, e)
  BY <1>4, <1>5, <1>6
<1> HIDE DEF e
<1> QED
  BY <1>1, <1>3, <1>7, KeepsOpen DEF x, m

LEMMA ExpireOpens ==
    ASSUME ErtmInv, LinkInv, OpenInv, NEW s \in Side, NEW t \in Timer, Expire(s, t)
    PROVE  OpenInv'
<1> DEFINE c == chan[s]
           e == Fired(c, t)
           e2 == [e EXCEPT !.out = <<>>]
           x == c.max_tx
           m == c.last_acked_seq
           calm == FALSE
<1>1. /\ chan \in [Side -> Chan] /\ link \in [Side -> Seq(Frame)] /\ c \in Chan /\ c.out = <<>>
      /\ Good(calm, c) /\ calm \in BOOLEAN
  BY ErtmInvIs DEF Good
<1>2. Up /\ t \in c.armed /\ link' = link
  BY DEF Expire
<1>3. chan' = [chan EXCEPT ![s] = e]
  BY <1>1 DEF Expire, Fired
<1>4. Firm(x, m, c)
  BY BeginsFirm
<1>5. Good(calm, e) /\ e.out = <<>> /\ e \in Chan
  <2> HIDE DEF calm, c
  <2>1. Good(calm, e) /\ e.out = c.out /\ e \in Chan
    BY <1>1, <1>2, FiredGood
  <2> QED
    BY <1>1, <2>1
<1>6. c = chan[s]
  OBVIOUS
<1> HIDE DEF c, x, m
<1>7. Firm(x, m, e)
  <2>1. Even(c, e)
    BY <1>4, TimersFirm
  <2> HIDE DEF e
  <2> QED
    BY <1>4, <1>5, <2>1, EvenFirm DEF calm
<1>8. \A p \in Places : Sound(p, c) => Sound(p, e)
  <2>1. \A p \in Places : Sound(p, c) => Exact(p, Fired(c, t))
    BY TimersAside
  <2> QED
    BY <1>5, <2>1 DEF Sound, calm
<1> HIDE DEF e
<1>9. e2 = e
  BY <1>5 DEF Chan
<1>10. Commit(s, e, link)
  <2>1. chan' = [chan EXCEPT ![s] = e2]
    BY <1>3, <1>9
  <2>2. link[s] \o <<>> = link[s] /\ link' = [link EXCEPT ![s] = link[s]]
    BY <1>1, <1>2
  <2>3. link' = [link EXCEPT ![s] = link[s] \o e.out]
    BY <1>5, <2>2
  <2> QED
    BY <2>1, <2>3 DEF Commit
<1> QED
  BY <1>2, <1>6, <1>7, <1>8, <1>10, KeepsOpen DEF x, m

\* What the frame that is first on the link to c leads to.
LEMMA FrameReaches ==
    ASSUME 2 * TxWin <= Modulus, NEW c, NEW d, Idle(c), Idle(d), c.up, NEW l \in Seq(Frame),
           NEW h \in Seq(Frame), h # <<>>, Half(c, d, l), Half(d, c, h),
           NEW b \in Nat, Told(View(c), b, d, h), NEW k, k = Tail(h), NEW f, f = Head(h),
           NEW fill \in Nat, NEW e, e = data_rcv(c, f, fill), NEW n, n = c.sent
    PROVE  Reached(c, d, l, k, n, b, e)
<1> DEFINE place == Place(c, d, l, k)
           p == Reckons(place, b)
<1>1. k \in Seq(Frame) /\ Left(k, h) /\ 1 \in DOMAIN h /\ f = h[1]
  BY RestLeft
<1>2. Half(d, c, k)
  BY <1>1, LeftHalf
<1>3. place \in Places /\ Sound(place, c)
  <2> DEFINE r == place
  <2>1. r = Place(c, d, l, k)
    OBVIOUS
  <2> HIDE DEF r
  <2>2. r \in Places /\ Sound(r, c)
    BY <1>1, <1>2, <2>1, PlaceSound
  <2> QED
    BY <2>2 DEF r
<1>4. f \in Frame /\ Arrives(place, c, f)
  <2> DEFINE r == place
  <2>1. r = Place(c, d, l, Tail(h))
    OBVIOUS
  <2> HIDE DEF r
  <2>2. f \in Frame /\ Arrives(r, c, f)
    BY <2>1, HeadArrives
  <2> QED
    BY <2>2 DEF r
<1>5. [place EXCEPT !.sent = n] = place
  BY SameSent
<1> HIDE DEF place
<1>6. p \in Places
  BY <1>3, ReckonsPlace
<1>7. Forgotten(c) <= b
  BY DEF Told, View
<1>8. Sound(p, c)
  BY <1>3, <1>7, ReckonsSound
<1>9. Arrives(p, c, f)
  <2>1. c.expected_ack_seq = Nth(Forgotten(c))
    BY DEF Half, TxExact
  <2>2. f.super # "SREJ" => Forgotten(c) + offset(f.reqseq, Nth(Forgotten(c))) <= b
    BY <1>1 DEF Told, View, Ahead
  <2>3. f.super # "SREJ" => Forgotten(c) + offset(f.reqseq, c.expected_ack_seq) <= b
    BY <2>1, <2>2
  <2> QED
    BY <1>3, <1>4, <2>3, ReckonsArrives
<1> HIDE DEF p
<1>10. Sound(p, e)
  BY <1>4, <1>6, <1>8, <1>9, FrameExact
<1>11. Sound(place, e) /\ Forgotten(e) <= b
  BY <1>3, <1>10, ReckonsSound DEF p
<1> QED
  BY <1>5, <1>11 DEF Reached, place

LEMMA ReceiveOpens ==
    ASSUME 2 * TxWin <= Modulus, ErtmInv, LinkInv, OpenInv, NEW s \in Side, NEW fill \in Nat,
           Receive(s, fill)
    PROVE  OpenInv'
<1> DEFINE t == Peer(s)
           c == chan[s]
           d == chan[t]
           l == link[s]
           h == link[t]
           k == Tail(h)
           f == Head(h)
           links == [link EXCEPT ![t] = k]
           e == data_rcv(c, f, fill)
           n == c.sent
           x == c.max_tx
           m == c.last_acked_seq
<1>1. Up /\ h # <<>> /\ Commit(s, e, links)
  BY DEF Receive
<1>2. /\ t \in Side /\ t # s /\ chan \in [Side -> Chan] /\ link \in [Side -> Seq(Frame)]
      /\ Idle(c) /\ Idle(d) /\ l \in Seq(Frame) /\ h \in Seq(Frame)
      /\ Half(c, d, l) /\ Half(d, c, h)
  BY <1>1, BothEnds
<1>3. c.up /\ n \in Nat
  BY <1>1, <1>2, ChanNumbers DEF Up
<1>4. k \in Seq(Frame) /\ Left(k, h)
  BY <1>1, <1>2, RestLeft
<1>5. links \in [Side -> Seq(Frame)] /\ links[s] = l /\ links[t] = k
  BY <1>2, <1>4
<1>6. f \in Frame
  <2> HIDE DEF h
  <2> QED
    BY <1>1, <1>2, RestLeft
<1>7. Firm(x, m, c) /\ Untold(m, c)
  BY BeginsFirm
<1>8. x = 0 => \E u \in Nat : Told(View(d), u, c, l)
  BY OneLimit, OpenIs
<1>9. c = chan[s] /\ d = chan[t] /\ l = link[s] /\ h = link[t] /\ k = Tail(h) /\ f = Head(h)
      /\ e = data_rcv(c, f, fill) /\ n = c.sent
  OBVIOUS
<1> HIDE DEF c, d, l, h, k, f, e, n, x, m, links
<1>10. x = 0 => Welcome(c, f)
  BY <1>1, <1>2, <1>3, <1>8, <1>9, IsWelcome
<1>11. Firm(x, m, e)
  BY <1>6, <1>7, <1>9, <1>10, FrameFirm
<1>12. \A b \in Nat : Told(View(c), b, d, h) => Reached(c, d, l, k, n, b, e)
  BY <1>1, <1>2, <1>3, <1>9, FrameReaches
<1> QED
  BY <1>1, <1>3, <1>4, <1>5, <1>9, <1>11, <1>12, Opened DEF x, m

LEMMA LoseOpens ==
    ASSUME ErtmInv, OpenInv, NEW s \in Side, Lose(s)
    PROVE  OpenInv'
<1>1. PICK i \in DOMAIN link[s] : link' = [link EXCEPT ![s] = RemoveAt(@, i)]
  BY DEF Lose
<1>2. link \in [Side -> Seq(Frame)] /\ chan' = chan
  BY ErtmInvIs DEF Lose
<1> DEFINE l == RemoveAt(link[s], i)
<1>3. Left(l, link[s])
  BY <1>2, LossLeft
<1>4. link' = [link EXCEPT ![s] = l]
  BY <1>1
<1> HIDE DEF l
<1>5. link'[s] = l /\ \A q \in Side : q # s => link'[q] = link[q]
  BY <1>2, <1>4
<1>6. ASSUME NEW q \in Side, NEW v, NEW m, NEW c, Told(v, m, c, link[q])
      PROVE  Told(v, m, c, link'[q])
  <2>1. CASE q = s
    BY <1>3, <1>5, <1>6, <2>1, ToldLeft
  <2>2. CASE q # s
    BY <1>5, <1>6, <2>2
  <2> QED
    BY <2>1, <2>2
<1>7. (Unlimited' <=> Unlimited) /\ (Up' <=> Up)
  BY <1>2 DEF Unlimited, Up
<1>8. ASSUME Unlimited, NEW q \in Side
      PROVE  Busy(chan[q]) /\ \E m \in Nat : Told(View(chan[Peer(q)]), m, chan[q], link'[q])
  BY <1>6, <1>8, OpenIs
<1> QED
  BY <1>2, <1>7, <1>8 DEF OpenInv

LEMMA OpenStarts == ErtmInit => OpenInv
<1> SUFFICES ASSUME ErtmInit
             PROVE  OpenInv
  OBVIOUS
<1>1. PICK max_tx \in MaxTx, sdus \in Sdus : chan = [s \in Side |-> NewChan(max_tx, sdus[s])]
  BY DEF ErtmInit
<1>2. link = [s \in Side |-> <<>>]
  BY DEF ErtmInit
<1>3. ASSUME NEW s \in Side
      PROVE  LET c == chan[s]
             IN  /\ c.up /\ ~c.full /\ ~c.local_busy /\ c.last_acked_seq = First /\ c.got = <<>>
                 /\ c.sent = 0 /\ c.tx_q = <<>> /\ c.max_tx = max_tx
  BY <1>1, <1>3 DEF NewChan
<1>4. ASSUME NEW s \in Side
      PROVE  Busy(chan[s]) /\ Told(View(chan[Peer(s)]), 0, chan[s], link[s])
  <2> DEFINE v == View(chan[Peer(s)])
  <2>1. Peer(s) \in Side /\ Half(chan[Peer(s)], chan[s], link[Peer(s)])
    <3>1. Peer(s) \in Side /\ Peer(Peer(s)) = s
      BY TwoSides
    <3>2. Up
      BY <1>3 DEF Up
    <3> QED
      BY <3>1, <3>2, LinkStarts, LinkInvIs
  <2>2. Len(chan[s].got) = 0 /\ DOMAIN link[s] = {}
    BY <1>2, <1>3
  <2>3. v.base = 0
    <3> DEFINE d == chan[Peer(s)]
               all == d.sent
               queued == Len(d.tx_q)
    <3>1. all = 0 /\ queued = 0
      BY <1>3, <2>1
    <3>2. v.base = all - queued
      BY Zenon DEF View, Forgotten
    <3> HIDE DEF all, queued, v
    <3> QED
      BY <3>1, <3>2
  <2>4. chan[s].last_acked_seq = Nth(0)
    BY <1>3, FirstIs
  <2> HIDE DEF v
  <2>5. Told(v, 0, chan[s], link[s])
    BY <2>2, <2>3, <2>4 DEF Told
  <2> QED
    BY <1>3, <2>5 DEF v, Busy
<1>5. Up
  BY <1>3 DEF Up
<1>6. \A s \in Side : chan[s].max_tx = chan[Peer(s)].max_tx
  BY <1>3, TwoSides
<1> QED
  BY <1>4, <1>5, <1>6 DEF OpenInv

LEMMA StepsOpen ==
    ASSUME 2 * TxWin <= Modulus, ErtmInv, LinkInv, OpenInv, [ErtmNext]_ertmVars
    PROVE  OpenInv'
<1>1. CASE UNCHANGED ertmVars
  BY <1>1 DEF ertmVars, OpenInv, Unlimited, Up
<1>2. CASE ErtmNext
  <2> PICK s \in Side :
          \/ Send(s)
          \/ \E fill \in 0 .. TxWin : Receive(s, fill)
          \/ Lose(s)
          \/ \E t \in Timer : Expire(s, t) \/ Timeout(s, t)
          \/ \E half \in BOOLEAN : Read(s, half)
    BY <1>2 DEF ErtmNext
  <2>1. CASE Send(s)
    BY <2>1, SendOpens
  <2>2. ASSUME NEW fill \in 0 .. TxWin, Receive(s, fill) PROVE OpenInv'
    <3>1. fill \in Nat
      BY Numbers
    <3> QED
      BY <2>2, <3>1, ReceiveOpens
  <2>3. CASE Lose(s)
    BY <2>3, LoseOpens
  <2>4. ASSUME NEW t \in Timer, Expire(s, t) PROVE OpenInv'
    BY <2>4, ExpireOpens
  <2>5. ASSUME NEW t \in Timer, Timeout(s, t) PROVE OpenInv'
    BY <2>5, TimeoutOpens
  <2>6. ASSUME NEW half \in BOOLEAN, Read(s, half) PROVE OpenInv'
    BY <2>6, ReadOpens
  <2> QED
    BY <2>1, <2>2, <2>3, <2>4, <2>5, <2>6
<1> QED
  BY <1>1, <1>2

-----------------------------------------------------------------------------
(* The theorem *)

\* With a window of at most half of the sequence numbers, and no limit on tries, no frame
\* that l2cap_rx is given is an error to it: whatever is lost, repeated or late, neither end
\* sends the disconnect request that an invalid req_seq or tx_seq calls for.
THEOREM NothingEverLooksWrong ==
    ASSUME 2 * TxWin <= Modulus PROVE ErtmSpec => []NothingLooksWrong
<1>1. ErtmInit => OpenInv
  BY OpenStarts
<1>2. ErtmInv /\ LinkInv /\ OpenInv /\ [ErtmNext]_ertmVars => OpenInv'
  BY StepsOpen
<1>3. OpenInv => NothingLooksWrong
  BY DEF OpenInv, NothingLooksWrong, Unlimited
<1> QED
  BY <1>1, <1>2, <1>3, ErtmInvariant, LinkInvariant, PTL DEF ErtmSpec

=============================================================================
