-------------------------------- MODULE Ertm --------------------------------
(***************************************************************************)
(* Enhanced retransmission mode of net/bluetooth/l2cap_core.c (in           *)
(* kernel/catchup-resolutions): two l2cap_chan's that number, acknowledge,  *)
(* selectively reject and retransmit frames over links that lose them, with *)
(* three timers each and a receiver whose socket (l2cap_sock.c) may fill    *)
(* up. A handler runs under the channel's lock and is one step: operators   *)
(* take a channel c to the channel that the function of that name leaves,   *)
(* with the frames it sends in c.out.                                       *)
(*                                                                         *)
(* A service data unit is one frame. Neither side sends REJ frames, so      *)
(* CONN_REJ_ACT is never set; channel moves (RX WAIT_P, WAIT_F) are left    *)
(* out.                                                                     *)
(***************************************************************************)
EXTENDS Integers, FiniteSets, SequencesExt, FiniteSetsExt

CONSTANTS
    Side,           \* the two ends
    Modulus,        \* sequence numbers, 64 in the code (tx_win_max + 1)
    TxWin,          \* tx_win, remote_tx_win and ack_win, which the ends agree on
    MaxTx,          \* the values that max_tx may be configured to; 0: no limit
    Sdus,           \* bounds: how many service data units each end sends
    First,          \* frames that each end has exchanged, modulo Modulus, at the start
    MaxLost,        \* bound: frames that the links lose
    MaxFull,        \* bound: times that a receive buffer fills up
    MaxEarly        \* bound: timers that expire while frames are on their way

ASSUME TwoEnds == IsFiniteSet(Side) /\ Cardinality(Side) = 2
\* The field of a sequence number has six bits.
ASSUME WindowFits == Modulus \in {2, 4, 8, 16, 32, 64} /\ TxWin \in 1 .. Modulus - 1
ASSUME BoundsAreNumbers ==
    /\ MaxTx \subseteq Nat /\ Sdus \subseteq [Side -> Nat] /\ First \in 0 .. Modulus - 1
    /\ MaxLost \in Nat /\ MaxFull \in Nat /\ MaxEarly \in Nat

VARIABLES
    chan,           \* struct l2cap_chan of each end
    link,           \* frames sent by each end and not yet received
    lost,           \* frames lost so far
    fills,          \* times that a receive buffer has filled up so far
    early           \* timers that expired while frames were on their way so far

ertmVars == <<chan, link, lost, fills, early>>

Peer(s) == CHOOSE p \in Side : p # s

\* Mutant: numbers do not wrap around.
NextNoWrap(seq) == seq + 1

offset(seq1, seq2) == (seq1 - seq2) % Modulus
next(seq) == (seq + 1) % Modulus

\* l2cap_ertm_init. head is the number of frames in tx_q before tx_send_head; armed and
\* due are the timers that are pending and those whose work waits for the lock. full is
\* rx_busy_skb of the socket, got what its receive queue was given.
NewChan(max_tx, sdus) ==
    [up |-> TRUE, max_tx |-> max_tx, out |-> <<>>,
     tx_q |-> <<>>, head |-> 0, next_tx_seq |-> First, expected_ack_seq |-> First, unacked |-> 0,
     tx_state |-> "XMIT", retry_count |-> 0, send_fbit |-> FALSE, remote_busy |-> FALSE,
     srej_act |-> FALSE, srej_save |-> 0,
     rx_state |-> "RECV", expected_tx_seq |-> First, buffer_seq |-> First,
     last_acked_seq |-> First,
     srej_q |-> {}, srej_list |-> <<>>, local_busy |-> FALSE, rnr_sent |-> FALSE,
     full |-> FALSE, got |-> <<>>, sent |-> 0, sdus |-> sdus, armed |-> {}, due |-> {}]

ErtmInit ==
    /\ \E max_tx \in MaxTx, sdus \in Sdus : chan = [s \in Side |-> NewChan(max_tx, sdus[s])]
    /\ link = [s \in Side |-> <<>>]
    /\ lost = 0 /\ fills = 0 /\ early = 0

IFrame(txseq, sdu, reqseq, final) ==
    [super |-> "I", txseq |-> txseq, sdu |-> sdu, reqseq |-> reqseq, poll |-> FALSE,
     final |-> final]
SFrame(super, reqseq, poll, final) ==
    [super |-> super, txseq |-> 0, sdu |-> 0, reqseq |-> reqseq, poll |-> poll,
     final |-> final]

\* What c has become when Do was done to it for each number up to n in turn.
InTurn(c, n, Do(_, _)) ==
    LET done[j \in 0 .. n] == IF j = 0 THEN c ELSE Do(done[j - 1], j) IN done[n]

\* Tries are counted up to max_tx, and what is beyond is not told apart.
Count(c, n) == IF n <= c.max_tx THEN n + 1 ELSE n

-----------------------------------------------------------------------------
(* Timers, sending *)

set_retrans_timer(c) == IF "monitor" \in c.armed THEN c ELSE [c EXCEPT !.armed = @ \cup {"retrans"}]
set_monitor_timer(c) == [c EXCEPT !.armed = (@ \ {"retrans"}) \cup {"monitor"}]
clear_timer(c, t)    == [c EXCEPT !.armed = @ \ {t}]

send_disconn_req(c) == [c EXCEPT !.up = FALSE, !.armed = {}]

\* The F-bit that is owed is forgotten even if the frame that is sent polls.
send_sframe(c, super, poll, final, reqseq) ==
    [c EXCEPT !.out = Append(@, SFrame(super, reqseq, poll, final \/ (c.send_fbit /\ ~poll))),
              !.send_fbit = FALSE,
              !.rnr_sent = IF super = "SREJ" THEN @ ELSE super = "RNR",
              !.last_acked_seq = IF super = "SREJ" THEN @ ELSE reqseq,
              !.armed = IF super = "SREJ" THEN @ ELSE @ \ {"ack"}]

send_rr_or_rnr(c, poll) ==
    send_sframe(c, IF c.local_busy THEN "RNR" ELSE "RR", poll, FALSE, c.buffer_seq)

\* Mutant: nothing repeats the poll.
PollOnce(c) == [clear_timer(c, "retrans") EXCEPT !.retry_count = 1, !.tx_state = "WAIT_F"]

\* The poll that awaits an F-bit.
PollAndWait(c) ==
    [set_monitor_timer(c) EXCEPT !.retry_count = 1, !.tx_state = "WAIT_F"]

ertm_send(c) ==
    LET room == TxWin - c.unacked
        k == IF ~c.up \/ c.remote_busy \/ c.tx_state # "XMIT" THEN 0
             ELSE Min({Len(c.tx_q) - c.head, room})
        seq(j) == (c.next_tx_seq + j - 1) % Modulus
        frames == [j \in 1 .. k |-> IFrame(seq(j), c.tx_q[c.head + j].sdu, c.buffer_seq,
                                           c.send_fbit /\ j = 1)]
    IN  IF k <= 0 THEN c
        ELSE set_retrans_timer(
             [c EXCEPT !.out = @ \o frames,
                       !.tx_q = [i \in DOMAIN @ |->
                                   IF i - c.head \in 1 .. k
                                   THEN [@[i] EXCEPT !.txseq = seq(i - c.head), !.retries = 1]
                                   ELSE @[i]],
                       !.head = @ + k, !.unacked = @ + k, !.next_tx_seq = (@ + k) % Modulus,
                       !.send_fbit = FALSE, !.last_acked_seq = c.buffer_seq])

\* l2cap_ertm_seq_in_queue: the first frame of the queue with that number.
Find(q, txseq) == SelectInSeq(q, LAMBDA f : f.txseq = txseq)

\* One round of l2cap_ertm_resend, which stops at the retry limit.
ResendOne(c, seq) ==
    LET i == Find(c.tx_q, seq)
        limit == c.max_tx # 0 /\ c.tx_q[i].retries + 1 > c.max_tx
    IN  IF ~c.up \/ i = 0 THEN c
        ELSE IF limit THEN send_disconn_req(c)
        ELSE [c EXCEPT !.out = Append(@, IFrame(seq, c.tx_q[i].sdu, c.buffer_seq, c.send_fbit)),
                       !.tx_q[i].retries = Count(c, @),
                       !.send_fbit = FALSE, !.last_acked_seq = c.buffer_seq]

\* retrans_list is empty between two handlers: seqs is what is appended to it.
ertm_resend(c, seqs) ==
    IF c.remote_busy THEN c
    ELSE InTurn(c, Len(seqs), LAMBDA d, j : ResendOne(d, seqs[j]))

retransmit(c, reqseq) == ertm_resend(c, <<reqseq>>)

\* From the frame numbered reqseq to the last one sent.
retransmit_all(c, reqseq) ==
    LET i == Find(SubSeq(c.tx_q, 1, c.head), reqseq)
    IN  IF c.unacked = 0 \/ i = 0 THEN c
        ELSE ertm_resend(c, [j \in 1 .. c.head - i + 1 |-> c.tx_q[i + j - 1].txseq])

send_ack(c) ==
    IF c.local_busy /\ c.rx_state = "RECV"
    THEN send_sframe(c, "RNR", FALSE, FALSE, c.buffer_seq)
    ELSE LET c1 == ertm_send(c)
             frames_to_ack ==
                 IF ~c.remote_busy /\ c1.buffer_seq = c1.last_acked_seq THEN 0
                 ELSE offset(c.buffer_seq, c.last_acked_seq)
         IN  IF frames_to_ack >= (TxWin * 3) \div 4
             THEN send_sframe(c1, "RR", FALSE, FALSE, c1.buffer_seq)
             ELSE IF frames_to_ack > 0 THEN [c1 EXCEPT !.armed = @ \cup {"ack"}] ELSE c1

\* reqseq acknowledges what is before it.
process_reqseq(c, reqseq) ==
    LET k == offset(reqseq, c.expected_ack_seq)
        c1 == [c EXCEPT !.tx_q = SubSeq(@, k + 1, Len(@)), !.head = @ - k, !.unacked = @ - k,
                        !.expected_ack_seq = reqseq]
    IN  IF c.unacked = 0 \/ k = 0 THEN c
        ELSE IF c1.unacked = 0 THEN clear_timer(c1, "retrans") ELSE c1

\* l2cap_tx with L2CAP_EV_RECV_FBIT and L2CAP_EV_RECV_REQSEQ_AND_FBIT.
pass_to_tx_fbit(c, final) ==
    LET c1 == clear_timer(c, "monitor")
    IN  IF c.tx_state = "WAIT_F" /\ final
        THEN [(IF c.unacked > 0 THEN set_retrans_timer(c1) ELSE c1)
                 EXCEPT !.retry_count = 0, !.tx_state = "XMIT"]
        ELSE c
pass_to_tx(c, f) == pass_to_tx_fbit(process_reqseq(c, f.reqseq), f.final)

-----------------------------------------------------------------------------
(* Selective rejects, the receiver's socket *)

\* Slots of a sequence list: a power of two of them, at least TxWin.
Slots == Min({n \in {1, 2, 4, 8, 16, 32, 64} : n >= TxWin})
Listed(list, seq) == \E i \in DOMAIN list : list[i] % Slots = seq % Slots
AppendSeq(list, seq) == IF Listed(list, seq) THEN list ELSE Append(list, seq)

\* The numbers that are missing before txseq, each of which is rejected.
send_srej(c, txseq) ==
    LET Reject(d, j) ==
            LET seq == (c.expected_tx_seq + j - 1) % Modulus
            IN  IF \E f \in c.srej_q : f.txseq = seq THEN d
                ELSE [send_sframe(d, "SREJ", FALSE, FALSE, seq)
                         EXCEPT !.srej_list = AppendSeq(@, seq)]
    IN  [InTurn(c, offset(txseq, c.expected_tx_seq), Reject)
            EXCEPT !.expected_tx_seq = next(txseq)]

\* The last number rejected is rejected again, or nothing is sent.
send_srej_tail(c) ==
    IF c.srej_list = <<>> THEN c ELSE send_sframe(c, "SREJ", FALSE, FALSE, Last(c.srej_list))

\* What was rejected before txseq is rejected again and moves to the end of the list.
send_srej_list(c, txseq) ==
    LET i == SelectInSeq(c.srej_list, LAMBDA seq : seq = txseq)
        k == IF i = 0 THEN Len(c.srej_list) ELSE i - 1
        Reject(d, j) == send_sframe(d, "SREJ", FALSE, FALSE, c.srej_list[j])
    IN  [InTurn(c, k, Reject)
            EXCEPT !.srej_list = SubSeq(@, k + 2, Len(@)) \o SubSeq(@, 1, k)]

\* Mutant: what is stored behind the gap survives, and the number to expect with it.
AbortKeepsStored(c) == [c EXCEPT !.srej_list = <<>>, !.rx_state = "RECV"]

abort_rx_srej_sent(c) ==
    [c EXCEPT !.expected_tx_seq = c.buffer_seq, !.srej_list = <<>>, !.srej_q = {},
              !.rx_state = "RECV"]

\* l2cap_chan_busy and L2CAP_EV_LOCAL_BUSY_DETECTED, in either state.
busy_detected(c) ==
    LET c1 == [c EXCEPT !.local_busy = TRUE]
    IN  send_ack(IF c.rx_state = "SREJ_SENT" THEN abort_rx_srej_sent(c1) ELSE c1)

\* L2CAP_EV_LOCAL_BUSY_CLEAR, in either state.
busy_clear(c) ==
    LET c1 == [c EXCEPT !.local_busy = FALSE]
    IN  IF c.rnr_sent
        THEN PollAndWait(send_sframe(c1, "RR", TRUE, FALSE, c.buffer_seq))
        ELSE c1

\* Mutant: the unit that does not fit is dropped.
RecvDropsUnfit(c, sdu, filled) ==
    IF filled THEN busy_detected([c EXCEPT !.full = TRUE]) ELSE [c EXCEPT !.got = Append(@, sdu)]

\* l2cap_reassemble_sdu and l2cap_sock_recv_cb; filled says that the unit does not fit
\* into the receive buffer. A unit more than that is an error.
recv(c, sdu, filled) ==
    IF c.full THEN send_disconn_req(c)
    ELSE LET c1 == [c EXCEPT !.got = Append(@, sdu)]
         IN  IF filled THEN busy_detected([c1 EXCEPT !.full = TRUE]) ELSE c1

\* Frames are passed on until a gap or until the buffer is full, with the fill'th.
rx_queued_iframes(c, fill) ==
    LET Stored(j) == {f \in c.srej_q : f.txseq = (c.buffer_seq + j - 1) % Modulus}
        run == Min({j \in 1 .. Modulus : Stored(j) = {}}) - 1
        Pass(d, j) ==
            IF d.local_busy \/ ~d.up THEN d
            ELSE LET f == CHOOSE f \in Stored(j) : TRUE
                 IN  recv([d EXCEPT !.srej_q = @ \ {f}, !.buffer_seq = next(@)], f.sdu, j = fill)
        c1 == InTurn(c, run, Pass)
    IN  IF c1.srej_q = {} THEN send_ack([c1 EXCEPT !.rx_state = "RECV"]) ELSE c1

\* The other end is not busy any more.
RemoteReady(c) ==
    LET c1 == [c EXCEPT !.remote_busy = FALSE]
    IN  IF c.remote_busy /\ c.unacked > 0 THEN set_retrans_timer(c1) ELSE c1

send_i_or_rr_or_rnr(c) ==
    LET c1 == [c EXCEPT !.send_fbit = TRUE]
        c2 == IF c.local_busy THEN send_sframe(c1, "RNR", FALSE, TRUE, c.buffer_seq) ELSE c1
        c3 == ertm_send(RemoteReady(c2))
    IN  IF ~c.local_busy /\ c3.send_fbit
        THEN send_sframe(c3, "RR", FALSE, TRUE, c.buffer_seq)
        ELSE c3

-----------------------------------------------------------------------------
(* Receiving *)

\* While an F-bit is awaited: a SREJ that was obeyed may come again with the F-bit.
RememberSrej(c, f) ==
    IF c.tx_state = "WAIT_F" THEN [c EXCEPT !.srej_act = TRUE, !.srej_save = f.reqseq] ELSE c

handle_srej(c, f) ==
    LET i == Find(c.tx_q, f.reqseq)
        c1 == [c EXCEPT !.remote_busy = FALSE]
        c2 == pass_to_tx_fbit(c1, f.final)
    IN  IF f.reqseq = c.next_tx_seq THEN send_disconn_req(c)
        ELSE IF i = 0 THEN c
        ELSE IF c.max_tx # 0 /\ c.tx_q[i].retries >= c.max_tx THEN send_disconn_req(c)
        ELSE IF f.poll
        THEN RememberSrej(ertm_send(retransmit([pass_to_tx(c1, f) EXCEPT !.send_fbit = TRUE],
                                               f.reqseq)), f)
        ELSE IF ~f.final THEN RememberSrej(retransmit(c2, f.reqseq), f)
        ELSE IF c2.srej_act /\ c2.srej_save = f.reqseq THEN [c2 EXCEPT !.srej_act = FALSE]
        ELSE retransmit(c2, f.reqseq)

\* Mutant: what lies outside of the window is always an error.
OutsideIsWrong == "INVALID"

\* A double poll repeats frames that are outside of the window.
Outside == IF TxWin <= Modulus \div 2 THEN "INVALID_IGNORE" ELSE "INVALID"

\* What a frame numbered txseq is to the receiver.
classify_txseq(c, txseq) ==
    LET ahead == offset(txseq, c.last_acked_seq)
        srej_sent == c.rx_state = "SREJ_SENT"
    IN  IF srej_sent /\ ahead >= TxWin THEN Outside
        ELSE IF srej_sent /\ c.srej_list # <<>> /\ Head(c.srej_list) = txseq
        THEN "EXPECTED_SREJ"
        ELSE IF srej_sent /\ \E g \in c.srej_q : g.txseq = txseq THEN "DUPLICATE_SREJ"
        ELSE IF srej_sent /\ Listed(c.srej_list, txseq) THEN "UNEXPECTED_SREJ"
        ELSE IF txseq = c.expected_tx_seq THEN IF ahead >= TxWin THEN "INVALID" ELSE "EXPECTED"
        ELSE IF ahead < offset(c.expected_tx_seq, c.last_acked_seq) THEN "DUPLICATE"
        ELSE IF ahead >= TxWin THEN Outside ELSE "UNEXPECTED"

Store(c, f) == [c EXCEPT !.srej_q = @ \cup {[txseq |-> f.txseq, sdu |-> f.sdu]}]

\* Mutant: an answer to a poll does not make the end repeat anything.
FinalSendsNew(c, f) == ertm_send(c)

\* A frame with the F-bit: what the other end has not acknowledged is sent again.
Final(c, f) == ertm_send(retransmit_all(c, f.reqseq))

RecvIframe(c, f, fill) ==
    LET class == classify_txseq(c, f.txseq)
        c1 == pass_to_tx(c, f)
        c2 == recv([c1 EXCEPT !.expected_tx_seq = next(f.txseq), !.buffer_seq = next(f.txseq)],
                   f.sdu, fill = 1)
        c3 == IF f.final THEN Final(c2, f) ELSE c2
    IN  CASE class = "EXPECTED" ->
               IF c.local_busy THEN c1
               ELSE IF ~c2.up THEN c2
               ELSE IF c3.local_busy THEN c3 ELSE send_ack(c3)
          [] class = "UNEXPECTED" ->
               IF c.local_busy THEN c1
               ELSE [send_srej([Store(c1, f) EXCEPT !.srej_act = FALSE, !.srej_list = <<>>],
                               f.txseq) EXCEPT !.rx_state = "SREJ_SENT"]
          [] class = "DUPLICATE" -> c1
          [] class = "INVALID_IGNORE" -> c
          [] class = "INVALID" -> send_disconn_req(c)

RecvIframeSrejSent(c, f, fill) ==
    LET class == classify_txseq(c, f.txseq)
        c1 == Store(pass_to_tx(c, f), f)
    IN  CASE class = "EXPECTED" -> [c1 EXCEPT !.expected_tx_seq = next(f.txseq)]
          [] class = "EXPECTED_SREJ" ->
               rx_queued_iframes([c1 EXCEPT !.srej_list = Tail(@)], fill)
          [] class = "UNEXPECTED" -> send_srej(c1, f.txseq)
          [] class = "UNEXPECTED_SREJ" -> send_srej_list(c1, f.txseq)
          [] class = "DUPLICATE_SREJ" -> pass_to_tx(c, f)
          [] class \in {"DUPLICATE", "INVALID_IGNORE"} -> c
          [] class = "INVALID" -> send_disconn_req(c)

RecvRR(c, f) ==
    LET c1 == pass_to_tx(c, f)
        sent == c.rx_state = "SREJ_SENT"
    IN  IF f.final THEN Final([c1 EXCEPT !.remote_busy = FALSE], f)
        ELSE IF f.poll
        THEN IF sent THEN send_srej_tail([RemoteReady(c1) EXCEPT !.send_fbit = TRUE])
             ELSE send_i_or_rr_or_rnr(c1)
        ELSE IF sent THEN send_ack(RemoteReady(c1)) ELSE ertm_send(RemoteReady(c1))

RecvRNR(c, f) ==
    LET c1 == pass_to_tx([c EXCEPT !.remote_busy = TRUE], f)
    IN  IF c.rx_state = "RECV"
        THEN clear_timer(IF f.poll THEN send_rr_or_rnr([c1 EXCEPT !.send_fbit = TRUE], FALSE)
                         ELSE c1, "retrans")
        ELSE IF f.poll THEN send_srej_tail(c1)
        ELSE send_sframe(c1, "RR", FALSE, FALSE, c.buffer_seq)

valid_reqseq(c, reqseq) ==
    offset(c.next_tx_seq, reqseq) <= offset(c.next_tx_seq, c.expected_ack_seq)

\* l2cap_data_rcv, l2cap_rx: an F-bit that no poll awaits drops the frame.
data_rcv(c, f, fill) ==
    IF f.final /\ (f.poll \/ c.tx_state # "WAIT_F") THEN c
    ELSE IF ~valid_reqseq(c, f.reqseq) THEN send_disconn_req(c)
    ELSE CASE f.super = "I" -> IF c.rx_state = "RECV" THEN RecvIframe(c, f, fill)
                               ELSE RecvIframeSrejSent(c, f, fill)
           [] f.super = "RR" -> RecvRR(c, f)
           [] f.super = "RNR" -> RecvRNR(c, f)
           [] f.super = "SREJ" -> handle_srej(c, f)

-----------------------------------------------------------------------------
(* Timers that expire, data to send *)

retrans_timeout(c) ==
    IF c.tx_state = "XMIT" THEN PollAndWait(send_rr_or_rnr(c, TRUE)) ELSE c

monitor_timeout(c) ==
    IF c.tx_state # "WAIT_F" THEN c
    ELSE IF c.max_tx = 0 \/ c.retry_count < c.max_tx
    THEN [set_monitor_timer(send_rr_or_rnr(c, TRUE)) EXCEPT !.retry_count = Count(c, @)]
    ELSE send_disconn_req(c)

ack_timeout(c) ==
    IF offset(c.buffer_seq, c.last_acked_seq) > 0 THEN send_rr_or_rnr(c, FALSE) ELSE c

\* l2cap_chan_send, L2CAP_EV_DATA_REQUEST: queued, and sent unless an F-bit is awaited.
data_request(c) ==
    ertm_send([c EXCEPT !.sent = @ + 1,
                        !.tx_q = Append(@, [txseq |-> 0, retries |-> 0, sdu |-> c.sent + 1])])

-----------------------------------------------------------------------------
(* Steps: each runs a handler of the end s to its end. A disconnect is the last. *)

Quiet == \A s \in Side : link[s] = <<>>
Up == \A s \in Side : chan[s].up
Commit(s, c, links) ==
    /\ chan' = [chan EXCEPT ![s] = [c EXCEPT !.out = <<>>]]
    /\ link' = [links EXCEPT ![s] = @ \o c.out]

Send(s) ==
    /\ Up /\ chan[s].sent < chan[s].sdus
    /\ Commit(s, data_request(chan[s]), link)
    /\ UNCHANGED <<lost, fills, early>>

\* The first frame of the link is received; fill is the number, among the units that
\* this passes to the socket, of the one that does not fit. 0: they all do.
Receive(s, fill) ==
    LET p == Peer(s)
        c == data_rcv(chan[s], Head(link[p]), fill)
    IN  /\ Up /\ link[p] # <<>>
        /\ fill > 0 => (fills < MaxFull /\ c.full /\ ~chan[s].full)
        /\ Commit(s, c, [link EXCEPT ![p] = Tail(@)])
        /\ fills' = IF fill > 0 THEN fills + 1 ELSE fills
        /\ UNCHANGED <<lost, early>>

\* A radio that loses frames, or a checksum that does not match (l2cap_check_fcs).
Lose(s) ==
    /\ Up /\ lost < MaxLost /\ link[s] # <<>>
    /\ \E i \in DOMAIN link[s] : link' = [link EXCEPT ![s] = RemoveAt(@, i)]
    /\ lost' = lost + 1
    /\ UNCHANGED <<chan, fills, early>>

\* The work of a timer starts; from now on cancelling the timer does not stop it.
Expire(s, t) ==
    /\ Up /\ t \in chan[s].armed
    /\ IF Quiet THEN UNCHANGED early ELSE early < MaxEarly /\ early' = early + 1
    /\ chan' = [chan EXCEPT ![s].armed = @ \ {t}, ![s].due = @ \cup {t}]
    /\ UNCHANGED <<link, lost, fills>>

\* l2cap_retrans_timeout, l2cap_monitor_timeout, l2cap_ack_timeout get the lock.
Timeout(s, t) ==
    LET c == [chan[s] EXCEPT !.due = @ \ {t}]
    IN  /\ Up /\ t \in chan[s].due
        /\ Commit(s, CASE t = "retrans" -> retrans_timeout(c)
                       [] t = "monitor" -> monitor_timeout(c)
                       [] t = "ack" -> ack_timeout(c), link)
        /\ UNCHANGED <<lost, fills, early>>

\* l2cap_sock_recvmsg: what did not fit is queued, and once half of the buffer is free
\* the channel is told.
Read(s, half) ==
    LET c == [chan[s] EXCEPT !.full = FALSE]
    IN  /\ Up /\ chan[s].local_busy /\ (half \/ chan[s].full)
        /\ Commit(s, IF half THEN busy_clear(c) ELSE c, link)
        /\ UNCHANGED <<lost, fills, early>>

Timer == {"retrans", "monitor", "ack"}

ErtmNext ==
    \E s \in Side :
        \/ Send(s)
        \/ \E fill \in 0 .. TxWin : Receive(s, fill)
        \/ Lose(s)
        \/ \E t \in Timer : Expire(s, t) \/ Timeout(s, t)
        \/ \E half \in BOOLEAN : Read(s, half)

ErtmSpec == ErtmInit /\ [][ErtmNext]_ertmVars

\* Weak fairness, written with what a step does to the state, for TLC evaluates ENABLED of
\* these handlers slowly. Frames that are not lost arrive, timers expire and their work
\* runs: while there is such work, some of it gets done.
Work == Up /\ (~Quiet \/ \E s \in Side : chan[s].armed \cup chan[s].due # {})
WorkDone ==
    \E s \in Side : \/ chan'[s].due # chan[s].due
                    \/ link[s] # <<>> /\ link'[s] = Tail(link[s]) /\ lost' = lost

\* The programs that own the sockets go on reading.
Unread == Up /\ \E s \in Side : chan[s].local_busy
ReadDone == \E s \in Side : chan[s].local_busy /\ ~chan'[s].local_busy

LiveErtmSpec ==
    /\ ErtmSpec
    /\ []<>~Work \/ []<><<WorkDone>>_ertmVars
    /\ []<>~Unread \/ []<><<ReadDone>>_ertmVars

-----------------------------------------------------------------------------
(* Properties *)

Frames == [txseq : 0 .. Modulus - 1, sdu : Nat]
ErtmTypeOK ==
    /\ chan \in [Side -> [up : BOOLEAN, max_tx : Nat, out : {<<>>},
                          tx_q : Seq([txseq : 0 .. Modulus - 1, retries : Nat, sdu : Nat]),
                          head : Nat, next_tx_seq : 0 .. Modulus - 1,
                          expected_ack_seq : 0 .. Modulus - 1, unacked : 0 .. TxWin,
                          tx_state : {"XMIT", "WAIT_F"}, retry_count : Nat,
                          send_fbit : BOOLEAN, remote_busy : BOOLEAN, srej_act : BOOLEAN,
                          srej_save : 0 .. Modulus - 1, rx_state : {"RECV", "SREJ_SENT"},
                          expected_tx_seq : 0 .. Modulus - 1, buffer_seq : 0 .. Modulus - 1,
                          last_acked_seq : 0 .. Modulus - 1, srej_q : SUBSET Frames,
                          srej_list : Seq(0 .. Modulus - 1), local_busy : BOOLEAN,
                          rnr_sent : BOOLEAN, full : BOOLEAN, got : Seq(Nat), sent : Nat, sdus : Nat,
                          armed : SUBSET Timer, due : SUBSET Timer]]
    /\ \A s \in Side : Len(chan[s].srej_list) <= Slots
    /\ lost \in 0 .. MaxLost /\ fills \in 0 .. MaxFull /\ early \in 0 .. MaxEarly

\* A unit that its sender has forgotten, for it was acknowledged, is in the other end's
\* socket: neither a frame that a busy receiver discards nor what it stores behind a gap
\* is ever acknowledged. If the channel breaks, what is not in tx_q has arrived.
AckedHasArrived ==
    \A s \in Side :
        LET c == chan[s]
        IN  c.sent - Len(c.tx_q) <= Len(chan[Peer(s)].got)

\* Whatever order losses and late timers come in, something is pending that gets a
\* channel out of waiting: while an answer to a poll is awaited the monitor timer runs
\* and, as long as no end has been busy, the retransmission timer or the monitor timer
\* runs while frames are not acknowledged. After that the code may leave them untimed:
\* l2cap_handle_srej ends REMOTE_BUSY and, unlike RR, does not start the timer that RNR
\* has stopped.
WaitingIsTimed ==
    Up => \A s \in Side :
        LET c == chan[s]
            timers == c.armed \cup c.due
        IN  /\ c.tx_state = "WAIT_F" => "monitor" \in timers
            /\ (c.unacked > 0 /\ ~c.remote_busy /\ fills = 0) => timers \cap {"retrans", "monitor"} # {}

\* With a window of at most half of the sequence numbers no double poll, repeated frame
\* or late answer looks like an error: a channel without a limit on tries stays up.
NothingLooksWrong == (\A s \in Side : chan[s].max_tx = 0) => Up

\* The two ends implement the reliable link.
Link == INSTANCE ReliableLink WITH
    sent <- [s \in Side |-> chan[s].sent],
    arrived <- [s \in Side |-> chan[Peer(s)].got],
    open <- Up
ImplementsLink == Link!LinkSpec

\* After the last loss the ends come to rest: no frame is on its way, every poll is
\* answered and no timer runs. Then every unit has been acknowledged and neither end
\* takes the other for busy, unless a loss met a busy end. That case is left out, for
\* there the code stalls: the poll with which an end says that it is not busy any more
\* is lost while the F-bit for an earlier poll is taken for its answer, and the other
\* end waits for ever.
ComesToRest ==
    <>[](Up => \A s \in Side :
            /\ link[s] = <<>> /\ chan[s].tx_state = "XMIT"
            /\ chan[s].armed \cup chan[s].due = {}
            /\ fills = 0 \/ lost = 0 => chan[s].tx_q = <<>> /\ ~chan[s].remote_busy)
=============================================================================
