---------------------------- MODULE ReliableLink ----------------------------
(***************************************************************************)
(* What the enhanced retransmission mode promises to the sockets at its two *)
(* ends: the units that an end sends come out at the other end once, in the *)
(* order in which they were sent and with none left out, until one of the   *)
(* ends disconnects.                                                        *)
(***************************************************************************)
EXTENDS Naturals, Sequences

CONSTANT Side

VARIABLES
    sent,           \* units sent by each end so far
    arrived,        \* units of each end, by number, in the order they came out at the other end
    open

linkVars == <<sent, arrived, open>>

LinkInit ==
    /\ sent = [s \in Side |-> 0]
    /\ arrived = [s \in Side |-> <<>>]
    /\ open = TRUE

Accept(s) ==
    /\ open
    /\ sent' = [sent EXCEPT ![s] = @ + 1]
    /\ UNCHANGED <<arrived, open>>

\* What arrives last may be what makes the end disconnect.
Deliver(s) ==
    /\ open /\ open' \in BOOLEAN
    /\ \E n \in Len(arrived[s]) + 1 .. sent[s] :
            arrived' = [arrived EXCEPT ![s] = [i \in 1 .. n |-> i]]
    /\ UNCHANGED sent

Disconnect == open /\ open' = FALSE /\ UNCHANGED <<sent, arrived>>

LinkNext == Disconnect \/ \E s \in Side : Accept(s) \/ Deliver(s)

LinkSpec == LinkInit /\ [][LinkNext]_linkVars
=============================================================================
