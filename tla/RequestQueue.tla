---------------------------- MODULE RequestQueue ----------------------------
(***************************************************************************)
(* What a virtqueue promises the driver, whatever its layout: a buffer that *)
(* the driver adds is with the device until the device has used it, is      *)
(* handed back exactly once after that and in the order of completion, and  *)
(* is handed back unused only when the queue is reset.                      *)
(***************************************************************************)
EXTENDS SequencesExt

CONSTANT Data           \* the tokens that a driver passes with its buffers

\* posted: buffers that are with the device; done: used and not handed back.
VARIABLE queue

Buffers(q) == q.posted \cup ToSet(q.done)

\* What each operation may make of a queue.
Post(q)     == {[q EXCEPT !.posted = @ \cup {t}] : t \in Data \ Buffers(q)}
Complete(q) == {[posted |-> q.posted \ {t}, done |-> Append(q.done, t)] : t \in q.posted}
HandBack(q) == IF q.done = <<>> THEN {} ELSE {[q EXCEPT !.done = Tail(@)]}

\* A reset: the device forgets what it has used, the driver takes back all there is.
Forget(q)  == {[posted |-> Buffers(q), done |-> <<>>]}
Recycle(q) == {[q EXCEPT !.posted = @ \ {t}] : t \in q.posted}

QueueInit == queue = [posted |-> {}, done |-> <<>>]
Steps(q)  == Post(q) \cup Complete(q) \cup HandBack(q) \cup Forget(q) \cup Recycle(q)
QueueNext == queue' \in Steps(queue)
QueueSpec == QueueInit /\ [][QueueNext]_queue
=============================================================================
