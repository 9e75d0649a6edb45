----------------------------- MODULE MCJobQueue -----------------------------
(* Instances of JobQueue for TLC. *)
EXTENDS JobQueue, TLC
CONSTANTS k1, k2, c1, c2

\* What happens beside the ordinary course, in any order: three things for the
\* first job, a second job being one of them.
Number(b) == IF b THEN 1 ELSE 0
Few ==
    /\ faults + restarts + edits + Cardinality(aged) + Cardinality(cancels)
           + Number(manual) + Number(worker.canceled \/ preempt # {})
           + Cardinality({c \in Clients : ask[c] # None}) + born <= 3

\* Jobs of two kinds meet only where one of them is a Stop: the others wait for
\* each other alike.
Present == {mem[i].kind : i \in {j \in Ids : mem[j] # None}}
           \cup {ask[c].kind : c \in {d \in Clients : ask[d] # None}}
WithStop == Cardinality(Present) > 1 => "stop" \in Present

\* Keys and clients are alike, and are taken in order.
Used(k) ==
    \/ acked[k] # None
    \/ \E c \in Clients : ask[c] # None /\ ask[c].key = k
    \/ \E jobs \in {mem, file}, i \in Ids : jobs[i] # None /\ k \in jobs[i].keys
InOrder == (ask[c2] # None => ask[c1] # None) /\ (Used(k2) => Used(k1))
=============================================================================
