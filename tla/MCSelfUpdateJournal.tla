------------------------- MODULE MCSelfUpdateJournal -------------------------
(* Instances of SelfUpdateJournal for TLC. *)
EXTENDS SelfUpdateJournal, FiniteSets, TLC
CONSTANTS t1, t2
MCTxns2 == {t1, t2}
MCAbsent == {2}
MCConfigs == {1}
Symmetry == Permutations(Txns)

\* One update beside a failed write, a death and a stop at any moment; one with an
\* edit of a replaced file, from the first replacement on beside a death; or two
\* updates without these, in which the helper may find settings edited between them.
OneUpdate == edits.made = 0 /\ Cardinality(dirs) <= 1
Ordinarily == pointer # None => pointer.schema = Live
EditedUpdate ==
    /\ faults = 0 /\ stop = None /\ Cardinality(dirs) <= 1 /\ disk[2] # Foreign /\ Ordinarily
    /\ pointer # None /\ receipts[pointer.id].phase \in {"installing", "restoring"}
EditedBetween ==
    LET begun == {t \in dirs : receipts[t] # None} IN
    /\ disk[2] # Foreign /\ call["operator"] = Idle
    /\ \E t \in begun : receipts[t].phase = "accepted" /\ receipts[t].old[1] = Base
    /\ \A t \in begun : Settled(receipts[t]) \/ receipts[t].old[1] = Foreign
TwoUpdates ==
    /\ faults = 0 /\ crashes = 0 /\ stop = None /\ Ordinarily
    /\ edits.made = 0 \/ EditedBetween
Explored == OneUpdate \/ EditedUpdate \/ TwoUpdates
=============================================================================
