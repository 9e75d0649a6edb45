--------------------------- MODULE MCPrivateRestore ---------------------------
(* Instances of PrivateRestore: files with an old and a new image, and one    *)
(* image that only another program writes.                                    *)
EXTENDS PrivateRestore

TwoTargets == {1, 2}


\* Everything new, everything old, one file only.
SomeRequests ==
    {[t \in Targets |-> "new"], [t \in Targets |-> "old"]} \cup
        {[u \in {t} |-> "new"] : t \in Targets}
=============================================================================
