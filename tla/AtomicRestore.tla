----------------------------- MODULE AtomicRestore -----------------------------
(***************************************************************************)
(* What an import of a private backup promises (the comments of Execute    *)
(* and Recover, src/internal/restorejournal/journal.go): the files of all  *)
(* its targets change in one step, or none does, whatever fails and        *)
(* whenever the daemon dies, and no other file changes meanwhile.  A       *)
(* program that does not take part in the protocol may write a file at any *)
(* time; nothing is promised about such a file until the next import looks *)
(* at it.                                                                  *)
(***************************************************************************)
CONSTANTS Targets, Images, Requests

VARIABLES
    image,      \* what each target is, a pending plan counted as not begun
    foreign,    \* targets written by another program since the last import began
    open,       \* the daemon admits work of its stores
    want        \* the request of the running import, NoRequest when none runs

vars == <<image, foreign, open, want>>

NoRequest == [t \in {} |-> t]

\* The images after a request: the targets it names, and no others, replaced.
Over(images, request) ==
    [t \in Targets |-> IF t \in DOMAIN request THEN request[t] ELSE images[t]]

Init ==
    /\ image \in [Targets -> Images] /\ foreign = {}
    /\ open = FALSE /\ want = NoRequest

\* A new import begins by looking at the files; nothing else is admitted.
Begin(request) ==
    /\ want = NoRequest
    /\ want' = request /\ open' = FALSE /\ foreign' = {}
    /\ UNCHANGED image

\* All of the request takes effect.
Import ==
    /\ ~open
    /\ image' \in [Targets -> Images]
    /\ \A t \in Targets \ foreign : image'[t] = Over(image, want)[t]
    /\ UNCHANGED <<foreign, open, want>>

\* An import ends, the daemon starts or stops: no file changes.
Settle ==
    /\ want' = NoRequest /\ open' \in BOOLEAN
    /\ UNCHANGED <<image, foreign>>

\* A store saves its own file while work is admitted.
Save(t, i) ==
    /\ open
    /\ image' = [image EXCEPT ![t] = i]
    /\ UNCHANGED <<foreign, open, want>>

\* Files written behind the back of the protocol.
Interfere ==
    /\ image' \in [Targets -> Images]
    /\ foreign' \in SUBSET Targets /\ foreign \subseteq foreign'
    /\ \A t \in Targets \ foreign' : image'[t] = image[t]
    /\ UNCHANGED <<open, want>>

Next ==
    \/ \E request \in Requests : Begin(request)
    \/ Import
    \/ Settle
    \/ \E t \in Targets, i \in Images : Save(t, i)
    \/ Interfere

Spec == Init /\ [][Next]_vars
=============================================================================
