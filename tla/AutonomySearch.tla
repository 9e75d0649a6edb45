--------------------------- MODULE AutonomySearch ---------------------------
(***************************************************************************)
(* One service under the autopilot: the rounds of the worker                *)
(* (app/autonomy_worker.go), the search for the first usable node           *)
(* (app/autonomy_first_usable.go, nodestore/first_usable.go), its traversal,*)
(* budget and failure quorum (autonomy/decision.go) and the sidecar file    *)
(* that keeps them across restarts (app/autonomy_store.go).                 *)
(*                                                                          *)
(* Requests of the operator come between rounds: both hold the exclusive    *)
(* admission (OperationGate). The transaction that changes the network is   *)
(* one action per outcome (ApplyTransaction has its steps). Which of the    *)
(* remaining candidates is next, and how long anything takes, is free.      *)
(***************************************************************************)
EXTENDS Integers, Sequences, FiniteSets

CONSTANTS
    Nodes,          \* candidates of the consented sources
    Networks,       \* WAN profiles
    None,           \* no node, no search
    Limit,          \* MaxSwitchesPerHour
    Hour,           \* the window of the budget, in ticks
    Gap,            \* FailureConfirmSeconds, in ticks
    Cooldown,       \* five minutes, in ticks
    Interval,       \* CheckSeconds, in ticks
    Retry,          \* ReserveSeconds, in ticks
    Checks,         \* CandidatesPerRound
    Kept,           \* candidate failures a service may carry (four)
    MaxTime,        \* bound on the clock
    MaxFaults,      \* bound on failed writes of the sidecar
    MaxCrashes,     \* bound on restarts
    MaxRequests,    \* bound on requests of the operator
    MaxEpoch        \* bound on changes of the network

ASSUME NoneAssumption == None \notin Nodes
ASSUME TimeAssumption ==
    /\ Hour \in Nat /\ Gap \in Nat /\ Cooldown \in Nat
    /\ Interval \in Nat \ {0} /\ Retry \in Nat \ {0}
ASSUME LimitAssumption == Limit \in Nat /\ Checks \in Nat /\ Kept \in Nat
ASSUME BoundAssumption ==
    /\ MaxTime \in Nat /\ MaxFaults \in Nat /\ MaxCrashes \in Nat
    /\ MaxRequests \in Nat /\ MaxEpoch \in Nat

VARIABLES
    file,       \* the sidecar on disk: [entry, expected, revision]
    mem,        \* the same document in memory
    blocked,    \* a write of it is in doubt: nothing more until a restart
    pc,         \* where the round is
    r,          \* the round's own copy of the service's entry
    round,      \* its network, checks, candidate and kind of application
    applied,    \* the node the committed configuration routes the service to
    network, now,
    log,        \* history: the transactions since the last enrolment
    run,        \* history: the unbroken run of failures of the current node
    faults, crashes, requests, epoch

doc == <<file, mem, blocked, faults>>
world == <<applied, network, epoch, now>>
bounds == <<crashes, requests>>
vars == <<file, mem, blocked, pc, r, round, applied, network, now, log, run,
          faults, crashes, requests, epoch>>

-----------------------------------------------------------------------------
(* Runtime and its budgets (autonomy/decision.go). *)

\* No observation, no search, no switch (Runtime of autonomyEnroll).
FreshEntry ==
    [next |-> 0, fails |-> 0, failNode |-> None, net |-> None,
     last |-> 0, search |-> None, switches |-> <<>>, rejected |-> {}]

NoRound == [profile |-> None, checks |-> 0, node |-> None, kind |-> "search",
            expired |-> FALSE, at |-> 0]   \* the time of the last reservation or rejection

\* The reservations of the window: time does not go back, so those that aged are
\* the first ones.
Recent(times) ==
    LET aged == {i \in DOMAIN times : times[i] <= now - Hour}
    IN SubSeq(times, Cardinality(aged) + 1, Len(times))

\* ReserveSwitch: the aged reservations are dropped even when there is no room.
HasBudget(entry) == Limit > 0 /\ Len(Recent(entry.switches)) < Limit
Reserved(entry) == [entry EXCEPT !.switches = Append(Recent(@), now)]
\* RefundSwitch: the latest reservation, when no transaction started.
Refunded(entry) ==
    [entry EXCEPT !.switches = IF @ = <<>> THEN @ ELSE SubSeq(@, 1, Len(@) - 1)]

\* Observe: two failures of one node on one network, Gap apart, with nothing
\* else between them.
NoFailures(entry) == [entry EXCEPT !.fails = 0, !.last = 0]

\* Mutant: an answer that says nothing leaves the quorum as it was.
ObservedThroughDoubt(entry, node, profile, verdict) ==
    LET e == IF entry.failNode = node /\ entry.net = profile THEN entry
             ELSE [NoFailures(entry) EXCEPT !.failNode = node, !.net = profile] IN
    IF verdict = "PASS" THEN NoFailures(e)
    ELSE IF verdict # "FAIL" THEN e
    ELSE IF e.fails = 0 THEN [e EXCEPT !.fails = 1, !.last = now]
    ELSE IF now >= e.last + Gap THEN [e EXCEPT !.fails = 2, !.last = now]
    ELSE e

Observed(entry, node, profile, verdict) ==
    LET e == IF entry.failNode = node /\ entry.net = profile THEN entry
             ELSE [NoFailures(entry) EXCEPT !.failNode = node, !.net = profile] IN
    IF verdict # "FAIL" THEN NoFailures(e)
    ELSE IF e.fails = 0 THEN [e EXCEPT !.fails = 1, !.last = now]
    ELSE IF now >= e.last + Gap THEN [e EXCEPT !.fails = 2, !.last = now]
    ELSE e

\* PruneCandidateFailures: rejections of this network that still hold.
Pruned(rejected, profile) ==
    {f \in rejected : f.net = profile /\ f.at <= now /\ now < f.at + Cooldown}
CoolingDown(rejected) == {f.node : f \in rejected}
\* RecordCandidateFailure: of what was observed at the time at.
Rejected(entry, node, profile, at) ==
    [entry EXCEPT !.rejected =
        Pruned({f \in @ : f.node # node} \cup {[node |-> node, net |-> profile, at |-> at]},
               profile)]

-----------------------------------------------------------------------------
(* Traversal (app/autonomy_first_usable.go): done is the consumed prefix,   *)
(* left the rest, whose order every round may choose anew.                  *)

\* autonomyTraversalVersion: the consent, the recorded route and the network.
Version(profile) == [revision |-> mem.revision, expected |-> mem.expected, net |-> profile]
NewSearch(version, ids) ==
    [version |-> version, done |-> {}, left |-> ids, halted |-> FALSE, retryAt |-> 0]

\* prepareAutonomyTraversal
Prepared(search, version, ids) ==
    IF search = None THEN NewSearch(version, ids)
    ELSE IF search.version # version
    THEN NewSearch(version, ids)
    ELSE LET t == [search EXCEPT !.left = ids \ search.done] IN
         IF ~t.halted /\ t.left = {} /\ t.retryAt # 0 /\ now >= t.retryAt
         THEN NewSearch(version, ids)
         ELSE t

\* The next cursor: an exhausted list waits for ReserveSeconds.
Consumed(search, node) ==
    [search EXCEPT !.done = @ \cup {node}, !.left = @ \ {node},
                   !.retryAt = IF search.left = {node} THEN now + Retry ELSE @]

Halted(search) == search # None /\ search.halted


-----------------------------------------------------------------------------
(* The sidecar (app/autonomy_store.go).                                     *)

\* persistAutonomyLocked: a failed write blocks the autopilot, whatever it left
\* on disk; while it is blocked nothing is written.
Written(d) ==
    /\ ~blocked /\ file' = d /\ mem' = d
    /\ UNCHANGED <<blocked, faults>>
Unsaved(d) ==
    /\ blocked' = TRUE
    /\ \/ blocked /\ UNCHANGED <<file, faults>>
       \/ ~blocked /\ faults < MaxFaults /\ faults' = faults + 1 /\ file' \in {file, d}
NotWritten(d) == Unsaved(d) /\ mem' = d

WithEntry(entry) == [mem EXCEPT !.entry = entry]

\* autonomyRuntime: the result of the write is not looked at.
Publish(entry) == Written(WithEntry(entry)) \/ NotWritten(WithEntry(entry))

\* A round ends in the state that it shows the operator.
Finish(entry, state) == pc' = state /\ r' = entry

Ends == {"applied", "review", "refused", "retry", "limited", "searching", "unconfirmed",
         "healthy", "paused", "manual"}

\* persistAutonomySearch: the write is a prerequisite of what follows.
PersistThen(entry, next) ==
    \/ Written(WithEntry(entry)) /\ r' = entry /\ pc' = next
    \/ NotWritten(WithEntry(entry)) /\ Finish(entry, "review")

\* Mutant: the search is taken for an old observation, too.
LoadedAfresh(d) ==
    [d EXCEPT !.entry = [NoFailures(@) EXCEPT !.next = 0, !.search = None]]

\* loadAutonomy: after a start an old observation is neither a PASS nor part of
\* a failure quorum; searches, budgets and cooldowns stay.
Loaded(d) ==
    [d EXCEPT !.entry = [NoFailures(@) EXCEPT !.next = 0]]

-----------------------------------------------------------------------------
(* A round (app/autonomy_worker.go). *)

\* What every guard of the round asks: the consent (nobody changes it within a
\* round, but a failed write withdraws it) and the network the round began in.
GuardHolds == ~blocked /\ network = round.profile

Inside == {"service", "repair", "prepare", "search", "intent"}

\* autonomyRound: the service is due.
BeginRound ==
    /\ pc = "idle" /\ ~blocked /\ now >= mem.entry.next
    /\ pc' = "service"
    /\ r' = [mem.entry EXCEPT !.next = now + Interval]
    /\ Publish(r')
    /\ round' = [NoRound EXCEPT !.profile = network]
    /\ UNCHANGED <<world, log, run, bounds>>

\* Mutant: a service that had no route when it was recorded is not compared.
RouteLooksRecorded == mem.expected \in {None, applied}

RouteIsRecorded == mem.expected = applied

\* A route that is not the recorded one was chosen by somebody else, or by an
\* application whose receipt was lost: both wait for the operator.
ManualChange ==
    /\ pc = "service" /\ ~RouteIsRecorded
    /\ Finish(r, "manual")
    /\ UNCHANGED <<doc, world, round, log, run, bounds>>

StillCooling(entry) == [entry EXCEPT !.rejected = Pruned(@, round.profile)]

\* A service without a route starts to search; one whose node left the
\* consented sources looks for another.
NoCurrentNode ==
    /\ pc = "service" /\ RouteIsRecorded
    /\ \/ applied = None /\ UNCHANGED round
       \/ applied # None /\ round' = [round EXCEPT !.expired = TRUE]
    /\ pc' = "prepare" /\ r' = StillCooling(r)
    /\ UNCHANGED <<doc, world, log, run, bounds>>

\* The unbroken run of failures that the verdict continues, ends or begins.
RunAfter(verdict) ==
    IF verdict # "FAIL" THEN None
    ELSE IF run # None /\ run.node = applied /\ run.net = round.profile
         THEN [run EXCEPT !.last = now]
    ELSE [node |-> applied, net |-> round.profile, first |-> now, last |-> now]

Replaces(entry, verdict) == verdict = "FAIL" /\ entry.fails >= 2

\* The current node is checked; a healthy one whose process died is repaired.
CheckCurrent(verdict) ==
    /\ pc = "service" /\ RouteIsRecorded /\ applied # None
    /\ run' = RunAfter(verdict)
    /\ LET seen == Observed(StillCooling(r), applied, round.profile, verdict) IN
       IF verdict = "PASS"
       THEN \/ Finish(seen, "healthy")
            \/ pc' = "repair" /\ r' = seen
       ELSE IF Replaces(seen, verdict)
       THEN pc' = "prepare" /\ r' = seen
       ELSE Finish([seen EXCEPT !.next = IF verdict = "FAIL" THEN now + Gap ELSE @],
                   "unconfirmed")
    /\ UNCHANGED <<doc, world, round, log, bounds>>

\* A provider that asks to come back later breaks the quorum (pause).
RateLimited ==
    /\ pc = "service" /\ RouteIsRecorded /\ applied # None
    /\ run' = None
    /\ Finish([NoFailures(StillCooling(r)) EXCEPT !.next = now + 1], "unconfirmed")
    /\ UNCHANGED <<doc, world, round, log, bounds>>

\* The request of an operator cancels the round, or a guard finds that what it
\* stands on changed.
Interrupted ==
    /\ pc \in Inside
    /\ Finish(r, "paused")
    /\ UNCHANGED <<doc, world, round, log, run, bounds>>

\* The same proven node is applied again; the reservation is published first,
\* and a write that fails withdraws the consent.
Repair ==
    /\ pc = "repair" /\ GuardHolds
    /\ IF ~HasBudget(r)
       THEN /\ Finish([r EXCEPT !.switches = Recent(@)], "limited")
            /\ UNCHANGED <<doc, round>>
       ELSE /\ r' = Reserved(r)
            /\ Publish(r')
            /\ round' = [round EXCEPT !.node = applied, !.kind = "repair", !.at = now]
            /\ pc' = "apply"
    /\ UNCHANGED <<world, log, run, bounds>>

\* The end of the round is published, with a next check in the future.
EndRound ==
    /\ pc \in Ends
    /\ Publish([r EXCEPT !.next = IF @ <= now THEN now + Interval ELSE @])
    /\ pc' = "idle" /\ r' = FreshEntry /\ round' = NoRound
    /\ UNCHANGED <<world, log, run, bounds>>


-----------------------------------------------------------------------------
(* The search (app/autonomy_first_usable.go, nodestore/first_usable.go).    *)

\* Mutant: the candidates that cool down are not left out.
PrepareSearchOfAll ==
    /\ pc = "prepare" /\ GuardHolds
    /\ IF Halted(r.search)
       THEN Finish(r, "review") /\ UNCHANGED doc
       ELSE \E ids \in SUBSET Nodes :
               PersistThen([r EXCEPT !.search = Prepared(@, Version(round.profile), ids)],
                           "search")
    /\ UNCHANGED <<world, round, log, run, bounds>>

\* A halted search waits for a review; otherwise the traversal is prepared with
\* the candidates of this round and saved.
PrepareSearch ==
    /\ pc = "prepare" /\ GuardHolds
    /\ IF Halted(r.search)
       THEN Finish(r, "review") /\ UNCHANGED doc
       ELSE \E ids \in SUBSET (Nodes \ CoolingDown(r.rejected)) :
               PersistThen([r EXCEPT !.search = Prepared(@, Version(round.profile), ids)],
                           "search")
    /\ UNCHANGED <<world, round, log, run, bounds>>

\* Nothing is left to check, in the list or in this round.
EndSearch ==
    /\ pc = "search"
    /\ r.search.left = {} \/ round.checks = Checks
    /\ Finish(r, "searching")
    /\ UNCHANGED <<doc, world, round, log, run, bounds>>

MayCheck == pc = "search" /\ GuardHolds /\ r.search.left # {} /\ round.checks < Checks

\* The current node, one that is not eligible any more or that the engine does
\* not support is passed over.
SkipCandidate(n) ==
    /\ MayCheck /\ n \in r.search.left
    /\ PersistThen([r EXCEPT !.search = Consumed(@, n)], "search")
    /\ UNCHANGED <<world, round, log, run, bounds>>

\* A definite failure consumes the candidate; the first usable one is applied.
CheckCandidate(n, usable) ==
    /\ MayCheck /\ n \in r.search.left /\ n # applied
    /\ round' = [round EXCEPT !.checks = @ + 1, !.node = n]
    /\ PersistThen([r EXCEPT !.search = Consumed(@, n)],
                   IF usable THEN "intent" ELSE "search")
    /\ UNCHANGED <<world, log, run, bounds>>

\* A check without a definite answer ends the round and consumes nothing.
Inconclusive ==
    /\ MayCheck
    /\ \/ Finish(r, "unconfirmed")
       \/ Finish([NoFailures(r) EXCEPT !.next = now + 1], "unconfirmed")
    /\ UNCHANGED <<doc, world, round, log, run, bounds>>

\* The Apply hook: budget and intent are saved before anything is applied.
Intend ==
    /\ pc = "intent" /\ GuardHolds
    /\ round' = [round EXCEPT !.at = now]
    /\ IF Cardinality(r.rejected) >= Kept
       THEN Finish(r, "limited") /\ UNCHANGED doc
       ELSE IF ~HasBudget(r)
       THEN Finish([r EXCEPT !.switches = Recent(@)], "limited") /\ UNCHANGED doc
       ELSE PersistThen([Reserved(r) EXCEPT !.search.halted = TRUE],
                        "apply")
    /\ UNCHANGED <<world, log, run, bounds>>

-----------------------------------------------------------------------------
(* An application (applyAutonomyRoute, autonomy_worker.go:699). *)

\* A guard refuses before the transaction begins.
ApplyRefused ==
    /\ pc = "apply"
    /\ Finish(r, IF round.kind = "repair" THEN "refused" ELSE "paused")
    /\ UNCHANGED <<doc, world, round, log, run, bounds>>

\* The plan is not ready, or waits for another service: the reservation goes back.
ApplyNotStarted ==
    /\ pc = "apply" /\ ~blocked
    /\ Finish(Refunded(r), "retry")
    /\ UNCHANGED <<doc, world, round, log, run, bounds>>

StartTransaction ==
    /\ pc = "apply" /\ GuardHolds
    /\ pc' = "running"
    /\ log' = Append(log, [node |-> round.node, kind |-> round.kind, at |-> round.at,
                           end |-> "running", done |-> 0, epoch |-> epoch])
    /\ UNCHANGED <<doc, r, world, round, run, bounds>>

EndsAs(end) == [log EXCEPT ![Len(log)].end = end,
                            ![Len(log)].done = IF end = "rejected" THEN now ELSE 0]

CommitTransaction ==
    /\ pc = "running" /\ GuardHolds
    /\ applied' = round.node
    /\ log' = EndsAs("committed")
    /\ pc' = "record"
    /\ UNCHANGED <<doc, r, round, network, epoch, now, run, bounds>>

\* The candidate itself failed and everything was verifiably rolled back: with
\* a refusal of the service (rejected), or on the path to it.
RollBackCandidate(end) ==
    /\ pc = "running" /\ GuardHolds
    /\ log' = EndsAs(end)
    /\ IF round.kind = "repair"
       THEN Finish(r, "refused") /\ UNCHANGED round
       ELSE pc' = end /\ round' = [round EXCEPT !.at = now] /\ UNCHANGED r
    /\ UNCHANGED <<doc, world, run, bounds>>

\* Mutant: the reservation goes back although the transaction began.
FailTransactionForFree ==
    /\ pc = "running"
    /\ log' = EndsAs("doubt")
    /\ Finish(Refunded(r), "refused")
    /\ UNCHANGED <<doc, world, round, run, bounds>>

\* Any other failure: canceled, changed network, an adapter that does not say.
FailTransaction ==
    /\ pc = "running"
    /\ log' = EndsAs("doubt")
    /\ Finish(r, "refused")
    /\ UNCHANGED <<doc, world, round, run, bounds>>

\* recordAutonomyRoute: the receipt of the new route; only then the latch of the
\* search is lifted, in the entry the end of the round publishes.
RecordRoute ==
    /\ pc = "record"
    /\ LET d == [mem EXCEPT !.expected = round.node] IN
       \/ /\ Written(d)
          /\ Finish(IF round.kind = "repair" THEN r
                    ELSE [NoFailures(r) EXCEPT !.search.halted = FALSE], "applied")
       \/ /\ NotWritten(d)
          /\ Finish(r, "refused")
       \/ /\ UNCHANGED doc          \* the operation was canceled meanwhile
          /\ Finish(r, "refused")
    /\ UNCHANGED <<world, round, log, run, bounds>>

\* ContinueAfterRollback: the failure is saved and the latch lifted, then the
\* next candidate is checked afresh.
ResumeSearch ==
    /\ pc \in {"rejected", "path"} /\ GuardHolds
    /\ LET e == IF pc = "rejected" THEN Rejected(r, round.node, round.profile, round.at)
                ELSE r IN
       PersistThen([e EXCEPT !.search.halted = FALSE], "search")
    /\ UNCHANGED <<world, round, log, run, bounds>>

\* What a guard refuses after the rollback keeps the latch.
ResumeRefused ==
    /\ pc \in {"rejected", "path"}
    /\ Finish(r, "refused")
    /\ UNCHANGED <<doc, world, round, log, run, bounds>>

-----------------------------------------------------------------------------
(* The operator, the router and time. *)

\* The process dies and starts again; a transaction it left is finished or
\* undone before anything else (ApplyTransaction).
Restart ==
    /\ crashes < MaxCrashes /\ crashes' = crashes + 1
    /\ IF pc = "running"
       THEN applied' \in {applied, round.node} /\ log' = EndsAs("doubt")
       ELSE UNCHANGED <<applied, log>>
    /\ mem' = Loaded(file) /\ blocked' = FALSE
    /\ pc' = "idle" /\ r' = FreshEntry /\ round' = NoRound /\ run' = None
    /\ UNCHANGED <<file, network, now, faults, requests, epoch>>

\* autonomyEnroll: the operator hands the service over again, as it is now; a
\* review of whatever happened before.
Enroll ==
    /\ pc = "idle" /\ ~blocked /\ requests < MaxRequests /\ requests' = requests + 1
    /\ LET d == [entry |-> FreshEntry, expected |-> applied, revision |-> mem.revision + 1] IN
       /\ Written(d) \/ NotWritten(d)
       /\ log' = IF file' = d THEN <<>> ELSE log
    /\ run' = None
    /\ UNCHANGED <<pc, r, round, world, crashes>>

\* autonomyAPI: a new revision of the policy, which leaves every entry; a
\* failed write takes the new policy back in memory.
SavePolicy ==
    /\ pc = "idle" /\ ~blocked /\ requests < MaxRequests /\ requests' = requests + 1
    /\ LET d == [mem EXCEPT !.revision = @ + 1] IN
       \/ Written(d)
       \/ Unsaved(d) /\ UNCHANGED mem
    /\ UNCHANGED <<pc, r, round, world, log, run, crashes>>

\* The operator applies another route, or none, without the autopilot.
ManualApply(n) ==
    /\ pc = "idle" /\ requests < MaxRequests /\ requests' = requests + 1
    /\ applied' = n
    /\ UNCHANGED <<doc, pc, r, round, network, epoch, now, log, run, crashes>>

NetworkChanges(w) ==
    /\ w # network /\ epoch < MaxEpoch /\ epoch' = epoch + 1
    /\ network' = w
    /\ UNCHANGED <<doc, pc, r, round, applied, now, log, run, bounds>>

Tick ==
    /\ now < MaxTime /\ now' = now + 1
    /\ UNCHANGED <<doc, pc, r, round, applied, network, epoch, log, run, bounds>>

Init ==
    /\ applied = None /\ network \in Networks /\ now = 0
    /\ mem = [entry |-> FreshEntry, expected |-> None, revision |-> 0] /\ file = mem
    /\ blocked = FALSE /\ pc = "idle" /\ r = FreshEntry /\ round = NoRound
    /\ log = <<>> /\ run = None
    /\ faults = 0 /\ crashes = 0 /\ requests = 0 /\ epoch = 0

Round ==
    \/ BeginRound \/ ManualChange \/ NoCurrentNode \/ RateLimited \/ Interrupted
    \/ \E verdict \in {"PASS", "FAIL", "INCONCLUSIVE"} : CheckCurrent(verdict)
    \/ Repair \/ EndRound

Search ==
    \/ PrepareSearch \/ EndSearch \/ Inconclusive \/ Intend
    \/ \E n \in Nodes : SkipCandidate(n) \/ CheckCandidate(n, TRUE) \/ CheckCandidate(n, FALSE)

Application ==
    \/ ApplyRefused \/ ApplyNotStarted \/ StartTransaction \/ CommitTransaction
    \/ RollBackCandidate("rejected") \/ RollBackCandidate("path") \/ FailTransaction
    \/ RecordRoute \/ ResumeSearch \/ ResumeRefused

Outside ==
    \/ Restart \/ Enroll \/ SavePolicy \/ Tick
    \/ \E n \in Nodes \cup {None} : ManualApply(n)
    \/ \E w \in Networks : NetworkChanges(w)

Next == Round \/ Search \/ Application \/ Outside

Spec == Init /\ [][Next]_vars

-----------------------------------------------------------------------------
(* Properties. *)

Pcs == Inside \cup {"idle", "apply", "running", "record", "rejected", "path"} \cup Ends
Times == 0..MaxTime
Searches ==
    [version : [revision : Nat, expected : Nodes \cup {None}, net : Networks],
     done : SUBSET Nodes, left : SUBSET Nodes, halted : BOOLEAN, retryAt : Nat]
Failures == [node : Nodes, net : Networks, first : Times, last : Times]
ASSUME AbsenceAssumption == None \notin Searches \cup Failures

Entries ==
    [next : Nat, fails : 0..2, failNode : Nodes \cup {None},
     net : Networks \cup {None}, last : Times, search : Searches \cup {None},
     switches : Seq(Times), rejected : SUBSET [node : Nodes, net : Networks, at : Times]]
Documents == [entry : Entries, expected : Nodes \cup {None}, revision : Nat]
Transactions ==
    [node : Nodes, kind : {"search", "repair"}, at : Times, done : Times, epoch : 0..MaxEpoch,
     end : {"running", "committed", "rejected", "path", "doubt"}]

\* Every variable holds a value of its type (autonomyDocument, autonomy_store.go:21;
\* Runtime, decision.go:10; Traversal, traversal.go:8).
TypeOK ==
    /\ file \in Documents /\ mem \in Documents /\ blocked \in BOOLEAN
    /\ pc \in Pcs /\ r \in Entries
    /\ round \in [profile : Networks \cup {None}, checks : 0..Checks,
                  node : Nodes \cup {None}, kind : {"search", "repair"},
                  expired : BOOLEAN, at : Times]
    /\ applied \in Nodes \cup {None} /\ network \in Networks /\ now \in Times
    /\ log \in Seq(Transactions)
    /\ run \in Failures \cup {None}
    /\ faults \in 0..MaxFaults /\ crashes \in 0..MaxCrashes
    /\ requests \in 0..MaxRequests /\ epoch \in 0..MaxEpoch

\* An application whose end is not known, by a crash, a cancelation or a failure
\* nobody vouches for, is the last one of the search until the operator enrolls
\* the service again (autonomy_first_usable.go:313).
DoubtEndsTheSearch ==
    \A i, j \in DOMAIN log :
        i < j /\ log[i].kind = "search" /\ log[i].end = "doubt" => log[j].kind = "repair"

\* No hour sees more applications than the policy allows, across restarts, lost
\* writes and returned reservations (ReserveSwitch, decision.go:82).
SwitchesStayWithinBudget ==
    \A j \in DOMAIN log :
        Cardinality({i \in DOMAIN log : i <= j /\ log[i].at > log[j].at - Hour}) <= Limit

\* A consented node that carries the service is replaced only after it failed on
\* this network since the last start, again and again for FailureConfirmSeconds,
\* with no other answer between (Observe, decision.go:28).
FailureIsConfirmed ==
    (pc = "running" /\ round.kind = "search" /\ applied # None /\ ~round.expired) =>
        /\ run # None
        /\ run.node = applied /\ run.net = round.profile
        /\ run.last - run.first >= Gap

\* A node the service refused is not applied again for five minutes, unless the
\* network changed, not even after a restart (candidate_failures.go:36).
RejectedCandidateCoolsDown ==
    \A i, j \in DOMAIN log :
        (/\ i < j /\ log[i].end = "rejected" /\ log[j].node = log[i].node
         /\ log[j].epoch = log[i].epoch
         /\ log[i].kind = "search" /\ log[j].kind = "search") =>
            log[j].at >= log[i].done + Cooldown

\* While the committed route is not the recorded one, because somebody else chose
\* it or its receipt was lost, nothing is applied (autonomy_worker.go:829).
UnrecordedRouteIsKept == pc = "running" => file.expected = applied

\* "The plan is not ready, so the application was not started ... the autopilot
\* will repeat the attempt later" (autonomy_capability.go:92).
UnstartedApplicationIsRepeated ==
    (pc = "retry" /\ round.kind = "search") => ~Halted(r.search)
=============================================================================
