------------------------------ MODULE JobQueue ------------------------------
(***************************************************************************)
(* The durable queue of jobs (app/durable_service_jobs.go,                  *)
(* durable_runtime_jobs.go, durable_node_apply.go) and the document it      *)
(* shares with the scheduler (app/reconciler.go).                           *)
(*                                                                          *)
(* Requests, cancelations and the worker take one mutex for each of their   *)
(* steps; a job runs with the mutex released. The transaction a job starts  *)
(* is one action per outcome (ApplyTransaction has its steps). How long     *)
(* anything takes is free.                                                  *)
(***************************************************************************)
EXTENDS Integers, FiniteSets

CONSTANTS
    MaxId,          \* bound on the jobs ever accepted
    Keys,           \* idempotency keys
    Clients,        \* requests that may be under way at a time
    None,           \* no job, no request
    Kinds,          \* kinds of jobs that are asked for
    MaxAttempts,    \* attempts of a job (three)
    MaxAliases,     \* keys of a job beside its first (eight)
    MaxJobs,        \* maxDurableServiceJobs
    MaxPending,     \* unfinished jobs, the slot of a Stop included (sixteen)
    MaxFaults,      \* bound on failed writes of the document
    MaxRestarts,    \* bound on ends of the process
    MaxEdits        \* bound on other changes of the settings

Runtime == {"stop", "resume"}               \* isRuntimeJob
Acting == Runtime \cup {"apply"}            \* node-apply and dns-apply
Reading == {"check", "list"}                \* service checks; the steps of a node-check

ASSUME KindAssumption == Kinds \subseteq Acting \cup Reading
ASSUME LimitAssumption ==
    /\ MaxAttempts \in Nat /\ MaxAliases \in Nat /\ MaxJobs \in Nat /\ MaxPending \in Nat
ASSUME BoundAssumption ==
    /\ MaxId \in Nat /\ MaxFaults \in Nat /\ MaxRestarts \in Nat /\ MaxEdits \in Nat
ASSUME KeyAssumption == IsFiniteSet(Keys)

VARIABLES
    file,       \* the jobs of the document on disk
    mem,        \* the same in memory
    fence,      \* "open", "retry" (blocked, retryAdmission) or "closed" (blocked)
    stale,      \* the disk holds a write that was reported as failed
    ask,        \* per client: the key and the request it prepares
    preempt,    \* accepted Stops that have yet to interrupt the running job
    worker,     \* the job that runs, how far it is and how it ended
    delayed,    \* jobs whose NotBefore has not come
    aged,       \* jobs 24 hours past acceptance, or past their end
    manual,     \* now < ManualUntil
    closing,    \* the scheduler's context has ended
    rev,        \* revision of the settings
    stopped,    \* ServiceControl.Stopped
    fenced,     \* the operation gate
    born,       \* how many identifiers were drawn
    acked,      \* history: the job each key was answered with
    cancels,    \* history: the jobs whose cancelation was acknowledged
    applies, commits, \* history: plans begun, transactions committed, per job
    faults, restarts, edits \* how much of each bound is used

doc == <<file, fence, stale, faults>>
requests == <<ask, preempt, born, acked>>
world == <<rev, stopped, fenced>>
history == <<cancels, applies, commits>>
vars == <<file, mem, fence, stale, ask, preempt, worker, delayed, aged, manual,
          closing, rev, stopped, fenced, born, acked, cancels, applies, commits,
          faults, restarts, edits>>

-----------------------------------------------------------------------------
(* Jobs. *)

Ids == 1..MaxId
Waiting == {"queued", "interrupted"}
Begun == {"running", "canceling"}
Terminal == {"completed", "failed", "canceled"}

Jobs == [keys : SUBSET Keys, kind : Kinds, rev : Nat,
         state : Waiting \cup Begun \cup Terminal, attempts : 0..MaxAttempts, cancel : BOOLEAN]
Empty == [i \in Ids |-> None]
NoWorker == [id |-> 0, pc |-> "idle", canceled |-> FALSE, result |-> "none"]

In(jobs, i, states) == jobs[i] # None /\ jobs[i].state \in states
Holders(k) == {i \in Ids : mem[i] # None /\ k \in mem[i].keys}
\* Unfinished jobs with the fingerprint of a request.
Twins(q) == {i \in Ids : /\ In(mem, i, Waiting \cup Begun)
                         /\ mem[i].kind = q.kind /\ mem[i].rev = q.rev}

Set(i, state) == [mem EXCEPT ![i].state = state]
\* finishDurableJob starts the retention of 24 hours.
Finishes(jobs, i) == aged' = IF In(jobs, i, Terminal) THEN aged \ {i} ELSE aged

-----------------------------------------------------------------------------
(* The document (persistReconcilerLocked, CompareAndSwap). *)

\* A write is not begun because its context ended, refused because the lease of
\* the file is taken, lost, or late: reported as failed and yet on disk. After a
\* late one the file is not the image the process knows, and nothing more is
\* written.
Aborted == {"aborted"}
Writes == {"ok", "refused", "lost", "late", "conflict"}
Saved(o) == o = "ok"

\* blockReconcilerLocked
Fence(o) ==
    IF o \in {"ok", "aborted"} \/ fence = "closed" THEN fence
    ELSE IF o = "refused" THEN "retry" ELSE "closed"

\* Mutant: the file is not compared with the image before.
DiskUncompared(jobs, o) ==
    /\ o # "conflict"
    /\ file' = IF o \in {"ok", "late"} THEN jobs ELSE file
    /\ stale' = (stale \/ o = "late")
    /\ IF o \in {"refused", "lost", "late"}
       THEN faults < MaxFaults /\ faults' = faults + 1
       ELSE UNCHANGED faults

Disk(jobs, o) ==
    /\ o = "conflict" <=> stale /\ o \notin {"refused", "aborted"}
    /\ file' = IF o \in {"ok", "late"} THEN jobs ELSE file
    /\ stale' = (stale \/ o = "late")
    /\ IF o \in {"refused", "lost", "late"}
       THEN faults < MaxFaults /\ faults' = faults + 1
       ELSE UNCHANGED faults
Write(jobs, o) == Disk(jobs, o) /\ fence' = Fence(o)

-----------------------------------------------------------------------------
(* enqueueDurableServiceJob: lookup, preparation without the mutex, lookup  *)
(* again, insertion.                                                        *)

\* A retry of an answered request, also when the answer was lost.
KnownKey(k, q) ==
    \E i \in Holders(k) :
        /\ mem[i].kind = q.kind /\ mem[i].rev = q.rev
        /\ acked' = [acked EXCEPT ![k] = i]
        /\ UNCHANGED <<doc, mem, preempt, born, manual>>

\* Another window asks for what is already under way: its key becomes an alias.
NewAlias(k, q) ==
    /\ Holders(k) = {}
    /\ \E i \in Twins(q), o \in Writes \cup Aborted :
          LET jobs == [mem EXCEPT ![i].keys = @ \cup {k}] IN
          /\ Cardinality(mem[i].keys) <= MaxAliases
          /\ Write(jobs, o)
          /\ mem' = IF Saved(o) THEN jobs ELSE mem
          /\ acked' = IF Saved(o) THEN [acked EXCEPT ![k] = i] ELSE acked
    /\ UNCHANGED <<preempt, born, manual>>

\* Mutant: finished jobs are not looked at.
FoundUnfinished(k, q) == Twins(q) # {}

Lookup(k, q) == fence = "open" /\ (KnownKey(k, q) \/ NewAlias(k, q))
Found(k, q) == Holders(k) # {} \/ Twins(q) # {}

rest == <<worker, delayed, closing, world, history, restarts, edits>>

\* A client repeats what it asked for, or asks for something on the settings it
\* just read; what it read may be overtaken before the insertion.
Requests == [kind : Kinds, rev : {rev}]
            \cup {[kind |-> mem[i].kind, rev |-> mem[i].rev] : i \in {j \in Ids : mem[j] # None}}

Ask(c, k, q) ==
    /\ ask[c] = None
    /\ Lookup(k, q)
    /\ UNCHANGED <<ask, aged, rest>>

\* The preparation of each kind, between the two lookups. A service check is
\* reviewed under an exclusive admission.
Prepare(c, k, q) ==
    /\ ask[c] = None /\ fence = "open" /\ ~Found(k, q)
    /\ ~fenced
    /\ q.kind \in Reading => q.rev = rev
    /\ q.kind = "check" => worker.pc # "work"
    /\ ask' = [ask EXCEPT ![c] = [key |-> k, kind |-> q.kind, rev |-> q.rev]]
    /\ UNCHANGED <<doc, mem, preempt, born, acked, manual, aged, rest>>

\* Finished jobs are forgotten a day after their end.
Retained == [i \in Ids |-> IF In(mem, i, Terminal) /\ i \in aged THEN None ELSE mem[i]]
Pending == {i \in Ids : In(mem, i, Waiting \cup Begun)}
\* One slot is kept for a Stop.
HasRoom(kind) ==
    LET less == IF kind = "stop" THEN 0 ELSE 1 IN
    /\ Cardinality({i \in Ids : Retained[i] # None}) < MaxJobs - less
    /\ Cardinality(Pending) < MaxPending - less

Accepted(q) == [keys |-> {q.key}, kind |-> q.kind, rev |-> q.rev,
                state |-> "queued", attempts |-> 0, cancel |-> FALSE]

Insert(c) ==
    LET q == ask[c]
        id == born + 1 IN
    /\ q # None /\ fence = "open" /\ ~Found(q.key, q) /\ id \in Ids
    /\ HasRoom(q.kind)
    /\ q.kind = "list" => ~fenced
    /\ \E o \in Writes \cup Aborted :
          LET jobs == [Retained EXCEPT ![id] = Accepted(q)] IN
          /\ Write(jobs, o)
          /\ mem' = IF Saved(o) THEN jobs ELSE mem
          /\ manual' = (manual /\ ~(Saved(o) /\ q.kind = "apply"))
          /\ acked' = IF Saved(o) THEN [acked EXCEPT ![q.key] = id] ELSE acked
          /\ preempt' = IF Saved(o) /\ q.kind = "stop" THEN preempt \cup {id} ELSE preempt
    /\ born' = id
    /\ ask' = [ask EXCEPT ![c] = None]
    /\ UNCHANGED <<aged, rest>>

\* The second lookup finds the request answered meanwhile.
InsertFound(c) ==
    /\ ask[c] # None
    /\ Lookup(ask[c].key, ask[c])
    /\ ask' = [ask EXCEPT ![c] = None]
    /\ UNCHANGED <<aged, rest>>

\* The request is refused, for one of many reasons, or its client went away.
Withdraw(c) ==
    /\ ask[c] # None
    /\ ask' = [ask EXCEPT ![c] = None]
    /\ UNCHANGED <<doc, mem, preempt, born, acked, manual, aged, rest>>

Interrupted == IF worker = NoWorker THEN worker ELSE [worker EXCEPT !.canceled = TRUE]

\* preemptForRuntimeStop, after the mutex was released.
Preempt(i) ==
    /\ i \in preempt
    /\ preempt' = preempt \ {i}
    /\ worker' = IF worker.id = i THEN worker ELSE Interrupted
    /\ UNCHANGED <<doc, mem, ask, born, acked, delayed, aged, manual, closing, world,
                   history, restarts, edits>>

\* cancelDurableServiceJob: a job that has not begun is over, one that runs is told.
Cancel(i) ==
    /\ fence = "open" /\ In(mem, i, Waiting \cup Begun)
    /\ \E o \in Writes \cup Aborted :
          LET jobs == [mem EXCEPT ![i].cancel = TRUE,
                                  ![i].state = IF @ \in Waiting THEN "canceled" ELSE "canceling"] IN
          /\ Write(jobs, o)
          /\ mem' = IF Saved(o) THEN jobs ELSE mem
          /\ cancels' = IF Saved(o) THEN cancels \cup {i} ELSE cancels
          /\ worker' = IF Saved(o) /\ worker.id = i THEN Interrupted ELSE worker
          /\ IF Saved(o) THEN Finishes(jobs, i) ELSE UNCHANGED aged
    /\ UNCHANGED <<requests, delayed, manual, closing, world, applies, commits,
                   restarts, edits>>

-----------------------------------------------------------------------------
(* The scheduler (reconcileRound, runDurableServiceJob). *)

Due(i) == In(mem, i, Waiting) /\ i \notin delayed
DueStops == {i \in Ids : Due(i) /\ mem[i].kind = "stop"}

\* Mutant: a Stop waits for the end of the pause like any other job.
SelectedAfterPause(i) ==
    /\ worker = NoWorker /\ fence = "open" /\ ~closing
    /\ Due(i) /\ ~manual
    /\ IF DueStops = {} THEN ~fenced ELSE i \in DueStops

\* A due Stop comes before everything else and needs no admission of the round:
\* neither the operator's pause nor the closed gate delays it.
Selected(i) ==
    /\ worker = NoWorker /\ fence = "open" /\ ~closing
    /\ Due(i)
    /\ IF DueStops = {} THEN ~manual /\ ~fenced ELSE i \in DueStops

Exhausted(i) == i \in aged \/ mem[i].attempts >= MaxAttempts

\* The scheduler's context may end just before its write.
Ending == IF restarts < MaxRestarts THEN Aborted ELSE {}

Drop(i) ==
    /\ Selected(i) /\ Exhausted(i)
    /\ mem' = Set(i, "failed")
    /\ \E o \in Writes \cup Ending : Write(mem', o) /\ closing' = (o = "aborted")
    /\ Finishes(mem', i)
    /\ UNCHANGED <<requests, worker, delayed, manual, world, history, restarts, edits>>

Started(i) == [mem EXCEPT ![i].state = "running", ![i].attempts = @ + 1]

\* Mutant: a refused write leaves the job running, like every other failure.
NeverKept(o) == FALSE

\* The attempt is recorded, and then it starts. Only a refused write leaves the
\* job selectable.
Kept(o) == o = "refused"

Dispatch(i) ==
    /\ Selected(i) /\ ~Exhausted(i)
    /\ \E o \in Writes \cup Ending :
          /\ Write(Started(i), o)
          /\ mem' = IF Kept(o) THEN mem ELSE Started(i)
          /\ worker' = IF Saved(o)
                       THEN [id |-> i, pc |-> "start", canceled |-> FALSE, result |-> "none"]
                       ELSE worker
          /\ closing' = (o = "aborted")
    /\ UNCHANGED <<requests, delayed, aged, manual, world, history, restarts, edits>>

\* Every other write of the document by the scheduler and its tasks.
Maintain ==
    /\ worker = NoWorker /\ fence = "open" /\ ~closing
    /\ \E o \in Writes : Write(mem, o)
    /\ UNCHANGED <<mem, requests, worker, delayed, aged, manual, closing, world, history,
                   restarts, edits>>

\* retryReconcilerAdmissionLocked
Retry ==
    /\ worker = NoWorker /\ fence = "retry" /\ ~closing
    /\ \E o \in Writes :
          /\ Disk(mem, o)
          /\ fence' = IF Saved(o) THEN "open" ELSE Fence(o)
    /\ UNCHANGED <<mem, requests, worker, delayed, aged, manual, closing, world, history,
                   restarts, edits>>

-----------------------------------------------------------------------------
(* The job that runs (runDurableRuntimeJob, runDurableNodeApply,            *)
(* runDurableDNSApply, startServiceControlJob, runDurableNodeCheck).        *)

job == mem[worker.id]
others == <<doc, mem, requests, delayed, aged, manual, closing, cancels, restarts, edits>>
Ended(result) == [worker EXCEPT !.pc = "ended", !.result = result]
\* It asks for the exclusive admission of the gate.
Enters == worker.pc = "start" /\ ~worker.canceled /\ ~fenced

\* Somebody else holds the gate, or an installation of an update does.
Busy ==
    /\ Enters
    /\ worker' = Ended("busy")
    /\ UNCHANGED <<others, world, applies, commits>>

\* Refused before anything is done: by the end of its context, by the closed
\* gate, or by settings other than the reviewed ones.
Refuse ==
    /\ worker.pc = "start"
    /\ worker.canceled \/ fenced \/ job.rev # rev
    /\ worker' = Ended(IF worker.canceled \/ fenced \/ job.kind \in Reading
                       THEN "error" ELSE "code")
    /\ UNCHANGED <<others, world, applies, commits>>

\* What there is nothing to do about: a Stop is done, a Resume is not possible.
Settled == job.kind = IF stopped THEN "stop" ELSE "resume"
Settle ==
    /\ Enters /\ job.rev = rev /\ Settled
    /\ worker' = Ended(IF job.kind = "stop" THEN "ok" ELSE "code")
    /\ UNCHANGED <<others, world, applies, commits>>

Begin ==
    /\ Enters /\ job.rev = rev /\ ~Settled
    /\ worker' = [worker EXCEPT !.pc = "work"]
    /\ applies' = IF job.kind = "apply" THEN [applies EXCEPT ![worker.id] = @ + 1] ELSE applies
    /\ UNCHANGED <<others, world, commits>>

\* The transaction commits, the end of its context notwithstanding. A plan of DNS
\* records leaves the settings as they are.
Commit ==
    /\ worker.pc = "work" /\ job.kind \in Acting
    /\ worker' = Ended("ok")
    /\ commits' = [commits EXCEPT ![worker.id] = @ + 1]
    /\ rev' \in IF job.kind = "apply" THEN {rev, rev + 1} ELSE {rev + 1}
    /\ stopped' = IF job.kind \in Runtime THEN job.kind = "stop" ELSE stopped
    /\ UNCHANGED <<others, fenced, applies>>

\* It fails and is rolled back, or cannot be, and the gate is closed.
Fail ==
    /\ worker.pc = "work" /\ job.kind \in Acting
    /\ worker' = Ended("code")
    /\ fenced' \in {fenced, TRUE}
    /\ UNCHANGED <<others, rev, stopped, applies, commits>>

\* A batch of checks ends: of services in a worker of its own, which says how; of
\* nodes by a return. A temporary node that is not cleaned up closes the gate.
Ends(kind) ==
    IF kind = "check" THEN {"ok", "more", "code"} \cup (IF worker.canceled THEN {"canceled"} ELSE {})
    ELSE {"ok", "more", "error", "network"}
Read ==
    /\ worker.pc = "work" /\ job.kind \in Reading
    /\ \E result \in Ends(job.kind) :
         /\ worker' = Ended(result)
         /\ fenced' \in IF job.kind = "list" /\ result = "error" THEN {fenced, TRUE} ELSE {fenced}
    /\ UNCHANGED <<others, rev, stopped, applies, commits>>

-----------------------------------------------------------------------------
(* The end of an attempt (runDurableServiceJob, second half).               *)

Requeued(j, attempts) == [j EXCEPT !.state = "queued", !.attempts = attempts]
To(j, state) == [j EXCEPT !.state = state]

\* An acting job is done when its transaction returned neither an error nor a code.
Done(j, result) == result = "ok" /\ j.kind \in Acting

Outcome(j, result) ==
    IF result = "busy" THEN Requeued(j, j.attempts - 1)
    ELSE IF fenced THEN To(j, "failed")
    ELSE IF Done(j, result) THEN To(j, "completed")
    ELSE IF j.cancel THEN To(j, "canceled")
    ELSE IF closing THEN To(j, "interrupted")
    ELSE IF result = "network" /\ j.attempts < MaxAttempts THEN Requeued(j, j.attempts)
    ELSE IF result = "more" THEN Requeued(j, IF j.kind = "list" THEN 0 ELSE j.attempts - 1)
    ELSE To(j, CASE result = "ok" -> "completed"
                 [] result = "canceled" -> "canceled"
                 [] OTHER -> "failed")

\* What the write of the outcome comes to changes neither the memory nor what the
\* scheduler does next. It is given five seconds.
Slow == IF faults < MaxFaults THEN Aborted ELSE {}

Finish ==
    /\ worker.pc = "ended"
    /\ mem' = [mem EXCEPT ![worker.id] = Outcome(job, worker.result)]
    /\ \E o \in Writes \cup Slow : Write(mem', o)
    /\ worker' = NoWorker
    /\ delayed' = IF In(mem', worker.id, {"queued"}) THEN delayed \cup {worker.id} ELSE delayed
    /\ Finishes(mem', worker.id)
    /\ UNCHANGED <<requests, manual, closing, world, history, restarts, edits>>

-----------------------------------------------------------------------------
(* Time, the operator and the process.                                      *)

Ripen(i) ==
    /\ i \in delayed
    /\ delayed' = delayed \ {i}
    /\ UNCHANGED <<doc, mem, requests, worker, aged, manual, closing, world, history,
                   restarts, edits>>

\* A day passes since a job was accepted, or since it ended.
Age(i) ==
    /\ mem[i] # None /\ i \notin aged
    /\ aged' = aged \cup {i}
    /\ UNCHANGED <<doc, mem, requests, worker, delayed, manual, closing, world, history,
                   restarts, edits>>

\* interruptAutomation: the operator does something else, and the scheduler pauses.
\* The deadline of the attempt and the Stop of an update only end its context.
Interrupt ==
    /\ worker' = Interrupted
    /\ manual' \in {TRUE, manual}
    /\ UNCHANGED <<doc, mem, requests, delayed, aged, closing, world, history, restarts, edits>>

ManualEnds ==
    /\ manual /\ manual' = FALSE
    /\ UNCHANGED <<doc, mem, requests, worker, delayed, aged, closing, world, history,
                   restarts, edits>>

\* Any other change of the settings, under an admission.
Edit ==
    /\ worker.pc # "work" /\ ~fenced
    /\ edits < MaxEdits /\ edits' = edits + 1
    /\ rev' = rev + 1
    /\ stopped' \in BOOLEAN
    /\ UNCHANGED <<doc, mem, requests, worker, delayed, aged, manual, closing, fenced,
                   history, restarts>>

Shutdown ==
    /\ ~closing /\ restarts < MaxRestarts
    /\ closing' = TRUE
    /\ worker' = Interrupted
    /\ UNCHANGED <<doc, mem, requests, delayed, aged, manual, world, history, restarts, edits>>

\* Mutant: a plan is interrupted like every other job, and begins again.
RecoveredToRepeat(j) ==
    IF j = None \/ j.state \in Terminal \cup {"queued"} THEN j
    ELSE To(j, IF j.cancel THEN "canceled" ELSE "interrupted")

\* recoverDurableServiceJobs
Recovered(j) ==
    IF j = None \/ j.state \in Terminal THEN j
    ELSE IF j.kind = "apply" THEN To(j, "failed")
    ELSE IF j.cancel THEN To(j, "canceled")
    ELSE IF j.state # "queued" THEN To(j, "interrupted")
    ELSE j
AfterStart == [i \in Ids |-> Recovered(file[i])]

\* loadReconcilerLocked, after the transaction of the old process was recovered
\* or could not be. A document that is not read or not written again leaves an
\* empty queue that takes nothing.
Restart ==
    /\ restarts < MaxRestarts /\ restarts' = restarts + 1
    /\ \E o \in {"ok", "refused", "lost", "late"} :
          /\ file' = IF o \in {"ok", "late"} THEN AfterStart ELSE file
          /\ mem' = IF Saved(o) THEN AfterStart ELSE Empty
          /\ fence' = IF Saved(o) THEN "open" ELSE "closed"
          /\ IF Saved(o) THEN UNCHANGED faults ELSE faults < MaxFaults /\ faults' = faults + 1
    /\ stale' = FALSE
    /\ ask' = [c \in Clients |-> None] /\ preempt' = {} /\ worker' = NoWorker
    /\ delayed' = delayed \cup {i \in Ids : In(AfterStart, i, {"interrupted"})}
    /\ aged' = aged \ {i \in Ids : In(AfterStart, i, Terminal) /\ AfterStart[i] # file[i]}
    /\ closing' = FALSE /\ manual' \in {FALSE, manual}
    /\ fenced' \in {FALSE, fenced \/ worker.pc = "work"}
    /\ UNCHANGED <<born, acked, rev, stopped, history, edits>>

-----------------------------------------------------------------------------
Init ==
    /\ file = Empty /\ mem = Empty /\ fence = "open" /\ stale = FALSE
    /\ ask = [c \in Clients |-> None] /\ preempt = {} /\ worker = NoWorker
    /\ delayed = {} /\ aged = {} /\ manual = FALSE /\ closing = FALSE
    /\ rev = 0 /\ stopped \in BOOLEAN /\ fenced = FALSE
    /\ born = 0 /\ acked = [k \in Keys |-> None] /\ cancels = {}
    /\ applies = [i \in Ids |-> 0] /\ commits = [i \in Ids |-> 0]
    /\ faults = 0 /\ restarts = 0 /\ edits = 0

Request ==
    \E c \in Clients :
        \/ \E k \in Keys, q \in Requests : Ask(c, k, q) \/ Prepare(c, k, q)
        \/ Insert(c) \/ InsertFound(c) \/ Withdraw(c)
Schedule == Maintain \/ Retry \/ \E i \in Ids : Drop(i) \/ Dispatch(i)
Attempt == Busy \/ Refuse \/ Settle \/ Begin \/ Commit \/ Fail \/ Read \/ Finish
Environment ==
    \/ Interrupt \/ ManualEnds \/ Edit \/ Shutdown \/ Restart
    \/ \E i \in Ids : Ripen(i) \/ Age(i)
Next ==
    \/ Request \/ Schedule \/ Attempt \/ Environment
    \/ \E i \in Ids : Preempt(i) \/ Cancel(i)

Spec == Init /\ [][Next]_vars

\* The loop of the scheduler goes on with the process; an attempt has a deadline;
\* a time that is set comes; a process that is told to end ends and is started again.
Fairness ==
    /\ WF_vars(Attempt) /\ WF_vars(Retry)
    /\ WF_vars(\E i \in Ids : Drop(i) \/ Dispatch(i))
    /\ \A i \in Ids : WF_vars(Ripen(i))
    /\ WF_vars(closing /\ Restart)

FairSpec == Spec /\ Fairness

-----------------------------------------------------------------------------
(* Properties.                                                              *)

Requested == [key : Keys, kind : Kinds, rev : Nat]
ASSUME NoneAssumption == None \notin Jobs /\ None \notin Requested /\ None \notin Ids

TypeOK ==
    /\ file \in [Ids -> Jobs \cup {None}] /\ mem \in [Ids -> Jobs \cup {None}]
    /\ fence \in {"open", "retry", "closed"} /\ stale \in BOOLEAN
    /\ ask \in [Clients -> Requested \cup {None}] /\ preempt \subseteq Ids
    /\ worker \in [id : 0..MaxId, pc : {"idle", "start", "work", "ended"}, canceled : BOOLEAN,
                   result : {"none", "busy", "error", "code", "ok", "more", "network", "canceled"}]
    /\ delayed \subseteq Ids /\ aged \subseteq Ids
    /\ manual \in BOOLEAN /\ closing \in BOOLEAN
    /\ rev \in Nat /\ stopped \in BOOLEAN /\ fenced \in BOOLEAN
    /\ born \in 0..MaxId /\ acked \in [Keys -> Ids \cup {None}]
    /\ cancels \subseteq Ids
    /\ applies \in [Ids -> Nat] /\ commits \in [Ids -> Nat]
    /\ faults \in 0..MaxFaults /\ restarts \in 0..MaxRestarts /\ edits \in 0..MaxEdits

\* An acting job changes the routes at most once, and a reviewed plan is not even
\* begun twice, through busy gates, lost writes and restarts
\* (recoverDurableServiceJobs, durable_service_jobs.go:281).
ActsOnce == \A i \in Ids : commits[i] <= 1 /\ applies[i] <= 1

\* The attempt that runs is on disk before it starts, and no job is left running
\* without one: neither by a refused write nor by a lost one that the process
\* survives (durable_service_jobs.go:662).
RunningJobHasWorker ==
    /\ worker # NoWorker =>
          /\ In(mem, worker.id, Begun) /\ In(file, worker.id, Begun)
          /\ file[worker.id].attempts = mem[worker.id].attempts
    /\ (fence # "closed" /\ ~closing) => \A i \in Ids : In(mem, i, Begun) => worker.id = i

\* A key names one job for good: a repeated or a concurrent request is never
\* accepted as a second job, until the first is a day past its end
\* (enqueueDurableServiceJob, durable_service_jobs.go:330).
KeyNamesOneJob ==
    [][\A k \in Keys : acked[k] # None =>
          \/ acked'[k] = acked[k]
          \/ acked[k] \in aged /\ ~In(mem, acked[k], Waiting \cup Begun)]_vars

\* How a job ended is final once it is on disk, also for a process whose write of
\* it was reported as failed (CompareAndSwap, file_target.go:141).
SettledJobIsFinal ==
    [][\A i \in Ids : In(file, i, Terminal) => file'[i] \in {file[i], None}]_vars

\* An accepted Stop is begun or decided, whatever else waits or runs and however
\* often the operator pauses the scheduler (reconcileRound, reconciler.go:456).
StopWaits == \E i \in Ids : In(mem, i, Waiting) /\ mem[i].kind = "stop"
StopRuns == worker.id \in Ids /\ mem[worker.id] # None /\ mem[worker.id].kind = "stop"
StopIsDispatched == StopWaits ~> (StopRuns \/ ~StopWaits \/ fence = "closed")

\* "The cancelation is saved; the cleanup is awaited" (durable_service_jobs.go:69):
\* no attempt of the job begins after that.
CancelIsHonoured == [][\A i \in cancels : worker'.id = i => worker.id = i]_vars

=============================================================================
