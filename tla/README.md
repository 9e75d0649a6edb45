# Verification of RAZVILKA

RAZVILKA is a router daemon: it decides, per service, whether traffic goes
direct, through a DPI engine (NFQWS2), or through a tunnel or proxy, and it
installs that decision into processes, firewall rules and DNS of a Keenetic
router.  This directory holds TLA+ modules of the parts of the daemon whose
correctness depends on the order of steps, on failures and on restarts, the TLC
configurations that check them on small instances, and TLAPS proofs.

Paths below are relative to the repository.  `PROJECT.json` maps every
definition to the lines it stands for.

## 1. Inventory

| Component | State | Operations | Interacts with | Hard behaviour | What makes it correct |
|---|---|---|---|---|---|
| Operation gate (`internal/operationgate/gate.go`, `exclusive_*.go`) | one `Gate`: counter, exclusive flag, fence and reason, generation; per scoped lease an owner with a use count | `Enter`, `Exclusive`, `ExclusiveAfter`, `ObserveExclusive`, `ExclusiveContext`, `IdleGeneration`, release, `Fence`, forward and cleanup callbacks | every HTTP handler, every background worker, the guard that reads the durable stop | admission from many goroutines, release against a starting callback, an observation that goes stale, a fence at any moment | exclusive means alone; a callback never outlives its lease; a fence only drains |
| Dataplane transaction (`internal/dataplane/manager.go`, `execution_journal.go`) | two execution records, `latest-plan.json`, `latest-committed-plan.json`, `latest-recovery.json`, snapshots, the runtime itself | `Apply`, rollback, `Recover`, `Deactivate` | adapters, settings store, gate | every write and every adapter may fail, with or without effect; the process dies or the router reboots between any two steps | an outcome that is final is true: runtime, settings and boot plan agree with it |
| Failed rollback retry (`rollback_retry.go`) | the same files | retry at startup, explicit retry and close | startup, the operator's command line | a retry after a reboot, after another plan, after a partial restoration | closes the journal only over the runtime it names |
| Settings store (`internal/config/config.go`) | file, view in memory, uncertain flag | drafts, `SetSafeMode`, the commit of an Apply with its undo | Apply, HTTP, startup | a write that failed after the rename | memory never silently differs from what boot restores |
| Daemon startup (`cmd/razvilka/main.go`) | Safe Mode, fence | recover, settle Safe Mode, open the panel | all of the above | a crash in any earlier run; a recovery that itself fails | no boot loop, no open admission over an unfinished journal, no protection that nobody can lift |
| Service runtime control (`internal/app/service_runtime_control.go`) | stopped flag, suspended selection | Start, Stop | gate, Apply, recovery record | Stop, restart, Start | Start can be repeated |
| Private restore journal (`internal/restorejournal`) | one journal document, several targets | `Execute`, `Recover`, cache handover | stores, gate | a crash between targets; a commit record of unknown fate; later edits | all targets old or all new; a third image is never overwritten |
| Private restore coordinator (`internal/privaterestore`) | journal lease, store sessions, blocked flag | offline and online restore | restore journal, stores, gate | sessions of many stores opened in order, handed over before the journal is cleared | blocked after any uncertain outcome |
| Self-update journal (`internal/selfupdatejournal`) | receipt with phase, index, commands; file images | `Prepare`, `Install`, `Restore`, `Execute`, `ResolveUnknown`, `Accept` | helper process, installer | crash between a file and its checkpoint; an installer command of unknown effect | a command runs at most once; files are all old or all new when accepted |
| Durable stop (`operationgate/self_update_stop.go`, `control_epoch_*.go`) | two files and a lock | `Initialize`, `RequestStop`, completion, review | gate guard, update helper | stop durable in one file only | once requested, a stop is never read as absent |
| Update controller (`internal/updatecheck`), components (`internal/components`) | staged images, receipts | stage, hand over, accept, roll back | self-update journal, service manager | another process continues the work | as the journals they use |
| Autonomy (`internal/autonomy`, worker and search in `internal/app/autonomy_*.go`) | sidecar file with consent, recorded route, failure quorum, switch budget, refused candidates and traversal; the same in memory | rounds: check, search, apply, record the receipt; enrolment, policy changes, restart | gate, Apply, node checks | a sidecar write of unknown fate; a restart within a round; an operator's route between two rounds; an application whose end nobody knows | at most the budget; no replacement on one failure; nothing applied after a doubt, or over somebody else's route |
| Durable job queue (`internal/app/durable_*.go`, `reconciler.go`) | a document of jobs on disk and in memory, a fence for its writes; a worker | acceptance of a request, cancelation, dispatch, attempt, outcome, recovery, retry of a refused write | HTTP, gate, Apply, service runtime control, node and service checks | the mutex is released while a request is prepared and while a job runs; writes of unknown fate; a shutdown in an attempt | a request is one job; nothing is done twice; an end is final; a Stop waits for nobody |
| Adapters (`internal/dataplane/*`) | processes, rules, DNS of one engine, resource owners | `Snapshot` ... `Commit`, `Rollback`, `VerifyRollback`, `Reconcile`, `Deactivate` | kernel, child processes | half-done external commands | what the transaction relies on, see section 3 |
| Stores of nodes, feeds, devices, drafts, providers | one file or directory each | edit, import, restore session | restore coordinator | uncertain writes | as the settings store |
| Probes, labs, HTTP panel, backup format, catalogues, scripts | little or none | read, measure, present, encode | | | not protocols |

## 2. Plan

Written so far, in this order: `OperationGate`, `ApplyTransaction`,
`PrivateRestore` with the abstract `AtomicRestore` it implements,
`SelfUpdateStop`, `SelfUpdateJournal`, `AutonomySearch`, `JobQueue`, and proofs
about each.
The order follows the damage an error would do.

What is left:

1. An abstract transaction (a committed plan, a runtime, admission) implemented
   by `ApplyTransaction`.
2. In `ApplyTransaction`: the startup branches of pending updates, and the
   rollback retry by owners retained in memory.
3. The order among services in a round (`autonomy_round_selection.go`): starvation
   between services that wait for a first route and those that are checked.  The
   same among jobs that are no Stop (the burst limit of `reconciler.go`).  The
   boot-loop guard of `Recover` (`manager.go:954`) as a property of its own.
4. `PrivateRestore` beside `OperationGate`: the exclusive admission of the
   import as a lease of the gate instead of a program point.  The chain of four
   journal generations at startup.
5. Component updates (`internal/components`), whose receipts resemble those of
   the application's update.

Modules compose through what they abstract of one another: `RequestStop` of
`OperationGate` and the variable `stop` of `SelfUpdateJournal` are what
`SelfUpdateStop` promises; a transaction of `AutonomySearch` is a whole Apply of
`ApplyTransaction`, and so is the transaction of a job of `JobQueue`; the admission
that excludes others in all of them is a lease of `OperationGate`.

## 3. Modules

### OperationGate

One step is one critical section of `Gate.mu`, or a part of one of the owner's mutex,
so TLC sees every interleaving Go allows.  `mode` is the holders map, `active`,
`exclusive`, `generation`, `reason` are the fields of `Gate`; `owner`, `uses` belong
to the scoped lease.  `closeOwner` is three steps (`BeginClose`, `Drained`,
`ReleaseScoped`) because Go unlocks between them.  A call of `WithExclusiveContext` or
of a cleanup review is `Knock` (it takes `owner.mu`), `Pass` (the first check, which
takes and releases `Gate.mu`), `Start` (the use is counted, `owner.mu` is free and the
callback runs), `Return`, `Confirm` (the second check) and `Leave`.  A `Fence` may
fall between any two of them; in particular a forward callback may start after a fence
that came behind its first check.  `IdleGeneration` leaves a value with the caller,
who may use it at any later time.  `overlapped` is a history variable: who held a
lease or was admitted since the observation; no guard reads it.

Not modelled: labels and holder descriptions; the cancellation of a context
before admission, which only refuses; an `ObserveExclusive` is not re-counted in
the generation, as in the code.

### ApplyTransaction

One process is the daemon (or, while it is down, the recovery command or the
update helper); `pc` is what it does, `op` its local variables.  Each durable
object is a variable: `tx` and `latest` (the two execution records),
`latestPlan`, `bootPlan`, `recovery`, the settings file `cfgDisk` beside the
store's view `cfg` and `uncertain`.  `runtime` is what really runs per adapter:
off, all of a plan, or torn.

* A write succeeds, is lost, or is late: it reports an error although the new
  content is on disk (an error of the directory sync after the rename).
* A step of an adapter that fails did nothing, half or all of its work.
  `Rollback` may also report success and have restored less; only
  `VerifyRollback` decides.
* `Crash` may come between any two steps and either keeps the runtime (the
  process died) or takes it (the router rebooted); the LAN boundary's record
  survives a reboot and is then torn.
* The three publications of a commit, the two of any other outcome, and every
  one of the two execution records are separate steps.
* `Snapshot`, `Candidate` and `HealthAndCommit` stand for loops over adapters
  that leave the live runtime alone (or, for `Commit`, may tear it); how far a
  failing loop came is a choice.
* A step of an adapter writes the journal before and after itself.  These
  writes repeat the state `applying` or `rolling-back`, which every reader
  treats alike, so their failure is one of the failures of the step
  (`lostJournal`).

`AdaptersOf`, `NeedsProof`, `LanPlans`, `Reviewable` describe the plans; the
assumptions about them are those `BuildAt` and `validateNetworkPolicyParticipation`
establish.

Not modelled: plans that touch no adapter; suspended DNS and node snapshots and
`revokeUnverifiedDNS`; the resource owners of NFQ, Xray and WireGuard except
that retaining one may fail after the last record; their retry in memory;
`RefreshCommitted`; death of a runtime by itself; replacement of a pair at the
boundary; post-reboot retirement; details of journals older than v0.15; edits
of the settings by others during an Apply (admission excludes them); the
branches of startup with an update, a component or a hook repair pending, which
skip recovery.

### AtomicRestore and PrivateRestore

`AtomicRestore` is the promise of an import: the files of a request change in
one step (`Import`) or not at all, and between `Begin` and `Settle` no other file
changes.  `Save` is a store writing its own file while work is admitted,
`Interfere` a program outside the protocol.

`PrivateRestore` is the code.  `pc` is where the process is (down, ready before
the stores are loaded, serving, or a point of `ExecuteWithHandover` and
`recoverWithHandover`), `op` the local variables of the running import or
recovery: who runs it, the request, the targets still to do, the outcome, the
state of the caller's context.  `disk` are the files, `journal` the document,
`held` the open sessions or leases, `cache` and `uncertain` what each store
believes of its file (`diskImage`, `writeUncertain`), `blocked` the coordinator's
flag, `fenced` the gate.  A target is a number, its rank in the sorted order of
identifiers, because imports write in that order and recoveries in the reverse.

* Startup is `Boot` (with `Check`, `UndoTarget`, `Undone`, `Handover`, `Clear`,
  `Close` when a document is pending) and `StartRuntime`; a start that is refused
  ends the process.
* An import is `RestoreOnline` or `RestoreOffline`, `OpenTarget` per store,
  `Prepare`, `WriteTarget` per file, `Verify`, `Commit`, `Handover`, `Clear`,
  `Close` and, online, `Answer`, which fences before the admission ends.
  `WriteStopped` and the failures of `WriteTarget` go to `Check`, the recovery in
  the same process.  No caller of `RestoreOffline` exists outside tests; it is
  modelled because it is part of the coordinator's interface.
* A write succeeds, is lost, or is late, as in `ApplyTransaction`.  A read, an
  open and a close may fail.  `Panic` unwinds an online import through the
  deferred close and fence.
* `Cancel` is the client going away or its deadline; it counts up to the last
  write and not after it.  Expiry of the ten-second contexts of `Verify` and of
  the recovery is one of their failures.
* `Edit` writes a file without a lease.  The comparison and the replacement of
  one file are one step: `Target` demands it of an implementation, and between
  programs that take the file's lease `FileTarget` provides it.  A program that
  ignores leases could also write between the two; `Edit` comes between any two
  steps but not there.
* The reads that make a plan and the write of the plan are one step.  An edit in
  between leaves a before image that is no longer the file; the writes find
  this out, which is the case of an edit just after the plan.
* `foreign` (targets edited since the last import began) and `op.seen` (the
  files when it began) are history; no guard reads them.

Under the mapping, the image of a target with a record in a prepared plan is its
before image, so writes and undos are invisible, the write of "committed" is the
moment the request takes effect, and a torn set of files with a prepared plan is
still the old set.  A file another program wrote is shown as it is.

Not modelled: the four generations of journals that
`cmd/razvilka/private_recovery.go` opens one after another, second servers
contending for the lease, layouts and bindings, format checks of a document (an
unreadable one fails the load), building and merging of images, sessions with
several draft files (one lease per file is a target each here), the rename
admission of a file target.

### SelfUpdateStop

The authority of an application's update and its revocation, shared by several
processes through one directory.  `visible` is what a process reads, `survivors` what
each name may hold after a loss of power; a successful sync makes them agree.
`holder` is the lock file, `proc` the call a process is in: its point and local
variables.  A call is a chain of steps with one write or one sync per step
(`OpenDirectory`, `MakeDirectory`, the lock and its marker, the record, the request,
the record again).  An effect is admitted while its process holds the lock and its
reference is the record's; what it started goes on in `running`, until it is joined.
Forward effects, compensations and cleanups all start such work, and `running` says of
each whether it was admitted under a stop.  `acked` is history: the stop a caller was
told is durable.

`ConfirmedStopIsQuiet` is about work that was admitted before the stop.  It does not
say that nothing runs: `RecordSelfUpdateStopped` holds no lock at its second
observation, and a compensation or a cleanup admitted under the stop
(`self_update_stop.go:532-556`, `updatecheck/file_commands_linux.go:355`) may begin
between that observation and the last write, or after it.  The code promises no
more, and at this commit only tests call the function.  `AuthorityNeverResets`
compares each record with the one it replaces, the sequence included; a founded
record must belong to an installation that no reference given out can name.

Abstractions: the creation of the writer marker is one step; observing is looking
whether any work has not been joined.
Losses of power that take back unsynced names are in this module only; the other
modules have deaths between any two writes and writes whose error hides a success,
and a write that succeeded stays.
A corner found while modelling: two failed syncs, a loss of power and a stop of
another revision can leave the current record naming a request that is gone.
Reading it then fails, which keeps the stop (nobody reads it as absent); it takes
a manual repair.  Two stops that name one transaction under different revisions
are not instantiated.

### SelfUpdateJournal

The update of the application's files.  `receipts` and `pointer` are the
journal's files, `disk` the installed ones, `lock` the writer lock, `call` what
each of two callers is doing: the helper, who follows its script (`todo`), and an
operator who reviews a failed update and may call any action at any moment.
`worker` is the supervised command (it outlives its caller), `started` counts how
often a command began, `panel` the files the running panel was started from,
`record` and `archive` the helper's record and its retained copy.  An action is
called, checked against a receipt read without the lock, given the lock, checked
again and then run write by write.

A file is replaced in two steps: `CompareFile` looks at the installed image, and
`RenameFile`, after the new one was copied and synced beside it, renames it without
another look.  The journal's lock keeps other updates out but no editor, so `Edit`
may come between the two as between any others.  `edits.unseen` is history: the
edited files that no comparison has met yet.  An edit that falls into this gap is
overwritten by the code, without a copy; `EditIsKept` claims that this is the only
way to lose one: whatever a comparison meets, in a retry after a death or in a
rollback, is left alone or was retained by the transaction.

Abstractions: an installed file is the transaction whose image it holds.  The receipt
that the code writes again before each file repeats the one on disk and is part of the
comparison's step.  Settings (`Configs`) are exempt from the comparison with a
retained record once an update was accepted, as in `VerifyTerminalArtifacts`; that an
edit leaves them readable and of a revision that is not older is assumed.  Other files
are compared.  The review of non-panel evidence is free.  The ordinary panel only. A
stop between acceptance and the end of the helper leaves the record pending, as in the
code.  A crash between the record of a command's intent and its process file leaves a
command of unknown effect; `ResolveUnknown` settles it by observation.

Not modelled: digests, modes and sizes (they only refuse); download and
verification of a release; the job before its handoff; staging of artifacts.

### AutonomySearch

One service under the autopilot.  `file` and `mem` are the sidecar on disk and in
memory, `blocked` the flag of a write in doubt, `r` the copy of the entry a round
works on, `round` its network, checks and candidate, `applied` the node the
committed configuration uses.  `log` (the transactions since the last enrolment)
and `run` (the unbroken failures of the current node) are history; no guard
reads them.

* A round is `BeginRound`, a look at the current node (`CheckCurrent`,
  `RateLimited`, `ManualChange`, `NoCurrentNode`), then a `Repair` or a search
  (`PrepareSearch`, `SkipCandidate`, `CheckCandidate`, `Inconclusive`, `Intend`),
  the application (`StartTransaction` and its four ends, `RecordRoute`,
  `ResumeSearch`), and `EndRound`, which publishes what the operator sees.
* A transaction is one action per outcome; the daemon may die in it and then it
  is finished or undone at startup (`Restart`).
* A write of the sidecar that fails leaves the old or the new document and blocks
  the autopilot until the next start; some writes are prerequisites of what
  follows (`PersistThen`), the others are not looked at (`Publish`).
* Requests of the operator come between rounds, because both hold the exclusive
  admission; a change of the network and time come at any moment.
* What a check answers, a cancellation, and which of the remaining candidates is
  next are free.

Not modelled: standard and preferred routes and their NFQWS2 starter, domain
services, managed Xray, the removal of a service, reserves and refills, the pause
after three refusals, the transaction whose own rollback fails (the gate is fenced
then and no round begins), the re-application of a scope outside the budget, the
order among services, maintenance windows.  The route of a draft and the applied
one are merged, so an enrolment over a draft not yet applied is missing.

### JobQueue

The document of jobs that requests, cancelations and the scheduler share.  `file`
and `mem` are its jobs on disk and in memory; `fence` is what the code calls
blocked, with or without a retry; `stale` says that the file holds a write that
was reported as failed, so that no later write compares equal.  `worker` is the
job that runs.  `acked` (which job a key was answered with), `cancels`, `applies`
and `commits` are history; no guard reads them.

* A request is `Ask` when the first lookup answers it, and otherwise `Prepare`, with
  the mutex released, and `Insert`, `InsertFound` (the second lookup answers it) or
  `Withdraw`.  A lookup finds the key (`KnownKey`) or an unfinished job of the same
  kind and settings, whose key becomes an alias (`NewAlias`).
* A write of the document is `ok`, `refused` (the lease of the file is taken), `lost`,
  `late` (reported as failed and yet on disk), a `conflict` (the file is not the
  image the process knows) or `aborted` (its context ended before).  What memory,
  fence and worker make of each differs between the callers, and is in their actions.
* `Drop` and `Dispatch` are the choice of the scheduler with the record of the
  attempt; `Busy`, `Refuse`, `Settle`, `Begin`, `Commit`, `Fail` and `Read` the
  attempt itself, with the mutex released (a node-check whose temporary node cannot be
  removed fences the gate, `durable_node_checks.go:430-433`); `Finish` the chain of conditions that
  decides the job's state (`Outcome`), and its write.  `Maintain` is every other
  write of the document, `Retry` the lifting of a fence.
* `Preempt` follows an accepted Stop as a step of its own, because the mutex is
  released in between.  `Interrupt` is the operator's other requests and the
  deadline, `Shutdown` the end of the context, `Restart` a start of the process from
  what is on disk.
* `aged` stands for both limits of 24 hours, `delayed` for `NotBefore`.  How long
  anything takes is free.

Abstractions: a job's fingerprint is its kind and the revision of the settings it
was reviewed on; a node-check is either the one that lists (its attempts start
again with each list) or one of the service checks; the transaction of a job is one
action per outcome.

Not modelled: a Stop of a managed Xray under a closed gate; the order among jobs
that are no Stop and their burst limit; the size in bytes of the document; the
results kept for the browser; the other tasks of the scheduler except for their
writes; the branch for a job that vanished while it ran, which nothing reaches.

Two corners found while modelling.  After a crash between the commit of a Stop
and the record of its end, a job whose cancelation had been saved is reported as
canceled although its effect is there, against the comment at
`durable_service_jobs.go:738-739`.  A request that comes with a new key while a
job of the same fingerprint is being canceled becomes an alias of it, and is
canceled with it.

## 4. Runs

| Run | Instance | Shows | States |
|---|---|---|---|
| `gate` | 2 goroutines, 2 callbacks, 3 admissions that advance the generation | exclusion, callbacks inside their lease, fresh observations, the end of a release | 643 thousand |
| `apply` | plans `basic`, `other` (one adapter needs a proof) over the same 2 adapters, and `stop`; 2 faults, 2 restarts | journal, runtime, settings and boot plan agree | 3.5 million |
| `apply_lan` | a plain and a managed LAN plan, 2 faults, 2 restarts | no consumer without the LAN boundary; every operation ends | 462 thousand |
| `restore` | 2 files, 3 images, requests for all new, all old and each single file; 2 faults, 2 deaths, 1 edit | atomicity (refinement), final decisions, true answers, caches, third images, the fence; a start succeeds in the end | 640 thousand |
| `stop` | 2 processes, 2 installations, stops of two transactions; 2 faults, 1 death, 1 loss of power; symmetry | no effect without authority; nothing admitted before a confirmed stop still runs; an acknowledged stop stands; an epoch never comes back | 2.3 million |
| `update` | 1 update, ordinary or paired, of 2 files, one of them the settings and one new; 1 fault, 1 death, a stop at any moment; or 1 ordinary update, 1 death and an edit of the settings file from the first replacement on; or 2 ordinary updates, or these with the settings edited between and no operator | commands run once; receipt, files, panel and record agree; a stop freezes the update; an edit is lost only inside one replacement; a settled update stays settled; symmetry | 951 thousand |
| `autonomy` | 2 candidates, 2 networks, budget 1 in 2 ticks, cooldown 2, 3 ticks; a failed write, a restart, a request, a change of the network, any two of them; symmetry | budget, quorum, cooldown, doubt ends the search, the recorded route only | 3.1 million |
| `jobs` | 2 jobs of 5 kinds, 2 keys, 2 clients, 2 attempts, 1 alias; any three of: a job, a failed write, a restart, an edit, a day, a cancelation, a pause, an interruption, a preparation | nothing is done twice, a job that runs is recorded, a request is one job, an end is final, a Stop is dispatched | 435 thousand |
| `apply_stop`, `apply_unwritten`, `autonomy_unstarted`, `jobs_cancel` | see section 6 | violations | |

Bounds.  Gate: two goroutines are one that holds or observes and one that comes
between; two callbacks are one ending and one beginning; three generations allow an
observation, a finished operation and a third one.  Apply: two faults are one that
starts a rollback and one in it; a restart is needed to reach a recovery and a second
one to repeat it; `stop` is the empty plan.  Two plans of the same adapters show that
one plan's rollback leaves nothing of the other.  With a third fault
`SettledJournalNamesTheRuntime` does not hold, for the reason of finding 2; two faults
are the bound under which it is claimed.  Restore: two faults and two deaths let an
import fail, die in its recovery, and die again in the recovery of that; the third
image is one no plan contains.  Stop: the three writes of a stop can be cut at any of
them and repeated by the other process.  Update: two files are one replaced and one
created; the longer a script of one update, the more it covers, so constraint
`Explored` lets two updates run without faults, deaths and stops, and one beside an
edit with a death only; a death is what brings a second comparison of the same file,
in a retry or in the rollback.  Autonomy: the clock is three ticks and the windows
two, so a budget and a cooldown end within a run; constraint `Few` keeps any two of
the four things that go wrong.  `Kept` (four refusals) is not reached with two nodes.
Jobs: two attempts are one that is repeated and the last one; two keys are one request
from two windows or two requests.  Constraint `Few` keeps three things beside the
ordinary course of a job, `WithStop` lets jobs of two kinds meet only where one is a
Stop, `InOrder` takes keys and clients in order, since nothing tells them apart.  The
sizes of the queue do not bite with two jobs.  A constraint cuts behaviours at their
first state beyond it, which is sound for invariants and step properties.
`StopIsDispatched` is liveness: it is shown of the behaviours that stay within the
three things of `Few`, and no more is claimed.

Deadlock is checked in `gate`, `restore` and `stop`.  It is not in the others:
with budgets used up and an operator who asks for nothing the daemon idles
(`apply`, `apply_lan`); a durable stop really ends everything (`update`);
the clock ends at `MaxTime` (`autonomy`); jobs, edits and restarts are used up (`jobs`).

Symmetry permutes processes and installation identifiers (`stop`), transactions
(`update`), nodes and networks (`autonomy`); the modules never tell them apart,
and none of these runs checks liveness.

Fairness.  `gate` assumes that a call that has begun goes on, that its callback
returns, and that `closeOwner` goes on once its wait is over; it does not
assume that anybody releases or asks.  `apply_lan` assumes that the daemon takes its
next step: every adapter step and every rollback runs
under a timeout (`rollbackTimeout`, the contexts of startup).  Nothing is assumed
of the operator or of crashes.  `restore` assumes that a started import or
recovery takes its next step (file operations return, and the contexts of recovery
expire) and that the supervisor of the router starts a daemon that ended.
`jobs` assumes that an attempt goes on (it has a deadline), that the loop of the
scheduler comes round to a job it may take and to the retry of a refused write, that a
`NotBefore` comes, and that a process which was told to end ends and is started
again; it assumes nothing of clients, of the operator's pause or of the gate.
`StopIsDispatched` excepts a fence that is closed for good.
`StartupSucceeds` excepts a target another program edited: startup refuses a third
image for as long as it is there.  `SelfUpdateStop`, `SelfUpdateJournal` and
`AutonomySearch` state no liveness: an update waits for an operator, and a search
ends at the first doubt, by design.

## 5. Proofs

Every property named here holds for all values of the constants that satisfy the named
assumptions of the modules: finiteness of `Ops` and `Uses`, the shape of the other
constants, natural bounds, that `None` is none of the things it stands beside, and
that the bytes of an owner's edit are none that an update installs (`EditAssumption`:
a copy of the update's own image needs no keeping).  Type correctness (`TypeOK`) is
proved instead of being checked by a run; for `AutonomySearch` (`TypesAreKept`) it
rests on `TInv`, which leaves the reservations of the budget open, and on `BudgetInv`,
which is about them.

`OperationGateProofs` proves every safety property of the gate, two more than the
run checks.  `GateFencedOnlyDrains`: after a fence nothing is admitted and no forward
call passes a check; a forward callback starts only if its call had passed the first
check before, and a scoped lease has at most one such call, since it holds
`owner.mu`.  `GateForwardSuccess`: a forward call reports success only if it was not
cancelled before its callback returned and the gate was not fenced before the check
that follows.  `LeaseExclusion`
and `CallbackUnderLease` are about cardinalities; the induction needs in addition
that an owner exists only over an exclusive lease, that uses exist only while the
owner is open or closing, that a call at its door keeps it from closing, and that a
drained owner has none.  `ObservationIsFresh`
needs that a known generation is at most the current one and that an idle
observation starts with no holder.

`ApplyTransactionProofs` proves every safety property the runs check of
`ApplyTransaction`, in layers; each layer uses the ones before.  The field lemmas at
their start (`BeginFields`, `SnapshotFields`, ...) say once per action what it
writes, so that no later proof expands an action.

* `ApplyTypeOK`, from `TInv`: besides the types, a step at work has a plan, what
  it is about to write is the state of a record, and a record that is not empty
  names a plan.  Without these `tx[op.plan]` is not defined and nothing can be
  said about a written record.
* `ApplyOpenGateHasSettledJournal`, from `JInv`: the transaction's record holds
  what was just written unless a write failed (`TxHoldsSaid`, `BothHoldSaid`);
  startup past its check saw a settled journal (`BootSawSettled`); a recorded
  refusal keeps admission closed (`RecordFences`).  The property itself says
  nothing about the places between two writes, which is why it is not inductive.
* `RollbackRestoresEverything` and `AppliedFollowsCommitted`, from `AInv`.  `KInv`
  says which operation can be at which point with which outcome.  `UInv` says what
  the local variables of Apply promise: `pub` and `undo` tell whether the boot plan
  and the settings still have to be taken back, `prevBoot` and `prevCfg` what they
  were, and an outcome "rolled-back" that every adapter was read back as restored.
  `MInv` carries the agreement of settings and plan over the operations that may
  break it: startup, whose Safe Mode and pending record excuse it, and an Apply that
  begins from it.  Both theorems hold for any number of faults and restarts.
* `SettledNamesRuntime` and `CommittedIsBootable`, from `NInv`.  `OInv`: an adapter,
  or its snapshot, runs only a plan that names it (a theorem of its own,
  `AdaptersRunTheirPlans`).  `SInv` is what the files alone say of the runtime,
  because after a crash nothing else is left: a settled or settleable journal
  names all that runs, and a failed rollback leaves only images of its two plans.
  `DInv` is the same while an operation is open, point by point.
* `BoundaryCoversConsumers`, from `GInv`: the boundary is started before the first
  consumer of a managed plan, and touched only when none of them runs (all were read
  back as restored, or were deactivated).  The induction needs the runtime of the
  previous plan and of the snapshots, hence `NInv`.

The last three are claimed until a third step fails (`faults <= 2`).  `Costs` shows
why: a rollback over records that do not show it has lost both of its
"rolling-back" writes and was started by a failure, which makes three.  With
`MaxFaults = 3` TLC finds both `SettledJournalNamesTheRuntime` and
`CommittedJournalIsBootable` violated, by finding 2.  `GateCoversConsumers` inherits
the bound from the invariants its proof uses; on the instance of `apply_lan` with
three faults TLC finds no violation, and nothing is claimed of it.

`PrivateRestoreProofs` proves all safety properties of the module.  The invariant
`Inv` has three parts besides the types:
`PointInv`, what a program point says of journal, mode, blocked flag and fence;
`FileInv`, that a file nobody else wrote holds an image of the pending plan, the
new one after the decision; `RequestInv`, that the plan is the request laid over
the files found.  `AnswerIsTrue` is about one point at the end and says nothing
of the files on the way, hence `RequestInv`.  `RestoreImportIsAtomic` is the
refinement of `AtomicRestore`: `SwapIsHidden`, `CommitIsImport`, `TurnSettles`
and `OthersHidden` map the steps, by what they write.  `RestoreCachesFollowFiles` needs
two more parts: an online import holds a session on every file it may write
(`HeldInv`), so that only a store whose session is open may believe an image its
file does not have, and the closing of the session takes the image over or marks the
store uncertain (`CacheInv`).

`SelfUpdateStopProofs` proves all four properties of the run `stop`, for any
number of processes, stops, faults, deaths and losses of power: an effect runs only
under the authority it was reviewed for, a confirmed stop finds nothing running that
was admitted before it, an acknowledged stop survives, and unless power is lost a
record is followed only by the stop of the next epoch.
None of them is inductive, because a loss of power brings back older contents:
the invariant speaks of every content a name may hold (`survivors`), and of what
the process in the middle of a stop has already synced.

`SelfUpdateJournalProofs` proves, from one invariant (`Invariance`), that a
command runs at most once, that the current receipt stays readable in every cut
between two writes, that a settled update stays settled and that a stop freezes an
update except for its compensation.  The invariant says, for each point of a call,
which of its checks still hold although they were made on a receipt read earlier:
the lock excludes the other writer, and a count of starts never exceeds the set of
commands in the receipt.

`SelfUpdateFilesProofs` builds on it and proves the other four properties of the
run `update`.  `Form` says once that a step of an operation writes one receipt, the
pointer or one file, begins a command, or does none of these, with what it was
checked against (`OperationForm`); the four proofs go by the form and not by the
operations.

* `ReceiptTells`, from `FilesInv`: the property speaks of the current receipt only,
  and a receipt becomes current after it was written, so the invariant keeps what a
  caller on its way knows of the files, and that every receipt was written over one
  whole version.
* `PanelRunsInstalled`, from `PanelInv` and `WorkerInv`: a supervised command that
  runs is the one the current receipt says was started.  A file is replaced only in
  a phase that has no such command.
* `RecordNeverAhead`, from `RecordInv`: the helper writes its record after the lock
  was given back; what it writes was settled, and `SettledStaysFinal` keeps it so.
* `EditsAreKept`, from `SeenInv`: a caller between its comparison and its rename has
  compared an image that was the retained one or the transaction's own, unless the
  file was edited since.  `Form` has the comparison as a case of its own.

`AutonomySearchProofs` proves type correctness and all five properties of the run
`autonomy`.

* `UnrecordedRouteStays`, from `RouteInv`: memory and disk agree unless a write is
  in doubt, and from the look at the current node to the commit the route is the
  recorded one.
* `FailuresAreConfirmed`, from `QuorumInv`: an entry that counts failures counts
  those of the run of failures in the history, and two of them lie `Gap` apart.
* `DoubtIsLast`, from `LatchInv`: whatever the next search must not forget (a
  transaction in doubt; a refusal that is neither listed nor old) halts the search
  of the document on disk and of the round's own entry, and a round on its list has
  nothing to remember but the refusal it is about to record.  `PastInv` (no time of
  the log or of a list lies ahead, no transaction is of a network yet to come) is
  what makes it safe to prune the list.
* `RejectionsCoolDown`, from the same and from `ListInv` and `WarmInv`: no candidate
  on the list, and none that is being applied, still cools down.
* `BudgetIsKept`, from `BudgetInv`.  The sidecar keeps reservations, the property is
  about transactions, and the two are matched from the end: `Ready` says that every
  transaction of the window has a reservation of its own that is not older, on disk,
  in a memory that is not in doubt and in the entry of the round; `Spare` says it of
  a round that has reserved and not begun, with the last reservation left over, which
  is why `RefundSwitch` may take it back.  A reservation without room for one more
  transaction is refused, so no `Limit + 1` transactions in a row fall within the
  hour (`LogWithinBudget`), and then no hour has more than `Limit`
  (`HourWithinBudget`).  A restart or a lost write only leaves more reservations than
  transactions.  `Recent` is stated as the rest after the aged reservations and not
  as a filter, which would need induction over sequences; time does not go back, so
  the two are the same (`RecentIs`).

`JobQueueProofs` proves type correctness and the four safety properties of the run
`jobs`, for any number of jobs, keys, clients, attempts, failed writes, restarts
and edits.  The invariant has three layers, each used by the next.

* `Shape`: types; no identifier yet to be drawn is in use (`BornInv`); the job that
  runs is begun, in memory and on disk, with the same attempt (`RunningJobHasWorker`,
  which is inductive together with these).
* `JobInv`: memory and disk agree on what a job is (`SameRequest`) and, until the
  fence closes, on keys (`SameKeys`); no two jobs share a key; the job a key was
  answered with has the key or is forgotten (`KeyInv`); an end on disk is in the
  memory that may still be written (`FinalInv`).  A process whose write of an end
  was late has an older memory; what saves it is that the fence is closed and that
  the comparison fails, hence `Live` and `stale`.  Every writing step is shown once
  to be a proposal with an outcome (`Proposes`), and the three facts about
  proposals serve all of them.
* `ActInv`: a plan that has begun is at work, over, or left to the next process,
  which fails it (`AppliesInv`); a committed Stop or Resume has outdated the settings
  it was asked for (`Counted`), so a repetition is refused; the settings under a
  transaction are the reviewed ones (`AttemptInv`).

Only model-checked: liveness (`CloseCompletes`, `EveryOperationEnds`,
`StartupSucceeds`, `StopIsDispatched`; liveness under fairness is beyond the prover),
and what the three theorems about `ApplyTransaction` above leave open beyond two
failed steps.

## 6. Findings

1. `apply_stop`.  Stop, restart, Start: the next start after a committed Stop
   refuses the intent of the empty plan, sets Safe Mode and records the refusal
   for the plan that stays committed; Start is then refused every time.
   `docs/SERVICE_CONTROL_RU.md:33-34` says that an error leaves the possibility
   to repeat the action.  The comment at `cmd/razvilka/main.go:1416-1418` has the same
   end without a run of its own: after a failed rollback was retried or closed it
   leaves Safe Mode "for the operator to clear", and the next start refuses the
   intent because Safe Mode is on, which blocks every way to clear it.
2. `apply_unwritten`.  A rollback goes on although "rolling-back" reached
   neither record.  If the last record of the commit had arrived late, the disk
   says "committed" while the adapters are being restored
   (`execution_journal.go:45-46`: "Restart must not erase an unfinished rollback
   fence").
3. `autonomy_unstarted`.  The latch that ends a search after an unknown outcome is
   set (`autonomy_first_usable.go:315`) before the plan is built, and it stays when
   the plan is not ready and nothing was started.  The message of
   `autonomy_capability.go:92` promises that the autopilot repeats the attempt
   later; every later round ends in a review until the operator enrols the service
   again.
4. `jobs_cancel`.  A cancelation that is saved while its attempt meets a busy gate
   does not end the job: the branch of `ErrBusy` (`durable_service_jobs.go:726`) comes
   before the one of `CancelRequested` and queues the job again, and the next attempt
   runs under a fresh context.  The client was told that the cancelation is saved and
   the cleanup awaited (`durable_service_jobs.go:69`, `durable_runtime_jobs.go:29`).
