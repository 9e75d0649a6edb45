--------------------------- MODULE ApplyTransaction ---------------------------
(***************************************************************************)
(* The dataplane transaction and everything that survives it               *)
(* (src/internal/dataplane/manager.go, execution_journal.go,               *)
(* rollback_retry.go; the callers in src/cmd/razvilka/main.go and          *)
(* src/internal/app; the settings store src/internal/config/config.go).    *)
(*                                                                         *)
(* Apply replaces the runtime of several adapters, then the applied        *)
(* settings, then the plan the router restores at boot.  Each of these is  *)
(* a separate durable object: two execution records (one in the            *)
(* transaction directory, one "latest"), two plan files, the settings file,*)
(* the recovery record, and the processes and firewall rules themselves.   *)
(* The daemon may die or the router may reboot between any two of them, a  *)
(* write may fail with or without effect, and an adapter may fail half way.*)
(* A restart retries a reviewed rollback, completes a provable commit,     *)
(* refuses the rest, and restores the committed plan.                      *)
(*                                                                         *)
(* A journal write inside a step of one adapter only repeats the state     *)
(* "applying" or "rolling-back", which every reader treats alike, so it is *)
(* one of the ways in which the step fails.  The writes that publish an    *)
(* outcome are steps of their own, for they can be torn by a crash.        *)
(***************************************************************************)
EXTENDS Naturals

CONSTANTS
    Plans,          \* reviewed plans that may be applied
    NoPlan,         \* "no such file"
    Adapters,       \* registered dataplane adapters
    Gate,           \* NetworkPolicyAdapterID, the LAN admission boundary
    AdaptersOf,     \* Plan.Adapters
    NeedsProof,     \* adapters of a plan bound to a network epoch
    LanPlans,       \* plans with Plan.LAN
    Reviewable,     \* adapters a failed rollback may be retried for
    MaxFaults,      \* bound on failed steps and writes
    MaxCrashes      \* bound on restarts

ASSUME PlanAssumption ==
    /\ NoPlan \notin Plans
    /\ AdaptersOf \in [Plans -> SUBSET Adapters]
    /\ NeedsProof \in [Plans -> SUBSET Adapters]
    /\ LanPlans \subseteq Plans
    /\ Reviewable \subseteq Adapters \ {Gate}
\* A plan reaches the boundary exactly if it is bound to a LAN policy, and then
\* none of its adapters is independent of the network.
ASSUME LanAssumption ==
    \A p \in Plans :
       /\ NeedsProof[p] \subseteq AdaptersOf[p]
       /\ p \in LanPlans <=> Gate \in AdaptersOf[p]
       /\ p \in LanPlans => NeedsProof[p] = AdaptersOf[p]
ASSUME BoundAssumption == MaxFaults \in Nat /\ MaxCrashes \in Nat

VARIABLES
    pc,          \* what the daemon is doing
    op,          \* local variables of the running operation
    fenced,      \* operationgate: closed by FenceJournal
    runtime,     \* what really runs for each adapter
    snap,        \* snapshots in the transaction directory of the last Apply
    tx,          \* transactions/<plan>/execution.json
    latest,      \* latest-execution.json
    latestPlan,  \* latest-plan.json
    bootPlan,    \* latest-committed-plan.json
    recovery,    \* latest-recovery.json
    cfgDisk,     \* the settings file
    cfg,         \* Store.cfg
    uncertain,   \* Store.writeUncertain
    faults, crashes

journals == <<tx, latest>>
plans == <<latestPlan, bootPlan>>
settings == <<cfgDisk, cfg, uncertain>>
vars == <<pc, op, fenced, runtime, snap, journals, plans, recovery, settings,
          faults, crashes>>

-----------------------------------------------------------------------------
(* Values. *)

Off == [plan |-> NoPlan, whole |-> TRUE]
Whole(p) == [plan |-> p, whole |-> TRUE]
Torn(p) == [plan |-> p, whole |-> FALSE]
AllOff == [a \in Adapters |-> Off]

\* A record keeps its plan, its state and whether a step failed while the
\* adapters were being activated, checked or committed.
Record(p, state, failed) == [plan |-> p, state |-> state, failed |-> failed]
NoRecord == Record(NoPlan, "none", FALSE)
PlanFile(p, state) == [plan |-> p, state |-> state]

\* What a write may do: succeed, fail without effect, fail after the rename.
Outcomes == {"ok", "lost", "late"}
After(o, old, new) == IF o = "lost" THEN old ELSE new
Fault(o) == IF o = "ok" THEN faults' = faults
                        ELSE faults < MaxFaults /\ faults' = faults + 1

\* "canary-failed" also stands for "network-stale": every reader of the
\* execution records treats the two alike.
Terminal == {"committed", "rolled-back", "canary-failed"}
Idle == [kind |-> "none", plan |-> NoPlan, say |-> "none", todo |-> {},
         retire |-> {}, prepared |-> {}, live |-> FALSE, failed |-> FALSE,
         bad |-> FALSE, again |-> FALSE, lostJournal |-> FALSE,
         broken |-> FALSE, verified |-> FALSE, undo |-> FALSE, pub |-> FALSE,
         prevBoot |-> NoPlan, prevCfg |-> NoPlan]

\* committedLocked: the boot copy, or a latest plan of an older format.
Committed ==
    IF bootPlan # NoPlan THEN bootPlan
    ELSE IF latestPlan.state = "committed" THEN latestPlan.plan ELSE NoPlan
PlanAdapters(p) == IF p \in Plans THEN AdaptersOf[p] ELSE {}
RequiresProof(p) == p \in Plans /\ NeedsProof[p] # {}
Retiring(p) == PlanAdapters(Committed) \ AdaptersOf[p]
Affected(p) == AdaptersOf[p] \cup Retiring(p)

\* checkExecutionRecovery: a finished outcome, recorded twice.
Settled ==
    \/ latest = NoRecord
    \/ latest.state \in Terminal /\ tx[latest.plan] = latest

\* settleCommittedPublication: only the final records are missing.
Settleable ==
    /\ latest.state = "committing"
    /\ tx[latest.plan].state \in {"committing", "committed"}
    /\ latestPlan = PlanFile(latest.plan, "committed")
    /\ bootPlan = latest.plan

\* rollbackAppliedSettingsMatch: the applied settings are those of the plan,
\* which selects something and is not a managed LAN plan.
SettingsMatch(applied, p) ==
    applied = p /\ p \notin LanPlans /\ PlanAdapters(p) # {}

\* reviewFailedRollback and the guard of the settings, Safe Mode ignored.
Retriable ==
    /\ latest.state = "rollback-failed" /\ latest.failed
    /\ tx[latest.plan] = latest
    /\ latestPlan = PlanFile(latest.plan, "rollback-failed")
    /\ bootPlan \notin {NoPlan, latest.plan}
    /\ PlanAdapters(bootPlan) = PlanAdapters(latest.plan)
    /\ PlanAdapters(latest.plan) \subseteq Reviewable
    /\ SettingsMatch(cfgDisk.applied, bootPlan)

Refusals == {"journal-recovery-required", "intent-refused", "safe-mode"}

\* bootRecoveryPending: a failed boot recovery of the plan still committed.
BootRecoveryPending ==
    /\ recovery.state \in Refusals \cup {"degraded"}
    /\ recovery.plan = NoPlan \/ Committed \in {NoPlan, recovery.plan}

Init ==
    /\ pc = "down" /\ op = Idle /\ fenced = FALSE
    /\ runtime = AllOff /\ snap = AllOff
    /\ tx = [p \in Plans |-> NoRecord] /\ latest = NoRecord
    /\ latestPlan = PlanFile(NoPlan, "none") /\ bootPlan = NoPlan
    /\ recovery = PlanFile(NoPlan, "none")
    /\ cfgDisk \in {[applied |-> NoPlan, safe |-> s] : s \in BOOLEAN}
    /\ cfg = cfgDisk /\ uncertain = FALSE
    /\ faults = 0 /\ crashes = 0

-----------------------------------------------------------------------------
(* The settings file. *)

\* saveLocked: a failure restores the view in memory; when the file may have
\* been replaced, every later save is refused.
SaveSettings(o, new) ==
    \/ /\ uncertain /\ o = "lost"
       /\ UNCHANGED <<settings, faults>>
    \/ /\ ~uncertain /\ Fault(o)
       /\ cfg' = IF o = "ok" THEN new ELSE cfg
       /\ cfgDisk' = After(o, cfgDisk, new)
       /\ uncertain' = (o = "late")

\* SetSafeMode does not write a flag that is already there.
SetSafeMode(o, safe) ==
    IF cfg.safe = safe THEN o = "ok" /\ UNCHANGED <<settings, faults>>
                       ELSE SaveSettings(o, [cfg EXCEPT !.safe = safe])

-----------------------------------------------------------------------------
(* Leaving an operation, publishing an outcome. *)

\* applyDataplane fences after an unconfirmed rollback or a journal error; the
\* startup operations hand over to the next step of startup.
Return(fence) ==
    /\ op' = Idle
    /\ pc' = CASE op.kind = "apply" -> "idle"
               [] op.kind = "retry" -> "recover"
               [] op.kind = "settle" -> "check"
               [] OTHER -> "down"
    /\ fenced' = (fenced \/ (op.kind = "apply" /\ fence))

Publish(state) == [op EXCEPT !.say = state, !.bad = FALSE]

\* fail, rollback and the reject paths: what they do first.
ToRollback(local) ==
    /\ op' = [local EXCEPT !.say = "rolling-back", !.bad = FALSE,
                           !.retire = {}, !.todo = local.prepared \ {Gate}]
    /\ pc' = "write-tx"
ToReject(local) ==
    /\ op' = [local EXCEPT !.say = "canary-failed", !.bad = FALSE,
                           !.retire = {}, !.todo = {}]
    /\ pc' = "write-plan"

\* Mutant: a refusal of one step is answered without rollback although an
\* earlier step has already changed the runtime.
FailForgetsLive(local, refused) ==
    IF refused THEN ToReject(local) ELSE ToRollback(local)

\* fail: a refusal before any live mutation needs no rollback.
Fail(local, refused) ==
    IF refused /\ ~local.live THEN ToReject(local) ELSE ToRollback(local)

\* writeExecution: both records are attempted, the transaction's first.
WriteTx ==
    /\ pc = "write-tx"
    /\ \E o \in Outcomes :
          /\ Fault(o)
          /\ tx' = [tx EXCEPT ![op.plan] =
                       After(o, @, Record(op.plan, op.say, op.failed))]
          /\ op' = [op EXCEPT !.bad = @ \/ o # "ok"]
    /\ pc' = "write-latest"
    /\ UNCHANGED <<fenced, runtime, snap, latest, plans, recovery, settings,
                   crashes>>

WriteLatest ==
    /\ pc = "write-latest"
    /\ \E o \in Outcomes :
          /\ Fault(o)
          /\ latest' = After(o, latest, Record(op.plan, op.say, op.failed))
          /\ op' = [op EXCEPT !.bad = @ \/ o # "ok"]
    /\ pc' = "written"
    /\ UNCHANGED <<fenced, runtime, snap, tx, plans, recovery, settings,
                   crashes>>

\* recordLocked: the latest plan, and after it the boot copy of a committed
\* one.  An outcome other than a commit is recorded in the journal anyway.
WritePlan ==
    /\ pc = "write-plan"
    /\ \E o \in Outcomes :
          /\ Fault(o)
          /\ latestPlan' = After(o, latestPlan, PlanFile(op.plan, op.say))
          /\ IF op.say # "committed"
               THEN op' = [op EXCEPT !.bad = o # "ok"] /\ pc' = "write-tx"
               ELSE IF o = "ok" THEN op' = op /\ pc' = "write-boot"
                                ELSE ToRollback(op)
    /\ UNCHANGED <<fenced, runtime, snap, journals, bootPlan, recovery,
                   settings, crashes>>

\* Mutant: a boot copy that could not be written is not noticed.
WriteBootUnchecked ==
    /\ pc = "write-boot"
    /\ \E o \in Outcomes :
          /\ Fault(o)
          /\ bootPlan' = After(o, bootPlan, op.plan)
    /\ pc' = "write-tx"
    /\ UNCHANGED <<op, fenced, runtime, snap, journals, latestPlan, recovery,
                   settings, crashes>>

WriteBoot ==
    /\ pc = "write-boot"
    /\ \E o \in Outcomes :
          /\ Fault(o)
          /\ bootPlan' = After(o, bootPlan, op.plan)
          /\ IF o = "ok" THEN op' = op /\ pc' = "write-tx" ELSE ToRollback(op)
    /\ UNCHANGED <<fenced, runtime, snap, journals, latestPlan, recovery,
                   settings, crashes>>

unpublished == <<runtime, snap, journals, plans, recovery, settings, faults,
                 crashes>>

\* The first record of an Apply, or its loss.
Begun ==
    /\ pc = "written" /\ op.say = "applying"
    /\ IF op.bad THEN Return(TRUE)
                 ELSE op' = op /\ pc' = "snapshot" /\ UNCHANGED fenced
    /\ UNCHANGED unpublished

\* finishCommit, in three publications.
Committing ==
    /\ pc = "written" /\ op.say = "committing"
    /\ IF op.bad THEN ToRollback(op)
                 ELSE /\ op' = [Publish("committed") EXCEPT !.pub = TRUE]
                      /\ pc' = "write-plan"
    /\ UNCHANGED <<fenced, unpublished>>

\* The last record, and what the owners retain once it is written.
CommittedOrNot ==
    /\ pc = "written" /\ op.say = "committed"
    /\ IF op.bad /\ op.kind = "apply"
         THEN ToRollback(op) /\ UNCHANGED <<fenced, faults>>
         ELSE \/ Return(FALSE) /\ UNCHANGED faults
              \/ op.kind = "apply" /\ Fault("lost") /\ ToRollback(op)
                 /\ UNCHANGED fenced
    /\ UNCHANGED <<runtime, snap, journals, plans, recovery, settings,
                   crashes>>

\* rejectCanary, rejectNetwork.
Rejected ==
    /\ pc = "written" /\ op.say = "canary-failed"
    /\ Return(op.bad \/ op.lostJournal)
    /\ UNCHANGED unpublished

\* rollback: whether or not "rolling-back" could be written, it goes on.
RollingBack ==
    /\ pc = "written" /\ op.say = "rolling-back"
    /\ op' = [op EXCEPT !.broken = op.bad]
    /\ pc' = "restore"
    /\ UNCHANGED <<fenced, unpublished>>

\* Mutant: an outcome that could not be recorded is not corrected.
RolledBackOrNotUncorrected ==
    /\ pc = "written" /\ op.say \in {"rolled-back", "rollback-failed"}
    /\ Return(op.say = "rollback-failed" \/ op.lostJournal)
    /\ UNCHANGED unpublished

\* An outcome that could not be recorded is corrected once, to
\* rollback-failed, in whichever record remains writable.
RolledBackOrNot ==
    /\ pc = "written" /\ op.say \in {"rolled-back", "rollback-failed"}
    /\ IF op.bad /\ ~op.again
         THEN /\ op' = [Publish("rollback-failed") EXCEPT !.again = TRUE]
              /\ pc' = "write-plan" /\ UNCHANGED fenced
         ELSE Return(op.say = "rollback-failed" \/ op.bad \/ op.lostJournal)
    /\ UNCHANGED unpublished

-----------------------------------------------------------------------------
(* Apply: from the reviewed plan to the commit. *)

forward == <<fenced, journals, plans, recovery, crashes>>

\* Preconditions of Apply.  A plan is bound to a settings revision, so a plan
\* that was committed is never built again; a plan that neither starts nor
\* retires an adapter (Plan.Noop) is left out.
StartApply(p) ==
    /\ pc = "idle" /\ ~fenced
    /\ ~cfg.safe
    /\ Settled
    /\ tx[p].state # "committed"
    /\ Affected(p) # {}
    /\ Committed \in LanPlans /\ p \notin LanPlans => runtime = AllOff
    /\ op' = [Idle EXCEPT !.kind = "apply", !.plan = p, !.say = "applying",
                          !.prevBoot = Committed, !.prevCfg = cfg.applied]
    /\ snap' = AllOff
    /\ pc' = "preserve"
    /\ UNCHANGED <<runtime, settings, faults, forward>>

\* preserveCommittedJournal: a committed plan that only the latest plan file
\* names is copied before that file can be replaced.
Preserve ==
    /\ pc = "preserve"
    /\ IF bootPlan # NoPlan \/ Committed = NoPlan
         THEN pc' = "write-tx" /\ UNCHANGED <<op, fenced, bootPlan, faults>>
         ELSE \E o \in Outcomes :
                 /\ Fault(o)
                 /\ bootPlan' = After(o, bootPlan, Committed)
                 /\ IF o = "ok"
                      THEN pc' = "write-tx" /\ UNCHANGED <<op, fenced>>
                      ELSE Return(TRUE)
    /\ UNCHANGED <<runtime, snap, journals, latestPlan, recovery, settings,
                   crashes>>

\* What a snapshot of these adapters records.
Image(done) == [a \in Adapters |-> IF a \in done THEN runtime[a] ELSE Off]

\* Snapshots, the boundary first.  Its adapter refuses a snapshot while an
\* earlier policy still owns the boundary.
Snapshot ==
    /\ pc = "snapshot"
    /\ \/ /\ Gate \in Affected(op.plan) => runtime[Gate] = Off
          /\ snap' = Image(Affected(op.plan))
          /\ op' = [op EXCEPT !.prepared = Affected(op.plan)]
          /\ pc' = "candidate"
          /\ UNCHANGED faults
       \/ \E done \in SUBSET Affected(op.plan), refused, journal \in BOOLEAN :
             /\ done # Affected(op.plan)
             /\ Gate \in Affected(op.plan) /\ Gate \notin done => done = {}
             /\ Gate \in done => runtime[Gate] = Off
             /\ Fault("lost")
             /\ snap' = Image(done)
             /\ Fail([op EXCEPT !.prepared = done, !.lostJournal = journal],
                     refused)
    /\ UNCHANGED <<runtime, settings, forward>>

\* Stage, Validate and Canary work on isolated candidates only.
Candidate ==
    /\ pc = "candidate"
    /\ \/ /\ op' = [op EXCEPT !.todo = AdaptersOf[op.plan],
                              !.retire = op.prepared \ AdaptersOf[op.plan]]
          /\ pc' = "activate"
          /\ UNCHANGED faults
       \/ \E refused, journal \in BOOLEAN :
             /\ Fault("lost")
             /\ Fail([op EXCEPT !.lostJournal = journal], refused)
    /\ UNCHANGED <<runtime, snap, settings, forward>>

\* A failed live step: nothing, half or all of it was done.
Partial(a, goal) ==
    {runtime[a], goal} \cup
    {Torn(p) : p \in {runtime[a].plan, goal.plan} \ {NoPlan}}

\* Mutant: consumers are started without waiting for the boundary.
ActivateAnyOrder(a) ==
    /\ pc = "activate" /\ a \in op.todo
    /\ \/ /\ runtime' = [runtime EXCEPT ![a] = Whole(op.plan)]
          /\ op' = [op EXCEPT !.todo = @ \ {a}, !.live = TRUE]
          /\ UNCHANGED <<pc, faults>>
       \/ /\ Fault("lost")
          /\ UNCHANGED runtime
          /\ Fail([op EXCEPT !.failed = TRUE, !.live = TRUE], FALSE)
    /\ UNCHANGED <<snap, settings, forward>>

\* The boundary first, then the retired adapters, then the consumers.  A
\* preflight refusal, or a journal that fails before the step, changes
\* nothing and leaves liveMutation as it was.
Activate(a) ==
    /\ pc = "activate" /\ a \in op.todo
    /\ a # Gate => Gate \notin op.todo /\ op.retire = {}
    /\ \/ /\ runtime' = [runtime EXCEPT ![a] = Whole(op.plan)]
          /\ op' = [op EXCEPT !.todo = @ \ {a}, !.live = TRUE]
          /\ UNCHANGED <<pc, faults>>
       \/ /\ Fault("lost")
          /\ \/ /\ \E effect \in Partial(a, Whole(op.plan)), lost \in BOOLEAN :
                      /\ runtime' = [runtime EXCEPT ![a] = effect]
                      /\ Fail([op EXCEPT !.failed = TRUE, !.live = TRUE,
                                         !.lostJournal = lost], FALSE)
             \/ /\ UNCHANGED runtime
                /\ \E refused \in BOOLEAN :
                      Fail([op EXCEPT !.failed = TRUE,
                                      !.lostJournal = ~refused], refused)
    /\ UNCHANGED <<snap, settings, forward>>

DeactivateRetiring(a) ==
    /\ pc = "activate" /\ a \in op.retire
    /\ Gate \notin op.todo
    /\ \/ /\ runtime' = [runtime EXCEPT ![a] = Off]
          /\ op' = [op EXCEPT !.retire = @ \ {a}, !.live = TRUE]
          /\ UNCHANGED <<pc, faults>>
       \/ \E effect \in Partial(a, Off), lost \in BOOLEAN :
             /\ Fault("lost")
             /\ runtime' = [runtime EXCEPT ![a] = effect]
             /\ Fail([op EXCEPT !.live = TRUE, !.lostJournal = lost], FALSE)
    /\ UNCHANGED <<snap, settings, forward>>

\* Health, the commit of the adapters and the network check after them.
HealthAndCommit ==
    /\ pc = "activate" /\ op.todo = {} /\ op.retire = {}
    /\ \/ /\ UNCHANGED <<runtime, faults>>
          /\ op' = [op EXCEPT !.live = TRUE]
          /\ pc' = "config"
       \/ \E failed, lost \in BOOLEAN,
             torn \in SUBSET (AdaptersOf[op.plan] \ {Gate}) :
             /\ Fault("lost")
             /\ runtime' = [a \in Adapters |->
                              IF a \in torn THEN Torn(op.plan) ELSE runtime[a]]
             /\ Fail([op EXCEPT !.failed = failed \/ torn # {}, !.live = TRUE,
                                !.lostJournal = lost], FALSE)
    /\ UNCHANGED <<snap, settings, forward>>

\* The configuration commit, then the last checks of the network.
CommitConfig ==
    /\ pc = "config"
    /\ \E o \in Outcomes :
          /\ SaveSettings(o, [cfg EXCEPT !.applied = op.plan])
          /\ IF o = "ok"
               THEN LET done == [op EXCEPT !.undo = TRUE]
                    IN  \/ /\ op' = [done EXCEPT !.say = "committing"]
                           /\ pc' = "write-tx"
                        \/ ToRollback(done)
               ELSE ToRollback([op EXCEPT !.live = TRUE])
    /\ UNCHANGED <<runtime, snap, forward>>

-----------------------------------------------------------------------------
(* Rollback, and its retry or close after a restart. *)

\* What the runtime of an adapter is brought back to.
Target(a) == IF op.kind = "close" THEN Off ELSE snap[a]

\* Consumers first.  A failure does not stop the others, and a rollback that
\* reports success may have restored less: its readback decides.
Restore(a) ==
    /\ pc = "restore" /\ a \in op.todo
    /\ \/ /\ runtime' = [runtime EXCEPT ![a] = Target(a)]
          /\ op' = [op EXCEPT !.todo = @ \ {a}]
          /\ UNCHANGED faults
       \/ /\ Fault("lost")
          /\ \E effect \in Partial(a, Target(a)), silent \in BOOLEAN :
                /\ silent => op.kind # "close"
                /\ runtime' = [runtime EXCEPT ![a] = effect]
                /\ op' = [op EXCEPT !.todo = @ \ {a},
                                    !.broken = @ \/ ~silent]
    /\ UNCHANGED <<pc, snap, settings, forward>>

\* Mutant: the settings of the failed plan stay applied.
UndoConfigForgotten ==
    /\ pc = "restore" /\ op.todo = {} /\ op.undo
    /\ op' = [op EXCEPT !.undo = FALSE]
    /\ UNCHANGED <<pc, runtime, snap, settings, faults, forward>>

\* undoCommit, after the last consumer.
UndoConfig ==
    /\ pc = "restore" /\ op.todo = {} /\ op.undo
    /\ \E o \in Outcomes :
          /\ SaveSettings(o, [cfg EXCEPT !.applied = op.prevCfg])
          /\ op' = [op EXCEPT !.undo = FALSE, !.broken = @ \/ o # "ok"]
    /\ UNCHANGED <<pc, runtime, snap, forward>>

\* restoreCommitted, once a publication of the plan was attempted.
RestoreBootPlan ==
    /\ pc = "restore" /\ op.todo = {} /\ ~op.undo /\ op.pub
    /\ \E o \in Outcomes :
          /\ Fault(o)
          /\ bootPlan' = After(o, bootPlan, op.prevBoot)
          /\ op' = [op EXCEPT !.pub = FALSE, !.broken = @ \/ o # "ok"]
    /\ UNCHANGED <<pc, fenced, runtime, snap, journals, latestPlan, recovery,
                   settings, crashes>>

\* Mutant: the readback of the consumers is believed whatever it finds.
VerifyConsumersBlindly ==
    /\ pc = "restore" /\ op.todo = {} /\ ~op.undo /\ ~op.pub
    /\ op' = [op EXCEPT !.verified = ~op.broken]
    /\ pc' = "gate"
    /\ UNCHANGED <<runtime, snap, settings, faults, forward>>

\* VerifyRollback of every consumer: a difference is an error, and an exact
\* runtime that is not live is restored but not confirmed.
VerifyConsumers ==
    /\ pc = "restore" /\ op.todo = {} /\ ~op.undo /\ ~op.pub
    /\ LET consumers == op.prepared \ {Gate}
       IN  \E error, confirmed \in BOOLEAN :
              /\ (\E a \in consumers : runtime[a] # Target(a)) => error
              /\ consumers = {} => confirmed /\ ~error
              /\ op' = [op EXCEPT !.broken = @ \/ error,
                                  !.verified = ~op.broken /\ ~error
                                                          /\ confirmed]
    /\ pc' = "gate"
    /\ UNCHANGED <<runtime, snap, settings, faults, forward>>

ToOutcome(broken) ==
    /\ pc' = "write-plan"
    /\ op' = [op EXCEPT !.bad = FALSE, !.broken = broken,
                        !.say = IF broken THEN "rollback-failed"
                                          ELSE "rolled-back"]

\* The boundary last, and only over consumers that were read back.
RollbackGate ==
    /\ pc = "gate"
    /\ IF Gate \notin op.prepared
         THEN ToOutcome(op.broken) /\ UNCHANGED <<runtime, faults>>
         ELSE IF op.live /\ ~op.verified
         THEN ToOutcome(TRUE) /\ UNCHANGED <<runtime, faults>>
         ELSE \/ /\ runtime' = [runtime EXCEPT ![Gate] = snap[Gate]]
                 /\ ToOutcome(op.broken) /\ UNCHANGED faults
              \/ /\ Fault("lost")
                 /\ \E effect \in Partial(Gate, snap[Gate]) :
                       runtime' = [runtime EXCEPT ![Gate] = effect]
                 /\ ToOutcome(TRUE)
    /\ UNCHANGED <<snap, settings, forward>>

Recovering(kind) ==
    op' = [Idle EXCEPT !.kind = kind, !.plan = latest.plan, !.live = TRUE,
                       !.failed = latest.failed,
                       !.prepared = PlanAdapters(latest.plan),
                       !.todo = PlanAdapters(latest.plan)]

\* retryFailedRollbackAtStart, before the committed plan is recovered.
RetryAtStart ==
    /\ pc = "retry"
    /\ IF Retriable THEN Recovering("retry") /\ pc' = "restore"
                    ELSE pc' = "recover" /\ UNCHANGED op
    /\ UNCHANGED <<runtime, snap, settings, faults, forward>>

\* The explicit -close-rollback-plan, while the daemon does not run.
CloseFailedRollback ==
    /\ pc = "down" /\ Retriable
    /\ Recovering("close") /\ pc' = "restore"
    /\ UNCHANGED <<runtime, snap, settings, faults, forward>>

-----------------------------------------------------------------------------
(* Startup: Manager.Recover and settleRecoverySafeMode. *)

Start ==
    /\ pc = "down"
    /\ pc' = "retry"
    /\ cfg' = cfgDisk
    /\ UNCHANGED <<op, runtime, snap, cfgDisk, uncertain, faults, forward>>

\* settleCommittedPublication, the only interruption that is completed.
SettleCommit ==
    /\ pc = "recover"
    /\ IF Settleable
         THEN /\ op' = [Idle EXCEPT !.kind = "settle", !.plan = latest.plan,
                                    !.say = "committed"]
              /\ pc' = "write-tx"
         ELSE pc' = "check" /\ UNCHANGED op
    /\ UNCHANGED <<runtime, snap, settings, faults, forward>>

Boot(p, say, todo) ==
    /\ op' = [Idle EXCEPT !.kind = "boot", !.plan = p, !.say = say,
                          !.todo = todo]
    /\ UNCHANGED <<runtime, snap, settings, faults, forward>>

Authorized == SettingsMatch(cfg.applied, Committed) /\ ~cfg.safe
BootLoop == recovery.plan = Committed
            /\ recovery.state \in {"degraded", "safe-mode"}

\* An unfinished or inconsistent journal is never replayed.
RefuseJournal ==
    /\ pc = "check" /\ ~Settled
    /\ Boot(NoPlan, "journal-recovery-required", {})
    /\ pc' = "record"

NothingToRecover ==
    /\ pc = "check" /\ Settled /\ Committed = NoPlan
    /\ Boot(NoPlan, "skipped", {})
    /\ pc' = "record"

\* bootRecoveryGuard; the review is not asked for a managed LAN plan.
RefuseIntent ==
    /\ pc = "check" /\ Settled /\ Committed # NoPlan
    /\ Committed \notin LanPlans /\ ~Authorized
    /\ Boot(Committed, "intent-refused", {})
    /\ pc' = "record"

\* Every process observes a network epoch of its own, so what needs a proof
\* waits for fresh checks; the other adapters are restored now.
WaitForNetwork ==
    /\ pc = "check" /\ Settled /\ RequiresProof(Committed)
    /\ Committed \in LanPlans \/ Authorized
    /\ Boot(Committed, "network-stale",
            AdaptersOf[Committed] \ NeedsProof[Committed])
    /\ pc' = "reconcile"

\* The boot-loop guard, or the recovery of the committed plan.
ReconcileOrGuard ==
    /\ pc = "check" /\ Settled
    /\ Committed # NoPlan /\ ~RequiresProof(Committed) /\ Authorized
    /\ IF BootLoop
         THEN Boot(Committed, "safe-mode", AdaptersOf[Committed])
              /\ pc' = "cleanup"
         ELSE Boot(Committed, "recovered", AdaptersOf[Committed])
              /\ pc' = "reconcile"

Reconcile(a) ==
    /\ pc = "reconcile" /\ a \in op.todo
    /\ \/ /\ runtime' = [runtime EXCEPT ![a] = Whole(op.plan)]
          /\ op' = [op EXCEPT !.todo = @ \ {a}]
          /\ UNCHANGED faults
       \/ /\ Fault("lost")
          /\ \E effect \in Partial(a, Whole(op.plan)) :
                runtime' = [runtime EXCEPT ![a] = effect]
          /\ op' = [op EXCEPT !.todo = @ \ {a}, !.bad = TRUE]
    /\ UNCHANGED <<pc, snap, settings, forward>>

Reconciled ==
    /\ pc = "reconcile" /\ op.todo = {}
    /\ IF op.bad /\ op.say = "recovered"
         THEN /\ op' = [op EXCEPT !.say = "degraded",
                                  !.todo = AdaptersOf[op.plan]]
              /\ pc' = "cleanup"
         ELSE op' = [op EXCEPT !.bad = FALSE] /\ pc' = "record"
    /\ UNCHANGED <<runtime, snap, settings, faults, forward>>

\* Manager.Deactivate, run by the self-update helper while the daemon is down.
DeactivateAll ==
    /\ pc = "down"
    /\ op' = [Idle EXCEPT !.kind = "deactivate", !.todo = Adapters]
    /\ pc' = "cleanup"
    /\ UNCHANGED <<runtime, snap, settings, faults, forward>>

\* Mutant: the boundary waits for a consumer that could not be deactivated.
CleanupWaiting(a) ==
    /\ pc = "cleanup" /\ a \in op.todo
    /\ a = Gate => op.todo = {Gate} /\ ~op.broken
    /\ \/ /\ runtime' = [runtime EXCEPT ![a] = Off]
          /\ op' = [op EXCEPT !.todo = @ \ {a}]
          /\ UNCHANGED faults
       \/ /\ Fault("lost")
          /\ op' = [op EXCEPT !.todo = @ \ {a}, !.broken = TRUE]
          /\ UNCHANGED runtime
    /\ UNCHANGED <<pc, snap, settings, forward>>

\* deactivateForRecovery and Deactivate: the boundary last, and not at all
\* once a consumer could not be deactivated.
Cleanup(a) ==
    /\ pc = "cleanup" /\ a \in op.todo
    /\ a = Gate => op.todo = {Gate}
    /\ \/ /\ a = Gate => ~op.broken
          /\ runtime' = [runtime EXCEPT ![a] = Off]
          /\ op' = [op EXCEPT !.todo = @ \ {a}]
          /\ UNCHANGED faults
       \/ /\ a = Gate /\ op.broken
          /\ op' = [op EXCEPT !.todo = @ \ {a}]
          /\ UNCHANGED <<runtime, faults>>
       \/ /\ a = Gate => ~op.broken
          /\ Fault("lost")
          /\ \E effect \in Partial(a, Off) :
                runtime' = [runtime EXCEPT ![a] = effect]
          /\ op' = [op EXCEPT !.todo = @ \ {a}, !.broken = TRUE]
    /\ UNCHANGED <<pc, snap, settings, forward>>

Cleaned ==
    /\ pc = "cleanup" /\ op.todo = {}
    /\ IF op.kind = "boot" THEN pc' = "record" /\ UNCHANGED op
                           ELSE pc' = "down" /\ op' = Idle
    /\ UNCHANGED <<runtime, snap, settings, faults, forward>>

\* writeRecoveryLocked, and the two reasons to keep admission closed: a
\* journal error, or a failure that no record classifies.
RecordRecovery ==
    /\ pc = "record"
    /\ \E o \in Outcomes :
          /\ Fault(o)
          /\ recovery' = After(o, recovery, PlanFile(op.plan, op.say))
          /\ op' = [op EXCEPT !.bad = o # "ok"]
          /\ fenced' = (\/ op.say = "journal-recovery-required"
                        \/ o # "ok" /\ op.say \in {"skipped", "recovered",
                                                   "intent-refused"})
    /\ pc' = "settle"
    /\ UNCHANGED <<runtime, snap, journals, plans, settings, crashes>>

\* settleRecoverySafeMode and retireSafeMode, then the panel opens.
SettleSafeMode ==
    /\ pc = "settle"
    /\ \E o \in Outcomes :
          LET protect == op.say \in Refusals \cup {"degraded"}
                         \/ (op.bad /\ op.say # "network-stale")
          IN  /\ IF op.say = "network-stale"
                   THEN o = "ok" /\ UNCHANGED <<settings, faults>>
                   ELSE SetSafeMode(o, protect)
              /\ fenced' = (fenced \/ (protect /\ o # "ok"))
    /\ op' = Idle
    /\ pc' = "idle"
    /\ UNCHANGED <<runtime, snap, journals, plans, recovery, crashes>>

\* clearRetiredSafeMode, asked for by the operator's Start, Stop or wizard.
ClearRetiredSafeMode ==
    /\ pc = "idle" /\ ~fenced
    /\ cfg.safe /\ ~BootRecoveryPending
    /\ \E o \in Outcomes : SetSafeMode(o, FALSE)
    /\ UNCHANGED <<pc, op, runtime, snap, forward>>

\* The daemon or a recovery command dies.  A reboot also takes the processes
\* and the rules, but the boundary's owner record survives and is then torn.
Crash ==
    /\ pc # "down"
    /\ crashes < MaxCrashes /\ crashes' = crashes + 1
    /\ \/ UNCHANGED runtime
       \/ runtime' = [a \in Adapters |->
                        IF a = Gate /\ runtime[a] # Off
                          THEN Torn(runtime[a].plan) ELSE Off]
    /\ pc' = "down" /\ op' = Idle /\ fenced' = FALSE
    /\ cfg' = cfgDisk /\ uncertain' = FALSE
    /\ UNCHANGED <<snap, journals, plans, recovery, cfgDisk, faults>>

-----------------------------------------------------------------------------
(* Specification. *)

Publication ==
    \/ WriteTx \/ WriteLatest \/ WritePlan \/ WriteBoot
    \/ Begun \/ Committing \/ CommittedOrNot \/ Rejected \/ RollingBack
    \/ RolledBackOrNot

ApplyStep ==
    \/ Preserve \/ Snapshot \/ Candidate \/ HealthAndCommit \/ CommitConfig
    \/ \E a \in Adapters : Activate(a) \/ DeactivateRetiring(a)

RollbackStep ==
    \/ UndoConfig \/ RestoreBootPlan \/ VerifyConsumers \/ RollbackGate
    \/ \E a \in Adapters : Restore(a)

StartupStep ==
    \/ RetryAtStart \/ SettleCommit \/ RefuseJournal \/ NothingToRecover
    \/ RefuseIntent \/ WaitForNetwork \/ ReconcileOrGuard \/ Reconciled
    \/ Cleaned \/ RecordRecovery \/ SettleSafeMode
    \/ \E a \in Adapters : Reconcile(a) \/ Cleanup(a)

\* The steps the daemon takes once it has begun something.
Daemon == Publication \/ ApplyStep \/ RollbackStep \/ StartupStep

\* What a person, or the router, begins.
Demand ==
    \/ \E p \in Plans : StartApply(p)
    \/ CloseFailedRollback \/ Start \/ DeactivateAll
    \/ ClearRetiredSafeMode \/ Crash

Next == Daemon \/ Demand

Spec == Init /\ [][Next]_vars

\* Every step of the daemon is bounded by a timeout or returns an error; only
\* those are assumed to be taken.  Nothing obliges a person to act.
FairSpec == Spec /\ WF_vars(Daemon)

-----------------------------------------------------------------------------
(* Properties. *)

Names == Plans \cup {NoPlan}
Runtimes == [Adapters -> [plan : Names, whole : BOOLEAN]]
States == {"none", "applying", "committing", "committed", "canary-failed",
           "rolling-back", "rolled-back", "rollback-failed"}
Records == [plan : Names, state : States, failed : BOOLEAN]
PlanFiles == [plan : Names, state : States]
Kinds == {"none", "apply", "retry", "close", "settle", "boot", "deactivate"}
Says == States \cup Refusals \cup
        {"skipped", "recovered", "network-stale", "degraded"}
Locals ==
    [kind : Kinds, plan : Names, say : Says, todo : SUBSET Adapters,
     retire : SUBSET Adapters, prepared : SUBSET Adapters, live : BOOLEAN,
     failed : BOOLEAN, bad : BOOLEAN, again : BOOLEAN, lostJournal : BOOLEAN,
     broken : BOOLEAN, verified : BOOLEAN, undo : BOOLEAN, pub : BOOLEAN,
     prevBoot : Names, prevCfg : Names]
Places == {"down", "retry", "recover", "check", "reconcile", "cleanup",
           "record", "settle", "idle", "write-plan", "write-boot", "write-tx",
           "write-latest", "written", "preserve", "snapshot", "candidate",
           "activate", "config", "restore", "gate"}

\* The state has its type, and a step that writes a transaction's record knows
\* which transaction.
TypeOK ==
    /\ pc \in Places /\ op \in Locals /\ fenced \in BOOLEAN
    /\ pc \in {"write-plan", "write-boot", "write-tx", "write-latest"}
          => op.plan \in Plans
    /\ runtime \in Runtimes /\ snap \in Runtimes
    /\ tx \in [Plans -> Records] /\ latest \in Records
    /\ latestPlan \in PlanFiles /\ bootPlan \in Names
    /\ recovery \in [plan : Names, state : Says]
    /\ cfgDisk \in [applied : Names, safe : BOOLEAN]
    /\ cfg \in [applied : Names, safe : BOOLEAN] /\ uncertain \in BOOLEAN
    /\ faults \in 0 .. MaxFaults /\ crashes \in 0 .. MaxCrashes

\* Admission is open only over a journal whose last outcome is final in both
\* records: every way out of Apply, of a rollback and of startup either
\* publishes such an outcome or fences (applyDataplane, Recover).
OpenGateHasSettledJournal == pc = "idle" /\ ~fenced => Settled

\* A settled journal never hides what runs: whichever step failed, and
\* whenever the daemon died, nothing of any plan but the committed one
\* remains once both records say the outcome is final.
SettledJournalNamesTheRuntime ==
    Settled => \A a \in Adapters : runtime[a].plan \in {NoPlan, Committed}

\* A journal that says "committed" is backed by the plan a reboot restores:
\* finishCommit publishes the plan, its boot copy and the records in an order
\* in which no failure and no crash leaves the last without the others.
CommittedJournalIsBootable ==
    Settled /\ latest.state = "committed"
    => bootPlan = latest.plan /\ latestPlan = PlanFile(bootPlan, "committed")

\* While admission is open and boot recovery left no protection, the settings
\* a person sees as applied are those of the plan the next boot restores.
AppliedMatchesCommitted ==
    /\ pc = "idle" /\ ~fenced /\ ~cfg.safe /\ ~uncertain
    /\ Committed \notin LanPlans \cup {NoPlan}
    => cfg.applied = Committed

\* The LAN boundary outlives its consumers: at no step of Apply, rollback,
\* recovery or cleanup does an adapter of a managed plan run without the whole
\* boundary of that plan.
GateCoversConsumers ==
    \A a \in Adapters \ {Gate} :
       runtime[a].plan \in LanPlans => runtime[Gate] = Whole(runtime[a].plan)

\* Apply answers "rolled-back" without a fence only if every adapter it
\* prepared, the boot plan and the applied settings are what they were before.
RolledBackRestoresEverything ==
    [][/\ pc = "written" /\ op.kind = "apply" /\ op.say = "rolled-back"
       /\ pc' = "idle" /\ ~fenced'
       => /\ \A a \in op.prepared : runtime[a] = snap[a]
          /\ Committed = op.prevBoot
          /\ cfg.applied = op.prevCfg]_vars

\* Whatever fails, an operation comes to an outcome and a startup opens the
\* panel: no two steps wait for each other.
EveryOperationEnds == pc \notin {"idle", "down"} ~> pc \in {"idle", "down"}

\* "Restart must not erase an unfinished rollback fence": while Apply undoes
\* what it did, the records on disk are not those of a finished outcome.
UnfinishedRollbackIsRecorded ==
    pc \in {"restore", "gate"} /\ op.kind = "apply" => ~Settled

\* After an explicit Stop the operator can start again, and an error "leaves
\* the possibility to repeat the action" (docs/SERVICE_CONTROL_RU.md:33-34):
\* Start must be able to clear a Safe Mode that it finds set.
StoppedSafeModeIsClearable ==
    /\ pc = "idle" /\ ~fenced /\ cfg.safe
    /\ cfg.applied = Committed /\ Committed # NoPlan
    /\ PlanAdapters(Committed) = {}
    => ~BootRecoveryPending

=============================================================================
