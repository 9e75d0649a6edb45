------------------------ MODULE ApplyTransactionProofs ------------------------
(***************************************************************************)
(* Proofs about ApplyTransaction for any plans, adapters and bounds on     *)
(* faults and restarts.                                                    *)
(***************************************************************************)
EXTENDS ApplyTransaction, TLAPS

Working == {"write-plan", "write-boot", "write-tx", "write-latest", "written",
            "preserve", "snapshot", "candidate", "activate", "config",
            "restore", "gate", "reconcile"}
Writing == {"write-plan", "write-boot", "write-tx", "write-latest", "written",
            "preserve"}

(***************************************************************************)
(* Type correctness is inductive together with three facts: a transaction  *)
(* or a recovery at work has a plan, what it is about to write is a state  *)
(* of a record, and a record that is not empty names a plan.               *)
(***************************************************************************)
WorkNamesPlan == pc \in Working => op.plan \in Plans
WritesState == pc \in Writing => op.say \in States
RecordNamesPlan == latest.state # "none" => latest.plan \in Plans

TInv == TypeOK /\ WorkNamesPlan /\ WritesState /\ RecordNamesPlan

-----------------------------------------------------------------------------
(* Values. *)

Runtime == [plan : Names, whole : BOOLEAN]

LEMMA RuntimeValues ==
    /\ Off \in Runtime
    /\ \A p \in Names : Whole(p) \in Runtime /\ Torn(p) \in Runtime
    /\ AllOff \in Runtimes
BY DEF Off, Whole, Torn, AllOff, Runtime, Runtimes, Names

LEMMA PartialValues ==
    ASSUME runtime \in Runtimes, NEW a \in Adapters, NEW goal \in Runtime
    PROVE  Partial(a, goal) \subseteq Runtime
<1>1. runtime[a] \in Runtime
  BY DEF Runtime, Runtimes
<1>2. runtime[a].plan \in Names /\ goal.plan \in Names
  BY <1>1 DEF Runtime
<1>3. \A p \in {runtime[a].plan, goal.plan} \ {NoPlan} : Torn(p) \in Runtime
  BY <1>2, RuntimeValues
<1> QED
  BY <1>1, <1>3 DEF Partial

LEMMA RecordValues ==
    /\ NoRecord \in Records
    /\ \A p \in Names, s \in States, f \in BOOLEAN : Record(p, s, f) \in Records
    /\ \A p \in Names, s \in States : PlanFile(p, s) \in PlanFiles
BY DEF NoRecord, Record, PlanFile, Records, PlanFiles, States, Names

LEMMA IdleValue == Idle \in Locals
BY DEF Idle, Locals, Kinds, Says, States, Names

LEMMA CommittedValue == TypeOK => Committed \in Names
BY DEF TypeOK, Committed, PlanFiles, Names

LEMMA PlanAdaptersValue == \A p : PlanAdapters(p) \subseteq Adapters
BY PlanAssumption DEF PlanAdapters

\* The budget of faults is kept by every write and every failing step.
LEMMA FaultKeeps ==
    ASSUME faults \in 0 .. MaxFaults, NEW o, Fault(o)
    PROVE  faults' \in 0 .. MaxFaults
BY BoundAssumption DEF Fault

LEMMA SaveKeeps ==
    ASSUME TypeOK, NEW o \in Outcomes,
           NEW new \in [applied : Names, safe : BOOLEAN], SaveSettings(o, new)
    PROVE  /\ cfgDisk' \in [applied : Names, safe : BOOLEAN]
           /\ cfg' \in [applied : Names, safe : BOOLEAN]
           /\ uncertain' \in BOOLEAN /\ faults' \in 0 .. MaxFaults
BY FaultKeeps DEF SaveSettings, TypeOK, After, settings

\* The steps that leave for a rollback or a rejection keep the local variables
\* typed.
LEMMA RollbackKeeps ==
    ASSUME NEW local \in Locals, local.plan \in Plans, ToRollback(local)
    PROVE  /\ op' \in Locals /\ op'.plan \in Plans /\ op'.say \in States
           /\ pc' = "write-tx"
BY DEF ToRollback, Locals, Says, States

LEMMA LeaveKeeps ==
    ASSUME NEW local \in Locals, NEW refused \in BOOLEAN,
           local.plan \in Plans, Fail(local, refused)
    PROVE  /\ op' \in Locals /\ op'.plan \in Plans /\ op'.say \in States
           /\ pc' \in {"write-tx", "write-plan"}
<1>1. CASE ToReject(local)
  BY <1>1 DEF ToReject, Locals, Says, States
<1> QED
  BY <1>1, RollbackKeeps DEF Fail

LEMMA ReturnKeeps ==
    ASSUME NEW fence \in BOOLEAN, fenced \in BOOLEAN, Return(fence)
    PROVE  /\ op' \in Locals /\ pc' \in Places /\ pc' \notin Working
           /\ fenced' \in BOOLEAN
BY IdleValue DEF Return, Places, Working

-----------------------------------------------------------------------------
(* Publications. *)

LEMMA WritesKeep ==
    ASSUME TInv, WriteTx \/ WriteLatest
    PROVE  TInv'
<1> USE DEF TInv, TypeOK
<1>1. op.plan \in Plans /\ op.say \in States /\ op.failed \in BOOLEAN
  BY DEF WriteTx, WriteLatest, WorkNamesPlan, WritesState, Working, Writing,
         Locals
<1>2. Record(op.plan, op.say, op.failed) \in Records
  BY <1>1, RecordValues DEF Names
<1>3. CASE WriteTx
  <2>1. PICK o \in Outcomes :
          /\ Fault(o)
          /\ tx' = [tx EXCEPT ![op.plan] =
                      After(o, @, Record(op.plan, op.say, op.failed))]
          /\ op' = [op EXCEPT !.bad = @ \/ o # "ok"]
    BY <1>3 DEF WriteTx
  <2>2. faults' \in 0 .. MaxFaults
    BY <2>1, FaultKeeps
  <2>3. tx' \in [Plans -> Records]
    BY <1>1, <1>2, <2>1 DEF After
  <2>4. op' \in Locals /\ op'.plan \in Plans /\ op'.say \in States
    BY <1>1, <2>1 DEF Locals
  <2> QED
    BY <1>3, <2>2, <2>3, <2>4
       DEF WriteTx, Places, Working, Writing, WorkNamesPlan, WritesState,
           RecordNamesPlan, plans, settings
<1>4. CASE WriteLatest
  <2>1. PICK o \in Outcomes :
          /\ Fault(o)
          /\ latest' = After(o, latest, Record(op.plan, op.say, op.failed))
          /\ op' = [op EXCEPT !.bad = @ \/ o # "ok"]
    BY <1>4 DEF WriteLatest
  <2>2. faults' \in 0 .. MaxFaults
    BY <2>1, FaultKeeps
  <2>3. latest' \in Records /\ (latest'.state # "none" => latest'.plan \in Plans)
    BY <1>1, <1>2, <2>1 DEF After, Record, RecordNamesPlan
  <2>4. op' \in Locals /\ op'.plan \in Plans /\ op'.say \in States
    BY <1>1, <2>1 DEF Locals
  <2> QED
    BY <1>4, <2>2, <2>3, <2>4
       DEF WriteLatest, Places, Working, Writing, WorkNamesPlan, WritesState,
           RecordNamesPlan, plans, settings
<1> QED
  BY <1>3, <1>4

LEMMA PlanWritesKeep ==
    ASSUME TInv, WritePlan \/ WriteBoot
    PROVE  TInv'
<1> USE DEF TInv, TypeOK
<1>1. op.plan \in Plans /\ op.say \in States /\ op \in Locals
  BY DEF WritePlan, WriteBoot, WorkNamesPlan, WritesState, Working, Writing
<1>2. PlanFile(op.plan, op.say) \in PlanFiles
  BY <1>1, RecordValues DEF Names
<1>3. ToRollback(op)
      => op' \in Locals /\ op'.plan \in Plans /\ op'.say \in States
         /\ pc' = "write-tx"
  BY <1>1, RollbackKeeps
<1>4. CASE WritePlan
  <2>1. PICK o \in Outcomes :
          /\ Fault(o)
          /\ latestPlan' = After(o, latestPlan, PlanFile(op.plan, op.say))
          /\ IF op.say # "committed"
               THEN op' = [op EXCEPT !.bad = o # "ok"] /\ pc' = "write-tx"
               ELSE IF o = "ok" THEN op' = op /\ pc' = "write-boot"
                                ELSE ToRollback(op)
    BY <1>4 DEF WritePlan
  <2>2. faults' \in 0 .. MaxFaults
    BY <2>1, FaultKeeps
  <2>3. latestPlan' \in PlanFiles
    BY <1>2, <2>1 DEF After
  <2>4. op' \in Locals /\ op'.plan \in Plans /\ op'.say \in States
        /\ pc' \in {"write-tx", "write-boot"}
    BY <1>1, <1>3, <2>1 DEF Locals
  <2> QED
    BY <1>4, <2>2, <2>3, <2>4
       DEF WritePlan, Places, Working, Writing, WorkNamesPlan, WritesState,
           RecordNamesPlan, journals, settings
<1>5. CASE WriteBoot
  <2>1. PICK o \in Outcomes :
          /\ Fault(o)
          /\ bootPlan' = After(o, bootPlan, op.plan)
          /\ IF o = "ok" THEN op' = op /\ pc' = "write-tx" ELSE ToRollback(op)
    BY <1>5 DEF WriteBoot
  <2>2. faults' \in 0 .. MaxFaults
    BY <2>1, FaultKeeps
  <2>3. bootPlan' \in Names
    BY <1>1, <2>1 DEF After, Names
  <2>4. op' \in Locals /\ op'.plan \in Plans /\ op'.say \in States
        /\ pc' = "write-tx"
    BY <1>1, <1>3, <2>1
  <2> QED
    BY <1>5, <2>2, <2>3, <2>4
       DEF WriteBoot, Places, Working, Writing, WorkNamesPlan, WritesState,
           RecordNamesPlan, journals, settings
<1> QED
  BY <1>4, <1>5

\* What an operation decides once both records were attempted.
LEMMA PublishedKeep ==
    ASSUME TInv, Begun \/ Committing \/ CommittedOrNot \/ Rejected
                 \/ RollingBack \/ RolledBackOrNot
    PROVE  TInv'
<1> USE DEF TInv, TypeOK
<1>1. op.plan \in Plans /\ op.say \in States /\ op \in Locals
  BY DEF Begun, Committing, CommittedOrNot, Rejected, RollingBack,
         RolledBackOrNot, WorkNamesPlan, WritesState, Working, Writing
<1>2. /\ UNCHANGED <<runtime, snap, journals, plans, recovery, settings,
                     crashes>>
      /\ faults' \in 0 .. MaxFaults
  BY FaultKeeps DEF Begun, Committing, CommittedOrNot, Rejected, RollingBack,
                    RolledBackOrNot, unpublished
<1>3. \/ \E fence \in BOOLEAN : Return(fence)
      \/ /\ fenced' = fenced
         /\ op' \in Locals /\ op'.plan \in Plans
         /\ \/ pc' = "snapshot" \/ pc' = "restore"
            \/ pc' \in {"write-tx", "write-plan"} /\ op'.say \in States
  <2>1. ToRollback(op)
        => op' \in Locals /\ op'.plan \in Plans /\ op'.say \in States
           /\ pc' = "write-tx"
    BY <1>1, RollbackKeeps
  <2>2. CASE Begun
    <3>1. CASE op.bad
      BY <2>2, <3>1, Zenon DEF Begun
    <3>2. CASE ~op.bad
      <4>1. op' = op /\ pc' = "snapshot" /\ fenced' = fenced
        BY <2>2, <3>2 DEF Begun
      <4> QED
        BY <1>1, <4>1
    <3> QED
      BY <3>1, <3>2
  <2>3. CASE Committing
    <3>1. CASE op.bad
      BY <2>1, <2>3, <3>1 DEF Committing
    <3>2. CASE ~op.bad
      <4>1. /\ op' = [Publish("committed") EXCEPT !.pub = TRUE]
            /\ pc' = "write-plan" /\ fenced' = fenced
        BY <2>3, <3>2 DEF Committing
      <4>2. op' \in Locals /\ op'.plan \in Plans /\ op'.say \in States
        BY <1>1, <4>1 DEF Publish, Locals, States, Says
      <4> QED
        BY <4>1, <4>2
    <3> QED
      BY <3>1, <3>2
  <2>4. CASE CommittedOrNot
    <3>1. Return(FALSE) \/ (ToRollback(op) /\ fenced' = fenced)
      BY <2>4 DEF CommittedOrNot
    <3> QED
      BY <2>1, <3>1, Zenon
  <2>5. CASE Rejected
    <3>1. (op.bad \/ op.lostJournal) \in BOOLEAN
      OBVIOUS
    <3> QED
      BY <2>5, <3>1, Zenon DEF Rejected
  <2>6. CASE RollingBack
    BY <1>1, <2>6 DEF RollingBack, Locals
  <2>7. CASE RolledBackOrNot
    <3>1. (op.say = "rollback-failed" \/ op.bad \/ op.lostJournal) \in BOOLEAN
      OBVIOUS
    <3>2. CASE op.bad /\ ~op.again
      <4>1. /\ op' = [Publish("rollback-failed") EXCEPT !.again = TRUE]
            /\ pc' = "write-plan" /\ fenced' = fenced
        BY <2>7, <3>2 DEF RolledBackOrNot
      <4>2. op' \in Locals /\ op'.plan \in Plans /\ op'.say \in States
        BY <1>1, <4>1 DEF Publish, Locals, States, Says
      <4> QED
        BY <4>1, <4>2
    <3>3. CASE ~(op.bad /\ ~op.again)
      BY <2>7, <3>1, <3>3, Zenon DEF RolledBackOrNot
    <3> QED
      BY <3>2, <3>3
  <2> QED
    BY <2>2, <2>3, <2>4, <2>5, <2>6, <2>7
<1>4. RecordNamesPlan'
  BY <1>2 DEF RecordNamesPlan, journals
<1>5. CASE \E fence \in BOOLEAN : Return(fence)
  BY <1>2, <1>4, <1>5, ReturnKeeps
     DEF journals, plans, settings, WorkNamesPlan, WritesState, Working,
         Writing
<1>6. CASE ~\E fence \in BOOLEAN : Return(fence)
  BY <1>2, <1>3, <1>4, <1>6
     DEF journals, plans, settings, WorkNamesPlan, WritesState, Working,
         Writing, Places
<1> QED
  BY <1>5, <1>6

-----------------------------------------------------------------------------
(* Apply. *)

LEMMA StartApplyKeeps ==
    ASSUME TInv, NEW p \in Plans, StartApply(p)
    PROVE  TInv'
<1> USE DEF TInv, TypeOK
<1>1. Committed \in Names /\ cfg.applied \in Names
  BY CommittedValue
<1>2. op' \in Locals /\ op'.plan \in Plans /\ op'.say \in States
  BY <1>1, IdleValue DEF StartApply, Locals, Kinds, Says, States, Names
<1>3. snap' \in Runtimes
  BY RuntimeValues DEF StartApply
<1> QED
  BY <1>2, <1>3
     DEF StartApply, forward, journals, plans, settings, Places, Working,
         Writing, WorkNamesPlan, WritesState, RecordNamesPlan

LEMMA PreserveKeeps ==
    ASSUME TInv, Preserve
    PROVE  TInv'
<1> USE DEF TInv, TypeOK
<1>1. op.plan \in Plans /\ op.say \in States
  BY DEF Preserve, WorkNamesPlan, WritesState, Working, Writing
<1>2. UNCHANGED <<runtime, snap, journals, latestPlan, recovery, settings,
                  crashes>>
  BY DEF Preserve
<1>3. faults' \in 0 .. MaxFaults /\ bootPlan' \in Names
  BY FaultKeeps, CommittedValue DEF Preserve, After
<1>4. CASE pc' = "write-tx" /\ UNCHANGED <<op, fenced>>
  BY <1>1, <1>2, <1>3, <1>4
     DEF journals, settings, Places, Working, Writing, WorkNamesPlan,
         WritesState, RecordNamesPlan
<1>5. CASE Return(TRUE)
  <2>1. op' \in Locals /\ pc' \in Places /\ pc' \notin Working
        /\ fenced' \in BOOLEAN
    BY <1>5, ReturnKeeps
  <2> QED
    BY <1>2, <1>3, <2>1
       DEF journals, settings, Working, Writing, WorkNamesPlan, WritesState,
           RecordNamesPlan
<1> QED
  BY <1>4, <1>5, Zenon DEF Preserve

\* The forward steps share their frame: what they leave alone keeps its type.
LEMMA ForwardFrame ==
    ASSUME TInv, UNCHANGED forward, runtime' \in Runtimes, snap' \in Runtimes,
           faults' \in 0 .. MaxFaults,
           cfgDisk' \in [applied : Names, safe : BOOLEAN],
           cfg' \in [applied : Names, safe : BOOLEAN], uncertain' \in BOOLEAN,
           op' \in Locals, pc' \in Places,
           pc' \in Working => op'.plan \in Plans,
           pc' \in Writing => op'.say \in States
    PROVE  TInv'
BY DEF TInv, TypeOK, forward, journals, plans, WorkNamesPlan, WritesState,
       RecordNamesPlan, Working

LEMMA ImageValue == TypeOK => \A done : Image(done) \in Runtimes
BY RuntimeValues DEF TypeOK, Image, Runtimes, Runtime

LEMMA AffectedValue == \A p \in Plans : Affected(p) \subseteq Adapters
BY PlanAssumption, PlanAdaptersValue DEF Affected, Retiring

LEMMA SnapshotKeeps ==
    ASSUME TInv, Snapshot
    PROVE  TInv'
<1> USE DEF TInv, TypeOK
<1>1. op.plan \in Plans
  BY DEF Snapshot, WorkNamesPlan, Working
<1>2. Affected(op.plan) \subseteq Adapters
  BY <1>1, AffectedValue
<1>3. UNCHANGED <<runtime, settings, forward>>
  BY DEF Snapshot
<1>4. snap' \in Runtimes
  <2>1. \E done : snap' = Image(done)
    BY Zenon DEF Snapshot
  <2> QED
    BY <2>1, ImageValue
<1>5. faults' \in 0 .. MaxFaults
  BY FaultKeeps DEF Snapshot
<1>6. CASE op' = [op EXCEPT !.prepared = Affected(op.plan)]
           /\ pc' = "candidate"
  <2>1. op' \in Locals /\ op'.plan \in Plans
    BY <1>1, <1>2, <1>6 DEF Locals
  <2> QED
    BY <1>3, <1>4, <1>5, <1>6, <2>1, ForwardFrame
       DEF settings, Places, Working, Writing
<1>7. ASSUME NEW done \in SUBSET Affected(op.plan), NEW refused \in BOOLEAN,
             NEW journal \in BOOLEAN,
             Fail([op EXCEPT !.prepared = done, !.lostJournal = journal],
                  refused)
      PROVE  TInv'
  <2>1. [op EXCEPT !.prepared = done, !.lostJournal = journal] \in Locals
        /\ [op EXCEPT !.prepared = done, !.lostJournal = journal].plan \in Plans
    BY <1>1, <1>2 DEF Locals
  <2>2. /\ op' \in Locals /\ op'.plan \in Plans /\ op'.say \in States
        /\ pc' \in {"write-tx", "write-plan"}
    BY <1>7, <2>1, LeaveKeeps
  <2> QED
    BY <1>3, <1>4, <1>5, <2>2, ForwardFrame
       DEF settings, Places, Working, Writing
<1> QED
  BY <1>6, <1>7, Zenon DEF Snapshot

LEMMA CandidateKeeps ==
    ASSUME TInv, Candidate
    PROVE  TInv'
<1> USE DEF TInv, TypeOK
<1>1. op.plan \in Plans
  BY DEF Candidate, WorkNamesPlan, Working
<1>2. UNCHANGED <<runtime, snap, settings, forward>>
  BY DEF Candidate
<1>3. faults' \in 0 .. MaxFaults
  BY FaultKeeps DEF Candidate
<1>4. /\ op' \in Locals /\ op'.plan \in Plans
      /\ \/ pc' = "activate"
         \/ pc' \in {"write-tx", "write-plan"} /\ op'.say \in States
  <2>1. CASE /\ op' = [op EXCEPT !.todo = AdaptersOf[op.plan],
                                 !.retire = op.prepared \ AdaptersOf[op.plan]]
             /\ pc' = "activate"
    BY <1>1, <2>1, PlanAssumption DEF Locals
  <2>2. ASSUME NEW refused \in BOOLEAN, NEW journal \in BOOLEAN,
               Fail([op EXCEPT !.lostJournal = journal], refused)
        PROVE  /\ op' \in Locals /\ op'.plan \in Plans /\ op'.say \in States
               /\ pc' \in {"write-tx", "write-plan"}
    <3>1. [op EXCEPT !.lostJournal = journal] \in Locals
          /\ [op EXCEPT !.lostJournal = journal].plan \in Plans
      BY <1>1 DEF Locals
    <3> QED
      BY <2>2, <3>1, LeaveKeeps
  <2> QED
    BY <2>1, <2>2, Zenon DEF Candidate
<1> QED
  BY <1>2, <1>3, <1>4, ForwardFrame DEF settings, Places, Working, Writing

\* A failed step that leaves the forward phase: what remains to be shown is
\* that its effect on the runtime is one an adapter can have.
LEMMA FailedKeeps ==
    ASSUME TInv, NEW local \in Locals, NEW refused \in BOOLEAN,
           local.plan \in Plans, Fail(local, refused), UNCHANGED forward,
           UNCHANGED <<snap, settings>>, runtime' \in Runtimes,
           faults' \in 0 .. MaxFaults
    PROVE  TInv'
<1>1. /\ op' \in Locals /\ op'.plan \in Plans /\ op'.say \in States
      /\ pc' \in {"write-tx", "write-plan"}
  BY LeaveKeeps
<1> QED
  BY <1>1, ForwardFrame DEF TInv, TypeOK, settings, Places, Working, Writing

\* An adapter's slot of the runtime takes a typed value.
LEMMA RuntimeKeeps ==
    ASSUME runtime \in Runtimes, NEW a, NEW value \in Runtime,
           runtime' = [runtime EXCEPT ![a] = value]
    PROVE  runtime' \in Runtimes
BY DEF Runtimes, Runtime

LEMMA ActivateKeeps ==
    ASSUME TInv, NEW a \in Adapters, Activate(a)
    PROVE  TInv'
<1> USE DEF TInv, TypeOK
<1>1. op.plan \in Plans /\ op \in Locals
  BY DEF Activate, WorkNamesPlan, Working
<1>2. UNCHANGED <<snap, settings, forward>>
  BY DEF Activate
<1>3. Whole(op.plan) \in Runtime
  BY <1>1, RuntimeValues DEF Names
<1>4. faults' \in 0 .. MaxFaults
  BY FaultKeeps DEF Activate
<1>5. CASE /\ runtime' = [runtime EXCEPT ![a] = Whole(op.plan)]
           /\ op' = [op EXCEPT !.todo = @ \ {a}, !.live = TRUE]
           /\ UNCHANGED <<pc, faults>>
  <2>1. op' \in Locals /\ op'.plan \in Plans
    BY <1>1, <1>5 DEF Locals
  <2>2. runtime' \in Runtimes
    BY <1>3, <1>5, RuntimeKeeps
  <2>3. pc' = "activate"
    BY <1>5 DEF Activate
  <2> QED
    BY <1>2, <1>4, <2>1, <2>2, <2>3, ForwardFrame
       DEF settings, Places, Working, Writing
<1>6. ASSUME NEW effect \in Partial(a, Whole(op.plan)), NEW lost \in BOOLEAN,
             runtime' = [runtime EXCEPT ![a] = effect],
             Fail([op EXCEPT !.failed = TRUE, !.live = TRUE,
                             !.lostJournal = lost], FALSE)
      PROVE  TInv'
  <2>1. effect \in Runtime
    BY <1>3, PartialValues
  <2>2. runtime' \in Runtimes
    BY <1>6, <2>1, RuntimeKeeps
  <2>3. /\ [op EXCEPT !.failed = TRUE, !.live = TRUE,
                      !.lostJournal = lost] \in Locals
        /\ [op EXCEPT !.failed = TRUE, !.live = TRUE,
                      !.lostJournal = lost].plan \in Plans
    BY <1>1 DEF Locals
  <2> QED
    BY <1>2, <1>4, <1>6, <2>2, <2>3, FailedKeeps
<1>7. ASSUME NEW refused \in BOOLEAN, UNCHANGED runtime,
             Fail([op EXCEPT !.failed = TRUE, !.lostJournal = ~refused],
                  refused)
      PROVE  TInv'
  <2>1. /\ [op EXCEPT !.failed = TRUE, !.lostJournal = ~refused] \in Locals
        /\ [op EXCEPT !.failed = TRUE, !.lostJournal = ~refused].plan \in Plans
    BY <1>1 DEF Locals
  <2> QED
    BY <1>2, <1>4, <1>7, <2>1, FailedKeeps
<1> QED
  BY <1>5, <1>6, <1>7, Zenon DEF Activate

LEMMA DeactivateRetiringKeeps ==
    ASSUME TInv, NEW a \in Adapters, DeactivateRetiring(a)
    PROVE  TInv'
<1> USE DEF TInv, TypeOK
<1>1. op.plan \in Plans /\ op \in Locals
  BY DEF DeactivateRetiring, WorkNamesPlan, Working
<1>2. UNCHANGED <<snap, settings, forward>>
  BY DEF DeactivateRetiring
<1>3. Off \in Runtime
  BY RuntimeValues
<1>4. faults' \in 0 .. MaxFaults
  BY FaultKeeps DEF DeactivateRetiring
<1>5. CASE /\ runtime' = [runtime EXCEPT ![a] = Off]
           /\ op' = [op EXCEPT !.retire = @ \ {a}, !.live = TRUE]
           /\ UNCHANGED <<pc, faults>>
  <2>1. op' \in Locals /\ op'.plan \in Plans
    BY <1>1, <1>5 DEF Locals
  <2>2. runtime' \in Runtimes
    BY <1>3, <1>5, RuntimeKeeps
  <2>3. pc' = "activate"
    BY <1>5 DEF DeactivateRetiring
  <2> QED
    BY <1>2, <1>4, <2>1, <2>2, <2>3, ForwardFrame
       DEF settings, Places, Working, Writing
<1>6. ASSUME NEW effect \in Partial(a, Off), NEW lost \in BOOLEAN,
             runtime' = [runtime EXCEPT ![a] = effect],
             Fail([op EXCEPT !.live = TRUE, !.lostJournal = lost], FALSE)
      PROVE  TInv'
  <2>1. effect \in Runtime
    BY <1>3, PartialValues
  <2>2. runtime' \in Runtimes
    BY <1>6, <2>1, RuntimeKeeps
  <2>3. /\ [op EXCEPT !.live = TRUE, !.lostJournal = lost] \in Locals
        /\ [op EXCEPT !.live = TRUE, !.lostJournal = lost].plan \in Plans
    BY <1>1 DEF Locals
  <2> QED
    BY <1>2, <1>4, <1>6, <2>2, <2>3, FailedKeeps
<1> QED
  BY <1>5, <1>6, Zenon DEF DeactivateRetiring

LEMMA HealthAndCommitKeeps ==
    ASSUME TInv, HealthAndCommit
    PROVE  TInv'
<1> USE DEF TInv, TypeOK
<1>1. op.plan \in Plans /\ op \in Locals
  BY DEF HealthAndCommit, WorkNamesPlan, Working
<1>2. UNCHANGED <<snap, settings, forward>>
  BY DEF HealthAndCommit
<1>3. Torn(op.plan) \in Runtime
  BY <1>1, RuntimeValues DEF Names
<1>4. faults' \in 0 .. MaxFaults
  BY FaultKeeps DEF HealthAndCommit
<1>5. CASE /\ UNCHANGED <<runtime, faults>>
           /\ op' = [op EXCEPT !.live = TRUE]
           /\ pc' = "config"
  <2>1. op' \in Locals /\ op'.plan \in Plans
    BY <1>1, <1>5 DEF Locals
  <2> QED
    BY <1>2, <1>4, <1>5, <2>1, ForwardFrame
       DEF settings, Places, Working, Writing
<1>6. ASSUME NEW failed \in BOOLEAN, NEW lost \in BOOLEAN,
             NEW torn \in SUBSET (AdaptersOf[op.plan] \ {Gate}),
             runtime' = [d \in Adapters |->
                           IF d \in torn THEN Torn(op.plan) ELSE runtime[d]],
             Fail([op EXCEPT !.failed = failed \/ torn # {}, !.live = TRUE,
                             !.lostJournal = lost], FALSE)
      PROVE  TInv'
  <2>1. runtime' \in Runtimes
    BY <1>3, <1>6 DEF Runtimes, Runtime
  <2>2. /\ [op EXCEPT !.failed = failed \/ torn # {}, !.live = TRUE,
                      !.lostJournal = lost] \in Locals
        /\ [op EXCEPT !.failed = failed \/ torn # {}, !.live = TRUE,
                      !.lostJournal = lost].plan \in Plans
    BY <1>1 DEF Locals
  <2> QED
    BY <1>2, <1>4, <1>6, <2>1, <2>2, FailedKeeps
<1> QED
  BY <1>5, <1>6, Zenon DEF HealthAndCommit

LEMMA CommitConfigKeeps ==
    ASSUME TInv, CommitConfig
    PROVE  TInv'
<1> USE DEF TInv, TypeOK
<1>1. op.plan \in Plans /\ op \in Locals
  BY DEF CommitConfig, WorkNamesPlan, Working
<1>2. UNCHANGED <<runtime, snap, forward>>
  BY DEF CommitConfig
<1>3. PICK o \in Outcomes :
        /\ SaveSettings(o, [cfg EXCEPT !.applied = op.plan])
        /\ IF o = "ok"
             THEN LET done == [op EXCEPT !.undo = TRUE]
                  IN  \/ /\ op' = [done EXCEPT !.say = "committing"]
                         /\ pc' = "write-tx"
                      \/ ToRollback(done)
             ELSE ToRollback([op EXCEPT !.live = TRUE])
  BY DEF CommitConfig
<1>4. [cfg EXCEPT !.applied = op.plan] \in [applied : Names, safe : BOOLEAN]
  BY <1>1 DEF Names
<1>5. /\ cfgDisk' \in [applied : Names, safe : BOOLEAN]
      /\ cfg' \in [applied : Names, safe : BOOLEAN]
      /\ uncertain' \in BOOLEAN /\ faults' \in 0 .. MaxFaults
  BY <1>3, <1>4, SaveKeeps
<1>6. /\ op' \in Locals /\ op'.plan \in Plans /\ op'.say \in States
      /\ pc' = "write-tx"
  <2>1. CASE /\ op' = [[op EXCEPT !.undo = TRUE] EXCEPT !.say = "committing"]
             /\ pc' = "write-tx"
    BY <1>1, <2>1 DEF Locals, Says, States
  <2>2. CASE ToRollback([op EXCEPT !.undo = TRUE])
    <3>1. /\ [op EXCEPT !.undo = TRUE] \in Locals
          /\ [op EXCEPT !.undo = TRUE].plan \in Plans
      BY <1>1 DEF Locals
    <3> QED
      BY <2>2, <3>1, RollbackKeeps
  <2>3. CASE ToRollback([op EXCEPT !.live = TRUE])
    <3>1. /\ [op EXCEPT !.live = TRUE] \in Locals
          /\ [op EXCEPT !.live = TRUE].plan \in Plans
      BY <1>1 DEF Locals
    <3> QED
      BY <2>3, <3>1, RollbackKeeps
  <2> QED
    BY <1>3, <2>1, <2>2, <2>3, Zenon
<1> QED
  BY <1>2, <1>5, <1>6, ForwardFrame DEF Places, Working, Writing

-----------------------------------------------------------------------------
(* Rollback. *)

LEMMA TargetValue ==
    ASSUME TypeOK, NEW a \in Adapters
    PROVE  Target(a) \in Runtime
BY RuntimeValues DEF Target, TypeOK, Runtimes, Runtime

LEMMA RestoreKeeps ==
    ASSUME TInv, NEW a \in Adapters, Restore(a)
    PROVE  TInv'
<1> USE DEF TInv, TypeOK
<1>1. op.plan \in Plans /\ op \in Locals
  BY DEF Restore, WorkNamesPlan, Working
<1>2. UNCHANGED <<pc, snap, settings, forward>> /\ pc = "restore"
  BY DEF Restore
<1>3. Target(a) \in Runtime
  BY TargetValue
<1>4. faults' \in 0 .. MaxFaults
  BY FaultKeeps DEF Restore
<1>5. CASE /\ runtime' = [runtime EXCEPT ![a] = Target(a)]
           /\ op' = [op EXCEPT !.todo = @ \ {a}]
           /\ UNCHANGED faults
  <2>1. op' \in Locals /\ op'.plan \in Plans
    BY <1>1, <1>5 DEF Locals
  <2>2. runtime' \in Runtimes
    BY <1>3, <1>5, RuntimeKeeps
  <2> QED
    BY <1>2, <1>4, <2>1, <2>2, ForwardFrame DEF settings, Working, Writing
<1>6. ASSUME NEW effect \in Partial(a, Target(a)), NEW silent \in BOOLEAN,
             runtime' = [runtime EXCEPT ![a] = effect],
             op' = [op EXCEPT !.todo = @ \ {a}, !.broken = @ \/ ~silent]
      PROVE  TInv'
  <2>1. effect \in Runtime
    BY <1>3, PartialValues
  <2>2. runtime' \in Runtimes
    BY <1>6, <2>1, RuntimeKeeps
  <2>3. op' \in Locals /\ op'.plan \in Plans
    BY <1>1, <1>6 DEF Locals
  <2> QED
    BY <1>2, <1>4, <2>2, <2>3, ForwardFrame DEF settings, Working, Writing
<1> QED
  BY <1>5, <1>6, Zenon DEF Restore

LEMMA UndoConfigKeeps ==
    ASSUME TInv, UndoConfig
    PROVE  TInv'
<1> USE DEF TInv, TypeOK
<1>1. op.plan \in Plans /\ op \in Locals
  BY DEF UndoConfig, WorkNamesPlan, Working
<1>2. PICK o \in Outcomes :
        /\ SaveSettings(o, [cfg EXCEPT !.applied = op.prevCfg])
        /\ op' = [op EXCEPT !.undo = FALSE, !.broken = @ \/ o # "ok"]
  BY DEF UndoConfig
<1>3. [cfg EXCEPT !.applied = op.prevCfg] \in [applied : Names, safe : BOOLEAN]
  BY <1>1 DEF Locals
<1>4. /\ cfgDisk' \in [applied : Names, safe : BOOLEAN]
      /\ cfg' \in [applied : Names, safe : BOOLEAN]
      /\ uncertain' \in BOOLEAN /\ faults' \in 0 .. MaxFaults
  BY <1>2, <1>3, SaveKeeps
<1>5. op' \in Locals /\ op'.plan \in Plans
  BY <1>1, <1>2 DEF Locals
<1> QED
  BY <1>4, <1>5, ForwardFrame DEF UndoConfig, Working, Writing

LEMMA RestoreBootPlanKeeps ==
    ASSUME TInv, RestoreBootPlan
    PROVE  TInv'
<1> USE DEF TInv, TypeOK
<1>1. op.plan \in Plans /\ op \in Locals
  BY DEF RestoreBootPlan, WorkNamesPlan, Working
<1>2. PICK o \in Outcomes :
        /\ Fault(o)
        /\ bootPlan' = After(o, bootPlan, op.prevBoot)
        /\ op' = [op EXCEPT !.pub = FALSE, !.broken = @ \/ o # "ok"]
  BY DEF RestoreBootPlan
<1>3. faults' \in 0 .. MaxFaults
  BY <1>2, FaultKeeps
<1>4. bootPlan' \in Names
  BY <1>1, <1>2 DEF After, Locals
<1>5. op' \in Locals /\ op'.plan \in Plans
  BY <1>1, <1>2 DEF Locals
<1> QED
  BY <1>3, <1>4, <1>5
     DEF RestoreBootPlan, journals, settings, Working, Writing,
         WorkNamesPlan, WritesState, RecordNamesPlan

LEMMA VerifyConsumersKeeps ==
    ASSUME TInv, VerifyConsumers
    PROVE  TInv'
<1> USE DEF TInv, TypeOK
<1>1. op.plan \in Plans /\ op \in Locals
  BY DEF VerifyConsumers, WorkNamesPlan, Working
<1>2. PICK error \in BOOLEAN, confirmed \in BOOLEAN :
        op' = [op EXCEPT !.broken = @ \/ error,
                         !.verified = ~op.broken /\ ~error /\ confirmed]
  BY DEF VerifyConsumers
<1>3. op' \in Locals /\ op'.plan \in Plans
  BY <1>1, <1>2 DEF Locals
<1> QED
  BY <1>3, ForwardFrame
     DEF VerifyConsumers, settings, Places, Working, Writing

LEMMA RollbackGateKeeps ==
    ASSUME TInv, RollbackGate
    PROVE  TInv'
<1> USE DEF TInv, TypeOK
<1>1. op.plan \in Plans /\ op \in Locals
  BY DEF RollbackGate, WorkNamesPlan, Working
<1>2. UNCHANGED <<snap, settings, forward>>
  BY DEF RollbackGate
<1>3. Gate \in op.prepared => Gate \in Adapters /\ snap[Gate] \in Runtime
  BY <1>1 DEF Runtimes, Runtime, Locals
<1>4. faults' \in 0 .. MaxFaults
  BY FaultKeeps DEF RollbackGate
<1>5. PICK broken \in BOOLEAN : ToOutcome(broken)
  BY <1>1, Zenon DEF RollbackGate, Locals
<1>6. /\ op' \in Locals /\ op'.plan \in Plans /\ op'.say \in States
      /\ pc' = "write-plan"
  BY <1>1, <1>5 DEF ToOutcome, Locals, Says, States
<1>7. runtime' \in Runtimes
  <2>1. \/ UNCHANGED runtime
        \/ /\ Gate \in op.prepared
           /\ \/ runtime' = [runtime EXCEPT ![Gate] = snap[Gate]]
              \/ \E effect \in Partial(Gate, snap[Gate]) :
                    runtime' = [runtime EXCEPT ![Gate] = effect]
    BY Zenon DEF RollbackGate
  <2>2. ASSUME Gate \in op.prepared, NEW effect \in Partial(Gate, snap[Gate]),
               runtime' = [runtime EXCEPT ![Gate] = effect]
        PROVE  runtime' \in Runtimes
    <3>1. effect \in Runtime
      BY <1>3, <2>2, PartialValues
    <3> QED
      BY <2>2, <3>1, RuntimeKeeps
  <2>3. CASE /\ Gate \in op.prepared
             /\ runtime' = [runtime EXCEPT ![Gate] = snap[Gate]]
    BY <1>3, <2>3, RuntimeKeeps
  <2> QED
    BY <2>1, <2>2, <2>3
<1> QED
  BY <1>2, <1>4, <1>6, <1>7, ForwardFrame
     DEF settings, Places, Working, Writing

LEMMA RecoveringKeeps ==
    ASSUME TInv, Retriable, NEW kind \in {"retry", "close"}, Recovering(kind),
           pc' = "restore", UNCHANGED <<runtime, snap, settings, faults, forward>>
    PROVE  TInv'
<1> USE DEF TInv, TypeOK
<1>1. latest.plan \in Plans /\ latest.failed \in BOOLEAN
  BY DEF Retriable, RecordNamesPlan, Records
<1>2. PlanAdapters(latest.plan) \in SUBSET Adapters
  BY PlanAdaptersValue
<1>3. op' \in Locals /\ op'.plan \in Plans
  BY <1>1, <1>2, IdleValue DEF Recovering, Locals, Kinds, Names
<1> QED
  BY <1>3, ForwardFrame DEF settings, Places, Working, Writing

LEMMA RecoveryBeginsTyped ==
    ASSUME TInv, RetryAtStart \/ CloseFailedRollback
    PROVE  TInv'
<1>1. CASE RetryAtStart /\ ~Retriable
  BY <1>1, ForwardFrame
     DEF RetryAtStart, TInv, TypeOK, settings, Places, Working, Writing
<1>2. CASE RetryAtStart /\ Retriable
  BY <1>2, RecoveringKeeps DEF RetryAtStart
<1>3. CASE CloseFailedRollback
  BY <1>3, RecoveringKeeps DEF CloseFailedRollback
<1> QED
  BY <1>1, <1>2, <1>3

-----------------------------------------------------------------------------
(* Startup. *)

LEMMA StartKeeps ==
    ASSUME TInv, Start
    PROVE  TInv'
BY ForwardFrame DEF Start, TInv, TypeOK, Places, Working, Writing

LEMMA SettleCommitKeeps ==
    ASSUME TInv, SettleCommit
    PROVE  TInv'
<1> USE DEF TInv, TypeOK
<1>1. UNCHANGED <<runtime, snap, settings, faults, forward>>
  BY DEF SettleCommit
<1>2. CASE pc' = "check" /\ UNCHANGED op
  BY <1>1, <1>2, ForwardFrame DEF settings, Places, Working, Writing
<1>3. CASE /\ Settleable
           /\ op' = [Idle EXCEPT !.kind = "settle", !.plan = latest.plan,
                                 !.say = "committed"]
           /\ pc' = "write-tx"
  <2>1. latest.plan \in Plans
    BY <1>3 DEF Settleable, RecordNamesPlan
  <2>2. op' \in Locals /\ op'.plan \in Plans /\ op'.say \in States
    BY <1>3, <2>1, IdleValue DEF Locals, Kinds, Says, States, Names
  <2> QED
    BY <1>1, <1>3, <2>2, ForwardFrame DEF settings, Places, Working, Writing
<1> QED
  BY <1>2, <1>3, Zenon DEF SettleCommit

LEMMA BootKeeps ==
    ASSUME TInv, NEW p \in Names, NEW say \in Says, NEW todo \in SUBSET Adapters,
           Boot(p, say, todo),
           \/ pc' \in {"record", "cleanup"}
           \/ pc' = "reconcile" /\ p \in Plans
    PROVE  TInv'
<1> USE DEF TInv, TypeOK
<1>1. op' \in Locals /\ op'.plan = p
  BY IdleValue DEF Boot, Locals, Kinds
<1> QED
  BY <1>1, ForwardFrame DEF Boot, settings, Places, Working, Writing

LEMMA BootDecisionKeeps ==
    ASSUME TInv, RefuseJournal \/ NothingToRecover \/ RefuseIntent
                 \/ WaitForNetwork \/ ReconcileOrGuard
    PROVE  TInv'
<1>1. /\ NoPlan \in Names /\ Committed \in Names
      /\ Committed # NoPlan => Committed \in Plans
      /\ Committed \in Plans => AdaptersOf[Committed] \subseteq Adapters
  BY CommittedValue, PlanAssumption DEF TInv, Names
<1>2. CASE RefuseJournal \/ NothingToRecover \/ RefuseIntent
  <2>1. \E p \in Names, say \in Says : Boot(p, say, {}) /\ pc' = "record"
    BY <1>1, <1>2, Zenon
       DEF RefuseJournal, NothingToRecover, RefuseIntent, Says, Refusals
  <2> QED
    BY <2>1, BootKeeps
<1>3. CASE WaitForNetwork
  <2>1. Committed \in Plans
    BY <1>3 DEF WaitForNetwork, RequiresProof
  <2>2. AdaptersOf[Committed] \ NeedsProof[Committed] \in SUBSET Adapters
    BY <1>1, <2>1
  <2>3. Boot(Committed, "network-stale",
             AdaptersOf[Committed] \ NeedsProof[Committed])
        /\ pc' = "reconcile"
    BY <1>3, Zenon DEF WaitForNetwork
  <2>4. "network-stale" \in Says
    BY DEF Says
  <2> QED
    BY <1>1, <2>1, <2>2, <2>3, <2>4, BootKeeps
<1>4. CASE ReconcileOrGuard
  <2>1. Committed \in Plans /\ AdaptersOf[Committed] \in SUBSET Adapters
    BY <1>1, <1>4 DEF ReconcileOrGuard
  <2>2. \/ Boot(Committed, "safe-mode", AdaptersOf[Committed])
           /\ pc' = "cleanup"
        \/ Boot(Committed, "recovered", AdaptersOf[Committed])
           /\ pc' = "reconcile"
    BY <1>4, Zenon DEF ReconcileOrGuard
  <2>3. "safe-mode" \in Says /\ "recovered" \in Says
    BY DEF Says, Refusals
  <2> QED
    BY <1>1, <2>1, <2>2, <2>3, BootKeeps
<1> QED
  BY <1>2, <1>3, <1>4

LEMMA ReconcileKeeps ==
    ASSUME TInv, NEW a \in Adapters, Reconcile(a)
    PROVE  TInv'
<1> USE DEF TInv, TypeOK
<1>1. op.plan \in Plans /\ op \in Locals
  BY DEF Reconcile, WorkNamesPlan, Working
<1>2. UNCHANGED <<pc, snap, settings, forward>> /\ pc = "reconcile"
  BY DEF Reconcile
<1>3. Whole(op.plan) \in Runtime
  BY <1>1, RuntimeValues DEF Names
<1>4. faults' \in 0 .. MaxFaults
  BY FaultKeeps DEF Reconcile
<1>5. PICK effect \in Runtime : runtime' = [runtime EXCEPT ![a] = effect]
  <2>1. \/ runtime' = [runtime EXCEPT ![a] = Whole(op.plan)]
        \/ \E effect \in Partial(a, Whole(op.plan)) :
              runtime' = [runtime EXCEPT ![a] = effect]
    BY Zenon DEF Reconcile
  <2>2. Partial(a, Whole(op.plan)) \subseteq Runtime
    BY <1>3, PartialValues
  <2> QED
    BY <1>3, <2>1, <2>2, Zenon
<1>6. runtime' \in Runtimes
  BY <1>5, RuntimeKeeps
<1>7. op' \in Locals /\ op'.plan \in Plans
  <2>1. \/ op' = [op EXCEPT !.todo = @ \ {a}]
        \/ op' = [op EXCEPT !.todo = @ \ {a}, !.bad = TRUE]
    BY Zenon DEF Reconcile
  <2>2. CASE op' = [op EXCEPT !.todo = @ \ {a}]
    BY <1>1, <2>2 DEF Locals
  <2>3. CASE op' = [op EXCEPT !.todo = @ \ {a}, !.bad = TRUE]
    BY <1>1, <2>3 DEF Locals
  <2> QED
    BY <2>1, <2>2, <2>3
<1> QED
  BY <1>2, <1>4, <1>6, <1>7, ForwardFrame DEF settings, Working, Writing

LEMMA CleanupKeeps ==
    ASSUME TInv, NEW a \in Adapters, Cleanup(a)
    PROVE  TInv'
<1> USE DEF TInv, TypeOK
<1>1. UNCHANGED <<pc, snap, settings, forward>> /\ pc = "cleanup"
  BY DEF Cleanup
<1>2. Off \in Runtime
  BY RuntimeValues
<1>3. faults' \in 0 .. MaxFaults
  BY FaultKeeps DEF Cleanup
<1>4. runtime' \in Runtimes
  <2>1. \/ UNCHANGED runtime
        \/ runtime' = [runtime EXCEPT ![a] = Off]
        \/ \E effect \in Partial(a, Off) :
              runtime' = [runtime EXCEPT ![a] = effect]
    BY Zenon DEF Cleanup
  <2>2. Partial(a, Off) \subseteq Runtime
    BY <1>2, PartialValues
  <2>3. ASSUME NEW effect \in Runtime,
               runtime' = [runtime EXCEPT ![a] = effect]
        PROVE  runtime' \in Runtimes
    BY <2>3, RuntimeKeeps
  <2> QED
    BY <1>2, <2>1, <2>2, <2>3
<1>5. op' \in Locals
  <2>1. \/ op' = [op EXCEPT !.todo = @ \ {a}]
        \/ op' = [op EXCEPT !.todo = @ \ {a}, !.broken = TRUE]
    BY Zenon DEF Cleanup
  <2>2. CASE op' = [op EXCEPT !.todo = @ \ {a}]
    BY <2>2 DEF Locals
  <2>3. CASE op' = [op EXCEPT !.todo = @ \ {a}, !.broken = TRUE]
    BY <2>3 DEF Locals
  <2> QED
    BY <2>1, <2>2, <2>3
<1> QED
  BY <1>1, <1>3, <1>4, <1>5, ForwardFrame DEF settings, Working, Writing

LEMMA CleanupEndsTyped ==
    ASSUME TInv, Reconciled \/ Cleaned \/ DeactivateAll
    PROVE  TInv'
<1> USE DEF TInv, TypeOK
<1>1. CASE Reconciled
  <2>1. op.plan \in Plans /\ op \in Locals
    BY <1>1 DEF Reconciled, WorkNamesPlan, Working
  <2>2. AdaptersOf[op.plan] \subseteq Adapters
    BY <2>1, PlanAssumption
  <2>3. \/ /\ op' = [op EXCEPT !.say = "degraded",
                               !.todo = AdaptersOf[op.plan]]
           /\ pc' = "cleanup"
        \/ op' = [op EXCEPT !.bad = FALSE] /\ pc' = "record"
    BY <1>1, Zenon DEF Reconciled
  <2>4. [op EXCEPT !.say = "degraded", !.todo = AdaptersOf[op.plan]] \in Locals
    BY <2>1, <2>2 DEF Locals, Says
  <2>5. [op EXCEPT !.bad = FALSE] \in Locals
    BY <2>1 DEF Locals
  <2>6. op' \in Locals
    BY <2>3, <2>4, <2>5, Zenon
  <2>7. pc' \in {"cleanup", "record"}
    BY <2>3
  <2>8. UNCHANGED <<runtime, snap, settings, faults, forward>>
    BY <1>1 DEF Reconciled
  <2> QED
    BY <2>6, <2>7, <2>8, ForwardFrame DEF settings, Places, Working, Writing
<1>2. CASE Cleaned
  <2>1. op' \in Locals
    BY <1>2, IdleValue DEF Cleaned
  <2> QED
    BY <1>2, <2>1, ForwardFrame DEF Cleaned, settings, Places, Working, Writing
<1>3. CASE DeactivateAll
  <2>1. op' \in Locals
    BY <1>3, IdleValue DEF DeactivateAll, Locals, Kinds
  <2> QED
    BY <1>3, <2>1, ForwardFrame
       DEF DeactivateAll, settings, Places, Working, Writing
<1> QED
  BY <1>1, <1>2, <1>3

LEMMA RecordRecoveryKeeps ==
    ASSUME TInv, RecordRecovery
    PROVE  TInv'
<1> USE DEF TInv, TypeOK
<1>1. PICK o \in Outcomes :
        /\ Fault(o)
        /\ recovery' = After(o, recovery, PlanFile(op.plan, op.say))
        /\ op' = [op EXCEPT !.bad = o # "ok"]
        /\ fenced' \in BOOLEAN
  BY DEF RecordRecovery
<1>2. faults' \in 0 .. MaxFaults
  BY <1>1, FaultKeeps
<1>3. recovery' \in [plan : Names, state : Says]
  BY <1>1 DEF After, PlanFile, Locals
<1>4. op' \in Locals
  BY <1>1 DEF Locals
<1> QED
  BY <1>1, <1>2, <1>3, <1>4
     DEF RecordRecovery, journals, plans, settings, Places, Working, Writing,
         WorkNamesPlan, WritesState, RecordNamesPlan

LEMMA SetSafeModeKeeps ==
    ASSUME TypeOK, NEW o \in Outcomes, NEW safe \in BOOLEAN,
           SetSafeMode(o, safe)
    PROVE  /\ cfgDisk' \in [applied : Names, safe : BOOLEAN]
           /\ cfg' \in [applied : Names, safe : BOOLEAN]
           /\ uncertain' \in BOOLEAN /\ faults' \in 0 .. MaxFaults
<1>1. CASE UNCHANGED <<settings, faults>>
  BY <1>1 DEF TypeOK, settings
<1>2. CASE SaveSettings(o, [cfg EXCEPT !.safe = safe])
  <2>1. [cfg EXCEPT !.safe = safe] \in [applied : Names, safe : BOOLEAN]
    BY DEF TypeOK
  <2> QED
    BY <1>2, <2>1, SaveKeeps
<1> QED
  BY <1>1, <1>2 DEF SetSafeMode

LEMMA SafeModeKeeps ==
    ASSUME TInv, SettleSafeMode \/ ClearRetiredSafeMode
    PROVE  TInv'
<1> USE DEF TInv, TypeOK
<1>1. /\ cfgDisk' \in [applied : Names, safe : BOOLEAN]
      /\ cfg' \in [applied : Names, safe : BOOLEAN]
      /\ uncertain' \in BOOLEAN /\ faults' \in 0 .. MaxFaults
  <2>1. \/ UNCHANGED <<settings, faults>>
        \/ \E o \in Outcomes, safe \in BOOLEAN : SetSafeMode(o, safe)
    <3>1. CASE SettleSafeMode
      <4>1. (\/ op.say \in Refusals \cup {"degraded"}
             \/ (op.bad /\ op.say # "network-stale")) \in BOOLEAN
        OBVIOUS
      <4> QED
        BY <3>1, <4>1, Zenon DEF SettleSafeMode
    <3>2. CASE ClearRetiredSafeMode
      BY <3>2, Zenon DEF ClearRetiredSafeMode
    <3> QED
      BY <3>1, <3>2
  <2> QED
    BY <2>1, SetSafeModeKeeps DEF settings
<1>2. op' \in Locals /\ pc' = "idle" /\ fenced' \in BOOLEAN
  BY IdleValue DEF SettleSafeMode, ClearRetiredSafeMode, forward
<1> QED
  BY <1>1, <1>2
     DEF SettleSafeMode, ClearRetiredSafeMode, forward, journals, plans,
         Places, Working, Writing, WorkNamesPlan, WritesState, RecordNamesPlan

LEMMA CrashKeeps ==
    ASSUME TInv, Crash
    PROVE  TInv'
<1> USE DEF TInv, TypeOK
<1>1. runtime' \in Runtimes
  <2>1. CASE runtime' = [a \in Adapters |->
                           IF a = Gate /\ runtime[a] # Off
                             THEN Torn(runtime[a].plan) ELSE Off]
    <3>1. \A a \in Adapters : runtime[a].plan \in Names
      BY DEF Runtimes
    <3>2. \A a \in Adapters : Torn(runtime[a].plan) \in Runtime
      BY <3>1, RuntimeValues
    <3> QED
      BY <2>1, <3>2, RuntimeValues DEF Runtimes, Runtime
  <2> QED
    BY <2>1, Zenon DEF Crash
<1>2. op' \in Locals
  BY IdleValue DEF Crash
<1>3. crashes' \in 0 .. MaxCrashes
  BY BoundAssumption DEF Crash
<1> QED
  BY <1>1, <1>2, <1>3
     DEF Crash, journals, plans, Places, Working, Writing, WorkNamesPlan,
         WritesState, RecordNamesPlan

-----------------------------------------------------------------------------
(* The invariant. *)

LEMMA InitTyped == Init => TInv
<1> SUFFICES ASSUME Init PROVE TInv
  OBVIOUS
<1>1. runtime \in Runtimes /\ snap \in Runtimes
  BY RuntimeValues DEF Init
<1>2. tx \in [Plans -> Records] /\ latest \in Records
  BY RecordValues DEF Init
<1>3. /\ latestPlan \in PlanFiles /\ bootPlan \in Names
      /\ recovery \in [plan : Names, state : Says]
  BY RecordValues DEF Init, Names, PlanFile, PlanFiles, States, Says
<1>4. /\ cfgDisk \in [applied : Names, safe : BOOLEAN]
      /\ cfg \in [applied : Names, safe : BOOLEAN]
  BY DEF Init, Names
<1>5. faults \in 0 .. MaxFaults /\ crashes \in 0 .. MaxCrashes
  BY BoundAssumption DEF Init
<1>6. op \in Locals
  BY IdleValue DEF Init
<1> QED
  BY <1>1, <1>2, <1>3, <1>4, <1>5, <1>6
     DEF Init, TInv, TypeOK, Places, WorkNamesPlan, WritesState,
         RecordNamesPlan, Working, Writing, NoRecord, Record

LEMMA NextTyped ==
    ASSUME TInv, [Next]_vars
    PROVE  TInv'
<1>1. CASE Publication
  BY <1>1, WritesKeep, PlanWritesKeep, PublishedKeep DEF Publication
<1>2. CASE ApplyStep
  BY <1>2, PreserveKeeps, SnapshotKeeps, CandidateKeeps, HealthAndCommitKeeps,
     CommitConfigKeeps, ActivateKeeps, DeactivateRetiringKeeps DEF ApplyStep
<1>3. CASE RollbackStep
  BY <1>3, UndoConfigKeeps, RestoreBootPlanKeeps, VerifyConsumersKeeps,
     RollbackGateKeeps, RestoreKeeps DEF RollbackStep
<1>4. CASE StartupStep
  BY <1>4, RecoveryBeginsTyped, SettleCommitKeeps, BootDecisionKeeps,
     CleanupEndsTyped, RecordRecoveryKeeps, SafeModeKeeps, ReconcileKeeps,
     CleanupKeeps DEF StartupStep
<1>5. CASE Demand
  BY <1>5, StartApplyKeeps, RecoveryBeginsTyped, StartKeeps, CleanupEndsTyped,
     SafeModeKeeps, CrashKeeps DEF Demand
<1>6. CASE UNCHANGED vars
  BY <1>6 DEF vars, journals, plans, settings, TInv, TypeOK, WorkNamesPlan,
              WritesState, RecordNamesPlan
<1> QED
  BY <1>1, <1>2, <1>3, <1>4, <1>5, <1>6 DEF Next, Daemon

\* Whatever fails and whenever the daemon dies, every record, plan file and
\* local variable of Apply, rollback and startup has its type, and a step that
\* writes the record of a transaction knows which one (writeExecutionOwned,
\* settleCommittedPublication, RetryFailedRollback).
THEOREM ApplyTypeOK == Spec => []TypeOK
<1>1. Init => TInv
  BY InitTyped
<1>2. TInv /\ [Next]_vars => TInv'
  BY NextTyped
<1>3. TInv => TypeOK
  BY DEF TInv
<1> QED
  BY <1>1, <1>2, <1>3, PTL DEF Spec

-----------------------------------------------------------------------------
(***************************************************************************)
(* Admission is open only over a settled journal.  The invariant follows   *)
(* an outcome through its two writes and startup from its check of the     *)
(* records to the panel: a write that failed is remembered until it has    *)
(* fenced the gate or been replaced by another publication.                *)
(***************************************************************************)
Said == Record(op.plan, op.say, op.failed)
TxHoldsSaid == pc = "write-latest" /\ ~op.bad => tx[op.plan] = Said
BothHoldSaid == pc = "written" /\ ~op.bad => tx[op.plan] = Said /\ latest = Said
BootSawSettled ==
    \/ pc \in {"reconcile", "record"}
    \/ pc = "cleanup" /\ op.kind = "boot"
    => Settled \/ op.say = "journal-recovery-required"
RecordFences == pc = "settle" /\ ~fenced => Settled

JInv == /\ TxHoldsSaid /\ BothHoldSaid /\ BootSawSettled /\ RecordFences
        /\ OpenGateHasSettledJournal

\* Where the invariant says something.
Watched == {"write-latest", "written", "reconcile", "cleanup", "record",
            "settle", "idle"}

LEMMA UnwatchedHolds ==
    ASSUME pc' \notin Watched
    PROVE  JInv'
BY DEF JInv, TxHoldsSaid, BothHoldSaid, BootSawSettled, RecordFences,
       OpenGateHasSettledJournal, Watched

LEMMA FailLeaves ==
    ASSUME NEW local, NEW refused, Fail(local, refused)
    PROVE  pc' \notin Watched
BY DEF Fail, ToReject, ToRollback, Watched

\* Settled depends on the two records only.
LEMMA SettledStays ==
    ASSUME Settled, UNCHANGED journals
    PROVE  Settled'
BY DEF Settled, journals

\* Apply returns without a fence only after it settled the journal.
LEMMA ReturnSettles ==
    ASSUME NEW fence \in BOOLEAN, Return(fence), UNCHANGED journals,
           fence \/ Settled \/ op.kind # "apply"
    PROVE  JInv'
<1>1. pc' \in {"idle", "recover", "check", "down"}
  BY DEF Return
<1>2. pc' = "idle" => op.kind = "apply"
  BY DEF Return
<1>3. pc' = "idle" /\ ~fenced' => Settled'
  BY <1>2, SettledStays DEF Return
<1> QED
  BY <1>1, <1>3
     DEF JInv, TxHoldsSaid, BothHoldSaid, BootSawSettled, RecordFences,
         OpenGateHasSettledJournal

LEMMA WritesRemember ==
    ASSUME TInv, JInv, WriteTx \/ WriteLatest
    PROVE  JInv'
<1>1. CASE WriteTx
  <2>1. op.plan \in Plans /\ tx \in [Plans -> Records] /\ op \in Locals
    BY <1>1 DEF TInv, TypeOK, WriteTx
  <2>2. PICK o \in Outcomes :
          /\ tx' = [tx EXCEPT ![op.plan] = After(o, @, Said)]
          /\ op' = [op EXCEPT !.bad = @ \/ o # "ok"]
    BY <1>1 DEF WriteTx, Said
  <2>3. pc' = "write-latest"
    BY <1>1 DEF WriteTx
  <2>4. Said' = Said /\ op'.plan = op.plan /\ op'.bad = (op.bad \/ o # "ok")
    BY <2>1, <2>2 DEF Said, Locals
  <2>5. ~op'.bad => tx'[op'.plan] = Said'
    BY <2>1, <2>2, <2>4 DEF After
  <2> QED
    BY <2>3, <2>5
       DEF JInv, TxHoldsSaid, BothHoldSaid, BootSawSettled, RecordFences,
           OpenGateHasSettledJournal
<1>2. CASE WriteLatest
  <2>1. op \in Locals /\ tx' = tx /\ pc = "write-latest" /\ pc' = "written"
    BY <1>2 DEF TInv, TypeOK, WriteLatest
  <2>2. PICK o \in Outcomes :
          /\ latest' = After(o, latest, Said)
          /\ op' = [op EXCEPT !.bad = @ \/ o # "ok"]
    BY <1>2 DEF WriteLatest, Said
  <2>3. Said' = Said /\ op'.plan = op.plan /\ op'.bad = (op.bad \/ o # "ok")
    BY <2>1, <2>2 DEF Said, Locals
  <2>4. ~op'.bad => tx'[op'.plan] = Said' /\ latest' = Said'
    BY <2>1, <2>2, <2>3 DEF After, JInv, TxHoldsSaid
  <2> QED
    BY <2>1, <2>4
       DEF JInv, TxHoldsSaid, BothHoldSaid, BootSawSettled, RecordFences,
           OpenGateHasSettledJournal
<1> QED
  BY <1>1, <1>2

\* A final outcome both records hold is a settled journal.
LEMMA TerminalSettles ==
    ASSUME BothHoldSaid, pc = "written", ~op.bad, op.say \in Terminal
    PROVE  Settled
<1>1. latest = Said /\ tx[op.plan] = Said
  BY DEF BothHoldSaid
<1>2. latest.plan = op.plan /\ latest.state = op.say
  BY <1>1 DEF Said, Record
<1> QED
  BY <1>1, <1>2 DEF Settled

LEMMA PublishedSettles ==
    ASSUME TInv, JInv,
           Begun \/ Committing \/ CommittedOrNot \/ Rejected \/ RollingBack
           \/ RolledBackOrNot
    PROVE  JInv'
<1>1. UNCHANGED journals /\ BothHoldSaid /\ op \in Locals /\ pc = "written"
  BY DEF Begun, Committing, CommittedOrNot, Rejected, RollingBack,
         RolledBackOrNot, unpublished, JInv, TInv, TypeOK
<1>2. op.say \in Terminal /\ ~op.bad => Settled
  BY <1>1, TerminalSettles
<1>3. ASSUME NEW local, ToRollback(local)
      PROVE  JInv'
  BY <1>3, UnwatchedHolds DEF ToRollback, Watched
<1>4. CASE Begun
  <2>1. CASE op.bad
    <3>1. Return(TRUE)
      BY <1>4, <2>1, Zenon DEF Begun
    <3> QED
      BY <1>1, <3>1, ReturnSettles
  <2>2. CASE ~op.bad
    BY <1>4, <2>2, UnwatchedHolds DEF Begun, Watched
  <2> QED
    BY <2>1, <2>2
<1>5. CASE Committing
  BY <1>3, <1>5, UnwatchedHolds DEF Committing, Watched
<1>6. CASE CommittedOrNot
  <2>1. CASE op.bad /\ op.kind = "apply"
    BY <1>3, <1>6, <2>1, Zenon DEF CommittedOrNot
  <2>2. CASE ~(op.bad /\ op.kind = "apply")
    <3>1. Settled \/ op.kind # "apply"
      BY <1>2, <1>6, <2>2 DEF CommittedOrNot, Terminal
    <3>2. Return(FALSE) => JInv'
      BY <1>1, <3>1, ReturnSettles
    <3> QED
      BY <1>3, <1>6, <2>2, <3>2, Zenon DEF CommittedOrNot
  <2> QED
    BY <2>1, <2>2
<1>7. CASE Rejected
  <2>1. PICK fence \in BOOLEAN :
          Return(fence) /\ fence = (op.bad \/ op.lostJournal)
    BY <1>7, Zenon DEF Rejected
  <2>2. fence \/ Settled
    BY <1>2, <1>7, <2>1 DEF Rejected, Terminal
  <2> QED
    BY <1>1, <2>1, <2>2, ReturnSettles
<1>8. CASE RollingBack
  BY <1>8, UnwatchedHolds DEF RollingBack, Watched
<1>9. CASE RolledBackOrNot
  <2>1. CASE op.bad /\ ~op.again
    BY <1>9, <2>1, UnwatchedHolds DEF RolledBackOrNot, Watched
  <2>2. CASE ~(op.bad /\ ~op.again)
    <3>1. PICK fence \in BOOLEAN :
            /\ Return(fence)
            /\ fence = (op.say = "rollback-failed" \/ op.bad \/ op.lostJournal)
      BY <1>9, <2>2, Zenon DEF RolledBackOrNot
    <3>2. fence \/ Settled
      BY <1>2, <1>9, <3>1 DEF RolledBackOrNot, Terminal
    <3> QED
      BY <1>1, <3>1, <3>2, ReturnSettles
  <2> QED
    BY <2>1, <2>2
<1> QED
  BY <1>4, <1>5, <1>6, <1>7, <1>8, <1>9

\* Nothing else of Apply, and nothing of a rollback, reaches an outcome.
LEMMA ForwardIsUnwatched ==
    ASSUME TInv, JInv, ApplyStep \/ (\E p \in Plans : StartApply(p))
    PROVE  JInv'
<1>1. CASE Preserve
  <2>1. CASE pc' = "write-tx"
    BY <2>1, UnwatchedHolds DEF Watched
  <2>2. CASE Return(TRUE)
    BY <1>1, <2>2, ReturnSettles DEF Preserve
  <2> QED
    BY <1>1, <2>1, <2>2, Zenon DEF Preserve
<1>2. CASE Snapshot
  BY <1>2, FailLeaves, UnwatchedHolds, Zenon DEF Snapshot, Watched
<1>3. CASE Candidate
  BY <1>3, FailLeaves, UnwatchedHolds, Zenon DEF Candidate, Watched
<1>4. CASE HealthAndCommit
  BY <1>4, FailLeaves, UnwatchedHolds, Zenon DEF HealthAndCommit, Watched
<1>5. CASE CommitConfig
  BY <1>5, UnwatchedHolds DEF CommitConfig, ToRollback, Watched
<1>6. ASSUME NEW a \in Adapters, Activate(a)
      PROVE  JInv'
  <2>1. pc' \notin Watched
    <3>1. "activate" \notin Watched
      BY DEF Watched
    <3> QED
      BY <1>6, <3>1, FailLeaves, Zenon DEF Activate
  <2> QED
    BY <2>1, UnwatchedHolds
<1>7. ASSUME NEW a \in Adapters, DeactivateRetiring(a)
      PROVE  JInv'
  <2>1. pc' \notin Watched
    <3>1. "activate" \notin Watched
      BY DEF Watched
    <3> QED
      BY <1>7, <3>1, FailLeaves, Zenon DEF DeactivateRetiring
  <2> QED
    BY <2>1, UnwatchedHolds
<1>8. ASSUME NEW p \in Plans, StartApply(p)
      PROVE  JInv'
  BY <1>8, UnwatchedHolds DEF StartApply, Watched
<1> QED
  BY <1>1, <1>2, <1>3, <1>4, <1>5, <1>6, <1>7, <1>8 DEF ApplyStep

LEMMA RollbackIsUnwatched ==
    ASSUME RollbackStep
    PROVE  JInv'
<1>1. pc' \notin Watched
  BY DEF RollbackStep, UndoConfig, RestoreBootPlan, VerifyConsumers,
         RollbackGate, Restore, ToOutcome, Watched
<1> QED
  BY <1>1, UnwatchedHolds

-----------------------------------------------------------------------------
(* Startup. *)

\* A step that leaves the records alone and stays where recovery looks at
\* what it saw before.
LEMMA BootStays ==
    ASSUME UNCHANGED journals, pc' \in {"reconcile", "cleanup", "record"},
           Settled \/ op'.say = "journal-recovery-required"
    PROVE  JInv'
<1>1. Settled' \/ op'.say = "journal-recovery-required"
  BY SettledStays
<1> QED
  BY <1>1 DEF JInv, TxHoldsSaid, BothHoldSaid, BootSawSettled, RecordFences,
              OpenGateHasSettledJournal

LEMMA BootDecides ==
    ASSUME RefuseJournal \/ NothingToRecover \/ RefuseIntent \/ WaitForNetwork
           \/ ReconcileOrGuard
    PROVE  JInv'
<1>1. ASSUME NEW p, NEW say, NEW todo, Boot(p, say, todo)
      PROVE  UNCHANGED journals /\ op'.say = say
  BY <1>1 DEF Boot, forward, Idle
<1>2. CASE RefuseJournal
  BY <1>1, <1>2, BootStays DEF RefuseJournal
<1>3. CASE NothingToRecover
  BY <1>1, <1>3, BootStays DEF NothingToRecover
<1>4. CASE RefuseIntent
  BY <1>1, <1>4, BootStays DEF RefuseIntent
<1>5. CASE WaitForNetwork
  BY <1>1, <1>5, BootStays DEF WaitForNetwork
<1>6. CASE ReconcileOrGuard
  BY <1>1, <1>6, BootStays DEF ReconcileOrGuard
<1> QED
  BY <1>2, <1>3, <1>4, <1>5, <1>6

LEMMA BootRemembers ==
    ASSUME TInv, JInv,
           \/ Reconciled \/ Cleaned \/ DeactivateAll
           \/ \E a \in Adapters : Reconcile(a) \/ Cleanup(a)
    PROVE  JInv'
<1>1. op \in Locals /\ BootSawSettled /\ UNCHANGED journals
  BY DEF TInv, TypeOK, JInv, Reconciled, Cleaned, DeactivateAll, Reconcile,
         Cleanup, forward
<1>2. CASE Reconciled
  <2>1. Settled \/ op.say = "journal-recovery-required"
    BY <1>1, <1>2 DEF Reconciled, BootSawSettled
  <2>2. CASE op.bad /\ op.say = "recovered"
    BY <1>1, <1>2, <2>1, <2>2, BootStays DEF Reconciled
  <2>3. CASE ~(op.bad /\ op.say = "recovered")
    <3>1. op'.say = op.say /\ pc' = "record"
      BY <1>1, <1>2, <2>3 DEF Reconciled, Locals
    <3> QED
      BY <1>1, <2>1, <3>1, BootStays
  <2> QED
    BY <2>2, <2>3
<1>3. CASE Cleaned
  <2>1. CASE op.kind = "boot"
    BY <1>1, <1>3, <2>1, BootStays DEF Cleaned, BootSawSettled
  <2>2. CASE op.kind # "boot"
    BY <1>3, <2>2, UnwatchedHolds DEF Cleaned, Watched
  <2> QED
    BY <2>1, <2>2
<1>4. CASE DeactivateAll
  <2>1. pc' = "cleanup" /\ op'.kind = "deactivate"
    BY <1>4 DEF DeactivateAll, Idle
  <2> QED
    BY <2>1 DEF JInv, TxHoldsSaid, BothHoldSaid, BootSawSettled, RecordFences,
                OpenGateHasSettledJournal
<1>5. ASSUME NEW a \in Adapters, Reconcile(a)
      PROVE  JInv'
  <2>1. pc = "reconcile" /\ pc' = "reconcile"
    BY <1>5 DEF Reconcile
  <2>2. \/ op' = [op EXCEPT !.todo = @ \ {a}]
        \/ op' = [op EXCEPT !.todo = @ \ {a}, !.bad = TRUE]
    BY <1>5, Zenon DEF Reconcile
  <2>3. op'.say = op.say
    BY <1>1, <2>2 DEF Locals
  <2> QED
    BY <1>1, <2>1, <2>3, BootStays DEF BootSawSettled
<1>6. ASSUME NEW a \in Adapters, Cleanup(a)
      PROVE  JInv'
  <2>1. pc = "cleanup" /\ pc' = "cleanup"
    BY <1>6 DEF Cleanup
  <2>2. \/ op' = [op EXCEPT !.todo = @ \ {a}]
        \/ op' = [op EXCEPT !.todo = @ \ {a}, !.broken = TRUE]
    BY <1>6, Zenon DEF Cleanup
  <2>3. op'.say = op.say /\ op'.kind = op.kind
    BY <1>1, <2>2 DEF Locals
  <2>4. op'.kind = "boot" => Settled' \/ op'.say = "journal-recovery-required"
    BY <1>1, <2>1, <2>3, SettledStays DEF BootSawSettled
  <2> QED
    BY <2>1, <2>4 DEF JInv, TxHoldsSaid, BothHoldSaid, BootSawSettled,
                      RecordFences, OpenGateHasSettledJournal
<1> QED
  BY <1>2, <1>3, <1>4, <1>5, <1>6

LEMMA PanelOpensSettled ==
    ASSUME TInv, JInv, RecordRecovery \/ SettleSafeMode \/ ClearRetiredSafeMode
    PROVE  JInv'
<1>1. UNCHANGED journals
  BY DEF RecordRecovery, SettleSafeMode, ClearRetiredSafeMode, forward
<1>2. CASE RecordRecovery
  <2>1. pc' = "settle" /\ (~fenced' => op.say # "journal-recovery-required")
    BY <1>2 DEF RecordRecovery
  <2>2. ~fenced' => Settled
    BY <1>2, <2>1 DEF RecordRecovery, JInv, BootSawSettled
  <2>3. ~fenced' => Settled'
    BY <1>1, <2>2, SettledStays
  <2> QED
    BY <2>1, <2>3 DEF JInv, TxHoldsSaid, BothHoldSaid, BootSawSettled,
                      RecordFences, OpenGateHasSettledJournal
<1>3. CASE SettleSafeMode \/ ClearRetiredSafeMode
  <2>1. pc' = "idle" /\ (~fenced' => ~fenced)
    BY <1>3 DEF SettleSafeMode, ClearRetiredSafeMode, forward, TInv, TypeOK
  <2>2. ~fenced => Settled
    BY <1>3 DEF SettleSafeMode, ClearRetiredSafeMode, JInv, RecordFences,
                OpenGateHasSettledJournal
  <2>3. ~fenced' => Settled'
    BY <1>1, <2>1, <2>2, SettledStays
  <2> QED
    BY <2>1, <2>3 DEF JInv, TxHoldsSaid, BothHoldSaid, BootSawSettled,
                      RecordFences, OpenGateHasSettledJournal
<1> QED
  BY <1>2, <1>3

LEMMA NextSettles ==
    ASSUME TInv, JInv, [Next]_vars
    PROVE  JInv'
<1>1. CASE Publication
  <2>1. CASE WritePlan \/ WriteBoot
    BY <2>1, UnwatchedHolds DEF WritePlan, WriteBoot, ToRollback, Watched
  <2> QED
    BY <1>1, <2>1, WritesRemember, PublishedSettles DEF Publication
<1>2. CASE ApplyStep
  BY <1>2, ForwardIsUnwatched
<1>3. CASE RollbackStep
  BY <1>3, RollbackIsUnwatched
<1>4. CASE StartupStep
  <2>1. CASE RetryAtStart \/ SettleCommit
    BY <2>1, UnwatchedHolds DEF RetryAtStart, SettleCommit, Watched
  <2> QED
    BY <1>4, <2>1, BootDecides, BootRemembers, PanelOpensSettled DEF StartupStep
<1>5. CASE Demand
  <2>1. CASE CloseFailedRollback \/ Start \/ Crash
    BY <2>1, UnwatchedHolds DEF CloseFailedRollback, Start, Crash, Watched
  <2> QED
    BY <1>5, <2>1, ForwardIsUnwatched, BootRemembers, PanelOpensSettled
       DEF Demand
<1>6. CASE UNCHANGED vars
  <2>1. UNCHANGED <<pc, op, fenced, tx, latest>>
    BY <1>6 DEF vars, journals
  <2> QED
    BY <2>1 DEF JInv, TxHoldsSaid, BothHoldSaid, BootSawSettled, RecordFences,
                OpenGateHasSettledJournal, Settled, Said
<1> QED
  BY <1>1, <1>2, <1>3, <1>4, <1>5, <1>6 DEF Next, Daemon

\* For any plans and adapters, and any number of failed steps, failed writes
\* and restarts: when the daemon takes requests with its gate open, the last
\* outcome is final in both execution records (applyDataplane, Recover).
THEOREM ApplyOpenGateHasSettledJournal == Spec => []OpenGateHasSettledJournal
<1>1. Init => TInv /\ JInv
  <2>1. Init => JInv
    BY DEF Init, JInv, TxHoldsSaid, BothHoldSaid, BootSawSettled, RecordFences,
           OpenGateHasSettledJournal
  <2> QED
    BY <2>1, InitTyped
<1>2. TInv /\ JInv /\ [Next]_vars => TInv' /\ JInv'
  BY NextTyped, NextSettles
<1>3. JInv => OpenGateHasSettledJournal
  BY DEF JInv
<1> QED
  BY <1>1, <1>2, <1>3, PTL DEF Spec

-----------------------------------------------------------------------------
(***************************************************************************)
(* Every step field by field.  The invariants below relate the local       *)
(* variables of the running operation to the files and the runtime; these  *)
(* lemmas say once what a step does to each of them.                       *)
(***************************************************************************)
SameJob(l, m) ==
    /\ m.kind = l.kind /\ m.plan = l.plan
    /\ m.prevBoot = l.prevBoot /\ m.prevCfg = l.prevCfg
SameMarks(l, m) ==
    /\ m.broken = l.broken /\ m.verified = l.verified
    /\ m.undo = l.undo /\ m.pub = l.pub
SameWork(l, m) ==
    /\ m.todo = l.todo /\ m.retire = l.retire
    /\ m.prepared = l.prepared /\ m.live = l.live

\* Operations rest here.
Resting == {"idle", "down", "retry", "recover", "check"}

\* fail, rollback and the reject paths, as they leave the local variables.
RollsBack(l) ==
    /\ pc' = "write-tx" /\ op'.say = "rolling-back" /\ op'.bad = FALSE
    /\ SameJob(l, op') /\ SameMarks(l, op')
    /\ op'.todo = l.prepared \ {Gate} /\ op'.retire = {}
    /\ op'.prepared = l.prepared /\ op'.live = l.live
Rejects(l) ==
    /\ pc' = "write-plan" /\ op'.say = "canary-failed" /\ op'.bad = FALSE
    /\ SameJob(l, op') /\ SameMarks(l, op')
    /\ op'.todo = {} /\ op'.retire = {}
    /\ op'.prepared = l.prepared /\ op'.live = l.live

LEMMA RollbackFields ==
    ASSUME NEW local \in Locals, ToRollback(local)
    PROVE  RollsBack(local)
BY DEF ToRollback, RollsBack, Locals, SameJob, SameMarks

LEMMA RejectFields ==
    ASSUME NEW local \in Locals, ToReject(local)
    PROVE  Rejects(local)
BY DEF ToReject, Rejects, Locals, SameJob, SameMarks

LEMMA FailFields ==
    ASSUME NEW local \in Locals, NEW refused \in BOOLEAN, Fail(local, refused)
    PROVE  RollsBack(local) \/ (Rejects(local) /\ ~local.live)
BY RollbackFields, RejectFields, Zenon DEF Fail

LEMMA ReturnFields ==
    ASSUME NEW fence, Return(fence)
    PROVE  /\ op' = Idle /\ pc' \in Resting
           /\ pc' = "idle" <=> op.kind = "apply"
           /\ op.kind = "apply" => fenced' = (fenced \/ fence)
BY DEF Return, Resting

LEMMA FaultCosts ==
    ASSUME NEW o, Fault(o)
    PROVE  /\ o = "ok" => faults' = faults
           /\ o # "ok" => faults' = faults + 1
BY DEF Fault

LEMMA LostCosts == Fault("lost") => faults' = faults + 1
BY DEF Fault

(***************************************************************************)
(* Publications.                                                           *)
(***************************************************************************)
LEMMA WriteFields ==
    ASSUME op \in Locals, WriteTx \/ WriteLatest
    PROVE  /\ \/ pc = "write-tx" /\ pc' = "write-latest"
              \/ pc = "write-latest" /\ pc' = "written"
           /\ op'.say = op.say /\ op'.failed = op.failed
           /\ op.bad => op'.bad
           /\ SameJob(op, op') /\ SameMarks(op, op') /\ SameWork(op, op')
           /\ UNCHANGED <<fenced, runtime, snap, plans, recovery, settings>>
<1>1. \E o \in Outcomes : op' = [op EXCEPT !.bad = @ \/ o # "ok"]
  BY Zenon DEF WriteTx, WriteLatest
<1>2. PICK bad \in BOOLEAN : op' = [op EXCEPT !.bad = bad] /\ (op.bad => bad)
  BY <1>1, Zenon
<1> QED
  BY <1>2 DEF WriteTx, WriteLatest, Locals, SameJob, SameMarks, SameWork

\* What a write of the records leaves in them.
LEMMA TxOutcomes ==
    ASSUME op \in Locals, WriteTx
    PROVE  \/ /\ tx' = [tx EXCEPT ![op.plan] = Said]
              /\ faults' = faults /\ op'.bad = op.bad
           \/ /\ \E r \in {tx[op.plan], Said} : tx' = [tx EXCEPT ![op.plan] = r]
              /\ faults' = faults + 1 /\ op'.bad
<1>1. PICK o \in Outcomes :
        /\ Fault(o)
        /\ tx' = [tx EXCEPT ![op.plan] = After(o, @, Said)]
        /\ op' = [op EXCEPT !.bad = @ \/ o # "ok"]
  BY DEF WriteTx, Said
<1>2. /\ o = "ok" => op'.bad = op.bad
      /\ o # "ok" => op'.bad
  <2>1. op' = [op EXCEPT !.bad = op.bad \/ o # "ok"]
    BY <1>1
  <2>2. o # "ok" => op' = [op EXCEPT !.bad = TRUE]
    BY <2>1, Zenon
  <2>3. o = "ok" => op' = [op EXCEPT !.bad = op.bad]
    BY <2>1, Zenon DEF Locals
  <2> QED
    BY <2>2, <2>3 DEF Locals
<1>3. CASE o = "ok"
  BY <1>1, <1>2, <1>3, FaultCosts DEF After, Locals
<1>4. CASE o # "ok"
  BY <1>1, <1>2, <1>4, FaultCosts DEF After
<1> QED
  BY <1>3, <1>4

LEMMA LatestOutcomes ==
    ASSUME op \in Locals, WriteLatest
    PROVE  \/ latest' = Said /\ faults' = faults /\ op'.bad = op.bad
           \/ latest' \in {latest, Said} /\ faults' = faults + 1 /\ op'.bad
<1>1. PICK o \in Outcomes :
        /\ Fault(o)
        /\ latest' = After(o, latest, Said)
        /\ op' = [op EXCEPT !.bad = @ \/ o # "ok"]
  BY DEF WriteLatest, Said
<1>2. /\ o = "ok" => op'.bad = op.bad
      /\ o # "ok" => op'.bad
  <2>1. op' = [op EXCEPT !.bad = op.bad \/ o # "ok"]
    BY <1>1
  <2>2. o # "ok" => op' = [op EXCEPT !.bad = TRUE]
    BY <2>1, Zenon
  <2>3. o = "ok" => op' = [op EXCEPT !.bad = op.bad]
    BY <2>1, Zenon DEF Locals
  <2> QED
    BY <2>2, <2>3 DEF Locals
<1>3. CASE o = "ok"
  BY <1>1, <1>2, <1>3, FaultCosts DEF After, Locals
<1>4. CASE o # "ok"
  BY <1>1, <1>2, <1>4, FaultCosts DEF After
<1> QED
  BY <1>3, <1>4

LEMMA PlanWriteFields ==
    ASSUME op \in Locals, WritePlan
    PROVE  /\ pc = "write-plan"
           /\ \/ /\ op.say # "committed" /\ pc' = "write-tx"
                 /\ op'.say = op.say /\ op'.failed = op.failed
                 /\ SameJob(op, op') /\ SameMarks(op, op') /\ SameWork(op, op')
                 /\ \/ /\ ~op'.bad /\ latestPlan' = PlanFile(op.plan, op.say)
                       /\ faults' = faults
                    \/ op'.bad /\ faults' = faults + 1
              \/ /\ op.say = "committed" /\ pc' = "write-boot" /\ op' = op
                 /\ latestPlan' = PlanFile(op.plan, "committed")
                 /\ faults' = faults
              \/ /\ op.say = "committed" /\ RollsBack(op)
                 /\ faults' = faults + 1
           /\ latestPlan' \in {latestPlan, PlanFile(op.plan, op.say)}
           /\ UNCHANGED <<fenced, runtime, snap, journals, bootPlan, recovery,
                          settings>>
<1>1. PICK o \in Outcomes :
        /\ Fault(o)
        /\ latestPlan' = After(o, latestPlan, PlanFile(op.plan, op.say))
        /\ IF op.say # "committed"
             THEN op' = [op EXCEPT !.bad = o # "ok"] /\ pc' = "write-tx"
             ELSE IF o = "ok" THEN op' = op /\ pc' = "write-boot"
                              ELSE ToRollback(op)
  BY DEF WritePlan
<1>2. CASE op.say # "committed"
  <2>1. PICK bad \in BOOLEAN :
          op' = [op EXCEPT !.bad = bad] /\ (bad <=> o # "ok")
    BY <1>1, <1>2, Zenon
  <2>2. /\ op'.say = op.say /\ op'.failed = op.failed /\ op'.bad = bad
        /\ SameJob(op, op') /\ SameMarks(op, op') /\ SameWork(op, op')
    BY <2>1 DEF Locals, SameJob, SameMarks, SameWork
  <2> QED
    BY <1>1, <1>2, <2>1, <2>2, FaultCosts DEF WritePlan, After
<1>3. CASE op.say = "committed"
  BY <1>1, <1>3, FaultCosts, RollbackFields DEF WritePlan, After
<1> QED
  BY <1>2, <1>3

LEMMA BootWriteFields ==
    ASSUME op \in Locals, WriteBoot
    PROVE  /\ pc = "write-boot"
           /\ \/ /\ pc' = "write-tx" /\ op' = op /\ bootPlan' = op.plan
                 /\ faults' = faults
              \/ RollsBack(op) /\ faults' = faults + 1
           /\ bootPlan' \in {bootPlan, op.plan}
           /\ UNCHANGED <<fenced, runtime, snap, journals, latestPlan,
                          recovery, settings>>
BY FaultCosts, RollbackFields DEF WriteBoot, After

\* What a step from a written record does.
Leaves(l) == RollsBack(l) /\ UNCHANGED fenced

LEMMA WrittenFields ==
    ASSUME op \in Locals,
           Begun \/ Committing \/ CommittedOrNot \/ Rejected \/ RollingBack
           \/ RolledBackOrNot
    PROVE  /\ pc = "written"
           /\ UNCHANGED <<runtime, snap, journals, plans, recovery, settings>>
           /\ \/ /\ op.say = "applying" /\ op.bad /\ Return(TRUE)
                 /\ faults' = faults
              \/ /\ op.say = "applying" /\ ~op.bad /\ faults' = faults
                 /\ op' = op /\ pc' = "snapshot" /\ UNCHANGED fenced
              \/ /\ op.say = "committing" /\ op.bad /\ Leaves(op)
                 /\ faults' = faults
              \/ /\ op.say = "committing" /\ ~op.bad /\ pc' = "write-plan"
                 /\ UNCHANGED fenced /\ faults' = faults
                 /\ op'.say = "committed" /\ op'.pub /\ op'.undo = op.undo
                 /\ ~op'.bad /\ op'.broken = op.broken
                 /\ SameJob(op, op') /\ SameWork(op, op')
              \/ /\ op.say = "committed" /\ op.kind = "apply" /\ Leaves(op)
                 /\ \/ op.bad /\ faults' = faults
                    \/ faults' = faults + 1
              \/ /\ op.say = "committed" /\ ~(op.bad /\ op.kind = "apply")
                 /\ Return(FALSE) /\ faults' = faults
              \/ /\ op.say = "canary-failed" /\ faults' = faults
                 /\ \E fence \in BOOLEAN : Return(fence) /\ (op.bad => fence)
              \/ /\ op.say = "rolling-back" /\ faults' = faults
                 /\ pc' = "restore" /\ UNCHANGED fenced
                 /\ op'.say = op.say /\ op'.broken = op.bad /\ op'.bad = op.bad
                 /\ op'.undo = op.undo /\ op'.pub = op.pub
                 /\ SameJob(op, op') /\ SameWork(op, op')
              \/ /\ op.say \in {"rolled-back", "rollback-failed"}
                 /\ op.bad /\ pc' = "write-plan" /\ UNCHANGED fenced
                 /\ op'.say = "rollback-failed" /\ ~op'.bad
                 /\ faults' = faults
                 /\ SameJob(op, op') /\ SameMarks(op, op') /\ SameWork(op, op')
              \/ /\ op.say \in {"rolled-back", "rollback-failed"}
                 /\ faults' = faults
                 /\ \E fence \in BOOLEAN :
                       /\ Return(fence)
                       /\ op.bad \/ op.say = "rollback-failed" => fence
<1>1. CASE Begun
  BY <1>1, Zenon DEF Begun, unpublished, plans, journals, settings
<1>2. CASE Committing
  <2>1. CASE op.bad
    BY <1>2, <2>1, RollbackFields, Zenon
       DEF Committing, unpublished, plans, journals, settings, Leaves
  <2>2. CASE ~op.bad
    <3>1. op' = [op EXCEPT !.say = "committed", !.bad = FALSE, !.pub = TRUE]
      BY <1>2, <2>2, Zenon DEF Committing, Publish
    <3>2. /\ op'.say = "committed" /\ op'.pub /\ op'.undo = op.undo
          /\ ~op'.bad /\ op'.broken = op.broken /\ SameJob(op, op') /\ SameWork(op, op')
      BY <3>1 DEF Locals, SameJob, SameWork
    <3> QED
      BY <1>2, <2>2, <3>2, Zenon
         DEF Committing, unpublished, plans, journals, settings
  <2> QED
    BY <2>1, <2>2
<1>3. CASE CommittedOrNot
  <2>1. CASE op.bad /\ op.kind = "apply"
    BY <1>3, <2>1, RollbackFields, Zenon
       DEF CommittedOrNot, plans, journals, settings, Leaves
  <2>2. CASE ~(op.bad /\ op.kind = "apply")
    BY <1>3, <2>2, RollbackFields, LostCosts, Zenon
       DEF CommittedOrNot, plans, journals, settings, Leaves
  <2> QED
    BY <2>1, <2>2
<1>4. CASE Rejected
  <2>1. \E fence \in BOOLEAN : Return(fence) /\ (op.bad => fence)
    BY <1>4, Zenon DEF Rejected
  <2> QED
    BY <1>4, <2>1, Zenon DEF Rejected, unpublished, plans, journals, settings
<1>5. CASE RollingBack
  <2>1. /\ op'.say = op.say /\ op'.broken = op.bad /\ op'.bad = op.bad
        /\ op'.undo = op.undo /\ op'.pub = op.pub
        /\ SameJob(op, op') /\ SameWork(op, op')
    BY <1>5 DEF RollingBack, Locals, SameJob, SameWork
  <2> QED
    BY <1>5, <2>1, Zenon
       DEF RollingBack, unpublished, plans, journals, settings
<1>6. CASE RolledBackOrNot
  <2>1. CASE op.bad /\ ~op.again
    <3>1. op' = [op EXCEPT !.say = "rollback-failed", !.bad = FALSE,
                           !.again = TRUE]
      BY <1>6, <2>1, Zenon DEF RolledBackOrNot, Publish
    <3>2. /\ op'.say = "rollback-failed" /\ ~op'.bad
          /\ SameJob(op, op') /\ SameMarks(op, op') /\ SameWork(op, op')
      BY <3>1 DEF Locals, SameJob, SameMarks, SameWork
    <3> QED
      BY <1>6, <2>1, <3>2, Zenon
         DEF RolledBackOrNot, unpublished, plans, journals, settings
  <2>2. CASE ~(op.bad /\ ~op.again)
    <3>1. \E fence \in BOOLEAN :
             /\ Return(fence)
             /\ op.bad \/ op.say = "rollback-failed" => fence
      BY <1>6, <2>2, Zenon DEF RolledBackOrNot
    <3> QED
      BY <1>6, <3>1, Zenon
         DEF RolledBackOrNot, unpublished, plans, journals, settings
  <2> QED
    BY <2>1, <2>2
<1> QED
  BY <1>1, <1>2, <1>3, <1>4, <1>5, <1>6, Zenon


(***************************************************************************)
(* Apply.                                                                  *)
(***************************************************************************)
LEMMA StartFields ==
    ASSUME NEW p \in Plans, StartApply(p)
    PROVE  /\ pc = "idle" /\ ~fenced /\ ~cfg.safe /\ Settled
           /\ Affected(p) # {}
           /\ Committed \in LanPlans /\ p \notin LanPlans => runtime = AllOff
           /\ pc' = "preserve" /\ snap' = AllOff
           /\ op'.kind = "apply" /\ op'.plan = p /\ op'.say = "applying"
           /\ ~op'.live /\ ~op'.bad /\ ~op'.broken /\ ~op'.undo
           /\ ~op'.pub
           /\ op'.prepared = {} /\ op'.prevBoot = Committed
           /\ op'.prevCfg = cfg.applied
           /\ UNCHANGED <<fenced, runtime, journals, plans, recovery, settings,
                          faults>>
BY DEF StartApply, forward, journals, plans, settings, Idle

LEMMA PreserveFields ==
    ASSUME op \in Locals, Preserve
    PROVE  /\ pc = "preserve"
           /\ \/ /\ pc' = "write-tx" /\ op' = op /\ UNCHANGED fenced
                 /\ \/ /\ bootPlan # NoPlan \/ Committed = NoPlan
                       /\ bootPlan' = bootPlan
                    \/ bootPlan = NoPlan /\ bootPlan' = Committed
              \/ Return(TRUE)
           /\ \/ bootPlan' = bootPlan
              \/ bootPlan = NoPlan /\ bootPlan' = Committed
           /\ faults' = faults \/ faults' = faults + 1
           /\ UNCHANGED <<runtime, snap, journals, latestPlan, recovery,
                          settings>>
<1>1. CASE bootPlan # NoPlan \/ Committed = NoPlan
  BY <1>1 DEF Preserve, journals, settings
<1>2. CASE ~(bootPlan # NoPlan \/ Committed = NoPlan)
  <2>1. PICK o \in Outcomes :
          /\ Fault(o)
          /\ bootPlan' = After(o, bootPlan, Committed)
          /\ IF o = "ok" THEN pc' = "write-tx" /\ UNCHANGED <<op, fenced>>
                         ELSE Return(TRUE)
    BY <1>2, Zenon DEF Preserve
  <2>2. faults' = faults \/ faults' = faults + 1
    BY <2>1, FaultCosts
  <2>3. CASE o = "ok"
    BY <1>2, <2>1, <2>2, <2>3 DEF Preserve, After
  <2>4. CASE o # "ok"
    BY <1>2, <2>1, <2>2, <2>4 DEF Preserve, After
  <2> QED
    BY <2>3, <2>4
<1> QED
  BY <1>1, <1>2

\* A step of Apply that fails: only what it prepared and whether it reached
\* the runtime may differ from before.
Gives(prepared, live) ==
    /\ op'.prepared = prepared /\ op'.live = live
    /\ SameJob(op, op') /\ SameMarks(op, op')
    /\ faults' = faults + 1
Undoes(prepared, live) ==
    /\ pc' = "write-tx" /\ op'.say = "rolling-back" /\ op'.bad = FALSE
    /\ op'.todo = prepared \ {Gate} /\ op'.retire = {}
    /\ Gives(prepared, live)
Refuses(prepared) ==
    /\ pc' = "write-plan" /\ op'.say = "canary-failed" /\ op'.bad = FALSE
    /\ op'.todo = {} /\ op'.retire = {}
    /\ Gives(prepared, FALSE)

LEMMA FailedFields ==
    ASSUME NEW local \in Locals, NEW refused \in BOOLEAN, Fail(local, refused),
           SameJob(op, local), SameMarks(op, local), faults' = faults + 1
    PROVE  \/ Undoes(local.prepared, local.live)
           \/ ~local.live /\ refused /\ Refuses(local.prepared)
<1>1. CASE refused /\ ~local.live
  <2>1. Rejects(local)
    BY <1>1, RejectFields, Zenon DEF Fail
  <2> QED
    BY <1>1, <2>1 DEF Rejects, Refuses, Gives, SameJob, SameMarks, Locals
<1>2. CASE ~(refused /\ ~local.live)
  <2>1. RollsBack(local)
    BY <1>2, RollbackFields, Zenon DEF Fail
  <2> QED
    BY <2>1 DEF RollsBack, Undoes, Gives, SameJob, SameMarks
<1> QED
  BY <1>1, <1>2

LEMMA ForwardUnchanged ==
    ASSUME UNCHANGED forward
    PROVE  UNCHANGED <<fenced, journals, plans, recovery>>
BY DEF forward, journals, plans

LEMMA SnapshotFields ==
    ASSUME op \in Locals, op.plan \in Plans, Snapshot
    PROVE  /\ pc = "snapshot"
           /\ \/ /\ pc' = "candidate" /\ op'.prepared = Affected(op.plan)
                 /\ Gate \in Affected(op.plan) => runtime[Gate] = Off
                 /\ snap' = Image(Affected(op.plan))
                 /\ op'.say = op.say /\ op'.live = op.live
                 /\ op'.bad = op.bad
                 /\ SameJob(op, op') /\ SameMarks(op, op')
                 /\ faults' = faults
              \/ \E done \in SUBSET Affected(op.plan) :
                    /\ snap' = Image(done)
                    /\ Gate \in Affected(op.plan) \ done => done = {}
                    /\ Gate \in done => runtime[Gate] = Off
                    /\ Undoes(done, op.live) \/ (~op.live /\ Refuses(done))
           /\ UNCHANGED <<fenced, runtime, journals, plans, recovery, settings>>
<1>1. Affected(op.plan) \subseteq Adapters
  BY AffectedValue
<1>2. UNCHANGED <<fenced, runtime, journals, plans, recovery, settings>>
  BY ForwardUnchanged, Zenon DEF Snapshot
<1>3. CASE pc' = "candidate"
  <2>1. \/ /\ Gate \in Affected(op.plan) => runtime[Gate] = Off
           /\ snap' = Image(Affected(op.plan))
           /\ op' = [op EXCEPT !.prepared = Affected(op.plan)]
           /\ faults' = faults
        \/ \E done \in SUBSET Affected(op.plan), refused, journal \in BOOLEAN :
              Fail([op EXCEPT !.prepared = done, !.lostJournal = journal],
                   refused)
    BY Zenon DEF Snapshot
  <2>2. ASSUME NEW local, NEW refused, Fail(local, refused) PROVE FALSE
    BY <1>3, <2>2 DEF Fail, ToReject, ToRollback
  <2>3. /\ Gate \in Affected(op.plan) => runtime[Gate] = Off
        /\ snap' = Image(Affected(op.plan))
        /\ op' = [op EXCEPT !.prepared = Affected(op.plan)]
        /\ faults' = faults
    BY <2>1, <2>2, Zenon
  <2>4. /\ op'.prepared = Affected(op.plan) /\ op'.say = op.say
        /\ op'.live = op.live /\ op'.bad = op.bad
        /\ SameJob(op, op') /\ SameMarks(op, op')
    BY <2>3 DEF Locals, SameJob, SameMarks
  <2> QED
    BY <1>2, <1>3, <2>3, <2>4, Zenon DEF Snapshot
<1>4. CASE pc' # "candidate"
  <2>1. PICK done \in SUBSET Affected(op.plan), refused, journal \in BOOLEAN :
          /\ Fault("lost") /\ snap' = Image(done)
          /\ Gate \in Affected(op.plan) \ done => done = {}
          /\ Gate \in done => runtime[Gate] = Off
          /\ Fail([op EXCEPT !.prepared = done, !.lostJournal = journal],
                  refused)
    BY <1>4, Zenon DEF Snapshot
  <2> DEFINE local == [op EXCEPT !.prepared = done, !.lostJournal = journal]
  <2>2. /\ local \in Locals /\ local.prepared = done /\ local.live = op.live
        /\ SameJob(op, local) /\ SameMarks(op, local)
    BY <1>1, <2>1 DEF Locals, SameJob, SameMarks
  <2>3. Fail(local, refused) /\ faults' = faults + 1
    BY <2>1, LostCosts
  <2> HIDE DEF local
  <2>4. Undoes(done, op.live) \/ (~op.live /\ Refuses(done))
    BY <2>1, <2>2, <2>3, FailedFields, Zenon
  <2> QED
    BY <1>2, <2>1, <2>4, Zenon DEF Snapshot
<1> QED
  BY <1>3, <1>4

LEMMA CandidateFields ==
    ASSUME op \in Locals, op.plan \in Plans, Candidate
    PROVE  /\ pc = "candidate"
           /\ \/ /\ pc' = "activate"
                 /\ op'.todo = AdaptersOf[op.plan]
                 /\ op'.retire = op.prepared \ AdaptersOf[op.plan]
                 /\ op'.prepared = op.prepared
                 /\ op'.say = op.say /\ op'.live = op.live
                 /\ op'.bad = op.bad
                 /\ SameJob(op, op') /\ SameMarks(op, op')
                 /\ faults' = faults
              \/ Undoes(op.prepared, op.live)
              \/ ~op.live /\ Refuses(op.prepared)
           /\ UNCHANGED <<fenced, runtime, snap, journals, plans, recovery,
                          settings>>
<1>1. UNCHANGED <<fenced, runtime, snap, journals, plans, recovery, settings>>
  BY ForwardUnchanged, Zenon DEF Candidate
<1>2. CASE /\ op' = [op EXCEPT !.todo = AdaptersOf[op.plan],
                               !.retire = op.prepared \ AdaptersOf[op.plan]]
           /\ pc' = "activate" /\ faults' = faults
  <2>1. /\ op'.todo = AdaptersOf[op.plan]
        /\ op'.retire = op.prepared \ AdaptersOf[op.plan]
        /\ op'.prepared = op.prepared /\ op'.say = op.say
        /\ op'.live = op.live /\ op'.bad = op.bad
        /\ SameJob(op, op') /\ SameMarks(op, op')
    BY <1>2 DEF Locals, SameJob, SameMarks
  <2> QED
    BY <1>1, <1>2, <2>1, Zenon DEF Candidate
<1>3. ASSUME NEW refused \in BOOLEAN, NEW journal \in BOOLEAN, Fault("lost"),
             Fail([op EXCEPT !.lostJournal = journal], refused)
      PROVE  \/ Undoes(op.prepared, op.live)
             \/ ~op.live /\ Refuses(op.prepared)
  <2> DEFINE local == [op EXCEPT !.lostJournal = journal]
  <2>1. /\ local \in Locals /\ local.prepared = op.prepared
        /\ local.live = op.live /\ SameJob(op, local) /\ SameMarks(op, local)
    BY DEF Locals, SameJob, SameMarks
  <2>2. Fail(local, refused) /\ faults' = faults + 1
    BY <1>3, LostCosts
  <2> HIDE DEF local
  <2> QED
    BY <2>1, <2>2, FailedFields, Zenon
<1> QED
  BY <1>1, <1>2, <1>3, Zenon DEF Candidate


\* A live step changes one adapter.  Whatever a failed one did to it, the
\* adapter now belongs to the plan it had or to the plan it was to have.
Others(a) == \A b \in Adapters \ {a} : runtime'[b] = runtime[b]
Brings(a, goal) == runtime'[a] = goal /\ Others(a)
Disturbs(a, p) == runtime'[a].plan \in {runtime[a].plan, p} /\ Others(a)

LEMMA LiveStep ==
    ASSUME runtime \in Runtimes, NEW a \in Adapters, NEW goal,
           runtime' = [runtime EXCEPT ![a] = goal]
    PROVE  Brings(a, goal)
BY DEF Brings, Others, Runtimes

LEMMA PartialDisturbs ==
    ASSUME runtime \in Runtimes, NEW a \in Adapters, NEW goal,
           NEW effect \in Partial(a, goal),
           runtime' = [runtime EXCEPT ![a] = effect]
    PROVE  Disturbs(a, goal.plan)
<1>1. effect.plan \in {runtime[a].plan, goal.plan}
  BY DEF Partial, Torn
<1>2. Brings(a, effect)
  BY LiveStep
<1> QED
  BY <1>1, <1>2 DEF Brings, Disturbs

LEMMA ActivateFields ==
    ASSUME op \in Locals, op.plan \in Plans, runtime \in Runtimes,
           NEW a \in Adapters, Activate(a)
    PROVE  /\ pc = "activate" /\ a \in op.todo
           /\ a # Gate => Gate \notin op.todo /\ op.retire = {}
           /\ \/ /\ pc' = "activate" /\ op'.live
                 /\ Brings(a, Whole(op.plan))
                 /\ op'.todo = op.todo \ {a} /\ op'.retire = op.retire
                 /\ op'.prepared = op.prepared /\ op'.say = op.say
                 /\ op'.bad = op.bad
                 /\ SameJob(op, op') /\ SameMarks(op, op')
                 /\ faults' = faults
              \/ Disturbs(a, op.plan) /\ Undoes(op.prepared, TRUE)
              \/ /\ runtime' = runtime
                 /\ \/ Undoes(op.prepared, op.live)
                    \/ ~op.live /\ Refuses(op.prepared)
           /\ UNCHANGED <<fenced, snap, journals, plans, recovery, settings>>
<1>1. UNCHANGED <<fenced, snap, journals, plans, recovery, settings>>
  BY ForwardUnchanged, Zenon DEF Activate
<1>2. CASE /\ runtime' = [runtime EXCEPT ![a] = Whole(op.plan)]
           /\ op' = [op EXCEPT !.todo = @ \ {a}, !.live = TRUE]
           /\ UNCHANGED <<pc, faults>>
  <2>1. /\ op'.live /\ op'.todo = op.todo \ {a} /\ op'.retire = op.retire
        /\ op'.prepared = op.prepared /\ op'.say = op.say
        /\ op'.bad = op.bad
        /\ SameJob(op, op') /\ SameMarks(op, op')
    BY <1>2 DEF Locals, SameJob, SameMarks
  <2> QED
    BY <1>1, <1>2, <2>1, LiveStep, Zenon DEF Activate
<1>3. ASSUME NEW lost \in BOOLEAN, Fault("lost"),
             Fail([op EXCEPT !.failed = TRUE, !.live = TRUE,
                             !.lostJournal = lost], FALSE)
      PROVE  Undoes(op.prepared, TRUE)
  <2> DEFINE local == [op EXCEPT !.failed = TRUE, !.live = TRUE,
                                 !.lostJournal = lost]
  <2>1. /\ local \in Locals /\ local.prepared = op.prepared
        /\ local.live = TRUE /\ SameJob(op, local) /\ SameMarks(op, local)
    BY DEF Locals, SameJob, SameMarks
  <2>2. Fail(local, FALSE) /\ faults' = faults + 1
    BY <1>3, LostCosts
  <2> HIDE DEF local
  <2> QED
    BY <2>1, <2>2, FailedFields, Zenon
<1>4. ASSUME NEW refused \in BOOLEAN, Fault("lost"),
             Fail([op EXCEPT !.failed = TRUE, !.lostJournal = ~refused],
                  refused)
      PROVE  \/ Undoes(op.prepared, op.live)
             \/ ~op.live /\ Refuses(op.prepared)
  <2> DEFINE local == [op EXCEPT !.failed = TRUE, !.lostJournal = ~refused]
  <2>1. /\ local \in Locals /\ local.prepared = op.prepared
        /\ local.live = op.live /\ SameJob(op, local) /\ SameMarks(op, local)
    BY DEF Locals, SameJob, SameMarks
  <2>2. Fail(local, refused) /\ faults' = faults + 1
    BY <1>4, LostCosts
  <2> HIDE DEF local
  <2> QED
    BY <2>1, <2>2, FailedFields, Zenon
<1>5. CASE Fault("lost")
           /\ \E effect \in Partial(a, Whole(op.plan)), lost \in BOOLEAN :
                 /\ runtime' = [runtime EXCEPT ![a] = effect]
                 /\ Fail([op EXCEPT !.failed = TRUE, !.live = TRUE,
                                    !.lostJournal = lost], FALSE)
  <2>1. PICK effect \in Partial(a, Whole(op.plan)), lost \in BOOLEAN :
          /\ runtime' = [runtime EXCEPT ![a] = effect]
          /\ Fail([op EXCEPT !.failed = TRUE, !.live = TRUE,
                             !.lostJournal = lost], FALSE)
    BY <1>5, Zenon
  <2>2. Whole(op.plan).plan = op.plan
    BY DEF Whole
  <2>3. Disturbs(a, op.plan)
    BY <2>1, <2>2, PartialDisturbs
  <2>4. Undoes(op.prepared, TRUE)
    BY <1>3, <1>5, <2>1, Zenon
  <2> QED
    BY <1>1, <2>3, <2>4, Zenon DEF Activate
<1> QED
  BY <1>1, <1>2, <1>4, <1>5, Zenon DEF Activate

LEMMA RetireFields ==
    ASSUME op \in Locals, op.plan \in Plans, runtime \in Runtimes,
           NEW a \in Adapters, DeactivateRetiring(a)
    PROVE  /\ pc = "activate" /\ a \in op.retire /\ Gate \notin op.todo
           /\ \/ /\ pc' = "activate" /\ op'.live
                 /\ Brings(a, Off)
                 /\ op'.todo = op.todo /\ op'.retire = op.retire \ {a}
                 /\ op'.prepared = op.prepared /\ op'.say = op.say
                 /\ op'.bad = op.bad
                 /\ SameJob(op, op') /\ SameMarks(op, op')
                 /\ faults' = faults
              \/ Disturbs(a, NoPlan) /\ Undoes(op.prepared, TRUE)
           /\ UNCHANGED <<fenced, snap, journals, plans, recovery, settings>>
<1>1. UNCHANGED <<fenced, snap, journals, plans, recovery, settings>>
  BY ForwardUnchanged, Zenon DEF DeactivateRetiring
<1>2. CASE /\ runtime' = [runtime EXCEPT ![a] = Off]
           /\ op' = [op EXCEPT !.retire = @ \ {a}, !.live = TRUE]
           /\ UNCHANGED <<pc, faults>>
  <2>1. /\ op'.live /\ op'.todo = op.todo /\ op'.retire = op.retire \ {a}
        /\ op'.prepared = op.prepared /\ op'.say = op.say
        /\ op'.bad = op.bad
        /\ SameJob(op, op') /\ SameMarks(op, op')
    BY <1>2 DEF Locals, SameJob, SameMarks
  <2> QED
    BY <1>1, <1>2, <2>1, LiveStep, Zenon DEF DeactivateRetiring
<1>3. CASE \E effect \in Partial(a, Off), lost \in BOOLEAN :
              /\ Fault("lost")
              /\ runtime' = [runtime EXCEPT ![a] = effect]
              /\ Fail([op EXCEPT !.live = TRUE, !.lostJournal = lost], FALSE)
  <2>1. PICK effect \in Partial(a, Off), lost \in BOOLEAN :
          /\ Fault("lost")
          /\ runtime' = [runtime EXCEPT ![a] = effect]
          /\ Fail([op EXCEPT !.live = TRUE, !.lostJournal = lost], FALSE)
    BY <1>3, Zenon
  <2>2. Off.plan = NoPlan
    BY DEF Off
  <2>3. Disturbs(a, NoPlan)
    BY <2>1, <2>2, PartialDisturbs
  <2> DEFINE local == [op EXCEPT !.live = TRUE, !.lostJournal = lost]
  <2>4. /\ local \in Locals /\ local.prepared = op.prepared
        /\ local.live = TRUE /\ SameJob(op, local) /\ SameMarks(op, local)
    BY DEF Locals, SameJob, SameMarks
  <2>5. Fail(local, FALSE) /\ faults' = faults + 1
    BY <2>1, LostCosts
  <2> HIDE DEF local
  <2>6. Undoes(op.prepared, TRUE)
    BY <2>4, <2>5, FailedFields, Zenon
  <2> QED
    BY <1>1, <2>3, <2>6, Zenon DEF DeactivateRetiring
<1> QED
  BY <1>2, <1>3, Zenon DEF DeactivateRetiring

LEMMA HealthFields ==
    ASSUME op \in Locals, op.plan \in Plans, HealthAndCommit
    PROVE  /\ pc = "activate" /\ op.todo = {} /\ op.retire = {}
           /\ \/ /\ pc' = "config" /\ op'.live /\ runtime' = runtime
                 /\ op'.prepared = op.prepared /\ op'.say = op.say
                 /\ op'.bad = op.bad
                 /\ SameJob(op, op') /\ SameMarks(op, op')
                 /\ faults' = faults
              \/ /\ Undoes(op.prepared, TRUE)
                 /\ \E torn \in SUBSET (AdaptersOf[op.plan] \ {Gate}) :
                       runtime' = [a \in Adapters |->
                           IF a \in torn THEN Torn(op.plan) ELSE runtime[a]]
           /\ UNCHANGED <<fenced, snap, journals, plans, recovery, settings>>
<1>1. UNCHANGED <<fenced, snap, journals, plans, recovery, settings>>
  BY ForwardUnchanged, Zenon DEF HealthAndCommit
<1>2. CASE /\ UNCHANGED <<runtime, faults>>
           /\ op' = [op EXCEPT !.live = TRUE]
           /\ pc' = "config"
  <2>1. /\ op'.live /\ op'.prepared = op.prepared /\ op'.say = op.say
        /\ op'.bad = op.bad
        /\ SameJob(op, op') /\ SameMarks(op, op')
    BY <1>2 DEF Locals, SameJob, SameMarks
  <2> QED
    BY <1>1, <1>2, <2>1, Zenon DEF HealthAndCommit
<1>3. CASE \E failed, lost \in BOOLEAN,
              torn \in SUBSET (AdaptersOf[op.plan] \ {Gate}) :
              /\ Fault("lost")
              /\ runtime' = [a \in Adapters |->
                    IF a \in torn THEN Torn(op.plan) ELSE runtime[a]]
              /\ Fail([op EXCEPT !.failed = failed \/ torn # {},
                                 !.live = TRUE, !.lostJournal = lost], FALSE)
  <2>1. PICK failed \in BOOLEAN, lost \in BOOLEAN,
             torn \in SUBSET (AdaptersOf[op.plan] \ {Gate}) :
          /\ Fault("lost")
          /\ runtime' = [a \in Adapters |->
                IF a \in torn THEN Torn(op.plan) ELSE runtime[a]]
          /\ Fail([op EXCEPT !.failed = failed \/ torn # {},
                             !.live = TRUE, !.lostJournal = lost], FALSE)
    BY <1>3, Zenon
  <2>2. PICK mark \in BOOLEAN : mark = (failed \/ torn # {})
    OBVIOUS
  <2> DEFINE local == [op EXCEPT !.failed = mark, !.live = TRUE,
                                 !.lostJournal = lost]
  <2>3. /\ local \in Locals /\ local.prepared = op.prepared
        /\ local.live = TRUE /\ SameJob(op, local) /\ SameMarks(op, local)
    BY DEF Locals, SameJob, SameMarks
  <2>4. Fail(local, FALSE) /\ faults' = faults + 1
    BY <2>1, <2>2, LostCosts
  <2> HIDE DEF local
  <2>5. Undoes(op.prepared, TRUE)
    BY <2>3, <2>4, FailedFields, Zenon
  <2> QED
    BY <1>1, <2>1, <2>5, Zenon DEF HealthAndCommit
<1> QED
  BY <1>2, <1>3, Zenon DEF HealthAndCommit

\* What a save of the applied settings leaves in memory.
LEMMA SavedFields ==
    ASSUME NEW o \in Outcomes, NEW new, SaveSettings(o, new)
    PROVE  /\ IF o = "ok" THEN cfg' = new ELSE cfg' = cfg
           /\ o = "ok" => ~uncertain /\ ~uncertain' /\ faults' = faults
           /\ uncertain => uncertain'
           /\ faults' = faults \/ faults' = faults + 1
<1>1. "lost" # "ok" /\ "late" # "ok"
  OBVIOUS
<1>2. CASE uncertain /\ o = "lost" /\ UNCHANGED <<settings, faults>>
  BY <1>1, <1>2 DEF settings
<1>3. CASE /\ ~uncertain /\ Fault(o)
           /\ cfg' = IF o = "ok" THEN new ELSE cfg
           /\ uncertain' = (o = "late")
  BY <1>1, <1>3, FaultCosts, Zenon
<1> QED
  BY <1>2, <1>3, Zenon DEF SaveSettings


LEMMA ConfigFields ==
    ASSUME op \in Locals, op.plan \in Plans, CommitConfig,
           cfg \in [applied : Names, safe : BOOLEAN]
    PROVE  /\ pc = "config" /\ pc' = "write-tx"
           /\ \/ /\ \/ op'.say = "committing" /\ op'.bad = op.bad
                    \/ /\ op'.say = "rolling-back" /\ op'.bad = FALSE
                       /\ op'.todo = op.prepared \ {Gate}
                 /\ cfg'.applied = op.plan /\ op'.undo /\ faults' = faults
              \/ /\ op'.say = "rolling-back" /\ op'.bad = FALSE
                 /\ op'.todo = op.prepared \ {Gate}
                 /\ cfg' = cfg /\ op'.undo = op.undo
                 /\ \/ faults' = faults
                    \/ faults' = faults + 1
           /\ op'.prepared = op.prepared /\ op'.pub = op.pub
           /\ op'.broken = op.broken /\ SameJob(op, op')
           /\ \/ op'.live = op.live
              \/ op'.live
           /\ cfg'.safe = cfg.safe
           /\ uncertain => uncertain'
           /\ UNCHANGED <<fenced, runtime, snap, journals, plans, recovery>>
<1>1. PICK o \in Outcomes :
        /\ SaveSettings(o, [cfg EXCEPT !.applied = op.plan])
        /\ IF o = "ok"
             THEN LET done == [op EXCEPT !.undo = TRUE]
                  IN  \/ /\ op' = [done EXCEPT !.say = "committing"]
                         /\ pc' = "write-tx"
                      \/ ToRollback(done)
             ELSE ToRollback([op EXCEPT !.live = TRUE])
  BY Zenon DEF CommitConfig
<1>2. pc = "config" /\ UNCHANGED <<fenced, runtime, snap, journals, plans, recovery>>
  BY ForwardUnchanged, Zenon DEF CommitConfig
<1> DEFINE new == [cfg EXCEPT !.applied = op.plan]
<1>3. new.applied = op.plan /\ new.safe = cfg.safe
  OBVIOUS
<1>4. /\ IF o = "ok" THEN cfg' = new ELSE cfg' = cfg
      /\ o = "ok" => faults' = faults
      /\ uncertain => uncertain'
      /\ faults' = faults \/ faults' = faults + 1
  BY <1>1, SavedFields
<1> HIDE DEF new
<1>5. CASE o = "ok"
  <2> DEFINE done == [op EXCEPT !.undo = TRUE]
  <2>1. /\ done \in Locals /\ done.undo /\ done.bad = op.bad
        /\ done.prepared = op.prepared
        /\ done.pub = op.pub /\ done.broken = op.broken
        /\ done.live = op.live /\ SameJob(op, done)
    BY DEF Locals, SameJob
  <2>2. \/ /\ op' = [done EXCEPT !.say = "committing"]
           /\ pc' = "write-tx"
        \/ ToRollback(done)
    BY <1>1, <1>5, Zenon
  <2> HIDE DEF done
  <2>3. CASE op' = [done EXCEPT !.say = "committing"] /\ pc' = "write-tx"
    <3>1. /\ op'.say = "committing" /\ op'.undo /\ op'.bad = op.bad
          /\ op'.prepared = op.prepared
          /\ op'.pub = op.pub /\ op'.broken = op.broken
          /\ op'.live = op.live /\ SameJob(op, op')
      BY <2>1, <2>3 DEF Locals, SameJob
    <3> QED
      BY <1>2, <1>3, <1>4, <1>5, <2>3, <3>1
  <2>4. CASE ToRollback(done)
    <3>1. RollsBack(done)
      BY <2>1, <2>4, RollbackFields
    <3> QED
      BY <1>2, <1>3, <1>4, <1>5, <2>1, <3>1
         DEF RollsBack, SameJob, SameMarks
  <2> QED
    BY <2>2, <2>3, <2>4
<1>6. CASE o # "ok"
  <2> DEFINE gone == [op EXCEPT !.live = TRUE]
  <2>1. /\ gone \in Locals /\ gone.undo = op.undo
        /\ gone.prepared = op.prepared
        /\ gone.pub = op.pub /\ gone.broken = op.broken
        /\ gone.live = TRUE /\ SameJob(op, gone)
    BY DEF Locals, SameJob
  <2>2. ToRollback(gone)
    BY <1>1, <1>6, Zenon
  <2> HIDE DEF gone
  <2>3. RollsBack(gone)
    BY <2>1, <2>2, RollbackFields
  <2> QED
    BY <1>2, <1>4, <1>6, <2>1, <2>3 DEF RollsBack, SameJob, SameMarks
<1> QED
  BY <1>5, <1>6


(***************************************************************************)
(* Rollback.                                                               *)
(***************************************************************************)
LEMMA RestoreFields ==
    ASSUME op \in Locals, runtime \in Runtimes, NEW a \in Adapters, Restore(a)
    PROVE  /\ pc = "restore" /\ pc' = "restore" /\ a \in op.todo
           /\ \/ Brings(a, Target(a)) /\ faults' = faults
              \/ Disturbs(a, Target(a).plan) /\ faults' = faults + 1
           /\ op'.say = op.say /\ op'.todo = op.todo \ {a}
           /\ op'.prepared = op.prepared /\ op'.live = op.live
           /\ op'.undo = op.undo /\ op'.pub = op.pub
           /\ op.broken => op'.broken
           /\ SameJob(op, op')
           /\ UNCHANGED <<fenced, snap, journals, plans, recovery, settings>>
<1>1. UNCHANGED <<fenced, snap, journals, plans, recovery, settings>>
  BY ForwardUnchanged, Zenon DEF Restore
<1>2. pc = "restore" /\ pc' = "restore" /\ a \in op.todo
  BY DEF Restore
<1>3. \/ Brings(a, Target(a)) /\ faults' = faults
      \/ Disturbs(a, Target(a).plan) /\ faults' = faults + 1
  BY LostCosts, LiveStep, PartialDisturbs, Zenon DEF Restore
<1>4. \E b \in BOOLEAN :
         op' = [op EXCEPT !.todo = op.todo \ {a}, !.broken = b]
         /\ (op.broken => b)
  <2>1. CASE op' = [op EXCEPT !.todo = op.todo \ {a}]
    <3>1. op' = [op EXCEPT !.todo = op.todo \ {a}, !.broken = op.broken]
      BY <2>1 DEF Locals
    <3>2. op.broken \in BOOLEAN
      BY DEF Locals
    <3> QED
      BY <3>1, <3>2, Zenon
  <2>2. CASE \E silent \in BOOLEAN :
               op' = [op EXCEPT !.todo = op.todo \ {a},
                                !.broken = op.broken \/ ~silent]
    BY <2>2, Zenon
  <2> QED
    BY <2>1, <2>2, Zenon DEF Restore
<1>5. /\ op'.say = op.say /\ op'.todo = op.todo \ {a}
      /\ op'.prepared = op.prepared /\ op'.live = op.live
      /\ op'.undo = op.undo /\ op'.pub = op.pub
      /\ op.broken => op'.broken
      /\ SameJob(op, op')
  <2>1. PICK b \in BOOLEAN :
          /\ op' = [op EXCEPT !.todo = op.todo \ {a}, !.broken = b]
          /\ op.broken => b
    BY <1>4, Zenon
  <2> QED
    BY <2>1 DEF Locals, SameJob
<1> QED
  BY <1>1, <1>2, <1>3, <1>5, Zenon

LEMMA UndoFields ==
    ASSUME op \in Locals, UndoConfig,
           cfg \in [applied : Names, safe : BOOLEAN]
    PROVE  /\ pc = "restore" /\ pc' = "restore" /\ op.todo = {} /\ op.undo
           /\ op'.broken \/ cfg'.applied = op.prevCfg
           /\ op.broken => op'.broken
           /\ ~op'.undo /\ op'.say = op.say /\ op'.pub = op.pub
           /\ SameJob(op, op') /\ SameWork(op, op')
           /\ faults' = faults \/ faults' = faults + 1
           /\ cfg'.safe = cfg.safe
           /\ uncertain => uncertain'
           /\ UNCHANGED <<fenced, runtime, snap, journals, plans, recovery>>
<1>1. PICK o \in Outcomes :
        /\ SaveSettings(o, [cfg EXCEPT !.applied = op.prevCfg])
        /\ op' = [op EXCEPT !.undo = FALSE, !.broken = @ \/ o # "ok"]
  BY Zenon DEF UndoConfig
<1>2. PICK b \in BOOLEAN :
        /\ op' = [op EXCEPT !.undo = FALSE, !.broken = b]
        /\ op.broken \/ o # "ok" => b
  BY <1>1, Zenon
<1>3. /\ op'.broken = b /\ ~op'.undo /\ op'.say = op.say /\ op'.pub = op.pub
      /\ SameJob(op, op') /\ SameWork(op, op')
  BY <1>2 DEF Locals, SameJob, SameWork
<1> DEFINE new == [cfg EXCEPT !.applied = op.prevCfg]
<1>4. new.applied = op.prevCfg /\ new.safe = cfg.safe
  OBVIOUS
<1>5. /\ IF o = "ok" THEN cfg' = new ELSE cfg' = cfg
      /\ uncertain => uncertain'
      /\ faults' = faults \/ faults' = faults + 1
  BY <1>1, SavedFields
<1> HIDE DEF new
<1>6. /\ pc = "restore" /\ pc' = "restore" /\ op.todo = {} /\ op.undo
      /\ UNCHANGED <<fenced, runtime, snap, journals, plans, recovery>>
  BY ForwardUnchanged, Zenon DEF UndoConfig
<1> QED
  BY <1>2, <1>3, <1>4, <1>5, <1>6

LEMMA BootRestoreFields ==
    ASSUME op \in Locals, RestoreBootPlan
    PROVE  /\ pc = "restore" /\ pc' = "restore" /\ op.todo = {} /\ ~op.undo
           /\ op.pub
           /\ op'.broken \/ bootPlan' = op.prevBoot
           /\ bootPlan' \in {bootPlan, op.prevBoot}
           /\ op.broken => op'.broken
           /\ ~op'.undo /\ op'.say = op.say /\ ~op'.pub
           /\ SameJob(op, op') /\ SameWork(op, op')
           /\ faults' = faults \/ faults' = faults + 1
           /\ UNCHANGED <<fenced, runtime, snap, journals, latestPlan,
                          recovery, settings>>
<1>1. PICK o \in Outcomes :
        /\ Fault(o)
        /\ bootPlan' = After(o, bootPlan, op.prevBoot)
        /\ op' = [op EXCEPT !.pub = FALSE, !.broken = @ \/ o # "ok"]
  BY Zenon DEF RestoreBootPlan
<1>2. PICK b \in BOOLEAN :
        /\ op' = [op EXCEPT !.pub = FALSE, !.broken = b]
        /\ op.broken \/ o # "ok" => b
  BY <1>1, Zenon
<1>3. ~op.undo
  BY DEF RestoreBootPlan
<1>4. /\ op'.broken = b /\ ~op'.undo /\ op'.say = op.say /\ ~op'.pub
      /\ SameJob(op, op') /\ SameWork(op, op')
  BY <1>2, <1>3 DEF Locals, SameJob, SameWork
<1>5. faults' = faults \/ faults' = faults + 1
  BY <1>1, FaultCosts
<1>6. /\ o = "ok" => bootPlan' = op.prevBoot
      /\ bootPlan' \in {bootPlan, op.prevBoot}
  BY <1>1 DEF After
<1> QED
  BY <1>2, <1>4, <1>5, <1>6 DEF RestoreBootPlan

LEMMA VerifyFields ==
    ASSUME op \in Locals, VerifyConsumers
    PROVE  /\ pc = "restore" /\ pc' = "gate" /\ op.todo = {}
           /\ ~op.undo /\ ~op.pub /\ ~op'.undo /\ ~op'.pub
           /\ op.broken => op'.broken
           /\ op'.verified => ~op'.broken
           /\ op'.broken
              \/ \A a \in op.prepared \ {Gate} : runtime[a] = Target(a)
           /\ op'.say = op.say
           /\ SameJob(op, op') /\ SameWork(op, op')
           /\ faults' = faults
           /\ UNCHANGED <<fenced, runtime, snap, journals, plans, recovery,
                          settings>>
<1>1. PICK error \in BOOLEAN, confirmed \in BOOLEAN :
        /\ (\E a \in op.prepared \ {Gate} : runtime[a] # Target(a)) => error
        /\ op' = [op EXCEPT !.broken = @ \/ error,
                            !.verified = ~op.broken /\ ~error /\ confirmed]
  BY Zenon DEF VerifyConsumers
<1>2. PICK b \in BOOLEAN, v \in BOOLEAN :
        /\ op' = [op EXCEPT !.broken = b, !.verified = v]
        /\ b = (op.broken \/ error) /\ (v => ~op.broken /\ ~error)
  BY <1>1, Zenon
<1>3. /\ op'.broken = b /\ op'.verified = v /\ op'.say = op.say
      /\ op'.undo = op.undo /\ op'.pub = op.pub
      /\ SameJob(op, op') /\ SameWork(op, op')
  BY <1>2 DEF Locals, SameJob, SameWork
<1>4. UNCHANGED <<fenced, runtime, snap, journals, plans, recovery, settings>>
  BY ForwardUnchanged, Zenon DEF VerifyConsumers
<1>5. /\ pc = "restore" /\ pc' = "gate" /\ op.todo = {}
      /\ ~op.undo /\ ~op.pub /\ faults' = faults
  BY Zenon DEF VerifyConsumers
<1>6. b \/ \A a \in op.prepared \ {Gate} : runtime[a] = Target(a)
  BY <1>1, <1>2, Zenon
<1>7. (op.broken => b) /\ (v => ~b)
  BY <1>2, Zenon
<1> QED
  BY <1>3, <1>4, <1>5, <1>6, <1>7

LEMMA OutcomeFields ==
    ASSUME op \in Locals, NEW broken \in BOOLEAN, ToOutcome(broken)
    PROVE  /\ pc' = "write-plan" /\ op'.bad = FALSE /\ op'.broken = broken
           /\ op'.say = IF broken THEN "rollback-failed" ELSE "rolled-back"
           /\ op'.undo = op.undo /\ op'.pub = op.pub
           /\ SameJob(op, op') /\ SameWork(op, op')
BY DEF ToOutcome, Locals, SameJob, SameWork

\* The boundary, as RollbackGate leaves it.
LEMMA GateFields ==
    ASSUME op \in Locals, runtime \in Runtimes, RollbackGate,
           Gate \in op.prepared => Gate \in Adapters
    PROVE  /\ pc = "gate" /\ pc' = "write-plan" /\ op'.bad = FALSE
           /\ \/ /\ Gate \notin op.prepared /\ op'.broken = op.broken
                 /\ runtime' = runtime /\ faults' = faults
              \/ /\ Gate \in op.prepared /\ op.live /\ ~op.verified
                 /\ op'.broken /\ runtime' = runtime /\ faults' = faults
              \/ /\ Gate \in op.prepared /\ (op.live => op.verified)
                 /\ \/ /\ Brings(Gate, snap[Gate]) /\ faults' = faults
                       /\ op'.broken = op.broken
                    \/ /\ Disturbs(Gate, snap[Gate].plan) /\ op'.broken
                       /\ faults' = faults + 1
           /\ op'.say = IF op'.broken THEN "rollback-failed" ELSE "rolled-back"
           /\ op'.undo = op.undo /\ op'.pub = op.pub
           /\ SameJob(op, op') /\ SameWork(op, op')
           /\ UNCHANGED <<fenced, snap, journals, plans, recovery, settings>>
<1>1. UNCHANGED <<fenced, snap, journals, plans, recovery, settings>>
  BY ForwardUnchanged, Zenon DEF RollbackGate
<1>2. ASSUME NEW broken \in BOOLEAN, ToOutcome(broken)
      PROVE  /\ pc' = "write-plan" /\ op'.bad = FALSE /\ op'.broken = broken
             /\ op'.say = IF op'.broken THEN "rollback-failed"
                                        ELSE "rolled-back"
             /\ op'.undo = op.undo /\ op'.pub = op.pub
             /\ SameJob(op, op') /\ SameWork(op, op')
  BY <1>2, OutcomeFields, Zenon
<1>3. pc = "gate" /\ op.broken \in BOOLEAN
  BY DEF RollbackGate, Locals
<1>4. CASE Gate \notin op.prepared
  <2>1. ToOutcome(op.broken) /\ runtime' = runtime /\ faults' = faults
    BY <1>4, Zenon DEF RollbackGate
  <2> QED
    BY <1>1, <1>2, <1>3, <1>4, <2>1, Zenon
<1>5. CASE Gate \in op.prepared /\ op.live /\ ~op.verified
  <2>1. ToOutcome(TRUE) /\ runtime' = runtime /\ faults' = faults
    BY <1>5, Zenon DEF RollbackGate
  <2> QED
    BY <1>1, <1>2, <1>3, <1>5, <2>1, Zenon
<1>6. CASE Gate \in op.prepared /\ ~(op.live /\ ~op.verified)
  <2>1. \/ /\ runtime' = [runtime EXCEPT ![Gate] = snap[Gate]]
           /\ ToOutcome(op.broken) /\ faults' = faults
        \/ /\ Fault("lost")
           /\ \E effect \in Partial(Gate, snap[Gate]) :
                 runtime' = [runtime EXCEPT ![Gate] = effect]
           /\ ToOutcome(TRUE)
    BY <1>6, Zenon DEF RollbackGate
  <2>2. CASE /\ runtime' = [runtime EXCEPT ![Gate] = snap[Gate]]
             /\ ToOutcome(op.broken) /\ faults' = faults
    <3>1. Brings(Gate, snap[Gate])
      BY <1>6, <2>2, LiveStep, Zenon
    <3> QED
      BY <1>1, <1>2, <1>3, <1>6, <2>2, <3>1, Zenon
  <2>3. CASE /\ Fault("lost")
             /\ \E effect \in Partial(Gate, snap[Gate]) :
                   runtime' = [runtime EXCEPT ![Gate] = effect]
             /\ ToOutcome(TRUE)
    <3>1. Disturbs(Gate, snap[Gate].plan) /\ faults' = faults + 1
      BY <1>6, <2>3, PartialDisturbs, LostCosts, Zenon
    <3> QED
      BY <1>1, <1>2, <1>3, <1>6, <2>3, <3>1, Zenon
  <2> QED
    BY <2>1, <2>2, <2>3
<1> QED
  BY <1>4, <1>5, <1>6


(***************************************************************************)
(* Startup, and the recovery commands.                                     *)
(***************************************************************************)
StartupLeaves == UNCHANGED <<fenced, snap, journals, plans, recovery>>

LEMMA RecoveringFields ==
    ASSUME RetryAtStart \/ CloseFailedRollback
    PROVE  /\ \/ /\ pc = "retry" /\ ~Retriable
                 /\ pc' = "recover" /\ op' = op
              \/ /\ pc \in {"retry", "down"} /\ Retriable /\ pc' = "restore"
                 /\ op'.kind = IF pc = "retry" THEN "retry" ELSE "close"
                 /\ op'.plan = latest.plan /\ op'.say = "none" /\ op'.live
                 /\ op'.prepared = PlanAdapters(latest.plan)
                 /\ op'.todo = PlanAdapters(latest.plan)
                 /\ ~op'.undo /\ ~op'.pub /\ ~op'.broken /\ ~op'.bad
           /\ StartupLeaves /\ UNCHANGED <<runtime, settings, faults>>
<1>1. StartupLeaves /\ UNCHANGED <<runtime, settings, faults>>
  BY ForwardUnchanged, Zenon
     DEF RetryAtStart, CloseFailedRollback, StartupLeaves
<1>2. CASE RetryAtStart /\ ~Retriable
  BY <1>1, <1>2, Zenon DEF RetryAtStart
<1>3. CASE RetryAtStart /\ Retriable
  <2>1. pc = "retry" /\ Recovering("retry") /\ pc' = "restore"
    BY <1>3, Zenon DEF RetryAtStart
  <2> QED
    BY <1>1, <1>3, <2>1 DEF Recovering, Idle
<1>4. CASE CloseFailedRollback
  <2>1. pc = "down" /\ Retriable /\ Recovering("close") /\ pc' = "restore"
    BY <1>4, Zenon DEF CloseFailedRollback
  <2> QED
    BY <1>1, <2>1 DEF Recovering, Idle
<1> QED
  BY <1>2, <1>3, <1>4

LEMMA StartupFields ==
    ASSUME Start \/ SettleCommit \/ DeactivateAll
    PROVE  /\ \/ /\ pc = "down" /\ pc' = "retry" /\ op' = op
                 /\ cfg' = cfgDisk /\ uncertain' = uncertain
              \/ /\ pc = "recover" /\ ~Settleable /\ pc' = "check" /\ op' = op
                 /\ UNCHANGED settings
              \/ /\ pc = "recover" /\ Settleable /\ pc' = "write-tx"
                 /\ op'.kind = "settle" /\ op'.plan = latest.plan
                 /\ op'.say = "committed" /\ ~op'.bad
                 /\ UNCHANGED settings
              \/ /\ pc = "down" /\ pc' = "cleanup"
                 /\ op'.kind = "deactivate" /\ op'.say = "none"
                 /\ op'.plan = NoPlan /\ ~op'.broken
                 /\ op'.todo = Adapters /\ UNCHANGED settings
           /\ StartupLeaves /\ UNCHANGED <<runtime, faults>>
<1>1. StartupLeaves /\ UNCHANGED <<runtime, faults>>
  BY ForwardUnchanged, Zenon
     DEF Start, SettleCommit, DeactivateAll, StartupLeaves
<1>2. CASE Start
  BY <1>1, <1>2, Zenon DEF Start
<1>3. CASE SettleCommit
  BY <1>1, <1>3 DEF SettleCommit, Idle
<1>4. CASE DeactivateAll
  BY <1>1, <1>4 DEF DeactivateAll, Idle
<1> QED
  BY <1>2, <1>3, <1>4

BootDecision == RefuseJournal \/ NothingToRecover \/ RefuseIntent
                \/ WaitForNetwork \/ ReconcileOrGuard

LEMMA DecisionFields ==
    ASSUME BootDecision
    PROVE  /\ pc = "check" /\ op'.kind = "boot" /\ ~op'.bad /\ ~op'.broken
           /\ \/ /\ ~Settled /\ pc' = "record" /\ op'.plan = NoPlan
                 /\ op'.say = "journal-recovery-required"
              \/ /\ Settled /\ Committed = NoPlan /\ pc' = "record"
                 /\ op'.plan = NoPlan /\ op'.say = "skipped"
              \/ /\ Settled /\ Committed # NoPlan /\ pc' = "record"
                 /\ op'.plan = Committed /\ op'.say = "intent-refused"
              \/ /\ Settled /\ RequiresProof(Committed) /\ pc' = "reconcile"
                 /\ Committed \in LanPlans \/ Authorized
                 /\ op'.plan = Committed /\ op'.say = "network-stale"
                 /\ op'.todo = AdaptersOf[Committed] \ NeedsProof[Committed]
              \/ /\ Settled /\ Committed # NoPlan /\ Authorized
                 /\ ~RequiresProof(Committed)
                 /\ op'.plan = Committed /\ op'.todo = AdaptersOf[Committed]
                 /\ \/ pc' = "cleanup" /\ op'.say = "safe-mode"
                    \/ pc' = "reconcile" /\ op'.say = "recovered"
           /\ StartupLeaves /\ UNCHANGED <<runtime, settings, faults>>
<1>1. ASSUME NEW p, NEW say, NEW todo, Boot(p, say, todo)
      PROVE  /\ op'.kind = "boot" /\ op'.plan = p /\ op'.say = say
             /\ op'.todo = todo /\ ~op'.bad /\ ~op'.broken
             /\ StartupLeaves /\ UNCHANGED <<runtime, settings, faults>>
  <2>1. /\ op'.kind = "boot" /\ op'.plan = p /\ op'.say = say
        /\ op'.todo = todo /\ ~op'.bad /\ ~op'.broken
    BY <1>1 DEF Boot, Idle
  <2>2. StartupLeaves /\ UNCHANGED <<runtime, settings, faults>>
    BY <1>1, ForwardUnchanged, Zenon DEF Boot, StartupLeaves
  <2> QED
    BY <2>1, <2>2
<1>2. CASE RefuseJournal
  <2>1. Boot(NoPlan, "journal-recovery-required", {})
    BY <1>2 DEF RefuseJournal
  <2>2. /\ op'.kind = "boot" /\ op'.plan = NoPlan
        /\ op'.say = "journal-recovery-required" /\ ~op'.bad /\ ~op'.broken
        /\ StartupLeaves /\ UNCHANGED <<runtime, settings, faults>>
    BY <1>1, <2>1, Zenon
  <2> QED
    BY <1>2, <2>2 DEF RefuseJournal
<1>3. CASE NothingToRecover
  <2>1. Boot(NoPlan, "skipped", {})
    BY <1>3 DEF NothingToRecover
  <2>2. /\ op'.kind = "boot" /\ op'.plan = NoPlan
        /\ op'.say = "skipped" /\ ~op'.bad /\ ~op'.broken
        /\ StartupLeaves /\ UNCHANGED <<runtime, settings, faults>>
    BY <1>1, <2>1, Zenon
  <2> QED
    BY <1>3, <2>2 DEF NothingToRecover
<1>4. CASE RefuseIntent
  <2>1. Boot(Committed, "intent-refused", {})
    BY <1>4 DEF RefuseIntent
  <2>2. /\ op'.kind = "boot" /\ op'.plan = Committed
        /\ op'.say = "intent-refused" /\ ~op'.bad /\ ~op'.broken
        /\ StartupLeaves /\ UNCHANGED <<runtime, settings, faults>>
    BY <1>1, <2>1, Zenon
  <2> QED
    BY <1>4, <2>2 DEF RefuseIntent
<1>5. CASE WaitForNetwork
  <2>1. Boot(Committed, "network-stale",
             AdaptersOf[Committed] \ NeedsProof[Committed])
    BY <1>5 DEF WaitForNetwork
  <2>2. /\ op'.kind = "boot" /\ op'.plan = Committed
        /\ op'.say = "network-stale" /\ ~op'.bad /\ ~op'.broken
        /\ op'.todo = AdaptersOf[Committed] \ NeedsProof[Committed]
        /\ StartupLeaves /\ UNCHANGED <<runtime, settings, faults>>
    BY <1>1, <2>1, Zenon
  <2> QED
    BY <1>5, <2>2 DEF WaitForNetwork
<1>6. CASE ReconcileOrGuard
  <2>1. PICK say :
          /\ Boot(Committed, say, AdaptersOf[Committed])
          /\ \/ say = "safe-mode" /\ pc' = "cleanup"
             \/ say = "recovered" /\ pc' = "reconcile"
    BY <1>6, Zenon DEF ReconcileOrGuard
  <2>2. /\ op'.kind = "boot" /\ op'.plan = Committed
        /\ op'.say = say /\ ~op'.bad /\ ~op'.broken
        /\ op'.todo = AdaptersOf[Committed]
        /\ StartupLeaves /\ UNCHANGED <<runtime, settings, faults>>
    BY <1>1, <2>1, Zenon
  <2> QED
    BY <1>6, <2>1, <2>2 DEF ReconcileOrGuard
<1> QED
  BY <1>2, <1>3, <1>4, <1>5, <1>6 DEF BootDecision

LEMMA ReconcileFields ==
    ASSUME op \in Locals, runtime \in Runtimes, NEW a \in Adapters,
           Reconcile(a)
    PROVE  /\ pc = "reconcile" /\ pc' = "reconcile" /\ a \in op.todo
           /\ \/ Brings(a, Whole(op.plan)) /\ faults' = faults
              \/ Disturbs(a, op.plan) /\ faults' = faults + 1
           /\ op'.say = op.say /\ op'.todo = op.todo \ {a}
           /\ SameJob(op, op') /\ SameMarks(op, op')
           /\ StartupLeaves /\ UNCHANGED settings
<1>1. StartupLeaves /\ UNCHANGED settings
  BY ForwardUnchanged, Zenon DEF Reconcile, StartupLeaves
<1>2. \/ Brings(a, Whole(op.plan)) /\ faults' = faults
      \/ Disturbs(a, Whole(op.plan).plan) /\ faults' = faults + 1
  BY LostCosts, LiveStep, PartialDisturbs, Zenon DEF Reconcile
<1>3. Whole(op.plan).plan = op.plan
  BY DEF Whole
<1>4. \/ op' = [op EXCEPT !.todo = @ \ {a}]
      \/ op' = [op EXCEPT !.todo = @ \ {a}, !.bad = TRUE]
  BY Zenon DEF Reconcile
<1>5. /\ op'.say = op.say /\ op'.todo = op.todo \ {a}
      /\ SameJob(op, op') /\ SameMarks(op, op')
  BY <1>4 DEF Locals, SameJob, SameMarks
<1> QED
  BY <1>1, <1>2, <1>3, <1>5 DEF Reconcile

LEMMA CleanupFields ==
    ASSUME op \in Locals, runtime \in Runtimes, NEW a \in Adapters, Cleanup(a)
    PROVE  /\ pc = "cleanup" /\ pc' = "cleanup" /\ a \in op.todo
           /\ a = Gate => op.todo = {Gate}
           /\ \/ /\ a = Gate => ~op.broken
                 /\ Brings(a, Off) /\ op'.broken = op.broken
                 /\ faults' = faults
              \/ /\ a = Gate /\ op.broken /\ op'.broken
                 /\ runtime' = runtime /\ faults' = faults
              \/ /\ a = Gate => ~op.broken
                 /\ Disturbs(a, NoPlan) /\ op'.broken
                 /\ faults' = faults + 1
           /\ op'.say = op.say /\ op'.todo = op.todo \ {a}
           /\ SameJob(op, op')
           /\ StartupLeaves /\ UNCHANGED settings
<1>1. StartupLeaves /\ UNCHANGED settings
  BY ForwardUnchanged, Zenon DEF Cleanup, StartupLeaves
<1>2. \/ op' = [op EXCEPT !.todo = @ \ {a}]
      \/ op' = [op EXCEPT !.todo = @ \ {a}, !.broken = TRUE]
  BY Zenon DEF Cleanup
<1>3. /\ op'.say = op.say /\ op'.todo = op.todo \ {a}
      /\ SameJob(op, op')
  BY <1>2 DEF Locals, SameJob
<1>4. Off.plan = NoPlan
  BY DEF Off
<1>5. /\ pc = "cleanup" /\ pc' = "cleanup" /\ a \in op.todo
      /\ a = Gate => op.todo = {Gate}
  BY DEF Cleanup
<1>6. CASE /\ a = Gate => ~op.broken
           /\ runtime' = [runtime EXCEPT ![a] = Off]
           /\ op' = [op EXCEPT !.todo = @ \ {a}]
           /\ faults' = faults
  <2>1. op'.broken = op.broken
    BY <1>6 DEF Locals
  <2>2. Brings(a, Off)
    BY <1>6, LiveStep
  <2> QED
    BY <1>1, <1>3, <1>5, <1>6, <2>1, <2>2, Zenon
<1>7. CASE /\ a = Gate /\ op.broken
           /\ op' = [op EXCEPT !.todo = @ \ {a}]
           /\ UNCHANGED <<runtime, faults>>
  <2>1. op'.broken = op.broken
    BY <1>7 DEF Locals
  <2> QED
    BY <1>1, <1>3, <1>5, <1>7, <2>1, Zenon
<1>8. CASE /\ a = Gate => ~op.broken
           /\ Fault("lost")
           /\ \E effect \in Partial(a, Off) :
                 runtime' = [runtime EXCEPT ![a] = effect]
           /\ op' = [op EXCEPT !.todo = @ \ {a}, !.broken = TRUE]
  <2>1. op'.broken
    BY <1>8 DEF Locals
  <2>2. Disturbs(a, Off.plan)
    BY <1>8, PartialDisturbs, Zenon
  <2>3. Disturbs(a, NoPlan) /\ faults' = faults + 1
    BY <1>4, <1>8, <2>2, LostCosts
  <2> QED
    BY <1>1, <1>3, <1>5, <1>8, <2>1, <2>3, Zenon
<1> QED
  BY <1>6, <1>7, <1>8, Zenon DEF Cleanup

LEMMA BootEndFields ==
    ASSUME op \in Locals, Reconciled \/ Cleaned
    PROVE  /\ op.todo = {}
           /\ \/ /\ pc = "reconcile" /\ op.say = "recovered"
                 /\ pc' = "cleanup" /\ op'.say = "degraded"
                 /\ op'.todo = AdaptersOf[op.plan]
                 /\ SameJob(op, op') /\ SameMarks(op, op')
              \/ /\ pc = "reconcile" /\ pc' = "record"
                 /\ op'.say = op.say /\ SameJob(op, op') /\ SameMarks(op, op')
              \/ /\ pc = "cleanup" /\ op.kind = "boot"
                 /\ pc' = "record" /\ op' = op
              \/ /\ pc = "cleanup" /\ op.kind # "boot"
                 /\ pc' = "down" /\ op' = Idle
           /\ StartupLeaves /\ UNCHANGED <<runtime, settings, faults>>
<1>1. StartupLeaves /\ UNCHANGED <<runtime, settings, faults>>
  BY ForwardUnchanged, Zenon DEF Reconciled, Cleaned, StartupLeaves
<1>2. CASE Reconciled /\ op.bad /\ op.say = "recovered"
  <2>1. /\ op' = [op EXCEPT !.say = "degraded", !.todo = AdaptersOf[op.plan]]
        /\ pc = "reconcile" /\ pc' = "cleanup" /\ op.todo = {}
    BY <1>2, Zenon DEF Reconciled
  <2>2. /\ op'.say = "degraded" /\ op'.todo = AdaptersOf[op.plan]
        /\ SameJob(op, op') /\ SameMarks(op, op')
    BY <2>1 DEF Locals, SameJob, SameMarks
  <2> QED
    BY <1>1, <1>2, <2>1, <2>2, Zenon
<1>3. CASE Reconciled /\ ~(op.bad /\ op.say = "recovered")
  <2>1. /\ op' = [op EXCEPT !.bad = FALSE]
        /\ pc = "reconcile" /\ pc' = "record" /\ op.todo = {}
    BY <1>3, Zenon DEF Reconciled
  <2>2. op'.say = op.say /\ SameJob(op, op') /\ SameMarks(op, op')
    BY <2>1 DEF Locals, SameJob, SameMarks
  <2> QED
    BY <1>1, <2>1, <2>2, Zenon
<1>4. CASE Cleaned
  BY <1>1, <1>4, Zenon DEF Cleaned
<1> QED
  BY <1>2, <1>3, <1>4


LEMMA RecordFields ==
    ASSUME op \in Locals, RecordRecovery
    PROVE  /\ pc = "record" /\ pc' = "settle"
           /\ \/ recovery' = PlanFile(op.plan, op.say)
              \/ op.say \in {"skipped", "recovered", "intent-refused"} => fenced'
              \* what no record classifies keeps admission closed
           /\ op.say = "journal-recovery-required" => fenced'
           /\ op'.say = op.say /\ SameJob(op, op')
           /\ faults' = faults \/ faults' = faults + 1
           /\ UNCHANGED <<runtime, snap, journals, plans, settings>>
<1>1. PICK o \in Outcomes :
        /\ Fault(o)
        /\ recovery' = After(o, recovery, PlanFile(op.plan, op.say))
        /\ op' = [op EXCEPT !.bad = o # "ok"]
        /\ fenced' = (\/ op.say = "journal-recovery-required"
                      \/ o # "ok" /\ op.say \in {"skipped", "recovered",
                                                 "intent-refused"})
  BY Zenon DEF RecordRecovery
<1>2. PICK b \in BOOLEAN : op' = [op EXCEPT !.bad = b]
  BY <1>1, Zenon
<1>3. op'.say = op.say /\ SameJob(op, op')
  BY <1>2 DEF Locals, SameJob
<1>4. op.say = "journal-recovery-required" => fenced'
  BY <1>1, Zenon
<1>5. CASE o = "ok"
  <2>1. recovery' = PlanFile(op.plan, op.say) /\ faults' = faults
    BY <1>1, <1>5, FaultCosts DEF After
  <2> QED
    BY <1>3, <1>4, <2>1, Zenon DEF RecordRecovery
<1>6. CASE o # "ok"
  <2>1. /\ op.say \in {"skipped", "recovered", "intent-refused"} => fenced'
        /\ faults' = faults + 1
    BY <1>1, <1>6, FaultCosts, Zenon
  <2> QED
    BY <1>3, <1>4, <2>1, Zenon DEF RecordRecovery
<1> QED
  BY <1>5, <1>6

\* SetSafeMode changes the flag only; unless it fails the flag is as asked.
LEMMA SafeFields ==
    ASSUME NEW o \in Outcomes, NEW safe \in BOOLEAN, SetSafeMode(o, safe),
           cfg \in [applied : Names, safe : BOOLEAN]
    PROVE  /\ cfg'.applied = cfg.applied
           /\ o = "ok" => cfg'.safe = safe
           /\ uncertain => uncertain'
           /\ faults' = faults \/ faults' = faults + 1
<1>1. CASE cfg.safe = safe
  BY <1>1, Zenon DEF SetSafeMode, settings
<1>2. CASE cfg.safe # safe
  <2> DEFINE new == [cfg EXCEPT !.safe = safe]
  <2>1. new.applied = cfg.applied /\ new.safe = safe
    OBVIOUS
  <2>2. SaveSettings(o, new)
    BY <1>2, Zenon DEF SetSafeMode
  <2>3. /\ IF o = "ok" THEN cfg' = new ELSE cfg' = cfg
        /\ uncertain => uncertain'
        /\ faults' = faults \/ faults' = faults + 1
    BY <2>2, SavedFields
  <2> HIDE DEF new
  <2> QED
    BY <2>1, <2>3
<1> QED
  BY <1>1, <1>2

LEMMA SafeModeFields ==
    ASSUME SettleSafeMode \/ ClearRetiredSafeMode,
           cfg \in [applied : Names, safe : BOOLEAN], op \in Locals
    PROVE  /\ pc' = "idle" /\ cfg'.applied = cfg.applied
           /\ uncertain => uncertain'
           /\ \/ /\ pc = "settle" /\ op' = Idle /\ (fenced => fenced')
                 /\ op.say \in Refusals => cfg'.safe \/ fenced'
              \/ /\ pc = "idle" /\ op' = op /\ cfg.safe
                 /\ fenced' = fenced /\ ~BootRecoveryPending
           /\ faults' = faults \/ faults' = faults + 1
           /\ UNCHANGED <<runtime, snap, journals, plans, recovery>>
<1>1. CASE SettleSafeMode
  <2>1. PICK o \in Outcomes, protect \in BOOLEAN :
          /\ op.say \in Refusals => protect
          /\ IF op.say = "network-stale"
               THEN o = "ok" /\ UNCHANGED <<settings, faults>>
               ELSE SetSafeMode(o, protect)
          /\ fenced' = (fenced \/ (protect /\ o # "ok"))
    BY <1>1, Zenon DEF SettleSafeMode
  <2>2. op.say \in Refusals => op.say # "network-stale"
    BY DEF Refusals
  <2>3. CASE op.say = "network-stale"
    BY <1>1, <2>1, <2>2, <2>3, Zenon DEF SettleSafeMode, settings
  <2>4. CASE op.say # "network-stale"
    <3>1. /\ cfg'.applied = cfg.applied
          /\ o = "ok" => cfg'.safe = protect
          /\ uncertain => uncertain'
          /\ faults' = faults \/ faults' = faults + 1
      BY <2>1, <2>4, SafeFields, Zenon
    <3> QED
      BY <1>1, <2>1, <3>1, Zenon DEF SettleSafeMode
  <2> QED
    BY <2>3, <2>4
<1>2. CASE ClearRetiredSafeMode
  <2>1. PICK o \in Outcomes : SetSafeMode(o, FALSE)
    BY <1>2, Zenon DEF ClearRetiredSafeMode
  <2>2. /\ cfg'.applied = cfg.applied
        /\ uncertain => uncertain'
        /\ faults' = faults \/ faults' = faults + 1
    BY <2>1, SafeFields, Zenon
  <2>3. UNCHANGED <<fenced, runtime, snap, journals, plans, recovery>>
    BY <1>2, ForwardUnchanged, Zenon DEF ClearRetiredSafeMode
  <2> QED
    BY <1>2, <2>2, <2>3, Zenon DEF ClearRetiredSafeMode
<1> QED
  BY <1>1, <1>2

\* A reboot leaves nothing but a torn boundary.
LEMMA CrashFields ==
    ASSUME Crash
    PROVE  /\ pc' = "down" /\ op' = Idle /\ ~fenced'
           /\ cfg' = cfgDisk /\ ~uncertain'
           /\ \/ runtime' = runtime
              \/ runtime' = [a \in Adapters |->
                                IF a = Gate /\ runtime[a] # Off
                                  THEN Torn(runtime[a].plan) ELSE Off]
           /\ UNCHANGED <<snap, journals, plans, recovery, faults>>
BY DEF Crash


-----------------------------------------------------------------------------
(***************************************************************************)
(* What the running operation remembers.  KInv says which operation may be *)
(* at which place with which outcome; UInv what the local variables of     *)
(* Apply still promise about the boot plan, the applied settings and the   *)
(* runtime; MInv relates the settings to the committed plan across         *)
(* operations and restarts.                                                *)
(***************************************************************************)
Advancing == {"preserve", "snapshot", "candidate", "activate", "config"}
Recording == {"write-tx", "write-latest", "written"}
Undone == {"canary-failed", "rolled-back", "rollback-failed"}
Retried == {"retry", "close"}
Recovered == {"skipped", "recovered", "network-stale", "degraded"}

RestIsIdle == pc \in Resting => op = Idle
AdvanceApplies == pc \in Advancing => op.kind = "apply" /\ op.say = "applying"
RestoreUndoes ==
    pc \in {"restore", "gate"} =>
        \/ op.kind = "apply" /\ op.say = "rolling-back"
        \/ op.kind \in Retried /\ op.say = "none"
PlanIsPublished ==
    /\ pc = "write-boot" => op.kind = "apply" /\ op.say = "committed"
    /\ pc = "write-plan" =>
          \/ op.kind = "apply" /\ op.say \in Undone \cup {"committed"}
          \/ op.kind \in Retried /\ op.say \in Undone \ {"canary-failed"}
RecordIsPublished ==
    pc \in Recording =>
        \/ /\ op.kind = "apply"
           /\ op.say \in Undone \cup {"applying", "committing", "committed",
                                      "rolling-back"}
        \/ op.kind \in Retried /\ op.say \in Undone \ {"canary-failed"}
        \/ op.kind = "settle" /\ op.say = "committed"
StartupRecovers ==
    /\ pc \in {"reconcile", "record", "settle"} => op.kind = "boot"
    /\ pc = "cleanup" => op.kind \in {"boot", "deactivate"}
    /\ op.kind = "boot" => op.say \in Refusals \cup Recovered
    /\ op.kind = "deactivate" => op.say = "none"

KInv == /\ RestIsIdle /\ AdvanceApplies /\ RestoreUndoes /\ PlanIsPublished
        /\ RecordIsPublished /\ StartupRecovers

LEMMA RestKeepsKind ==
    ASSUME op' = Idle, pc' \in Resting
    PROVE  KInv'
BY DEF KInv, RestIsIdle, AdvanceApplies, RestoreUndoes, PlanIsPublished,
       RecordIsPublished, StartupRecovers, Resting, Advancing, Recording, Idle

LEMMA PublicationKeepsKind ==
    ASSUME TInv, KInv, Publication
    PROVE  KInv'
<1> op \in Locals
  BY DEF TInv, TypeOK
<1>1. ASSUME NEW fence, Return(fence) PROVE KInv'
  BY <1>1, RestKeepsKind, ReturnFields, Zenon
<1> USE DEF KInv, RestIsIdle, AdvanceApplies, RestoreUndoes, PlanIsPublished,
            RecordIsPublished, StartupRecovers, Resting, Advancing, Recording,
            Undone, Retried, Recovered, Refusals, SameJob
<1>2. CASE WriteTx \/ WriteLatest
  BY <1>2, WriteFields
<1>3. CASE WritePlan
  BY <1>3, PlanWriteFields DEF RollsBack
<1>4. CASE WriteBoot
  BY <1>4, BootWriteFields DEF RollsBack
<1>5. CASE Begun \/ Committing \/ CommittedOrNot \/ Rejected \/ RollingBack
           \/ RolledBackOrNot
  <2>1. CASE \E fence : Return(fence)
    BY <1>1, <2>1
  <2>2. CASE ~\E fence : Return(fence)
    <3>1. /\ pc = "written"
          /\ \/ op.say = "applying" /\ op' = op /\ pc' = "snapshot"
             \/ op.say = "committing" /\ RollsBack(op)
             \/ /\ op.say = "committing" /\ op'.say = "committed"
                /\ pc' = "write-plan" /\ SameJob(op, op')
             \/ op.say = "committed" /\ op.kind = "apply" /\ RollsBack(op)
             \/ /\ op.say = "rolling-back" /\ op'.say = op.say
                /\ pc' = "restore" /\ SameJob(op, op')
             \/ /\ op.say \in {"rolled-back", "rollback-failed"}
                /\ op'.say = "rollback-failed"
                /\ pc' = "write-plan" /\ SameJob(op, op')
      BY <1>5, <2>2, WrittenFields, Zenon DEF Leaves
    <3> QED
      BY <3>1 DEF RollsBack
  <2> QED
    BY <2>1, <2>2
<1> QED
  BY <1>2, <1>3, <1>4, <1>5 DEF Publication

LEMMA ApplyKeepsKind ==
    ASSUME TInv, KInv, ApplyStep \/ (\E p \in Plans : StartApply(p))
    PROVE  KInv'
<1> op \in Locals /\ runtime \in Runtimes
    /\ cfg \in [applied : Names, safe : BOOLEAN]
  BY DEF TInv, TypeOK
<1>1. ASSUME NEW fence, Return(fence) PROVE KInv'
  BY <1>1, RestKeepsKind, ReturnFields, Zenon
<1>2. pc \in {"preserve", "snapshot", "candidate", "activate", "config"}
      => op.plan \in Plans /\ op.kind = "apply" /\ op.say = "applying"
  BY DEF TInv, WorkNamesPlan, Working, KInv, AdvanceApplies, Advancing
<1> USE DEF KInv, RestIsIdle, AdvanceApplies, RestoreUndoes, PlanIsPublished,
            RecordIsPublished, StartupRecovers, Resting, Advancing, Recording,
            Undone, Retried, Recovered, Refusals, SameJob
<1>3. ASSUME NEW prepared, NEW live, op.kind = "apply",
             Undoes(prepared, live) \/ Refuses(prepared)
      PROVE  KInv'
  BY <1>3 DEF Undoes, Refuses, Gives
<1>4. CASE Preserve
  BY <1>1, <1>2, <1>4, PreserveFields
<1>5. CASE Snapshot
  <2>1. op.plan \in Plans /\ op.kind = "apply" /\ op.say = "applying"
    BY <1>2, <1>5 DEF Snapshot
  <2> QED
    BY <1>3, <1>5, <2>1, SnapshotFields
<1>6. CASE Candidate
  <2>1. op.plan \in Plans /\ op.kind = "apply" /\ op.say = "applying"
    BY <1>2, <1>6 DEF Candidate
  <2> QED
    BY <1>3, <1>6, <2>1, CandidateFields
<1>7. CASE HealthAndCommit
  <2>1. op.plan \in Plans /\ op.kind = "apply" /\ op.say = "applying"
    BY <1>2, <1>7 DEF HealthAndCommit
  <2> QED
    BY <1>3, <1>7, <2>1, HealthFields
<1>8. CASE CommitConfig
  <2>1. op.plan \in Plans /\ op.kind = "apply" /\ op.say = "applying"
    BY <1>2, <1>8 DEF CommitConfig
  <2> QED
    BY <1>8, <2>1, ConfigFields
<1>9. ASSUME NEW a \in Adapters, Activate(a)
      PROVE  KInv'
  <2>1. op.plan \in Plans /\ op.kind = "apply" /\ op.say = "applying"
    BY <1>2, <1>9 DEF Activate
  <2> QED
    BY <1>3, <1>9, <2>1, ActivateFields
<1>10. ASSUME NEW a \in Adapters, DeactivateRetiring(a)
       PROVE  KInv'
  <2>1. op.plan \in Plans /\ op.kind = "apply" /\ op.say = "applying"
    BY <1>2, <1>10 DEF DeactivateRetiring
  <2> QED
    BY <1>3, <1>10, <2>1, RetireFields
<1>11. ASSUME NEW p \in Plans, StartApply(p)
       PROVE  KInv'
  BY <1>11, StartFields
<1> QED
  BY <1>4, <1>5, <1>6, <1>7, <1>8, <1>9, <1>10, <1>11 DEF ApplyStep

LEMMA RollbackKeepsKind ==
    ASSUME TInv, KInv, RollbackStep
    PROVE  KInv'
<1> op \in Locals /\ runtime \in Runtimes
    /\ cfg \in [applied : Names, safe : BOOLEAN]
  BY DEF TInv, TypeOK
<1> USE DEF KInv, RestIsIdle, AdvanceApplies, RestoreUndoes, PlanIsPublished,
            RecordIsPublished, StartupRecovers, Resting, Advancing, Recording,
            Undone, Retried, Recovered, Refusals, SameJob
<1>1. CASE UndoConfig
  BY <1>1, UndoFields
<1>2. CASE RestoreBootPlan
  BY <1>2, BootRestoreFields
<1>3. CASE VerifyConsumers
  BY <1>3, VerifyFields
<1>4. CASE RollbackGate
  <2>1. pc = "gate" /\ pc' = "write-plan" /\ SameJob(op, op')
        /\ op'.say \in {"rollback-failed", "rolled-back"}
    <3>1. op.broken \in BOOLEAN
      BY DEF Locals
    <3> QED
      BY <1>4, <3>1, OutcomeFields DEF RollbackGate
  <2> QED
    BY <2>1
<1>5. ASSUME NEW a \in Adapters, Restore(a)
      PROVE  KInv'
  BY <1>5, RestoreFields
<1> QED
  BY <1>1, <1>2, <1>3, <1>4, <1>5 DEF RollbackStep

LEMMA StartupKeepsKind ==
    ASSUME TInv, KInv, StartupStep \/ CloseFailedRollback \/ Start
                       \/ DeactivateAll \/ ClearRetiredSafeMode \/ Crash
    PROVE  KInv'
<1> op \in Locals /\ runtime \in Runtimes
    /\ cfg \in [applied : Names, safe : BOOLEAN]
  BY DEF TInv, TypeOK
<1>1. CASE Crash
  BY <1>1, CrashFields, RestKeepsKind DEF Resting
<1> USE DEF KInv, RestIsIdle, AdvanceApplies, RestoreUndoes, PlanIsPublished,
            RecordIsPublished, StartupRecovers, Resting, Advancing, Recording,
            Undone, Retried, Recovered, Refusals, SameJob
<1>2. CASE RetryAtStart \/ CloseFailedRollback
  BY <1>2, RecoveringFields
<1>3. CASE Start \/ SettleCommit \/ DeactivateAll
  BY <1>3, StartupFields
<1>4. CASE BootDecision
  BY <1>4, DecisionFields
<1>5. CASE Reconciled \/ Cleaned
  BY <1>5, BootEndFields, RestKeepsKind
<1>6. CASE RecordRecovery
  BY <1>6, RecordFields
<1>7. CASE SettleSafeMode \/ ClearRetiredSafeMode
  BY <1>7, SafeModeFields, RestKeepsKind
<1>8. ASSUME NEW a \in Adapters, Reconcile(a) \/ Cleanup(a)
      PROVE  KInv'
  BY <1>8, ReconcileFields, CleanupFields
<1> QED
  BY <1>1, <1>2, <1>3, <1>4, <1>5, <1>6, <1>7, <1>8
     DEF StartupStep, BootDecision

LEMMA NextKeepsKind ==
    ASSUME TInv, KInv, [Next]_vars
    PROVE  KInv'
<1>1. CASE UNCHANGED vars
  BY <1>1 DEF vars, KInv, RestIsIdle, AdvanceApplies, RestoreUndoes,
              PlanIsPublished, RecordIsPublished, StartupRecovers
<1> QED
  BY <1>1, PublicationKeepsKind, ApplyKeepsKind, RollbackKeepsKind,
     StartupKeepsKind DEF Next, Daemon, Demand


BootPlanRemembered ==
    op.kind = "apply" =>
        /\ pc = "preserve" => Committed = op.prevBoot
        /\ pc # "preserve" =>
              /\ bootPlan \in {op.prevBoot, op.plan}
              /\ op.pub \/ op.broken \/ bootPlan = op.prevBoot
        /\ op.say \in {"applying", "committing"} => ~op.pub
        /\ op.say = "committed" => op.pub
SettingsRemembered ==
    op.kind = "apply" =>
        /\ op.undo \/ op.broken \/ cfg.applied = op.prevCfg
        /\ op.say = "applying" => ~op.undo
        /\ op.say \in {"committing", "committed"}
              => op.undo /\ cfg.applied = op.plan
FailuresRemembered ==
    op.kind = "apply" =>
        /\ op.say \in Undone \/ pc = "gate" => ~op.pub /\ ~op.undo
        /\ op.say \in {"applying", "committing", "committed", "canary-failed",
                       "rolled-back"} => ~op.broken
        /\ op.say = "rolling-back" /\ pc \in Recording => ~op.broken
RetryTouchesConsumers ==
    op.kind \in Retried => Gate \notin op.prepared /\ ~op.pub /\ ~op.undo
GateFollowsReadback ==
    pc = "gate" =>
        /\ op.verified => ~op.broken
        /\ ~op.broken => \A a \in op.prepared \ {Gate} : runtime[a] = Target(a)
RolledBackIsRestored ==
    op.say = "rolled-back" => \A a \in op.prepared : runtime[a] = Target(a)
OutcomeIsPublished ==
    /\ pc \in Recording /\ op.say \in Undone /\ ~op.bad
          => latestPlan = PlanFile(op.plan, op.say)
    /\ pc = "write-boot" => latestPlan = PlanFile(op.plan, "committed")
    /\ pc \in Recording /\ op.say = "committed"
          => latestPlan = PlanFile(op.plan, "committed") /\ bootPlan = op.plan

UInv == /\ BootPlanRemembered /\ SettingsRemembered /\ FailuresRemembered
        /\ RetryTouchesConsumers /\ GateFollowsReadback /\ RolledBackIsRestored
        /\ OutcomeIsPublished

\* Nothing is promised about what no operation has said.
LEMMA RestKeepsPromises ==
    ASSUME op' = Idle, pc' \in Resting
    PROVE  UInv'
BY DEF UInv, BootPlanRemembered, SettingsRemembered, FailuresRemembered,
       RetryTouchesConsumers, GateFollowsReadback, RolledBackIsRestored,
       OutcomeIsPublished, Resting, Recording, Retried, Idle

LEMMA TargetStays ==
    ASSUME op'.kind = op.kind, UNCHANGED snap
    PROVE  \A a : Target(a)' = Target(a)
BY DEF Target

LEMMA WritesKeepPromises ==
    ASSUME TInv, KInv, UInv, WriteTx \/ WriteLatest
    PROVE  UInv'
<1>1. op \in Locals /\ UNCHANGED <<runtime, snap, latestPlan, bootPlan, cfg>>
  BY WriteFields DEF TInv, TypeOK, plans, settings
<1>2. /\ pc \in Recording /\ pc' \in Recording
      /\ op'.say = op.say /\ (op.bad => op'.bad)
      /\ SameJob(op, op') /\ SameMarks(op, op') /\ SameWork(op, op')
  BY <1>1, WriteFields DEF Recording
<1>3. \A a : Target(a)' = Target(a)
  BY <1>1, <1>2, TargetStays DEF SameJob
<1> USE DEF SameJob, SameMarks, SameWork
<1>4. BootPlanRemembered'
  BY <1>1, <1>2 DEF UInv, BootPlanRemembered, Recording
<1>5. SettingsRemembered'
  BY <1>1, <1>2 DEF UInv, SettingsRemembered
<1>6. FailuresRemembered'
  BY <1>1, <1>2 DEF UInv, FailuresRemembered, Recording
<1>7. RetryTouchesConsumers'
  BY <1>1, <1>2 DEF UInv, RetryTouchesConsumers
<1>8. GateFollowsReadback'
  BY <1>2 DEF GateFollowsReadback, Recording
<1>9. RolledBackIsRestored'
  BY <1>1, <1>2, <1>3 DEF UInv, RolledBackIsRestored
<1>10. OutcomeIsPublished'
  BY <1>1, <1>2 DEF UInv, OutcomeIsPublished, Recording
<1> QED
  BY <1>4, <1>5, <1>6, <1>7, <1>8, <1>9, <1>10 DEF UInv

\* A rollback that begins, whatever it begins after.
LEMMA RollbackBeginsPromised ==
    ASSUME op.kind = "apply", op' \in Locals, pc \notin {"preserve"},
           pc' = "write-tx", op'.say = "rolling-back", SameJob(op, op'),
           op'.broken = op.broken, op'.pub = op.pub, ~op.broken,
           \/ op'.undo = op.undo /\ (op.undo \/ cfg'.applied = op.prevCfg)
           \/ op'.undo,
           bootPlan' \in {op.prevBoot, op.plan},
           op.pub \/ bootPlan' = op.prevBoot
    PROVE  UInv'
BY DEF UInv, BootPlanRemembered, SettingsRemembered, FailuresRemembered,
       RetryTouchesConsumers, GateFollowsReadback, RolledBackIsRestored,
       OutcomeIsPublished, Recording, Retried, Undone, SameJob

LEMMA PlanWritesKeepPromises ==
    ASSUME TInv, TInv', KInv, UInv, WritePlan \/ WriteBoot
    PROVE  UInv'
<1>1. op \in Locals /\ op' \in Locals /\ op.plan \in Plans
  BY DEF TInv, TypeOK, WritePlan, WriteBoot
<1>2. UNCHANGED <<runtime, snap, cfg>>
  BY <1>1, PlanWriteFields, BootWriteFields DEF settings
<1>3. \A a : op'.kind = op.kind => Target(a)' = Target(a)
  BY <1>2, TargetStays
<1>4. CASE WritePlan /\ op.say # "committed"
  <2>1. /\ pc = "write-plan" /\ pc' = "write-tx" /\ op'.say = op.say
        /\ SameJob(op, op') /\ SameMarks(op, op') /\ SameWork(op, op')
        /\ ~op'.bad => latestPlan' = PlanFile(op.plan, op.say)
        /\ bootPlan' = bootPlan
    BY <1>1, <1>4, PlanWriteFields DEF RollsBack
  <2> USE DEF SameJob, SameMarks, SameWork
  <2>2. /\ op.say \in Undone
        /\ op.kind \in {"apply", "retry", "close"}
    BY <1>4, <2>1 DEF KInv, PlanIsPublished, Retried
  <2>3. BootPlanRemembered'
    BY <2>1, <2>2 DEF UInv, BootPlanRemembered, Undone
  <2>4. SettingsRemembered'
    BY <1>2, <2>1 DEF UInv, SettingsRemembered
  <2>5. FailuresRemembered'
    BY <2>1, <2>2 DEF UInv, FailuresRemembered, Undone
  <2>6. RetryTouchesConsumers'
    BY <2>1 DEF UInv, RetryTouchesConsumers
  <2>7. GateFollowsReadback'
    BY <2>1 DEF GateFollowsReadback
  <2>8. RolledBackIsRestored'
    BY <1>2, <1>3, <2>1 DEF UInv, RolledBackIsRestored
  <2>9. OutcomeIsPublished'
    BY <1>4, <2>1 DEF OutcomeIsPublished
  <2> QED
    BY <2>3, <2>4, <2>5, <2>6, <2>7, <2>8, <2>9 DEF UInv
<1>5. CASE (WritePlan /\ op.say = "committed") \/ WriteBoot
  <2>1. op.kind = "apply" /\ op.say = "committed" /\ pc \in {"write-plan", "write-boot"}
    BY <1>5 DEF KInv, PlanIsPublished, WritePlan, WriteBoot, Undone, Retried
  <2>2. /\ ~op.broken /\ op.pub /\ op.undo /\ cfg.applied = op.plan
        /\ bootPlan \in {op.prevBoot, op.plan}
    BY <2>1 DEF UInv, FailuresRemembered, BootPlanRemembered,
                SettingsRemembered
  <2>3. bootPlan' \in {op.prevBoot, op.plan}
    BY <1>1, <1>5, <2>2, PlanWriteFields, BootWriteFields
  <2>4. CASE RollsBack(op)
    BY <1>1, <2>1, <2>2, <2>3, <2>4, RollbackBeginsPromised
       DEF RollsBack, SameMarks
  <2>5. CASE /\ op' = op /\ latestPlan' = PlanFile(op.plan, "committed")
             /\ \/ pc' = "write-boot"
                \/ pc' = "write-tx" /\ bootPlan' = op.plan
    BY <1>2, <2>1, <2>2, <2>3, <2>5
       DEF UInv, BootPlanRemembered, SettingsRemembered, FailuresRemembered,
           RetryTouchesConsumers, GateFollowsReadback, RolledBackIsRestored,
           OutcomeIsPublished, Recording, Retried, Undone
  <2>6. WriteBoot => latestPlan' = latestPlan /\ latestPlan = PlanFile(op.plan, "committed")
    BY <1>1, BootWriteFields DEF UInv, OutcomeIsPublished
  <2> QED
    BY <1>1, <1>5, <2>4, <2>5, <2>6, PlanWriteFields, BootWriteFields
<1> QED
  BY <1>4, <1>5

LEMMA WrittenKeepsPromises ==
    ASSUME TInv, TInv', KInv, UInv,
           Begun \/ Committing \/ CommittedOrNot \/ Rejected \/ RollingBack
           \/ RolledBackOrNot
    PROVE  UInv'
<1>1. op \in Locals /\ op' \in Locals
  BY DEF TInv, TypeOK
<1>2. pc = "written" /\ UNCHANGED <<runtime, snap, latestPlan, bootPlan, cfg>>
  BY <1>1, WrittenFields DEF plans, settings
<1>3. CASE \E fence : Return(fence)
  BY <1>3, RestKeepsPromises, ReturnFields
<1>4. CASE RollsBack(op) /\ op.say \in {"committing", "committed"}
           /\ op.kind = "apply"
  <2>1. /\ ~op.broken /\ op.undo /\ bootPlan' \in {op.prevBoot, op.plan}
        /\ op.pub \/ bootPlan' = op.prevBoot
    BY <1>2, <1>4 DEF UInv, FailuresRemembered, SettingsRemembered,
                      BootPlanRemembered
  <2> QED
    BY <1>1, <1>2, <1>4, <2>1, RollbackBeginsPromised
       DEF RollsBack, SameMarks
<1>5. CASE op.say = "applying" /\ op' = op /\ pc' = "snapshot"
  BY <1>2, <1>5 DEF UInv, BootPlanRemembered, SettingsRemembered,
           FailuresRemembered, RetryTouchesConsumers, GateFollowsReadback,
           RolledBackIsRestored, OutcomeIsPublished, Recording, Undone
<1>6. CASE /\ op.say = "committing" /\ pc' = "write-plan"
           /\ op'.say = "committed" /\ op'.pub /\ op'.undo = op.undo
           /\ op'.broken = op.broken
           /\ SameJob(op, op') /\ SameWork(op, op')
  <2>1. op.kind = "apply"
    BY <1>2, <1>6 DEF KInv, RecordIsPublished, Recording, Retried, Undone
  <2> QED
    BY <1>2, <1>6, <2>1
       DEF UInv, BootPlanRemembered, SettingsRemembered,
           FailuresRemembered, RetryTouchesConsumers, GateFollowsReadback,
           RolledBackIsRestored, OutcomeIsPublished, Recording, Undone, Retried,
           SameJob
<1>7. CASE /\ op.say = "rolling-back"
           /\ pc' = "restore"
           /\ op'.say = op.say /\ op'.broken = op.bad
           /\ op'.undo = op.undo /\ op'.pub = op.pub
           /\ SameJob(op, op') /\ SameWork(op, op')
  <2>1. op.kind = "apply" /\ ~op.broken
    BY <1>2, <1>7 DEF KInv, RecordIsPublished, Recording, Retried, Undone,
                      UInv, FailuresRemembered
  <2> QED
    BY <1>2, <1>7, <2>1
       DEF UInv, BootPlanRemembered, SettingsRemembered,
           FailuresRemembered, RetryTouchesConsumers, GateFollowsReadback,
           RolledBackIsRestored, OutcomeIsPublished, Recording, Undone, Retried,
           SameJob
<1>8. CASE /\ op.say \in {"rolled-back", "rollback-failed"}
           /\ pc' = "write-plan" /\ op'.say = "rollback-failed"
           /\ SameJob(op, op') /\ SameMarks(op, op') /\ SameWork(op, op')
  BY <1>2, <1>8
       DEF UInv, BootPlanRemembered, SettingsRemembered,
           FailuresRemembered, RetryTouchesConsumers, GateFollowsReadback,
           RolledBackIsRestored, OutcomeIsPublished, Recording, Undone, Retried,
           SameJob, SameMarks, SameWork
<1>9. op.say = "committing" => op.kind = "apply"
  BY <1>2 DEF KInv, RecordIsPublished, Recording, Undone
<1> QED
  BY <1>1, <1>3, <1>4, <1>5, <1>6, <1>7, <1>8, <1>9, WrittenFields, Zenon DEF Leaves


\* A forward step that goes on, or that refuses before anything was live.
LEMMA AdvanceKeepsPromises ==
    ASSUME op.kind = "apply", op.say = "applying", UInv,
           SameJob(op, op'), SameMarks(op, op'), UNCHANGED cfg,
           pc' \notin {"preserve", "gate", "write-boot"},
           bootPlan' = op.prevBoot,
           \/ op'.say = "applying"
           \/ op'.say = "canary-failed" /\ pc' = "write-plan"
    PROVE  UInv'
BY DEF UInv, BootPlanRemembered, SettingsRemembered, FailuresRemembered,
       RetryTouchesConsumers, GateFollowsReadback, RolledBackIsRestored,
       OutcomeIsPublished, Recording, Undone, Retried, SameJob, SameMarks

LEMMA FailedKeepsPromises ==
    ASSUME op.kind = "apply", op.say = "applying", UInv, op' \in Locals,
           pc # "preserve", UNCHANGED <<cfg, bootPlan>>,
           NEW prepared, NEW live, Undoes(prepared, live) \/ Refuses(prepared)
    PROVE  UInv'
<1>1. /\ ~op.pub /\ ~op.undo /\ ~op.broken /\ bootPlan = op.prevBoot
      /\ cfg.applied = op.prevCfg
  BY DEF UInv, BootPlanRemembered, SettingsRemembered, FailuresRemembered
<1>2. CASE Undoes(prepared, live)
  BY <1>1, <1>2, RollbackBeginsPromised DEF Undoes, Gives, SameMarks
<1>3. CASE Refuses(prepared)
  BY <1>1, <1>3, AdvanceKeepsPromises DEF Refuses, Gives
<1> QED
  BY <1>2, <1>3

LEMMA ApplyKeepsPromises ==
    ASSUME TInv, TInv', KInv, UInv,
           ApplyStep \/ (\E p \in Plans : StartApply(p))
    PROVE  UInv'
<1> op \in Locals /\ op' \in Locals /\ runtime \in Runtimes
    /\ cfg \in [applied : Names, safe : BOOLEAN]
  BY DEF TInv, TypeOK
<1>1. pc \in Advancing => op.kind = "apply" /\ op.say = "applying" /\ op.plan \in Plans
  BY DEF KInv, AdvanceApplies, TInv, WorkNamesPlan, Working, Advancing
<1>2. pc \in Advancing \ {"preserve"} =>
        /\ ~op.pub /\ ~op.undo /\ ~op.broken /\ bootPlan = op.prevBoot
        /\ cfg.applied = op.prevCfg
  BY <1>1 DEF UInv, BootPlanRemembered, SettingsRemembered, FailuresRemembered
<1>3. CASE Preserve
  <2>1. pc = "preserve" /\ UNCHANGED cfg
    BY <1>3, PreserveFields DEF settings
  <2>2. CASE Return(TRUE)
    BY <2>2, RestKeepsPromises, ReturnFields
  <2>3. CASE pc' = "write-tx" /\ op' = op
    <3>1. bootPlan' = op.prevBoot
      <4>1. Committed = op.prevBoot
        BY <1>1, <2>1 DEF UInv, BootPlanRemembered, Advancing
      <4>2. bootPlan # NoPlan => Committed = bootPlan
        BY DEF Committed
      <4>3. CASE bootPlan' = bootPlan /\ (bootPlan # NoPlan \/ Committed = NoPlan)
        BY <4>1, <4>2, <4>3
      <4>4. CASE bootPlan = NoPlan /\ bootPlan' = Committed
        BY <4>1, <4>4
      <4> QED
        BY <1>3, <2>3, <4>3, <4>4, PreserveFields, ReturnFields DEF Resting
    <3>2. SameJob(op, op') /\ SameMarks(op, op')
      BY <2>3 DEF SameJob, SameMarks
    <3> QED
      BY <1>1, <2>1, <2>3, <3>1, <3>2, AdvanceKeepsPromises DEF Advancing
  <2> QED
    BY <1>3, <2>2, <2>3, PreserveFields
<1>4. CASE Snapshot
  <2>1. pc = "snapshot" /\ UNCHANGED <<cfg, bootPlan>>
    BY <1>1, <1>4, SnapshotFields DEF settings, plans, Advancing, Snapshot
  <2> QED
    BY <1>1, <1>2, <1>4, <2>1, SnapshotFields, AdvanceKeepsPromises,
       FailedKeepsPromises DEF Advancing
<1>5. CASE Candidate
  <2>1. pc = "candidate" /\ UNCHANGED <<cfg, bootPlan>>
    BY <1>1, <1>5, CandidateFields DEF settings, plans, Advancing, Candidate
  <2> QED
    BY <1>1, <1>2, <1>5, <2>1, CandidateFields, AdvanceKeepsPromises,
       FailedKeepsPromises DEF Advancing
<1>6. CASE HealthAndCommit
  <2>1. pc = "activate" /\ UNCHANGED <<cfg, bootPlan>>
    BY <1>1, <1>6, HealthFields
       DEF settings, plans, Advancing, HealthAndCommit
  <2> QED
    BY <1>1, <1>2, <1>6, <2>1, HealthFields, AdvanceKeepsPromises,
       FailedKeepsPromises DEF Advancing
<1>7. ASSUME NEW a \in Adapters, Activate(a)
      PROVE  UInv'
  <2>1. pc = "activate" /\ UNCHANGED <<cfg, bootPlan>>
    BY <1>1, <1>7, ActivateFields DEF settings, plans, Advancing, Activate
  <2> QED
    BY <1>1, <1>2, <1>7, <2>1, ActivateFields, AdvanceKeepsPromises,
       FailedKeepsPromises DEF Advancing
<1>8. ASSUME NEW a \in Adapters, DeactivateRetiring(a)
      PROVE  UInv'
  <2>1. pc = "activate" /\ UNCHANGED <<cfg, bootPlan>>
    BY <1>1, <1>8, RetireFields
       DEF settings, plans, Advancing, DeactivateRetiring
  <2> QED
    BY <1>1, <1>2, <1>8, <2>1, RetireFields, AdvanceKeepsPromises,
       FailedKeepsPromises DEF Advancing
<1>9. CASE CommitConfig
  <2>1. /\ pc = "config" /\ op.kind = "apply" /\ op.say = "applying"
        /\ op.plan \in Plans /\ ~op.pub /\ ~op.undo /\ ~op.broken
        /\ bootPlan = op.prevBoot /\ cfg.applied = op.prevCfg
    BY <1>1, <1>2, <1>9 DEF CommitConfig, Advancing
  <2>2. bootPlan' = bootPlan
    BY <1>9, <2>1, ConfigFields DEF plans
  <2>3. CASE op'.say = "rolling-back"
    BY <1>9, <2>1, <2>2, <2>3, ConfigFields, RollbackBeginsPromised
  <2>4. CASE op'.say = "committing"
    <3>1. /\ pc' = "write-tx" /\ cfg'.applied = op.plan /\ op'.undo
          /\ op'.pub = op.pub /\ op'.broken = op.broken /\ SameJob(op, op')
      BY <1>9, <2>1, <2>4, ConfigFields
    <3> QED
      BY <2>1, <2>2, <2>4, <3>1
         DEF UInv, BootPlanRemembered, SettingsRemembered,
             FailuresRemembered, RetryTouchesConsumers, GateFollowsReadback,
             RolledBackIsRestored, OutcomeIsPublished, Recording, Undone,
             Retried, SameJob
  <2> QED
    BY <1>9, <2>1, <2>3, <2>4, ConfigFields
<1>10. ASSUME NEW p \in Plans, StartApply(p)
       PROVE  UInv'
  <2>1. /\ pc' = "preserve" /\ op'.kind = "apply" /\ op'.say = "applying"
        /\ ~op'.broken /\ ~op'.undo /\ ~op'.pub
        /\ op'.prevBoot = Committed /\ op'.prevCfg = cfg.applied
        /\ UNCHANGED <<plans, cfg>>
    BY <1>10, StartFields DEF settings
  <2>2. Committed' = Committed
    BY <2>1 DEF Committed, plans
  <2> QED
    BY <2>1, <2>2
       DEF UInv, BootPlanRemembered, SettingsRemembered,
           FailuresRemembered, RetryTouchesConsumers, GateFollowsReadback,
           RolledBackIsRestored, OutcomeIsPublished, Recording, Undone, Retried
<1> QED
  BY <1>3, <1>4, <1>5, <1>6, <1>7, <1>8, <1>9, <1>10 DEF ApplyStep

\* While the runtime is restored.
LEMMA RestoringKeepsPromises ==
    ASSUME KInv, UInv, pc = "restore", pc' = "restore", op'.say = op.say,
           SameJob(op, op'), op'.prepared = op.prepared,
           op'.undo => op.undo, op'.pub => op.pub,
           op.kind = "apply" =>
              /\ bootPlan' \in {op.prevBoot, op.plan}
              /\ op'.pub \/ op'.broken \/ bootPlan' = op.prevBoot
              /\ op'.undo \/ op'.broken \/ cfg'.applied = op.prevCfg
    PROVE  UInv'
<1>1. op.say \in {"rolling-back", "none"} /\ op.kind \in {"apply"} \cup Retried
  BY DEF KInv, RestoreUndoes
<1> QED
  BY <1>1 DEF UInv, BootPlanRemembered, SettingsRemembered,
       FailuresRemembered, RetryTouchesConsumers, GateFollowsReadback,
       RolledBackIsRestored, OutcomeIsPublished, Recording, Undone, Retried,
       SameJob

LEMMA RollbackKeepsPromises ==
    ASSUME TInv, TInv', KInv, UInv, RollbackStep
    PROVE  UInv'
<1> op \in Locals /\ op' \in Locals /\ runtime \in Runtimes
    /\ cfg \in [applied : Names, safe : BOOLEAN]
  BY DEF TInv, TypeOK
<1>1. pc \in {"restore", "gate"} => op.kind \in {"apply"} \cup Retried
  BY DEF KInv, RestoreUndoes
<1>2. op.kind = "apply" /\ pc \in {"restore", "gate"} =>
        /\ bootPlan \in {op.prevBoot, op.plan}
        /\ op.pub \/ op.broken \/ bootPlan = op.prevBoot
        /\ op.undo \/ op.broken \/ cfg.applied = op.prevCfg
  BY DEF UInv, BootPlanRemembered, SettingsRemembered
<1>3. ASSUME NEW a \in Adapters, Restore(a)
      PROVE  UInv'
  BY <1>2, <1>3, RestoreFields, RestoringKeepsPromises DEF plans, settings
<1>4. CASE UndoConfig
  <2>1. op'.broken => op'.broken \in BOOLEAN
    BY DEF Locals
  <2> QED
    BY <1>2, <1>4, UndoFields, RestoringKeepsPromises DEF plans, SameWork
<1>5. CASE RestoreBootPlan
  BY <1>2, <1>5, BootRestoreFields, RestoringKeepsPromises
     DEF settings, SameWork
<1>6. CASE VerifyConsumers
  <2>1. /\ pc = "restore" /\ pc' = "gate"
        /\ ~op.undo /\ ~op.pub /\ ~op'.undo /\ ~op'.pub
        /\ op.broken => op'.broken
        /\ op'.verified => ~op'.broken
        /\ op'.broken \/ \A a \in op.prepared \ {Gate} : runtime[a] = Target(a)
        /\ op'.say = op.say /\ SameJob(op, op') /\ op'.prepared = op.prepared
        /\ UNCHANGED <<runtime, snap, bootPlan, latestPlan, cfg>>
    BY <1>6, VerifyFields DEF SameWork, plans, settings
  <2>2. \A a : Target(a)' = Target(a)
    BY <2>1, TargetStays DEF SameJob
  <2>3. op.say \in {"rolling-back", "none"} /\ op.kind \in {"apply"} \cup Retried
    BY <2>1 DEF KInv, RestoreUndoes
  <2>4. BootPlanRemembered' /\ SettingsRemembered'
    BY <1>2, <2>1, <2>3 DEF SameJob, BootPlanRemembered, SettingsRemembered
  <2>5. FailuresRemembered' /\ RetryTouchesConsumers'
    BY <2>1, <2>3 DEF SameJob, FailuresRemembered, Recording, Undone,
                      UInv, RetryTouchesConsumers
  <2>6. GateFollowsReadback'
    BY <2>1, <2>2 DEF GateFollowsReadback
  <2>7. RolledBackIsRestored' /\ OutcomeIsPublished'
    BY <2>1, <2>3 DEF RolledBackIsRestored, OutcomeIsPublished, Recording
  <2> QED
    BY <2>4, <2>5, <2>6, <2>7 DEF UInv
<1>7. CASE RollbackGate
  <2>1. Gate \in op.prepared => Gate \in Adapters
    BY DEF Locals
  <2>2. /\ pc = "gate" /\ pc' = "write-plan"
        /\ op'.say = IF op'.broken THEN "rollback-failed" ELSE "rolled-back"
        /\ op'.undo = op.undo /\ op'.pub = op.pub
        /\ SameJob(op, op') /\ op'.prepared = op.prepared
        /\ UNCHANGED <<snap, bootPlan, latestPlan, cfg>>
    BY <1>7, <2>1, GateFields DEF SameWork, plans, settings
  <2>3. \A a : Target(a)' = Target(a)
    BY <2>2, TargetStays DEF SameJob
  <2>4. op.broken => op'.broken
    <3>1. op.broken /\ op.verified => FALSE
      BY <2>2 DEF UInv, GateFollowsReadback
    <3> QED
      BY <1>7, <2>1, <3>1, GateFields DEF Locals
  <2>5. ~op'.broken => \A a \in op.prepared : runtime'[a] = Target(a)
    <3> SUFFICES ASSUME ~op'.broken, NEW a \in op.prepared
                 PROVE  runtime'[a] = Target(a)
      OBVIOUS
    <3>1. \A b \in op.prepared \ {Gate} : runtime[b] = Target(b)
      BY <2>2, <2>4 DEF UInv, GateFollowsReadback
    <3>2. a \in Adapters
      BY DEF Locals
    <3>3. CASE Gate \notin op.prepared
      <4>1. runtime' = runtime
        BY <1>7, <2>1, <3>3, GateFields
      <4> QED
        BY <3>1, <3>3, <4>1
    <3>4. CASE Gate \in op.prepared
      <4>1. Brings(Gate, snap[Gate])
        BY <1>7, <2>1, <3>4, GateFields
      <4>2. op.kind = "apply"
        BY <1>1, <2>2, <3>4 DEF UInv, RetryTouchesConsumers
      <4>3. a # Gate => runtime'[a] = runtime[a]
        BY <3>2, <4>1 DEF Brings, Others
      <4>4. Target(Gate) = snap[Gate]
        BY <4>2 DEF Target
      <4> QED
        BY <3>1, <4>1, <4>3, <4>4 DEF Brings
    <3> QED
      BY <3>3, <3>4
  <2>6. op.kind = "apply" => ~op.pub /\ ~op.undo
    BY <2>2 DEF UInv, FailuresRemembered
  <2>7. BootPlanRemembered' /\ SettingsRemembered'
    BY <1>2, <2>2, <2>4
       DEF SameJob, BootPlanRemembered, SettingsRemembered
  <2>8. FailuresRemembered' /\ RetryTouchesConsumers'
    BY <1>1, <2>2, <2>6 DEF SameJob, FailuresRemembered, Recording, Undone,
                            UInv, RetryTouchesConsumers
  <2>9. GateFollowsReadback' /\ OutcomeIsPublished'
    BY <2>2 DEF GateFollowsReadback, OutcomeIsPublished, Recording
  <2>10. RolledBackIsRestored'
    BY <2>2, <2>3, <2>5 DEF RolledBackIsRestored
  <2> QED
    BY <2>7, <2>8, <2>9, <2>10 DEF UInv
<1> QED
  BY <1>3, <1>4, <1>5, <1>6, <1>7 DEF RollbackStep


\* Startup promises what a completed commit needs, and nothing else.
LEMMA StartupPromises ==
    ASSUME op'.kind \in {"none", "boot", "deactivate"},
           op'.say # "rolled-back",
           pc' \notin Recording \cup {"gate", "write-boot"}
    PROVE  UInv'
BY DEF UInv, BootPlanRemembered, SettingsRemembered, FailuresRemembered,
       RetryTouchesConsumers, GateFollowsReadback, RolledBackIsRestored,
       OutcomeIsPublished, Retried

LEMMA StartupKeepsPromises ==
    ASSUME TInv, KInv, KInv', UInv,
           StartupStep \/ CloseFailedRollback \/ Start
           \/ DeactivateAll \/ ClearRetiredSafeMode \/ Crash
    PROVE  UInv'
<1> op \in Locals /\ runtime \in Runtimes
    /\ cfg \in [applied : Names, safe : BOOLEAN]
  BY DEF TInv, TypeOK
<1>1. ASSUME op' = Idle, pc' \in Resting PROVE UInv'
  BY <1>1, RestKeepsPromises
<1>2. CASE Crash
  BY <1>1, <1>2, CrashFields DEF Resting
<1>3. CASE RetryAtStart \/ CloseFailedRollback
  <2>1. CASE pc' = "recover"
    BY <1>1, <2>1 DEF KInv, RestIsIdle, Resting
  <2>2. CASE pc' = "restore"
    <3>1. /\ Retriable /\ op'.kind \in Retried /\ op'.say = "none"
          /\ op'.prepared = PlanAdapters(latest.plan)
          /\ ~op'.undo /\ ~op'.pub
      BY <1>3, <2>2, RecoveringFields DEF Retried
    <3>2. Gate \notin op'.prepared
      BY <3>1, PlanAssumption DEF Retriable
    <3> QED
      BY <2>2, <3>1, <3>2
         DEF UInv, BootPlanRemembered, SettingsRemembered, FailuresRemembered,
             RetryTouchesConsumers, GateFollowsReadback, RolledBackIsRestored,
             OutcomeIsPublished, Recording, Retried
  <2> QED
    BY <1>3, <2>1, <2>2, RecoveringFields
<1>4. CASE Start \/ SettleCommit \/ DeactivateAll
  <2>1. CASE pc' \in Resting
    BY <1>1, <2>1 DEF KInv, RestIsIdle
  <2>2. CASE pc' = "cleanup"
    <3>1. op'.kind = "deactivate" /\ op'.say = "none"
      BY <1>4, <2>2, StartupFields
    <3> QED
      BY <2>2, <3>1, StartupPromises DEF Recording
  <2>3. CASE pc' = "write-tx"
    <3>1. /\ op'.kind = "settle" /\ op'.plan = latest.plan /\ Settleable
          /\ op'.say = "committed" /\ UNCHANGED plans
      BY <1>4, <2>3, StartupFields DEF StartupLeaves
    <3> QED
      BY <2>3, <3>1
         DEF UInv, BootPlanRemembered, SettingsRemembered, FailuresRemembered,
             RetryTouchesConsumers, GateFollowsReadback, RolledBackIsRestored,
             OutcomeIsPublished, Retried, Undone, Settleable, plans
  <2> QED
    BY <1>4, <2>1, <2>2, <2>3, StartupFields DEF Resting
<1>5. CASE BootDecision
  <2>1. /\ op'.kind = "boot" /\ pc' \in {"record", "reconcile", "cleanup"}
        /\ op'.say # "rolled-back"
    BY <1>5, DecisionFields
  <2> QED
    BY <2>1, StartupPromises DEF Recording
<1>6. CASE Reconciled \/ Cleaned
  <2>1. pc \in {"reconcile", "cleanup"}
    BY <1>6, BootEndFields
  <2>2. op.kind \in {"boot", "deactivate"} /\ op.say # "rolled-back"
    BY <2>1 DEF KInv, StartupRecovers, Refusals, Recovered
  <2>3. CASE pc' = "down"
    BY <1>1, <2>3 DEF KInv, RestIsIdle, Resting
  <2>4. CASE pc' # "down"
    <3>1. /\ op'.kind \in {"boot", "deactivate"} /\ op'.say # "rolled-back"
          /\ pc' \in {"record", "cleanup"}
      BY <1>6, <2>2, <2>4, BootEndFields DEF SameJob
    <3> QED
      BY <3>1, StartupPromises DEF Recording
  <2> QED
    BY <2>3, <2>4
<1>7. CASE RecordRecovery
  <2>1. op.kind = "boot" /\ op.say # "rolled-back"
    BY <1>7 DEF KInv, StartupRecovers, Refusals, Recovered, RecordRecovery
  <2>2. pc' = "settle" /\ op'.kind = "boot" /\ op'.say # "rolled-back"
    BY <1>7, <2>1, RecordFields DEF SameJob
  <2> QED
    BY <2>2, StartupPromises DEF Recording
<1>8. CASE SettleSafeMode \/ ClearRetiredSafeMode
  BY <1>1, <1>8, SafeModeFields DEF KInv, RestIsIdle, Resting
<1>9. ASSUME NEW a \in Adapters, Reconcile(a) \/ Cleanup(a)
      PROVE  UInv'
  <2>1. /\ pc \in {"reconcile", "cleanup"} /\ pc' = pc
        /\ op'.say = op.say /\ SameJob(op, op')
    BY <1>9, ReconcileFields, CleanupFields
  <2>2. op.kind \in {"boot", "deactivate"} /\ op.say # "rolled-back"
    BY <2>1 DEF KInv, StartupRecovers, Refusals, Recovered
  <2> QED
    BY <2>1, <2>2, StartupPromises DEF SameJob, Recording
<1> QED
  BY <1>2, <1>3, <1>4, <1>5, <1>6, <1>7, <1>8, <1>9
     DEF StartupStep, BootDecision

LEMMA NextKeepsPromises ==
    ASSUME TInv, KInv, UInv, [Next]_vars
    PROVE  UInv'
<1>1. TInv' /\ KInv'
  BY NextTyped, NextKeepsKind
<1>2. CASE UNCHANGED vars
  <2>1. UNCHANGED <<pc, op, runtime, snap, latestPlan, bootPlan, cfg>>
    BY <1>2 DEF vars, plans, settings
  <2> QED
    BY <2>1
       DEF UInv, BootPlanRemembered, SettingsRemembered, FailuresRemembered,
           RetryTouchesConsumers, GateFollowsReadback, RolledBackIsRestored,
           OutcomeIsPublished, Target, Committed
<1>3. CASE Publication
  BY <1>1, <1>3, WritesKeepPromises, PlanWritesKeepPromises,
     WrittenKeepsPromises DEF Publication
<1> QED
  BY <1>1, <1>2, <1>3, ApplyKeepsPromises, RollbackKeepsPromises,
     StartupKeepsPromises DEF Next, Daemon, Demand


(***************************************************************************)
(* The settings follow the committed plan.                                 *)
(***************************************************************************)
Bound(p) == p \notin LanPlans \cup {NoPlan}

OpenSettingsFollow ==
    pc = "idle" /\ ~fenced /\ ~uncertain /\ Bound(Committed)
    => cfg.applied = Committed \/ (cfg.safe /\ BootRecoveryPending)
ApplyStartedFollowing ==
    op.kind = "apply" =>
        /\ ~cfg.safe
        /\ ~uncertain /\ Bound(op.prevBoot) => op.prevCfg = op.prevBoot
BootFollows ==
    op.kind = "boot" =>
        /\ op.say = "skipped" => Committed = NoPlan
        /\ op.say \in {"recovered", "degraded", "safe-mode", "network-stale"}
              => Committed \in LanPlans \/ cfg.applied = Committed
        /\ op.say = "intent-refused" => op.plan = Committed
        /\ pc = "settle" /\ op.say = "intent-refused" /\ ~fenced
              => recovery = PlanFile(op.plan, op.say)
        /\ pc = "settle" /\ op.say = "journal-recovery-required" => fenced

MInv == OpenSettingsFollow /\ ApplyStartedFollowing /\ BootFollows

\* What an Apply returns to: its own plan committed and applied, or what it
\* found.
LEMMA ReturnFollows ==
    ASSUME TInv, JInv, KInv, UInv, MInv, pc \in {"written", "preserve"},
           NEW fence \in BOOLEAN, Return(fence),
           UNCHANGED <<plans, settings, recovery>>,
           \/ fence
           \/ op.kind # "apply"
           \/ pc = "written" /\ ~op.bad /\ op.say \in Terminal
    PROVE  MInv'
<1>1. /\ op' = Idle /\ pc' \in Resting
      /\ pc' = "idle" => op.kind = "apply"
      /\ op.kind = "apply" => fenced' = (fenced \/ fence)
  BY ReturnFields
<1>2. ApplyStartedFollowing' /\ BootFollows'
  BY <1>1 DEF ApplyStartedFollowing, BootFollows, Idle
<1>3. Committed' = Committed
  BY DEF Committed, plans
<1>4. SUFFICES ASSUME pc' = "idle", ~fenced', ~uncertain, Bound(Committed)
               PROVE  cfg.applied = Committed
  BY <1>2, <1>3 DEF MInv, OpenSettingsFollow, settings
<1>5. /\ op.kind = "apply" /\ pc = "written" /\ ~op.bad
      /\ op.say \in {"committed", "canary-failed", "rolled-back"}
  BY <1>1, <1>4 DEF Terminal
<1>6. bootPlan # NoPlan => Committed = bootPlan
  BY DEF Committed
<1>7. CASE op.say = "committed"
  <2>1. bootPlan = op.plan /\ cfg.applied = op.plan
    BY <1>5, <1>7 DEF UInv, OutcomeIsPublished, SettingsRemembered, Recording
  <2>2. op.plan # NoPlan
    BY <1>5, PlanAssumption DEF TInv, WorkNamesPlan, Working
  <2> QED
    BY <1>6, <2>1, <2>2
<1>8. CASE op.say \in {"canary-failed", "rolled-back"}
  <2>1. /\ ~op.pub /\ ~op.undo /\ ~op.broken /\ bootPlan = op.prevBoot
        /\ cfg.applied = op.prevCfg
    BY <1>5, <1>8 DEF UInv, BootPlanRemembered, SettingsRemembered,
                      FailuresRemembered, Undone
  <2>2. latestPlan = PlanFile(op.plan, op.say)
    BY <1>5, <1>8 DEF UInv, OutcomeIsPublished, Recording, Undone
  <2>3. Committed = op.prevBoot
    BY <1>8, <2>1, <2>2 DEF Committed, PlanFile
  <2>4. op.prevCfg = op.prevBoot
    BY <1>4, <1>5, <2>3 DEF MInv, ApplyStartedFollowing
  <2> QED
    BY <2>1, <2>3, <2>4
<1> QED
  BY <1>5, <1>7, <1>8

\* A step of a running Apply, of a retry or of a completed commit.
LEMMA RunningFollows ==
    ASSUME MInv, SameJob(op, op'), op.kind # "boot", pc' # "idle",
           op.kind = "apply" => cfg'.safe = cfg.safe /\ (uncertain => uncertain')
    PROVE  MInv'
BY DEF MInv, OpenSettingsFollow, ApplyStartedFollowing, BootFollows, SameJob

LEMMA PublicationFollows ==
    ASSUME TInv, JInv, KInv, UInv, MInv, Publication
    PROVE  MInv'
<1> op \in Locals
  BY DEF TInv, TypeOK
<1>1. CASE WriteTx \/ WriteLatest
  <2>1. /\ pc \in Recording /\ SameJob(op, op') /\ UNCHANGED settings
        /\ pc' # "idle"
    BY <1>1, WriteFields DEF Recording
  <2>2. op.kind # "boot"
    BY <2>1 DEF KInv, RecordIsPublished, Retried
  <2> QED
    BY <2>1, <2>2, RunningFollows DEF settings
<1>2. CASE WritePlan \/ WriteBoot
  <2>1. /\ pc \in {"write-plan", "write-boot"} /\ SameJob(op, op')
        /\ UNCHANGED settings /\ pc' # "idle"
    BY <1>2, PlanWriteFields, BootWriteFields DEF RollsBack, SameJob
  <2>2. op.kind # "boot"
    BY <2>1 DEF KInv, PlanIsPublished, Retried
  <2> QED
    BY <2>1, <2>2, RunningFollows DEF settings
<1>3. CASE Begun \/ Committing \/ CommittedOrNot \/ Rejected \/ RollingBack
           \/ RolledBackOrNot
  <2>1. pc = "written" /\ UNCHANGED <<plans, settings, recovery>>
    BY <1>3, WrittenFields
  <2>2. op.kind # "boot"
    BY <2>1 DEF KInv, RecordIsPublished, Recording, Retried
  <2>3. ASSUME NEW fence \in BOOLEAN, Return(fence),
               \/ fence
               \/ op.kind # "apply"
               \/ ~op.bad /\ op.say \in Terminal
        PROVE  MInv'
    BY <2>1, <2>3, ReturnFollows
  <2>4. CASE SameJob(op, op') /\ pc' # "idle"
    BY <2>1, <2>2, <2>4, RunningFollows DEF settings
  <2>5. \/ SameJob(op, op') /\ pc' # "idle"
        \/ \E fence \in BOOLEAN :
              /\ Return(fence)
              /\ \/ fence
                 \/ op.kind # "apply"
                 \/ ~op.bad /\ op.say \in Terminal
    <3>1. op.say \in {"committed", "canary-failed"} => op.say \in Terminal
      BY DEF Terminal
    <3>2. op.say \in {"rolled-back", "rollback-failed"}
          => op.say = "rollback-failed" \/ op.say \in Terminal
      BY DEF Terminal
    <3>3. RollsBack(op) => SameJob(op, op') /\ pc' # "idle"
      BY DEF RollsBack
    <3>4. op' = op => SameJob(op, op')
      BY DEF SameJob
    <3>5. pc' \in {"snapshot", "write-plan", "restore"} => pc' # "idle"
      OBVIOUS
    <3> QED
      BY <1>3, <3>1, <3>2, <3>3, <3>4, <3>5, WrittenFields, Zenon DEF Leaves
  <2> QED
    BY <2>3, <2>4, <2>5
<1> QED
  BY <1>1, <1>2, <1>3 DEF Publication

LEMMA ApplyFollows ==
    ASSUME TInv, JInv, KInv, UInv, MInv,
           ApplyStep \/ (\E p \in Plans : StartApply(p))
    PROVE  MInv'
<1> op \in Locals /\ runtime \in Runtimes
    /\ cfg \in [applied : Names, safe : BOOLEAN]
  BY DEF TInv, TypeOK
<1>1. pc \in Advancing => op.kind = "apply" /\ op.plan \in Plans
  BY DEF KInv, AdvanceApplies, TInv, WorkNamesPlan, Working, Advancing
<1>2. ASSUME NEW prepared, NEW live, Undoes(prepared, live) \/ Refuses(prepared)
      PROVE  SameJob(op, op') /\ pc' # "idle"
  BY <1>2 DEF Undoes, Refuses, Gives
<1>3. CASE Preserve
  <2>1. pc = "preserve" /\ UNCHANGED <<recovery, settings>>
    BY <1>3, PreserveFields
  <2>2. CASE Return(TRUE)
    <3>1. fenced' /\ op' = Idle
      BY <1>1, <2>1, <2>2, ReturnFields DEF Advancing
    <3> QED
      BY <3>1 DEF MInv, OpenSettingsFollow, ApplyStartedFollowing,
                  BootFollows, Idle
  <2>3. CASE pc' = "write-tx" /\ op' = op
    BY <1>1, <2>1, <2>3, RunningFollows DEF SameJob, settings, Advancing
  <2> QED
    BY <1>3, <2>2, <2>3, PreserveFields
<1>4. CASE Snapshot
  <2>1. op.kind = "apply" /\ op.plan \in Plans
    BY <1>1, <1>4 DEF Snapshot, Advancing
  <2>2. SameJob(op, op') /\ pc' # "idle" /\ UNCHANGED settings
    BY <1>2, <1>4, <2>1, SnapshotFields
  <2> QED
    BY <2>1, <2>2, RunningFollows DEF settings
<1>5. CASE Candidate
  <2>1. op.kind = "apply" /\ op.plan \in Plans
    BY <1>1, <1>5 DEF Candidate, Advancing
  <2>2. SameJob(op, op') /\ pc' # "idle" /\ UNCHANGED settings
    BY <1>2, <1>5, <2>1, CandidateFields
  <2> QED
    BY <2>1, <2>2, RunningFollows DEF settings
<1>6. CASE HealthAndCommit
  <2>1. op.kind = "apply" /\ op.plan \in Plans
    BY <1>1, <1>6 DEF HealthAndCommit, Advancing
  <2>2. SameJob(op, op') /\ pc' # "idle" /\ UNCHANGED settings
    BY <1>2, <1>6, <2>1, HealthFields
  <2> QED
    BY <2>1, <2>2, RunningFollows DEF settings
<1>7. ASSUME NEW a \in Adapters, Activate(a)
      PROVE  MInv'
  <2>1. op.kind = "apply" /\ op.plan \in Plans
    BY <1>1, <1>7 DEF Activate, Advancing
  <2>2. SameJob(op, op') /\ pc' # "idle" /\ UNCHANGED settings
    BY <1>2, <1>7, <2>1, ActivateFields
  <2> QED
    BY <2>1, <2>2, RunningFollows DEF settings
<1>8. ASSUME NEW a \in Adapters, DeactivateRetiring(a)
      PROVE  MInv'
  <2>1. op.kind = "apply" /\ op.plan \in Plans
    BY <1>1, <1>8 DEF DeactivateRetiring, Advancing
  <2>2. SameJob(op, op') /\ pc' # "idle" /\ UNCHANGED settings
    BY <1>2, <1>8, <2>1, RetireFields
  <2> QED
    BY <2>1, <2>2, RunningFollows DEF settings
<1>9. CASE CommitConfig
  <2>1. op.kind = "apply" /\ op.plan \in Plans
    BY <1>1, <1>9 DEF CommitConfig, Advancing
  <2> QED
    BY <1>9, <2>1, ConfigFields, RunningFollows
<1>10. ASSUME NEW p \in Plans, StartApply(p)
       PROVE  MInv'
  <2>1. /\ pc = "idle" /\ ~fenced /\ ~cfg.safe /\ pc' = "preserve"
        /\ op'.kind = "apply" /\ op'.prevBoot = Committed
        /\ op'.prevCfg = cfg.applied /\ UNCHANGED settings
    BY <1>10, StartFields
  <2>2. ~uncertain /\ Bound(Committed) => cfg.applied = Committed
    BY <2>1 DEF MInv, OpenSettingsFollow
  <2> QED
    BY <2>1, <2>2 DEF MInv, OpenSettingsFollow, ApplyStartedFollowing,
                      BootFollows, Bound, settings
<1> QED
  BY <1>3, <1>4, <1>5, <1>6, <1>7, <1>8, <1>9, <1>10 DEF ApplyStep

LEMMA RollbackFollows ==
    ASSUME TInv, JInv, KInv, UInv, MInv, RollbackStep
    PROVE  MInv'
<1> op \in Locals /\ runtime \in Runtimes
    /\ cfg \in [applied : Names, safe : BOOLEAN]
  BY DEF TInv, TypeOK
<1>1. pc \in {"restore", "gate"} => op.kind # "boot"
  BY DEF KInv, RestoreUndoes, Retried
<1>2. ASSUME NEW a \in Adapters, Restore(a)
      PROVE  MInv'
  BY <1>1, <1>2, RestoreFields, RunningFollows DEF settings
<1>3. CASE UndoConfig
  BY <1>1, <1>3, UndoFields, RunningFollows
<1>4. CASE RestoreBootPlan
  BY <1>1, <1>4, BootRestoreFields, RunningFollows DEF settings
<1>5. CASE VerifyConsumers
  BY <1>1, <1>5, VerifyFields, RunningFollows DEF settings
<1>6. CASE RollbackGate
  <2>1. Gate \in op.prepared => Gate \in Adapters
    BY DEF Locals
  <2>2. /\ pc = "gate" /\ pc' = "write-plan" /\ SameJob(op, op')
        /\ UNCHANGED settings
    BY <1>6, <2>1, GateFields
  <2> QED
    BY <1>1, <2>2, RunningFollows DEF settings
<1> QED
  BY <1>2, <1>3, <1>4, <1>5, <1>6 DEF RollbackStep

\* Outside the panel and without an operation nothing is promised.
LEMMA ElsewhereFollows ==
    ASSUME pc' # "idle", op'.kind \in {"none", "retry", "close", "settle",
                                       "deactivate"}
    PROVE  MInv'
BY DEF MInv, OpenSettingsFollow, ApplyStartedFollowing, BootFollows

\* A startup step before the panel keeps what it decided on.
LEMMA BootKeepsFollowing ==
    ASSUME MInv, op.kind = "boot", SameJob(op, op'),
           \/ op'.say = op.say
           \/ op.say = "recovered" /\ op'.say = "degraded",
           pc' \notin {"idle", "settle"}, UNCHANGED <<plans, settings>>
    PROVE  MInv'
<1>1. Committed' = Committed /\ cfg' = cfg
  BY DEF Committed, plans, settings
<1> QED
  BY <1>1 DEF MInv, OpenSettingsFollow, ApplyStartedFollowing, BootFollows,
              SameJob

LEMMA StartupFollows ==
    ASSUME TInv, JInv, KInv, UInv, MInv,
           StartupStep \/ CloseFailedRollback \/ Start
           \/ DeactivateAll \/ ClearRetiredSafeMode \/ Crash
    PROVE  MInv'
<1> op \in Locals /\ runtime \in Runtimes
    /\ cfg \in [applied : Names, safe : BOOLEAN]
  BY DEF TInv, TypeOK
<1>0. Idle.kind = "none"
  BY DEF Idle
<1>1. pc \in Resting => op.kind = "none"
  BY <1>0 DEF KInv, RestIsIdle
<1>2. CASE Crash
  BY <1>0, <1>2, CrashFields, ElsewhereFollows
<1>3. CASE RetryAtStart \/ CloseFailedRollback
  BY <1>1, <1>3, RecoveringFields, ElsewhereFollows DEF Resting
<1>4. CASE Start \/ SettleCommit \/ DeactivateAll
  BY <1>1, <1>4, StartupFields, ElsewhereFollows DEF Resting
<1>5. CASE BootDecision
  <2>1. /\ op'.kind = "boot" /\ pc' \notin {"idle", "settle"}
        /\ UNCHANGED <<plans, settings>>
        /\ \/ op'.say = "journal-recovery-required"
           \/ Committed = NoPlan /\ op'.say = "skipped"
           \/ op'.plan = Committed /\ op'.say = "intent-refused"
           \/ /\ Committed \in LanPlans \/ Authorized
              /\ op'.say \in {"network-stale", "safe-mode", "recovered"}
    BY <1>5, DecisionFields DEF StartupLeaves
  <2>2. Committed' = Committed /\ cfg' = cfg
    BY <2>1 DEF Committed, plans, settings
  <2>3. Authorized => cfg.applied = Committed
    BY DEF Authorized, SettingsMatch
  <2> QED
    BY <2>1, <2>2, <2>3 DEF MInv, OpenSettingsFollow, ApplyStartedFollowing,
                            BootFollows
<1>6. CASE Reconciled \/ Cleaned
  <2>1. pc \in {"reconcile", "cleanup"} /\ UNCHANGED <<plans, settings>>
    BY <1>6, BootEndFields DEF StartupLeaves
  <2>2. CASE pc' = "down"
    BY <1>0, <1>6, <2>2, BootEndFields, ElsewhereFollows
  <2>3. CASE pc' # "down"
    <3>1. pc = "reconcile" \/ op.kind = "boot"
      BY <1>6, <2>3, BootEndFields
    <3>2. op.kind = "boot"
      BY <2>1, <3>1 DEF KInv, StartupRecovers
    <3> QED
      BY <1>6, <2>1, <2>3, <3>2, BootEndFields, BootKeepsFollowing
         DEF SameJob
  <2> QED
    BY <2>2, <2>3
<1>7. CASE RecordRecovery
  <2>1. op.kind = "boot"
    BY <1>7 DEF KInv, StartupRecovers, RecordRecovery
  <2>2. /\ pc' = "settle" /\ op'.say = op.say /\ SameJob(op, op')
        /\ \/ recovery' = PlanFile(op.plan, op.say)
           \/ op.say \in {"skipped", "recovered", "intent-refused"} => fenced'
        /\ op.say = "journal-recovery-required" => fenced'
        /\ UNCHANGED <<plans, settings>>
    BY <1>7, RecordFields
  <2>3. Committed' = Committed /\ cfg' = cfg
    BY <2>2 DEF Committed, plans, settings
  <2> QED
    BY <2>1, <2>2, <2>3
       DEF MInv, OpenSettingsFollow, ApplyStartedFollowing, BootFollows,
           SameJob
<1>8. CASE SettleSafeMode \/ ClearRetiredSafeMode
  <2>1. /\ pc' = "idle" /\ cfg'.applied = cfg.applied
        /\ uncertain => uncertain'
        /\ \/ /\ pc = "settle" /\ op' = Idle /\ (fenced => fenced')
              /\ op.say \in Refusals => cfg'.safe \/ fenced'
           \/ /\ pc = "idle" /\ op' = op /\ cfg.safe
              /\ fenced' = fenced /\ ~BootRecoveryPending
        /\ UNCHANGED <<plans, recovery>>
    BY <1>8, SafeModeFields
  <2>2. Committed' = Committed /\ BootRecoveryPending' = BootRecoveryPending
    BY <2>1 DEF Committed, plans, BootRecoveryPending
  <2>3. op'.kind = "none"
    BY <1>0, <1>1, <2>1 DEF Resting
  <2>4. SUFFICES ASSUME ~fenced', ~uncertain', Bound(Committed)
                 PROVE  \/ cfg'.applied = Committed
                        \/ cfg'.safe /\ BootRecoveryPending
    BY <2>1, <2>2, <2>3
       DEF MInv, OpenSettingsFollow, ApplyStartedFollowing, BootFollows
  <2>5. CASE pc = "idle"
    <3>1. ~fenced /\ ~uncertain /\ ~BootRecoveryPending
      BY <2>1, <2>4, <2>5
    <3> QED
      BY <2>1, <2>4, <2>5, <3>1 DEF MInv, OpenSettingsFollow
  <2>6. CASE pc = "settle"
    <3>1. op.kind = "boot" /\ op.say \in Refusals \cup Recovered /\ ~fenced
      BY <2>1, <2>4, <2>6 DEF KInv, StartupRecovers
    <3>2. op.say \notin {"skipped", "journal-recovery-required"}
      BY <2>4, <2>6, <3>1 DEF MInv, BootFollows, Bound
    <3>3. CASE op.say = "intent-refused"
      <4>1. recovery = PlanFile(Committed, "intent-refused")
        BY <2>6, <3>1, <3>3 DEF MInv, BootFollows
      <4>2. BootRecoveryPending
        BY <4>1 DEF BootRecoveryPending, PlanFile, Refusals
      <4>3. cfg'.safe
        BY <2>1, <2>4, <2>6, <3>3 DEF Refusals
      <4> QED
        BY <4>2, <4>3
    <3>4. CASE op.say # "intent-refused"
      <4>1. op.say \in {"recovered", "degraded", "safe-mode", "network-stale"}
        BY <3>1, <3>2, <3>4 DEF Refusals, Recovered
      <4>2. Committed \notin LanPlans
        BY <2>4 DEF Bound
      <4>3. cfg.applied = Committed
        BY <3>1, <4>1, <4>2 DEF MInv, BootFollows
      <4> QED
        BY <2>1, <4>3
    <3> QED
      BY <3>3, <3>4
  <2> QED
    BY <2>1, <2>5, <2>6
<1>9. ASSUME NEW a \in Adapters, Reconcile(a) \/ Cleanup(a)
      PROVE  MInv'
  <2>1. /\ pc \in {"reconcile", "cleanup"} /\ pc' = pc
        /\ op'.say = op.say /\ SameJob(op, op') /\ UNCHANGED <<plans, settings>>
    BY <1>9, ReconcileFields, CleanupFields DEF StartupLeaves
  <2>2. CASE op.kind = "boot"
    BY <2>1, <2>2, BootKeepsFollowing
  <2>3. CASE op.kind = "deactivate"
    BY <2>1, <2>3, ElsewhereFollows DEF SameJob
  <2> QED
    BY <2>1, <2>2, <2>3 DEF KInv, StartupRecovers
<1> QED
  BY <1>2, <1>3, <1>4, <1>5, <1>6, <1>7, <1>8, <1>9
     DEF StartupStep, BootDecision

LEMMA NextFollows ==
    ASSUME TInv, JInv, KInv, UInv, MInv, [Next]_vars
    PROVE  MInv'
<1>1. CASE UNCHANGED vars
  <2>1. UNCHANGED <<pc, op, fenced, latestPlan, bootPlan, recovery, cfg,
                    uncertain>>
    BY <1>1 DEF vars, plans, settings
  <2> QED
    BY <2>1 DEF MInv, OpenSettingsFollow, ApplyStartedFollowing, BootFollows,
                Committed, BootRecoveryPending
<1> QED
  BY <1>1, PublicationFollows, ApplyFollows, RollbackFollows, StartupFollows
     DEF Next, Daemon, Demand

AInv == TInv /\ JInv /\ KInv /\ UInv /\ MInv

LEMMA InitRemembers == Init => AInv
<1> SUFFICES ASSUME Init PROVE AInv
  OBVIOUS
<1>1. pc = "down" /\ op = Idle /\ ~fenced
  BY DEF Init
<1>2. TInv
  BY InitTyped
<1>3. JInv
  BY <1>1 DEF JInv, TxHoldsSaid, BothHoldSaid, BootSawSettled, RecordFences,
              OpenGateHasSettledJournal
<1>4. KInv
  BY <1>1 DEF KInv, RestIsIdle, AdvanceApplies, RestoreUndoes, PlanIsPublished,
              RecordIsPublished, StartupRecovers, Resting, Advancing,
              Recording, Idle
<1>5. UInv
  BY <1>1 DEF UInv, BootPlanRemembered, SettingsRemembered,
              FailuresRemembered, RetryTouchesConsumers, GateFollowsReadback,
              RolledBackIsRestored, OutcomeIsPublished, Recording, Retried,
              Idle
<1>6. MInv
  BY <1>1 DEF MInv, OpenSettingsFollow, ApplyStartedFollowing, BootFollows,
              Idle
<1> QED
  BY <1>2, <1>3, <1>4, <1>5, <1>6 DEF AInv

LEMMA NextRemembers == AInv /\ [Next]_vars => AInv'
BY NextTyped, NextSettles, NextKeepsKind, NextKeepsPromises, NextFollows
   DEF AInv

\* For any plans, adapters and numbers of failures and restarts: while the
\* daemon takes requests with its gate open, without Safe Mode and with a
\* settings file it could write, the settings a person sees as applied are
\* those of the plan the next boot restores (Apply, undoCommit,
\* restoreCommitted, bootRecoveryGuard, settleRecoverySafeMode).
THEOREM AppliedFollowsCommitted == Spec => []AppliedMatchesCommitted
<1>1. AInv => AppliedMatchesCommitted
  BY DEF AInv, MInv, OpenSettingsFollow, AppliedMatchesCommitted, Bound
<1> QED
  BY <1>1, InitRemembers, NextRemembers, PTL DEF Spec

\* Whichever step of Apply failed: if it answers "rolled-back" and leaves the
\* gate open, every adapter it prepared, the plan of the next boot and the
\* applied settings are again what they were before it (rollbackOwned,
\* verifyRollbackSet, undoCommit, restoreCommitted).
THEOREM RollbackRestoresEverything == Spec => RolledBackRestoresEverything
<1> DEFINE Kept ==
       /\ pc = "written" /\ op.kind = "apply" /\ op.say = "rolled-back"
       /\ pc' = "idle" /\ ~fenced'
       => /\ \A a \in op.prepared : runtime[a] = snap[a]
          /\ Committed = op.prevBoot
          /\ cfg.applied = op.prevCfg
<1>1. AInv /\ [Next]_vars => [Kept]_vars
  <2> SUFFICES ASSUME AInv, Next, pc = "written", op.kind = "apply",
                      op.say = "rolled-back", pc' = "idle", ~fenced'
               PROVE  /\ \A a \in op.prepared : runtime[a] = snap[a]
                      /\ Committed = op.prevBoot
                      /\ cfg.applied = op.prevCfg
    BY DEF AInv
  <2>1. op \in Locals
    BY DEF AInv, TInv, TypeOK
  <2>2. RolledBackOrNot
    BY DEF Next, Daemon, Publication, ApplyStep, RollbackStep, StartupStep,
           Demand, WriteTx, WriteLatest, WritePlan, WriteBoot, Begun,
           Committing, CommittedOrNot, Rejected, RollingBack, Preserve,
           Snapshot, Candidate, HealthAndCommit, CommitConfig, Activate,
           DeactivateRetiring, UndoConfig, RestoreBootPlan, VerifyConsumers,
           RollbackGate, Restore, RetryAtStart, SettleCommit, RefuseJournal,
           NothingToRecover, RefuseIntent, WaitForNetwork, ReconcileOrGuard,
           Reconciled, Cleaned, RecordRecovery, SettleSafeMode, Reconcile,
           Cleanup, StartApply, CloseFailedRollback, Start, DeactivateAll,
           ClearRetiredSafeMode, Crash
  <2>3. ~op.bad
    BY <2>1, <2>2, ReturnFields, WrittenFields
  <2>4. \A a \in op.prepared : runtime[a] = snap[a]
    BY DEF AInv, UInv, RolledBackIsRestored, Target
  <2>5. /\ ~op.pub /\ ~op.undo /\ ~op.broken /\ bootPlan = op.prevBoot
        /\ cfg.applied = op.prevCfg
    BY DEF AInv, UInv, BootPlanRemembered, SettingsRemembered,
           FailuresRemembered, Undone
  <2>6. latestPlan = PlanFile(op.plan, op.say)
    BY <2>3 DEF AInv, UInv, OutcomeIsPublished, Recording, Undone
  <2>7. Committed = op.prevBoot
    BY <2>5, <2>6 DEF Committed, PlanFile
  <2> QED
    BY <2>4, <2>5, <2>7
<1> QED
  BY <1>1, InitRemembers, NextRemembers, PTL
     DEF Spec, RolledBackRestoresEverything


-----------------------------------------------------------------------------
(***************************************************************************)
(* An adapter runs, and a snapshot records, only what a plan that names    *)
(* the adapter can have started.                                           *)
(***************************************************************************)
Owns(im) == \A a \in Adapters :
    im[a].plan # NoPlan => im[a].plan \in Plans /\ a \in AdaptersOf[im[a].plan]
StepsStayInPlan ==
    /\ pc = "activate" => op.todo \subseteq AdaptersOf[op.plan]
    /\ pc = "reconcile" => op.todo \subseteq AdaptersOf[op.plan]

OInv == Owns(runtime) /\ Owns(snap) /\ StepsStayInPlan

\* One adapter is brought, or disturbed, towards a plan that names it.
LEMMA StepOwns ==
    ASSUME runtime' \in Runtimes, Owns(runtime), NEW a \in Adapters, NEW p,
           p # NoPlan => p \in Plans /\ a \in AdaptersOf[p],
           \/ Disturbs(a, p)
           \/ \E goal : Brings(a, goal) /\ goal.plan = p
    PROVE  Owns(runtime)'
<1> SUFFICES ASSUME NEW b \in Adapters, runtime'[b].plan # NoPlan
             PROVE  runtime'[b].plan \in Plans
                    /\ b \in AdaptersOf[runtime'[b].plan]
  BY DEF Owns
<1>1. CASE b = a
  <2>1. runtime'[a].plan \in {runtime[a].plan, p}
    BY DEF Disturbs, Brings
  <2> QED
    BY <1>1, <2>1 DEF Owns
<1>2. CASE b # a
  <2>1. runtime'[b] = runtime[b]
    BY <1>2 DEF Disturbs, Brings, Others
  <2> QED
    BY <2>1 DEF Owns
<1> QED
  BY <1>1, <1>2

LEMMA SameOwns ==
    /\ UNCHANGED runtime /\ Owns(runtime) => Owns(runtime)'
    /\ UNCHANGED snap /\ Owns(snap) => Owns(snap)'
BY DEF Owns

LEMMA WholeOwned ==
    ASSUME NEW p
    PROVE  Whole(p).plan = p /\ Torn(p).plan = p /\ Off.plan = NoPlan
BY DEF Whole, Torn, Off

LEMMA ApplyOwns ==
    ASSUME TInv, TInv', KInv, OInv,
           ApplyStep \/ (\E p \in Plans : StartApply(p))
    PROVE  OInv'
<1> op \in Locals /\ runtime \in Runtimes /\ snap \in Runtimes
    /\ runtime' \in Runtimes /\ snap' \in Runtimes
    /\ cfg \in [applied : Names, safe : BOOLEAN]
  BY DEF TInv, TypeOK
<1> USE DEF OInv
<1>1. pc \in Advancing => op.plan \in Plans
  BY DEF TInv, WorkNamesPlan, Working, Advancing
<1>2. ASSUME NEW prepared, NEW live, Undoes(prepared, live) \/ Refuses(prepared)
      PROVE  StepsStayInPlan'
  BY <1>2 DEF Undoes, Refuses, StepsStayInPlan
<1>3. CASE Preserve
  <2>1. UNCHANGED <<runtime, snap>> /\ pc' \notin {"activate", "reconcile"}
    BY <1>3, PreserveFields, ReturnFields DEF Resting
  <2> QED
    BY <2>1, SameOwns DEF StepsStayInPlan
<1>4. CASE Snapshot
  <2>1. op.plan \in Plans
    BY <1>1, <1>4 DEF Snapshot, Advancing
  <2>2. PICK done : snap' = Image(done)
    BY <1>4, <2>1, SnapshotFields
  <2>3. Owns(snap)'
    <3> SUFFICES ASSUME NEW a \in Adapters, snap'[a].plan # NoPlan
                 PROVE  snap'[a].plan \in Plans
                        /\ a \in AdaptersOf[snap'[a].plan]
      BY DEF Owns
    <3>1. snap'[a] = runtime[a]
      BY <2>2 DEF Image, Off
    <3> QED
      BY <3>1 DEF Owns
  <2>4. runtime' = runtime /\ StepsStayInPlan'
    BY <1>2, <1>4, <2>1, SnapshotFields DEF StepsStayInPlan
  <2> QED
    BY <2>3, <2>4, SameOwns
<1>5. CASE Candidate
  <2>1. op.plan \in Plans
    BY <1>1, <1>5 DEF Candidate, Advancing
  <2>2. UNCHANGED <<runtime, snap>>
    BY <1>5, <2>1, CandidateFields
  <2>3. CASE pc' = "activate"
    <3>1. op'.todo = AdaptersOf[op.plan] /\ op'.plan = op.plan
      BY <1>5, <2>1, <2>3, CandidateFields DEF Undoes, Refuses, SameJob
    <3> QED
      BY <2>2, <2>3, <3>1, SameOwns DEF StepsStayInPlan
  <2>4. CASE pc' # "activate"
    BY <1>2, <1>5, <2>1, <2>2, <2>4, CandidateFields, SameOwns
  <2> QED
    BY <2>3, <2>4
<1>6. CASE HealthAndCommit
  <2>1. op.plan \in Plans
    BY <1>1, <1>6 DEF HealthAndCommit, Advancing
  <2>2. StepsStayInPlan' /\ snap' = snap
    BY <1>2, <1>6, <2>1, HealthFields DEF StepsStayInPlan
  <2>3. Owns(runtime)'
    <3>1. CASE runtime' = runtime
      BY <3>1, SameOwns
    <3>2. ASSUME NEW torn \in SUBSET (AdaptersOf[op.plan] \ {Gate}),
                 runtime' = [a \in Adapters |->
                    IF a \in torn THEN Torn(op.plan) ELSE runtime[a]]
          PROVE  Owns(runtime)'
      <4> SUFFICES ASSUME NEW a \in Adapters, runtime'[a].plan # NoPlan
                   PROVE  runtime'[a].plan \in Plans
                          /\ a \in AdaptersOf[runtime'[a].plan]
        BY DEF Owns
      <4>1. CASE a \in torn
        BY <2>1, <3>2, <4>1, WholeOwned
      <4>2. CASE a \notin torn
        BY <3>2, <4>2 DEF Owns
      <4> QED
        BY <4>1, <4>2
    <3> QED
      BY <1>6, <2>1, <3>1, <3>2, HealthFields
  <2> QED
    BY <2>2, <2>3, SameOwns
<1>7. ASSUME NEW a \in Adapters, Activate(a)
      PROVE  OInv'
  <2>1. op.plan \in Plans /\ pc = "activate"
    BY <1>1, <1>7 DEF Activate, Advancing
  <2>2. a \in AdaptersOf[op.plan] /\ snap' = snap
    BY <1>7, <2>1, ActivateFields DEF StepsStayInPlan
  <2>3. \/ runtime' = runtime
        \/ Disturbs(a, op.plan)
        \/ Brings(a, Whole(op.plan))
    BY <1>7, <2>1, ActivateFields
  <2>4. Owns(runtime)'
    BY <2>1, <2>2, <2>3, SameOwns, StepOwns, WholeOwned
  <2>5. StepsStayInPlan'
    <3>1. CASE pc' = "activate"
      <4>1. op'.todo = op.todo \ {a} /\ op'.plan = op.plan
        BY <1>7, <2>1, <3>1, ActivateFields DEF Undoes, Refuses, SameJob
      <4> QED
        BY <2>1, <3>1, <4>1 DEF StepsStayInPlan
    <3>2. CASE pc' # "activate"
      BY <1>2, <1>7, <2>1, <3>2, ActivateFields
    <3> QED
      BY <3>1, <3>2
  <2> QED
    BY <2>2, <2>4, <2>5, SameOwns
<1>8. ASSUME NEW a \in Adapters, DeactivateRetiring(a)
      PROVE  OInv'
  <2>1. op.plan \in Plans /\ pc = "activate"
    BY <1>1, <1>8 DEF DeactivateRetiring, Advancing
  <2>2. snap' = snap /\ (Disturbs(a, NoPlan) \/ Brings(a, Off))
    BY <1>8, <2>1, RetireFields
  <2>3. Owns(runtime)'
    BY <2>2, StepOwns, WholeOwned
  <2>4. StepsStayInPlan'
    <3>1. CASE pc' = "activate"
      <4>1. op'.todo = op.todo /\ op'.plan = op.plan
        BY <1>8, <2>1, <3>1, RetireFields DEF Undoes, SameJob
      <4> QED
        BY <2>1, <3>1, <4>1 DEF StepsStayInPlan
    <3>2. CASE pc' # "activate"
      BY <1>2, <1>8, <2>1, <3>2, RetireFields
    <3> QED
      BY <3>1, <3>2
  <2> QED
    BY <2>2, <2>3, <2>4, SameOwns
<1>9. CASE CommitConfig
  <2>1. op.plan \in Plans
    BY <1>1, <1>9 DEF CommitConfig, Advancing
  <2>2. UNCHANGED <<runtime, snap>> /\ pc' = "write-tx"
    BY <1>9, <2>1, ConfigFields
  <2> QED
    BY <2>2, SameOwns DEF StepsStayInPlan
<1>10. ASSUME NEW p \in Plans, StartApply(p)
       PROVE  OInv'
  <2>1. runtime' = runtime /\ snap' = AllOff /\ pc' = "preserve"
    BY <1>10, StartFields
  <2>2. Owns(snap)'
    BY <2>1 DEF Owns, AllOff, Off
  <2> QED
    BY <2>1, <2>2, SameOwns DEF StepsStayInPlan
<1> QED
  BY <1>3, <1>4, <1>5, <1>6, <1>7, <1>8, <1>9, <1>10 DEF ApplyStep

LEMMA NextOwns ==
    ASSUME TInv, KInv, OInv, [Next]_vars
    PROVE  OInv'
<1>1. TInv'
  BY NextTyped
<1> op \in Locals /\ runtime \in Runtimes /\ snap \in Runtimes
    /\ runtime' \in Runtimes /\ snap' \in Runtimes
    /\ cfg \in [applied : Names, safe : BOOLEAN]
  BY <1>1 DEF TInv, TypeOK
<1> USE DEF OInv
<1>2. CASE UNCHANGED vars
  BY <1>2, SameOwns DEF vars, StepsStayInPlan
<1>3. ASSUME UNCHANGED <<runtime, snap>>, pc' \notin {"activate", "reconcile"}
      PROVE  OInv'
  BY <1>3, SameOwns DEF StepsStayInPlan
<1>4. CASE Publication
  <2>1. CASE WriteTx \/ WriteLatest
    BY <1>3, <2>1, WriteFields
  <2>2. CASE WritePlan \/ WriteBoot
    BY <1>3, <2>2, PlanWriteFields, BootWriteFields DEF RollsBack
  <2>3. CASE Begun \/ Committing \/ CommittedOrNot \/ Rejected \/ RollingBack
             \/ RolledBackOrNot
    <3>1. UNCHANGED <<runtime, snap>>
      BY <2>3, WrittenFields
    <3>2. pc' \notin {"activate", "reconcile"}
      <4>1. RollsBack(op) => pc' = "write-tx"
        BY DEF RollsBack
      <4>2. ASSUME NEW fence, Return(fence)
            PROVE  pc' \notin {"activate", "reconcile"}
        BY <4>2, ReturnFields DEF Resting
      <4>3. pc' \in {"snapshot", "write-plan", "restore", "write-tx"}
            => pc' \notin {"activate", "reconcile"}
        OBVIOUS
      <4> QED
        BY <2>3, <4>1, <4>2, <4>3, WrittenFields, Zenon DEF Leaves
    <3> QED
      BY <1>3, <3>1, <3>2
  <2> QED
    BY <1>4, <2>1, <2>2, <2>3 DEF Publication
<1>5. CASE RollbackStep
  <2>1. ASSUME NEW a \in Adapters, Restore(a)
        PROVE  OInv'
    <3>1. /\ pc' = "restore" /\ snap' = snap
          /\ Brings(a, Target(a)) \/ Disturbs(a, Target(a).plan)
      BY <2>1, RestoreFields
    <3>2. Target(a).plan # NoPlan
          => Target(a).plan \in Plans /\ a \in AdaptersOf[Target(a).plan]
      BY WholeOwned DEF Target, Owns
    <3>3. Owns(runtime)'
      BY <3>1, <3>2, StepOwns
    <3> QED
      BY <3>1, <3>3, SameOwns DEF StepsStayInPlan
  <2>2. CASE UndoConfig
    BY <1>3, <2>2, UndoFields
  <2>3. CASE RestoreBootPlan
    BY <1>3, <2>3, BootRestoreFields
  <2>4. CASE VerifyConsumers
    BY <1>3, <2>4, VerifyFields
  <2>5. CASE RollbackGate
    <3>1. Gate \in op.prepared => Gate \in Adapters
      BY DEF Locals
    <3>2. /\ pc' = "write-plan" /\ snap' = snap
          /\ \/ runtime' = runtime
             \/ /\ Gate \in Adapters
                /\ \/ Brings(Gate, snap[Gate])
                   \/ Disturbs(Gate, snap[Gate].plan)
      BY <2>5, <3>1, GateFields
    <3>3. Owns(runtime)'
      BY <3>2, SameOwns, StepOwns DEF Owns
    <3> QED
      BY <3>2, <3>3, SameOwns DEF StepsStayInPlan
  <2> QED
    BY <1>5, <2>1, <2>2, <2>3, <2>4, <2>5 DEF RollbackStep
<1>6. CASE StartupStep \/ CloseFailedRollback \/ Start
           \/ DeactivateAll \/ ClearRetiredSafeMode \/ Crash
  <2>1. CASE Crash
    <3>1. Owns(runtime)'
      <4>1. CASE runtime' = runtime
        BY <4>1, SameOwns
      <4>2. CASE runtime' = [a \in Adapters |->
                               IF a = Gate /\ runtime[a] # Off
                                 THEN Torn(runtime[a].plan) ELSE Off]
        BY <4>2, WholeOwned DEF Owns
      <4> QED
        BY <2>1, <4>1, <4>2, CrashFields
    <3> QED
      BY <2>1, <3>1, CrashFields, SameOwns DEF StepsStayInPlan
  <2>2. CASE RetryAtStart \/ CloseFailedRollback
    BY <1>3, <2>2, RecoveringFields DEF StartupLeaves
  <2>3. CASE Start \/ SettleCommit \/ DeactivateAll
    BY <1>3, <2>3, StartupFields DEF StartupLeaves
  <2>4. CASE BootDecision
    <3>1. UNCHANGED <<runtime, snap>> /\ pc' # "activate"
      BY <2>4, DecisionFields DEF StartupLeaves
    <3>2. pc' = "reconcile" => op'.todo \subseteq AdaptersOf[op'.plan]
      BY <2>4, DecisionFields
    <3> QED
      BY <3>1, <3>2, SameOwns DEF StepsStayInPlan
  <2>5. CASE Reconciled \/ Cleaned
    BY <1>3, <2>5, BootEndFields DEF StartupLeaves
  <2>6. CASE RecordRecovery
    BY <1>3, <2>6, RecordFields
  <2>7. CASE SettleSafeMode \/ ClearRetiredSafeMode
    BY <1>3, <2>7, SafeModeFields
  <2>8. ASSUME NEW a \in Adapters, Reconcile(a)
        PROVE  OInv'
    <3>1. /\ pc = "reconcile" /\ pc' = "reconcile" /\ a \in op.todo
          /\ snap' = snap /\ op'.todo = op.todo \ {a} /\ op'.plan = op.plan
          /\ Brings(a, Whole(op.plan)) \/ Disturbs(a, op.plan)
      BY <2>8, ReconcileFields DEF StartupLeaves, SameJob
    <3>2. op.plan \in Plans /\ a \in AdaptersOf[op.plan]
      BY <3>1 DEF StepsStayInPlan, TInv, WorkNamesPlan, Working
    <3>3. Owns(runtime)'
      BY <3>1, <3>2, StepOwns, WholeOwned
    <3> QED
      BY <3>1, <3>3, SameOwns DEF StepsStayInPlan
  <2>9. ASSUME NEW a \in Adapters, Cleanup(a)
        PROVE  OInv'
    <3>1. /\ pc' = "cleanup" /\ snap' = snap
          /\ runtime' = runtime \/ Brings(a, Off) \/ Disturbs(a, NoPlan)
      BY <2>9, CleanupFields DEF StartupLeaves
    <3>2. Owns(runtime)'
      BY <3>1, SameOwns, StepOwns, WholeOwned
    <3> QED
      BY <3>1, <3>2, SameOwns DEF StepsStayInPlan
  <2> QED
    BY <1>6, <2>1, <2>2, <2>3, <2>4, <2>5, <2>6, <2>7, <2>8, <2>9
       DEF StartupStep, BootDecision
<1> QED
  BY <1>1, <1>2, <1>4, <1>5, <1>6, ApplyOwns DEF Next, Daemon, Demand


-----------------------------------------------------------------------------
(***************************************************************************)
(* A settled journal names the runtime.  Two failed steps are not enough   *)
(* to make the records on disk speak of an outcome while Apply undoes what *)
(* it did: that takes the failure that begins the rollback and the loss of *)
(* both "rolling-back" records.  Up to then the runtime belongs, at every  *)
(* step, to the plan that the files a restart would read name.             *)
(***************************************************************************)
Runs(p) == \A a \in Adapters : runtime[a].plan \in {NoPlan, p}

\* The records say neither that the plan has an outcome nor that its commit
\* can be completed.
Undecided(p) ==
    /\ latest.plan = p
    /\ latest.state \in Terminal => tx[p] # latest
    /\ latest.state = "committing"
          => tx[p].state \notin {"committing", "committed"}
Costs(n) == Undecided(op.plan) \/ faults >= n

\* While the outcome of Apply is open.
ApplyImages ==
    op.kind = "apply" =>
        /\ \A a \in Adapters :
              /\ runtime[a].plan \in {NoPlan, op.prevBoot, op.plan}
              /\ snap[a].plan \in {NoPlan, op.prevBoot}
        /\ \A a \in Adapters \ op.prepared :
              runtime[a].plan \in {NoPlan, op.prevBoot}
        /\ ~op.live => Runs(op.prevBoot)
ApplyOpens ==
    op.kind = "apply" /\ op.say = "applying" =>
        /\ Committed = op.prevBoot
        /\ pc \in Recording \cup {"preserve"} =>
              /\ ~op.live /\ CommittedJournalIsBootable
              /\ latest.state \in Terminal \cup {"none", "applying"}
        /\ pc \in Advancing \ {"preserve"}
              => latest.plan = op.plan /\ latest.state = "applying"
        /\ pc \in {"snapshot", "candidate"} => ~op.live
ApplySwaps ==
    op.kind = "apply" =>
        /\ pc \in {"candidate", "activate"}
              => op.prepared = AdaptersOf[op.plan] \cup PlanAdapters(op.prevBoot)
        /\ pc = "activate" =>
              /\ op.retire \cap AdaptersOf[op.plan] = {}
              /\ \A a \in AdaptersOf[op.plan] \ op.todo :
                    runtime[a] = Whole(op.plan)
              /\ \A a \in op.prepared \ (AdaptersOf[op.plan] \cup op.retire) :
                    runtime[a] = Off
        /\ pc = "config" => Runs(op.plan)
ApplyCommits ==
    op.kind = "apply" /\ op.say \in {"committing", "committed"} =>
        /\ Runs(op.plan) /\ latest.plan = op.plan
        /\ op.say = "committing" => latest.state \in {"applying", "committing"}
        /\ op.say = "committed" => latest.state \in {"committing", "committed"}
        /\ pc \in {"write-boot"} \/ (pc = "write-plan" /\ op.say = "committed")
              => latest.state = "committing"
ApplyUndoes ==
    op.kind = "apply" /\ op.say = "rolling-back" =>
        /\ latest.plan = op.plan
        /\ \/ Undecided(op.plan)
           \/ /\ Runs(op.plan) /\ latest.state \in {"committing", "committed"}
              /\ latest.state = "committed" =>
                    /\ bootPlan = op.plan
                    /\ latestPlan = PlanFile(op.plan, "committed")
        /\ pc = "write-tx" => Costs(1)
        /\ pc = "write-latest" => Costs(2)
        /\ pc \in {"written", "restore", "gate"} => Costs(3)

\* Once it is decided, and in the recovery operations.
OutcomeNamesRuntime ==
    op.kind \in {"apply"} \cup Retried /\ op.say \in Undone =>
        /\ latest.plan = op.plan
        /\ \/ Costs(3)
           \/ latest.state \in {"rolled-back", "canary-failed"} /\ Runs(bootPlan)
        /\ op.say # "rollback-failed" => Runs(bootPlan)
SettleNamesRuntime ==
    op.kind = "settle" =>
        /\ Runs(bootPlan) /\ op.plan = bootPlan /\ latest.plan = bootPlan
        /\ latest.state \in {"committing", "committed"}
RetryImages ==
    op.kind \in Retried =>
        /\ latest.plan = op.plan /\ bootPlan \notin {NoPlan, op.plan}
        /\ op.prepared = PlanAdapters(op.plan)
        /\ pc \in {"restore", "gate"} => latest.state = "rollback-failed"
        /\ \A a \in Adapters :
              /\ runtime[a].plan \in {NoPlan, op.plan, bootPlan}
              /\ snap[a].plan \in {NoPlan, bootPlan}
BootRestoresCommitted ==
    pc = "reconcile" => op.plan = Committed /\ Settled
FailureCosts ==
    op.kind = "apply" /\ op.bad /\ pc \notin {"restore", "gate"} => faults >= 1

DInv == /\ ApplyImages /\ ApplyOpens /\ ApplySwaps /\ ApplyCommits /\ ApplyUndoes
        /\ OutcomeNamesRuntime /\ SettleNamesRuntime /\ RetryImages
        /\ BootRestoresCommitted /\ FailureCosts

\* What the files alone say of the runtime, whatever the daemon was doing.
FilesNameRuntime == Settled \/ Settleable => Runs(Committed)
FailureKeepsImages ==
    latest.state = "rollback-failed" /\ bootPlan \notin {NoPlan, latest.plan} =>
        \A a \in Adapters :
           /\ snap[a].plan \in {NoPlan, bootPlan}
           /\ runtime[a].plan \in {NoPlan, latest.plan, bootPlan}

SInv == FilesNameRuntime /\ FailureKeepsImages /\ CommittedJournalIsBootable


LEMMA NoPlanOutside == NoPlan \notin Plans
BY PlanAssumption

\* No step gives a failure back.
LEMMA FaultsGrow ==
    ASSUME TInv, Next
    PROVE  faults' \in {faults, faults + 1}
<1> op \in Locals /\ runtime \in Runtimes
    /\ cfg \in [applied : Names, safe : BOOLEAN]
  BY DEF TInv, TypeOK
<1>1. pc \in Working => op.plan \in Plans
  BY DEF TInv, WorkNamesPlan
<1>2. CASE Publication
  BY <1>2, TxOutcomes, LatestOutcomes, PlanWriteFields, BootWriteFields,
     WrittenFields DEF Publication
<1>3. CASE ApplyStep
  <2>1. CASE Preserve
    BY <2>1, PreserveFields
  <2>2. CASE Snapshot
    BY <1>1, <2>2, SnapshotFields DEF Snapshot, Working, Undoes, Refuses, Gives
  <2>3. CASE Candidate
    BY <1>1, <2>3, CandidateFields
       DEF Candidate, Working, Undoes, Refuses, Gives
  <2>4. CASE HealthAndCommit
    BY <1>1, <2>4, HealthFields DEF HealthAndCommit, Working, Undoes, Gives
  <2>5. CASE CommitConfig
    BY <1>1, <2>5, ConfigFields DEF CommitConfig, Working
  <2>6. ASSUME NEW a \in Adapters, Activate(a)
        PROVE  faults' \in {faults, faults + 1}
    BY <1>1, <2>6, ActivateFields
       DEF Activate, Working, Undoes, Refuses, Gives
  <2>7. ASSUME NEW a \in Adapters, DeactivateRetiring(a)
        PROVE  faults' \in {faults, faults + 1}
    BY <1>1, <2>7, RetireFields DEF DeactivateRetiring, Working, Undoes, Gives
  <2> QED
    BY <1>3, <2>1, <2>2, <2>3, <2>4, <2>5, <2>6, <2>7 DEF ApplyStep
<1>4. CASE RollbackStep
  <2>1. Gate \in op.prepared => Gate \in Adapters
    BY DEF Locals
  <2> QED
    BY <1>4, <2>1, RestoreFields, UndoFields, BootRestoreFields, VerifyFields,
       GateFields DEF RollbackStep
<1>5. CASE StartupStep
  <2>1. CASE RetryAtStart \/ SettleCommit
    BY <2>1, RecoveringFields, StartupFields
  <2>2. CASE BootDecision
    BY <2>2, DecisionFields
  <2>3. CASE Reconciled \/ Cleaned \/ RecordRecovery \/ SettleSafeMode
    BY <2>3, BootEndFields, RecordFields, SafeModeFields
  <2>4. ASSUME NEW a \in Adapters, Reconcile(a) \/ Cleanup(a)
        PROVE  faults' \in {faults, faults + 1}
    BY <2>4, ReconcileFields, CleanupFields
  <2> QED
    BY <1>5, <2>1, <2>2, <2>3, <2>4 DEF StartupStep, BootDecision
<1>6. CASE Demand
  BY <1>6, StartFields, RecoveringFields, StartupFields, SafeModeFields,
     CrashFields DEF Demand
<1> QED
  BY <1>2, <1>3, <1>4, <1>5, <1>6 DEF Next, Daemon

\* The committed plan is the boot plan wherever it matters.
LEMMA BootPlanRuns ==
    /\ Runs(bootPlan) => Runs(Committed)
    /\ bootPlan # NoPlan => Committed = bootPlan
BY DEF Runs, Committed

LEMMA UndecidedStays ==
    ASSUME NEW p \in Plans, Undecided(p)
    PROVE  ~Settled /\ ~Settleable
BY NoPlanOutside DEF Undecided, Settled, Settleable, NoRecord, Record

\* What an operation at work guarantees of the files.
LEMMA ApplyNamesRuntime ==
    ASSUME TInv, KInv, UInv, DInv, faults \in 0 .. 2, op.kind = "apply"
    PROVE  SInv
<1> USE DEF DInv, SInv
<1>1. op.plan \in Plans /\ pc \in Places
  BY DEF TInv, TypeOK, WorkNamesPlan, Working, Places, KInv, RestIsIdle,
         Resting, StartupRecovers, Idle
<1>2. bootPlan # NoPlan => Committed = bootPlan
  BY BootPlanRuns
<1>3. CASE op.say = "applying"
  <2>1. CASE pc \in Recording \cup {"preserve"}
    <3>1. ~Settleable /\ latest.state # "rollback-failed"
          /\ CommittedJournalIsBootable
      BY <1>3, <2>1 DEF ApplyOpens, Settleable, Terminal
    <3>2. Runs(Committed)
      BY <1>3, <2>1 DEF ApplyOpens, ApplyImages
    <3> QED
      BY <3>1, <3>2 DEF FilesNameRuntime, FailureKeepsImages
  <2>2. CASE pc \in Advancing \ {"preserve"}
    <3>1. latest.plan = op.plan /\ latest.state = "applying"
      BY <1>3, <2>2 DEF ApplyOpens
    <3>2. ~Settled /\ ~Settleable
      BY <3>1 DEF Settled, Settleable, Terminal, NoRecord, Record
    <3> QED
      BY <3>1, <3>2 DEF FilesNameRuntime, FailureKeepsImages,
                        CommittedJournalIsBootable
  <2> QED
    BY <1>1, <1>3, <2>1, <2>2
       DEF KInv, RestIsIdle, RestoreUndoes, PlanIsPublished, RecordIsPublished,
           StartupRecovers, Places, Resting, Recording, Advancing, Idle, Undone
<1>4. CASE op.say \in {"committing", "committed"}
  <2>1. /\ Runs(op.plan) /\ latest.plan = op.plan
        /\ latest.state \in {"applying", "committing", "committed"}
    BY <1>4 DEF ApplyCommits
  <2>2. pc \in Recording \cup {"write-plan", "write-boot"}
    BY <1>1, <1>4
       DEF KInv, RestIsIdle, AdvanceApplies, RestoreUndoes, StartupRecovers,
           Places, Resting, Recording, Advancing, Idle
  <2>3. Settleable => bootPlan = op.plan
    BY <2>1 DEF Settleable
  <2>4. Settled => /\ op.say = "committed" /\ pc \in Recording
                   /\ latest.state = "committed"
    BY <1>4, <2>1, <2>2
       DEF Settled, NoRecord, Record, Terminal, ApplyCommits, KInv,
           PlanIsPublished
  <2>5. Settled => bootPlan = op.plan /\ latestPlan = PlanFile(op.plan, "committed")
    BY <2>4 DEF UInv, OutcomeIsPublished
  <2>6. op.plan # NoPlan
    BY <1>1, NoPlanOutside
  <2> QED
    BY <1>2, <2>1, <2>3, <2>5, <2>6
       DEF FilesNameRuntime, FailureKeepsImages, CommittedJournalIsBootable
<1>5. CASE op.say = "rolling-back" \/ op.say \in Undone
  <2>1. /\ latest.plan = op.plan
        /\ \/ Undecided(op.plan)
           \/ /\ Runs(op.plan) /\ latest.state \in {"committing", "committed"}
              /\ latest.state = "committed" =>
                    /\ bootPlan = op.plan
                    /\ latestPlan = PlanFile(op.plan, "committed")
           \/ latest.state \in {"rolled-back", "canary-failed"} /\ Runs(bootPlan)
    BY <1>5 DEF ApplyUndoes, OutcomeNamesRuntime, Costs
  <2>2. op.plan # NoPlan
    BY <1>1, NoPlanOutside
  <2>3. FilesNameRuntime /\ CommittedJournalIsBootable
    <3>1. CASE Undecided(op.plan)
      BY <1>1, <3>1, UndecidedStays
         DEF FilesNameRuntime, CommittedJournalIsBootable
    <3>2. CASE /\ Runs(op.plan) /\ latest.state \in {"committing", "committed"}
               /\ latest.state = "committed" =>
                     /\ bootPlan = op.plan
                     /\ latestPlan = PlanFile(op.plan, "committed")
      <4>1. Settled => latest.state = "committed"
        BY <3>2 DEF Settled, Terminal, NoRecord, Record
      <4>2. Settleable => bootPlan = op.plan
        BY <2>1 DEF Settleable
      <4> QED
        BY <1>2, <2>1, <2>2, <3>2, <4>1, <4>2
           DEF FilesNameRuntime, CommittedJournalIsBootable
    <3>3. CASE latest.state \in {"rolled-back", "canary-failed"} /\ Runs(bootPlan)
      BY <3>3, BootPlanRuns DEF FilesNameRuntime, CommittedJournalIsBootable
    <3> QED
      BY <2>1, <3>1, <3>2, <3>3
  <2>4. FailureKeepsImages
    <3>1. pc # "preserve"
      BY <1>5 DEF KInv, AdvanceApplies, Advancing, Undone
    <3>2. bootPlan \in {op.prevBoot, op.plan}
      BY <3>1 DEF UInv, BootPlanRemembered
    <3> QED
      BY <2>1, <3>2 DEF FailureKeepsImages, ApplyImages
  <2> QED
    BY <2>3, <2>4
<1>6. pc \notin Resting \cup {"reconcile", "record", "settle", "cleanup"}
  BY DEF KInv, RestIsIdle, StartupRecovers, Idle
<1>7. pc \in Advancing \cup Recording
             \cup {"restore", "gate", "write-plan", "write-boot"}
  BY <1>1, <1>6 DEF Places, Resting, Advancing, Recording
<1>8. op.say \in Undone \cup {"applying", "committing", "committed",
                             "rolling-back"}
  BY <1>7 DEF KInv, AdvanceApplies, RestoreUndoes, PlanIsPublished,
              RecordIsPublished, Retried
<1> QED
  BY <1>3, <1>4, <1>5, <1>8

LEMMA RecoveryNamesRuntime ==
    ASSUME TInv, KInv, UInv, DInv, faults \in 0 .. 2,
           op.kind \in Retried \cup {"settle"}
    PROVE  SInv
<1> USE DEF DInv, SInv
<1>1. pc \in Places
  BY DEF TInv, TypeOK
<1>2. pc \in Recording \cup {"write-plan", "restore", "gate"}
  BY <1>1 DEF KInv, RestIsIdle, AdvanceApplies, PlanIsPublished,
              StartupRecovers, Places, Resting, Recording, Advancing, Idle,
              Retried
<1>3. op.plan \in Plans /\ op.plan # NoPlan
  BY <1>2, NoPlanOutside DEF TInv, WorkNamesPlan, Working, Recording
<1>4. bootPlan # NoPlan => Committed = bootPlan
  BY BootPlanRuns
<1>5. CASE op.kind = "settle"
  <2>1. /\ Runs(bootPlan) /\ op.plan = bootPlan /\ latest.plan = bootPlan
        /\ latest.state \in {"committing", "committed"}
    BY <1>5 DEF SettleNamesRuntime
  <2>2. pc \in Recording /\ op.say = "committed"
    BY <1>2, <1>5 DEF KInv, RecordIsPublished, PlanIsPublished, RestoreUndoes,
                      Retried
  <2>3. latestPlan = PlanFile(op.plan, "committed")
    BY <2>2 DEF UInv, OutcomeIsPublished
  <2> QED
    BY <1>3, <1>4, <2>1, <2>3
       DEF FilesNameRuntime, FailureKeepsImages, CommittedJournalIsBootable
<1>6. CASE op.kind \in Retried
  <2>1. /\ latest.plan = op.plan /\ bootPlan \notin {NoPlan, op.plan}
        /\ \A a \in Adapters :
              /\ runtime[a].plan \in {NoPlan, op.plan, bootPlan}
              /\ snap[a].plan \in {NoPlan, bootPlan}
    BY <1>6 DEF RetryImages
  <2>2. \/ Undecided(op.plan)
        \/ latest.state \in {"rolled-back", "canary-failed"} /\ Runs(bootPlan)
    <3>1. CASE pc \in {"restore", "gate"}
      BY <1>6, <2>1, <3>1 DEF RetryImages, Undecided, Terminal
    <3>2. CASE pc \notin {"restore", "gate"}
      <4>1. op.say \in Undone
        BY <1>2, <1>6, <3>2
           DEF KInv, PlanIsPublished, RecordIsPublished, Retried
      <4> QED
        BY <1>6, <4>1 DEF OutcomeNamesRuntime, Costs
    <3> QED
      BY <3>1, <3>2
  <2>3. FilesNameRuntime /\ CommittedJournalIsBootable
    BY <1>3, <2>2, UndecidedStays, BootPlanRuns
       DEF FilesNameRuntime, CommittedJournalIsBootable
  <2> QED
    BY <2>1, <2>3 DEF FailureKeepsImages
<1> QED
  BY <1>5, <1>6

LEMMA WorkNamesRuntime ==
    /\ TInv /\ KInv /\ UInv /\ DInv /\ faults \in 0 .. 2
    /\ op.kind \notin {"none", "boot", "deactivate"}
    => SInv
BY ApplyNamesRuntime, RecoveryNamesRuntime DEF TInv, TypeOK, Locals, Kinds, Retried

\* Nothing is expected of what no operation has begun.
LEMMA RestExpects ==
    ASSUME op'.kind \notin {"apply", "settle"} \cup Retried, pc' # "reconcile"
    PROVE  DInv'
BY DEF DInv, ApplyImages, ApplyOpens, ApplySwaps, ApplyCommits, ApplyUndoes,
       OutcomeNamesRuntime, SettleNamesRuntime, RetryImages,
       BootRestoresCommitted, FailureCosts

\* The files keep their meaning while adapters are only stopped.
LEMMA StopsKeepNames ==
    ASSUME SInv, UNCHANGED <<snap, journals, plans>>,
           \A a \in Adapters : runtime'[a].plan \in {runtime[a].plan, NoPlan}
    PROVE  SInv'
<1>1. UNCHANGED <<Settled, Settleable, Committed>>
  BY DEF Settled, Settleable, Committed, journals, plans
<1>2. Runs(Committed) => Runs(Committed)'
  BY <1>1 DEF Runs
<1>3. FailureKeepsImages'
  BY DEF SInv, FailureKeepsImages, journals, plans
<1> QED
  BY <1>1, <1>2, <1>3
     DEF SInv, FilesNameRuntime, CommittedJournalIsBootable, journals, plans

LEMMA SameNames ==
    ASSUME SInv, UNCHANGED <<runtime, snap, journals, plans>>
    PROVE  SInv'
BY StopsKeepNames


(***************************************************************************)
(* The writes of the two records.                                          *)
(***************************************************************************)
LEMMA WriteShares ==
    ASSUME TInv, KInv, WriteTx \/ WriteLatest
    PROVE  /\ op \in Locals /\ op.plan \in Plans /\ op.plan # NoPlan
           /\ pc \in {"write-tx", "write-latest"}
           /\ pc' \in {"write-latest", "written"}
           /\ op'.say = op.say /\ op'.failed = op.failed
           /\ op'.kind = op.kind /\ op'.plan = op.plan
           /\ op'.prevBoot = op.prevBoot /\ op'.prepared = op.prepared
           /\ op'.live = op.live
           /\ UNCHANGED <<runtime, snap, latestPlan, bootPlan>>
           /\ Committed' = Committed
           /\ \A p : Runs(p)' = Runs(p)
           /\ Said.plan = op.plan /\ Said.state = op.say
<1>1. /\ op \in Locals /\ op.plan \in Plans
      /\ pc \in {"write-tx", "write-latest"}
  BY DEF TInv, TypeOK, WorkNamesPlan, Working, WriteTx, WriteLatest
<1>2. UNCHANGED <<runtime, snap, latestPlan, bootPlan>>
  BY <1>1, WriteFields DEF plans
<1>3. Committed' = Committed /\ \A p : Runs(p)' = Runs(p)
  BY <1>2 DEF Committed, Runs
<1>4. Said.plan = op.plan /\ Said.state = op.say
  BY DEF Said, Record
<1> QED
  BY <1>1, <1>2, <1>3, <1>4, NoPlanOutside, WriteFields DEF SameJob, SameWork

LEMMA TxWriteNames ==
    ASSUME TInv, TInv', KInv, UInv, DInv, faults \in Nat, faults' <= 2, WriteTx
    PROVE  DInv'
<1> USE WriteShares DEF DInv
<1>0. PICK p \in Plans : p = op.plan
  OBVIOUS
<1>1. /\ pc = "write-tx" /\ pc' = "write-latest" /\ latest' = latest
  BY DEF WriteTx
<1>2. PICK r \in {tx[p], Said} :
        /\ tx' = [tx EXCEPT ![p] = r]
        /\ \/ r = Said /\ faults' = faults /\ op'.bad = op.bad
           \/ faults' = faults + 1 /\ op'.bad
  BY <1>0, TxOutcomes, Zenon
<1>3. tx'[p] = r
  BY <1>0, <1>2 DEF TInv, TypeOK
<1>4. \A b \in Plans \ {p} : tx'[b] = tx[b]
  BY <1>0, <1>2 DEF TInv, TypeOK
<1>5. ApplyImages'
  BY DEF ApplyImages
<1>6. ApplyOpens'
  <2> SUFFICES ASSUME op.kind = "apply", op.say = "applying"
               PROVE  CommittedJournalIsBootable'
    BY <1>1 DEF ApplyOpens, Recording, Advancing
  <2>1. CommittedJournalIsBootable
    BY <1>1 DEF ApplyOpens, Recording
  <2> SUFFICES ASSUME Settled', latest.state = "committed"
               PROVE  Settled
    BY <1>0, <1>1, <2>1 DEF CommittedJournalIsBootable
  <2>2. latest.plan \in Plans /\ tx'[latest.plan] = latest
    BY <1>1 DEF Settled, NoRecord, Record, TInv, RecordNamesPlan
  <2>3. tx'[latest.plan] # Said
    BY <2>2
  <2>4. tx[latest.plan] = latest
    BY <1>0, <1>2, <1>3, <1>4, <2>2, <2>3
  <2> QED
    BY <2>4 DEF Settled, Terminal
<1>7. ApplySwaps' /\ BootRestoresCommitted'
  BY <1>1 DEF ApplySwaps, BootRestoresCommitted
<1>8. ApplyCommits'
  BY <1>1 DEF ApplyCommits
<1>9. ApplyUndoes'
  <2> SUFFICES ASSUME op.kind = "apply", op.say = "rolling-back"
               PROVE  ApplyUndoes'
    BY DEF ApplyUndoes
  <2>1. CASE r = Said
    <3>1. Undecided(p)'
      BY <1>0, <1>1, <1>3, <2>1 DEF Undecided, ApplyUndoes, Terminal
    <3> QED
      BY <1>0, <1>1, <3>1 DEF ApplyUndoes, Costs, Undecided
  <2>2. CASE r = tx[p] /\ faults' = faults + 1
    <3>1. Undecided(p)' = Undecided(p)
      BY <1>0, <1>1, <1>3, <2>2 DEF Undecided
    <3>2. Costs(1) => Costs(2)'
      BY <1>0, <2>2, <3>1 DEF Costs
    <3> QED
      BY <1>0, <1>1, <3>1, <3>2 DEF ApplyUndoes
  <2> QED
    BY <1>0, <1>2, <2>1, <2>2
<1>10. OutcomeNamesRuntime'
  <2> SUFFICES ASSUME op.kind \in {"apply"} \cup Retried, op.say \in Undone
               PROVE  OutcomeNamesRuntime'
    BY DEF OutcomeNamesRuntime
  <2>1. /\ latest.plan = p
        /\ \/ Undecided(p)
           \/ /\ latest.state \in {"rolled-back", "canary-failed"}
              /\ Runs(bootPlan)
        /\ op.say # "rollback-failed" => Runs(bootPlan)
    BY <1>0, <1>2 DEF OutcomeNamesRuntime, Costs
  <2>2. \/ Undecided(p)'
        \/ latest.state \in {"rolled-back", "canary-failed"} /\ Runs(bootPlan)
    <3>1. CASE r = Said
      <4>1. Said = latest
            => \/ op.say = "rollback-failed"
               \/ /\ latest.state \in {"rolled-back", "canary-failed"}
                  /\ Runs(bootPlan)
        BY <1>0, <2>1 DEF Undone
      <4> QED
        BY <1>0, <1>1, <1>3, <2>1, <3>1 DEF Undecided, Undone, Terminal
    <3>2. CASE r = tx[p]
      BY <1>0, <1>1, <1>3, <2>1, <3>2 DEF Undecided
    <3> QED
      BY <3>1, <3>2
  <2> QED
    BY <1>0, <1>1, <2>1, <2>2 DEF OutcomeNamesRuntime, Costs
<1>11. SettleNamesRuntime'
  BY <1>1 DEF SettleNamesRuntime
<1>12. RetryImages'
  BY <1>1 DEF RetryImages
<1>13. FailureCosts'
  <2>1. op'.bad => op.bad \/ faults' = faults + 1
    BY <1>2, Zenon
  <2>2. faults' = faults \/ faults' = faults + 1
    BY <1>2
  <2> QED
    BY <1>1, <2>1, <2>2 DEF FailureCosts
<1> QED
  BY <1>5, <1>6, <1>7, <1>8, <1>9, <1>10, <1>11, <1>12, <1>13

LEMMA LatestWriteNames ==
    ASSUME TInv, TInv', KInv, UInv, DInv, faults \in Nat, faults' <= 2,
           WriteLatest
    PROVE  DInv'
<1> USE WriteShares DEF DInv
<1>0. PICK p \in Plans : p = op.plan
  OBVIOUS
<1>1. /\ pc = "write-latest" /\ pc' = "written" /\ tx' = tx
  BY DEF WriteLatest
<1>2. /\ latest' \in {latest, Said}
      /\ \/ latest' = Said /\ faults' = faults /\ op'.bad = op.bad
         \/ faults' = faults + 1 /\ op'.bad
  BY LatestOutcomes
<1>5. ApplyImages'
  BY DEF ApplyImages
<1>6. ApplyOpens'
  <2> SUFFICES ASSUME op.kind = "apply", op.say = "applying"
               PROVE  CommittedJournalIsBootable'
    BY <1>0, <1>1, <1>2 DEF ApplyOpens, Recording, Advancing
  <2>1. CommittedJournalIsBootable
    BY <1>1 DEF ApplyOpens, Recording
  <2>2. CASE latest' = latest
    BY <1>0, <1>1, <2>1, <2>2 DEF CommittedJournalIsBootable, Settled
  <2>3. CASE latest' = Said
    BY <2>3 DEF CommittedJournalIsBootable
  <2> QED
    BY <1>0, <1>2, <2>2, <2>3
<1>7. ApplySwaps' /\ BootRestoresCommitted'
  BY <1>1 DEF ApplySwaps, BootRestoresCommitted
<1>8. ApplyCommits'
  BY <1>0, <1>1, <1>2 DEF ApplyCommits
<1>9. ApplyUndoes'
  <2> SUFFICES ASSUME op.kind = "apply", op.say = "rolling-back"
               PROVE  ApplyUndoes'
    BY DEF ApplyUndoes
  <2>1. CASE latest' = Said
    <3>1. Undecided(p)'
      BY <1>0, <2>1 DEF Undecided, Terminal
    <3> QED
      BY <1>0, <1>1, <2>1, <3>1 DEF ApplyUndoes, Costs
  <2>2. CASE latest' = latest /\ faults' = faults + 1
    <3>1. Undecided(p)' = Undecided(p)
      BY <1>0, <1>1, <2>2 DEF Undecided
    <3>2. Costs(2) => Costs(3)'
      BY <1>0, <2>2, <3>1 DEF Costs
    <3> QED
      BY <1>0, <1>1, <2>2, <3>1, <3>2 DEF ApplyUndoes
  <2> QED
    BY <1>0, <1>2, <2>1, <2>2
<1>10. OutcomeNamesRuntime'
  <2> SUFFICES ASSUME op.kind \in {"apply"} \cup Retried, op.say \in Undone
               PROVE  OutcomeNamesRuntime'
    BY DEF OutcomeNamesRuntime
  <2>1. /\ latest.plan = p
        /\ \/ Undecided(p)
           \/ /\ latest.state \in {"rolled-back", "canary-failed"}
              /\ Runs(bootPlan)
        /\ op.say # "rollback-failed" => Runs(bootPlan)
    BY <1>0, <1>2 DEF OutcomeNamesRuntime, Costs
  <2>2. CASE latest' = Said
    BY <1>0, <1>1, <2>1, <2>2
       DEF OutcomeNamesRuntime, Costs, Undecided, Undone, Terminal
  <2>3. CASE latest' = latest
    BY <1>0, <1>1, <2>1, <2>3 DEF OutcomeNamesRuntime, Costs, Undecided
  <2> QED
    BY <1>0, <1>2, <2>2, <2>3
<1>11. SettleNamesRuntime'
  <2>1. op.kind = "settle" => op.say = "committed"
    BY <1>1 DEF KInv, RecordIsPublished, Recording, Retried
  <2> QED
    BY <1>0, <1>1, <1>2, <2>1 DEF SettleNamesRuntime
<1>12. RetryImages'
  BY <1>0, <1>1, <1>2 DEF RetryImages
<1>13. FailureCosts'
  <2>1. op'.bad => op.bad \/ faults' = faults + 1
    BY <1>2, Zenon
  <2>2. faults' = faults \/ faults' = faults + 1
    BY <1>2
  <2> QED
    BY <1>1, <2>1, <2>2 DEF FailureCosts
<1> QED
  BY <1>5, <1>6, <1>7, <1>8, <1>9, <1>10, <1>11, <1>12, <1>13


(***************************************************************************)
(* The writes of the plan files, and what is decided once an outcome is    *)
(* written.                                                                *)
(***************************************************************************)
LEMMA RollbackBeginsNamed ==
    ASSUME op.kind = "apply", SameJob(op, op'), op.plan \in Plans,
           pc' = "write-tx", op'.say = "rolling-back", op'.bad = FALSE,
           ApplyImages', latest'.plan = op.plan, faults' \in Nat,
           \/ Undecided(op.plan)'
           \/ /\ Runs(op.plan)' /\ faults' >= 1
              /\ latest'.state \in {"committing", "committed"}
              /\ latest'.state = "committed" =>
                    /\ bootPlan' = op.plan
                    /\ latestPlan' = PlanFile(op.plan, "committed")
    PROVE  DInv'
BY DEF DInv, ApplyOpens, ApplySwaps, ApplyCommits, ApplyUndoes,
       OutcomeNamesRuntime, SettleNamesRuntime, RetryImages, Costs, SameJob,
       BootRestoresCommitted, FailureCosts, Retried, Undone

\* A commit that is not completed, where its records stand.
LEMMA CommitGivenUp ==
    ASSUME DInv, op.kind = "apply", op.say \in {"committing", "committed"},
           op.plan \in Plans, faults' \in Nat, faults' >= 1, RollsBack(op),
           UNCHANGED <<runtime, snap, journals>>,
           latest.state = "committed" =>
              /\ bootPlan' = op.plan
              /\ latestPlan' = PlanFile(op.plan, "committed")
    PROVE  DInv'
<1>1. /\ Runs(op.plan) /\ latest.plan = op.plan
      /\ latest.state \in {"applying", "committing", "committed"}
  BY DEF DInv, ApplyCommits
<1>2. /\ SameJob(op, op') /\ pc' = "write-tx" /\ op'.say = "rolling-back"
      /\ op'.bad = FALSE /\ op'.prepared = op.prepared /\ op'.live = op.live
  BY DEF RollsBack
<1>3. ApplyImages'
  BY <1>2 DEF DInv, ApplyImages, SameJob, Runs
<1>4. latest' = latest /\ Runs(op.plan)'
  BY <1>1, <1>2 DEF journals, Runs, SameJob
<1>5. latest.state = "applying" => Undecided(op.plan)'
  BY <1>1, <1>2, <1>4 DEF Undecided, Terminal, SameJob
<1> QED
  BY <1>1, <1>2, <1>3, <1>4, <1>5, RollbackBeginsNamed

LEMMA PlanWriteNames ==
    ASSUME TInv, TInv', KInv, UInv, DInv, faults \in Nat, faults' <= 2,
           WritePlan
    PROVE  DInv'
<1>1. op \in Locals /\ op.plan \in Plans /\ faults' \in Nat
  BY DEF TInv, TypeOK, WritePlan
<1>2. pc = "write-plan" /\ UNCHANGED <<runtime, snap, journals, bootPlan>>
  BY <1>1, PlanWriteFields
<1>3. \A p : Runs(p)' = Runs(p)
  BY <1>2 DEF Runs
<1>4. latest' = latest /\ tx' = tx
  BY <1>2 DEF journals
<1>5. CASE op.say # "committed"
  <2>1. /\ pc' = "write-tx" /\ op'.say = op.say
        /\ SameJob(op, op') /\ SameWork(op, op')
        /\ \/ ~op'.bad
           \/ faults' = faults + 1
    BY <1>1, <1>5, PlanWriteFields
  <2>2. op.kind \in {"apply"} \cup Retried /\ op.say \in Undone
    BY <1>2, <1>5 DEF KInv, PlanIsPublished
  <2>3. ApplyImages'
    BY <1>2, <1>3, <2>1 DEF DInv, ApplyImages, SameJob, SameWork
  <2>4. ApplyOpens' /\ ApplySwaps' /\ ApplyCommits' /\ ApplyUndoes'
    BY <2>1, <2>2 DEF ApplyOpens, ApplySwaps, ApplyCommits, ApplyUndoes, Undone
  <2>5. OutcomeNamesRuntime'
    <3>1. faults <= 2
      BY <1>1, <1>5, PlanWriteFields
    <3>2. /\ latest.plan = op.plan
          /\ \/ Undecided(op.plan)
             \/ /\ latest.state \in {"rolled-back", "canary-failed"}
                /\ Runs(bootPlan)
          /\ op.say # "rollback-failed" => Runs(bootPlan)
      BY <2>2, <3>1 DEF DInv, OutcomeNamesRuntime, Costs
    <3>3. Undecided(op.plan) => Undecided(op.plan)'
      BY <1>4, <2>1 DEF Undecided, SameJob
    <3> QED
      BY <1>2, <1>3, <1>4, <2>1, <3>2, <3>3
         DEF OutcomeNamesRuntime, Costs, SameJob
  <2>6. SettleNamesRuntime' /\ BootRestoresCommitted'
    BY <2>1, <2>2 DEF SettleNamesRuntime, BootRestoresCommitted, SameJob,
                      Retried
  <2>7. RetryImages'
    BY <1>2, <1>4, <2>1 DEF DInv, RetryImages, SameJob, SameWork
  <2>8. FailureCosts'
    BY <2>1 DEF FailureCosts
  <2> QED
    BY <2>3, <2>4, <2>5, <2>6, <2>7, <2>8 DEF DInv
<1>6. CASE op.say = "committed"
  <2>1. op.kind = "apply"
    BY <1>2, <1>6 DEF KInv, PlanIsPublished, Undone
  <2>2. /\ Runs(op.plan) /\ latest.plan = op.plan
        /\ latest.state = "committing"
    BY <1>2, <1>6, <2>1 DEF DInv, ApplyCommits
  <2>3. CASE RollsBack(op) /\ faults' = faults + 1
    BY <1>1, <1>2, <1>6, <2>1, <2>2, <2>3, CommitGivenUp
  <2>4. CASE pc' = "write-boot" /\ op' = op /\ faults' = faults
    <3>1. ApplyImages'
      BY <1>2, <1>3, <2>4 DEF DInv, ApplyImages
    <3>2. ApplyCommits'
      BY <1>3, <1>4, <2>2, <2>4, <1>6 DEF ApplyCommits
    <3> QED
      BY <1>2, <1>6, <2>1, <2>4, <3>1, <3>2
         DEF DInv, ApplyOpens, ApplySwaps, ApplyUndoes, OutcomeNamesRuntime,
             SettleNamesRuntime, RetryImages, BootRestoresCommitted,
             FailureCosts, Undone, Retried
  <2> QED
    BY <1>1, <1>6, <2>3, <2>4, PlanWriteFields
<1> QED
  BY <1>5, <1>6

LEMMA BootWriteNames ==
    ASSUME TInv, TInv', KInv, UInv, DInv, faults \in Nat, faults' <= 2,
           WriteBoot
    PROVE  DInv'
<1>1. op \in Locals /\ op.plan \in Plans /\ faults' \in Nat
  BY DEF TInv, TypeOK, WriteBoot
<1>2. pc = "write-boot" /\ UNCHANGED <<runtime, snap, journals, latestPlan>>
  BY <1>1, BootWriteFields
<1>3. \A p : Runs(p)' = Runs(p)
  BY <1>2 DEF Runs
<1>4. latest' = latest /\ tx' = tx
  BY <1>2 DEF journals
<1>5. op.kind = "apply" /\ op.say = "committed"
  BY <1>2 DEF KInv, PlanIsPublished
<1>6. Runs(op.plan) /\ latest.plan = op.plan /\ latest.state = "committing"
  BY <1>2, <1>5 DEF DInv, ApplyCommits
<1>7. CASE RollsBack(op) /\ faults' = faults + 1
  BY <1>1, <1>2, <1>5, <1>6, <1>7, CommitGivenUp
<1>8. CASE pc' = "write-tx" /\ op' = op /\ faults' = faults
  <2>1. ApplyImages'
    BY <1>2, <1>3, <1>8 DEF DInv, ApplyImages
  <2>2. ApplyCommits'
    BY <1>3, <1>4, <1>5, <1>6, <1>8 DEF ApplyCommits
  <2> QED
    BY <1>2, <1>5, <1>8, <2>1, <2>2
       DEF DInv, ApplyOpens, ApplySwaps, ApplyUndoes, OutcomeNamesRuntime,
           SettleNamesRuntime, RetryImages, BootRestoresCommitted,
           FailureCosts, Undone, Retried
<1> QED
  BY <1>1, <1>7, <1>8, BootWriteFields

LEMMA WrittenNames ==
    ASSUME TInv, TInv', JInv, KInv, UInv, DInv, faults \in Nat, faults' <= 2,
           Begun \/ Committing \/ CommittedOrNot \/ Rejected \/ RollingBack
           \/ RolledBackOrNot
    PROVE  DInv'
<1>0. op \in Locals /\ pc = "written" /\ faults' \in Nat
  <2>1. op \in Locals /\ faults' \in Nat
    BY DEF TInv, TypeOK
  <2>2. pc = "written"
    BY DEF Begun, Committing, CommittedOrNot, Rejected, RollingBack,
           RolledBackOrNot
  <2> QED
    BY <2>1, <2>2
<1>1. op.plan \in Plans /\ op.plan # NoPlan /\ op \in Locals /\ faults' \in Nat
  BY <1>0, NoPlanOutside DEF TInv, WorkNamesPlan, Working
<1>2. /\ pc = "written"
      /\ UNCHANGED <<runtime, snap, journals, latestPlan, bootPlan>>
  BY <1>1, WrittenFields DEF plans
<1>3. /\ Committed' = Committed /\ latest' = latest /\ tx' = tx
      /\ \A p : Runs(p)' = Runs(p)
  BY <1>2 DEF Runs, Committed, journals
<1>4. ~op.bad => latest = Said
  BY <1>2 DEF JInv, BothHoldSaid
<1>5. Said.plan = op.plan /\ Said.state = op.say
  BY DEF Said, Record
<1>6. op.bad /\ op.kind = "apply" => faults >= 1
  BY <1>2 DEF DInv, FailureCosts
<1>7. CASE \E fence : Return(fence)
  <2>1. op' = Idle /\ pc' # "reconcile"
    BY <1>7, ReturnFields DEF Resting
  <2> QED
    BY <2>1, RestExpects DEF Idle, Retried
<1>8. CASE /\ op.say = "applying" /\ ~op.bad /\ op' = op /\ pc' = "snapshot"
  <2>1. op.kind = "apply"
    BY <1>2, <1>8 DEF KInv, RecordIsPublished, Recording, Undone
  <2>2. latest.plan = op.plan /\ latest.state = "applying"
    BY <1>4, <1>5, <1>8
  <2>3. ApplyImages'
    BY <1>2, <1>3, <1>8 DEF DInv, ApplyImages
  <2>4. ApplyOpens'
    BY <1>2, <1>3, <1>8, <2>1, <2>2 DEF DInv, ApplyOpens, Recording
  <2> QED
    BY <1>8, <2>1, <2>3, <2>4
       DEF DInv, ApplySwaps, ApplyCommits, ApplyUndoes, OutcomeNamesRuntime,
           SettleNamesRuntime, RetryImages, BootRestoresCommitted,
           FailureCosts, Undone, Retried
<1>9. CASE /\ op.say = "committing" /\ ~op.bad /\ pc' = "write-plan"
           /\ op'.say = "committed" /\ ~op'.bad
           /\ SameJob(op, op') /\ SameWork(op, op')
  <2>1. op.kind = "apply"
    BY <1>2, <1>9 DEF KInv, RecordIsPublished, Recording, Undone
  <2>2. latest.plan = op.plan /\ latest.state = "committing"
    BY <1>4, <1>5, <1>9
  <2>3. ApplyImages'
    BY <1>2, <1>3, <1>9 DEF DInv, ApplyImages, SameJob, SameWork
  <2>4. ApplyCommits'
    BY <1>3, <1>9, <2>1, <2>2 DEF DInv, ApplyCommits, SameJob
  <2> QED
    BY <1>9, <2>1, <2>3, <2>4
       DEF DInv, ApplyOpens, ApplySwaps, ApplyUndoes, OutcomeNamesRuntime,
           SettleNamesRuntime, RetryImages, BootRestoresCommitted,
           FailureCosts, Undone, Retried, SameJob
<1>10. CASE /\ op.say \in {"committing", "committed"} /\ op.kind = "apply"
            /\ RollsBack(op) /\ faults' >= 1
  <2>1. latest.state = "committed" =>
           /\ bootPlan' = op.plan
           /\ latestPlan' = PlanFile(op.plan, "committed")
    <3>1. latest.state = "committed" => op.say = "committed"
      BY <1>10 DEF DInv, ApplyCommits
    <3>2. op.say = "committed" =>
             latestPlan = PlanFile(op.plan, "committed") /\ bootPlan = op.plan
      BY <1>2 DEF UInv, OutcomeIsPublished, Recording
    <3> QED
      BY <1>2, <3>1, <3>2
  <2> QED
    BY <1>1, <1>2, <1>10, <2>1, CommitGivenUp
<1>11. CASE /\ op.say = "rolling-back" /\ pc' = "restore" /\ op'.say = op.say
            /\ SameJob(op, op') /\ SameWork(op, op') /\ faults' = faults
  <2>1. op.kind = "apply"
    BY <1>2, <1>11 DEF KInv, RecordIsPublished, Recording, Undone
  <2>2. ApplyImages'
    BY <1>2, <1>3, <1>11 DEF DInv, ApplyImages, SameJob, SameWork
  <2>3. latest.plan = op.plan /\ Undecided(op.plan)
    BY <1>2, <1>11, <2>1 DEF DInv, ApplyUndoes, Costs
  <2>4. Undecided(op.plan)'
    BY <1>3, <1>11, <2>3 DEF Undecided, SameJob
  <2>5. ApplyUndoes'
    BY <1>3, <1>11, <2>3, <2>4 DEF ApplyUndoes, Costs, SameJob
  <2> QED
    BY <1>11, <2>1, <2>2, <2>5
       DEF DInv, ApplyOpens, ApplySwaps, ApplyCommits, OutcomeNamesRuntime,
           SettleNamesRuntime, RetryImages, BootRestoresCommitted,
           FailureCosts, Undone, Retried, SameJob
<1>12. CASE /\ op.say \in {"rolled-back", "rollback-failed"}
            /\ pc' = "write-plan" /\ op'.say = "rollback-failed" /\ ~op'.bad
            /\ SameJob(op, op') /\ SameWork(op, op') /\ faults' = faults
  <2>1. op.kind \in {"apply"} \cup Retried
    BY <1>2, <1>12 DEF KInv, RecordIsPublished, Recording
  <2>2. ApplyImages'
    BY <1>2, <1>3, <1>12 DEF DInv, ApplyImages, SameJob, SameWork
  <2>3. /\ latest.plan = op.plan
        /\ \/ Undecided(op.plan)
           \/ latest.state \in {"rolled-back", "canary-failed"} /\ Runs(bootPlan)
    BY <1>12, <2>1 DEF DInv, OutcomeNamesRuntime, Costs, Undone
  <2>4. Undecided(op.plan) => Undecided(op.plan)'
    BY <1>3, <1>12 DEF Undecided, SameJob
  <2>5. OutcomeNamesRuntime'
    BY <1>2, <1>3, <1>12, <2>3, <2>4 DEF OutcomeNamesRuntime, Costs, SameJob
  <2>6. RetryImages'
    BY <1>2, <1>3, <1>12 DEF DInv, RetryImages, SameJob, SameWork
  <2> QED
    BY <1>12, <2>1, <2>2, <2>5, <2>6
       DEF DInv, ApplyOpens, ApplySwaps, ApplyCommits, ApplyUndoes,
           SettleNamesRuntime, BootRestoresCommitted, FailureCosts, SameJob,
           Retried
<1>13. op.say = "committing" => op.kind = "apply"
  BY <1>2 DEF KInv, RecordIsPublished, Recording, Undone
<1>14. /\ faults >= 1 /\ faults' = faults => faults' >= 1
       /\ faults' = faults + 1 => faults' >= 1
  OBVIOUS
<1>15. CASE op.say = "committing" /\ op.bad /\ Leaves(op) /\ faults' = faults
  BY <1>6, <1>10, <1>13, <1>14, <1>15 DEF Leaves
<1>16. CASE /\ op.say = "committed" /\ op.kind = "apply" /\ Leaves(op)
            /\ \/ op.bad /\ faults' = faults
               \/ faults' = faults + 1
  BY <1>6, <1>10, <1>14, <1>16 DEF Leaves
<1> QED
  BY <1>0, <1>7, <1>8, <1>9, <1>11, <1>12, <1>15, <1>16, WrittenFields, Zenon


(***************************************************************************)
(* Apply, up to its commit.                                                *)
(***************************************************************************)
LEMMA AdvancedNames ==
    ASSUME op.kind = "apply", SameJob(op, op'), op'.say = "applying",
           pc' \in {"candidate", "activate", "config"}, Committed = op.prevBoot,
           latest.plan = op.plan, latest.state = "applying",
           UNCHANGED <<journals, plans>>, FailureCosts',
           pc' = "candidate" => ~op'.live,
           ApplyImages', ApplySwaps'
    PROVE  DInv'
<1>1. Committed' = Committed /\ latest' = latest
  BY DEF Committed, plans, journals
<1> QED
  BY <1>1 DEF DInv, ApplyOpens, ApplyCommits, ApplyUndoes, OutcomeNamesRuntime,
     SettleNamesRuntime, RetryImages, BootRestoresCommitted, SameJob,
     Recording, Undone, Retried

LEMMA FailedNames ==
    ASSUME op.kind = "apply", op.plan \in Plans, faults' \in Nat,
           latest.plan = op.plan, latest.state = "applying",
           bootPlan = op.prevBoot, UNCHANGED <<journals, plans>>,
           ApplyImages', NEW prepared, NEW live,
           Undoes(prepared, live) \/ Refuses(prepared)
    PROVE  DInv'
<1>1. SameJob(op, op') /\ latest' = latest /\ bootPlan' = bootPlan
  BY DEF Undoes, Refuses, Gives, journals, plans
<1>2. Undecided(op.plan)'
  BY <1>1 DEF Undecided, Terminal, SameJob
<1>3. CASE Undoes(prepared, live)
  BY <1>1, <1>2, <1>3, RollbackBeginsNamed DEF Undoes
<1>4. CASE Refuses(prepared)
  <2>1. /\ pc' = "write-plan" /\ op'.say = "canary-failed" /\ ~op'.bad
        /\ ~op'.live
    BY <1>4 DEF Refuses, Gives
  <2>2. Runs(bootPlan)'
    BY <1>1, <2>1 DEF ApplyImages, Runs, SameJob
  <2> QED
    BY <1>1, <1>2, <2>1, <2>2
       DEF DInv, ApplyOpens, ApplySwaps, ApplyCommits, ApplyUndoes,
           OutcomeNamesRuntime, SettleNamesRuntime, RetryImages, Costs,
           BootRestoresCommitted, FailureCosts, SameJob, Undone, Retried
<1> QED
  BY <1>3, <1>4

\* What holds while Apply goes forward.
LEMMA AdvanceShares ==
    ASSUME TInv, KInv, UInv, DInv, pc \in Advancing \ {"preserve"}
    PROVE  /\ op \in Locals /\ op.kind = "apply" /\ op.say = "applying"
           /\ op.plan \in Plans /\ runtime \in Runtimes
           /\ latest.plan = op.plan /\ latest.state = "applying"
           /\ bootPlan = op.prevBoot /\ Committed = op.prevBoot
<1>1. op \in Locals /\ op.plan \in Plans /\ runtime \in Runtimes
  BY DEF TInv, TypeOK, WorkNamesPlan, Working, Advancing
<1>2. op.kind = "apply" /\ op.say = "applying"
  BY DEF KInv, AdvanceApplies
<1>3. /\ latest.plan = op.plan /\ latest.state = "applying"
      /\ Committed = op.prevBoot
  BY <1>2 DEF DInv, ApplyOpens
<1>4. bootPlan = op.prevBoot
  BY <1>2 DEF UInv, BootPlanRemembered, FailuresRemembered
<1> QED
  BY <1>1, <1>2, <1>3, <1>4

LEMMA CostsKept ==
    ASSUME DInv, faults \in Nat, SameJob(op, op'),
           pc \notin {"restore", "gate"},
           \/ faults' = faults /\ op'.bad = op.bad
           \/ faults' = faults + 1
    PROVE  FailureCosts'
<1>1. CASE faults' = faults /\ op'.bad = op.bad
  BY <1>1 DEF DInv, FailureCosts, SameJob
<1>2. CASE faults' = faults + 1
  BY <1>2 DEF FailureCosts
<1> QED
  BY <1>1, <1>2

LEMMA StartNames ==
    ASSUME TInv, SInv, NEW p \in Plans, StartApply(p)
    PROVE  DInv'
<1>1. /\ Settled /\ pc' = "preserve" /\ snap' = AllOff
      /\ op'.kind = "apply" /\ op'.plan = p /\ op'.say = "applying"
      /\ ~op'.live /\ ~op'.bad
      /\ op'.prepared = {} /\ op'.prevBoot = Committed
      /\ UNCHANGED <<runtime, journals, plans>>
  BY StartFields
<1>2. /\ Committed' = Committed /\ latest' = latest
      /\ CommittedJournalIsBootable'
      /\ \A q : Runs(q)' = Runs(q)
  BY <1>1 DEF SInv, CommittedJournalIsBootable, Settled, Committed, journals,
              plans, Runs
<1>3. latest.state \in Terminal \cup {"none"}
  BY <1>1 DEF Settled, NoRecord, Record
<1>4. Runs(Committed)
  BY <1>1 DEF SInv, FilesNameRuntime
<1>5. ApplyImages'
  BY <1>1, <1>4 DEF ApplyImages, Runs, AllOff, Off
<1>6. ApplyOpens'
  BY <1>1, <1>2, <1>3 DEF ApplyOpens, Recording
<1> QED
  BY <1>1, <1>5, <1>6
     DEF DInv, ApplySwaps, ApplyCommits, ApplyUndoes, OutcomeNamesRuntime,
         SettleNamesRuntime, RetryImages, BootRestoresCommitted, FailureCosts,
         Undone, Retried

LEMMA PreserveNames ==
    ASSUME TInv, KInv, DInv, SInv, faults \in Nat, Preserve
    PROVE  DInv' /\ (op' = Idle => SInv')
<1>0. /\ op \in Locals /\ pc = "preserve"
      /\ op.kind = "apply" /\ op.say = "applying"
  BY DEF TInv, TypeOK, KInv, AdvanceApplies, Advancing, Preserve
<1>1. /\ \/ bootPlan' = bootPlan
         \/ bootPlan = NoPlan /\ bootPlan' = Committed
      /\ UNCHANGED <<runtime, snap, journals, latestPlan>>
  BY <1>0, PreserveFields
<1>2. /\ Committed' = Committed /\ latest' = latest
      /\ \A q : Runs(q)' = Runs(q)
  BY <1>1 DEF Committed, journals, Runs
<1>3. /\ latest.state \in Terminal \cup {"none", "applying"}
      /\ Committed = op.prevBoot /\ ~op.live
  BY <1>0 DEF DInv, ApplyOpens
<1>4. CommittedJournalIsBootable'
  <2> SUFFICES ASSUME Settled', latest.state = "committed"
               PROVE  /\ bootPlan' = latest.plan
                      /\ latestPlan' = PlanFile(bootPlan', "committed")
    BY <1>2 DEF CommittedJournalIsBootable
  <2>1. Settled
    BY <1>1 DEF Settled, journals
  <2>2. /\ bootPlan = latest.plan
        /\ latestPlan = PlanFile(bootPlan, "committed")
    BY <2>1 DEF SInv, CommittedJournalIsBootable
  <2>3. latest.plan # NoPlan
    BY NoPlanOutside DEF TInv, RecordNamesPlan
  <2> QED
    BY <1>1, <2>2, <2>3
<1>5. CASE op' = Idle /\ pc' \in Resting
  <2>1. DInv'
    BY <1>5, RestExpects DEF Idle, Retried, Resting
  <2>2. FilesNameRuntime'
    BY <1>0, <1>2, <1>3 DEF DInv, ApplyImages, FilesNameRuntime
  <2>3. FailureKeepsImages'
    BY <1>2, <1>3 DEF FailureKeepsImages, Terminal
  <2> QED
    BY <1>4, <2>1, <2>2, <2>3 DEF SInv
<1>6. CASE pc' = "write-tx" /\ op' = op
  <2>1. ApplyImages'
    BY <1>1, <1>2, <1>6 DEF DInv, ApplyImages
  <2>2. ApplyOpens'
    BY <1>2, <1>3, <1>4, <1>6 DEF ApplyOpens, Advancing
  <2>3. FailureCosts'
    BY <1>0, <1>6, CostsKept, PreserveFields DEF SameJob
  <2>4. op' # Idle
    BY <1>0, <1>6 DEF Idle
  <2> QED
    BY <1>0, <1>6, <2>1, <2>2, <2>3, <2>4
       DEF DInv, ApplySwaps, ApplyCommits, ApplyUndoes, OutcomeNamesRuntime,
           SettleNamesRuntime, RetryImages, BootRestoresCommitted, Undone,
           Retried
<1> QED
  BY <1>0, <1>5, <1>6, PreserveFields, ReturnFields


LEMMA SnapshotNames ==
    ASSUME TInv, TInv', KInv, UInv, DInv, faults \in Nat, Snapshot
    PROVE  DInv'
<1>0. pc = "snapshot" /\ faults' \in Nat
  <2>1. pc = "snapshot"
    BY DEF Snapshot
  <2> QED
    BY <2>1 DEF TInv, TypeOK
<1>1. /\ op \in Locals /\ op.kind = "apply" /\ op.say = "applying"
      /\ op.plan \in Plans
      /\ latest.plan = op.plan /\ latest.state = "applying"
      /\ bootPlan = op.prevBoot /\ Committed = op.prevBoot
  BY <1>0, AdvanceShares DEF Advancing
<1>2. ~op.live /\ Runs(op.prevBoot)
  BY <1>0, <1>1 DEF DInv, ApplyOpens, ApplyImages
<1>3. UNCHANGED <<runtime, journals, plans>>
  BY <1>1, SnapshotFields
<1>4. ASSUME NEW done \in SUBSET Adapters, snap' = Image(done),
             op'.prepared = done, op'.live => op.live, SameJob(op, op')
      PROVE  ApplyImages'
  <2>1. \A a \in Adapters : snap'[a].plan \in {NoPlan, op.prevBoot}
    BY <1>2, <1>4 DEF Image, Runs, Off
  <2> QED
    BY <1>2, <1>3, <1>4, <2>1 DEF ApplyImages, Runs, SameJob
<1>5. Affected(op.plan) \subseteq Adapters
  BY <1>1, AffectedValue
<1>6. CASE /\ pc' = "candidate" /\ op'.prepared = Affected(op.plan)
           /\ snap' = Image(Affected(op.plan))
           /\ op'.say = op.say /\ op'.live = op.live /\ op'.bad = op.bad
           /\ SameJob(op, op') /\ faults' = faults
  <2>1. Affected(op.plan) = AdaptersOf[op.plan] \cup PlanAdapters(op.prevBoot)
    BY <1>1 DEF Affected, Retiring
  <2>2. ApplySwaps'
    BY <1>6, <2>1 DEF ApplySwaps, PlanAdapters, SameJob
  <2>3. FailureCosts'
    BY <1>0, <1>6, CostsKept
  <2> QED
    BY <1>1, <1>2, <1>3, <1>4, <1>5, <1>6, <2>2, <2>3, AdvancedNames
<1>7. ASSUME NEW done \in SUBSET Affected(op.plan), snap' = Image(done),
             Undoes(done, op.live) \/ (~op.live /\ Refuses(done))
      PROVE  DInv'
  <2>1. op'.prepared = done /\ (op'.live => op.live) /\ SameJob(op, op')
    BY <1>2, <1>7 DEF Undoes, Refuses, Gives
  <2>2. ApplyImages'
    BY <1>4, <1>5, <1>7, <2>1
  <2> QED
    BY <1>0, <1>1, <1>3, <1>7, <2>2, FailedNames
<1> QED
  BY <1>1, <1>6, <1>7, SnapshotFields

LEMMA CandidateNames ==
    ASSUME TInv, TInv', KInv, UInv, DInv, faults \in Nat, Candidate
    PROVE  DInv'
<1>0. pc = "candidate" /\ faults' \in Nat
  <2>1. pc = "candidate"
    BY DEF Candidate
  <2> QED
    BY <2>1 DEF TInv, TypeOK
<1>1. /\ op \in Locals /\ op.kind = "apply" /\ op.say = "applying"
      /\ op.plan \in Plans
      /\ latest.plan = op.plan /\ latest.state = "applying"
      /\ bootPlan = op.prevBoot /\ Committed = op.prevBoot
  BY <1>0, AdvanceShares DEF Advancing
<1>2. /\ ~op.live /\ Runs(op.prevBoot)
      /\ op.prepared = AdaptersOf[op.plan] \cup PlanAdapters(op.prevBoot)
  BY <1>0, <1>1 DEF DInv, ApplyOpens, ApplyImages, ApplySwaps
<1>3. UNCHANGED <<runtime, snap, journals, plans>>
  BY <1>1, CandidateFields
<1>4. ASSUME op'.prepared = op.prepared, op'.live => op.live, SameJob(op, op')
      PROVE  ApplyImages'
  BY <1>1, <1>2, <1>3, <1>4 DEF DInv, ApplyImages, Runs, SameJob
<1>5. CASE pc' = "activate"
  <2>1. /\ op'.todo = AdaptersOf[op.plan]
        /\ op'.retire = op.prepared \ AdaptersOf[op.plan]
        /\ op'.prepared = op.prepared /\ op'.say = op.say
        /\ op'.live = op.live /\ op'.bad = op.bad
        /\ SameJob(op, op') /\ faults' = faults
    BY <1>1, <1>5, CandidateFields DEF Undoes, Refuses
  <2>2. ApplySwaps'
    BY <1>2, <1>5, <2>1 DEF ApplySwaps, SameJob, PlanAdapters
  <2>3. FailureCosts'
    BY <1>0, <2>1, CostsKept
  <2> QED
    BY <1>1, <1>3, <1>4, <1>5, <2>1, <2>2, <2>3, AdvancedNames
<1>6. CASE pc' # "activate"
  <2>1. Undoes(op.prepared, op.live) \/ (~op.live /\ Refuses(op.prepared))
    BY <1>1, <1>6, CandidateFields
  <2>2. op'.prepared = op.prepared /\ (op'.live => op.live) /\ SameJob(op, op')
    BY <1>2, <2>1 DEF Undoes, Refuses, Gives
  <2> QED
    BY <1>0, <1>1, <1>3, <1>4, <2>1, <2>2, FailedNames
<1> QED
  BY <1>5, <1>6

\* An adapter of Apply is given, or half given, the plan or nothing.
LEMMA DisturbsImages ==
    ASSUME DInv, op.kind = "apply", UNCHANGED snap, SameJob(op, op'),
           op'.prepared = op.prepared, op'.live, NEW a \in op.prepared,
           \/ Brings(a, Whole(op.plan)) \/ Disturbs(a, op.plan)
           \/ Brings(a, Off) \/ Disturbs(a, NoPlan)
    PROVE  ApplyImages'
<1>1. Whole(op.plan).plan = op.plan /\ Off.plan = NoPlan
  BY DEF Whole, Off
<1>2. /\ runtime'[a].plan \in {NoPlan, op.plan, runtime[a].plan}
      /\ \A b \in Adapters \ {a} : runtime'[b] = runtime[b]
  BY <1>1 DEF Brings, Disturbs, Others
<1> QED
  BY <1>2 DEF DInv, ApplyImages, SameJob

LEMMA ActivateNames ==
    ASSUME TInv, TInv', KInv, UInv, OInv, DInv, faults \in Nat,
           NEW a \in Adapters, Activate(a)
    PROVE  DInv'
<1>0. pc = "activate" /\ faults' \in Nat
  <2>1. pc = "activate"
    BY Zenon DEF Activate
  <2> QED
    BY <2>1 DEF TInv, TypeOK
<1>1. /\ op \in Locals /\ op.kind = "apply" /\ op.say = "applying"
      /\ op.plan \in Plans /\ runtime \in Runtimes
      /\ latest.plan = op.plan /\ latest.state = "applying"
      /\ bootPlan = op.prevBoot /\ Committed = op.prevBoot
  BY <1>0, AdvanceShares DEF Advancing
<1>2. /\ op.prepared = AdaptersOf[op.plan] \cup PlanAdapters(op.prevBoot)
      /\ op.retire \cap AdaptersOf[op.plan] = {}
      /\ \A b \in AdaptersOf[op.plan] \ op.todo : runtime[b] = Whole(op.plan)
      /\ \A b \in op.prepared \ (AdaptersOf[op.plan] \cup op.retire) :
            runtime[b] = Off
  BY <1>0, <1>1 DEF DInv, ApplySwaps
<1>3. UNCHANGED <<snap, journals, plans>> /\ a \in op.todo
  BY <1>1, ActivateFields
<1>4. a \in AdaptersOf[op.plan] /\ a \in op.prepared
  BY <1>0, <1>2, <1>3 DEF OInv, StepsStayInPlan
<1>5. CASE /\ pc' = "activate" /\ op'.live /\ Brings(a, Whole(op.plan))
           /\ op'.todo = op.todo \ {a} /\ op'.retire = op.retire
           /\ op'.prepared = op.prepared /\ op'.say = op.say
           /\ op'.bad = op.bad /\ SameJob(op, op') /\ faults' = faults
  <2>1. ApplyImages'
    BY <1>1, <1>3, <1>4, <1>5, DisturbsImages
  <2>2. /\ runtime'[a] = Whole(op.plan)
        /\ \A b \in Adapters \ {a} : runtime'[b] = runtime[b]
        /\ op.prepared \subseteq Adapters /\ AdaptersOf[op.plan] \subseteq Adapters
    BY <1>1, <1>5, PlanAssumption DEF Brings, Others, Locals
  <2>3. ApplySwaps'
    BY <1>2, <1>4, <1>5, <2>2 DEF ApplySwaps, SameJob, PlanAdapters
  <2>4. FailureCosts'
    BY <1>0, <1>5, CostsKept
  <2> QED
    BY <1>1, <1>3, <1>5, <2>1, <2>3, <2>4, AdvancedNames
<1>6. CASE Disturbs(a, op.plan) /\ Undoes(op.prepared, TRUE)
  <2>1. op'.prepared = op.prepared /\ op'.live /\ SameJob(op, op')
    BY <1>6 DEF Undoes, Gives
  <2>2. ApplyImages'
    BY <1>1, <1>3, <1>4, <1>6, <2>1, DisturbsImages
  <2> QED
    BY <1>0, <1>1, <1>3, <1>6, <2>2, FailedNames
<1>7. CASE /\ runtime' = runtime
           /\ \/ Undoes(op.prepared, op.live)
              \/ ~op.live /\ Refuses(op.prepared)
  <2>1. /\ op'.prepared = op.prepared /\ SameJob(op, op')
        /\ ~op'.live => ~op.live
    BY <1>7 DEF Undoes, Refuses, Gives
  <2>2. ApplyImages'
    BY <1>1, <1>3, <1>7, <2>1 DEF DInv, ApplyImages, Runs, SameJob
  <2> QED
    BY <1>0, <1>1, <1>3, <1>7, <2>2, FailedNames
<1> QED
  BY <1>1, <1>5, <1>6, <1>7, ActivateFields

LEMMA RetireNames ==
    ASSUME TInv, TInv', KInv, UInv, DInv, faults \in Nat,
           NEW a \in Adapters, DeactivateRetiring(a)
    PROVE  DInv'
<1>0. pc = "activate" /\ faults' \in Nat
  <2>1. pc = "activate"
    BY Zenon DEF DeactivateRetiring
  <2> QED
    BY <2>1 DEF TInv, TypeOK
<1>1. /\ op \in Locals /\ op.kind = "apply" /\ op.say = "applying"
      /\ op.plan \in Plans /\ runtime \in Runtimes
      /\ latest.plan = op.plan /\ latest.state = "applying"
      /\ bootPlan = op.prevBoot /\ Committed = op.prevBoot
  BY <1>0, AdvanceShares DEF Advancing
<1>2. /\ op.prepared = AdaptersOf[op.plan] \cup PlanAdapters(op.prevBoot)
      /\ op.retire \cap AdaptersOf[op.plan] = {}
      /\ \A b \in AdaptersOf[op.plan] \ op.todo : runtime[b] = Whole(op.plan)
      /\ \A b \in op.prepared \ (AdaptersOf[op.plan] \cup op.retire) :
            runtime[b] = Off
  BY <1>0, <1>1 DEF DInv, ApplySwaps
<1>3. UNCHANGED <<snap, journals, plans>> /\ a \in op.retire
  BY <1>1, RetireFields
<1>4. ASSUME op'.prepared = op.prepared, op'.live, SameJob(op, op'),
             Brings(a, Off) \/ Disturbs(a, NoPlan)
      PROVE  ApplyImages'
  <2>1. /\ runtime'[a].plan \in {NoPlan, runtime[a].plan}
        /\ \A b \in Adapters \ {a} : runtime'[b] = runtime[b]
    BY <1>4 DEF Brings, Disturbs, Others, Off
  <2> QED
    BY <1>1, <1>3, <1>4, <2>1 DEF DInv, ApplyImages, SameJob
<1>5. CASE /\ pc' = "activate" /\ op'.live /\ Brings(a, Off)
           /\ op'.todo = op.todo /\ op'.retire = op.retire \ {a}
           /\ op'.prepared = op.prepared /\ op'.say = op.say
           /\ op'.bad = op.bad /\ SameJob(op, op') /\ faults' = faults
  <2>1. /\ runtime'[a] = Off
        /\ \A b \in Adapters \ {a} : runtime'[b] = runtime[b]
        /\ op.prepared \subseteq Adapters /\ AdaptersOf[op.plan] \subseteq Adapters
    BY <1>1, <1>5, PlanAssumption DEF Brings, Others, Locals
  <2>2. ApplySwaps'
    BY <1>2, <1>3, <1>5, <2>1 DEF ApplySwaps, SameJob, PlanAdapters
  <2>3. FailureCosts'
    BY <1>0, <1>5, CostsKept
  <2> QED
    BY <1>1, <1>3, <1>4, <1>5, <2>2, <2>3, AdvancedNames
<1>6. CASE Disturbs(a, NoPlan) /\ Undoes(op.prepared, TRUE)
  <2>1. op'.prepared = op.prepared /\ op'.live /\ SameJob(op, op')
    BY <1>6 DEF Undoes, Gives
  <2> QED
    BY <1>0, <1>1, <1>3, <1>4, <1>6, <2>1, FailedNames
<1> QED
  BY <1>1, <1>5, <1>6, RetireFields

LEMMA HealthNames ==
    ASSUME TInv, TInv', KInv, UInv, OInv, DInv, faults \in Nat, HealthAndCommit
    PROVE  DInv'
<1>0. pc = "activate" /\ faults' \in Nat /\ op.todo = {} /\ op.retire = {}
  <2>1. pc = "activate" /\ op.todo = {} /\ op.retire = {}
    BY Zenon DEF HealthAndCommit
  <2> QED
    BY <2>1 DEF TInv, TypeOK
<1>1. /\ op \in Locals /\ op.kind = "apply" /\ op.say = "applying"
      /\ op.plan \in Plans /\ runtime \in Runtimes
      /\ latest.plan = op.plan /\ latest.state = "applying"
      /\ bootPlan = op.prevBoot /\ Committed = op.prevBoot
  BY <1>0, AdvanceShares DEF Advancing
<1>2. /\ op.prepared = AdaptersOf[op.plan] \cup PlanAdapters(op.prevBoot)
      /\ \A b \in AdaptersOf[op.plan] \ op.todo : runtime[b] = Whole(op.plan)
      /\ \A b \in op.prepared \ (AdaptersOf[op.plan] \cup op.retire) :
            runtime[b] = Off
  BY <1>0, <1>1 DEF DInv, ApplySwaps
<1>3. UNCHANGED <<snap, journals, plans>>
  BY <1>1, HealthFields
<1>4. CASE /\ pc' = "config" /\ op'.live /\ runtime' = runtime
           /\ op'.prepared = op.prepared /\ op'.say = op.say
           /\ op'.bad = op.bad /\ SameJob(op, op') /\ faults' = faults
  <2>1. ApplyImages'
    BY <1>1, <1>3, <1>4 DEF DInv, ApplyImages, SameJob
  <2>2. Runs(op.plan)
    <3> SUFFICES ASSUME NEW b \in Adapters
                 PROVE  runtime[b].plan \in {NoPlan, op.plan}
      BY DEF Runs
    <3>1. CASE b \in AdaptersOf[op.plan]
      BY <1>0, <1>2, <3>1 DEF Whole
    <3>2. CASE b \in op.prepared \ AdaptersOf[op.plan]
      BY <1>0, <1>2, <3>2 DEF Off
    <3>3. CASE b \notin op.prepared
      <4>1. runtime[b].plan \in {NoPlan, op.prevBoot}
        BY <1>1, <3>3 DEF DInv, ApplyImages
      <4>2. runtime[b].plan # NoPlan => b \in PlanAdapters(runtime[b].plan)
        BY DEF OInv, Owns, PlanAdapters
      <4> QED
        BY <1>2, <3>3, <4>1, <4>2
    <3> QED
      BY <1>2, <3>1, <3>2, <3>3
  <2>3. ApplySwaps'
    BY <1>4, <2>2 DEF ApplySwaps, SameJob, Runs
  <2>4. FailureCosts'
    BY <1>0, <1>4, CostsKept
  <2> QED
    BY <1>1, <1>3, <1>4, <2>1, <2>3, <2>4, AdvancedNames
<1>5. ASSUME Undoes(op.prepared, TRUE),
             NEW torn \in SUBSET (AdaptersOf[op.plan] \ {Gate}),
             runtime' = [b \in Adapters |->
                IF b \in torn THEN Torn(op.plan) ELSE runtime[b]]
      PROVE  DInv'
  <2>1. op'.prepared = op.prepared /\ op'.live /\ SameJob(op, op')
    BY <1>5 DEF Undoes, Gives
  <2>2. \A b \in Adapters : \/ runtime'[b] = runtime[b]
                            \/ /\ b \in op.prepared
                               /\ runtime'[b].plan = op.plan
    BY <1>2, <1>5 DEF Torn
  <2>3. ApplyImages'
    BY <1>1, <1>3, <2>1, <2>2 DEF DInv, ApplyImages, SameJob
  <2> QED
    BY <1>0, <1>1, <1>3, <1>5, <2>3, FailedNames
<1> QED
  BY <1>1, <1>4, <1>5, HealthFields

LEMMA ConfigNames ==
    ASSUME TInv, TInv', KInv, UInv, DInv, faults \in Nat, CommitConfig
    PROVE  DInv'
<1>0. /\ pc = "config" /\ faults' \in Nat
      /\ cfg \in [applied : Names, safe : BOOLEAN]
  BY DEF CommitConfig, TInv, TypeOK
<1>1. /\ op \in Locals /\ op.kind = "apply" /\ op.say = "applying"
      /\ op.plan \in Plans
      /\ latest.plan = op.plan /\ latest.state = "applying"
      /\ bootPlan = op.prevBoot /\ Committed = op.prevBoot
  BY <1>0, AdvanceShares DEF Advancing
<1>2. Runs(op.plan)
  BY <1>0, <1>1 DEF DInv, ApplySwaps
<1>3. /\ pc' = "write-tx" /\ op'.prepared = op.prepared /\ SameJob(op, op')
      /\ op'.live = op.live \/ op'.live
      /\ UNCHANGED <<runtime, snap, journals, plans>>
  BY <1>0, <1>1, ConfigFields
<1>4. ApplyImages'
  BY <1>1, <1>3 DEF DInv, ApplyImages, Runs, SameJob
<1>5. latest' = latest /\ Runs(op.plan)' /\ Undecided(op.plan)'
  BY <1>1, <1>2, <1>3 DEF journals, Runs, Undecided, Terminal, SameJob
<1>6. CASE op'.say = "rolling-back"
  <2>1. op'.bad = FALSE
    BY <1>0, <1>1, <1>6, ConfigFields
  <2> QED
    BY <1>0, <1>1, <1>3, <1>4, <1>5, <1>6, <2>1, RollbackBeginsNamed
<1>7. CASE op'.say = "committing"
  <2>1. FailureCosts'
    <3>1. "committing" # "rolling-back"
      OBVIOUS
    <3>2. faults' = faults /\ op'.bad = op.bad
      BY <1>0, <1>1, <1>7, <3>1, ConfigFields
    <3> QED
      BY <1>0, <1>3, <3>2, CostsKept
  <2>2. ApplyCommits'
    BY <1>1, <1>3, <1>5, <1>7 DEF ApplyCommits, SameJob
  <2> QED
    BY <1>1, <1>3, <1>4, <1>7, <2>1, <2>2
       DEF DInv, ApplyOpens, ApplySwaps, ApplyUndoes, OutcomeNamesRuntime,
           SettleNamesRuntime, RetryImages, BootRestoresCommitted, SameJob,
           Undone, Retried
<1> QED
  BY <1>0, <1>1, <1>6, <1>7, ConfigFields


(***************************************************************************)
(* Rollback, its retry and its close.                                      *)
(***************************************************************************)
LEMMA RollbackShares ==
    ASSUME TInv, KInv, UInv, DInv, faults \in 0 .. 2, pc \in {"restore", "gate"}
    PROVE  /\ op \in Locals /\ runtime \in Runtimes /\ op.plan \in Plans
           /\ \/ op.kind = "apply" /\ op.say = "rolling-back"
              \/ op.kind \in Retried /\ op.say = "none"
           /\ latest.plan = op.plan /\ Undecided(op.plan)
<1>1. op \in Locals /\ runtime \in Runtimes /\ op.plan \in Plans
  BY DEF TInv, TypeOK, WorkNamesPlan, Working
<1>2. \/ op.kind = "apply" /\ op.say = "rolling-back"
      \/ op.kind \in Retried /\ op.say = "none"
  BY DEF KInv, RestoreUndoes
<1>3. CASE op.kind = "apply" /\ op.say = "rolling-back"
  BY <1>1, <1>3 DEF DInv, ApplyUndoes, Costs
<1>4. CASE op.kind \in Retried
  BY <1>1, <1>2, <1>4 DEF DInv, RetryImages, Undecided, Terminal
<1> QED
  BY <1>1, <1>2, <1>3, <1>4

\* What is restored belongs to the plan that was, and so does what is not.
LEMMA RestoredImages ==
    ASSUME DInv, SameJob(op, op'), op'.prepared = op.prepared,
           op'.live = op.live, UNCHANGED <<snap, journals>>,
           op.kind \in Retried => bootPlan' = bootPlan,
           pc' \in {"restore", "gate", "write-plan"},
           pc' # "write-plan" => pc \in {"restore", "gate"},
           \A a \in Adapters :
              \/ runtime'[a] = runtime[a]
              \/ runtime'[a].plan \in {runtime[a].plan, Target(a).plan}
    PROVE  ApplyImages' /\ RetryImages'
<1>1. \A a \in Adapters : Target(a).plan \in {NoPlan, snap[a].plan}
  BY DEF Target, Off
<1>2. \A a \in Adapters :
         runtime'[a].plan \in {NoPlan, runtime[a].plan, snap[a].plan}
  BY <1>1
<1>3. ApplyImages'
  BY <1>2 DEF DInv, ApplyImages, Runs, SameJob
<1>4. RetryImages'
  <2> SUFFICES ASSUME op.kind \in Retried PROVE RetryImages'
    BY DEF RetryImages, SameJob
  <2>1. bootPlan' = bootPlan /\ latest' = latest
    BY DEF journals
  <2> QED
    BY <1>2, <2>1 DEF DInv, RetryImages, SameJob
<1> QED
  BY <1>3, <1>4

LEMMA RestoringNames ==
    ASSUME TInv, KInv, UInv, DInv, faults \in 0 .. 2, pc = "restore",
           pc' \in {"restore", "gate"}, op'.say = op.say, SameJob(op, op'),
           op'.prepared = op.prepared, op'.live = op.live,
           UNCHANGED <<snap, journals>>,
           op.kind \in Retried => bootPlan' = bootPlan,
           \A a \in Adapters :
              \/ runtime'[a] = runtime[a]
              \/ runtime'[a].plan \in {runtime[a].plan, Target(a).plan}
    PROVE  DInv'
<1>1. /\ op \in Locals /\ runtime \in Runtimes /\ op.plan \in Plans
      /\ \/ op.kind = "apply" /\ op.say = "rolling-back"
         \/ op.kind \in Retried /\ op.say = "none"
      /\ latest.plan = op.plan /\ Undecided(op.plan)
  BY RollbackShares
<1>2. ApplyImages' /\ RetryImages'
  BY RestoredImages
<1>3. latest' = latest /\ Undecided(op.plan)'
  BY <1>1 DEF journals, Undecided, SameJob
<1>4. ApplyUndoes'
  BY <1>1, <1>3 DEF ApplyUndoes, Costs, SameJob
<1> QED
  BY <1>1, <1>2, <1>4
     DEF DInv, ApplyOpens, ApplySwaps, ApplyCommits, OutcomeNamesRuntime,
         SettleNamesRuntime, BootRestoresCommitted, FailureCosts, SameJob,
         Undone, Retried

LEMMA GateNames ==
    ASSUME TInv, TInv', KInv, UInv, UInv', OInv', DInv, faults \in 0 .. 2,
           RollbackGate
    PROVE  DInv'
<1>0. pc = "gate" /\ op \in Locals
  BY DEF RollbackGate, TInv, TypeOK
<1>1. /\ op \in Locals /\ runtime \in Runtimes /\ op.plan \in Plans
      /\ \/ op.kind = "apply" /\ op.say = "rolling-back"
         \/ op.kind \in Retried /\ op.say = "none"
      /\ latest.plan = op.plan /\ Undecided(op.plan)
  BY <1>0, RollbackShares
<1>2. Gate \in op.prepared => Gate \in Adapters
  BY <1>0 DEF Locals
<1>3. /\ pc' = "write-plan" /\ op'.bad = FALSE
      /\ op'.say \in {"rollback-failed", "rolled-back"}
      /\ SameJob(op, op') /\ op'.prepared = op.prepared /\ op'.live = op.live
      /\ UNCHANGED <<snap, journals, bootPlan>>
  BY <1>1, <1>2, GateFields DEF SameWork, plans
<1>4. \/ runtime' = runtime
      \/ /\ Gate \in op.prepared
         /\ Brings(Gate, snap[Gate]) \/ Disturbs(Gate, snap[Gate].plan)
  BY <1>1, <1>2, GateFields
<1>5. Gate \in op.prepared => op.kind = "apply"
  BY <1>1 DEF UInv, RetryTouchesConsumers
<1>6. \A a \in Adapters :
         \/ runtime'[a] = runtime[a]
         \/ runtime'[a].plan \in {runtime[a].plan, Target(a).plan}
  <2>1. Gate \in op.prepared => Target(Gate) = snap[Gate]
    BY <1>5 DEF Target
  <2> QED
    BY <1>4, <2>1 DEF Brings, Disturbs, Others
<1>7. ApplyImages' /\ RetryImages'
  BY <1>0, <1>3, <1>6, RestoredImages
<1>8. latest' = latest /\ Undecided(op.plan)'
  BY <1>1, <1>3 DEF journals, Undecided, SameJob
<1>9. op'.say = "rolled-back" => Runs(bootPlan)'
  <2> SUFFICES ASSUME op'.say = "rolled-back", NEW a \in Adapters
               PROVE  runtime'[a].plan \in {NoPlan, bootPlan'}
    BY DEF Runs
  <2>1. a \in op.prepared => runtime'[a] = Target(a)
    <3>1. Target(a)' = Target(a)
      BY <1>3 DEF Target, SameJob
    <3> QED
      BY <1>3, <3>1 DEF UInv, RolledBackIsRestored
  <2>2. Target(a).plan \in {NoPlan, snap[a].plan}
    BY DEF Target, Off
  <2>3. CASE op.kind = "apply"
    <3>1. bootPlan' = op.prevBoot
      BY <1>3, <2>3
         DEF UInv, BootPlanRemembered, FailuresRemembered, SameJob, Undone
    <3>2. snap[a].plan \in {NoPlan, op.prevBoot}
      BY <2>3 DEF DInv, ApplyImages
    <3>3. a \notin op.prepared => runtime'[a].plan \in {NoPlan, op.prevBoot}
      BY <1>3, <1>7, <2>3 DEF ApplyImages, SameJob
    <3> QED
      BY <2>1, <2>2, <3>1, <3>2, <3>3
  <2>4. CASE op.kind \in Retried
    <3>1. /\ snap[a].plan \in {NoPlan, bootPlan}
          /\ op.prepared = PlanAdapters(op.plan)
      BY <2>4 DEF DInv, RetryImages
    <3>2. runtime'[a].plan \in {NoPlan, op.plan, bootPlan'}
      BY <1>3, <1>7, <2>4 DEF RetryImages, SameJob
    <3>3. a \notin op.prepared => runtime'[a].plan # op.plan
      BY <1>1, <3>1, NoPlanOutside DEF OInv, Owns, PlanAdapters
    <3> QED
      BY <1>3, <2>1, <2>2, <3>1, <3>2, <3>3
  <2> QED
    BY <1>1, <2>3, <2>4
<1>10. OutcomeNamesRuntime'
  BY <1>1, <1>3, <1>8, <1>9 DEF OutcomeNamesRuntime, Costs, SameJob, Undone
<1> QED
  BY <1>1, <1>3, <1>7, <1>10
     DEF DInv, ApplyOpens, ApplySwaps, ApplyCommits, ApplyUndoes,
         SettleNamesRuntime, BootRestoresCommitted, FailureCosts, SameJob,
         Undone, Retried

LEMMA RollbackNames ==
    ASSUME TInv, TInv', KInv, UInv, UInv', OInv', DInv, faults \in 0 .. 2,
           RollbackStep
    PROVE  DInv'
<1>0. /\ op \in Locals /\ runtime \in Runtimes
      /\ cfg \in [applied : Names, safe : BOOLEAN]
  BY DEF TInv, TypeOK
<1>1. ASSUME NEW a \in Adapters, Restore(a)
      PROVE  DInv'
  <2>1. /\ pc = "restore" /\ pc' = "restore" /\ op'.say = op.say
        /\ op'.prepared = op.prepared /\ op'.live = op.live
        /\ SameJob(op, op') /\ UNCHANGED <<snap, journals, bootPlan>>
        /\ Brings(a, Target(a)) \/ Disturbs(a, Target(a).plan)
    BY <1>0, <1>1, RestoreFields DEF plans
  <2>2. \A b \in Adapters :
           \/ runtime'[b] = runtime[b]
           \/ runtime'[b].plan \in {runtime[b].plan, Target(b).plan}
    BY <2>1 DEF Brings, Disturbs, Others
  <2> QED
    BY <2>1, <2>2, RestoringNames
<1>2. CASE UndoConfig
  BY <1>0, <1>2, UndoFields, RestoringNames DEF plans, SameWork
<1>3. CASE RestoreBootPlan
  <2>1. op.kind \in Retried => ~op.pub
    BY DEF UInv, RetryTouchesConsumers
  <2> QED
    BY <1>0, <1>3, <2>1, BootRestoreFields, RestoringNames DEF SameWork
<1>4. CASE VerifyConsumers
  BY <1>0, <1>4, VerifyFields, RestoringNames DEF plans, SameWork
<1>5. CASE RollbackGate
  BY <1>5, GateNames
<1> QED
  BY <1>1, <1>2, <1>3, <1>4, <1>5 DEF RollbackStep


(***************************************************************************)
(* Startup, and what a person or the router begins.                        *)
(***************************************************************************)
\* No operation is running: nothing is expected, and the files say the same.
LEMMA QuietNames ==
    ASSUME SInv, op'.kind \in {"none", "boot", "deactivate"}, pc' # "reconcile",
           UNCHANGED <<snap, journals, plans>>,
           \A a \in Adapters : runtime'[a].plan \in {runtime[a].plan, NoPlan}
    PROVE  DInv' /\ SInv'
<1>1. op'.kind \notin {"apply", "settle"} \cup Retried
  BY DEF Retried
<1> QED
  BY <1>1, RestExpects, StopsKeepNames

LEMMA RecoveryBeginsNamed ==
    ASSUME TInv, KInv, SInv, RetryAtStart \/ CloseFailedRollback
    PROVE  DInv' /\ (op'.kind \notin Retried => SInv')
<1>1. UNCHANGED <<runtime, snap, journals, plans>>
  BY RecoveringFields DEF StartupLeaves
<1>2. CASE pc = "retry" /\ pc' = "recover" /\ op' = op
  <2>1. op' = Idle
    BY <1>2 DEF KInv, RestIsIdle, Resting
  <2> QED
    BY <1>1, <1>2, <2>1, QuietNames DEF Idle
<1>3. CASE /\ Retriable /\ pc' = "restore" /\ op'.kind \in Retried
           /\ op'.plan = latest.plan /\ op'.say = "none" /\ ~op'.bad
           /\ op'.prepared = PlanAdapters(latest.plan)
  <2>1. /\ latest.state = "rollback-failed"
        /\ bootPlan \notin {NoPlan, latest.plan}
    BY <1>3 DEF Retriable
  <2>2. RetryImages'
    BY <1>1, <1>3, <2>1
       DEF SInv, FailureKeepsImages, RetryImages, journals, plans
  <2> QED
    BY <1>3, <2>2
       DEF DInv, ApplyImages, ApplyOpens, ApplySwaps, ApplyCommits,
           ApplyUndoes, OutcomeNamesRuntime, SettleNamesRuntime,
           BootRestoresCommitted, FailureCosts, Undone, Retried
<1> QED
  BY <1>2, <1>3, RecoveringFields DEF Retried

LEMMA StartupBeginsNamed ==
    ASSUME TInv, KInv, SInv, Start \/ SettleCommit \/ DeactivateAll
    PROVE  DInv' /\ (op'.kind # "settle" => SInv')
<1>1. UNCHANGED <<runtime, snap, journals, plans>>
  BY StartupFields DEF StartupLeaves
<1>2. CASE pc \in {"down", "recover"} /\ pc' \in {"retry", "check"} /\ op' = op
  <2>1. op' = Idle
    BY <1>2 DEF KInv, RestIsIdle, Resting
  <2> QED
    BY <1>1, <1>2, <2>1, QuietNames DEF Idle
<1>3. CASE op'.kind = "deactivate" /\ pc' = "cleanup"
  BY <1>1, <1>3, QuietNames
<1>4. CASE /\ Settleable /\ pc' = "write-tx" /\ op'.kind = "settle"
           /\ op'.plan = latest.plan /\ op'.say = "committed" /\ ~op'.bad
  <2>1. latest.state = "committing" /\ bootPlan = latest.plan
    BY <1>4 DEF Settleable
  <2>2. bootPlan # NoPlan
    BY <2>1, NoPlanOutside DEF TInv, RecordNamesPlan
  <2>3. Runs(bootPlan)
    BY <1>4, <2>2, BootPlanRuns DEF SInv, FilesNameRuntime
  <2>4. Runs(bootPlan)'
    BY <1>1, <2>3 DEF Runs, plans
  <2>5. SettleNamesRuntime'
    BY <1>1, <1>4, <2>1, <2>4 DEF SettleNamesRuntime, journals, plans
  <2> QED
    BY <1>4, <2>5
       DEF DInv, ApplyImages, ApplyOpens, ApplySwaps, ApplyCommits,
           ApplyUndoes, OutcomeNamesRuntime, RetryImages,
           BootRestoresCommitted, FailureCosts, Retried
<1> QED
  BY <1>2, <1>3, <1>4, StartupFields

\* The recovery of the committed plan, over a settled journal.
LEMMA ReconcilingNames ==
    ASSUME SInv, op'.kind = "boot", op'.plan = Committed, Settled,
           UNCHANGED <<snap, journals, plans>>,
           \A a \in Adapters :
              runtime'[a].plan \in {runtime[a].plan, NoPlan, Committed}
    PROVE  DInv' /\ SInv'
<1>1. UNCHANGED <<Settled, Settleable, Committed, latest>>
  BY DEF Settled, Settleable, Committed, journals, plans
<1>2. Runs(Committed)
  BY DEF SInv, FilesNameRuntime
<1>3. Runs(Committed)'
  BY <1>1, <1>2 DEF Runs
<1>4. latest.state # "rollback-failed"
  BY DEF Settled, Terminal, NoRecord, Record
<1>5. FailureKeepsImages'
  BY <1>1, <1>4 DEF FailureKeepsImages
<1>6. CommittedJournalIsBootable'
  BY <1>1 DEF SInv, CommittedJournalIsBootable, plans
<1>7. BootRestoresCommitted'
  BY <1>1 DEF BootRestoresCommitted
<1> QED
  BY <1>3, <1>5, <1>6, <1>7
     DEF SInv, FilesNameRuntime, DInv, ApplyImages, ApplyOpens, ApplySwaps,
         ApplyCommits, ApplyUndoes, OutcomeNamesRuntime, SettleNamesRuntime,
         RetryImages, FailureCosts, Retried

LEMMA BootNames ==
    ASSUME TInv, KInv, DInv, SInv,
           \/ BootDecision \/ Reconciled \/ Cleaned \/ RecordRecovery
           \/ SettleSafeMode \/ ClearRetiredSafeMode \/ Crash
           \/ \E a \in Adapters : Reconcile(a) \/ Cleanup(a)
    PROVE  DInv' /\ SInv'
<1>0. /\ op \in Locals /\ runtime \in Runtimes
      /\ cfg \in [applied : Names, safe : BOOLEAN]
  BY DEF TInv, TypeOK
<1>1. CASE BootDecision
  <2>1. /\ op'.kind = "boot" /\ UNCHANGED <<runtime, snap, journals, plans>>
        /\ pc' = "reconcile" => Settled /\ op'.plan = Committed
    BY <1>1, DecisionFields DEF StartupLeaves
  <2>2. CASE pc' = "reconcile"
    BY <2>1, <2>2, ReconcilingNames
  <2>3. CASE pc' # "reconcile"
    BY <2>1, <2>3, QuietNames
  <2> QED
    BY <2>2, <2>3
<1>2. CASE Reconciled \/ Cleaned
  <2>1. /\ pc \in {"reconcile", "cleanup"} /\ pc' # "reconcile"
        /\ op'.kind = op.kind \/ op' = Idle
        /\ UNCHANGED <<runtime, snap, journals, plans>>
    BY <1>0, <1>2, BootEndFields DEF SameJob, StartupLeaves
  <2>2. op'.kind \in {"none", "boot", "deactivate"}
    BY <2>1 DEF KInv, StartupRecovers, Idle
  <2> QED
    BY <2>1, <2>2, QuietNames
<1>3. CASE RecordRecovery
  <2>1. /\ pc = "record" /\ pc' = "settle" /\ op'.kind = op.kind
        /\ UNCHANGED <<runtime, snap, journals, plans>>
    BY <1>0, <1>3, RecordFields DEF SameJob
  <2>2. op'.kind = "boot"
    BY <2>1 DEF KInv, StartupRecovers
  <2> QED
    BY <2>1, <2>2, QuietNames
<1>4. CASE SettleSafeMode \/ ClearRetiredSafeMode
  <2>1. /\ pc' = "idle"
        /\ op' = Idle \/ (pc = "idle" /\ op' = op)
        /\ UNCHANGED <<runtime, snap, journals, plans>>
    BY <1>0, <1>4, SafeModeFields
  <2>2. op' = Idle
    BY <2>1 DEF KInv, RestIsIdle, Resting
  <2> QED
    BY <2>1, <2>2, QuietNames DEF Idle
<1>5. CASE Crash
  <2>1. \A a \in Adapters : runtime'[a].plan \in {runtime[a].plan, NoPlan}
    BY <1>5, CrashFields DEF Torn, Off
  <2> QED
    BY <1>5, <2>1, CrashFields, QuietNames DEF Idle
<1>6. ASSUME NEW a \in Adapters, Reconcile(a)
      PROVE  DInv' /\ SInv'
  <2>1. /\ pc = "reconcile" /\ pc' = "reconcile"
        /\ op'.kind = op.kind /\ op'.plan = op.plan
        /\ UNCHANGED <<snap, journals, plans>>
        /\ Brings(a, Whole(op.plan)) \/ Disturbs(a, op.plan)
    BY <1>0, <1>6, ReconcileFields DEF SameJob, StartupLeaves
  <2>2. op.kind = "boot" /\ op.plan = Committed /\ Settled
    BY <2>1 DEF KInv, StartupRecovers, DInv, BootRestoresCommitted
  <2>3. \A b \in Adapters :
           runtime'[b].plan \in {runtime[b].plan, NoPlan, Committed}
    BY <2>1, <2>2 DEF Brings, Disturbs, Others, Whole
  <2> QED
    BY <2>1, <2>2, <2>3, ReconcilingNames
<1>7. ASSUME NEW a \in Adapters, Cleanup(a)
      PROVE  DInv' /\ SInv'
  <2>1. /\ pc = "cleanup" /\ pc' = "cleanup" /\ op'.kind = op.kind
        /\ UNCHANGED <<snap, journals, plans>>
        /\ runtime' = runtime \/ Brings(a, Off) \/ Disturbs(a, NoPlan)
    BY <1>0, <1>7, CleanupFields DEF SameJob, StartupLeaves
  <2>2. op'.kind \in {"boot", "deactivate"}
    BY <2>1 DEF KInv, StartupRecovers
  <2>3. \A b \in Adapters : runtime'[b].plan \in {runtime[b].plan, NoPlan}
    BY <2>1 DEF Brings, Disturbs, Others, Off
  <2> QED
    BY <2>1, <2>2, <2>3, QuietNames
<1> QED
  BY <1>1, <1>2, <1>3, <1>4, <1>5, <1>6, <1>7


(***************************************************************************)
(* Every step.                                                             *)
(***************************************************************************)
AtWork == Advancing \cup Recording
          \cup {"write-plan", "write-boot", "restore", "gate"}

LEMMA WorkHasKind ==
    KInv /\ pc \in AtWork => op.kind \notin {"none", "boot", "deactivate"}
BY DEF KInv, AdvanceApplies, RestoreUndoes, PlanIsPublished, RecordIsPublished,
       AtWork, Recording, Retried

LEMMA WritesGoOn ==
    ASSUME WriteTx \/ WriteLatest \/ WritePlan \/ WriteBoot
    PROVE  pc' \in AtWork
<1>1. CASE WriteTx \/ WriteLatest
  BY <1>1 DEF WriteTx, WriteLatest, AtWork, Recording
<1>2. ASSUME NEW local, ToRollback(local)
      PROVE  pc' \in AtWork
  BY <1>2 DEF ToRollback, AtWork, Recording
<1>3. pc' \in {"write-tx", "write-boot"} => pc' \in AtWork
  BY DEF AtWork, Recording
<1>4. CASE WritePlan
  BY <1>2, <1>3, <1>4 DEF WritePlan
<1>5. CASE WriteBoot
  BY <1>2, <1>3, <1>5 DEF WriteBoot
<1> QED
  BY <1>1, <1>4, <1>5

LEMMA AdvanceGoesOn ==
    ASSUME \/ Snapshot \/ Candidate \/ HealthAndCommit \/ CommitConfig
           \/ \E a \in Adapters : Activate(a) \/ DeactivateRetiring(a),
           TInv
    PROVE  pc' \in AtWork
<1>1. ASSUME NEW local, ToRollback(local)
      PROVE  pc' \in AtWork
  BY <1>1 DEF ToRollback, AtWork, Recording
<1>2. ASSUME NEW local, NEW refused, Fail(local, refused)
      PROVE  pc' \in AtWork
  BY <1>2 DEF Fail, ToReject, ToRollback, AtWork, Recording
<1>3. pc' \in {"candidate", "activate", "config", "write-tx"} => pc' \in AtWork
  BY DEF AtWork, Advancing, Recording
<1>4. CASE Snapshot
  BY <1>2, <1>3, <1>4, Zenon DEF Snapshot
<1>5. CASE Candidate
  BY <1>2, <1>3, <1>5, Zenon DEF Candidate
<1>6. CASE HealthAndCommit
  BY <1>2, <1>3, <1>6, Zenon DEF HealthAndCommit
<1>7. CASE CommitConfig
  BY <1>1, <1>3, <1>7, Zenon DEF CommitConfig
<1>8. ASSUME NEW a \in Adapters, Activate(a)
      PROVE  pc' \in AtWork
  <2>1. pc = "activate"
    BY <1>8, Zenon DEF Activate
  <2> QED
    BY <1>2, <1>3, <1>8, <2>1, Zenon DEF Activate
<1>9. ASSUME NEW a \in Adapters, DeactivateRetiring(a)
      PROVE  pc' \in AtWork
  <2>1. pc = "activate"
    BY <1>9, Zenon DEF DeactivateRetiring
  <2> QED
    BY <1>2, <1>3, <1>9, <2>1, Zenon DEF DeactivateRetiring
<1> QED
  BY <1>4, <1>5, <1>6, <1>7, <1>8, <1>9, Zenon

LEMMA NextNames ==
    ASSUME AInv, AInv', OInv, OInv', DInv, SInv, faults \in 0 .. 2,
           faults' \in 0 .. 2, Next
    PROVE  DInv' /\ SInv'
<1> USE DEF AInv
<1>0. /\ (/\ TInv /\ KInv /\ UInv /\ DInv /\ faults \in 0 .. 2
          /\ op.kind \notin {"none", "boot", "deactivate"}
          => SInv)'
      /\ (KInv /\ pc \in AtWork
             => op.kind \notin {"none", "boot", "deactivate"})'
  BY WorkNamesRuntime, WorkHasKind, PTL
<1>1. ASSUME DInv', op'.kind \notin {"none", "boot", "deactivate"}
      PROVE  DInv' /\ SInv'
  BY <1>0, <1>1
<1>2. pc' \in AtWork => op'.kind \notin {"none", "boot", "deactivate"}
  BY <1>0
<1>3. ASSUME DInv', pc' \in AtWork
      PROVE  DInv' /\ SInv'
  BY <1>1, <1>2, <1>3
<1>4. CASE Publication
  <2>1. CASE WriteTx \/ WriteLatest \/ WritePlan \/ WriteBoot
    BY <1>3, <2>1, WritesGoOn, TxWriteNames, LatestWriteNames, PlanWriteNames,
       BootWriteNames
  <2>2. CASE Begun \/ Committing \/ CommittedOrNot \/ Rejected \/ RollingBack
             \/ RolledBackOrNot
    <3>1. pc = "written"
      BY <2>2 DEF Begun, Committing, CommittedOrNot, Rejected, RollingBack,
                  RolledBackOrNot
    <3>2. op \in Locals /\ op.plan \in Plans
      BY <3>1 DEF TInv, TypeOK, WorkNamesPlan, Working
    <3>3. UNCHANGED <<runtime, snap, journals, plans>>
      BY <2>2, <3>2, WrittenFields
    <3> QED
      BY <2>2, <3>3, WrittenNames, SameNames
  <2> QED
    BY <1>4, <2>1, <2>2 DEF Publication
<1>5. CASE ApplyStep
  <2>1. CASE Preserve
    <3>1. DInv' /\ (op' = Idle => SInv')
      BY <2>1, PreserveNames
    <3>2. op' # Idle => op'.kind = "apply"
      <4>1. op \in Locals /\ op.kind = "apply"
        BY <2>1 DEF TInv, TypeOK, KInv, AdvanceApplies, Advancing, Preserve
      <4> QED
        BY <2>1, <4>1, PreserveFields, ReturnFields
    <3> QED
      BY <1>1, <3>1, <3>2
  <2>2. CASE Snapshot \/ Candidate \/ HealthAndCommit \/ CommitConfig
    BY <1>3, <2>2, AdvanceGoesOn, SnapshotNames, CandidateNames, HealthNames,
       ConfigNames
  <2>3. ASSUME NEW a \in Adapters, Activate(a) \/ DeactivateRetiring(a)
        PROVE  DInv' /\ SInv'
    BY <1>3, <2>3, AdvanceGoesOn, ActivateNames, RetireNames
  <2> QED
    BY <1>5, <2>1, <2>2, <2>3 DEF ApplyStep
<1>6. CASE RollbackStep
  <2>1. pc' \in AtWork
    BY <1>6 DEF RollbackStep, Restore, UndoConfig, RestoreBootPlan,
                VerifyConsumers, RollbackGate, ToOutcome, AtWork
  <2> QED
    BY <1>3, <1>6, <2>1, RollbackNames
<1>7. CASE RetryAtStart \/ CloseFailedRollback
  <2>1. DInv' /\ (op'.kind \notin Retried => SInv')
    BY <1>7, RecoveryBeginsNamed
  <2> QED
    BY <1>1, <2>1 DEF Retried
<1>8. CASE Start \/ SettleCommit \/ DeactivateAll
  <2>1. DInv' /\ (op'.kind # "settle" => SInv')
    BY <1>8, StartupBeginsNamed
  <2> QED
    BY <1>1, <2>1
<1>9. CASE \/ BootDecision \/ Reconciled \/ Cleaned \/ RecordRecovery
           \/ SettleSafeMode \/ ClearRetiredSafeMode \/ Crash
           \/ \E a \in Adapters : Reconcile(a) \/ Cleanup(a)
  BY <1>9, BootNames
<1>10. ASSUME NEW p \in Plans, StartApply(p)
       PROVE  DInv' /\ SInv'
  <2>1. op'.kind = "apply"
    BY <1>10, StartFields
  <2> QED
    BY <1>1, <1>10, <2>1, StartNames
<1> QED
  BY <1>4, <1>5, <1>6, <1>7, <1>8, <1>9, <1>10
     DEF Next, Daemon, Demand, StartupStep, BootDecision

\* At the beginning nothing runs and no file names anything.
LEMMA InitNames == Init => OInv /\ DInv /\ SInv
<1> SUFFICES ASSUME Init PROVE OInv /\ DInv /\ SInv
  OBVIOUS
<1>1. /\ pc = "down" /\ op = Idle /\ runtime = AllOff /\ snap = AllOff
      /\ latest = NoRecord
  BY DEF Init
<1>2. OInv
  BY <1>1 DEF OInv, Owns, StepsStayInPlan, AllOff, Off
<1>3. DInv
  BY <1>1 DEF DInv, ApplyImages, ApplyOpens, ApplySwaps, ApplyCommits,
     ApplyUndoes, OutcomeNamesRuntime, SettleNamesRuntime, RetryImages,
     BootRestoresCommitted, FailureCosts, Idle, Retried
<1>4. SInv
  BY <1>1 DEF SInv, FilesNameRuntime, FailureKeepsImages, Runs, AllOff, Off,
     CommittedJournalIsBootable, NoRecord, Record
<1> QED
  BY <1>2, <1>3, <1>4

\* The invariant, as long as at most two steps have failed.
NInv == AInv /\ OInv /\ (faults <= 2 => DInv /\ SInv)

LEMMA InitNamesAll == Init => NInv
BY InitRemembers, InitNames DEF NInv

LEMMA NextNamesAll == NInv /\ [Next]_vars => NInv'
<1> SUFFICES ASSUME NInv, [Next]_vars PROVE NInv'
  OBVIOUS
<1>1. AInv /\ OInv /\ (faults <= 2 => DInv /\ SInv)
  BY DEF NInv
<1>2. AInv'
  BY <1>1, NextRemembers
<1>3. OInv'
  BY <1>1, NextOwns DEF AInv
<1>4. faults \in Nat /\ faults' \in Nat
  BY <1>1, <1>2, BoundAssumption DEF AInv, TInv, TypeOK
<1>5. ASSUME faults' <= 2
      PROVE  DInv' /\ SInv'
  <2>1. CASE UNCHANGED vars
    <3>1. faults' = faults /\ pc' = pc /\ op' = op
          /\ UNCHANGED <<runtime, snap, journals, plans>>
      BY <2>1 DEF vars
    <3>2. DInv /\ SInv
      BY <1>1, <1>5, <3>1
    <3>3. SInv'
      BY <3>1, <3>2, SameNames
    <3>4. UNCHANGED <<Settled, Committed>>
          /\ latest' = latest /\ tx' = tx /\ bootPlan' = bootPlan
          /\ latestPlan' = latestPlan
      BY <3>1 DEF Settled, Committed, journals, plans
    <3>5. CommittedJournalIsBootable' = CommittedJournalIsBootable
      BY <3>4 DEF CommittedJournalIsBootable
    <3>6. \A p : Runs(p)' = Runs(p)
      BY <3>1 DEF Runs
    <3>7. /\ ApplyImages' /\ ApplyOpens' /\ ApplySwaps' /\ ApplyCommits'
      BY <3>1, <3>2, <3>4, <3>5, <3>6
         DEF DInv, ApplyImages, ApplyOpens, ApplySwaps, ApplyCommits
    <3>8. Undecided(op.plan)' = Undecided(op.plan)
      BY <3>1, <3>4 DEF Undecided
    <3>9. \A n : Costs(n)' = Costs(n)
      BY <3>1, <3>8 DEF Costs
    <3>10. ApplyUndoes' /\ OutcomeNamesRuntime'
      BY <3>1, <3>2, <3>4, <3>6, <3>8, <3>9
         DEF DInv, ApplyUndoes, OutcomeNamesRuntime
    <3>11. /\ SettleNamesRuntime' /\ RetryImages' /\ BootRestoresCommitted'
           /\ FailureCosts'
      BY <3>1, <3>2, <3>4, <3>6
         DEF DInv, SettleNamesRuntime, RetryImages, BootRestoresCommitted,
             FailureCosts
    <3> QED
      BY <3>3, <3>7, <3>10, <3>11 DEF DInv
  <2>2. CASE Next
    <3>1. faults \in 0 .. 2 /\ faults' \in 0 .. 2
      BY <1>1, <1>4, <1>5, <2>2, FaultsGrow DEF AInv
    <3> QED
      BY <1>1, <1>2, <1>3, <2>2, <3>1, NextNames
  <2> QED
    BY <2>1, <2>2
<1> QED
  BY <1>2, <1>3, <1>5 DEF NInv

\* Until a third step fails, a journal whose outcome is final names the plan
\* to which everything that runs belongs, at every step of every operation and
\* after every crash: what Apply has started and not yet undone is never
\* hidden by the records of a finished outcome (execution_journal.go,
\* checkExecutionRecovery; manager.go, rollback).
THEOREM SettledNamesRuntime ==
    Spec => [](faults <= 2 => SettledJournalNamesTheRuntime)
<1>1. NInv => (faults <= 2 => SettledJournalNamesTheRuntime)
  BY DEF NInv, SInv, FilesNameRuntime, Runs, SettledJournalNamesTheRuntime
<1> QED
  BY <1>1, InitNamesAll, NextNamesAll, PTL DEF Spec

\* Until a third step fails, records that say "committed" are backed by both
\* plan files, so a reboot restores the plan the journal speaks of
\* (manager.go, finishCommit and settleCommittedPublication).
THEOREM CommittedIsBootable ==
    Spec => [](faults <= 2 => CommittedJournalIsBootable)
<1>1. NInv => (faults <= 2 => CommittedJournalIsBootable)
  BY DEF NInv, SInv
<1> QED
  BY <1>1, InitNamesAll, NextNamesAll, PTL DEF Spec

\* Every adapter that runs, wholly or in part, was started for a plan that
\* names it: no step of Apply, rollback or recovery, and no restart, gives an
\* adapter the plan of another (manager.go, Activate, Rollback, Recover).
THEOREM AdaptersRunTheirPlans == Spec => []Owns(runtime)
<1>1. NInv => Owns(runtime)
  BY DEF NInv, OInv
<1> QED
  BY <1>1, InitNamesAll, NextNamesAll, PTL DEF Spec


-----------------------------------------------------------------------------
(***************************************************************************)
(* The boundary outlives its consumers.  A consumer of a managed plan can  *)
(* only be started while Apply activates that plan, after its boundary;    *)
(* the boundary is only touched when no consumer of a managed plan runs:   *)
(* before the first one, after the readback of all of them, or after the   *)
(* last one was deactivated.                                               *)
(***************************************************************************)
NoConsumers(im) == \A a \in Adapters \ {Gate} : im[a].plan \notin LanPlans

ApplyKeepsBoundary ==
    op.kind = "apply" =>
        /\ NoConsumers(snap)
        /\ op.plan \notin LanPlans => NoConsumers(runtime)
        /\ op.prepared # {} =>
              /\ \A a \in Adapters \ ({Gate} \cup op.prepared) :
                    runtime[a].plan \notin LanPlans
              /\ ~op.live => NoConsumers(runtime)
        /\ pc = "activate" /\ Gate \in op.todo => ~op.live
RollbackSparesGate ==
    op.say = "rolling-back" \/ op.kind \in Retried => Gate \notin op.todo
RetriesAreLocal ==
    op.kind \in Retried => {op.plan, bootPlan} \cap LanPlans = {}
BootSparesBoundary ==
    /\ pc = "reconcile" /\ op.plan \in LanPlans
          => op.say # "recovered" /\ op.todo = {}
    /\ pc = "cleanup" /\ op.kind = "boot" => Gate \notin op.todo
DeactivationEmpties ==
    pc = "cleanup" /\ op.kind = "deactivate" /\ ~op.broken =>
        \A a \in Adapters \ op.todo : runtime[a].plan = NoPlan

GInv == /\ GateCoversConsumers /\ ApplyKeepsBoundary /\ RollbackSparesGate
        /\ RetriesAreLocal /\ BootSparesBoundary /\ DeactivationEmpties


\* A plan that reaches the boundary has it among its adapters.
LEMMA BoundaryIsAdapter ==
    ASSUME NEW p \in LanPlans
    PROVE  /\ p \in Plans /\ p # NoPlan
           /\ Gate \in Adapters /\ Gate \in AdaptersOf[p]
           /\ Off # Whole(p) /\ RequiresProof(p)
<1>1. p \in Plans /\ p # NoPlan
  BY PlanAssumption
<1>2. Gate \in AdaptersOf[p] /\ Gate \in Adapters
  BY <1>1, PlanAssumption, LanAssumption
<1>3. NeedsProof[p] # {}
  BY <1>1, <1>2, LanAssumption
<1> QED
  BY <1>1, <1>2, <1>3 DEF Off, Whole, RequiresProof

\* Where the boundary is off no consumer of a managed plan runs.
LEMMA OffMeansNoConsumers ==
    GateCoversConsumers /\ runtime[Gate] = Off => NoConsumers(runtime)
BY BoundaryIsAdapter DEF GateCoversConsumers, NoConsumers

LEMMA NoConsumersCovered ==
    NoConsumers(runtime) => GateCoversConsumers
BY DEF GateCoversConsumers, NoConsumers

LEMMA SameConsumers ==
    /\ UNCHANGED runtime =>
          /\ NoConsumers(runtime)' = NoConsumers(runtime)
          /\ GateCoversConsumers' = GateCoversConsumers
    /\ UNCHANGED snap => NoConsumers(snap)' = NoConsumers(snap)
BY DEF NoConsumers, GateCoversConsumers

\* A step of one consumer that starts nothing beyond the boundary.
LEMMA ConsumerStep ==
    ASSUME GateCoversConsumers, NEW a \in Adapters \ {Gate}, Others(a),
           runtime'[a].plan \in LanPlans =>
              \/ runtime'[a].plan = runtime[a].plan
              \/ runtime[Gate] = Whole(runtime'[a].plan)
    PROVE  GateCoversConsumers'
<1> SUFFICES ASSUME NEW b \in Adapters \ {Gate}, runtime'[b].plan \in LanPlans
             PROVE  runtime'[Gate] = Whole(runtime'[b].plan)
  BY DEF GateCoversConsumers
<1>1. Gate \in Adapters
  BY BoundaryIsAdapter
<1>2. runtime'[Gate] = runtime[Gate]
  BY <1>1 DEF Others
<1>3. CASE b = a
  BY <1>2, <1>3 DEF GateCoversConsumers
<1>4. CASE b # a
  <2>1. runtime'[b] = runtime[b]
    BY <1>4 DEF Others
  <2> QED
    BY <1>2, <2>1 DEF GateCoversConsumers
<1> QED
  BY <1>3, <1>4

\* A step of one adapter that is given no managed plan.
LEMMA NoConsumersStep ==
    ASSUME NoConsumers(runtime), NEW a \in Adapters, Others(a),
           \/ a = Gate
           \/ runtime'[a].plan = runtime[a].plan
           \/ runtime'[a].plan \notin LanPlans
    PROVE  NoConsumers(runtime)'
BY DEF NoConsumers, Others

\* Steps that touch neither the runtime nor the snapshots.
LEMMA BoundaryKept ==
    ASSUME GInv, UNCHANGED <<runtime, snap>>, SameJob(op, op'),
           op'.prepared = op.prepared, op.live => op'.live,
           pc' \notin {"activate", "reconcile", "cleanup"},
           op.kind \in Retried => bootPlan' = bootPlan,
           RollbackSparesGate'
    PROVE  GInv'
<1>1. ApplyKeepsBoundary'
  BY SameConsumers DEF GInv, ApplyKeepsBoundary, SameJob
<1> QED
  BY <1>1, SameConsumers
     DEF GInv, RetriesAreLocal, BootSparesBoundary, DeactivationEmpties, SameJob

\* An operation is over, or has not begun.
LEMMA BoundaryRests ==
    ASSUME GateCoversConsumers', op'.kind \notin {"apply"} \cup Retried,
           op'.say # "rolling-back", pc' \notin {"reconcile", "cleanup"}
    PROVE  GInv'
BY DEF GInv, ApplyKeepsBoundary, RollbackSparesGate, RetriesAreLocal,
       BootSparesBoundary, DeactivationEmpties

\* Apply goes on, or gives up.
LEMMA BoundaryAdvances ==
    ASSUME op.kind = "apply", SameJob(op, op'), GateCoversConsumers',
           ApplyKeepsBoundary', pc' \notin {"reconcile", "cleanup"},
           op'.say = "rolling-back" => op'.todo = op'.prepared \ {Gate}
    PROVE  GInv'
BY DEF GInv, RollbackSparesGate, RetriesAreLocal, BootSparesBoundary,
       DeactivationEmpties, SameJob, Retried

LEMMA StartKeepsBoundary ==
    ASSUME TInv, SInv, GInv, NEW p \in Plans, StartApply(p)
    PROVE  GInv'
<1>1. /\ Settled /\ pc' = "preserve" /\ snap' = AllOff
      /\ op'.kind = "apply" /\ op'.plan = p /\ op'.say = "applying"
      /\ op'.prepared = {} /\ runtime' = runtime
      /\ Committed \in LanPlans /\ p \notin LanPlans => runtime = AllOff
  BY StartFields
<1>2. NoConsumers(snap)' /\ NoConsumers(AllOff)
  BY <1>1, BoundaryIsAdapter DEF NoConsumers, AllOff, Off
<1>3. p \notin LanPlans => NoConsumers(runtime)
  <2>1. CASE Committed \in LanPlans
    BY <1>1, <1>2, <2>1
  <2>2. CASE Committed \notin LanPlans
    <3>1. Runs(Committed)
      BY <1>1 DEF SInv, FilesNameRuntime
    <3> QED
      BY <2>2, <3>1, BoundaryIsAdapter DEF Runs, NoConsumers
  <2> QED
    BY <2>1, <2>2
<1>4. ApplyKeepsBoundary'
  BY <1>1, <1>2, <1>3, SameConsumers DEF ApplyKeepsBoundary
<1> QED
  BY <1>1, <1>4, SameConsumers
     DEF GInv, RollbackSparesGate, RetriesAreLocal, BootSparesBoundary,
         DeactivationEmpties, Retried


LEMMA PublicationKeepsBoundary ==
    ASSUME TInv, KInv, UInv, GInv, Publication
    PROVE  GInv'
<1>0. op \in Locals
  BY DEF TInv, TypeOK
<1>1. Gate \in op.todo => op.say # "rolling-back" /\ op.kind \notin Retried
  BY DEF GInv, RollbackSparesGate
<1>2. ASSUME RollsBack(op), UNCHANGED <<runtime, snap>>,
             op.kind \in Retried => bootPlan' = bootPlan
      PROVE  GInv'
  <2>1. RollbackSparesGate'
    BY <1>2 DEF RollsBack, RollbackSparesGate
  <2> QED
    BY <1>2, <2>1, BoundaryKept DEF RollsBack
<1>3. ASSUME SameJob(op, op'), SameWork(op, op'), UNCHANGED <<runtime, snap>>,
             op'.say = "rolling-back" => op.say = "rolling-back",
             pc' \notin {"activate", "reconcile", "cleanup"},
             op.kind \in Retried => bootPlan' = bootPlan
      PROVE  GInv'
  <2>1. RollbackSparesGate'
    BY <1>1, <1>3 DEF RollbackSparesGate, SameJob, SameWork
  <2> QED
    BY <1>3, <2>1, BoundaryKept DEF SameWork
<1>4. CASE WriteTx \/ WriteLatest
  BY <1>0, <1>3, <1>4, WriteFields DEF plans
<1>5. CASE WritePlan
  BY <1>0, <1>2, <1>3, <1>5, PlanWriteFields DEF SameJob, SameWork
<1>6. CASE WriteBoot
  <2>1. op.kind = "apply"
    BY <1>0, <1>6, BootWriteFields DEF KInv, PlanIsPublished
  <2> QED
    BY <1>0, <1>2, <1>3, <1>6, <2>1, BootWriteFields
       DEF SameJob, SameWork, Retried
<1>7. CASE Begun \/ Committing \/ CommittedOrNot \/ Rejected \/ RollingBack
           \/ RolledBackOrNot
  <2>1. UNCHANGED <<runtime, snap, bootPlan>>
    BY <1>0, <1>7, WrittenFields DEF plans
  <2>2. ASSUME NEW fence, Return(fence)
        PROVE  GInv'
    <3>1. op' = Idle /\ pc' \notin {"reconcile", "cleanup"}
      BY <2>2, ReturnFields DEF Resting
    <3>2. GateCoversConsumers'
      BY <2>1, SameConsumers DEF GInv
    <3> QED
      BY <3>1, <3>2, BoundaryRests DEF Idle, Retried
  <2>3. CASE op' = op /\ pc' = "snapshot"
    BY <1>3, <2>1, <2>3 DEF SameJob, SameWork
  <2>4. CASE Leaves(op)
    BY <1>2, <2>1, <2>4 DEF Leaves
  <2>5. CASE /\ SameJob(op, op') /\ SameWork(op, op')
             /\ pc' \in {"write-plan", "restore"}
             /\ op'.say \in {op.say, "committed", "rollback-failed"}
    BY <1>3, <2>1, <2>5
  <2> QED
    BY <1>0, <1>7, <2>2, <2>3, <2>4, <2>5, WrittenFields
<1> QED
  BY <1>4, <1>5, <1>6, <1>7 DEF Publication

LEMMA PreserveKeepsBoundary ==
    ASSUME TInv, KInv, GInv, Preserve
    PROVE  GInv'
<1>0. op \in Locals /\ op.kind = "apply" /\ op.say = "applying"
  BY DEF TInv, TypeOK, KInv, AdvanceApplies, Advancing, Preserve
<1>1. UNCHANGED <<runtime, snap>>
  BY <1>0, PreserveFields
<1>2. CASE op' = op /\ pc' = "write-tx"
  <2>1. RollbackSparesGate'
    BY <1>2 DEF GInv, RollbackSparesGate
  <2> QED
    BY <1>0, <1>1, <1>2, <2>1, BoundaryKept DEF SameJob, Retried
<1>3. CASE op' = Idle /\ pc' \in Resting
  <2>1. GateCoversConsumers'
    BY <1>1, SameConsumers DEF GInv
  <2> QED
    BY <1>3, <2>1, BoundaryRests DEF Idle, Retried, Resting
<1> QED
  BY <1>0, <1>2, <1>3, PreserveFields, ReturnFields

LEMMA SnapshotKeepsBoundary ==
    ASSUME TInv, KInv, UInv, DInv, GInv, Snapshot
    PROVE  GInv'
<1>0. pc = "snapshot"
  BY DEF Snapshot
<1>1. /\ op \in Locals /\ op.kind = "apply" /\ op.say = "applying"
      /\ op.plan \in Plans
  BY <1>0, AdvanceShares DEF Advancing
<1>2. runtime' = runtime
  BY <1>1, SnapshotFields
<1>3. PICK done \in SUBSET Affected(op.plan) :
        /\ snap' = Image(done) /\ op'.prepared = done
        /\ Gate \in Affected(op.plan) \ done => done = {}
        /\ Gate \in done => runtime[Gate] = Off
        /\ SameJob(op, op')
        /\ pc' \in {"candidate", "write-tx", "write-plan"}
        /\ op'.say = "rolling-back" => op'.todo = op'.prepared \ {Gate}
  <2>1. CASE pc' = "candidate"
    BY <1>1, <2>1, SnapshotFields DEF Undoes, Refuses
  <2>2. CASE pc' # "candidate"
    BY <1>1, <2>2, SnapshotFields DEF Undoes, Refuses, Gives
  <2> QED
    BY <2>1, <2>2
<1>4. done # {} => NoConsumers(runtime)
  <2>1. CASE op.plan \in LanPlans
    <3>1. Gate \in Affected(op.plan)
      BY <2>1, BoundaryIsAdapter DEF Affected
    <3> QED
      BY <1>3, <3>1, OffMeansNoConsumers DEF GInv
  <2>2. CASE op.plan \notin LanPlans
    BY <1>1, <2>2 DEF GInv, ApplyKeepsBoundary
  <2> QED
    BY <2>1, <2>2
<1>5. NoConsumers(snap)'
  <2>1. \A a \in Adapters : snap'[a] = IF a \in done THEN runtime[a] ELSE Off
    BY <1>3 DEF Image
  <2> QED
    BY <1>4, <2>1, BoundaryIsAdapter DEF NoConsumers, Off
<1>6. ApplyKeepsBoundary'
  <2>1. op.plan \notin LanPlans => NoConsumers(runtime)
    BY <1>1 DEF GInv, ApplyKeepsBoundary
  <2>2. op'.prepared # {} => NoConsumers(runtime)'
    BY <1>2, <1>3, <1>4, SameConsumers
  <2>3. op'.plan \notin LanPlans => NoConsumers(runtime)'
    BY <1>2, <1>3, <2>1, SameConsumers DEF SameJob
  <2> QED
    BY <1>3, <1>5, <2>2, <2>3 DEF ApplyKeepsBoundary, NoConsumers
<1> QED
  BY <1>1, <1>2, <1>3, <1>6, SameConsumers, BoundaryAdvances DEF GInv

LEMMA CandidateKeepsBoundary ==
    ASSUME TInv, KInv, UInv, DInv, GInv, Candidate
    PROVE  GInv'
<1>0. pc = "candidate"
  BY DEF Candidate
<1>1. /\ op \in Locals /\ op.kind = "apply" /\ op.say = "applying"
      /\ op.plan \in Plans
  BY <1>0, AdvanceShares DEF Advancing
<1>2. ~op.live
  BY <1>0, <1>1 DEF DInv, ApplyOpens
<1>3. UNCHANGED <<runtime, snap>>
  BY <1>1, CandidateFields
<1>4. /\ op'.prepared = op.prepared /\ SameJob(op, op') /\ ~op'.live
      /\ pc' \in {"activate", "write-tx", "write-plan"}
      /\ op'.say = "rolling-back" => op'.todo = op'.prepared \ {Gate}
  <2>1. CASE pc' = "activate"
    BY <1>1, <1>2, <2>1, CandidateFields DEF Undoes, Refuses
  <2>2. CASE pc' # "activate"
    BY <1>1, <1>2, <2>2, CandidateFields DEF Undoes, Refuses, Gives
  <2> QED
    BY <2>1, <2>2
<1>5. ApplyKeepsBoundary'
  BY <1>1, <1>2, <1>3, <1>4, SameConsumers
     DEF GInv, ApplyKeepsBoundary, SameJob
<1> QED
  BY <1>1, <1>3, <1>4, <1>5, SameConsumers, BoundaryAdvances DEF GInv


LEMMA ActivateKeepsBoundary ==
    ASSUME TInv, KInv, UInv, OInv, DInv, GInv, NEW a \in Adapters, Activate(a)
    PROVE  GInv'
<1>0. pc = "activate"
  BY Zenon DEF Activate
<1>1. /\ op \in Locals /\ op.kind = "apply" /\ op.say = "applying"
      /\ op.plan \in Plans /\ runtime \in Runtimes
  BY <1>0, AdvanceShares DEF Advancing
<1>2. /\ op.prepared = AdaptersOf[op.plan] \cup PlanAdapters(op.prevBoot)
      /\ \A b \in AdaptersOf[op.plan] \ op.todo : runtime[b] = Whole(op.plan)
  BY <1>0, <1>1 DEF DInv, ApplySwaps
<1>3. /\ snap' = snap /\ a \in op.todo /\ (a # Gate => Gate \notin op.todo)
      /\ op'.prepared = op.prepared /\ SameJob(op, op')
      /\ pc' \in {"activate", "write-tx", "write-plan"}
      /\ op'.say = "rolling-back" => op'.todo = op'.prepared \ {Gate}
      /\ \/ /\ Brings(a, Whole(op.plan)) \/ Disturbs(a, op.plan)
            /\ op'.live
            /\ pc' = "activate" => op'.todo = op.todo \ {a}
         \/ runtime' = runtime /\ (op'.live => op.live) /\ (op.live => op'.live)
            /\ pc' # "activate"
  BY <1>1, ActivateFields DEF Undoes, Refuses, Gives
<1>4. a \in AdaptersOf[op.plan] /\ a \in op.prepared
  BY <1>0, <1>2, <1>3 DEF OInv, StepsStayInPlan
<1>5. /\ op.plan \notin LanPlans => NoConsumers(runtime)
      /\ NoConsumers(snap)
      /\ \A b \in Adapters \ ({Gate} \cup op.prepared) :
            runtime[b].plan \notin LanPlans
      /\ ~op.live => NoConsumers(runtime)
      /\ Gate \in op.todo => ~op.live
  BY <1>0, <1>1, <1>4 DEF GInv, ApplyKeepsBoundary
<1>6. CASE /\ Brings(a, Whole(op.plan)) \/ Disturbs(a, op.plan)
           /\ op'.live
           /\ pc' = "activate" => op'.todo = op.todo \ {a}
  <2>1. runtime'[a].plan \in {runtime[a].plan, op.plan} /\ Others(a)
    BY <1>6 DEF Brings, Disturbs, Whole
  <2>2. GateCoversConsumers'
    <3>1. CASE a = Gate
      <4>1. NoConsumers(runtime)
        BY <1>3, <1>5, <3>1
      <4>2. NoConsumers(runtime)'
        BY <2>1, <3>1, <4>1, NoConsumersStep
      <4> QED
        BY <4>2 DEF NoConsumers, GateCoversConsumers
    <3>2. CASE a # Gate
      <4>1. op.plan \in LanPlans => runtime[Gate] = Whole(op.plan)
        BY <1>2, <1>3, <3>2, BoundaryIsAdapter
      <4> QED
        BY <2>1, <3>2, <4>1, ConsumerStep DEF GInv
    <3> QED
      BY <3>1, <3>2
  <2>3. ApplyKeepsBoundary'
    <3>1. NoConsumers(snap)'
      BY <1>3, <1>5, SameConsumers
    <3>2. op.plan \notin LanPlans => NoConsumers(runtime)'
      BY <1>5, <2>1, NoConsumersStep
    <3>3. \A b \in Adapters \ ({Gate} \cup op.prepared) :
             runtime'[b].plan \notin LanPlans
      BY <1>4, <1>5, <2>1 DEF Others
    <3>4. pc' = "activate" => Gate \notin op'.todo
      BY <1>3, <1>6
    <3> QED
      BY <1>3, <1>6, <3>1, <3>2, <3>3, <3>4 DEF ApplyKeepsBoundary, SameJob
  <2> QED
    BY <1>1, <1>3, <2>2, <2>3, BoundaryAdvances
<1>7. CASE /\ runtime' = runtime /\ (op'.live => op.live)
           /\ (op.live => op'.live) /\ pc' # "activate"
  <2>1. RollbackSparesGate'
    BY <1>1, <1>3, <1>7 DEF RollbackSparesGate, SameJob, Retried
  <2> QED
    BY <1>1, <1>3, <1>7, <2>1, BoundaryKept DEF Retried
<1> QED
  BY <1>3, <1>6, <1>7

LEMMA RetireKeepsBoundary ==
    ASSUME TInv, KInv, UInv, DInv, GInv, NEW a \in Adapters,
           DeactivateRetiring(a)
    PROVE  GInv'
<1>0. pc = "activate"
  BY Zenon DEF DeactivateRetiring
<1>1. /\ op \in Locals /\ op.kind = "apply" /\ op.say = "applying"
      /\ op.plan \in Plans /\ runtime \in Runtimes
  BY <1>0, AdvanceShares DEF Advancing
<1>2. /\ op.retire \cap AdaptersOf[op.plan] = {}
      /\ op.prepared = AdaptersOf[op.plan] \cup PlanAdapters(op.prevBoot)
  BY <1>0, <1>1 DEF DInv, ApplySwaps
<1>3. /\ snap' = snap /\ a \in op.retire /\ Gate \notin op.todo
      /\ op'.prepared = op.prepared /\ SameJob(op, op') /\ op'.live
      /\ pc' \in {"activate", "write-tx"}
      /\ op'.say = "rolling-back" => op'.todo = op'.prepared \ {Gate}
      /\ Brings(a, Off) \/ Disturbs(a, NoPlan)
      /\ pc' = "activate" => op'.todo = op.todo
  BY <1>1, RetireFields DEF Undoes, Gives
<1>4. runtime'[a].plan \in {runtime[a].plan, NoPlan} /\ Others(a)
  BY <1>3 DEF Brings, Disturbs, Off
<1>5. /\ op.plan \notin LanPlans => NoConsumers(runtime)
      /\ NoConsumers(snap)
      /\ op.prepared # {} => \A b \in Adapters \ ({Gate} \cup op.prepared) :
            runtime[b].plan \notin LanPlans
  BY <1>0, <1>1 DEF GInv, ApplyKeepsBoundary
<1>6. NoPlan \notin LanPlans
  BY BoundaryIsAdapter
<1>7. NoConsumers(runtime) => NoConsumers(runtime)'
  BY <1>4, <1>6, NoConsumersStep
<1>8. GateCoversConsumers'
  <2>1. CASE a = Gate
    <3>1. op.plan \notin LanPlans
      BY <1>2, <1>3, <2>1, BoundaryIsAdapter
    <3> QED
      BY <1>5, <1>7, <3>1 DEF NoConsumers, GateCoversConsumers
  <2>2. CASE a # Gate
    BY <1>4, <1>6, <2>2, ConsumerStep DEF GInv
  <2> QED
    BY <2>1, <2>2
<1>9. ApplyKeepsBoundary'
  <2>1. NoConsumers(snap)'
    BY <1>3, <1>5, SameConsumers
  <2>2. op.prepared # {} => \A b \in Adapters \ ({Gate} \cup op.prepared) :
           runtime'[b].plan \notin LanPlans
    BY <1>4, <1>5, <1>6 DEF Others
  <2> QED
    BY <1>3, <1>5, <1>7, <2>1, <2>2 DEF ApplyKeepsBoundary, SameJob
<1> QED
  BY <1>1, <1>3, <1>8, <1>9, BoundaryAdvances

LEMMA HealthKeepsBoundary ==
    ASSUME TInv, KInv, UInv, DInv, GInv, HealthAndCommit
    PROVE  GInv'
<1>0. pc = "activate" /\ op.todo = {}
  BY Zenon DEF HealthAndCommit
<1>1. /\ op \in Locals /\ op.kind = "apply" /\ op.say = "applying"
      /\ op.plan \in Plans /\ runtime \in Runtimes
  BY <1>0, AdvanceShares DEF Advancing
<1>2. /\ op.prepared = AdaptersOf[op.plan] \cup PlanAdapters(op.prevBoot)
      /\ \A b \in AdaptersOf[op.plan] : runtime[b] = Whole(op.plan)
  BY <1>0, <1>1 DEF DInv, ApplySwaps
<1>3. /\ snap' = snap /\ op'.prepared = op.prepared /\ SameJob(op, op')
      /\ op'.live /\ pc' \in {"config", "write-tx"}
      /\ op'.say = "rolling-back" => op'.todo = op'.prepared \ {Gate}
  BY <1>1, HealthFields DEF Undoes, Gives
<1>4. CASE runtime' = runtime
  <2>1. RollbackSparesGate'
    BY <1>1, <1>3 DEF RollbackSparesGate, SameJob, Retried
  <2> QED
    BY <1>1, <1>3, <1>4, <2>1, BoundaryKept DEF Retried
<1>5. ASSUME NEW torn \in SUBSET (AdaptersOf[op.plan] \ {Gate}),
             runtime' = [b \in Adapters |->
                IF b \in torn THEN Torn(op.plan) ELSE runtime[b]]
      PROVE  GInv'
  <2>1. \A b \in Adapters : runtime'[b].plan = runtime[b].plan
    BY <1>2, <1>5 DEF Torn, Whole
  <2>2. Gate \in Adapters => runtime'[Gate] = runtime[Gate]
    BY <1>5
  <2>3. GateCoversConsumers'
    BY <2>1, <2>2, BoundaryIsAdapter DEF GInv, GateCoversConsumers
  <2>4. NoConsumers(runtime)' = NoConsumers(runtime)
    BY <2>1 DEF NoConsumers
  <2>5. ApplyKeepsBoundary'
    BY <1>1, <1>3, <2>1, <2>4, SameConsumers
       DEF GInv, ApplyKeepsBoundary, SameJob
  <2> QED
    BY <1>1, <1>3, <2>3, <2>5, BoundaryAdvances
<1> QED
  BY <1>1, <1>4, <1>5, HealthFields

LEMMA ConfigKeepsBoundary ==
    ASSUME TInv, KInv, UInv, DInv, GInv, CommitConfig
    PROVE  GInv'
<1>0. pc = "config" /\ cfg \in [applied : Names, safe : BOOLEAN]
  BY DEF CommitConfig, TInv, TypeOK
<1>1. /\ op \in Locals /\ op.kind = "apply" /\ op.say = "applying"
      /\ op.plan \in Plans
  BY <1>0, AdvanceShares DEF Advancing
<1>2. /\ UNCHANGED <<runtime, snap>> /\ op'.prepared = op.prepared
      /\ SameJob(op, op') /\ (op.live => op'.live) /\ pc' = "write-tx"
      /\ op'.say = "rolling-back" => op'.todo = op.prepared \ {Gate}
  BY <1>0, <1>1, ConfigFields
<1>3. RollbackSparesGate'
  BY <1>1, <1>2 DEF RollbackSparesGate, SameJob, Retried
<1> QED
  BY <1>1, <1>2, <1>3, BoundaryKept DEF Retried


\* Rollback, its retry and its close.
LEMMA RestoreKeepsBoundary ==
    ASSUME TInv, KInv, UInv, DInv, GInv, faults \in 0 .. 2,
           NEW a \in Adapters, Restore(a)
    PROVE  GInv'
<1>0. pc = "restore"
  BY DEF Restore
<1>1. /\ op \in Locals /\ runtime \in Runtimes /\ op.plan \in Plans
      /\ \/ op.kind = "apply" /\ op.say = "rolling-back"
         \/ op.kind \in Retried /\ op.say = "none"
  BY <1>0, RollbackShares
<1>2. /\ pc' = "restore" /\ a \in op.todo /\ op'.todo = op.todo \ {a}
      /\ op'.say = op.say /\ op'.prepared = op.prepared
      /\ op'.live = op.live /\ SameJob(op, op')
      /\ UNCHANGED <<snap, bootPlan>>
      /\ Brings(a, Target(a)) \/ Disturbs(a, Target(a).plan)
  BY <1>1, RestoreFields DEF plans
<1>3. Gate \notin op.todo /\ a # Gate
  BY <1>1, <1>2 DEF GInv, RollbackSparesGate
<1>4. Target(a).plan \notin LanPlans
  <2>1. NoPlan \notin LanPlans
    BY BoundaryIsAdapter
  <2>2. Target(a).plan \in {NoPlan, snap[a].plan}
    BY DEF Target, Off
  <2>3. CASE op.kind = "apply"
    BY <1>3, <2>1, <2>2, <2>3 DEF GInv, ApplyKeepsBoundary, NoConsumers
  <2>4. CASE op.kind \in Retried
    BY <2>1, <2>2, <2>4 DEF GInv, RetriesAreLocal, DInv, RetryImages
  <2> QED
    BY <1>1, <2>3, <2>4
<1>5. /\ Others(a)
      /\ runtime'[a].plan = runtime[a].plan \/ runtime'[a].plan \notin LanPlans
  BY <1>2, <1>4 DEF Brings, Disturbs
<1>6. GateCoversConsumers'
  BY <1>3, <1>5, ConsumerStep DEF GInv
<1>7. NoConsumers(runtime) => NoConsumers(runtime)'
  BY <1>5, NoConsumersStep
<1>8. NoConsumers(snap)' = NoConsumers(snap)
  BY <1>2, SameConsumers
<1>9. ApplyKeepsBoundary'
  <2>1. \A b \in Adapters :
           runtime'[b].plan \in LanPlans => runtime[b].plan \in LanPlans
    BY <1>5 DEF Others
  <2> QED
    BY <1>2, <1>7, <1>8, <2>1 DEF GInv, ApplyKeepsBoundary, SameJob
<1>10. RollbackSparesGate' /\ RetriesAreLocal'
  BY <1>2, <1>3 DEF GInv, RollbackSparesGate, RetriesAreLocal, SameJob
<1> QED
  BY <1>2, <1>6, <1>9, <1>10 DEF GInv, BootSparesBoundary, DeactivationEmpties

LEMMA GateKeepsBoundary ==
    ASSUME TInv, KInv, UInv, DInv, GInv, faults \in 0 .. 2, RollbackGate
    PROVE  GInv'
<1>0. pc = "gate" /\ op \in Locals
  BY DEF RollbackGate, TInv, TypeOK
<1>1. /\ runtime \in Runtimes
      /\ \/ op.kind = "apply" /\ op.say = "rolling-back"
         \/ op.kind \in Retried /\ op.say = "none"
  BY <1>0, RollbackShares
<1>2. Gate \in op.prepared => Gate \in Adapters
  BY <1>0 DEF Locals
<1>3. /\ pc' = "write-plan"
      /\ op'.say \in {"rollback-failed", "rolled-back"}
      /\ op'.todo = op.todo /\ op'.prepared = op.prepared
      /\ op'.live = op.live /\ SameJob(op, op')
      /\ UNCHANGED <<snap, bootPlan>>
  BY <1>0, <1>1, <1>2, GateFields DEF SameWork, plans
<1>4. RollbackSparesGate'
  BY <1>3 DEF GInv, RollbackSparesGate, SameJob
<1>5. CASE runtime' = runtime
  BY <1>3, <1>4, <1>5, BoundaryKept
<1>6. CASE /\ Gate \in op.prepared /\ (op.live => op.verified)
           /\ Brings(Gate, snap[Gate]) \/ Disturbs(Gate, snap[Gate].plan)
  <2>1. op.kind = "apply"
    BY <1>1, <1>6 DEF UInv, RetryTouchesConsumers
  <2>2. NoConsumers(runtime)
    <3>1. CASE ~op.live
      BY <1>6, <2>1, <3>1 DEF GInv, ApplyKeepsBoundary
    <3>2. CASE op.live
      <4>1. \A a \in op.prepared \ {Gate} : runtime[a] = snap[a]
        BY <1>0, <1>6, <2>1, <3>2 DEF UInv, GateFollowsReadback, Target
      <4>2. /\ NoConsumers(snap)
            /\ \A a \in Adapters \ ({Gate} \cup op.prepared) :
                  runtime[a].plan \notin LanPlans
        BY <1>6, <2>1 DEF GInv, ApplyKeepsBoundary
      <4> QED
        BY <4>1, <4>2 DEF NoConsumers
    <3> QED
      BY <3>1, <3>2
  <2>3. NoConsumers(runtime)'
    BY <1>2, <1>6, <2>2, NoConsumersStep DEF Brings, Disturbs
  <2>4. GateCoversConsumers'
    BY <2>3 DEF NoConsumers, GateCoversConsumers
  <2>5. ApplyKeepsBoundary'
    BY <1>3, <2>1, <2>3, SameConsumers
       DEF GInv, ApplyKeepsBoundary, NoConsumers, SameJob
  <2> QED
    BY <1>3, <2>1, <2>4, <2>5, BoundaryAdvances
<1> QED
  BY <1>0, <1>1, <1>2, <1>5, <1>6, GateFields

LEMMA RollbackKeepsBoundary ==
    ASSUME TInv, KInv, UInv, DInv, GInv, faults \in 0 .. 2, RollbackStep
    PROVE  GInv'
<1>0. /\ op \in Locals /\ cfg \in [applied : Names, safe : BOOLEAN]
  BY DEF TInv, TypeOK
<1>1. ASSUME op'.say = op.say, SameJob(op, op'), SameWork(op, op'),
             UNCHANGED <<runtime, snap>>, pc' \in {"restore", "gate"},
             op.kind \in Retried => bootPlan' = bootPlan
      PROVE  GInv'
  <2>1. RollbackSparesGate'
    BY <1>1 DEF GInv, RollbackSparesGate, SameJob, SameWork
  <2> QED
    BY <1>1, <2>1, BoundaryKept DEF SameWork
<1>2. CASE UndoConfig
  BY <1>0, <1>1, <1>2, UndoFields DEF plans
<1>3. CASE RestoreBootPlan
  <2>1. op.kind \in Retried => ~op.pub
    BY DEF UInv, RetryTouchesConsumers
  <2> QED
    BY <1>0, <1>1, <1>3, <2>1, BootRestoreFields
<1>4. CASE VerifyConsumers
  BY <1>0, <1>1, <1>4, VerifyFields DEF plans
<1> QED
  BY <1>2, <1>3, <1>4, RestoreKeepsBoundary, GateKeepsBoundary
     DEF RollbackStep


\* Startup, cleanup and the end of the daemon.
LEMMA RecoveryKeepsBoundary ==
    ASSUME TInv, KInv, GInv,
           RetryAtStart \/ CloseFailedRollback \/ Start \/ SettleCommit
           \/ DeactivateAll
    PROVE  GInv'
<1>1. UNCHANGED <<runtime, snap, plans>>
  BY RecoveringFields, StartupFields DEF StartupLeaves
<1>2. GateCoversConsumers'
  BY <1>1, SameConsumers DEF GInv
<1>3. CASE op' = op /\ pc \in Resting /\ pc' \in Resting
  <2>1. op' = Idle
    BY <1>3 DEF KInv, RestIsIdle
  <2> QED
    BY <1>2, <1>3, <2>1, BoundaryRests DEF Idle, Retried, Resting
<1>4. CASE /\ Retriable /\ pc' = "restore" /\ op'.kind \in Retried
           /\ op'.plan = latest.plan /\ op'.say = "none"
           /\ op'.todo = PlanAdapters(latest.plan)
  <2>1. /\ PlanAdapters(bootPlan) = PlanAdapters(latest.plan)
        /\ Gate \notin PlanAdapters(latest.plan)
    BY <1>4, PlanAssumption DEF Retriable
  <2>2. {latest.plan, bootPlan} \cap LanPlans = {}
    BY <2>1, BoundaryIsAdapter DEF PlanAdapters
  <2>3. RollbackSparesGate' /\ RetriesAreLocal'
    BY <1>1, <1>4, <2>1, <2>2 DEF RollbackSparesGate, RetriesAreLocal, plans
  <2> QED
    BY <1>2, <1>4, <2>3
       DEF GInv, ApplyKeepsBoundary, BootSparesBoundary, DeactivationEmpties,
           Retried
<1>5. CASE op'.kind = "settle" /\ op'.say = "committed" /\ pc' = "write-tx"
  BY <1>2, <1>5, BoundaryRests DEF Retried
<1>6. CASE /\ op'.kind = "deactivate" /\ op'.say = "none" /\ pc' = "cleanup"
           /\ op'.todo = Adapters
  BY <1>2, <1>6
     DEF GInv, ApplyKeepsBoundary, RollbackSparesGate, RetriesAreLocal,
         BootSparesBoundary, DeactivationEmpties, Retried
<1>7. \A p : p \in {"down", "retry", "recover", "check"} => p \in Resting
  BY DEF Resting
<1>8. CASE RetryAtStart \/ CloseFailedRollback
  BY <1>3, <1>4, <1>7, <1>8, RecoveringFields DEF Retried
<1>9. CASE Start \/ SettleCommit \/ DeactivateAll
  BY <1>3, <1>5, <1>6, <1>7, <1>9, StartupFields
<1> QED
  BY <1>8, <1>9

LEMMA DecisionKeepsBoundary ==
    ASSUME TInv, GInv, BootDecision
    PROVE  GInv'
<1>1. /\ op'.kind = "boot" /\ runtime' = runtime
      /\ op'.say \in Refusals \cup Recovered
      /\ \/ pc' = "record"
         \/ /\ pc' = "reconcile" /\ op'.plan = Committed
            /\ op'.say = "network-stale"
            /\ op'.todo = AdaptersOf[Committed] \ NeedsProof[Committed]
         \/ /\ pc' = "reconcile" /\ op'.plan = Committed
            /\ ~RequiresProof(Committed)
         \/ /\ pc' = "cleanup" /\ Committed # NoPlan
            /\ ~RequiresProof(Committed) /\ op'.todo = AdaptersOf[Committed]
  BY DecisionFields DEF Refusals, Recovered
<1>2. GateCoversConsumers'
  BY <1>1, SameConsumers DEF GInv
<1>3. Committed \in LanPlans => AdaptersOf[Committed] \ NeedsProof[Committed] = {}
  BY BoundaryIsAdapter, LanAssumption
<1>4. ~RequiresProof(Committed) => Committed \notin LanPlans
  BY BoundaryIsAdapter
<1>5. Committed # NoPlan /\ Committed \notin LanPlans
      => Gate \notin AdaptersOf[Committed]
  <2>1. Committed \in Plans \cup {NoPlan}
    BY CommittedValue DEF TInv, Names
  <2> QED
    BY <2>1, LanAssumption
<1>6. BootSparesBoundary'
  BY <1>1, <1>3, <1>4, <1>5 DEF BootSparesBoundary
<1>7. op'.say # "rolling-back"
  BY <1>1 DEF Refusals, Recovered
<1> QED
  BY <1>1, <1>2, <1>6, <1>7
     DEF GInv, ApplyKeepsBoundary, RollbackSparesGate, RetriesAreLocal,
         DeactivationEmpties, Retried

LEMMA ReconcileKeepsBoundary ==
    ASSUME TInv, KInv, OInv, GInv, NEW a \in Adapters, Reconcile(a)
    PROVE  GInv'
<1>0. op \in Locals /\ runtime \in Runtimes
  BY DEF TInv, TypeOK
<1>1. /\ pc = "reconcile" /\ pc' = "reconcile" /\ a \in op.todo
      /\ op'.todo = op.todo \ {a} /\ op'.say = op.say /\ SameJob(op, op')
      /\ Brings(a, Whole(op.plan)) \/ Disturbs(a, op.plan)
  BY <1>0, ReconcileFields
<1>2. op.plan \in Plans /\ op.kind = "boot" /\ a \in AdaptersOf[op.plan]
  BY <1>1 DEF TInv, WorkNamesPlan, Working, KInv, StartupRecovers, OInv,
              StepsStayInPlan
<1>3. op.plan \notin LanPlans
  BY <1>1 DEF GInv, BootSparesBoundary
<1>4. a # Gate
  BY <1>2, <1>3, LanAssumption
<1>5. /\ Others(a)
      /\ runtime'[a].plan \in LanPlans => runtime'[a].plan = runtime[a].plan
  BY <1>1, <1>3 DEF Brings, Disturbs, Whole
<1>6. GateCoversConsumers'
  BY <1>4, <1>5, ConsumerStep DEF GInv
<1>7. BootSparesBoundary' /\ RollbackSparesGate'
  BY <1>1, <1>2, <1>3
     DEF GInv, BootSparesBoundary, RollbackSparesGate, SameJob, Retried
<1> QED
  BY <1>1, <1>2, <1>6, <1>7
     DEF GInv, ApplyKeepsBoundary, RetriesAreLocal, DeactivationEmpties,
         SameJob, Retried

LEMMA CleanupKeepsBoundary ==
    ASSUME TInv, KInv, GInv, NEW a \in Adapters, Cleanup(a)
    PROVE  GInv'
<1>0. op \in Locals /\ runtime \in Runtimes
  BY DEF TInv, TypeOK
<1>1. /\ pc = "cleanup" /\ pc' = "cleanup" /\ a \in op.todo
      /\ a = Gate => op.todo = {Gate}
      /\ \/ /\ a = Gate => ~op.broken
            /\ Brings(a, Off) /\ op'.broken = op.broken
         \/ a = Gate /\ op.broken /\ op'.broken /\ runtime' = runtime
         \/ (a = Gate => ~op.broken) /\ Disturbs(a, NoPlan) /\ op'.broken
      /\ op'.say = op.say /\ op'.todo = op.todo \ {a} /\ SameJob(op, op')
  BY <1>0, CleanupFields DEF TInv, TypeOK
<1>2. op.kind \in {"boot", "deactivate"} /\ op.say # "rolling-back"
  BY <1>1 DEF KInv, StartupRecovers, Refusals, Recovered
<1>3. NoPlan \notin LanPlans
  BY BoundaryIsAdapter
<1>4. GateCoversConsumers'
  <2>1. CASE runtime' = runtime
    BY <2>1, SameConsumers DEF GInv
  <2>2. CASE a # Gate /\ (Brings(a, Off) \/ Disturbs(a, NoPlan))
    <3>1. /\ Others(a)
          /\ runtime'[a].plan \in {runtime[a].plan, NoPlan}
      BY <2>2 DEF Brings, Disturbs, Off
    <3> QED
      BY <1>3, <2>2, <3>1, ConsumerStep DEF GInv
  <2>3. CASE /\ a = Gate /\ ~op.broken
             /\ Brings(a, Off) \/ Disturbs(a, NoPlan)
    <3>1. op.kind = "deactivate"
      BY <1>1, <1>2, <2>3 DEF GInv, BootSparesBoundary
    <3>2. \A b \in Adapters \ {Gate} : runtime[b].plan = NoPlan
      BY <1>1, <2>3, <3>1 DEF GInv, DeactivationEmpties
    <3>3. NoConsumers(runtime)
      BY <1>3, <3>2 DEF NoConsumers
    <3>4. NoConsumers(runtime)'
      BY <2>3, <3>3, NoConsumersStep DEF Brings, Disturbs
    <3> QED
      BY <3>4 DEF NoConsumers, GateCoversConsumers
  <2> QED
    BY <1>1, <2>1, <2>2, <2>3
<1>5. BootSparesBoundary' /\ RollbackSparesGate'
  BY <1>1, <1>2
     DEF GInv, BootSparesBoundary, RollbackSparesGate, SameJob, Retried
<1>6. DeactivationEmpties'
  <2> SUFFICES ASSUME op.kind = "deactivate", ~op'.broken,
                      NEW b \in Adapters \ op'.todo
               PROVE  runtime'[b].plan = NoPlan
    BY <1>1 DEF DeactivationEmpties, SameJob
  <2>1. Brings(a, Off) /\ op'.broken = op.broken
    BY <1>1
  <2> QED
    BY <1>1, <2>1 DEF GInv, DeactivationEmpties, Brings, Others, Off
<1> QED
  BY <1>1, <1>2, <1>4, <1>5, <1>6
     DEF GInv, ApplyKeepsBoundary, RetriesAreLocal, SameJob, Retried

LEMMA BootKeepsBoundary ==
    ASSUME TInv, KInv, GInv,
           \/ Reconciled \/ Cleaned \/ RecordRecovery \/ SettleSafeMode
           \/ ClearRetiredSafeMode \/ Crash
    PROVE  GInv'
<1>0. op \in Locals /\ cfg \in [applied : Names, safe : BOOLEAN]
  BY DEF TInv, TypeOK
<1>1. CASE Reconciled \/ Cleaned
  <2>1. runtime' = runtime /\ pc \in {"reconcile", "cleanup"}
    BY <1>0, <1>1, BootEndFields
  <2>2. GateCoversConsumers'
    BY <2>1, SameConsumers DEF GInv
  <2>3. /\ op.kind \in {"boot", "deactivate"}
        /\ op.say # "rolling-back"
    BY <2>1 DEF KInv, StartupRecovers, Refusals, Recovered
  <2>4. CASE /\ pc = "reconcile" /\ op.say = "recovered" /\ pc' = "cleanup"
             /\ op'.say = "degraded" /\ op'.todo = AdaptersOf[op.plan]
             /\ SameJob(op, op')
    <3>1. op.plan \notin LanPlans
      BY <2>4 DEF GInv, BootSparesBoundary
    <3>2. op.plan \in Plans /\ op.kind = "boot"
      BY <2>4 DEF TInv, WorkNamesPlan, Working, KInv, StartupRecovers
    <3>3. Gate \notin AdaptersOf[op.plan]
      BY <3>1, <3>2, LanAssumption
    <3> QED
      BY <2>2, <2>4, <3>2, <3>3
         DEF GInv, ApplyKeepsBoundary, RollbackSparesGate, RetriesAreLocal,
             BootSparesBoundary, DeactivationEmpties, SameJob, Retried
  <2>5. CASE pc' = "record" /\ op'.say = op.say /\ op'.kind = op.kind
    BY <2>2, <2>3, <2>5, BoundaryRests DEF Retried
  <2>6. CASE pc' = "down" /\ op' = Idle
    BY <2>2, <2>6, BoundaryRests DEF Idle, Retried
  <2> QED
    BY <1>0, <1>1, <2>4, <2>5, <2>6, BootEndFields DEF SameJob
<1>2. CASE RecordRecovery
  <2>1. /\ pc = "record" /\ pc' = "settle" /\ runtime' = runtime
        /\ op'.say = op.say /\ op'.kind = op.kind
    BY <1>0, <1>2, RecordFields DEF SameJob
  <2>2. op.kind = "boot" /\ op.say # "rolling-back"
    BY <2>1 DEF KInv, StartupRecovers, Refusals, Recovered
  <2> QED
    BY <2>1, <2>2, SameConsumers, BoundaryRests DEF GInv, Retried
<1>3. CASE SettleSafeMode \/ ClearRetiredSafeMode
  <2>1. /\ pc' = "idle" /\ runtime' = runtime
        /\ op' = Idle \/ (pc = "idle" /\ op' = op)
    BY <1>0, <1>3, SafeModeFields
  <2>2. op' = Idle
    BY <2>1 DEF KInv, RestIsIdle, Resting
  <2> QED
    BY <2>1, <2>2, SameConsumers, BoundaryRests DEF GInv, Idle, Retried
<1>4. CASE Crash
  <2>1. pc' = "down" /\ op' = Idle
    BY <1>4, CrashFields
  <2>2. GateCoversConsumers'
    <3>1. CASE runtime' = runtime
      BY <3>1, SameConsumers DEF GInv
    <3>2. CASE runtime' = [a \in Adapters |->
                             IF a = Gate /\ runtime[a] # Off
                               THEN Torn(runtime[a].plan) ELSE Off]
      BY <3>2, BoundaryIsAdapter DEF GateCoversConsumers, Off
    <3> QED
      BY <1>4, <3>1, <3>2, CrashFields
  <2> QED
    BY <2>1, <2>2, BoundaryRests DEF Idle, Retried
<1> QED
  BY <1>1, <1>2, <1>3, <1>4

LEMMA NextKeepsBoundary ==
    ASSUME AInv, OInv, DInv, SInv, GInv, faults \in 0 .. 2, Next
    PROVE  GInv'
<1> USE DEF AInv
<1>1. CASE Publication
  BY <1>1, PublicationKeepsBoundary
<1>2. CASE ApplyStep
  BY <1>2, PreserveKeepsBoundary, SnapshotKeepsBoundary,
     CandidateKeepsBoundary, ActivateKeepsBoundary, RetireKeepsBoundary,
     HealthKeepsBoundary, ConfigKeepsBoundary DEF ApplyStep
<1>3. CASE RollbackStep
  BY <1>3, RollbackKeepsBoundary
<1>4. CASE StartupStep
  BY <1>4, RecoveryKeepsBoundary, DecisionKeepsBoundary, BootKeepsBoundary,
     ReconcileKeepsBoundary, CleanupKeepsBoundary
     DEF StartupStep, BootDecision
<1>5. CASE Demand
  BY <1>5, StartKeepsBoundary, RecoveryKeepsBoundary, BootKeepsBoundary
     DEF Demand
<1> QED
  BY <1>1, <1>2, <1>3, <1>4, <1>5 DEF Next, Daemon

\* At the beginning nothing runs.
LEMMA InitBoundary == Init => GInv
<1> SUFFICES ASSUME Init PROVE GInv
  OBVIOUS
<1>1. pc = "down" /\ op = Idle /\ runtime = AllOff
  BY DEF Init
<1>2. GateCoversConsumers
  BY <1>1, BoundaryIsAdapter DEF GateCoversConsumers, AllOff, Off
<1> QED
  BY <1>1, <1>2
     DEF GInv, ApplyKeepsBoundary, RollbackSparesGate, RetriesAreLocal,
         BootSparesBoundary, DeactivationEmpties, Idle, Retried

BoundaryInv == NInv /\ (faults <= 2 => GInv)

LEMMA NextKeepsBoundaryAll == BoundaryInv /\ [Next]_vars => BoundaryInv'
<1> SUFFICES ASSUME BoundaryInv, [Next]_vars PROVE BoundaryInv'
  OBVIOUS
<1>1. NInv /\ (faults <= 2 => GInv)
  BY DEF BoundaryInv
<1>2. NInv'
  BY <1>1, NextNamesAll
<1>3. faults \in Nat /\ AInv /\ OInv
  BY <1>1, BoundAssumption DEF NInv, AInv, TInv, TypeOK
<1>4. ASSUME faults' <= 2
      PROVE  GInv'
  <2>1. CASE UNCHANGED vars
    <3>1. UNCHANGED <<pc, op, runtime, snap, bootPlan>> /\ faults' = faults
      BY <2>1 DEF vars, plans
    <3>2. GInv
      BY <1>1, <1>4, <3>1
    <3> QED
      BY <3>1, <3>2, SameConsumers
         DEF GInv, ApplyKeepsBoundary, RollbackSparesGate, RetriesAreLocal,
             BootSparesBoundary, DeactivationEmpties
  <2>2. CASE Next
    <3>1. faults \in 0 .. 2
      BY <1>3, <1>4, <2>2, FaultsGrow DEF AInv
    <3>2. DInv /\ SInv /\ GInv
      BY <1>1, <3>1 DEF NInv
    <3> QED
      BY <1>3, <2>2, <3>1, <3>2, NextKeepsBoundary
  <2> QED
    BY <2>1, <2>2
<1> QED
  BY <1>2, <1>4 DEF BoundaryInv

\* Until a third step fails, no adapter of a managed plan runs without the
\* whole boundary of that plan: the boundary is started before its consumers,
\* and whatever fails, crashes or restarts, it is only touched once all of
\* them are known to have been restored or stopped (manager.go, the order of
\* Activate, rollback and deactivateForRecovery).
THEOREM BoundaryCoversConsumers ==
    Spec => [](faults <= 2 => GateCoversConsumers)
<1>1. Init => BoundaryInv
  BY InitNamesAll, InitBoundary DEF BoundaryInv
<1>2. BoundaryInv => (faults <= 2 => GateCoversConsumers)
  BY DEF BoundaryInv, GInv
<1> QED
  BY <1>1, <1>2, NextKeepsBoundaryAll, PTL DEF Spec

=============================================================================
