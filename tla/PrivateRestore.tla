---------------------------- MODULE PrivateRestore ----------------------------
(***************************************************************************)
(* The import of a private backup and its recovery                         *)
(* (src/internal/restorejournal/journal.go, file_target.go;                *)
(* src/internal/privaterestore; the caller src/internal/app/               *)
(* private_restore.go; the sessions of the stores, as in                   *)
(* src/internal/config/restore.go).                                        *)
(*                                                                         *)
(* An import replaces the files of several stores.  The journal holds the  *)
(* whole plan, before and after images, before the first file is written,  *)
(* then the decision "committed", and is cleared only after the stores in  *)
(* memory have taken their files over.  The daemon may die between any two *)
(* steps, a write may fail with or without effect, the client may go away, *)
(* and a program outside the protocol may write a file.  Startup rolls a   *)
(* prepared plan back, verifies a committed one, and refuses to start over *)
(* anything else.                                                          *)
(*                                                                         *)
(* A target is a number: its rank in the order of sorted identifiers.      *)
(***************************************************************************)
EXTENDS Naturals

CONSTANTS
    Targets,        \* the files an import may replace, by rank
    Images,         \* contents of a file
    Requests,       \* images an import asks for, for some of the targets
    MaxFaults,      \* bound on failed reads, writes and closes
    MaxCrashes,     \* bound on deaths of the process
    MaxEdits        \* bound on writes by other programs

ASSUME TargetAssumption ==
    /\ Targets \subseteq Nat
    /\ Images # {}
    /\ Requests \subseteq UNION {[S -> Images] : S \in SUBSET Targets}
ASSUME BoundAssumption ==
    MaxFaults \in Nat /\ MaxCrashes \in Nat /\ MaxEdits \in Nat

VARIABLES
    pc,          \* what the process is doing
    op,          \* local variables of the running import or recovery
    disk,        \* the files
    journal,     \* restore.private.json
    held,        \* targets with an open session or file lease
    cache,       \* Store.diskImage: what a store in memory believes
    uncertain,   \* stores with writeUncertain
    blocked,     \* Coordinator.blocked
    fenced,      \* operationgate: closed by Fence
    foreign,     \* history: targets edited by another program since the last
                 \* import began
    faults, crashes, edits

memory == <<held, cache, uncertain, blocked, fenced>>
vars == <<pc, op, disk, journal, memory, foreign, faults, crashes, edits>>

-----------------------------------------------------------------------------
(* Values. *)

Over(images, want) ==
    [t \in Targets |-> IF t \in DOMAIN want THEN want[t] ELSE images[t]]

\* A document of the journal.  A target whose image would not change has no
\* record, so the records are where before and after differ.
Document(state, before, after) ==
    [state |-> state, before |-> before, after |-> after]
Records(doc) == {t \in Targets : doc.before[t] # doc.after[t]}
Blank == [t \in Targets |-> CHOOSE i \in Images : TRUE]
IdleDocument == Document("idle", Blank, Blank)

\* Mutant: an undone target does not count.
PlannedAfterOnly(t) == disk[t] = journal.after[t]

\* checkTargets: every target holds an image of the plan.
Planned(t) ==
    \/ disk[t] = journal.after[t]
    \/ journal.state = "prepared" /\ disk[t] = journal.before[t]

\* What a write may do: succeed, fail without effect, fail after the rename.
Outcomes == {"ok", "lost", "late"}
After(o, old, new) == IF o = "lost" THEN old ELSE new
Fault(o) == IF o = "ok" THEN faults' = faults
                        ELSE faults < MaxFaults /\ faults' = faults + 1
Failed == faults < MaxFaults /\ faults' = faults + 1
NoFault == faults' = faults

NoRequest == [t \in {} |-> t]
NoOp == [mode |-> "none", want |-> NoRequest, todo |-> {}, out |-> "none",
         canceled |-> FALSE, seen |-> Blank]
\* "seen" is history: the files when the import was admitted.
Begun(mode, want) ==
    [NoOp EXCEPT !.mode = mode, !.want = want, !.todo = DOMAIN want,
                 !.seen = disk]
First(t, S) == t \in S /\ \A u \in S : t <= u
Last(t, S) == t \in S /\ \A u \in S : u <= t

\* Points of an import before the journal decides, where its context counts.
Forward == {"open", "prepare", "write"}
\* Points where an online import runs and holds the exclusive admission.
Importing == Forward \cup {"commit", "check", "undo", "handover", "clear",
                           "close", "answer"}

\* An import or a recovery returns; its sessions are closed next.
Return(out) == pc' = "close" /\ op' = [op EXCEPT !.out = out, !.todo = {}]

Init ==
    /\ pc = "down" /\ op = NoOp
    /\ disk \in [Targets -> Images]
    /\ journal = IdleDocument
    /\ held = {} /\ cache = Blank /\ uncertain = {}
    /\ blocked = FALSE /\ fenced = FALSE
    /\ foreign = {} /\ faults = 0 /\ crashes = 0 /\ edits = 0

\* The process ends, and with it sessions, caches, fence and the running import.
Forget ==
    /\ pc' = "down" /\ op' = NoOp
    /\ held' = {} /\ cache' = Blank /\ uncertain' = {}
    /\ blocked' = FALSE /\ fenced' = FALSE

-----------------------------------------------------------------------------
(* Startup. *)

\* Open: a pending document starts its recovery, an idle one touches no file;
\* a journal that cannot be read, or is leased, ends the process.
Boot ==
    /\ pc = "down"
    /\ \/ /\ journal.state = "idle"
          /\ pc' = "ready" /\ NoFault /\ UNCHANGED <<op, held>>
       \/ /\ journal.state # "idle"
          /\ pc' = "check" /\ op' = Begun("boot", NoRequest)
          /\ held' = Records(journal) /\ NoFault
       \/ Failed /\ UNCHANGED <<pc, op, held>>
    /\ UNCHANGED <<disk, journal, cache, uncertain, blocked, fenced, foreign,
                   crashes, edits>>

\* StartRuntime seals the offline interface; then the stores load their files.
StartRuntime ==
    /\ pc = "ready" /\ ~blocked
    /\ pc' = "serving"
    /\ cache' = disk
    /\ UNCHANGED <<op, disk, journal, held, uncertain, blocked, fenced,
                   foreign, faults, crashes, edits>>

\* A blocked coordinator refuses; the process ends.
StartRefused ==
    /\ pc = "ready" /\ blocked
    /\ Forget
    /\ UNCHANGED <<disk, journal, foreign, faults, crashes, edits>>

-----------------------------------------------------------------------------
(* An import: admission, sessions, plan. *)

\* RestoreOnline under the exclusive admission of the gate.
RestoreOnline(want) ==
    /\ pc = "serving" /\ ~fenced /\ ~blocked
    /\ pc' = "open" /\ op' = Begun("online", want)
    /\ foreign' = {}
    /\ UNCHANGED <<disk, journal, memory, faults, crashes, edits>>

\* RestoreOffline, before any store exists.
RestoreOffline(want) ==
    /\ pc = "ready" /\ ~blocked
    /\ pc' = "open" /\ op' = Begun("offline", want)
    /\ foreign' = {}
    /\ UNCHANGED <<disk, journal, memory, faults, crashes, edits>>

\* The client disconnects or its deadline passes.
Cancel ==
    /\ pc \in Forward /\ ~op.canceled
    /\ op' = [op EXCEPT !.canceled = TRUE]
    /\ UNCHANGED <<pc, disk, journal, memory, foreign, faults, crashes, edits>>

\* BeginRestore: an online session needs a store that knows its file.
Current(t) == op.mode = "online" => t \notin uncertain /\ cache[t] = disk[t]

OpenTarget(t) ==
    /\ pc = "open" /\ First(t, op.todo) /\ ~op.canceled /\ Current(t)
    /\ held' = held \cup {t}
    /\ op' = [op EXCEPT !.todo = @ \ {t}]
    /\ UNCHANGED <<pc, disk, journal, cache, uncertain, blocked, fenced,
                   foreign, faults, crashes, edits>>

\* An uncertain store answers ErrRecovery, which blocks the coordinator; a
\* changed file, a busy lease or a canceled request only refuse.
OpenRefused(t) ==
    /\ pc = "open" /\ First(t, op.todo)
    /\ \/ (op.canceled \/ ~Current(t)) /\ NoFault
       \/ Failed
    /\ Return(IF op.mode = "online" /\ t \in uncertain /\ ~op.canceled
              THEN "blocked" ELSE "clean")
    /\ UNCHANGED <<disk, journal, memory, foreign, crashes, edits>>

Opened ==
    /\ pc = "open" /\ op.todo = {}
    /\ pc' = "prepare"
    /\ UNCHANGED <<op, disk, journal, memory, foreign, faults, crashes, edits>>

\* build or ExecuteWithHandover refuse: an image cannot be made, the request
\* names unknown services, a file cannot be read, the plan is too large.  A
\* journal that is pending or cannot be read blocks.
PrepareRefused ==
    /\ pc = "prepare"
    /\ \/ Return(IF journal.state = "idle" THEN "clean" ELSE "blocked") /\ NoFault
       \/ Return("blocked") /\ Failed
    /\ UNCHANGED <<disk, journal, memory, foreign, crashes, edits>>

\* Nothing to change: the stores are handed over and the journal stays idle.
NothingToDo ==
    /\ pc = "prepare" /\ ~op.canceled /\ journal.state = "idle"
    /\ Over(disk, op.want) = disk
    /\ pc' = "handover"
    /\ UNCHANGED <<op, disk, journal, memory, foreign, faults, crashes, edits>>

\* The whole plan is published before the first file is written.
Prepare ==
    /\ pc = "prepare" /\ ~op.canceled /\ journal.state = "idle"
    /\ LET doc == Document("prepared", disk, Over(disk, op.want)) IN
       /\ Records(doc) # {}
       /\ \E o \in Outcomes :
            /\ Fault(o)
            /\ journal' = After(o, journal, doc)
            /\ IF o = "ok"
               THEN pc' = "write" /\ op' = [op EXCEPT !.todo = Records(doc)]
               ELSE Return("blocked")
    /\ UNCHANGED <<disk, memory, foreign, crashes, edits>>

-----------------------------------------------------------------------------
(* An import: files, decision, handover. *)

\* Mutant: the file is replaced without being verified.
SwapUnverified(t, before, after, o) ==
    /\ Fault(o)
    /\ disk' = [disk EXCEPT ![t] = After(o, before, after)]

\* CompareAndSwap of one target: the whole image is verified, then replaced.
CompareAndSwap(t, before, after, o) ==
    /\ disk[t] = before
    /\ Fault(o)
    /\ disk' = [disk EXCEPT ![t] = After(o, before, after)]

WriteTarget(t) ==
    /\ pc = "write" /\ First(t, op.todo) /\ ~op.canceled
    /\ \E o \in Outcomes :
         /\ CompareAndSwap(t, journal.before[t], journal.after[t], o)
         /\ IF o = "ok"
            THEN pc' = pc /\ op' = [op EXCEPT !.todo = @ \ {t}]
            ELSE pc' = "check" /\ op' = [op EXCEPT !.todo = {}]
    /\ UNCHANGED <<journal, memory, foreign, crashes, edits>>

\* abort: the context ended or the file is not the one that was read.
WriteStopped(t) ==
    /\ pc = "write" /\ First(t, op.todo)
    /\ op.canceled \/ disk[t] # journal.before[t]
    /\ pc' = "check" /\ op' = [op EXCEPT !.todo = {}]
    /\ UNCHANGED <<disk, journal, memory, foreign, faults, crashes, edits>>

\* checkTargets after the last write, under a context of its own.
Verify ==
    /\ pc = "write" /\ op.todo = {}
    /\ \/ /\ \A t \in Records(journal) : disk[t] = journal.after[t]
          /\ pc' = "commit" /\ NoFault /\ UNCHANGED op
       \/ /\ \E t \in Records(journal) : disk[t] # journal.after[t]
          /\ Return("blocked") /\ NoFault
       \/ Return("blocked") /\ Failed
    /\ UNCHANGED <<disk, journal, memory, foreign, crashes, edits>>

\* Mutant: a decision whose write failed is taken back.
CommitCompensates ==
    /\ pc = "commit"
    /\ \E o \in Outcomes :
         /\ Fault(o)
         /\ journal' = After(o, journal, [journal EXCEPT !.state = "committed"])
         /\ IF o = "ok" THEN pc' = "handover" /\ UNCHANGED op
            ELSE pc' = "undo" /\ op' = [op EXCEPT !.todo = Records(journal)]
    /\ UNCHANGED <<disk, memory, foreign, crashes, edits>>

\* The decision.  A failed write may have been durable: nothing is undone.
Commit ==
    /\ pc = "commit"
    /\ \E o \in Outcomes :
         /\ Fault(o)
         /\ journal' = After(o, journal, [journal EXCEPT !.state = "committed"])
         /\ IF o = "ok" THEN pc' = "handover" /\ UNCHANGED op
                        ELSE Return("blocked")
    /\ UNCHANGED <<disk, memory, foreign, crashes, edits>>

\* Mutant: the sessions are closed and the stores keep what they believed.
CloseWithoutHandover(broken) ==
    /\ broken \subseteq held
    /\ uncertain' = uncertain \cup broken
    /\ held' = {} /\ UNCHANGED cache
    /\ IF broken = {} THEN NoFault ELSE Failed

\* closeAll: every store takes its file over and gives the lease back; one
\* that cannot read or close it is uncertain from then on.
CloseSessions(broken) ==
    /\ broken \subseteq held
    /\ cache' = [t \in Targets |-> IF t \in held \ broken THEN disk[t]
                                                          ELSE cache[t]]
    /\ uncertain' = uncertain \cup broken
    /\ held' = {}
    /\ IF broken = {} THEN NoFault ELSE Failed

\* Offline and at startup there is no store to hand over to.
Handover ==
    /\ pc = "handover"
    /\ IF op.mode = "online"
       THEN \E broken \in SUBSET held :
              /\ CloseSessions(broken)
              /\ IF broken # {} THEN Return("blocked")
                 ELSE IF journal.state = "idle" THEN Return("clean")
                 ELSE pc' = "clear" /\ UNCHANGED op
       ELSE /\ IF journal.state = "idle" THEN Return("clean")
               ELSE pc' = "clear" /\ UNCHANGED op
            /\ UNCHANGED <<held, cache, uncertain, faults>>
    /\ UNCHANGED <<disk, journal, blocked, fenced, foreign, crashes, edits>>

\* Mutant: an import that was undone is reported as applied.
ClearAsApplied ==
    /\ pc = "clear"
    /\ \E o \in Outcomes :
         /\ Fault(o)
         /\ journal' = After(o, journal, IdleDocument)
         /\ Return(IF o # "ok" THEN "blocked" ELSE "applied")
    /\ UNCHANGED <<disk, memory, foreign, crashes, edits>>

\* The journal is cleared last.
Clear ==
    /\ pc = "clear"
    /\ \E o \in Outcomes :
         /\ Fault(o)
         /\ journal' = After(o, journal, IdleDocument)
         /\ Return(IF o # "ok" THEN "blocked"
                   ELSE IF journal.state = "prepared" THEN "rolled_back"
                   ELSE "applied")
    /\ UNCHANGED <<disk, memory, foreign, crashes, edits>>

-----------------------------------------------------------------------------
(* recoverWithHandover, at startup and after a stopped import. *)

\* Mutant: whatever is pending is undone.
CheckAlwaysUndoes ==
    /\ pc = "check"
    /\ \A t \in Records(journal) : Planned(t)
    /\ pc' = "undo" /\ op' = [op EXCEPT !.todo = Records(journal)]
    /\ UNCHANGED <<disk, journal, memory, foreign, faults, crashes, edits>>

\* Every target is looked at before any is undone.
Check ==
    /\ pc = "check"
    /\ \/ /\ \A t \in Records(journal) : Planned(t)
          /\ IF journal.state = "prepared"
             THEN pc' = "undo" /\ op' = [op EXCEPT !.todo = Records(journal)]
             ELSE pc' = "handover" /\ UNCHANGED op
          /\ NoFault
       \/ (\E t \in Records(journal) : ~Planned(t)) /\ Return("blocked")
          /\ NoFault
       \/ Return("blocked") /\ Failed
    /\ UNCHANGED <<disk, journal, memory, foreign, crashes, edits>>

\* The targets are undone in reverse order; one already undone is skipped.
UndoTarget(t) ==
    /\ pc = "undo" /\ Last(t, op.todo)
    /\ \/ /\ disk[t] = journal.before[t]
          /\ pc' = pc /\ op' = [op EXCEPT !.todo = @ \ {t}]
          /\ NoFault /\ UNCHANGED disk
       \/ \E o \in Outcomes :
            /\ CompareAndSwap(t, journal.after[t], journal.before[t], o)
            /\ IF o = "ok" THEN pc' = pc /\ op' = [op EXCEPT !.todo = @ \ {t}]
                           ELSE Return("blocked")
       \/ /\ disk[t] \notin {journal.before[t], journal.after[t]}
          /\ Return("blocked") /\ NoFault /\ UNCHANGED disk
    /\ UNCHANGED <<journal, memory, foreign, crashes, edits>>

\* The record is given up only if every target was seen undone.
Undone ==
    /\ pc = "undo" /\ op.todo = {}
    /\ \/ /\ \A t \in Records(journal) : disk[t] = journal.before[t]
          /\ pc' = "handover" /\ UNCHANGED op /\ NoFault
       \/ /\ \E t \in Records(journal) : disk[t] # journal.before[t]
          /\ Return("blocked") /\ NoFault
       \/ Return("blocked") /\ Failed
    /\ UNCHANGED <<disk, journal, memory, foreign, crashes, edits>>

-----------------------------------------------------------------------------
(* The end of an import or a recovery. *)

\* The deferred close of RestoreOnline, releaseTargets of the other two.  Only
\* a store of the running daemon has a cache to refresh.
Close ==
    /\ pc = "close"
    /\ \E broken \in SUBSET held :
         LET out == IF broken = {} THEN op.out ELSE "blocked" IN
         /\ IF op.mode = "online" THEN CloseSessions(broken)
            ELSE /\ held' = {} /\ UNCHANGED <<cache, uncertain>>
                 /\ IF broken = {} THEN NoFault ELSE Failed
         /\ CASE op.mode = "online" ->
                   /\ pc' = "answer" /\ op' = [op EXCEPT !.out = out]
                   /\ blocked' = (blocked \/ out = "blocked")
              [] op.mode = "offline" ->
                   /\ pc' = "ready" /\ op' = NoOp
                   /\ blocked' = (blocked \/ out = "blocked")
              [] op.mode = "boot" ->
                   /\ pc' = IF out = "blocked" THEN "down" ELSE "ready"
                   /\ op' = NoOp /\ UNCHANGED blocked
    /\ UNCHANGED <<disk, journal, fenced, foreign, crashes, edits>>

\* Mutant: the admission ends and the gate stays open.
AnswerUnfenced ==
    /\ pc = "answer"
    /\ pc' = "serving" /\ op' = NoOp
    /\ UNCHANGED <<disk, journal, memory, foreign, faults, crashes, edits>>

\* restorePrivateDraft fences the gate before it releases its admission.
Answer ==
    /\ pc = "answer"
    /\ pc' = "serving" /\ op' = NoOp
    /\ fenced' = (fenced \/ op.out = "blocked")
    /\ UNCHANGED <<disk, journal, held, cache, uncertain, blocked, foreign,
                   faults, crashes, edits>>

\* A panic unwinds through the deferred close and the deferred fence.
Panic ==
    /\ pc \in Importing \ {"close", "answer"} /\ op.mode = "online"
    /\ Failed /\ Return("blocked")
    /\ UNCHANGED <<disk, journal, memory, foreign, crashes, edits>>

-----------------------------------------------------------------------------
(* The rest of the daemon, other programs, the end of the process. *)

\* A store saves a file of its own (saveLocked, persistLocked): admitted by the
\* gate, which an import holds exclusively.
SaveStore(t, i) ==
    /\ pc = "serving" /\ ~fenced
    /\ t \notin uncertain /\ cache[t] = disk[t]
    /\ \E o \in Outcomes, known \in BOOLEAN :
         /\ Fault(o)
         /\ disk' = [disk EXCEPT ![t] = After(o, @, i)]
         /\ cache' = IF o = "ok" THEN disk' ELSE cache
         /\ uncertain' = IF o = "ok" \/ (known /\ disk'[t] = cache[t])
                         THEN uncertain ELSE uncertain \cup {t}
    /\ UNCHANGED <<pc, op, journal, held, blocked, fenced, foreign, crashes,
                   edits>>

\* A program outside the protocol replaces a file between two steps.
Edit(t, i) ==
    /\ edits < MaxEdits /\ edits' = edits + 1
    /\ disk[t] # i
    /\ disk' = [disk EXCEPT ![t] = i]
    /\ foreign' = foreign \cup {t}
    /\ UNCHANGED <<pc, op, journal, memory, faults, crashes>>

\* An ordered stop or restart; Coordinator.Close waits for a running import.
Shutdown ==
    /\ pc = "serving"
    /\ Forget
    /\ UNCHANGED <<disk, journal, foreign, faults, crashes, edits>>

Crash ==
    /\ pc # "down" /\ crashes < MaxCrashes /\ crashes' = crashes + 1
    /\ Forget
    /\ UNCHANGED <<disk, journal, foreign, faults, edits>>

-----------------------------------------------------------------------------
Recovery ==
    \/ Boot \/ StartRuntime \/ StartRefused
    \/ Check \/ (\E t \in Targets : UndoTarget(t)) \/ Undone

Import ==
    \/ \E t \in Targets : OpenTarget(t) \/ OpenRefused(t)
    \/ Opened \/ PrepareRefused \/ NothingToDo \/ Prepare
    \/ \E t \in Targets : WriteTarget(t) \/ WriteStopped(t)
    \/ Verify \/ Commit \/ Handover \/ Clear \/ Close \/ Answer

Environment ==
    \/ \E want \in Requests : RestoreOnline(want) \/ RestoreOffline(want)
    \/ Cancel \/ Panic \/ Shutdown \/ Crash
    \/ \E t \in Targets, i \in Images : SaveStore(t, i) \/ Edit(t, i)

Next == Recovery \/ Import \/ Environment

Spec == Init /\ [][Next]_vars

\* A started import or recovery runs to its end; a supervisor starts a daemon
\* that ended.
Fairness == WF_vars(Recovery) /\ WF_vars(Import)
FairSpec == Spec /\ Fairness

-----------------------------------------------------------------------------
(* Properties. *)

OpTypes ==
    [mode : {"none", "boot", "offline", "online"},
     want : Requests \cup {NoRequest}, todo : SUBSET Targets,
     out : {"none", "clean", "applied", "rolled_back", "blocked"},
     canceled : BOOLEAN, seen : [Targets -> Images]]
DocumentTypes ==
    [state : {"idle", "prepared", "committed"},
     before : [Targets -> Images], after : [Targets -> Images]]

\* Types of the variables.
TypeOK ==
    /\ pc \in Importing \cup {"down", "ready", "serving"}
    /\ op \in OpTypes
    /\ disk \in [Targets -> Images]
    /\ journal \in DocumentTypes
    /\ held \in SUBSET Targets /\ cache \in [Targets -> Images]
    /\ uncertain \in SUBSET Targets
    /\ blocked \in BOOLEAN /\ fenced \in BOOLEAN
    /\ foreign \in SUBSET Targets
    /\ faults \in 0..MaxFaults /\ crashes \in 0..MaxCrashes
    /\ edits \in 0..MaxEdits

\* The daemon admits work only over a finished journal: an import whose outcome
\* is in doubt fences the gate before its admission ends, and startup opens
\* nothing over a pending plan.
OpenGateHasIdleJournal ==
    pc = "serving" /\ ~fenced => journal.state = "idle" /\ ~blocked

\* While the daemon admits work, a store believes what its file says, or knows
\* that it does not know: an import is taken over by every cache, a refused or
\* undone one leaves none behind.
CachesFollowFiles ==
    pc = "serving" /\ ~fenced /\ edits = 0 =>
        \A t \in Targets : t \in uncertain \/ cache[t] = disk[t]

\* The outcome reported to the client is what happened: "applied" means every
\* requested image, "rolled_back" and "clean" the images found, and the journal
\* is finished.
AnswerIsTrue ==
    pc = "answer" /\ op.out # "blocked" =>
        /\ journal.state = "idle"
        /\ \A t \in Targets \ foreign :
              disk[t] = IF op.out = "applied" THEN Over(op.seen, op.want)[t]
                                              ELSE op.seen[t]

\* An image that is not in the pending plan is never replaced by an import or a
\* recovery.
ThirdImageIsKept ==
    [][\A t \in Targets :
          journal.state # "idle" /\ disk[t] \notin {journal.before[t], journal.after[t]}
             => disk'[t] = disk[t] \/ edits' # edits]_vars

\* A decision to keep the new images is final: no file goes back while it
\* stands, whatever fails afterwards.
DecisionIsFinal ==
    [][journal.state = "committed" => disk' = disk \/ edits' # edits]_vars

\* A pending plan counts as not begun.
Shown ==
    [t \in Targets |->
        IF /\ journal.state = "prepared" /\ t \notin foreign
           /\ t \in Records(journal)
        THEN journal.before[t] ELSE disk[t]]

Atomic == INSTANCE AtomicRestore WITH
    image <- Shown, open <- (pc = "serving" /\ ~fenced), want <- op.want

\* An import changes the files of its request in one step or not at all, and
\* nothing else is written meanwhile (see AtomicRestore).
ImportIsAtomic == Atomic!Spec

\* Whatever state the process died in, it starts again, unless another program
\* edited a file of the journal (Recover, restorejournal).
StartupSucceeds == (pc = "down") ~> (pc = "ready" \/ foreign # {})
=============================================================================
