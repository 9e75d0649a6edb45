-------------------------- MODULE SelfUpdateJournal --------------------------
(***************************************************************************)
(* The file journal of an application update                               *)
(* (src/internal/selfupdatejournal, with the order that                    *)
(* src/internal/app/self_update_files.go imposes and the helper record of  *)
(* src/internal/updatecheck/file_adapter.go).                              *)
(*                                                                         *)
(* A transaction replaces the application's files one by one, runs         *)
(* installer commands between, and settles: accepted when the candidate    *)
(* panel lives, rolled back otherwise.  One receipt file per transaction   *)
(* and one pointer to the current transaction say how far it came.  The    *)
(* update helper drives it; whoever reviews a failed update may call every *)
(* action again.  Both check a receipt first and take the writer lock      *)
(* after.  Either may die between any two writes, a write may fail before  *)
(* its rename or after it, and a command's worker outlives its caller.     *)
(***************************************************************************)
EXTENDS Naturals, Sequences

CONSTANTS
    N,              \* files of the installation
    Txns,           \* identifiers of transactions
    None,           \* no pointer, no receipt, an absent file
    Base, Foreign,  \* the first installation; an edit of the owner
    Absent,         \* files the first installation does not have
    Configs,        \* files that may change again once an update is settled
    Kinds,          \* the updates that are tried: "ordinary", "bootstrap"
    MaxFaults,      \* bound on failed writes
    MaxCrashes,     \* bound on deaths of a caller
    MaxEdits        \* bound on edits of the owner

Files == 1..N
Contents == Txns \cup {Base, Foreign, None}

ASSUME BoundAssumption ==
    /\ N \in Nat \ {0} /\ Absent \subseteq Files /\ Configs \subseteq Files
    /\ Kinds \subseteq {"ordinary", "bootstrap"}
    /\ MaxFaults \in Nat /\ MaxCrashes \in Nat /\ MaxEdits \in Nat

VARIABLES
    receipts,   \* transaction -> its receipt file
    pointer,    \* current.json: [id, schema]
    dirs,       \* transactions that have a directory in the journal
    disk,       \* installed files
    lock,       \* the caller that holds the writer lock
    call,       \* caller -> what it is doing
    todo,       \* actions the helper still has to call
    worker,     \* the supervised command, or how the last one ended
    started,    \* transaction -> command -> times it was begun
    panel,      \* the files the running panel was started from
    record,     \* the helper record: [id, state]
    archive,    \* transaction -> its retained helper record
    stop,       \* the transaction a durable stop names
    faults, crashes,
    edits       \* of the owner: how many, and files edited since the last comparison

journal == <<receipts, pointer, dirs>>
bounds == <<faults, crashes, edits>>
vars == <<journal, disk, lock, call, todo, worker, started, panel, record, archive,
          stop, bounds>>

-----------------------------------------------------------------------------
(* Receipts. *)

PreFiles == {"stop-old-panel", "prepare-private-state", "quiesce-old-runtime"}
Starts == {"start-candidate-panel", "start-rollback-panel"}
Stops == {"stop-old-panel", "stop-candidate-panel"}
Commands == PreFiles \cup Starts \cup {"stop-candidate-panel", "restore-private-state"}

Live == 2
StoppedSchema == 3
PairedSchema == 4

Phases == {"prepared", "paired-prepared", "installing", "installed", "restoring", "restored",
           "command-started", "command-finished", "accepted", "rolled-back",
           "rolled-back-stopped", "archived"}
Receipts ==
    [schema : {Live, StoppedSchema, PairedSchema}, phase : Phases, index : 0..N,
     command : Commands \cup {"none"}, commands : SUBSET Commands, rollback : BOOLEAN,
     before : BOOLEAN, old : [Files -> Contents]]

Pointers == [id : Txns, schema : {Live, StoppedSchema, PairedSchema}]

\* A missing file is no receipt, no pointer and no retained record, and a free
\* lock has no holder.
ASSUME AbsenceAssumption ==
    /\ None \notin Receipts /\ None \notin Pointers
    /\ None \notin {"completed", "rolled-back", "rolled-back-stopped"}
    /\ None \notin {"helper", "operator"}
\* An edit of the owner leaves bytes that no update installs.
ASSUME EditAssumption == Foreign \notin Txns

Prepared(images) ==
    [schema |-> Live, phase |-> "prepared", index |-> 0, command |-> "none",
     commands |-> {}, rollback |-> FALSE, before |-> FALSE, old |-> images]

Settled(r) == r.phase \in {"accepted", "rolled-back", "rolled-back-stopped", "archived"}

\* The image a file has in the version that r installs or restores.
Image(t, r, rollback, f) == IF rollback THEN r.old[f] ELSE t
HoldsImages(t, r, rollback) == \A f \in Files : disk[f] = Image(t, r, rollback, f)
HoldsRelease(t, r, rollback) ==
    \A f \in Files \ Configs : disk[f] = Image(t, r, rollback, f)

\* A receipt that a reader refuses fences the application for good.
valid(r) ==
    /\ r.schema = PairedSchema =>
          /\ ~r.rollback /\ PreFiles \subseteq r.commands
          /\ r.phase \in {"paired-prepared", "installing", "installed", "command-started",
                         "command-finished", "accepted", "archived"}
          /\ r.phase = "paired-prepared" => r.commands = PreFiles
    /\ r.phase \in {"paired-prepared", "archived"} => r.schema = PairedSchema
    /\ r.schema = StoppedSchema <=> r.phase = "rolled-back-stopped"
    /\ r.phase \in {"prepared", "paired-prepared"} => r.index = 0
    /\ r.phase \in {"installed", "restored"} \/ Settled(r) => r.index = N
    /\ IF r.phase \in {"command-started", "command-finished"}
       THEN /\ r.command \in r.commands
            /\ IF r.before THEN r.index = 0 /\ ~r.rollback /\ r.command \in PreFiles
                           ELSE r.index = N
       ELSE r.command = "none"
    /\ r.before => r.phase = "command-started"
    /\ r.phase \in {"restoring", "restored", "rolled-back", "rolled-back-stopped"} => r.rollback
    /\ r.phase \in {"prepared", "paired-prepared", "installing", "installed", "accepted",
                   "archived"} => ~r.rollback

\* Current: the pointer's schema may lag behind its receipt in two known cuts.
Agrees(p, r) ==
    \/ p.schema = r.schema
    \/ p.schema = Live /\ r.schema = StoppedSchema /\ r.phase = "rolled-back-stopped"
    \/ p.schema = Live /\ r.schema = PairedSchema /\ r.phase = "paired-prepared"
Readable == pointer # None =>
    /\ receipts[pointer.id] # None
    /\ valid(receipts[pointer.id]) /\ Agrees(pointer, receipts[pointer.id])
IsCurrent(t) == pointer # None /\ pointer.id = t /\ Readable

-----------------------------------------------------------------------------
(* Callers. *)

Actors == {"helper", "operator"}
Idle == [pc |-> "idle", action |-> "none", id |-> None]
Goto(a, pc) == call' = [call EXCEPT ![a].pc = pc]
\* The pcs in which the caller holds the writer lock.
Inside == {"receipt", "pointer", "file", "rename", "checkpoint", "run", "running", "write"}
Proceed(a, pc) ==
    /\ Goto(a, pc)
    /\ lock' = IF pc \in Inside THEN a ELSE IF lock = a THEN None ELSE lock

Outcomes == {"ok", "lost", "late"}
Fault(o) ==
    /\ IF o = "ok" THEN faults' = faults
                   ELSE faults < MaxFaults /\ faults' = faults + 1
    /\ UNCHANGED <<crashes, edits>>

\* writeReceipt, then on to pc; an error of the write ends the call.
WriteReceipt(a, r, pc) ==
    \E o \in Outcomes :
        /\ Fault(o)
        /\ receipts' = IF o = "lost" THEN receipts
                       ELSE [receipts EXCEPT ![call[a].id] = r]
        /\ Proceed(a, IF o = "ok" THEN pc ELSE "failed")

WritePointer(a, schema, pc) ==
    \E o \in Outcomes :
        /\ Fault(o)
        /\ pointer' = IF o = "lost" THEN pointer
                      ELSE [id |-> call[a].id, schema |-> schema]
        /\ Proceed(a, IF o = "ok" THEN pc ELSE "failed")

\* Mutant: the prior panel's start counts as a compensation.
CompensatesStart(action) ==
    action \in Stops \cup {"quiesce-old-runtime", "restore", "restore-private-state",
                           "start-rollback-panel", "settle-stopped-rollback", "resolve-unknown"}

\* selfUpdateActionAuthority: what may still run under a stop of the same
\* transaction.
Compensates(action) ==
    action \in Stops \cup {"quiesce-old-runtime", "restore", "restore-private-state",
                           "settle-stopped-rollback", "resolve-unknown"}
Authorized(action, t) == stop = None \/ (stop = t /\ Compensates(action))

\* fileQuiescence: no supervised command runs; once the transaction is current
\* the prior panel has been stopped by its command and nothing is started.
Inactive == worker \notin Commands
Quiescent(t) ==
    /\ Inactive
    /\ IsCurrent(t) =>
          LET phase == receipts[t].phase IN
          /\ started[t]["stop-old-panel"] > 0
          /\ phase \in {"prepared", "paired-prepared", "installing"} =>
                \A c \in PreFiles : started[t][c] > 0
          /\ phase \in {"prepared", "paired-prepared", "installing", "restoring", "restored"} =>
                panel = None
Checks(a) == Authorized(call[a].action, call[a].id) /\ Quiescent(call[a].id)

-----------------------------------------------------------------------------
(* The order the application imposes, on a receipt read without the lock. *)

Terminal(state) == state \in {"completed", "rolled-back", "rolled-back-stopped"}
RecordPending == record.state \in {"restarting", "requires-review"}

\* Inspect: a settled transaction still verifies against its retained record.
\* The settings may have changed since; an edit leaves them readable and of a
\* revision that is not older.
Inspected(t) ==
    LET r == receipts[t] IN
    /\ Settled(r) /\ Terminal(archive[t])
    /\ r.rollback <=> archive[t] # "completed"
    /\ IF archive[t] = "completed" THEN r.phase \in {"accepted", "archived"}
                                  ELSE r.phase = archive[t]
    /\ HoldsRelease(t, r, r.rollback)

\* Without a pointer nothing but the writer marker may be in the journal.
ReadyForAnother ==
    /\ Readable
    /\ IF pointer = None THEN dirs = {} ELSE Inspected(pointer.id)

AppAllows(action, t) ==
    IF action = "prepare" THEN ReadyForAnother
    ELSE /\ IsCurrent(t)
         /\ LET r == receipts[t] IN
            CASE action = "install" ->
                   /\ ~r.rollback /\ r.commands = PreFiles
                   /\ r.phase \in {"prepared", "paired-prepared", "installing"}
              [] action = "restore" ->
                   \/ r.rollback
                   \/ r.commands = PreFiles /\ r.phase \in {"prepared", "installing", "installed"}
                   \/ r.phase = "command-finished" /\ r.command = "stop-candidate-panel"
              [] action \in {"accept-live", "accept-rollback"} ->
                   LET back == action = "accept-rollback" IN
                   \/ r.phase = (IF back THEN "rolled-back" ELSE "accepted") /\ RecordPending /\ record.id = t
                   \/ /\ r.phase = "command-finished"
                      /\ r.command = IF back THEN "start-rollback-panel"
                                             ELSE "start-candidate-panel"
              [] action = "stop-old-panel" ->
                   ~r.rollback /\ r.phase = "prepared" /\ r.commands = {}
              [] action = "prepare-private-state" ->
                   ~r.rollback /\ r.phase = "prepared" /\ r.commands = {"stop-old-panel"}
              [] action = "quiesce-old-runtime" ->
                   /\ ~r.rollback /\ r.phase = "prepared"
                   /\ r.commands = {"stop-old-panel", "prepare-private-state"}
              [] action = "start-candidate-panel" ->
                   ~r.rollback /\ r.phase = "installed" /\ r.commands = PreFiles
              [] action = "stop-candidate-panel" ->
                   /\ ~r.rollback /\ r.phase = "command-finished"
                   /\ r.command = "start-candidate-panel"
              [] action = "restore-private-state" ->
                   r.rollback /\ r.phase = "restored"
              [] action = "start-rollback-panel" ->
                   /\ r.rollback /\ r.phase = "command-finished"
                   /\ r.command = "restore-private-state"
              [] action = "settle-stopped-rollback" -> stop = t
              [] OTHER -> TRUE

Actions == Commands \cup {"prepare", "install", "restore", "accept-live", "accept-rollback",
                          "resolve-unknown", "settle-stopped-rollback", "seal", "retire"}

\* An accepted receipt whose helper record is late: only Finish is retried.
\* Mutant: the receipt's phase is not looked at.
FinishesAnyhow(action, t) == action \in {"accept-live", "accept-rollback"}
Finishes(action, t) ==
    \/ action = "accept-live" /\ receipts[t].phase = "accepted"
    \/ action = "accept-rollback" /\ receipts[t].phase = "rolled-back"

\* SelfUpdateFiles.Action up to the writer lock.
Calls(a, action, t) ==
    /\ call[a].pc = "idle"
    /\ call' = [call EXCEPT ![a] =
                  [pc |-> IF Authorized(action, t) /\ AppAllows(action, t)
                          THEN IF Finishes(action, t) THEN "archive" ELSE "waiting"
                          ELSE "failed",
                   action |-> action, id |-> t]]
    /\ UNCHANGED <<journal, disk, lock, worker, started, panel, record, archive, stop, bounds>>

\* The writer lock is taken; the receipt is read again under it.
Enters(a, actions) ==
    call[a].pc = "waiting" /\ call[a].action \in actions /\ lock = None
At(a, pc) == call[a].pc = pc

\* A check inside an operation that fails: the call ends with what it wrote.
GiveUp(a) ==
    /\ Proceed(a, "failed")
    /\ UNCHANGED <<journal, disk, worker, started, panel, bounds>>

\* openWriter does not wait: a journal in use refuses the call.
Busy(a) == call[a].pc = "waiting" /\ lock # None /\ GiveUp(a)

-----------------------------------------------------------------------------
(* Prepare: images first, the receipt next, the pointer last. *)

MayPrepare(a) ==
    /\ Readable
    /\ pointer # None => Settled(receipts[pointer.id])
    /\ call[a].id \notin dirs
    /\ Checks(a)

Prepare(a) ==
    \/ /\ Enters(a, {"prepare"})
       /\ IF MayPrepare(a)
          THEN /\ dirs' = dirs \cup {call[a].id}
               /\ Proceed(a, "receipt")
               /\ UNCHANGED <<receipts, pointer, disk, worker, started, panel, bounds>>
          ELSE GiveUp(a)
    \/ /\ At(a, "receipt") /\ call[a].action = "prepare"
       /\ IF Checks(a)
          THEN /\ WriteReceipt(a, Prepared(disk), "pointer")
               /\ UNCHANGED <<pointer, dirs, disk, worker, started, panel>>
          ELSE GiveUp(a)
    \/ /\ At(a, "pointer") /\ call[a].action = "prepare"
       /\ IF Checks(a)
          THEN /\ WritePointer(a, Live, "done")
               /\ UNCHANGED <<receipts, dirs, disk, worker, started, panel>>
          ELSE GiveUp(a)

-----------------------------------------------------------------------------
(* Install and Restore: replace file by file, each with its checkpoint. *)

Going(back) == IF back THEN "restoring" ELSE "installing"
Gone(back) == IF back THEN "restored" ELSE "installed"

\* The receipt of a replacement that starts over from the first file.
\* Mutant: it keeps the place the last replacement reached.
AfreshKeepingIndex(r, back) ==
    [r EXCEPT !.phase = Going(back), !.command = "none", !.rollback = back, !.before = FALSE]
Afresh(r, back) ==
    [r EXCEPT !.phase = Going(back), !.index = 0, !.command = "none",
              !.rollback = back, !.before = FALSE]

\* Mutant: a settled transaction is not refused.
MayReplaceSettled(t, back) ==
    /\ IsCurrent(t)
    /\ LET r == receipts[t] IN
       /\ r.phase # "command-started"
       /\ back => r.schema # PairedSchema
       /\ ~back => ~r.rollback /\ r.phase \in {"prepared", "paired-prepared", "installing"}
MayReplace(t, back) ==
    /\ IsCurrent(t)
    /\ LET r == receipts[t] IN
       /\ ~Settled(r) /\ r.phase # "command-started"
       /\ back => r.schema # PairedSchema
       /\ r.schema = PairedSchema => pointer.schema = PairedSchema
       /\ ~back => ~r.rollback /\ r.phase \in {"prepared", "paired-prepared", "installing"}

BeginReplace(a) ==
    /\ Enters(a, {"install", "restore"})
    /\ LET t == call[a].id
           r == receipts[t]
           back == call[a].action = "restore"
           fresh == Afresh(r, back) IN
       IF ~MayReplace(t, back) THEN GiveUp(a)
       ELSE IF r.phase = Gone(back)
       THEN /\ Proceed(a, "done")
            /\ UNCHANGED <<journal, disk, worker, started, panel, bounds>>
       ELSE IF ~Checks(a) THEN GiveUp(a)
       ELSE IF r.phase = Going(back)
       THEN /\ Proceed(a, "file")
            /\ UNCHANGED <<journal, disk, worker, started, panel, bounds>>
       ELSE /\ WriteReceipt(a, fresh, "file")
            /\ UNCHANGED <<pointer, dirs, disk, worker, started, panel>>

\* Mutant: a file is replaced whatever it holds.
CompareNothing(a) ==
    /\ At(a, "file")
    /\ LET r == receipts[call[a].id] f == r.index + 1 IN
       /\ r.index < N
       /\ IF Checks(a)
          THEN /\ edits' = [edits EXCEPT !.unseen = @ \ {f}]
               /\ Proceed(a, "rename")
               /\ UNCHANGED <<journal, disk, worker, started, panel, faults, crashes>>
          ELSE GiveUp(a)

\* replaceFile, first half: only the frozen old or new image may be replaced, and
\* there may be nothing to remove.
CompareFile(a) ==
    /\ At(a, "file")
    /\ LET t == call[a].id
           r == receipts[t]
           f == r.index + 1
           gone == call[a].action = "restore" /\ r.old[f] = None /\ disk[f] = None IN
       /\ r.index < N
       /\ IF Checks(a)
          THEN /\ edits' = [edits EXCEPT !.unseen = @ \ {f}]
               /\ Proceed(a, IF disk[f] \notin {r.old[f], t} THEN "failed"
                             ELSE IF gone THEN "checkpoint" ELSE "rename")
               /\ UNCHANGED <<journal, disk, worker, started, panel, faults, crashes>>
          ELSE GiveUp(a)

\* replaceFile, second half: the image has been copied and synced beside the file,
\* which is not compared again.  The rename, or the removal of a file the old
\* version did not have, may fail before or after its effect.
RenameFile(a) ==
    /\ At(a, "rename")
    /\ LET t == call[a].id
           r == receipts[t]
           f == r.index + 1 IN
       IF Checks(a)
       THEN \E o \in Outcomes :
              /\ Fault(o)
              /\ disk' = IF o = "lost" THEN disk
                         ELSE [disk EXCEPT ![f] = Image(t, r, call[a].action = "restore", f)]
              /\ Proceed(a, IF o = "ok" THEN "checkpoint" ELSE "failed")
              /\ UNCHANGED <<journal, worker, started, panel>>
       ELSE GiveUp(a)

Checkpoint(a) ==
    /\ At(a, "checkpoint")
    /\ WriteReceipt(a, [receipts[call[a].id] EXCEPT !.index = @ + 1], "file")
    /\ UNCHANGED <<pointer, dirs, disk, worker, started, panel>>

FinishReplace(a) ==
    /\ At(a, "file") /\ receipts[call[a].id].index = N
    /\ WriteReceipt(a, [receipts[call[a].id] EXCEPT
                          !.phase = Gone(call[a].action = "restore")], "done")
    /\ UNCHANGED <<pointer, dirs, disk, worker, started, panel>>

Replace(a) ==
    BeginReplace(a) \/ CompareFile(a) \/ RenameFile(a) \/ Checkpoint(a) \/ FinishReplace(a)


-----------------------------------------------------------------------------
(* Execute: the intent is durable before the command starts, and a command's *)
(* name is used once.                                                        *)

\* Mutant: a command's name may be used again.
MayExecuteAgain(t, c) ==
    /\ IsCurrent(t)
    /\ LET r == receipts[t] IN
       \/ r.phase = "prepared" /\ r.schema = Live /\ c \in PreFiles
       \/ r.phase \in {"installed", "restored", "command-finished"}
MayExecute(t, c) ==
    /\ IsCurrent(t)
    /\ LET r == receipts[t] IN
       /\ \/ r.phase = "prepared" /\ r.schema = Live /\ c \in PreFiles
          \/ r.phase \in {"installed", "restored", "command-finished"}
       /\ c \notin r.commands

Intended(r, c) ==
    [r EXCEPT !.phase = "command-started", !.command = c, !.before = r.phase = "prepared",
              !.commands = @ \cup {c}]

\* Mutant: the finished command stays in a prepared receipt.
finishCommandKept(r) ==
    IF r.before THEN [r EXCEPT !.phase = "prepared", !.before = FALSE]
                ELSE [r EXCEPT !.phase = "command-finished"]
finishCommand(r) ==
    IF r.before THEN [r EXCEPT !.phase = "prepared", !.command = "none", !.before = FALSE]
                ELSE [r EXCEPT !.phase = "command-finished"]

BeginCommand(a) ==
    /\ Enters(a, Commands)
    /\ LET t == call[a].id
           c == call[a].action IN
       IF MayExecute(t, c) /\ Authorized(c, t)
       THEN /\ WriteReceipt(a, Intended(receipts[t], c), "run")
            /\ UNCHANGED <<pointer, dirs, disk, worker, started, panel>>
       ELSE GiveUp(a)

\* runFileCommand: the process file of a command is created exclusively; then
\* its worker starts.  The caller waits for it and holds the lock.
RunCommand(a) ==
    /\ At(a, "run")
    /\ LET t == call[a].id
           c == call[a].action IN
       IF Authorized(c, t)
       THEN /\ started' = [started EXCEPT ![t][c] = @ + 1]
            /\ worker' = IF started[t][c] = 0 THEN c ELSE "failed"
            /\ Proceed(a, "running")
            /\ UNCHANGED <<journal, disk, panel, bounds>>
       ELSE GiveUp(a)

\* The worker ends, whether its caller still lives or not; one that fails may
\* have had its effect.
WorkerEnds ==
    /\ worker \in Commands
    /\ \/ /\ worker' = "ok"
          /\ panel' = CASE worker \in Stops -> None
                        [] worker \in Starts -> disk
                        [] OTHER -> panel
       \/ /\ worker' = "failed"
          /\ panel' \in CASE worker \in Stops -> {panel, None}
                          [] worker \in Starts -> {panel, None, disk}
                          [] OTHER -> {panel}
    /\ UNCHANGED <<journal, disk, lock, call, todo, started, record, archive, stop, bounds>>

EndCommand(a) ==
    /\ At(a, "running")
    /\ LET t == call[a].id
           r == receipts[t] IN
       \/ /\ worker = "ok"
          /\ WriteReceipt(a, finishCommand(r),
                          IF Authorized(r.command, t) THEN "done" ELSE "failed")
          /\ UNCHANGED <<pointer, dirs, disk, worker, started, panel>>
       \/ worker = "failed" /\ GiveUp(a)

Execute(a) == BeginCommand(a) \/ RunCommand(a) \/ EndCommand(a)

\* observeFileCommand: the command's process file exists and its process is
\* gone; after a stop or a start command no panel runs.  Other evidence may or
\* may not be there.
Observed(c, t) ==
    /\ started[t][c] > 0 /\ Inactive
    /\ c \in Starts \cup Stops => panel = None

ResolveUnknown(a) ==
    /\ Enters(a, {"resolve-unknown"})
    /\ LET t == call[a].id
           r == receipts[t] IN
       \/ /\ IsCurrent(t) /\ r.phase = "command-started"
          /\ Checks(a) /\ Observed(r.command, t)
          /\ WriteReceipt(a, finishCommand(r), "done")
          /\ UNCHANGED <<pointer, dirs, disk, worker, started, panel>>
       \/ GiveUp(a)

-----------------------------------------------------------------------------
(* Accept and Finish. *)

Wanted(action) == CASE action = "accept-live" -> "completed"
                    [] action = "accept-rollback" -> "rolled-back"
                    [] action = "settle-stopped-rollback" -> "rolled-back-stopped"

\* The panel that runs was started from the files it should have been.
Alive(t, back) == panel = [f \in Files |-> Image(t, receipts[t], back, f)]

Acceptable(a) ==
    LET t == call[a].id
        r == receipts[t]
        back == call[a].action = "accept-rollback" IN
    /\ IsCurrent(t) /\ r.rollback = back
    /\ r.phase \in {Gone(back), "command-finished"}
    /\ back => r.schema # PairedSchema
    /\ Alive(t, back) /\ HoldsImages(t, r, back)

\* Live evidence and the images are checked, then the receipt is written.
Accept(a) ==
    \/ /\ Enters(a, {"accept-live", "accept-rollback"})
       /\ IF Acceptable(a) /\ Authorized(call[a].action, call[a].id)
          THEN /\ Proceed(a, "write")
               /\ UNCHANGED <<journal, disk, worker, started, panel, bounds>>
          ELSE GiveUp(a)
    \/ /\ At(a, "write") /\ call[a].action \in {"accept-live", "accept-rollback"}
       /\ WriteReceipt(a, [receipts[call[a].id] EXCEPT !.command = "none",
                             !.phase = IF call[a].action = "accept-rollback"
                                       THEN "rolled-back" ELSE "accepted"], "archive")
       /\ UNCHANGED <<pointer, dirs, disk, worker, started, panel>>


\* SelfUpdateFileAdapter.Finish, without the writer lock.
Confirmed(a) ==
    LET t == call[a].id
        back == call[a].action = "accept-rollback" IN
    /\ record.id = t
    /\ Authorized(call[a].action, t)
    /\ IsCurrent(t) /\ Finishes(call[a].action, t)
    /\ HoldsImages(t, receipts[t], back) /\ Alive(t, back)

-----------------------------------------------------------------------------
(* SettleStoppedRollback: a restored installation that a stop keeps stopped. *)

StoppedQuietly(t) ==
    /\ stop = t /\ Inactive /\ panel = None
    /\ HoldsImages(t, receipts[t], TRUE)

MaySettle(t) ==
    /\ IsCurrent(t)
    /\ record.id = t /\ (Terminal(record.state) => record.state = "rolled-back-stopped")
    /\ LET r == receipts[t] IN
       /\ r.rollback /\ r.index = N
       /\ \/ r.phase = "rolled-back-stopped"
          \/ r.schema = Live /\ r.phase \in {"restored", "command-finished"}

SettleStoppedRollback(a) ==
    \/ /\ Enters(a, {"settle-stopped-rollback"})
       /\ LET t == call[a].id
              r == receipts[t] IN
          IF ~MaySettle(t) \/ ~StoppedQuietly(t) THEN GiveUp(a)
          ELSE IF r.phase = "rolled-back-stopped"
          THEN /\ Proceed(a, "pointer")
               /\ UNCHANGED <<journal, disk, worker, started, panel, bounds>>
          ELSE /\ WriteReceipt(a, [r EXCEPT !.schema = StoppedSchema, !.command = "none",
                                     !.phase = "rolled-back-stopped", !.before = FALSE],
                               "pointer")
               /\ UNCHANGED <<pointer, dirs, disk, worker, started, panel>>
    \/ /\ At(a, "pointer") /\ call[a].action = "settle-stopped-rollback"
       /\ IF StoppedQuietly(call[a].id)
          THEN /\ WritePointer(a, StoppedSchema, "archive")
               /\ UNCHANGED <<receipts, dirs, disk, worker, started, panel>>
          ELSE GiveUp(a)

-----------------------------------------------------------------------------
(* Paired installations: the prior state is sealed before the files are       *)
(* replaced and retired after the update is accepted.                         *)

MaySeal(t) ==
    /\ IsCurrent(t)
    /\ LET r == receipts[t] IN
       /\ r.schema = Live /\ r.phase = "prepared" /\ r.commands = PreFiles
       /\ HoldsImages(t, r, TRUE)

SealPairedPriorState(a) ==
    \/ /\ Enters(a, {"seal"})
       /\ IF MaySeal(call[a].id) /\ Checks(a)
          THEN /\ WriteReceipt(a, [receipts[call[a].id] EXCEPT
                                     !.schema = PairedSchema, !.phase = "paired-prepared"],
                               "pointer")
               /\ UNCHANGED <<pointer, dirs, disk, worker, started, panel>>
          ELSE GiveUp(a)
    \/ /\ At(a, "pointer") /\ call[a].action = "seal"
       /\ IF Checks(a)
          THEN /\ WritePointer(a, PairedSchema, "done")
               /\ UNCHANGED <<receipts, dirs, disk, worker, started, panel>>
          ELSE GiveUp(a)

RetirePairedPriorState(a) ==
    /\ Enters(a, {"retire"})
    /\ LET t == call[a].id
           r == receipts[t] IN
       IF /\ IsCurrent(t) /\ r.schema = PairedSchema /\ r.phase = "accepted" /\ ~r.rollback
          /\ record = [id |-> t, state |-> "completed"] /\ stop = None
          /\ HoldsImages(t, r, FALSE)
       THEN /\ WriteReceipt(a, [r EXCEPT !.phase = "archived"], "done")
            /\ UNCHANGED <<pointer, dirs, disk, worker, started, panel>>
       ELSE GiveUp(a)


-----------------------------------------------------------------------------
(* The helper record: the retained copy first, the shared record after.       *)

Vouched(a) == IF call[a].action = "settle-stopped-rollback"
              THEN StoppedQuietly(call[a].id) ELSE Confirmed(a)

WriteArchive(a) ==
    /\ At(a, "archive")
    /\ LET t == call[a].id
           wanted == Wanted(call[a].action) IN
       IF ~Vouched(a) \/ (Terminal(record.state) /\ record.state # wanted)
          \/ archive[t] \notin {None, wanted}
       THEN Proceed(a, "failed") /\ UNCHANGED <<archive, bounds>>
       ELSE IF record.state = wanted /\ wanted # "rolled-back-stopped"
       THEN Proceed(a, "done") /\ UNCHANGED <<archive, bounds>>
       ELSE \E o \in Outcomes :
              /\ Fault(o)
              /\ archive' = IF o = "lost" THEN archive ELSE [archive EXCEPT ![t] = wanted]
              /\ Proceed(a, IF o = "ok" THEN "record" ELSE "failed")
    /\ UNCHANGED <<journal, disk, worker, started, panel, record>>

WriteRecord(a) ==
    /\ At(a, "record")
    /\ \E o \in Outcomes :
         /\ Fault(o)
         /\ record' = IF o = "lost" THEN record
                      ELSE [id |-> call[a].id, state |-> Wanted(call[a].action)]
         /\ Proceed(a, IF o = "ok" THEN "done" ELSE "failed")
    /\ UNCHANGED <<journal, disk, worker, started, panel, archive>>

-----------------------------------------------------------------------------
(* The helper and the operator. *)

Ordinary == <<"prepare", "stop-old-panel", "prepare-private-state", "quiesce-old-runtime",
              "install", "start-candidate-panel", "accept-live">>
Bootstrap == <<"prepare", "stop-old-panel", "prepare-private-state", "quiesce-old-runtime",
               "seal", "install", "start-candidate-panel", "accept-live">>
Rollback == <<"stop-candidate-panel", "restore", "restore-private-state",
              "start-rollback-panel", "accept-rollback">>

Untouched == <<journal, disk, worker, started, panel, archive, stop, bounds>>

\* startHelperLocked and the handoff: a new transaction, once the previous one
\* is settled and verified.  A review holds the operation gate exclusively.
LaunchHelper(t) ==
    /\ todo = <<>> /\ \A a \in Actors : call[a] = Idle
    /\ ~RecordPending /\ stop = None
    /\ t \notin dirs /\ archive[t] = None /\ record.id # t
    /\ ReadyForAnother
    /\ record' = [id |-> t, state |-> "restarting"]
    /\ \E kind \in Kinds : todo' = IF kind = "ordinary" THEN Ordinary ELSE Bootstrap
    /\ UNCHANGED <<Untouched, lock, call>>

HelperCalls ==
    /\ todo # <<>>
    /\ Calls("helper", Head(todo), record.id)
    /\ UNCHANGED todo

\* originalHelperStopSettlement.
StopOverRollback(t) ==
    /\ stop = t /\ IsCurrent(t)
    /\ receipts[t].rollback /\ receipts[t].phase = "command-finished"
    /\ receipts[t].command = "restore-private-state"

\* What the helper calls next; <<>> ends it.
After(action, t, result) ==
    IF result = "done" THEN Tail(todo)
    ELSE CASE /\ action = "accept-live" /\ todo[1] = action /\ IsCurrent(t)
              /\ receipts[t].phase = "command-finished"
              /\ receipts[t].command = "start-candidate-panel"
              /\ receipts[t].schema = Live -> Rollback
           [] action = "start-rollback-panel" /\ StopOverRollback(t) ->
                <<"settle-stopped-rollback">>
           [] OTHER -> <<>>

\* runInstallerHelperWithAdapter: whatever is not a verified end of the update
\* needs a review.
Ended(t) ==
    \/ record.state \in {"completed", "rolled-back"} /\ stop = None
    \/ record.state = "rolled-back-stopped" /\ Inspected(t)

HelperContinues ==
    /\ call["helper"].pc \in {"done", "failed"}
    /\ call' = [call EXCEPT !["helper"] = Idle]
    /\ todo' = After(call["helper"].action, record.id, call["helper"].pc)
    /\ record' = IF todo' = <<>> /\ ~Ended(record.id)
                 THEN [record EXCEPT !.state = "requires-review"] ELSE record
    /\ UNCHANGED <<Untouched, lock>>

\* The recovery handler: any action, on the transaction under review.
OperatorCalls ==
    /\ record.id # None /\ Readable
    /\ pointer # None => pointer.id = record.id
    /\ \E action \in Actions \ {"seal"} :
         /\ Authorized(action, record.id) /\ AppAllows(action, record.id)
         /\ Calls("operator", action, record.id)
    /\ UNCHANGED todo

OperatorReturns ==
    /\ call["operator"].pc \in {"done", "failed"}
    /\ call' = [call EXCEPT !["operator"] = Idle]
    /\ UNCHANGED <<Untouched, lock, todo, record>>

-----------------------------------------------------------------------------
(* What happens around them. *)

\* A durable stop names the transaction under way.
RequestStop ==
    /\ stop = None /\ record.id # None
    /\ stop' = record.id
    /\ UNCHANGED <<journal, disk, lock, call, todo, worker, started, panel, record, archive,
                   bounds>>

Died(a) == [call EXCEPT ![a] = Idle]

Crash(a) ==
    /\ crashes < MaxCrashes /\ crashes' = crashes + 1
    /\ call[a] # Idle
    /\ call' = Died(a)
    /\ lock' = IF lock = a THEN None ELSE lock
    /\ todo' = IF a = "helper" THEN <<>> ELSE todo
    /\ UNCHANGED <<journal, disk, worker, started, panel, record, archive, stop, faults, edits>>

\* The device restarts: the callers, the worker and the panel are gone.
Reboot ==
    /\ crashes < MaxCrashes /\ crashes' = crashes + 1
    /\ call' = [a \in Actors |-> Idle]
    /\ lock' = None /\ todo' = <<>> /\ panel' = None
    /\ worker' = IF worker \in Commands THEN "failed" ELSE worker
    /\ UNCHANGED <<journal, disk, started, record, archive, stop, faults, edits>>

\* Mutant: only the stop and a damaged journal keep the panel from starting.
PendingStopOnly == stop # None \/ ~Readable

\* SelfUpdateFiles.Pending: the start of the panel is refused.
Pending ==
    \/ stop # None \/ ~Readable \/ RecordPending
    \/ pointer # None /\ ~Inspected(pointer.id)

\* The init script and its watchdog start the installed panel.
BootPanel ==
    /\ panel = None /\ ~Pending
    /\ panel' = disk
    /\ UNCHANGED <<journal, disk, lock, call, todo, worker, started, record, archive, stop,
                   bounds>>

PanelDies ==
    /\ panel # None
    /\ panel' = None
    /\ UNCHANGED <<journal, disk, lock, call, todo, worker, started, record, archive, stop,
                   bounds>>

\* The owner edits an installed file at any moment and without the lock.
Edit(f) ==
    /\ edits.made < MaxEdits
    /\ edits' = [made |-> edits.made + 1, unseen |-> edits.unseen \cup {f}]
    /\ disk' = [disk EXCEPT ![f] = Foreign]
    /\ UNCHANGED <<journal, lock, call, todo, worker, started, panel, record, archive, stop,
                   faults, crashes>>

-----------------------------------------------------------------------------

BaseImage == [f \in Files |-> IF f \in Absent THEN None ELSE Base]

Init ==
    /\ receipts = [t \in Txns |-> None]
    /\ pointer = None /\ dirs = {} /\ disk = BaseImage
    /\ lock = None /\ call = [a \in Actors |-> Idle] /\ todo = <<>>
    /\ worker = "ok" /\ started = [t \in Txns |-> [c \in Commands |-> 0]]
    /\ panel = BaseImage
    /\ record = [id |-> None, state |-> "idle"] /\ archive = [t \in Txns |-> None]
    /\ stop = None
    /\ faults = 0 /\ crashes = 0 /\ edits = [made |-> 0, unseen |-> {}]

\* One step of the operation a caller is in.
Operation(a) ==
    \/ Busy(a) \/ Prepare(a) \/ Replace(a) \/ Execute(a) \/ ResolveUnknown(a) \/ Accept(a)
    \/ SettleStoppedRollback(a) \/ SealPairedPriorState(a) \/ RetirePairedPriorState(a)

Works(a) ==
    /\ \/ Operation(a) /\ UNCHANGED <<record, archive>>
       \/ WriteArchive(a)
       \/ WriteRecord(a)
    /\ UNCHANGED <<todo, stop>>

Next ==
    \/ \E t \in Txns : LaunchHelper(t)
    \/ HelperCalls \/ HelperContinues \/ OperatorCalls \/ OperatorReturns
    \/ \E a \in Actors : Works(a) \/ Crash(a)
    \/ WorkerEnds \/ RequestStop \/ Reboot \/ BootPanel \/ PanelDies
    \/ \E f \in Files : Edit(f)

Spec == Init /\ [][Next]_vars


-----------------------------------------------------------------------------
(* Properties. *)

Pcs == Inside \cup {"idle", "waiting", "archive", "record", "done", "failed"}

\* Every variable holds a value of its type (Receipt, journal.go:63; the pointer,
\* journal.go:290; the helper record, updater.go).
TypeOK ==
    /\ receipts \in [Txns -> Receipts \cup {None}]
    /\ pointer \in Pointers \cup {None}
    /\ dirs \subseteq Txns
    /\ disk \in [Files -> Contents]
    /\ lock \in Actors \cup {None}
    /\ call \in [Actors -> [pc : Pcs, action : Actions \cup {"none"}, id : Txns \cup {None}]]
    /\ todo \in Seq(Actions)
    /\ worker \in Commands \cup {"ok", "failed"}
    /\ started \in [Txns -> [Commands -> Nat]]
    /\ panel \in [Files -> Contents] \cup {None}
    /\ record \in [id : Txns \cup {None},
                   state : {"idle", "restarting", "requires-review", "completed",
                            "rolled-back", "rolled-back-stopped"}]
    /\ archive \in [Txns -> {None, "completed", "rolled-back", "rolled-back-stopped"}]
    /\ stop \in Txns \cup {None}
    /\ faults \in 0..MaxFaults /\ crashes \in 0..MaxCrashes
    /\ edits \in [made : 0..MaxEdits, unseen : SUBSET Files]

\* Whatever fails, dies or is called again, the installer effect of a command is
\* begun once (Execute, journal.go:893: "calling an installer effect exactly once").
CommandRunsAtMostOnce == \A t \in Txns, c \in Commands : started[t][c] <= 1

\* The journal never publishes a state that its own reader refuses: such a
\* receipt would fence the application for good (Current, journal.go:286).
CurrentIsReadable == Readable

\* Until somebody else edits them, the installed files are what the current
\* receipt says: the old images before an installation and after a restoration,
\* the new ones between, and in the middle of either at most the file after the
\* checkpoint is in doubt (replace, journal.go:715).
ReceiptTellsFiles ==
    (pointer # None /\ edits.made = 0) =>
        LET t == pointer.id
            r == receipts[t] IN
        /\ \A f \in Files : disk[f] \in {r.old[f], t}
        /\ IF r.phase \in {"installing", "restoring"}
           THEN /\ \A f \in 1..r.index : disk[f] = Image(t, r, r.rollback, f)
                /\ r.phase = "installing" =>
                     \A f \in Files : f > r.index + 1 => disk[f] = r.old[f]
           ELSE HoldsImages(t, r, r.rollback \/ r.before
                                    \/ r.phase \in {"prepared", "paired-prepared"})

\* No file changes under a running panel: what runs is what is installed, and
\* that is one whole version (Quiescence before each rename, journal.go:858).
PanelRunsInstalledFiles ==
    (panel # None /\ edits.made = 0) =>
        panel = disk /\ (disk = BaseImage \/ \E t \in Txns : disk = [f \in Files |-> t])

\* A helper record that says how an update ended is one the file journal
\* vouches for; it is never ahead of it (Finish, file_adapter.go:883).
RecordFollowsJournal ==
    /\ \A t \in Txns : archive[t] # None =>
          /\ receipts[t] # None
          /\ IF archive[t] = "completed" THEN receipts[t].phase \in {"accepted", "archived"}
                                         ELSE receipts[t].phase = archive[t]
    /\ Terminal(record.state) => archive[record.id] = record.state

\* A transaction is settled once: neither the helper nor a review that lost a
\* race brings it back or settles it another way (journal.go:84).
SettledIsFinal ==
    [][\A t \in Txns : (receipts[t] # None /\ Settled(receipts[t])) =>
         \/ receipts'[t] = receipts[t]
         \/ receipts[t].phase = "accepted" /\ receipts'[t].phase = "archived"]_vars

\* Once the stop is durable nothing moves forward: a file only returns to the
\* image it had before the stopped transaction, and no panel is started
\* (self_update_files.go:437).
StopFreezesTheUpdate ==
    [][stop # None =>
         /\ \A f \in Files : disk'[f] # disk[f] =>
              disk'[f] = Foreign \/ disk'[f] = receipts[stop].old[f]
         /\ worker' \in Starts => worker' = worker]_vars

\* An update writes over an edit of the owner in two cases only: the transaction
\* itself keeps a copy of it, which stays as it was taken; or the edit fell after
\* the comparison of a replacement that is still under way (replaceFile compares at
\* journal.go:785 and renames at :879, and the owner takes no lock).  An edit that
\* any replacement has come across, before a death or a retry or in a compensation,
\* is not written over.
EditIsKept ==
    [][/\ \A f \in Files : (disk[f] = Foreign /\ disk'[f] # Foreign) =>
            f \in edits.unseen \/ (pointer # None /\ receipts[pointer.id].old[f] = Foreign)
       /\ \A t \in Txns : receipts[t] # None =>
            receipts'[t] # None /\ receipts'[t].old = receipts[t].old]_vars
=============================================================================
