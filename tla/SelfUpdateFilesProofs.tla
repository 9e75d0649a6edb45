------------------------ MODULE SelfUpdateFilesProofs ------------------------
(***************************************************************************)
(* What the journal of an update tells of the installed files, of the      *)
(* panel that runs and of the record of the helper, proved for every       *)
(* number of files, faults, deaths and reviews from the invariant of       *)
(* SelfUpdateJournalProofs.                                                *)
(*                                                                         *)
(* A step of an operation either writes one receipt, or the pointer, or    *)
(* one file, or compares one, or begins a command, or none of these.  Form says so once,    *)
(* with what each of them was checked against; the proofs of the           *)
(* properties go by it.                                                    *)
(***************************************************************************)
EXTENDS SelfUpdateJournalProofs

\* A receipt that may replace the one of a's transaction.
Rewrites(a, s) ==
    LET t == call[a].id
        r == receipts[t]
        back == call[a].action = "restore" IN
    \/ call[a].pc = "receipt" /\ s = Prepared(disk)
    \/ /\ MayReplace(t, back) /\ r.phase \notin {Going(back), Gone(back)}
       /\ s = Afresh(r, back)
    \/ call[a].pc = "checkpoint" /\ s = [r EXCEPT !.index = @ + 1]
    \/ call[a].pc = "file" /\ r.index = N /\ s = [r EXCEPT !.phase = Gone(back)]
    \/ \E c \in Commands : MayExecute(t, c) /\ s = Intended(r, c)
    \/ /\ IsCurrent(t) /\ r.phase = "command-started" /\ Inactive
       /\ s = finishCommand(r)
    \/ /\ call[a].pc = "write"
       /\ s = [r EXCEPT !.command = "none",
                        !.phase = IF call[a].action = "accept-rollback"
                                  THEN "rolled-back" ELSE "accepted"]
    \/ /\ MaySettle(t) /\ r.phase # "rolled-back-stopped"
       /\ call[a].action = "settle-stopped-rollback"
       /\ s = [r EXCEPT !.schema = StoppedSchema, !.command = "none",
                        !.phase = "rolled-back-stopped", !.before = FALSE]
    \/ /\ MaySeal(t) /\ call[a].action = "seal"
       /\ s = [r EXCEPT !.schema = PairedSchema, !.phase = "paired-prepared"]
    \/ /\ IsCurrent(t) /\ r.phase = "accepted" /\ s = [r EXCEPT !.phase = "archived"]

\* Where a caller goes that writes a receipt.
Onward(a, q) ==
    /\ q \in {"pointer", "file", "done", "run", "archive", "failed"}
    /\ q = "pointer" => call[a].pc = "receipt"
                        \/ call[a].action \in {"seal", "settle-stopped-rollback"}
    /\ q = "archive" => call[a].pc = "write"

\* The steps of an operation, by what they write.
Writes(a) ==
    /\ UNCHANGED <<pointer, disk, worker, started, panel>>
    /\ \E s, q : Rewrites(a, s) /\ Onward(a, q) /\ WriteReceipt(a, s, q)
    /\ call[a].pc \in Inside \/ lock = None
Points(a) ==
    /\ UNCHANGED <<receipts, disk, worker, started, panel>>
    /\ call[a].pc = "pointer"
    /\ call[a].action = "prepare" => Inactive
    /\ \E s \in {Live, StoppedSchema, PairedSchema}, q \in {"done", "archive"} :
         /\ q = "archive" => call[a].action = "settle-stopped-rollback"
         /\ WritePointer(a, s, q)
Compares(a) ==
    /\ UNCHANGED <<receipts, pointer, disk, worker, started, panel>>
    /\ call[a].pc = "file"
    /\ LET t == call[a].id
           r == receipts[t]
           f == r.index + 1 IN
       /\ edits' = [edits EXCEPT !.unseen = @ \ {f}]
       /\ \E q \in {"rename", "checkpoint", "failed"} :
            /\ Proceed(a, q)
            /\ q = "rename" => disk[f] \in {r.old[f], t}
            /\ q = "checkpoint" => disk[f] = Image(t, r, call[a].action = "restore", f)
Installs(a) ==
    /\ UNCHANGED <<receipts, pointer, worker, started, panel>>
    /\ call[a].pc = "rename" /\ Checks(a)
    /\ LET t == call[a].id
           r == receipts[t]
           f == r.index + 1 IN
       \/ disk' = disk /\ Proceed(a, "failed")
       \/ /\ disk' = [disk EXCEPT ![f] = Image(t, r, call[a].action = "restore", f)]
          /\ Proceed(a, "checkpoint") \/ Proceed(a, "failed")
Begins(a) ==
    /\ UNCHANGED <<receipts, pointer, disk, panel>>
    /\ call[a].pc = "run"
    /\ worker' \in {call[a].action, "failed"}
    /\ Proceed(a, "running")
Moves(a) ==
    /\ UNCHANGED <<receipts, pointer, disk, worker, started, panel>>
    /\ \E q \in {"receipt", "file", "write", "pointer", "done", "failed"} :
         /\ Proceed(a, q)
         /\ q = "receipt" => MayPrepare(a)
         /\ q = "pointer" =>
              /\ call[a].action = "settle-stopped-rollback"
              /\ receipts[call[a].id].phase = "rolled-back-stopped" /\ IsCurrent(call[a].id)
    /\ call[a].pc \in Inside \/ lock = None \/ call[a].pc = "waiting"

Form(a) ==
    \/ Compares(a)
    \/ /\ edits' = edits
       /\ Writes(a) \/ Points(a) \/ Installs(a) \/ Begins(a) \/ Moves(a)

LEMMA FormOfGiveUp ==
    ASSUME NEW a \in Actors, GiveUp(a), call[a].pc \in Inside \cup {"waiting"}
    PROVE  Moves(a) /\ edits' = edits
BY DEF GiveUp, Moves, journal, bounds

\* Every step of an operation has one of the forms.
LEMMA FormOfPrepare ==
    ASSUME Inv, NEW a \in Actors, Prepare(a)
    PROVE  Form(a)
<1>0. "pointer" \in Inside /\ "receipt" \in Inside
  BY DEF Inside
<1>1. CASE GiveUp(a)
  BY <1>0, <1>1, FormOfGiveUp DEF Form, Prepare, Enters, At
<1>2. CASE Enters(a, {"prepare"}) /\ ~GiveUp(a)
  <2>1. /\ MayPrepare(a) /\ Proceed(a, "receipt")
        /\ UNCHANGED <<receipts, pointer, disk, worker, started, panel, bounds>>
        /\ call[a].pc = "waiting"
    BY <1>2, <1>0, Zenon DEF Prepare, Enters, At
  <2> QED
    BY <2>1 DEF Form, Moves, bounds
<1>3. CASE At(a, "receipt") /\ ~GiveUp(a)
  <2>1. /\ WriteReceipt(a, Prepared(disk), "pointer")
        /\ UNCHANGED <<pointer, disk, worker, started, panel>>
    BY <1>3 DEF Prepare, Enters, At
  <2>2. edits' = edits
    BY <2>1 DEF WriteReceipt, Fault
  <2>3. Rewrites(a, Prepared(disk)) /\ Onward(a, "pointer")
    BY <1>3 DEF Rewrites, Onward, At
  <2> QED
    BY <1>3, <2>1, <2>2, <2>3, <1>0 DEF Form, Writes, At
<1>4. CASE At(a, "pointer") /\ ~GiveUp(a)
  <2>1. /\ Checks(a) /\ WritePointer(a, Live, "done")
        /\ UNCHANGED <<receipts, disk, worker, started, panel>>
    BY <1>4 DEF Prepare, Enters, At
  <2>2. edits' = edits
    BY <2>1 DEF WritePointer, Fault
  <2> QED
    BY <1>4, <2>1, <2>2 DEF Form, Points, At, Checks, Quiescent
<1> QED
  BY <1>1, <1>2, <1>3, <1>4 DEF Prepare

LEMMA FormOfWrite ==
    ASSUME NEW a \in Actors, NEW s, NEW q, WriteReceipt(a, s, q), Rewrites(a, s), Onward(a, q),
           UNCHANGED <<pointer, disk, worker, started, panel>>,
           call[a].pc \in Inside \/ lock = None
    PROVE  Form(a)
BY DEF Form, Writes, WriteReceipt, Fault

LEMMA FormOfReplace ==
    ASSUME Inv, NEW a \in Actors, Replace(a)
    PROVE  Form(a)
<1> DEFINE t == call[a].id
           r == receipts[t]
           back == call[a].action = "restore"
<1>0. "file" \in Inside /\ "rename" \in Inside /\ "checkpoint" \in Inside
  BY DEF Inside
<1>1. CASE GiveUp(a)
  BY <1>0, <1>1, FormOfGiveUp DEF Form, Replace, BeginReplace, CompareFile, RenameFile,
     Checkpoint, FinishReplace, Enters, At
<1>2. CASE BeginReplace(a) /\ ~GiveUp(a)
  <2>1. call[a].pc = "waiting" /\ lock = None /\ MayReplace(t, back)
    BY <1>2 DEF BeginReplace, Enters
  <2>2. CASE \E q \in {"done", "file"} : Proceed(a, q)
             /\ UNCHANGED <<journal, disk, worker, started, panel, bounds>>
    BY <2>1, <2>2 DEF Form, Moves, journal, bounds
  <2>3. CASE /\ r.phase # Gone(back) /\ r.phase # Going(back)
             /\ WriteReceipt(a, Afresh(r, back), "file")
             /\ UNCHANGED <<pointer, dirs, disk, worker, started, panel>>
    <3>1. Rewrites(a, Afresh(r, back)) /\ Onward(a, "file")
      BY <2>1, <2>3 DEF Rewrites, Onward
    <3> QED
      BY <2>1, <2>3, <3>1, FormOfWrite
  <2> QED
    BY <1>2, <2>2, <2>3 DEF BeginReplace
<1>3. CASE CompareFile(a) /\ ~GiveUp(a)
  <2> DEFINE f == r.index + 1
             gone == back /\ r.old[f] = None /\ disk[f] = None
             q == IF disk[f] \notin {r.old[f], t} THEN "failed"
                  ELSE IF gone THEN "checkpoint" ELSE "rename"
  <2>1. /\ call[a].pc = "file" /\ edits' = [edits EXCEPT !.unseen = @ \ {f}]
        /\ Proceed(a, q) /\ UNCHANGED <<journal, disk, worker, started, panel>>
    BY <1>3, Zenon DEF CompareFile, At
  <2>2. /\ q \in {"rename", "checkpoint", "failed"}
        /\ q = "rename" => disk[f] \in {r.old[f], t}
        /\ q = "checkpoint" => disk[f] = Image(t, r, back, f)
    BY DEF Image
  <2>3. Compares(a)
    <3> HIDE DEF q
    <3> QED
      BY <2>1, <2>2, Zenon DEF Compares, journal
  <2> QED
    BY <2>3 DEF Form
<1>4. CASE RenameFile(a) /\ ~GiveUp(a)
  <2>1. PICK o \in Outcomes :
          /\ Fault(o)
          /\ disk' = IF o = "lost" THEN disk
                     ELSE [disk EXCEPT ![r.index + 1] = Image(t, r, back, r.index + 1)]
          /\ Proceed(a, IF o = "ok" THEN "checkpoint" ELSE "failed")
    BY <1>4 DEF RenameFile
  <2>2. /\ call[a].pc = "rename" /\ Checks(a)
        /\ UNCHANGED <<journal, worker, started, panel>>
    BY <1>4 DEF RenameFile, At
  <2>3. edits' = edits
    BY <2>1 DEF Fault
  <2>4. \/ disk' = disk /\ Proceed(a, "failed")
        \/ /\ disk' = [disk EXCEPT ![r.index + 1] = Image(t, r, back, r.index + 1)]
           /\ Proceed(a, "checkpoint") \/ Proceed(a, "failed")
    BY <2>1 DEF Outcomes
  <2>5. Installs(a)
    BY <2>2, <2>4, Zenon DEF Installs, journal
  <2> QED
    BY <2>3, <2>5 DEF Form
<1>5. CASE Checkpoint(a)
  <2>1. /\ call[a].pc = "checkpoint" /\ WriteReceipt(a, [r EXCEPT !.index = @ + 1], "file")
        /\ UNCHANGED <<pointer, disk, worker, started, panel>>
    BY <1>5 DEF Checkpoint, At
  <2>2. Rewrites(a, [r EXCEPT !.index = @ + 1]) /\ Onward(a, "file")
    BY <2>1 DEF Rewrites, Onward
  <2> QED
    BY <1>0, <2>1, <2>2, FormOfWrite
<1>6. CASE FinishReplace(a)
  <2>1. /\ call[a].pc = "file" /\ r.index = N
        /\ WriteReceipt(a, [r EXCEPT !.phase = Gone(back)], "done")
        /\ UNCHANGED <<pointer, disk, worker, started, panel>>
    BY <1>6 DEF FinishReplace, At
  <2>2. Rewrites(a, [r EXCEPT !.phase = Gone(back)]) /\ Onward(a, "done")
    BY <2>1 DEF Rewrites, Onward
  <2> QED
    BY <1>0, <2>1, <2>2, FormOfWrite
<1> QED
  BY <1>1, <1>2, <1>3, <1>4, <1>5, <1>6 DEF Replace

LEMMA FormOfExecute ==
    ASSUME Inv, NEW a \in Actors, Execute(a) \/ ResolveUnknown(a)
    PROVE  Form(a)
<1> DEFINE t == call[a].id
           r == receipts[t]
           c == call[a].action
<1>0. "run" \in Inside /\ "running" \in Inside
  BY DEF Inside
<1>1. CASE GiveUp(a)
  BY <1>0, <1>1, FormOfGiveUp DEF Form, Execute, BeginCommand, RunCommand, EndCommand,
     ResolveUnknown, Enters, At
<1>2. CASE BeginCommand(a) /\ ~GiveUp(a)
  <2>1. /\ lock = None /\ c \in Commands /\ MayExecute(t, c)
        /\ WriteReceipt(a, Intended(r, c), "run")
        /\ UNCHANGED <<pointer, disk, worker, started, panel>>
    BY <1>2 DEF BeginCommand, Enters
  <2>2. Rewrites(a, Intended(r, c)) /\ Onward(a, "run")
    BY <2>1 DEF Rewrites, Onward
  <2> QED
    BY <2>1, <2>2, FormOfWrite
<1>3. CASE RunCommand(a) /\ ~GiveUp(a)
  BY <1>3 DEF RunCommand, At, Form, Begins, journal, bounds
<1>4. CASE EndCommand(a) /\ ~GiveUp(a)
  <2>1. /\ call[a].pc = "running" /\ worker = "ok"
        /\ UNCHANGED <<pointer, disk, worker, started, panel>>
        /\ \E q \in {"done", "failed"} : WriteReceipt(a, finishCommand(r), q)
    BY <1>4 DEF EndCommand, At
  <2>2. /\ IsCurrent(t) /\ r.phase = "command-started" /\ Inactive
    BY <2>1 DEF Inv, CallInv, Inactive, Commands, PreFiles, Starts
  <2>3. Rewrites(a, finishCommand(r)) /\ Onward(a, "done") /\ Onward(a, "failed")
    BY <2>2 DEF Rewrites, Onward
  <2> QED
    BY <1>0, <2>1, <2>3, FormOfWrite
<1>5. CASE ResolveUnknown(a) /\ ~GiveUp(a)
  <2>1. /\ lock = None /\ IsCurrent(t) /\ r.phase = "command-started" /\ Inactive
        /\ WriteReceipt(a, finishCommand(r), "done")
        /\ UNCHANGED <<pointer, disk, worker, started, panel>>
    BY <1>5 DEF ResolveUnknown, Enters, Observed
  <2>2. Rewrites(a, finishCommand(r)) /\ Onward(a, "done")
    BY <2>1 DEF Rewrites, Onward
  <2> QED
    BY <2>1, <2>2, FormOfWrite
<1> QED
  BY <1>1, <1>2, <1>3, <1>4, <1>5 DEF Execute

LEMMA FormOfAccept ==
    ASSUME Inv, NEW a \in Actors, Accept(a) \/ RetirePairedPriorState(a)
    PROVE  Form(a)
<1> DEFINE t == call[a].id
           r == receipts[t]
           end == IF call[a].action = "accept-rollback" THEN "rolled-back" ELSE "accepted"
<1>0. "write" \in Inside
  BY DEF Inside
<1>1. CASE GiveUp(a)
  BY <1>0, <1>1, FormOfGiveUp DEF Form, Accept, RetirePairedPriorState, Enters, At
<1>2. CASE /\ Enters(a, {"accept-live", "accept-rollback"}) /\ Proceed(a, "write")
           /\ UNCHANGED <<journal, disk, worker, started, panel, bounds>>
  BY <1>2 DEF Enters, Form, Moves, journal, bounds
<1>3. CASE /\ At(a, "write")
           /\ WriteReceipt(a, [r EXCEPT !.command = "none", !.phase = end], "archive")
           /\ UNCHANGED <<pointer, dirs, disk, worker, started, panel>>
  <2>1. Rewrites(a, [r EXCEPT !.command = "none", !.phase = end]) /\ Onward(a, "archive")
    BY <1>3 DEF At, Rewrites, Onward
  <2> QED
    BY <1>0, <1>3, <2>1, FormOfWrite DEF At
<1>4. CASE RetirePairedPriorState(a) /\ ~GiveUp(a)
  <2>1. /\ lock = None /\ IsCurrent(t) /\ r.phase = "accepted"
        /\ WriteReceipt(a, [r EXCEPT !.phase = "archived"], "done")
        /\ UNCHANGED <<pointer, disk, worker, started, panel>>
    BY <1>4 DEF RetirePairedPriorState, Enters
  <2>2. Rewrites(a, [r EXCEPT !.phase = "archived"]) /\ Onward(a, "done")
    BY <2>1 DEF Rewrites, Onward
  <2> QED
    BY <2>1, <2>2, FormOfWrite
<1> QED
  BY <1>1, <1>2, <1>3, <1>4 DEF Accept

LEMMA FormOfSettle ==
    ASSUME Inv, NEW a \in Actors, SettleStoppedRollback(a) \/ SealPairedPriorState(a)
    PROVE  Form(a)
<1> DEFINE t == call[a].id
           r == receipts[t]
<1>0. "pointer" \in Inside
  BY DEF Inside
<1>1. CASE GiveUp(a)
  BY <1>0, <1>1, FormOfGiveUp DEF Form, SettleStoppedRollback, SealPairedPriorState, Enters, At
<1>2. CASE /\ Enters(a, {"settle-stopped-rollback"}) /\ MaySettle(t)
           /\ r.phase = "rolled-back-stopped" /\ Proceed(a, "pointer")
           /\ UNCHANGED <<journal, disk, worker, started, panel, bounds>>
  BY <1>2 DEF Enters, Form, Moves, MaySettle, journal, bounds
<1>3. CASE /\ Enters(a, {"settle-stopped-rollback"}) /\ MaySettle(t)
           /\ r.phase # "rolled-back-stopped"
           /\ WriteReceipt(a, [r EXCEPT !.schema = StoppedSchema, !.command = "none",
                                 !.phase = "rolled-back-stopped", !.before = FALSE], "pointer")
           /\ UNCHANGED <<pointer, dirs, disk, worker, started, panel>>
  <2> DEFINE s == [r EXCEPT !.schema = StoppedSchema, !.command = "none",
                            !.phase = "rolled-back-stopped", !.before = FALSE]
  <2>1. lock = None /\ call[a].action = "settle-stopped-rollback"
    BY <1>3 DEF Enters
  <2>2. Rewrites(a, s) /\ Onward(a, "pointer")
    BY <1>3, <2>1 DEF Rewrites, Onward
  <2> QED
    BY <1>3, <2>1, <2>2, FormOfWrite
<1>4. CASE /\ Enters(a, {"seal"}) /\ MaySeal(t)
           /\ WriteReceipt(a, [r EXCEPT !.schema = PairedSchema, !.phase = "paired-prepared"],
                           "pointer")
           /\ UNCHANGED <<pointer, dirs, disk, worker, started, panel>>
  <2> DEFINE s == [r EXCEPT !.schema = PairedSchema, !.phase = "paired-prepared"]
  <2>1. lock = None /\ call[a].action = "seal"
    BY <1>4 DEF Enters
  <2>2. Rewrites(a, s) /\ Onward(a, "pointer")
    BY <1>4, <2>1 DEF Rewrites, Onward
  <2> QED
    BY <1>4, <2>1, <2>2, FormOfWrite
<1>5. CASE /\ At(a, "pointer") /\ call[a].action = "settle-stopped-rollback"
           /\ WritePointer(a, StoppedSchema, "archive")
           /\ UNCHANGED <<receipts, dirs, disk, worker, started, panel>>
  BY <1>5 DEF At, Form, Points, WritePointer, Fault
<1>6. CASE /\ At(a, "pointer") /\ call[a].action = "seal"
           /\ WritePointer(a, PairedSchema, "done")
           /\ UNCHANGED <<receipts, dirs, disk, worker, started, panel>>
  BY <1>6 DEF At, Form, Points, WritePointer, Fault
<1> QED
  BY <1>1, <1>2, <1>3, <1>4, <1>5, <1>6 DEF SettleStoppedRollback, SealPairedPriorState

LEMMA OperationForm ==
    ASSUME Inv, NEW a \in Actors, Operation(a)
    PROVE  Form(a)
<1>1. CASE Busy(a)
  BY <1>1, FormOfGiveUp DEF Busy, Form
<1> QED
  BY <1>1, FormOfPrepare, FormOfReplace, FormOfExecute, FormOfAccept, FormOfSettle DEF Operation

-----------------------------------------------------------------------------
(* What a receipt tells of the files. *)

\* Whether a receipt stands for the files before the update.
Behind(r) == r.rollback \/ r.before \/ r.phase \in {"prepared", "paired-prepared"}

\* What a receipt tells of the installed files.
Tells(t, r) ==
    /\ \A f \in Files : disk[f] \in {r.old[f], t}
    /\ r.phase \in {"installing", "restoring"} =>
         \A f \in 1..r.index : disk[f] = Image(t, r, r.rollback, f)
    /\ r.phase = "installing" => \A f \in Files : f > r.index + 1 => disk[f] = r.old[f]
    /\ r.phase \notin {"installing", "restoring"} =>
         \A f \in Files : disk[f] = Image(t, r, Behind(r), f)

WholeVersion(image) == image = BaseImage \/ \E t \in Txns : image = [f \in Files |-> t]

\* What a caller knows of the files.
FileCall(a) ==
    LET t == call[a].id
        r == receipts[t]
        pc == call[a].pc IN
    /\ pc = "checkpoint" => disk[r.index + 1] = Image(t, r, r.rollback, r.index + 1)
    /\ pc = "pointer" /\ call[a].action = "prepare" =>
         r.phase = "prepared" /\ ~r.rollback /\ r.old = disk
    /\ pc = "receipt" => WholeVersion(disk)

\* Until somebody edits them, the files are what the current receipt tells, and
\* every receipt was written over one whole version.
FilesInv == edits.made = 0 =>
    /\ pointer = None => disk = BaseImage
    /\ pointer # None => Tells(pointer.id, receipts[pointer.id])
    /\ \A t \in Txns : receipts[t] # None => WholeVersion(receipts[t].old)
    /\ \A a \in Actors : FileCall(a)

\* What is written over a receipt keeps its old images; only a transaction that
\* has no receipt gets one that names new ones.
LEMMA NextReceipt ==
    ASSUME Inv, NEW a \in Actors, NEW s, Rewrites(a, s)
    PROVE  /\ call[a].id \in Txns /\ s \in Receipts
           /\ \/ call[a].pc = "receipt" /\ receipts[call[a].id] = None /\ s = Prepared(disk)
              \/ /\ call[a].pc # "receipt" /\ IsCurrent(call[a].id)
                 /\ receipts[call[a].id] \in Receipts /\ valid(receipts[call[a].id])
                 /\ s.old = receipts[call[a].id].old
<1> DEFINE t == call[a].id
           r == receipts[t]
           back == call[a].action = "restore"
<1>1. CASE call[a].pc = "receipt" /\ s = Prepared(disk)
  <2>1. t \in Txns /\ r = None
    BY <1>1 DEF Inv, CallInv
  <2>2. Prepared(disk) \in Receipts
    BY BoundAssumption DEF Prepared, Receipts, Phases, Inv, TypeOK
  <2> QED
    BY <1>1, <2>1, <2>2
<1>2. CASE ~(call[a].pc = "receipt" /\ s = Prepared(disk))
  <2>1. IsCurrent(t)
    BY <1>2 DEF Rewrites, MayReplace, MayExecute, MaySettle, MaySeal, Inv, CallInv
  <2>2. t \in Txns
    BY <2>1 DEF IsCurrent, Inv, TypeOK, Pointers
  <2>3. r \in Receipts /\ valid(r) /\ r # None
    BY <2>1, <2>2, CurrentReceipt
  <2>4. call[a].pc # "receipt"
    BY <2>3 DEF Inv, CallInv
  <2>5. r.index \in 0..N /\ (call[a].pc = "checkpoint" => r.index + 1 \in 0..N)
    BY <2>3, BoundAssumption DEF Receipts, Inv, CallInv
  <2>6. s \in Receipts /\ s.old = r.old
    <3>1. CASE s = Afresh(r, back)
      <4>1. PICK b \in BOOLEAN : b = back
        OBVIOUS
      <4>2. 0 \in 0..N /\ Going(b) \in Phases
        BY BoundAssumption DEF Going, Phases
      <4>3. s = [r EXCEPT !.phase = Going(b), !.index = 0, !.command = "none",
                          !.rollback = b, !.before = FALSE]
        BY <3>1, <4>1 DEF Afresh
      <4> QED
        BY <2>3, <4>2, <4>3 DEF Receipts
    <3>2. CASE call[a].pc = "checkpoint" /\ s = [r EXCEPT !.index = @ + 1]
      BY <2>3, <2>5, <3>2 DEF Receipts
    <3>3. CASE s = [r EXCEPT !.phase = Gone(back)]
      BY <2>3, <3>3 DEF Gone, Receipts, Phases
    <3>4. CASE \E c \in Commands : s = Intended(r, c)
      <4>1. PICK c \in Commands : s = Intended(r, c)
        BY <3>4
      <4>2. PICK b \in BOOLEAN : b = (r.phase = "prepared")
        OBVIOUS
      <4>3. "command-started" \in Phases /\ r.commands \cup {c} \in SUBSET Commands
        BY <2>3 DEF Phases, Receipts
      <4>4. s = [r EXCEPT !.phase = "command-started", !.command = c, !.before = b,
                          !.commands = r.commands \cup {c}]
        BY <2>3, <4>1, <4>2 DEF Intended, Receipts
      <4> QED
        BY <2>3, <4>3, <4>4 DEF Receipts
    <3>5. CASE s = finishCommand(r)
      BY <2>3, <3>5 DEF finishCommand, Receipts, Phases
    <3>6. CASE s = [r EXCEPT !.command = "none",
                             !.phase = IF call[a].action = "accept-rollback"
                                       THEN "rolled-back" ELSE "accepted"]
      BY <2>3, <3>6 DEF Receipts, Phases
    <3>7. CASE s = [r EXCEPT !.schema = StoppedSchema, !.command = "none",
                             !.phase = "rolled-back-stopped", !.before = FALSE]
      BY <2>3, <3>7 DEF Receipts, Phases
    <3>8. CASE s = [r EXCEPT !.schema = PairedSchema, !.phase = "paired-prepared"]
      BY <2>3, <3>8 DEF Receipts, Phases
    <3>9. CASE s = [r EXCEPT !.phase = "archived"]
      BY <2>3, <3>9 DEF Receipts, Phases
    <3> QED
      BY <1>2, <3>1, <3>2, <3>3, <3>4, <3>5, <3>6, <3>7, <3>8, <3>9 DEF Rewrites
  <2> QED
    BY <2>1, <2>2, <2>3, <2>4, <2>6
<1> QED
  BY <1>1, <1>2

\* Two receipts that stand for the same version tell the same.
LEMMA TellsSame ==
    ASSUME NEW t, NEW r, NEW s, s.old = r.old, Tells(t, r),
           r.phase \notin {"installing", "restoring"}, s.phase \notin {"installing", "restoring"},
           Behind(s) <=> Behind(r)
    PROVE  Tells(t, s)
BY DEF Tells, Image

\* What is written over a receipt tells of the files what they are.
LEMMA NextTells ==
    ASSUME Inv, NEW a \in Actors, NEW s, Rewrites(a, s), call[a].pc # "receipt",
           FileCall(a), Tells(call[a].id, receipts[call[a].id])
    PROVE  Tells(call[a].id, s)
<1> DEFINE t == call[a].id
           r == receipts[t]
           back == call[a].action = "restore"
<1>0. /\ t \in Txns /\ s \in Receipts /\ r \in Receipts /\ valid(r) /\ s.old = r.old
      /\ IsCurrent(t)
  BY NextReceipt
<1>1. CASE /\ MayReplace(t, back) /\ r.phase \notin {Going(back), Gone(back)}
           /\ s = Afresh(r, back)
  <2>1. /\ s.phase = Going(back) /\ s.index = 0 /\ s.rollback = back
    BY <1>0, <1>1 DEF Afresh, Receipts
  <2>2. 1..s.index = {}
    BY <2>1
  <2>3. CASE back
    BY <1>0, <2>1, <2>2, <2>3 DEF Tells, Going
  <2>4. CASE ~back
    <3>1. r.phase \in {"prepared", "paired-prepared"}
      BY <1>1, <2>4 DEF MayReplace, Going
    <3>2. \A f \in Files : disk[f] = r.old[f]
      BY <3>1 DEF Tells, Behind, Image
    <3> QED
      BY <1>0, <2>1, <2>2, <2>4, <3>2 DEF Tells, Going
  <2> QED
    BY <2>3, <2>4
<1>2. CASE call[a].pc = "checkpoint" /\ s = [r EXCEPT !.index = @ + 1]
  <2>1. /\ s.phase = r.phase /\ s.index = r.index + 1 /\ s.rollback = r.rollback
        /\ r.index \in Nat
    BY <1>0, <1>2 DEF Receipts
  <2>2. r.phase \in {"installing", "restoring"}
    BY <1>2 DEF Inv, CallInv, Going
  <2>3. disk[r.index + 1] = Image(t, r, r.rollback, r.index + 1)
    BY <1>2 DEF FileCall
  <2>4. \A f \in 1..s.index : f \in 1..r.index \/ f = r.index + 1
    BY <2>1
  <2>5. \A f \in 1..s.index : disk[f] = Image(t, s, s.rollback, f)
    BY <1>0, <2>1, <2>2, <2>3, <2>4 DEF Tells, Image
  <2>6. \A f \in Files : f > s.index + 1 => f > r.index + 1
    BY <2>1 DEF Files
  <2> QED
    BY <1>0, <2>1, <2>2, <2>5, <2>6 DEF Tells
<1>3. CASE call[a].pc = "file" /\ r.index = N /\ s = [r EXCEPT !.phase = Gone(back)]
  <2>1. s.phase = Gone(back) /\ s.rollback = r.rollback /\ s.before = r.before
    BY <1>0, <1>3 DEF Receipts
  <2>2. r.phase = Going(back)
    BY <1>3 DEF Inv, CallInv
  <2>3. (r.rollback <=> back) /\ ~r.before
    BY <1>0, <2>2 DEF valid, Going
  <2>4. \A f \in Files : disk[f] = Image(t, r, r.rollback, f)
    BY <1>3, <2>2 DEF Tells, Going, Files
  <2>5. Behind(s) <=> r.rollback
    BY <2>1, <2>3 DEF Behind, Gone
  <2> QED
    BY <1>0, <2>1, <2>4, <2>5 DEF Tells, Image, Gone
<1>4. CASE \E c \in Commands : MayExecute(t, c) /\ s = Intended(r, c)
  <2>1. /\ r.phase \in {"prepared", "installed", "restored", "command-finished"}
        /\ s.phase = "command-started" /\ s.rollback = r.rollback
        /\ s.before <=> r.phase = "prepared"
    BY <1>0, <1>4 DEF MayExecute, Intended, Receipts
  <2>2. ~r.before
    BY <1>0, <2>1 DEF valid
  <2> QED
    BY <1>0, <2>1, <2>2, TellsSame DEF Behind
<1>5. CASE r.phase = "command-started" /\ s = finishCommand(r)
  <2>1. /\ s.rollback = r.rollback
        /\ \/ r.before /\ s.phase = "prepared"
           \/ ~r.before /\ ~s.before /\ s.phase = "command-finished"
    BY <1>0, <1>5 DEF finishCommand, Receipts
  <2> QED
    BY <1>0, <1>5, <2>1, TellsSame DEF Behind
<1>6. CASE /\ call[a].pc = "write"
           /\ s = [r EXCEPT !.command = "none",
                            !.phase = IF call[a].action = "accept-rollback"
                                      THEN "rolled-back" ELSE "accepted"]
  <2>1. /\ s.phase \in {"rolled-back", "accepted"} /\ s.rollback = r.rollback
        /\ s.before = r.before
    BY <1>0, <1>6 DEF Receipts
  <2>2. r.phase \in {"installed", "restored", "command-finished"}
    BY <1>6 DEF Inv, CallInv, Gone
  <2> QED
    BY <1>0, <2>1, <2>2, TellsSame DEF Behind
<1>7. CASE /\ MaySettle(t) /\ r.phase # "rolled-back-stopped"
           /\ s = [r EXCEPT !.schema = StoppedSchema, !.command = "none",
                            !.phase = "rolled-back-stopped", !.before = FALSE]
  <2>1. s.phase = "rolled-back-stopped" /\ s.rollback = r.rollback
    BY <1>0, <1>7 DEF Receipts
  <2>2. r.phase \in {"restored", "command-finished"} /\ r.rollback
    BY <1>7 DEF MaySettle
  <2> QED
    BY <1>0, <2>1, <2>2, TellsSame DEF Behind
<1>8. CASE MaySeal(t) /\ s = [r EXCEPT !.schema = PairedSchema, !.phase = "paired-prepared"]
  <2>1. s.phase = "paired-prepared" /\ r.phase = "prepared"
    BY <1>0, <1>8 DEF Receipts, MaySeal
  <2> QED
    BY <1>0, <2>1, TellsSame DEF Behind
<1>9. CASE r.phase = "accepted" /\ s = [r EXCEPT !.phase = "archived"]
  <2>1. s.phase = "archived" /\ s.rollback = r.rollback /\ s.before = r.before
    BY <1>0, <1>9 DEF Receipts
  <2> QED
    BY <1>0, <1>9, <2>1, TellsSame DEF Behind
<1> QED
  BY <1>1, <1>2, <1>3, <1>4, <1>5, <1>6, <1>7, <1>8, <1>9 DEF Rewrites

\* While a enters or is inside, nobody else is inside.
LEMMA OthersOutside ==
    ASSUME Inv, NEW a \in Actors, call[a].pc \in Inside \/ lock = None,
           NEW q \in Pcs, Proceed(a, q)
    PROVE  \A b \in Actors \ {a} : call'[b] = call[b] /\ call[b].pc \notin Inside
<1> SUFFICES ASSUME NEW b \in Actors \ {a}
             PROVE  call'[b] = call[b] /\ call[b].pc \notin Inside
  OBVIOUS
<1>1. lock # b
  BY AbsenceAssumption DEF Inv, CallInv, Actors
<1> QED
  BY <1>1, ProceedStep DEF Inv, CallInv

\* A caller outside knows nothing of the files.
LEMMA FilesOutside ==
    ASSUME NEW b \in Actors, call[b].pc \notin Inside
    PROVE  FileCall(b)
BY DEF FileCall, Inside

\* A caller that moves and reads nothing new knows nothing but what is asked
\* for at its new pc.
LEMMA FileCallMoved ==
    ASSUME Inv, NEW a \in Actors, NEW q \in Pcs, Proceed(a, q),
           q \notin {"checkpoint", "receipt"},
           q = "pointer" => call[a].action # "prepare"
    PROVE  FileCall(a)'
<1>1. call'[a].pc = q /\ call'[a].action = call[a].action
  BY ProceedStep DEF Inv
<1> QED
  BY <1>1 DEF FileCall

LEMMA FilesWrites ==
    ASSUME Inv, FilesInv, NEW a \in Actors, Writes(a), edits' = edits
    PROVE  FilesInv'
<1> DEFINE t == call[a].id
           r == receipts[t]
<1> SUFFICES ASSUME edits.made = 0 PROVE FilesInv'
  BY DEF FilesInv
<1>1. PICK s, q : Rewrites(a, s) /\ Onward(a, q) /\ WriteReceipt(a, s, q)
  BY DEF Writes
<1>2. /\ t \in Txns /\ s \in Receipts
      /\ \/ call[a].pc = "receipt" /\ r = None /\ s = Prepared(disk)
         \/ /\ call[a].pc # "receipt" /\ IsCurrent(t)
            /\ r \in Receipts /\ valid(r) /\ s.old = r.old
  BY <1>1, NextReceipt
<1>3. q \in Pcs /\ "failed" \in Pcs
  BY <1>1 DEF Onward, Pcs, Inside
<1>4. /\ receipts' \in [Txns -> Receipts \cup {None}]
      /\ \A u \in Txns \ {t} : receipts'[u] = receipts[u]
      /\ receipts'[t] \in {r, s}
      /\ \/ Proceed(a, q) /\ receipts'[t] = s
         \/ Proceed(a, "failed")
  BY <1>1, <1>2, <1>3, WriteStep DEF Inv
<1>5. UNCHANGED <<pointer, disk>> /\ (call[a].pc \in Inside \/ lock = None)
  BY DEF Writes
<1>6. /\ pointer = None => disk = BaseImage
      /\ pointer # None => Tells(pointer.id, receipts[pointer.id])
      /\ \A u \in Txns : receipts[u] # None => WholeVersion(receipts[u].old)
      /\ FileCall(a)
  BY DEF FilesInv
<1>7. pointer # None => Tells(pointer.id, receipts'[pointer.id])
  <2> SUFFICES ASSUME pointer # None PROVE Tells(pointer.id, receipts'[pointer.id])
    OBVIOUS
  <2>1. pointer.id \in Txns /\ receipts[pointer.id] # None
    BY DEF Inv, TypeOK, Readable, Pointers
  <2>2. CASE pointer.id # t \/ receipts'[t] = r
    BY <1>4, <1>6, <2>1, <2>2
  <2>3. CASE pointer.id = t /\ receipts'[t] = s
    <3>1. call[a].pc # "receipt"
      BY <1>2, <2>1, <2>3
    <3> QED
      BY <1>1, <1>6, <2>3, <3>1, NextTells
  <2> QED
    BY <1>4, <2>2, <2>3
<1>8. \A u \in Txns : receipts'[u] # None => WholeVersion(receipts'[u].old)
  <2>1. WholeVersion(s.old)
    <3>1. CASE call[a].pc = "receipt"
      <4>1. s.old = disk
        BY <1>2, <3>1 DEF Prepared
      <4> QED
        BY <1>6, <3>1, <4>1 DEF FileCall
    <3>2. CASE call[a].pc # "receipt"
      BY <1>2, <1>6, <3>2, AbsenceAssumption
    <3> QED
      BY <3>1, <3>2
  <2> QED
    BY <1>4, <1>6, <2>1
<1>9. FileCall(a)'
  <2>1. CASE Proceed(a, "failed")
    BY <1>3, <2>1, FileCallMoved
  <2>2. CASE Proceed(a, q) /\ receipts'[t] = s
    <3>1. CASE q = "pointer" /\ call[a].action = "prepare"
      <4>1. s = Prepared(disk)
        BY <1>1, <1>2, <3>1 DEF Onward
      <4>2. call'[a].pc = "pointer" /\ call'[a].id = t
        BY <1>3, <2>2, <3>1, ProceedStep DEF Inv
      <4> QED
        BY <1>5, <2>2, <4>1, <4>2 DEF FileCall, Prepared
    <3>2. CASE ~(q = "pointer" /\ call[a].action = "prepare")
      BY <1>1, <1>3, <2>2, <3>2, FileCallMoved DEF Onward
    <3> QED
      BY <3>1, <3>2
  <2> QED
    BY <1>4, <2>1, <2>2
<1>10. \A b \in Actors \ {a} : FileCall(b)'
  BY <1>3, <1>4, <1>5, OthersOutside DEF FileCall, Inside
<1>11. pointer # None => Tells(pointer.id, receipts[pointer.id])'
  BY <1>5, <1>7 DEF Tells, Image
<1> QED
  BY <1>5, <1>6, <1>8, <1>9, <1>10, <1>11 DEF FilesInv, WholeVersion

LEMMA FilesPoints ==
    ASSUME Inv, FilesInv, NEW a \in Actors, Points(a), edits' = edits
    PROVE  FilesInv'
<1> DEFINE t == call[a].id
           r == receipts[t]
<1> SUFFICES ASSUME edits.made = 0 PROVE FilesInv'
  BY DEF FilesInv
<1>1. PICK s \in {Live, StoppedSchema, PairedSchema}, q \in {"done", "archive"} :
        WritePointer(a, s, q)
  BY DEF Points
<1>2. /\ t \in Txns /\ r \in Receipts /\ call[a].pc = "pointer" /\ call[a].pc \in Inside
      /\ \/ call[a].action = "prepare"
         \/ pointer.id = t /\ call[a].action \in {"settle-stopped-rollback", "seal"}
  BY DEF Points, Inv, CallInv, Inside
<1>3. q \in Pcs /\ "failed" \in Pcs
  BY DEF Pcs
<1>4. /\ pointer' \in {pointer, [id |-> t, schema |-> s]}
      /\ Proceed(a, q) \/ Proceed(a, "failed")
  BY <1>1, <1>2, <1>3, PointerStep DEF Inv
<1>5. UNCHANGED <<receipts, disk>>
  BY DEF Points
<1>6. /\ pointer = None => disk = BaseImage
      /\ pointer # None => Tells(pointer.id, receipts[pointer.id])
      /\ \A u \in Txns : receipts[u] # None => WholeVersion(receipts[u].old)
      /\ FileCall(a)
  BY DEF FilesInv
<1>7. pointer' = None => pointer = None
  BY <1>1, <1>2, <1>4, AbsenceAssumption DEF Pointers
<1>8. pointer' # None => Tells(pointer'.id, receipts[pointer'.id])
  <2>1. CASE pointer' = pointer
    BY <1>6, <2>1
  <2>2. CASE pointer' = [id |-> t, schema |-> s]
    <3>1. CASE call[a].action = "prepare"
      <4>1. r.phase = "prepared" /\ r.old = disk
        BY <1>2, <1>6, <3>1 DEF FileCall
      <4> QED
        BY <2>2, <4>1 DEF Tells, Behind, Image
    <3>2. CASE call[a].action # "prepare"
      <4>1. pointer # None
        BY <1>2, <3>2 DEF Inv, CallInv, Readable
      <4> QED
        BY <1>2, <1>6, <2>2, <3>2, <4>1
    <3> QED
      BY <3>1, <3>2
  <2> QED
    BY <1>4, <2>1, <2>2
<1>9. \A b \in Actors : FileCall(b)'
  <2>1. PICK x \in {"done", "archive", "failed"} : Proceed(a, x) /\ x \in Pcs
    BY <1>3, <1>4
  <2>2. FileCall(a)'
    BY <2>1, FileCallMoved
  <2>3. \A b \in Actors \ {a} : FileCall(b)'
    BY <1>2, <2>1, OthersOutside DEF FileCall, Inside
  <2> QED
    BY <2>2, <2>3
<1>10. pointer' # None => Tells(pointer.id, receipts[pointer.id])'
  BY <1>5, <1>8 DEF Tells, Image
<1> QED
  BY <1>5, <1>6, <1>7, <1>9, <1>10 DEF FilesInv, WholeVersion

LEMMA FilesInstalls ==
    ASSUME Inv, FilesInv, NEW a \in Actors, Installs(a), edits' = edits
    PROVE  FilesInv'
<1> DEFINE t == call[a].id
           r == receipts[t]
           f == r.index + 1
           back == call[a].action = "restore"
<1> SUFFICES ASSUME edits.made = 0 PROVE FilesInv'
  BY DEF FilesInv
<1>1. /\ t \in Txns /\ IsCurrent(t) /\ r.phase = Going(back)
      /\ call[a].pc = "rename" /\ "rename" \in Inside /\ r.index < N
  BY DEF Installs, Inv, CallInv, Inside
<1>2. pointer # None /\ pointer.id = t /\ r \in Receipts /\ valid(r) /\ r # None
  BY <1>1, CurrentReceipt
<1>3. (r.rollback <=> back) /\ r.index \in Nat /\ f \in Files
  BY <1>1, <1>2, BoundAssumption DEF valid, Going, Receipts, Files
<1>4. Tells(t, r) /\ \A u \in Txns : receipts[u] # None => WholeVersion(receipts[u].old)
  BY <1>2 DEF FilesInv
<1>5. /\ UNCHANGED <<receipts, pointer>>
      /\ \/ disk' = disk /\ Proceed(a, "failed")
         \/ /\ disk' = [disk EXCEPT ![f] = Image(t, r, back, f)]
            /\ Proceed(a, "checkpoint") \/ Proceed(a, "failed")
  BY DEF Installs
<1>6. PICK q \in {"checkpoint", "failed"} : Proceed(a, q) /\ q \in Pcs
  BY <1>5 DEF Pcs, Inside
<1>7. disk \in [Files -> Contents]
  BY DEF Inv, TypeOK
<1>8. CASE disk' = [disk EXCEPT ![f] = Image(t, r, back, f)]
  <2>1. disk'[f] = Image(t, r, r.rollback, f) /\ \A g \in Files \ {f} : disk'[g] = disk[g]
    BY <1>3, <1>7, <1>8 DEF Image
  <2>2. \A g \in Files : disk'[g] \in {r.old[g], t}
    BY <1>4, <2>1 DEF Tells, Image
  <2>3. \A g \in 1..r.index : g \in Files \ {f}
    BY <1>1, <1>3, BoundAssumption DEF Files
  <2>4. \A g \in 1..r.index : disk'[g] = Image(t, r, r.rollback, g)
    BY <1>1, <1>4, <2>1, <2>3 DEF Tells, Going
  <2>5. r.phase = "installing" =>
          \A g \in Files : g > r.index + 1 => disk'[g] = r.old[g]
    BY <1>3, <1>4, <2>1 DEF Tells, Files
  <2>6. Tells(pointer.id, receipts[pointer.id])'
    BY <1>1, <1>2, <1>5, <2>2, <2>4, <2>5 DEF Tells, Image, Going
  <2>7. FileCall(a)'
    <3>1. call'[a].pc \in {"checkpoint", "failed"} /\ call'[a].id = t
      BY <1>6, ProceedStep DEF Inv
    <3> QED
      BY <1>5, <2>1, <3>1 DEF FileCall, Image
  <2>8. \A b \in Actors \ {a} : FileCall(b)'
    BY <1>1, <1>6, OthersOutside DEF FileCall, Inside
  <2> QED
    BY <1>2, <1>4, <1>5, <2>6, <2>7, <2>8 DEF FilesInv, WholeVersion
<1>9. CASE disk' = disk /\ Proceed(a, "failed")
  <2>1. Tells(pointer.id, receipts[pointer.id])'
    BY <1>2, <1>4, <1>5, <1>9 DEF Tells, Image
  <2>2. FileCall(a)'
    BY <1>9, FileCallMoved, Pcs0
  <2>3. \A b \in Actors \ {a} : FileCall(b)'
    BY <1>1, <1>6, OthersOutside DEF FileCall, Inside
  <2> QED
    BY <1>2, <1>4, <1>5, <2>1, <2>2, <2>3 DEF FilesInv, WholeVersion
<1> QED
  BY <1>5, <1>8, <1>9

\* What the files are worth does not change with what a caller does next.
LEMMA FilesStay ==
    ASSUME Inv, FilesInv, UNCHANGED <<receipts, pointer, disk>>, edits'.made = edits.made,
           \A b \in Actors : call'[b] = call[b] \/ FileCall(b)'
    PROVE  FilesInv'
<1> SUFFICES ASSUME edits.made = 0 PROVE FilesInv'
  BY DEF FilesInv
<1>1. pointer # None => Tells(pointer.id, receipts[pointer.id])'
  BY DEF FilesInv, Tells, Image
<1>2. \A b \in Actors : FileCall(b)'
  BY DEF FilesInv, FileCall, Image, WholeVersion
<1> QED
  BY <1>1, <1>2 DEF FilesInv, WholeVersion

\* When no replacement is under way, one whole version is installed.
LEMMA Whole ==
    ASSUME Inv, FilesInv, edits.made = 0,
           pointer # None => receipts[pointer.id].phase \notin {"installing", "restoring"}
    PROVE  WholeVersion(disk)
<1>0. disk \in [Files -> Contents]
  BY DEF Inv, TypeOK
<1>1. CASE pointer = None
  BY <1>1 DEF FilesInv, WholeVersion
<1>2. CASE pointer # None
  <2> DEFINE t == pointer.id
             r == receipts[t]
  <2>1. t \in Txns /\ r \in Receipts
    BY <1>2 DEF Inv, TypeOK, Readable, Pointers
  <2>2. Tells(t, r) /\ WholeVersion(r.old)
    BY <1>2, <2>1, AbsenceAssumption DEF FilesInv
  <2>3. CASE Behind(r)
    <3>1. r.old \in [Files -> Contents] /\ \A f \in Files : disk[f] = r.old[f]
      BY <1>2, <2>1, <2>2, <2>3 DEF Tells, Image, Receipts
    <3>2. disk = r.old
      BY <1>0, <3>1
    <3> QED
      BY <2>2, <3>2
  <2>4. CASE ~Behind(r)
    <3>1. \A f \in Files : disk[f] = t
      BY <1>2, <2>2, <2>4 DEF Tells, Image
    <3>2. disk = [f \in Files |-> t]
      BY <1>0, <3>1
    <3> QED
      BY <2>1, <3>2 DEF WholeVersion
  <2> QED
    BY <2>3, <2>4
<1> QED
  BY <1>1, <1>2

LEMMA FilesMoves ==
    ASSUME Inv, FilesInv, NEW a \in Actors, Moves(a) \/ Begins(a), edits' = edits
    PROVE  FilesInv'
<1> SUFFICES ASSUME edits.made = 0 PROVE FilesInv'
  BY DEF FilesInv
<1>1. UNCHANGED <<receipts, pointer, disk>>
  BY DEF Moves, Begins
<1>2. PICK q \in {"receipt", "file", "write", "pointer", "done", "failed", "running"} :
        /\ Proceed(a, q)
        /\ q = "receipt" => MayPrepare(a)
        /\ q = "pointer" => call[a].action = "settle-stopped-rollback"
  BY Zenon DEF Moves, Begins
<1>3. q \in Pcs
  BY DEF Pcs, Inside
<1>4. FileCall(a)'
  <2>1. CASE q = "receipt"
    <3>1. pointer # None => receipts[pointer.id].phase \notin {"installing", "restoring"}
      BY <1>2, <2>1 DEF MayPrepare, Settled
    <3>2. WholeVersion(disk)
      BY <3>1, Whole
    <3>3. call'[a].pc = "receipt"
      BY <1>2, <1>3, <2>1, ProceedStep DEF Inv
    <3> QED
      BY <1>1, <3>2, <3>3 DEF FileCall, WholeVersion
  <2>2. CASE q # "receipt"
    BY <1>2, <1>3, <2>2, FileCallMoved
  <2> QED
    BY <2>1, <2>2
<1>5. \A b \in Actors \ {a} : call'[b] = call[b]
  BY <1>2, <1>3, ProceedStep DEF Inv
<1> QED
  BY <1>1, <1>4, <1>5, FilesStay

LEMMA FilesCompares ==
    ASSUME Inv, FilesInv, NEW a \in Actors, Compares(a)
    PROVE  FilesInv'
<1> DEFINE t == call[a].id
           r == receipts[t]
           f == r.index + 1
           back == call[a].action = "restore"
<1>1. PICK q \in {"rename", "checkpoint", "failed"} :
        Proceed(a, q) /\ (q = "checkpoint" => disk[f] = Image(t, r, back, f))
  BY DEF Compares
<1>2. UNCHANGED <<receipts, pointer, disk>> /\ edits'.made = edits.made
  BY DEF Compares, Inv, TypeOK
<1>3. r.rollback <=> back
  <2>1. t \in Txns /\ IsCurrent(t) /\ r.phase = Going(back)
    BY DEF Compares, Inv, CallInv
  <2>2. r \in Receipts /\ valid(r)
    BY <2>1, CurrentReceipt
  <2> QED
    BY <2>1, <2>2 DEF valid, Going, Receipts
<1>4. q \in Pcs
  BY DEF Pcs, Inside
<1>5. FileCall(a)'
  <2>1. call'[a].pc = q /\ call'[a].id = t
    BY <1>1, <1>4, ProceedStep DEF Inv
  <2> QED
    BY <1>1, <1>2, <1>3, <2>1 DEF FileCall, Image
<1>6. \A b \in Actors \ {a} : call'[b] = call[b]
  BY <1>1, <1>4, ProceedStep DEF Inv
<1> QED
  BY <1>2, <1>5, <1>6, FilesStay

LEMMA FilesForm ==
    ASSUME Inv, FilesInv, NEW a \in Actors, Form(a)
    PROVE  FilesInv'
BY FilesWrites, FilesPoints, FilesInstalls, FilesMoves, FilesCompares DEF Form

\* The start, and every step of the system.
LEMMA FilesInit == Init => FilesInv
<1> SUFFICES ASSUME Init PROVE FilesInv
  OBVIOUS
<1>1. \A a \in Actors : call[a].pc = "idle"
  BY DEF Init, Idle
<1>2. pointer = None /\ disk = BaseImage /\ \A t \in Txns : receipts[t] = None
  BY DEF Init
<1> QED
  BY <1>1, <1>2 DEF FilesInv, FileCall

LEMMA FilesStep ==
    ASSUME Inv, FilesInv, [Next]_vars
    PROVE  FilesInv'
<1>1. CASE \E a \in Actors : Operation(a)
  BY <1>1, OperationForm, FilesForm
<1>2. CASE \E a \in Actors : WriteArchive(a) \/ WriteRecord(a)
  <2>1. PICK a \in Actors : WriteArchive(a) \/ WriteRecord(a)
    BY <1>2
  <2>2. PICK q \in {"record", "done", "failed"} : Proceed(a, q)
    BY <2>1 DEF WriteArchive, WriteRecord
  <2>3. UNCHANGED <<receipts, pointer, disk, edits>>
    BY <2>1 DEF WriteArchive, WriteRecord, Fault, journal, bounds
  <2>4. q \in Pcs
    BY DEF Pcs
  <2>5. FileCall(a)' /\ \A b \in Actors \ {a} : call'[b] = call[b]
    BY <2>2, <2>4, FileCallMoved, ProceedStep DEF Inv
  <2> QED
    BY <2>3, <2>5, FilesStay
<1>3. CASE \E f \in Files : Edit(f)
  <2>1. edits'.made # 0
    BY <1>3 DEF Edit, Inv, TypeOK
  <2> QED
    BY <2>1 DEF FilesInv
<1>4. CASE HelperCalls \/ HelperContinues \/ OperatorCalls \/ OperatorReturns \/ Reboot
           \/ \E a \in Actors : Crash(a)
  <2>0. call \in [Actors -> [pc : Pcs, action : Actions \cup {"none"}, id : Txns \cup {None}]]
    BY DEF Inv, TypeOK
  <2>1. UNCHANGED <<receipts, pointer, disk, edits>>
    BY <1>4 DEF HelperCalls, HelperContinues, OperatorCalls, OperatorReturns, Calls, Crash,
       Reboot, Untouched, journal, bounds
  <2>2. \A b \in Actors :
           call'[b] = call[b] \/ call'[b].pc \in {"idle", "archive", "waiting", "failed"}
    <3>1. CASE Reboot
      BY <3>1 DEF Reboot, Idle
    <3>2. CASE \E a \in Actors : Crash(a)
      BY <2>0, <3>2 DEF Crash, Died, Idle
    <3>3. CASE HelperContinues \/ OperatorReturns
      BY <2>0, <3>3 DEF HelperContinues, OperatorReturns, Idle, Actors
    <3>4. CASE HelperCalls \/ OperatorCalls
      <4>1. \E a \in Actors : \E k, t : Calls(a, k, t)
        BY <3>4 DEF HelperCalls, OperatorCalls, Actors
      <4> QED
        BY <2>0, <4>1 DEF Calls
    <3> QED
      BY <1>4, <3>1, <3>2, <3>3, <3>4
  <2> QED
    BY <2>1, <2>2, FilesStay DEF FileCall
<1>5. CASE (\E t \in Txns : LaunchHelper(t)) \/ WorkerEnds \/ RequestStop \/ BootPanel
           \/ PanelDies \/ UNCHANGED vars
  <2>1. UNCHANGED <<receipts, pointer, disk, edits, call>>
    BY <1>5 DEF LaunchHelper, WorkerEnds, RequestStop, BootPanel, PanelDies, vars, Untouched,
       journal, bounds
  <2> QED
    BY <2>1, FilesStay
<1> QED
  BY <1>1, <1>2, <1>3, <1>4, <1>5 DEF Next, Works

-----------------------------------------------------------------------------
(* The worker and the panel. *)

\* A command that runs is the one its receipt says was started.
WorkerInv ==
    worker \in Commands =>
        /\ pointer # None
        /\ receipts[pointer.id].phase = "command-started"
        /\ receipts[pointer.id].command = worker

LEMMA WorkerWrites ==
    ASSUME Inv, WorkerInv, NEW a \in Actors, Writes(a)
    PROVE  WorkerInv'
<1> DEFINE t == call[a].id
           r == receipts[t]
           back == call[a].action = "restore"
<1> SUFFICES ASSUME worker \in Commands PROVE receipts'[pointer.id] = receipts[pointer.id]
  BY DEF WorkerInv, Writes
<1>1. /\ pointer # None /\ pointer.id \in Txns /\ receipts[pointer.id] # None
      /\ receipts[pointer.id].phase = "command-started" /\ ~Inactive
  BY DEF WorkerInv, Inactive, Inv, TypeOK, Readable, Pointers
<1>2. PICK s, q : Rewrites(a, s) /\ WriteReceipt(a, s, q)
  BY DEF Writes
<1>3. t # pointer.id
  <2> SUFFICES ASSUME t = pointer.id PROVE FALSE
    OBVIOUS
  <2>1. r.phase = "command-started" /\ r # None
    BY <1>1
  <2>2. call[a].pc \notin {"receipt", "checkpoint", "file", "write"}
    BY <2>1 DEF Inv, CallInv, Going, Gone
  <2>3. ~MayReplace(t, back) /\ ~MaySettle(t) /\ ~MaySeal(t)
    BY <2>1 DEF MayReplace, MaySettle, MaySeal
  <2>4. \A c \in Commands : ~MayExecute(t, c)
    BY <2>1 DEF MayExecute
  <2>5. r.phase # "accepted" /\ r.phase # "rolled-back-stopped"
    BY <2>1
  <2> QED
    BY <1>1, <1>2, <2>2, <2>3, <2>4, <2>5 DEF Rewrites
<1>4. receipts \in [Txns -> Receipts \cup {None}] /\ t \in Txns
  BY <1>2, NextReceipt DEF Inv, TypeOK
<1> QED
  BY <1>1, <1>2, <1>3, <1>4 DEF WriteReceipt

LEMMA WorkerForm ==
    ASSUME Inv, WorkerInv, NEW a \in Actors, Form(a)
    PROVE  WorkerInv'
<1>1. CASE Points(a)
  <2> SUFFICES ASSUME worker \in Commands
               PROVE  pointer' # None /\ pointer'.id = pointer.id
    BY <1>1 DEF WorkerInv, Points
  <2>1. PICK s \in {Live, StoppedSchema, PairedSchema}, q \in {"done", "archive"} :
          WritePointer(a, s, q)
    BY <1>1 DEF Points
  <2>2. /\ call[a].pc = "pointer" /\ call[a].id \in Txns
        /\ call[a].action # "prepare"
    BY <1>1 DEF Points, Inactive, Inv, CallInv
  <2>3. pointer # None /\ pointer.id = call[a].id
    BY <2>2 DEF Inv, CallInv
  <2>4. pointer' \in {pointer, [id |-> call[a].id, schema |-> s]}
    BY <2>1 DEF WritePointer
  <2> QED
    BY <2>2, <2>3, <2>4, AbsenceAssumption DEF Pointers
<1>2. CASE Begins(a)
  <2>1. /\ IsCurrent(call[a].id) /\ receipts[call[a].id].phase = "command-started"
        /\ receipts[call[a].id].command = call[a].action
    BY <1>2 DEF Begins, Inv, CallInv
  <2>2. pointer # None /\ pointer.id = call[a].id /\ "failed" \notin Commands
    BY <2>1 DEF IsCurrent, Commands, PreFiles, Starts
  <2> QED
    BY <1>2, <2>1, <2>2 DEF Begins, WorkerInv
<1>3. CASE Compares(a) \/ Installs(a) \/ Moves(a)
  BY <1>3 DEF Compares, Installs, Moves, WorkerInv
<1> QED
  BY <1>1, <1>2, <1>3, WorkerWrites DEF Form

LEMMA WorkerStep ==
    ASSUME Inv, WorkerInv, [Next]_vars
    PROVE  WorkerInv'
<1>1. CASE \E a \in Actors : Operation(a)
  BY <1>1, OperationForm, WorkerForm
<1>2. CASE WorkerEnds \/ Reboot
  <2>1. /\ UNCHANGED <<receipts, pointer>>
        /\ worker' \in {"ok", "failed", worker}
    BY <1>2 DEF WorkerEnds, Reboot, journal
  <2>2. "ok" \notin Commands /\ "failed" \notin Commands
    BY DEF Commands, PreFiles, Starts
  <2> QED
    BY <2>1, <2>2 DEF WorkerInv
<1>3. CASE ~(\E a \in Actors : Operation(a)) /\ ~WorkerEnds /\ ~Reboot
  <2>1. UNCHANGED <<receipts, pointer, worker>>
    BY <1>3 DEF Next, Works, WriteArchive, WriteRecord, LaunchHelper, HelperCalls,
       HelperContinues, OperatorCalls, OperatorReturns, Calls, Crash, RequestStop, BootPanel,
       PanelDies, Edit, Untouched, journal, vars
  <2> QED
    BY <2>1 DEF WorkerInv
<1> QED
  BY <1>1, <1>2, <1>3

\* What runs is what is installed, and one whole version.
PanelInv == (panel # None /\ edits.made = 0) => panel = disk /\ WholeVersion(disk)

LEMMA PanelForm ==
    ASSUME Inv, PanelInv, NEW a \in Actors, Form(a)
    PROVE  PanelInv'
<1>1. CASE Installs(a)
  <2>1. /\ IsCurrent(call[a].id) /\ panel' = panel
        /\ receipts[call[a].id].phase \in {"installing", "restoring"}
    BY <1>1 DEF Installs, Inv, CallInv, Going
  <2>2. panel = None
    BY <1>1, <2>1 DEF Installs, Checks, Quiescent
  <2> QED
    BY <2>1, <2>2 DEF PanelInv
<1>2. CASE Compares(a)
  <2>1. edits'.made = edits.made
    BY <1>2 DEF Compares, Inv, TypeOK
  <2> QED
    BY <1>2, <2>1 DEF Compares, PanelInv, WholeVersion
<1>3. CASE ~Installs(a) /\ ~Compares(a)
  BY <1>3 DEF Form, Writes, Points, Begins, Moves, PanelInv, WholeVersion
<1> QED
  BY <1>1, <1>2, <1>3

LEMMA PanelStep ==
    ASSUME Inv, FilesInv, WorkerInv, PanelInv, [Next]_vars
    PROVE  PanelInv'
<1>1. CASE \E a \in Actors : Operation(a)
  BY <1>1, OperationForm, PanelForm
<1>2. CASE WorkerEnds
  <2> SUFFICES ASSUME edits.made = 0, panel' # None
               PROVE  panel' = disk /\ WholeVersion(disk)
    BY <1>2 DEF PanelInv, WorkerEnds, bounds, WholeVersion
  <2>1. panel' \in {panel, None} \/ (worker \in Starts /\ panel' = disk)
    BY <1>2 DEF WorkerEnds
  <2>2. CASE worker \in Starts /\ panel' = disk
    <3>1. /\ pointer # None /\ receipts[pointer.id].phase = "command-started"
      BY <1>2 DEF WorkerEnds, WorkerInv
    <3> QED
      BY <2>2, <3>1, Whole
  <2> QED
    BY <2>1, <2>2 DEF PanelInv
<1>3. CASE BootPanel
  <2>1. panel' = disk /\ UNCHANGED <<disk, edits>> /\ ~Pending
    BY <1>3 DEF BootPanel, bounds
  <2>2. pointer # None => receipts[pointer.id].phase \notin {"installing", "restoring"}
    BY <2>1 DEF Pending, Inspected, Settled
  <2> QED
    BY <2>1, <2>2, Whole DEF PanelInv, WholeVersion
<1>4. CASE \E f \in Files : Edit(f)
  BY <1>4 DEF Edit, Inv, TypeOK, PanelInv
<1>5. CASE ~(\E a \in Actors : Operation(a)) /\ ~WorkerEnds /\ ~BootPanel
           /\ ~(\E f \in Files : Edit(f))
  <2>1. UNCHANGED <<disk, edits>> /\ panel' \in {panel, None}
    BY <1>5 DEF Next, Works, WriteArchive, WriteRecord, Fault, LaunchHelper, HelperCalls,
       HelperContinues, OperatorCalls, OperatorReturns, Calls, Crash, RequestStop, Reboot,
       PanelDies, Untouched, journal, bounds, vars
  <2> QED
    BY <2>1 DEF PanelInv, WholeVersion
<1> QED
  BY <1>1, <1>2, <1>3, <1>4, <1>5

-----------------------------------------------------------------------------
(* Edits and the record of the helper. *)

\* A step of an operation keeps every receipt's old images.
LEMMA OldStays ==
    ASSUME Inv, NEW a \in Actors, Form(a), NEW t \in Txns, receipts[t] # None
    PROVE  receipts'[t] # None /\ receipts'[t].old = receipts[t].old
<1>1. CASE Writes(a)
  <2>1. PICK s, q : Rewrites(a, s) /\ WriteReceipt(a, s, q)
    BY <1>1 DEF Writes
  <2>2. /\ call[a].id \in Txns /\ s \in Receipts
        /\ receipts[call[a].id] = None \/ s.old = receipts[call[a].id].old
    BY <2>1, NextReceipt
  <2>3. receipts' = receipts \/ receipts' = [receipts EXCEPT ![call[a].id] = s]
    BY <2>1 DEF WriteReceipt
  <2> QED
    BY <2>2, <2>3, AbsenceAssumption DEF Inv, TypeOK
<1> QED
  BY <1>1 DEF Form, Compares, Points, Installs, Begins, Moves

\* What a caller that is about to rename has come across: the frozen images only,
\* unless the file was edited since.
SeenCall(a) ==
    LET t == call[a].id
        r == receipts[t]
        f == r.index + 1 IN
    call[a].pc = "rename" => f \in edits.unseen \/ disk[f] \in {r.old[f], t}
SeenInv == \A a \in Actors : SeenCall(a)

LEMMA SeenForm ==
    ASSUME Inv, SeenInv, NEW a \in Actors, Form(a)
    PROVE  SeenInv'
<1> DEFINE t == call[a].id
           r == receipts[t]
           f == r.index + 1
<1>1. CASE Compares(a)
  <2>1. PICK q \in {"rename", "checkpoint", "failed"} :
          Proceed(a, q) /\ (q = "rename" => disk[f] \in {r.old[f], t})
    BY <1>1 DEF Compares
  <2>2. q \in Pcs /\ call[a].pc \in Inside /\ UNCHANGED <<receipts, disk>>
    BY <1>1 DEF Pcs, Inside, Compares
  <2>3. SeenCall(a)'
    BY <2>1, <2>2, ProceedStep DEF SeenCall, Inv
  <2>4. \A b \in Actors \ {a} : SeenCall(b)'
    BY <2>1, <2>2, OthersOutside DEF SeenCall, Inside
  <2> QED
    BY <2>3, <2>4 DEF SeenInv
<1>2. CASE Moves(a) /\ edits' = edits
  <2>1. PICK q \in {"receipt", "file", "write", "pointer", "done", "failed"} : Proceed(a, q)
    BY <1>2 DEF Moves
  <2>2. q \in Pcs /\ UNCHANGED <<receipts, disk>>
    BY <1>2 DEF Pcs, Inside, Moves
  <2>3. call'[a].pc = q /\ \A b \in Actors \ {a} : call'[b] = call[b]
    BY <2>1, <2>2, ProceedStep DEF Inv
  <2> QED
    BY <1>2, <2>2, <2>3 DEF SeenInv, SeenCall
<1>3. CASE Writes(a) \/ Points(a) \/ Installs(a) \/ Begins(a)
  <2>1. PICK q \in Pcs : Proceed(a, q) /\ q # "rename"
    <3>1. CASE Writes(a)
      <4>1. PICK s, x : Onward(a, x) /\ WriteReceipt(a, s, x)
        BY <3>1 DEF Writes
      <4>2. x \in Pcs /\ x # "rename"
        BY <4>1 DEF Onward, Pcs, Inside
      <4> QED
        BY <4>1, <4>2, Pcs0 DEF WriteReceipt
    <3>2. CASE Points(a)
      <4>1. PICK s \in {Live, StoppedSchema, PairedSchema}, x \in {"done", "archive"} :
                WritePointer(a, s, x)
        BY <3>2 DEF Points
      <4> QED
        BY <4>1, Pcs0 DEF WritePointer
    <3>3. CASE Installs(a) \/ Begins(a)
      <4>1. PICK x \in {"checkpoint", "failed", "running"} : Proceed(a, x)
        BY <3>3, Zenon DEF Installs, Begins
      <4>2. x \in Pcs
        BY DEF Pcs, Inside
      <4> QED
        BY <4>1, <4>2
    <3> QED
      BY <1>3, <3>1, <3>2, <3>3
  <2>2. call[a].pc \in Inside \/ lock = None
    BY <1>3 DEF Writes, Points, Installs, Begins, Inside
  <2>3. call'[a].pc # "rename"
    BY <2>1, ProceedStep DEF Inv
  <2>4. \A b \in Actors \ {a} : call'[b].pc # "rename"
    BY <2>1, <2>2, OthersOutside DEF Inside
  <2> QED
    BY <2>3, <2>4 DEF SeenInv, SeenCall
<1> QED
  BY <1>1, <1>2, <1>3 DEF Form

LEMMA SeenStep ==
    ASSUME Inv, SeenInv, [Next]_vars
    PROVE  SeenInv'
<1>0. call \in [Actors -> [pc : Pcs, action : Actions \cup {"none"}, id : Txns \cup {None}]]
      /\ disk \in [Files -> Contents]
  BY DEF Inv, TypeOK
<1>1. CASE \E a \in Actors : Operation(a)
  BY <1>1, OperationForm, SeenForm
<1>2. CASE \E f \in Files : Edit(f)
  <2>1. PICK f \in Files : Edit(f)
    BY <1>2
  <2>2. /\ edits'.unseen = edits.unseen \cup {f} /\ UNCHANGED <<receipts, call>>
        /\ \A g : g # f => disk'[g] = disk[g]
    BY <1>0, <2>1 DEF Edit, journal
  <2> QED
    BY <2>2 DEF SeenInv, SeenCall
<1>3. CASE ~(\E a \in Actors : Operation(a)) /\ ~(\E f \in Files : Edit(f))
  <2>1. UNCHANGED <<receipts, disk, edits>>
    BY <1>3 DEF Next, Works, WriteArchive, WriteRecord, Fault, LaunchHelper, HelperCalls,
       HelperContinues, OperatorCalls, OperatorReturns, Calls, Crash, RequestStop, Reboot,
       BootPanel, WorkerEnds, PanelDies, Untouched, journal, bounds, vars
  <2>2. \A b \in Actors : call'[b] = call[b] \/ call'[b].pc # "rename"
    <3>1. CASE \E a \in Actors : WriteArchive(a) \/ WriteRecord(a)
      <4>1. PICK a \in Actors, q \in {"record", "done", "failed"} : Proceed(a, q)
        BY <3>1 DEF WriteArchive, WriteRecord
      <4> QED
        BY <1>0, <4>1 DEF Proceed, Goto
    <3>2. CASE Reboot
      BY <3>2 DEF Reboot, Idle
    <3>3. CASE \E a \in Actors : Crash(a)
      BY <1>0, <3>3 DEF Crash, Died, Idle
    <3>4. CASE HelperContinues \/ OperatorReturns
      BY <1>0, <3>4 DEF HelperContinues, OperatorReturns, Idle, Actors
    <3>5. CASE HelperCalls \/ OperatorCalls
      <4>1. \E a \in Actors : \E k, t : Calls(a, k, t)
        BY <3>5 DEF HelperCalls, OperatorCalls, Actors
      <4> QED
        BY <1>0, <4>1 DEF Calls
    <3>6. CASE (\E t \in Txns : LaunchHelper(t)) \/ WorkerEnds \/ RequestStop \/ BootPanel
               \/ PanelDies \/ UNCHANGED vars
      BY <3>6 DEF LaunchHelper, WorkerEnds, RequestStop, BootPanel, PanelDies, vars, Untouched
    <3> QED
      BY <1>3, <3>1, <3>2, <3>3, <3>4, <3>5, <3>6 DEF Next, Works
  <2> QED
    BY <2>1, <2>2 DEF SeenInv, SeenCall
<1> QED
  BY <1>1, <1>2, <1>3

\* A caller that writes the record of a stopped rollback has settled it, and the
\* shared record repeats the retained one.
RecordCall(a) ==
    LET t == call[a].id
        pc == call[a].pc IN
    /\ pc \in {"archive", "record"} /\ call[a].action = "settle-stopped-rollback" =>
         receipts[t] # None /\ receipts[t].phase = "rolled-back-stopped"
    /\ pc = "record" => archive[t] = Wanted(call[a].action)

RecordInv ==
    /\ RecordFollowsJournal
    /\ Terminal(record.state) => record.id \in Txns
    /\ \A a \in Actors : RecordCall(a)

\* What was settled as a record says stays so over a step of an operation.
LEMMA RecordFollowsForm ==
    ASSUME Inv, RecordInv, NEW a \in Actors, Operation(a), UNCHANGED <<record, archive>>
    PROVE  RecordInv'
<1>1. \A t \in Txns : (receipts[t] # None /\ Settled(receipts[t])) =>
        /\ receipts'[t] # None
        /\ \/ receipts'[t].phase = receipts[t].phase
           \/ receipts[t].phase = "accepted" /\ receipts'[t].phase = "archived"
  BY OperationForm, OldStays, OperationKeepsSettled
<1>2. RecordFollowsJournal'
  <2>1. \A t \in Txns : archive[t] # None =>
          /\ receipts[t] # None /\ Settled(receipts[t])
          /\ IF archive[t] = "completed" THEN receipts[t].phase \in {"accepted", "archived"}
                                         ELSE receipts[t].phase = archive[t]
    BY DEF RecordInv, RecordFollowsJournal, Settled, Inv, TypeOK
  <2>2. \A t \in Txns : archive[t] # None =>
          /\ receipts'[t] # None
          /\ IF archive[t] = "completed" THEN receipts'[t].phase \in {"accepted", "archived"}
                                         ELSE receipts'[t].phase = archive[t]
    BY <1>1, <2>1 DEF Inv, TypeOK
  <2>3. Terminal(record.state) => archive[record.id] = record.state
    BY DEF RecordInv, RecordFollowsJournal
  <2> QED
    BY <2>2, <2>3 DEF RecordFollowsJournal
<1>3. ASSUME NEW b \in Actors, call'[b] = call[b]
      PROVE  RecordCall(b)'
  <2>1. call[b].pc # "idle" => call[b].id \in Txns
    BY DEF Inv, CallInv
  <2> QED
    BY <1>1, <1>3, <2>1 DEF RecordInv, RecordCall, Settled
<1>4. PICK q \in Pcs : Proceed(a, q) /\ q # "record"
        /\ (q = "archive" => \/ call[a].pc = "write"
                             \/ Points(a) /\ call[a].action = "settle-stopped-rollback")
  <2>0. Form(a)
    BY OperationForm
  <2>1. CASE Writes(a)
    <3>1. PICK s, x : Onward(a, x) /\ WriteReceipt(a, s, x)
      BY <2>1 DEF Writes
    <3>2. x \in Pcs /\ x # "record" /\ (x = "archive" => call[a].pc = "write")
      BY <3>1 DEF Onward, Pcs, Inside
    <3> QED
      BY <3>1, <3>2, Pcs0 DEF WriteReceipt
  <2>2. CASE Points(a)
    <3>1. PICK s \in {Live, StoppedSchema, PairedSchema}, x \in {"done", "archive"} :
            /\ WritePointer(a, s, x)
            /\ x = "archive" => call[a].action = "settle-stopped-rollback"
      BY <2>2 DEF Points
    <3> QED
      BY <2>2, <3>1, Pcs0 DEF WritePointer
  <2>3. CASE Compares(a) \/ Installs(a) \/ Begins(a) \/ Moves(a)
    <3>1. PICK x \in {"rename", "checkpoint", "failed", "running", "receipt", "file", "write",
                      "pointer", "done"} : Proceed(a, x)
      BY <2>3, Zenon DEF Compares, Installs, Begins, Moves
    <3>2. x \in Pcs
      BY DEF Pcs, Inside
    <3> QED
      BY <3>1, <3>2
  <2> QED
    BY <2>0, <2>1, <2>2, <2>3 DEF Form
<1>5. RecordCall(a)'
  <2>1. call'[a].pc = q /\ call'[a].action = call[a].action /\ call'[a].id = call[a].id
    BY <1>4, ProceedStep DEF Inv
  <2>2. CASE q = "archive" /\ call[a].pc = "write"
    <3>1. call[a].action \in Accepts
      BY <2>2 DEF Inv, CallInv
    <3> QED
      BY <1>4, <2>1, <2>2, <3>1 DEF RecordCall, Accepts
  <2>3. CASE q = "archive" /\ Points(a) /\ call[a].action = "settle-stopped-rollback"
    <3>1. /\ call[a].id \in Txns /\ receipts[call[a].id] \in Receipts
          /\ receipts[call[a].id].schema = StoppedSchema /\ receipts' = receipts
      BY <2>3 DEF Points, Inv, CallInv
    <3>2. receipts[call[a].id] # None /\ receipts[call[a].id].phase = "rolled-back-stopped"
      BY <3>1, AbsenceAssumption DEF Inv, ReceiptInv, valid
    <3> QED
      BY <1>4, <2>1, <3>1, <3>2 DEF RecordCall
  <2>4. CASE q # "archive"
    BY <1>4, <2>1, <2>4 DEF RecordCall
  <2> QED
    BY <1>4, <2>2, <2>3, <2>4
<1>6. \A b \in Actors \ {a} : call'[b] = call[b]
  BY <1>4, ProceedStep DEF Inv
<1> QED
  BY <1>2, <1>3, <1>5, <1>6 DEF RecordInv

\* The retained record is written only of what the receipt says, and once.
LEMMA RecordArchives ==
    ASSUME Inv, RecordInv, NEW a \in Actors, WriteArchive(a)
    PROVE  RecordInv'
<1> DEFINE t == call[a].id
           wanted == Wanted(call[a].action)
<1>0. /\ call[a].pc = "archive" /\ t \in Txns
      /\ call[a].action \in Accepts \cup {"settle-stopped-rollback"}
      /\ UNCHANGED <<receipts, record>>
      /\ archive \in [Txns -> {None, "completed", "rolled-back", "rolled-back-stopped"}]
  BY DEF WriteArchive, At, journal, Inv, CallInv, TypeOK
<1>1. PICK q \in {"failed", "done", "record"} :
        /\ Proceed(a, q)
        /\ \/ archive' = archive /\ q # "record"
           \/ /\ Vouched(a) /\ ~(Terminal(record.state) /\ record.state # wanted)
              /\ archive[t] \in {None, wanted}
              /\ archive' = archive \/ archive' = [archive EXCEPT ![t] = wanted]
              /\ q = "record" => archive' = [archive EXCEPT ![t] = wanted]
  <2>1. CASE /\ archive' = archive
             /\ Proceed(a, "failed") \/ Proceed(a, "done")
    BY <2>1
  <2>2. CASE /\ Vouched(a) /\ ~(Terminal(record.state) /\ record.state # wanted)
             /\ archive[t] \in {None, wanted}
             /\ \E o \in Outcomes :
                   /\ archive' = IF o = "lost" THEN archive ELSE [archive EXCEPT ![t] = wanted]
                   /\ Proceed(a, IF o = "ok" THEN "record" ELSE "failed")
    BY <2>2 DEF Outcomes
  <2> QED
    BY <2>1, <2>2 DEF WriteArchive
<1>2. q \in Pcs
  BY DEF Pcs
<1>3. /\ call'[a].pc = q /\ call'[a].action = call[a].action /\ call'[a].id = t
      /\ \A b \in Actors \ {a} : call'[b] = call[b]
  BY <1>1, <1>2, ProceedStep DEF Inv
<1>4. CASE archive' = archive /\ q # "record"
  BY <1>0, <1>1, <1>3, <1>4 DEF RecordInv, RecordFollowsJournal, RecordCall
<1>5. CASE /\ Vouched(a) /\ ~(Terminal(record.state) /\ record.state # wanted)
           /\ archive[t] \in {None, wanted}
           /\ archive' = archive \/ archive' = [archive EXCEPT ![t] = wanted]
           /\ q = "record" => archive' = [archive EXCEPT ![t] = wanted]
  <2>1. wanted \in {"completed", "rolled-back", "rolled-back-stopped"} /\ wanted # None
    BY <1>0, AbsenceAssumption DEF Wanted, Accepts
  <2>2. /\ receipts[t] # None
        /\ IF wanted = "completed" THEN receipts[t].phase \in {"accepted", "archived"}
                                   ELSE receipts[t].phase = wanted
    <3>1. CASE call[a].action = "settle-stopped-rollback"
      BY <1>0, <3>1 DEF RecordInv, RecordCall, Wanted
    <3>2. CASE call[a].action \in Accepts
      <4>1. IsCurrent(t) /\ Finishes(call[a].action, t)
        BY <1>5, <3>2 DEF Vouched, Confirmed, Accepts
      <4>2. receipts[t] # None
        BY <1>0, <4>1, CurrentReceipt
      <4> QED
        BY <3>2, <4>1, <4>2 DEF Finishes, Wanted, Accepts
    <3> QED
      BY <1>0, <3>1, <3>2
  <2>3. /\ \A u \in Txns \ {t} : archive'[u] = archive[u]
        /\ archive'[t] \in {archive[t], wanted}
        /\ q = "record" => archive'[t] = wanted
    BY <1>0, <1>5
  <2>4. \A u \in Txns : archive'[u] # None =>
          /\ receipts[u] # None
          /\ IF archive'[u] = "completed" THEN receipts[u].phase \in {"accepted", "archived"}
                                          ELSE receipts[u].phase = archive'[u]
    BY <2>2, <2>3 DEF RecordInv, RecordFollowsJournal
  <2>5. Terminal(record.state) => archive'[record.id] = record.state
    <3> SUFFICES ASSUME Terminal(record.state) PROVE archive'[record.id] = record.state
      OBVIOUS
    <3>1. archive[record.id] = record.state /\ record.state = wanted /\ record.id \in Txns
      BY <1>5 DEF RecordInv, RecordFollowsJournal
    <3> QED
      BY <1>0, <1>5, <3>1
  <2>6. RecordFollowsJournal'
    BY <1>0, <2>4, <2>5 DEF RecordFollowsJournal
  <2>7. RecordCall(a)'
    BY <1>0, <1>3, <2>3 DEF RecordInv, RecordCall
  <2>8. ASSUME NEW b \in Actors \ {a}
        PROVE  RecordCall(b)'
    <3>1. call'[b] = call[b] /\ (call[b].pc = "record" => call[b].id \in Txns
                                  /\ call[b].action \in Accepts \cup {"settle-stopped-rollback"})
      BY <1>3 DEF Inv, CallInv
    <3>2. call[b].pc = "record" => archive'[call[b].id] = Wanted(call[b].action)
      <4> SUFFICES ASSUME call[b].pc = "record"
                   PROVE  archive'[call[b].id] = Wanted(call[b].action)
        OBVIOUS
      <4>1. archive[call[b].id] = Wanted(call[b].action) /\ Wanted(call[b].action) # None
        BY <3>1, AbsenceAssumption DEF RecordInv, RecordCall, Wanted, Accepts
      <4> QED
        BY <1>5, <2>3, <3>1, <4>1
    <3> QED
      BY <1>0, <3>1, <3>2 DEF RecordInv, RecordCall
  <2>9. Terminal(record'.state) => record'.id \in Txns
    BY <1>0 DEF RecordInv
  <2> QED
    BY <2>6, <2>7, <2>8, <2>9 DEF RecordInv
<1> QED
  BY <1>1, <1>4, <1>5

LEMMA RecordWrites ==
    ASSUME Inv, RecordInv, NEW a \in Actors, WriteRecord(a)
    PROVE  RecordInv'
<1>1. PICK q \in {"failed", "done"} : Proceed(a, q)
  BY DEF WriteRecord
<1>2. q \in Pcs
  BY DEF Pcs
<1>3. call'[a].pc = q /\ \A b \in Actors \ {a} : call'[b] = call[b]
  BY <1>1, <1>2, ProceedStep DEF Inv
<1>4. /\ call[a].pc = "record" /\ UNCHANGED <<receipts, archive>>
      /\ record' \in {record, [id |-> call[a].id, state |-> Wanted(call[a].action)]}
  BY DEF WriteRecord, At, journal
<1>5. archive[call[a].id] = Wanted(call[a].action) /\ call[a].id \in Txns
  BY <1>4 DEF RecordInv, RecordCall, Inv, CallInv
<1>6. RecordFollowsJournal'
  BY <1>4, <1>5 DEF RecordInv, RecordFollowsJournal
<1>7. \A b \in Actors : RecordCall(b)'
  BY <1>1, <1>3, <1>4 DEF RecordInv, RecordCall
<1>8. Terminal(record'.state) => record'.id \in Txns
  BY <1>4, <1>5 DEF RecordInv
<1> QED
  BY <1>6, <1>7, <1>8 DEF RecordInv

LEMMA RecordStep ==
    ASSUME Inv, RecordInv, [Next]_vars
    PROVE  RecordInv'
<1>1. CASE \E a \in Actors : Works(a)
  BY <1>1, RecordFollowsForm, RecordArchives, RecordWrites DEF Works
<1>2. CASE ~\E a \in Actors : Works(a)
  <2>0. call \in [Actors -> [pc : Pcs, action : Actions \cup {"none"}, id : Txns \cup {None}]]
    BY DEF Inv, TypeOK
  <2>1. /\ UNCHANGED <<receipts, archive>>
        /\ record' = record \/ ~Terminal(record'.state)
    <3>1. CASE \E t \in Txns : LaunchHelper(t)
      BY <3>1 DEF LaunchHelper, Untouched, journal, Terminal
    <3>2. CASE HelperContinues
      BY <3>2 DEF HelperContinues, Untouched, journal, Terminal, Inv, TypeOK
    <3> QED
      BY <1>2, <3>1, <3>2 DEF Next, HelperCalls, OperatorCalls, OperatorReturns, Calls, Crash,
         WorkerEnds, RequestStop, Reboot, BootPanel, PanelDies, Edit, Untouched, journal, vars
  <2>2. \A b \in Actors :
          \/ call'[b] = call[b]
          \/ call'[b].pc \in {"idle", "waiting", "failed"}
          \/ call'[b].pc = "archive" /\ call'[b].action \in Accepts
    <3>1. CASE Reboot
      BY <3>1 DEF Reboot, Idle
    <3>2. CASE \E a \in Actors : Crash(a)
      BY <2>0, <3>2 DEF Crash, Died, Idle
    <3>3. CASE HelperContinues \/ OperatorReturns
      BY <2>0, <3>3 DEF HelperContinues, OperatorReturns, Idle, Actors
    <3>4. CASE HelperCalls \/ OperatorCalls
      <4>1. \E a \in Actors : \E k, t : Calls(a, k, t)
        BY <3>4 DEF HelperCalls, OperatorCalls, Actors
      <4> QED
        BY <2>0, <4>1 DEF Calls, Finishes, Accepts
    <3>5. CASE ~(HelperCalls \/ HelperContinues \/ OperatorCalls \/ OperatorReturns \/ Reboot
                 \/ \E a \in Actors : Crash(a))
      BY <1>2, <3>5 DEF Next, LaunchHelper, WorkerEnds, RequestStop, BootPanel, PanelDies, Edit,
         Untouched, vars
    <3> QED
      BY <3>1, <3>2, <3>3, <3>4, <3>5
  <2>3. RecordFollowsJournal'
    BY <2>1 DEF RecordInv, RecordFollowsJournal
  <2>4. \A b \in Actors : RecordCall(b)'
    BY <2>1, <2>2 DEF RecordInv, RecordCall, Accepts
  <2>5. Terminal(record'.state) => record'.id \in Txns
    BY <2>1 DEF RecordInv
  <2> QED
    BY <2>3, <2>4, <2>5 DEF RecordInv
<1> QED
  BY <1>1, <1>2

-----------------------------------------------------------------------------
(* Theorems. *)

\* The files are what the current receipt tells, the panel runs one whole
\* version, the record of the helper follows the journal, and a caller that is
\* about to rename has compared, in every reachable state: whoever replaces a
\* file, begins a command or writes a receipt holds the writer lock and has
\* checked it there (openWriter, lock.go:14).
THEOREM FilesInvariance ==
    Spec => [](FilesInv /\ WorkerInv /\ PanelInv /\ RecordInv /\ SeenInv)
<1> DEFINE All == FilesInv /\ WorkerInv /\ PanelInv /\ RecordInv /\ SeenInv
<1>1. Init => All
  <2> SUFFICES ASSUME Init PROVE All
    OBVIOUS
  <2>1. WorkerInv
    BY DEF Init, WorkerInv, Commands, PreFiles, Starts
  <2>2. PanelInv
    BY DEF Init, PanelInv, WholeVersion
  <2>3. RecordInv
    BY DEF Init, RecordInv, RecordFollowsJournal, RecordCall, Terminal, Idle
  <2>4. SeenInv
    BY DEF Init, SeenInv, SeenCall, Idle
  <2> QED
    BY <2>1, <2>2, <2>3, <2>4, FilesInit
<1>2. Inv /\ All /\ [Next]_vars => All'
  BY FilesStep, WorkerStep, PanelStep, RecordStep, SeenStep
<1> QED
  BY <1>1, <1>2, Invariance, PTL DEF Spec

\* After any crash or failed write the current receipt tells which image every
\* installed file has, up to the one file after its checkpoint (replace,
\* journal.go:715).
THEOREM ReceiptTells == Spec => []ReceiptTellsFiles
<1>1. FilesInv => ReceiptTellsFiles
  BY DEF FilesInv, Tells, Behind, HoldsImages, ReceiptTellsFiles
<1> QED
  BY <1>1, FilesInvariance, PTL

\* No file is replaced under a running panel, and a panel that is started runs
\* one whole version (Quiescence before each rename, journal.go:858).
THEOREM PanelRunsInstalled == Spec => []PanelRunsInstalledFiles
<1>1. PanelInv => PanelRunsInstalledFiles
  BY DEF PanelInv, WholeVersion, PanelRunsInstalledFiles
<1> QED
  BY <1>1, FilesInvariance, PTL

\* A helper record that tells how an update ended is one its receipt vouches
\* for, whoever writes it after the writer lock is given back (Finish,
\* file_adapter.go:883).
THEOREM RecordNeverAhead == Spec => []RecordFollowsJournal
<1>1. RecordInv => RecordFollowsJournal
  BY DEF RecordInv
<1> QED
  BY <1>1, FilesInvariance, PTL

\* An edit of the owner is overwritten only if the transaction keeps a copy of it,
\* or if it fell between the comparison and the rename of a replacement under way;
\* and no transaction loses or changes the copies it keeps (replaceFile,
\* journal.go:785 and :879).
THEOREM EditsAreKept == Spec => EditIsKept
<1> DEFINE Kept0 ==
      /\ \A f \in Files : (disk[f] = Foreign /\ disk'[f] # Foreign) =>
           f \in edits.unseen \/ (pointer # None /\ receipts[pointer.id].old[f] = Foreign)
      /\ \A t \in Txns : receipts[t] # None =>
           receipts'[t] # None /\ receipts'[t].old = receipts[t].old
<1>1. Inv /\ SeenInv /\ [Next]_vars => Kept0
  <2> SUFFICES ASSUME Inv, SeenInv, [Next]_vars PROVE Kept0
    OBVIOUS
  <2>0. disk \in [Files -> Contents]
    BY DEF Inv, TypeOK
  <2>1. CASE \E a \in Actors : Operation(a)
    <3>1. PICK a \in Actors : Form(a)
      BY <2>1, OperationForm
    <3>2. ASSUME NEW f \in Files, disk[f] = Foreign, disk'[f] # Foreign
          PROVE  f \in edits.unseen \/ (pointer # None /\ receipts[pointer.id].old[f] = Foreign)
      <4> DEFINE t == call[a].id
                 r == receipts[t]
      <4>1. Installs(a)
        BY <3>1, <3>2 DEF Form, Compares, Writes, Points, Begins, Moves
      <4>2. f = r.index + 1
        BY <2>0, <3>2, <4>1 DEF Installs
      <4>3. f \in edits.unseen \/ disk[f] \in {r.old[f], t}
        BY <4>1, <4>2 DEF Installs, SeenInv, SeenCall
      <4>4. t \in Txns /\ pointer # None /\ pointer.id = t
        BY <4>1 DEF Installs, Inv, CallInv, IsCurrent
      <4> QED
        BY <3>2, <4>3, <4>4, EditAssumption
    <3> QED
      BY <3>1, <3>2, OldStays
  <2>2. CASE ~\E a \in Actors : Operation(a)
    <3>1. UNCHANGED receipts /\ \A f \in Files : disk'[f] \in {disk[f], Foreign}
      BY <2>0, <2>2 DEF Next, Works, WriteArchive, WriteRecord, LaunchHelper, HelperCalls,
         HelperContinues, OperatorCalls, OperatorReturns, Calls, Crash, RequestStop, Reboot,
         BootPanel, WorkerEnds, PanelDies, Edit, Untouched, journal, vars
    <3> QED
      BY <3>1
  <2> QED
    BY <2>1, <2>2
<1>2. Inv /\ SeenInv /\ [Next]_vars => [Kept0]_vars
  BY <1>1
<1> QED
  BY <1>2, Invariance, FilesInvariance, PTL DEF EditIsKept, Spec

=============================================================================
