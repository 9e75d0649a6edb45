------------------------- MODULE PrivateRestoreProofs -------------------------
(* Proofs about PrivateRestore: types, the fence over an unfinished journal,  *)
(* true answers, the implementation of AtomicRestore, the stores in memory.   *)
EXTENDS PrivateRestore, TLAPS

Requested == op.mode \in {"online", "offline"}

\* What the program points say about the journal, the mode and the two locks.
PointInv ==
    /\ pc \in Importing => op.mode # "none"
    /\ pc \in {"open", "prepare", "write", "commit"} => Requested
    /\ pc = "answer" => op.mode = "online"
    /\ Requested => op.want \in Requests /\ pc \in Importing
    /\ ~Requested => op.want = NoRequest
    /\ pc \in {"open", "prepare"} => journal.state = "idle"
    /\ pc \in {"write", "commit", "undo"} => journal.state = "prepared"
    /\ pc \in {"check", "clear"} => journal.state # "idle"
    /\ pc \in {"close", "answer"} /\ op.out # "blocked" => journal.state = "idle"
    /\ pc = "ready" /\ ~blocked => journal.state = "idle"
    /\ pc = "serving" /\ ~fenced => journal.state = "idle" /\ ~blocked
    /\ blocked => pc \in {"ready", "answer", "serving"}
    /\ pc = "answer" /\ blocked => op.out = "blocked"
    /\ fenced => pc = "serving"
    /\ journal.state = "idle" => journal = IdleDocument

\* The files, apart from those another program wrote: on the way while the plan
\* is prepared, all new after the decision.
FileInv ==
    \A t \in Targets \ foreign :
       /\ journal.state = "prepared" =>
             /\ disk[t] \in {journal.before[t], journal.after[t]}
             /\ pc = "commit" => disk[t] = journal.after[t]
             /\ pc \in {"handover", "clear"} => disk[t] = journal.before[t]
       /\ journal.state = "committed" => disk[t] = journal.after[t]

\* The running request, the plan made of it and the files it found.
RequestInv ==
    Requested =>
       /\ journal.state # "idle" => journal.after = Over(journal.before, op.want)
       /\ \A t \in Targets \ foreign :
             /\ journal.state # "idle" => journal.before[t] = op.seen[t]
             /\ pc \in {"open", "prepare"} => disk[t] = op.seen[t]
             /\ pc = "handover" /\ journal.state = "idle" => disk[t] = op.seen[t]
             /\ pc \in {"close", "answer"} /\ op.out # "blocked" =>
                   disk[t] = IF op.out = "applied"
                             THEN Over(op.seen, op.want)[t] ELSE op.seen[t]

Inv == TypeOK /\ PointInv /\ FileInv /\ RequestInv

-----------------------------------------------------------------------------
(* Types. *)

\* Images exist, so the arbitrary ones of an idle document are images.
LEMMA BlankType == Blank \in [Targets -> Images]
BY TargetAssumption DEF Blank

\* The document of a finished journal is a document.
LEMMA IdleDocumentType == IdleDocument \in DocumentTypes
BY BlankType DEF IdleDocument, Document, DocumentTypes

\* A prepared plan is a document and its records are targets.
LEMMA DocumentType ==
    ASSUME NEW before \in [Targets -> Images], NEW after \in [Targets -> Images]
    PROVE  /\ Document("prepared", before, after) \in DocumentTypes
           /\ Records(Document("prepared", before, after)) \in SUBSET Targets
BY DEF Document, DocumentTypes, Records

\* The decision changes the state of a document and nothing else of it.
LEMMA CommittedType ==
    ASSUME journal \in DocumentTypes
    PROVE  /\ [journal EXCEPT !.state = "committed"] \in DocumentTypes
           /\ Records(journal) \in SUBSET Targets
BY DEF DocumentTypes, Records

\* The empty operation has the type of operations.
LEMMA NoOpType == NoOp \in OpTypes
BY BlankType DEF NoOp, OpTypes

\* An operation that begins has the type of operations.
LEMMA BegunType ==
    ASSUME disk \in [Targets -> Images],
           NEW mode \in {"boot", "offline", "online"},
           NEW want \in Requests \cup {NoRequest}
    PROVE  Begun(mode, want) \in OpTypes
<1>1. ASSUME want \in Requests PROVE DOMAIN want \in SUBSET Targets
  <2>1. PICK S \in SUBSET Targets : want \in [S -> Images]
    BY <1>1, TargetAssumption
  <2> QED BY <2>1
<1>2. DOMAIN NoRequest = {}
  BY DEF NoRequest
<1>3. DOMAIN want \in SUBSET Targets
  BY <1>1, <1>2
<1> QED BY <1>3, NoOpType DEF Begun, OpTypes

\* Assignments to single fields of the running operation.
LEMMA FieldType ==
    ASSUME op \in OpTypes
    PROVE  /\ \A out \in {"clean", "applied", "rolled_back", "blocked"} :
                 /\ [op EXCEPT !.out = out, !.todo = {}] \in OpTypes
                 /\ [op EXCEPT !.out = out] \in OpTypes
           /\ \A S \in SUBSET Targets : [op EXCEPT !.todo = S] \in OpTypes
           /\ \A t : [op EXCEPT !.todo = @ \ {t}] \in OpTypes
           /\ [op EXCEPT !.canceled = TRUE] \in OpTypes
           /\ op.out \in {"none", "clean", "applied", "rolled_back", "blocked"}
           /\ [op EXCEPT !.out = op.out] \in OpTypes
BY DEF OpTypes

\* What a request asks for, laid over the files, is a file for every target.
LEMMA OverType ==
    ASSUME NEW images \in [Targets -> Images], NEW want \in Requests
    PROVE  Over(images, want) \in [Targets -> Images]
<1>1. PICK S \in SUBSET Targets : want \in [S -> Images]
  BY TargetAssumption
<1> QED BY <1>1 DEF Over

\* The parts of the state that fault budgets and documents share.
LEMMA BudgetType ==
    ASSUME faults \in 0..MaxFaults, Failed \/ NoFault \/ (\E o \in Outcomes : Fault(o))
    PROVE  faults' \in 0..MaxFaults
BY BoundAssumption DEF Failed, NoFault, Fault

\* Every step keeps the types.
LEMMA TypesInvariant == TypeOK /\ PointInv /\ [Next]_vars => TypeOK'
<1> SUFFICES ASSUME TypeOK, PointInv, [Next]_vars PROVE TypeOK'
  OBVIOUS
<1> USE BlankType, IdleDocumentType, NoOpType, BudgetType, CommittedType, FieldType
  DEF TypeOK, memory
<1>1. CASE Boot
  BY <1>1, BegunType DEF Boot, Forget, Return, Importing, Forward, CloseSessions, PointInv, Requested, After, Outcomes
<1>2. CASE StartRuntime
  BY <1>2 DEF StartRuntime, Forget, Return, Importing, Forward, CloseSessions, PointInv, Requested, After, Outcomes
<1>3. CASE StartRefused
  BY <1>3 DEF StartRefused, Forget, Return, Importing, Forward, CloseSessions, PointInv, Requested, After, Outcomes
<1>4. CASE Check
  BY <1>4 DEF Check, Forget, Return, Importing, Forward, CloseSessions, PointInv, Requested, After, Outcomes
<1>5. CASE Undone
  BY <1>5 DEF Undone, Forget, Return, Importing, Forward, CloseSessions, PointInv, Requested, After, Outcomes
<1>6. CASE Opened
  BY <1>6 DEF Opened, Forget, Return, Importing, Forward, CloseSessions, PointInv, Requested, After, Outcomes
<1>7. CASE PrepareRefused
  BY <1>7 DEF PrepareRefused, Forget, Return, Importing, Forward, CloseSessions, PointInv, Requested, After, Outcomes
<1>8. CASE NothingToDo
  BY <1>8 DEF NothingToDo, Forget, Return, Importing, Forward, CloseSessions, PointInv, Requested, After, Outcomes
<1>9. CASE Prepare
  <2> DEFINE doc == Document("prepared", disk, Over(disk, op.want))
  <2>1. op.want \in Requests
    BY <1>9 DEF Prepare, PointInv, Requested
  <2>2. doc \in DocumentTypes /\ Records(doc) \in SUBSET Targets
    BY <2>1, OverType, DocumentType
  <2> HIDE DEF doc
  <2>3. PICK o \in Outcomes :
          /\ Fault(o)
          /\ journal' = After(o, journal, doc)
          /\ IF o = "ok"
             THEN pc' = "write" /\ op' = [op EXCEPT !.todo = Records(doc)]
             ELSE Return("blocked")
    BY <1>9 DEF Prepare, doc
  <2>4. op' \in OpTypes /\ pc' \in {"write", "close"}
    BY <2>2, <2>3 DEF Return
  <2> QED BY <1>9, <2>2, <2>3, <2>4 DEF Prepare, After, Importing, Forward
<1>10. CASE Verify
  BY <1>10 DEF Verify, Forget, Return, Importing, Forward, CloseSessions, PointInv, Requested, After, Outcomes
<1>11. CASE Commit
  BY <1>11 DEF Commit, Forget, Return, Importing, Forward, CloseSessions, PointInv, Requested, After, Outcomes
<1>12. CASE Handover
  BY <1>12 DEF Handover, Forget, Return, Importing, Forward, CloseSessions, PointInv, Requested, After, Outcomes
<1>13. CASE Clear
  BY <1>13 DEF Clear, Forget, Return, Importing, Forward, CloseSessions, PointInv, Requested, After, Outcomes
<1>14. CASE Close
  <2>1. PICK broken \in SUBSET held :
          LET out == IF broken = {} THEN op.out ELSE "blocked" IN
          /\ IF op.mode = "online" THEN CloseSessions(broken)
             ELSE /\ held' = {} /\ UNCHANGED <<cache, uncertain>>
                  /\ IF broken = {} THEN NoFault ELSE Failed
          /\ CASE op.mode = "online" ->
                    /\ pc' = "answer" /\ op' = [op EXCEPT !.out = out]
                    /\ blocked' = (blocked \/ out = "blocked")
               [] op.mode = "offline" ->
                    /\ pc' = "ready" /\ op' = NoOp
                    /\ blocked' = (blocked \/ out = "blocked")
               [] op.mode = "boot" ->
                    /\ pc' = IF out = "blocked" THEN "down" ELSE "ready"
                    /\ op' = NoOp /\ UNCHANGED blocked
    BY <1>14 DEF Close
  <2>2. op.mode \in {"online", "offline", "boot"}
    BY <1>14 DEF Close, PointInv, OpTypes, Importing
  <2>3. pc' \in {"answer", "ready", "down"} /\ op' \in OpTypes /\ blocked' \in BOOLEAN
    BY <2>1, <2>2
  <2>4. /\ cache' \in [Targets -> Images] /\ uncertain' \in SUBSET Targets
        /\ held' = {} /\ faults' \in 0..MaxFaults
    BY <2>1 DEF CloseSessions
  <2> QED BY <1>14, <2>3, <2>4 DEF Close, Importing
<1>15. CASE Answer
  BY <1>15 DEF Answer, Forget, Return, Importing, Forward, CloseSessions, PointInv, Requested, After, Outcomes
<1>16. CASE Cancel
  BY <1>16 DEF Cancel, Forget, Return, Importing, Forward, CloseSessions, PointInv, Requested, After, Outcomes
<1>17. CASE Panic
  BY <1>17 DEF Panic, Forget, Return, Importing, Forward, CloseSessions, PointInv, Requested, After, Outcomes
<1>18. CASE Shutdown
  BY <1>18 DEF Shutdown, Forget, Return, Importing, Forward, CloseSessions, PointInv, Requested, After, Outcomes
<1>19. CASE Crash
  <2>1. crashes' \in 0..MaxCrashes
    BY <1>19, BoundAssumption DEF Crash
  <2> QED BY <1>19, <2>1 DEF Crash, Forget
<1>20. ASSUME NEW t \in Targets, UndoTarget(t) PROVE TypeOK'
  <2>1. /\ faults' \in 0..MaxFaults /\ disk' \in [Targets -> Images]
    BY <1>20 DEF UndoTarget, CompareAndSwap, After, DocumentTypes
  <2>2. pc' \in {"undo", "close"} /\ op' \in OpTypes
    BY <1>20 DEF UndoTarget, Return
  <2> QED BY <1>20, <2>1, <2>2 DEF UndoTarget, Importing
<1>21. ASSUME NEW t \in Targets, OpenTarget(t) PROVE TypeOK'
  BY <1>21 DEF OpenTarget, Return, Importing, Forward, CompareAndSwap, After, Outcomes
<1>22. ASSUME NEW t \in Targets, OpenRefused(t) PROVE TypeOK'
  BY <1>22 DEF OpenRefused, Return, Importing, Forward, CompareAndSwap, After, Outcomes
<1>23. ASSUME NEW t \in Targets, WriteTarget(t) PROVE TypeOK'
  <2>1. /\ faults' \in 0..MaxFaults /\ disk' \in [Targets -> Images]
    BY <1>23 DEF WriteTarget, CompareAndSwap, After, DocumentTypes
  <2>2. pc' \in {"write", "check"} /\ op' \in OpTypes
    BY <1>23 DEF WriteTarget
  <2> QED BY <1>23, <2>1, <2>2 DEF WriteTarget, Importing, Forward
<1>24. ASSUME NEW t \in Targets, WriteStopped(t) PROVE TypeOK'
  BY <1>24 DEF WriteStopped, Return, Importing, Forward, CompareAndSwap, After, Outcomes
<1>25. ASSUME NEW want \in Requests, RestoreOnline(want) PROVE TypeOK'
  BY <1>25, BegunType DEF RestoreOnline, Importing, Forward
<1>26. ASSUME NEW want \in Requests, RestoreOffline(want) PROVE TypeOK'
  BY <1>26, BegunType DEF RestoreOffline, Importing, Forward
<1>27. ASSUME NEW t \in Targets, NEW i \in Images, SaveStore(t, i) PROVE TypeOK'
  BY <1>27, BoundAssumption DEF SaveStore, After, Outcomes, Importing, Forward
<1>28. ASSUME NEW t \in Targets, NEW i \in Images, Edit(t, i) PROVE TypeOK'
  BY <1>28, BoundAssumption DEF Edit, After, Outcomes, Importing, Forward
<1>29. CASE UNCHANGED vars
  BY <1>29 DEF vars
<1> QED BY <1>1, <1>2, <1>3, <1>4, <1>5, <1>6, <1>7, <1>8, <1>9, <1>10, <1>11, <1>12, <1>13, <1>14, <1>15, <1>16, <1>17, <1>18, <1>19, <1>20, <1>21, <1>22, <1>23, <1>24, <1>25, <1>26, <1>27, <1>28, <1>29 DEF Next, Recovery, Import, Environment

-----------------------------------------------------------------------------
(* The invariant. *)

\* Every step keeps what the program points say.
LEMMA PointInvariant == Inv /\ [Next]_vars => PointInv'
<1> SUFFICES ASSUME Inv, [Next]_vars PROVE PointInv'
  OBVIOUS
<1> USE DEF Inv, TypeOK, PointInv, Requested, memory, Importing, Forward,
         OpTypes, DocumentTypes
<1>1. CASE Boot
  BY <1>1 DEF Boot, Begun, NoOp
<1>2. CASE StartRuntime
  BY <1>2 DEF StartRuntime
<1>3. CASE StartRefused
  BY <1>3 DEF StartRefused, Forget, NoOp
<1>4. CASE Check
  BY <1>4 DEF Check, Return
<1>5. CASE Undone
  BY <1>5 DEF Undone, Return
<1>6. CASE Opened
  BY <1>6 DEF Opened
<1>7. CASE PrepareRefused
  BY <1>7 DEF PrepareRefused, Return
<1>8. CASE NothingToDo
  BY <1>8 DEF NothingToDo
<1>9. CASE Prepare
  <2> DEFINE doc == Document("prepared", disk, Over(disk, op.want))
  <2>1. doc.state = "prepared"
    BY DEF Document
  <2> HIDE DEF doc
  <2>2. PICK o \in Outcomes :
          /\ journal' = After(o, journal, doc)
          /\ IF o = "ok"
             THEN pc' = "write" /\ op' = [op EXCEPT !.todo = Records(doc)]
             ELSE Return("blocked")
    BY <1>9 DEF Prepare, doc
  <2>3. (journal' = journal /\ o # "ok") \/ journal' = doc
    BY <2>2 DEF After, Outcomes
  <2>4. CASE o = "ok"
    BY <1>9, <2>1, <2>2, <2>3, <2>4 DEF Prepare
  <2>5. CASE o # "ok"
    BY <1>9, <2>1, <2>2, <2>3, <2>5 DEF Prepare, Return
  <2> QED BY <2>4, <2>5
<1>10. CASE Verify
  BY <1>10 DEF Verify, Return
<1>11. CASE Commit
  BY <1>11 DEF Commit, Outcomes, After, Return
<1>12. CASE Handover
  BY <1>12 DEF Handover, CloseSessions, Return
<1>13. CASE Clear
  BY <1>13 DEF Clear, Outcomes, After, IdleDocument, Return, Document
<1>14. CASE Close
  <2>1. op.mode \in {"online", "offline", "boot"}
    BY <1>14 DEF Close
  <2>2. CASE op.mode = "online"
    <3>1. PICK out \in {op.out, "blocked"} :
             /\ pc' = "answer" /\ op' = [op EXCEPT !.out = out]
             /\ blocked' = (blocked \/ out = "blocked")
      BY <1>14, <2>2 DEF Close
    <3> QED BY <1>14, <2>2, <3>1 DEF Close
  <2>3. CASE op.mode = "offline"
    <3>1. PICK out \in {op.out, "blocked"} :
             /\ pc' = "ready" /\ op' = NoOp
             /\ blocked' = (blocked \/ out = "blocked")
      BY <1>14, <2>3 DEF Close
    <3> QED BY <1>14, <2>3, <3>1 DEF Close, NoOp
  <2>4. CASE op.mode = "boot"
    <3>1. PICK out \in {op.out, "blocked"} :
             /\ pc' = IF out = "blocked" THEN "down" ELSE "ready"
             /\ op' = NoOp /\ UNCHANGED blocked
      BY <1>14, <2>4 DEF Close
    <3> QED BY <1>14, <2>4, <3>1 DEF Close, NoOp
  <2> QED BY <2>1, <2>2, <2>3, <2>4
<1>15. CASE Answer
  BY <1>15 DEF Answer, NoOp
<1>16. CASE Cancel
  BY <1>16 DEF Cancel
<1>17. CASE Panic
  BY <1>17 DEF Panic, Return
<1>18. CASE Shutdown
  BY <1>18 DEF Shutdown, Forget, NoOp
<1>19. CASE Crash
  BY <1>19 DEF Crash, Forget, NoOp
<1>20. ASSUME NEW t \in Targets, UndoTarget(t) PROVE PointInv'
  BY <1>20 DEF UndoTarget, Outcomes, Return, After
<1>21. ASSUME NEW t \in Targets, OpenTarget(t) PROVE PointInv'
  BY <1>21 DEF OpenTarget
<1>22. ASSUME NEW t \in Targets, OpenRefused(t) PROVE PointInv'
  BY <1>22 DEF OpenRefused, Return
<1>23. ASSUME NEW t \in Targets, WriteTarget(t) PROVE PointInv'
  BY <1>23 DEF WriteTarget, Outcomes, After
<1>24. ASSUME NEW t \in Targets, WriteStopped(t) PROVE PointInv'
  BY <1>24 DEF WriteStopped
<1>25. ASSUME NEW want \in Requests, RestoreOnline(want) PROVE PointInv'
  BY <1>25 DEF RestoreOnline, Begun, NoOp
<1>26. ASSUME NEW want \in Requests, RestoreOffline(want) PROVE PointInv'
  BY <1>26 DEF RestoreOffline, Begun, NoOp
<1>27. ASSUME NEW t \in Targets, NEW i \in Images, SaveStore(t, i)
      PROVE PointInv'
  BY <1>27 DEF SaveStore, Outcomes, After
<1>28. ASSUME NEW t \in Targets, NEW i \in Images, Edit(t, i)
      PROVE PointInv'
  BY <1>28 DEF Edit
<1>29. CASE UNCHANGED vars
  BY <1>29 DEF vars
<1> QED BY <1>1, <1>2, <1>3, <1>4, <1>5, <1>6, <1>7, <1>8, <1>9, <1>10, <1>11,
       <1>12, <1>13, <1>14, <1>15, <1>16, <1>17, <1>18, <1>19, <1>20, <1>21,
       <1>22, <1>23, <1>24, <1>25, <1>26, <1>27, <1>28, <1>29
  DEF Next, Recovery, Import, Environment

\* Every step keeps the files on the way of the plan.
LEMMA FileInvariant == Inv /\ [Next]_vars => FileInv'
<1> SUFFICES ASSUME Inv, [Next]_vars PROVE FileInv'
  OBVIOUS
<1> USE DEF Inv, TypeOK, PointInv, FileInv, Requested, memory, Importing, Forward,
         DocumentTypes
<1>1. CASE Boot
  BY <1>1 DEF Boot, Begun, Records, NoOp
<1>2. CASE StartRuntime
  BY <1>2 DEF StartRuntime
<1>3. CASE StartRefused
  BY <1>3 DEF StartRefused, Forget, NoOp
<1>4. CASE Check
  BY <1>4 DEF Check, Records, Return
<1>5. CASE Undone
  BY <1>5 DEF Undone, Records, Return
<1>6. CASE Opened
  BY <1>6 DEF Opened
<1>7. CASE PrepareRefused
  BY <1>7 DEF PrepareRefused, Return
<1>8. CASE NothingToDo
  BY <1>8 DEF NothingToDo
<1>9. CASE Prepare
  BY <1>9 DEF Prepare, Document, Records, Outcomes, After, Return
<1>10. CASE Verify
  BY <1>10 DEF Verify, Records, Return
<1>11. CASE Commit
  BY <1>11 DEF Commit, Outcomes, After, Return
<1>12. CASE Handover
  BY <1>12 DEF Handover, Return
<1>13. CASE Clear
  BY <1>13 DEF Clear, Outcomes, After, IdleDocument, Return, Document
<1>14. CASE Close
  <2>1. op.mode \in {"online", "offline", "boot"}
    BY <1>14 DEF Close, OpTypes
  <2>2. pc' \in {"answer", "ready", "down"} /\ UNCHANGED <<disk, journal, foreign>>
    BY <1>14, <2>1 DEF Close
  <2> QED BY <2>2
<1>15. CASE Answer
  BY <1>15 DEF Answer, NoOp
<1>16. CASE Cancel
  BY <1>16 DEF Cancel
<1>17. CASE Panic
  BY <1>17 DEF Panic, Return
<1>18. CASE Shutdown
  BY <1>18 DEF Shutdown, Forget, NoOp
<1>19. CASE Crash
  BY <1>19 DEF Crash, Forget, NoOp
<1>20. ASSUME NEW t \in Targets, UndoTarget(t) PROVE FileInv'
  BY <1>20 DEF UndoTarget, Outcomes, CompareAndSwap, Return, After
<1>21. ASSUME NEW t \in Targets, OpenTarget(t) PROVE FileInv'
  BY <1>21 DEF OpenTarget
<1>22. ASSUME NEW t \in Targets, OpenRefused(t) PROVE FileInv'
  BY <1>22 DEF OpenRefused, Return
<1>23. ASSUME NEW t \in Targets, WriteTarget(t) PROVE FileInv'
  BY <1>23 DEF WriteTarget, Outcomes, CompareAndSwap, After
<1>24. ASSUME NEW t \in Targets, WriteStopped(t) PROVE FileInv'
  BY <1>24 DEF WriteStopped
<1>25. ASSUME NEW want \in Requests, RestoreOnline(want) PROVE FileInv'
  BY <1>25 DEF RestoreOnline, Begun, NoOp
<1>26. ASSUME NEW want \in Requests, RestoreOffline(want) PROVE FileInv'
  BY <1>26 DEF RestoreOffline, Begun, NoOp
<1>27. ASSUME NEW t \in Targets, NEW i \in Images, SaveStore(t, i)
      PROVE FileInv'
  BY <1>27 DEF SaveStore, Outcomes, After
<1>28. ASSUME NEW t \in Targets, NEW i \in Images, Edit(t, i)
      PROVE FileInv'
  BY <1>28 DEF Edit
<1>29. CASE UNCHANGED vars
  BY <1>29 DEF vars
<1> QED BY <1>1, <1>2, <1>3, <1>4, <1>5, <1>6, <1>7, <1>8, <1>9, <1>10, <1>11,
       <1>12, <1>13, <1>14, <1>15, <1>16, <1>17, <1>18, <1>19, <1>20, <1>21,
       <1>22, <1>23, <1>24, <1>25, <1>26, <1>27, <1>28, <1>29
  DEF Next, Recovery, Import, Environment

\* Returning and the work list leave the request of the operation alone.
LEMMA ReturnKeeps ==
    ASSUME op \in OpTypes
    PROVE  \A out : Return(out) =>
              /\ pc' = "close" /\ op'.out = out
              /\ op'.mode = op.mode /\ op'.want = op.want /\ op'.seen = op.seen
BY DEF Return, OpTypes

\* Crossing a target off leaves the rest of the operation alone.
LEMMA TodoKeeps ==
    ASSUME op \in OpTypes
    PROVE  \A S : op' = [op EXCEPT !.todo = S] =>
              /\ op'.out = op.out
              /\ op'.mode = op.mode /\ op'.want = op.want /\ op'.seen = op.seen
BY DEF OpTypes

\* Over depends on each image separately.
LEMMA OverAgrees ==
    ASSUME NEW a, NEW b, NEW want, NEW t \in Targets, a[t] = b[t]
    PROVE  Over(a, want)[t] = Over(b, want)[t]
BY DEF Over

\* A plan is made of the files it finds and of what is requested of them.
LEMMA PrepareFrame ==
    ASSUME op \in OpTypes, Prepare
    PROVE  /\ \/ journal' = journal
              \/ /\ journal'.before = disk
                 /\ journal'.after = Over(disk, op.want)
                 /\ journal'.state = "prepared"
           /\ pc' = "write" \/ (pc' = "close" /\ op'.out = "blocked")
           /\ op'.mode = op.mode /\ op'.want = op.want /\ op'.seen = op.seen
<1> DEFINE doc == Document("prepared", disk, Over(disk, op.want))
<1>1. /\ doc.state = "prepared" /\ doc.before = disk
      /\ doc.after = Over(disk, op.want)
  BY DEF Document
<1> HIDE DEF doc
<1>2. PICK o \in Outcomes :
        /\ journal' = After(o, journal, doc)
        /\ IF o = "ok"
           THEN pc' = "write" /\ op' = [op EXCEPT !.todo = Records(doc)]
           ELSE Return("blocked")
  BY DEF Prepare, doc
<1>3. journal' = journal \/ journal' = doc
  BY <1>2 DEF After
<1>4. CASE o = "ok"
  BY <1>1, <1>2, <1>3, <1>4, TodoKeeps
<1>5. CASE o # "ok"
  BY <1>1, <1>2, <1>3, <1>5, ReturnKeeps
<1> QED BY <1>4, <1>5

\* The decision changes the state of the record and nothing else in it.
LEMMA CommitFrame ==
    ASSUME op \in OpTypes, journal \in DocumentTypes, Commit
    PROVE  /\ journal'.before = journal.before /\ journal'.after = journal.after
           /\ \/ pc' = "handover" /\ journal'.state = "committed"
              \/ pc' = "close" /\ op'.out = "blocked"
           /\ journal'.state \in {journal.state, "committed"}
           /\ op'.mode = op.mode /\ op'.want = op.want /\ op'.seen = op.seen
<1>1. PICK o \in Outcomes :
        /\ journal' = After(o, journal, [journal EXCEPT !.state = "committed"])
        /\ IF o = "ok" THEN pc' = "handover" /\ UNCHANGED op
                       ELSE Return("blocked")
  BY DEF Commit
<1>2. /\ journal'.before = journal.before /\ journal'.after = journal.after
      /\ journal'.state \in {journal.state, "committed"}
      /\ o = "ok" => journal'.state = "committed"
  BY <1>1 DEF After, DocumentTypes
<1>3. CASE o = "ok"
  BY <1>1, <1>2, <1>3
<1>4. CASE o # "ok"
  BY <1>1, <1>2, <1>4, ReturnKeeps
<1> QED BY <1>3, <1>4

\* What an undo leaves alone.
LEMMA UndoFrame ==
    ASSUME op \in OpTypes, NEW t \in Targets, UndoTarget(t)
    PROVE  /\ pc' = "undo" \/ (pc' = "close" /\ op'.out = "blocked")
           /\ op'.mode = op.mode /\ op'.want = op.want /\ op'.seen = op.seen
<1>1. \/ pc' = "undo" /\ op' = [op EXCEPT !.todo = @ \ {t}]
      \/ Return("blocked")
  BY DEF UndoTarget
<1> QED BY <1>1, ReturnKeeps, TodoKeeps

\* Every step keeps the relation of request, plan and files.
LEMMA RequestInvariant == Inv /\ [Next]_vars => RequestInv'
<1> SUFFICES ASSUME Inv, [Next]_vars PROVE RequestInv'
  OBVIOUS
<1> USE DEF Inv, TypeOK, PointInv, FileInv, RequestInv, Requested, memory,
         Importing, Forward, OpTypes, DocumentTypes
<1>1. CASE Boot
  BY <1>1 DEF Boot, Begun, NoOp
<1>2. CASE StartRuntime
  BY <1>2 DEF StartRuntime
<1>3. CASE StartRefused
  BY <1>3 DEF StartRefused, Forget, NoOp
<1>4. CASE Check
  BY <1>4 DEF Check, Return
<1>5. CASE Undone
  BY <1>5 DEF Undone, Return
<1>6. CASE Opened
  BY <1>6 DEF Opened
<1>7. CASE PrepareRefused
  BY <1>7 DEF PrepareRefused, Return
<1>8. CASE NothingToDo
  BY <1>8 DEF NothingToDo
<1>9. CASE Prepare
  BY <1>9, PrepareFrame DEF Prepare
<1>10. CASE Verify
  BY <1>10 DEF Verify, Return
<1>11. CASE Commit
  BY <1>11, CommitFrame DEF Commit
<1>12. CASE Handover
  <2>1. /\ \/ pc' = "close" /\ op'.out = "blocked"
           \/ pc' = "close" /\ op'.out = "clean" /\ journal.state = "idle"
           \/ pc' = "clear" /\ journal.state # "idle"
        /\ op'.mode = op.mode /\ op'.want = op.want /\ op'.seen = op.seen
    BY <1>12, ReturnKeeps DEF Handover
  <2> QED BY <1>12, <2>1 DEF Handover
<1>13. CASE Clear
  <2>1. /\ pc' = "close"
        /\ op'.mode = op.mode /\ op'.want = op.want /\ op'.seen = op.seen
        /\ \/ op'.out = "blocked" /\ journal' \in {journal, IdleDocument}
           \/ /\ op'.out = IF journal.state = "prepared" THEN "rolled_back"
                                                        ELSE "applied"
              /\ journal' = IdleDocument
    BY <1>13, ReturnKeeps DEF Clear, After
  <2>2. IdleDocument.state = "idle"
    BY DEF IdleDocument, Document
  <2>3. CASE ~Requested
    BY <2>1, <2>3
  <2>4. CASE Requested /\ op'.out = "blocked"
    BY <1>13, <2>1, <2>2, <2>4 DEF Clear
  <2>5. CASE Requested /\ op'.out # "blocked"
    <3>1. \A t \in Targets \ foreign :
             journal.state = "committed" =>
                disk[t] = Over(op.seen, op.want)[t]
      <4> SUFFICES ASSUME NEW t \in Targets \ foreign,
                          journal.state = "committed"
                   PROVE  disk[t] = Over(op.seen, op.want)[t]
        OBVIOUS
      <4>1. disk[t] = Over(journal.before, op.want)[t]
        BY <2>5
      <4>2. journal.before[t] = op.seen[t]
        BY <2>5
      <4> HIDE DEF Inv
      <4> QED BY <4>1, <4>2, OverAgrees
    <3>2. \A t \in Targets \ foreign :
             journal.state = "prepared" => disk[t] = op.seen[t]
      BY <1>13, <2>5 DEF Clear
    <3> QED BY <1>13, <2>1, <2>2, <2>5, <3>1, <3>2 DEF Clear
  <2> QED BY <2>3, <2>4, <2>5
<1>14. CASE Close
  <2>1. op.mode \in {"online", "offline", "boot"}
    BY <1>14 DEF Close
  <2>2. CASE op.mode = "online"
    <3>1. PICK out \in {op.out, "blocked"} :
             pc' = "answer" /\ op' = [op EXCEPT !.out = out]
      BY <1>14, <2>2 DEF Close
    <3>2. op'.mode = op.mode /\ op'.want = op.want /\ op'.seen = op.seen /\ op'.out = out
      BY <3>1
    <3> QED BY <1>14, <3>1, <3>2 DEF Close
  <2>3. CASE op.mode # "online"
    <3>1. op' = NoOp
      BY <1>14, <2>1, <2>3 DEF Close
    <3> QED BY <3>1 DEF NoOp
  <2> QED BY <2>2, <2>3
<1>15. CASE Answer
  BY <1>15 DEF Answer, NoOp
<1>16. CASE Cancel
  BY <1>16 DEF Cancel
<1>17. CASE Panic
  BY <1>17 DEF Panic, Return
<1>18. CASE Shutdown
  BY <1>18 DEF Shutdown, Forget, NoOp
<1>19. CASE Crash
  BY <1>19 DEF Crash, Forget, NoOp
<1>20. ASSUME NEW t \in Targets, UndoTarget(t) PROVE RequestInv'
  BY <1>20, UndoFrame DEF UndoTarget
<1>21. ASSUME NEW t \in Targets, OpenTarget(t) PROVE RequestInv'
  BY <1>21 DEF OpenTarget
<1>22. ASSUME NEW t \in Targets, OpenRefused(t) PROVE RequestInv'
  BY <1>22 DEF OpenRefused, Return
<1>23. ASSUME NEW t \in Targets, WriteTarget(t) PROVE RequestInv'
  BY <1>23 DEF WriteTarget, Outcomes, CompareAndSwap, After
<1>24. ASSUME NEW t \in Targets, WriteStopped(t) PROVE RequestInv'
  BY <1>24 DEF WriteStopped
<1>25. ASSUME NEW want \in Requests, RestoreOnline(want) PROVE RequestInv'
  BY <1>25 DEF RestoreOnline, Begun, NoOp
<1>26. ASSUME NEW want \in Requests, RestoreOffline(want) PROVE RequestInv'
  BY <1>26 DEF RestoreOffline, Begun, NoOp
<1>27. ASSUME NEW t \in Targets, NEW i \in Images, SaveStore(t, i)
      PROVE RequestInv'
  BY <1>27 DEF SaveStore, Outcomes, After
<1>28. ASSUME NEW t \in Targets, NEW i \in Images, Edit(t, i)
      PROVE RequestInv'
  BY <1>28 DEF Edit
<1>29. CASE UNCHANGED vars
  BY <1>29 DEF vars
<1> QED BY <1>1, <1>2, <1>3, <1>4, <1>5, <1>6, <1>7, <1>8, <1>9, <1>10, <1>11,
       <1>12, <1>13, <1>14, <1>15, <1>16, <1>17, <1>18, <1>19, <1>20, <1>21,
       <1>22, <1>23, <1>24, <1>25, <1>26, <1>27, <1>28, <1>29
  DEF Next, Recovery, Import, Environment

-----------------------------------------------------------------------------
(* Theorems. *)

\* The invariant holds at first.
LEMMA InitInv == Init => Inv
<1> SUFFICES ASSUME Init PROVE Inv
  OBVIOUS
<1>1. TypeOK
  <2>1. pc \in Importing \cup {"down", "ready", "serving"}
    BY DEF Init
  <2>2. faults \in 0..MaxFaults /\ crashes \in 0..MaxCrashes /\ edits \in 0..MaxEdits
    BY BoundAssumption DEF Init
  <2> QED BY <2>1, <2>2, BlankType, IdleDocumentType, NoOpType DEF Init, TypeOK
<1>2. /\ journal = IdleDocument /\ journal.state = "idle"
      /\ op.mode = "none" /\ op.want = NoRequest
  BY DEF Init, IdleDocument, Document, NoOp
<1>3. PointInv
  BY <1>2 DEF Init, PointInv, Requested, Importing, Forward
<1>4. FileInv /\ RequestInv
  BY <1>2 DEF Init, FileInv, RequestInv, Requested
<1> QED BY <1>1, <1>3, <1>4 DEF Inv

\* Every step keeps the invariant.
LEMMA StepInv == Inv /\ [Next]_vars => Inv'
BY TypesInvariant, PointInvariant, FileInvariant, RequestInvariant DEF Inv

\* The invariant holds in every reachable state.
LEMMA Invariance == Spec => []Inv
BY InitInv, StepInv, PTL DEF Spec

\* Type correctness.
THEOREM RestoreTypeOK == Spec => []TypeOK
<1>1. Inv => TypeOK
  BY DEF Inv
<1> QED BY <1>1, Invariance, PTL

\* The daemon admits work only over a finished journal.
THEOREM RestoreOpenGateHasIdleJournal == Spec => []OpenGateHasIdleJournal
<1>1. Inv => OpenGateHasIdleJournal
  BY DEF Inv, PointInv, OpenGateHasIdleJournal
<1> QED BY <1>1, Invariance, PTL

\* The reported outcome is what happened to every file that only the protocol
\* wrote.
THEOREM RestoreAnswerIsTrue == Spec => []AnswerIsTrue
<1>1. Inv => AnswerIsTrue
  BY DEF Inv, PointInv, RequestInv, Requested, AnswerIsTrue
<1> QED BY <1>1, Invariance, PTL

-----------------------------------------------------------------------------
(* Which steps write files. *)

\* The steps that write files.
LEMMA FileWriters ==
    ASSUME [Next]_vars
    PROVE  \/ UNCHANGED disk
           \/ \E t \in Targets : WriteTarget(t) \/ UndoTarget(t)
           \/ \E t \in Targets, i \in Images : SaveStore(t, i) \/ Edit(t, i)
<1> QED
  BY DEF Next, Recovery, Import, Environment, vars, Boot, StartRuntime, StartRefused,
    Check, Undone, OpenTarget, OpenRefused, Opened, PrepareRefused, NothingToDo,
    Prepare, WriteStopped, Verify, Commit, Handover, Clear, Close, Answer,
    RestoreOnline, RestoreOffline, Cancel, Panic, Shutdown, Crash

\* A decision to keep the new images is final.
THEOREM RestoreDecisionIsFinal == Spec => DecisionIsFinal
<1>1. ASSUME Inv, [Next]_vars, journal.state = "committed"
      PROVE  disk' = disk \/ edits' # edits
  <2> USE <1>1 DEF Inv, PointInv
  <2>1. ASSUME NEW t \in Targets, WriteTarget(t) \/ UndoTarget(t) PROVE FALSE
    BY <2>1 DEF WriteTarget, UndoTarget
  <2>2. ASSUME NEW t \in Targets, NEW i \in Images, SaveStore(t, i) PROVE FALSE
    BY <2>2 DEF SaveStore
  <2>3. ASSUME NEW t \in Targets, NEW i \in Images, Edit(t, i) PROVE edits' # edits
    BY <2>3 DEF Edit, TypeOK
  <2> QED BY <2>1, <2>2, <2>3, FileWriters
<1> QED BY <1>1, Invariance, PTL DEF Spec, DecisionIsFinal

\* Neither an import nor a recovery replaces an image outside the plan.
THEOREM RestoreThirdImageIsKept == Spec => ThirdImageIsKept
<1> DEFINE Kept ==
      \A t \in Targets :
         journal.state # "idle" /\ disk[t] \notin {journal.before[t], journal.after[t]}
            => disk'[t] = disk[t] \/ edits' # edits
<1>1. ASSUME Inv, [Next]_vars PROVE Kept
  <2> SUFFICES ASSUME NEW u \in Targets, journal.state # "idle",
                      disk[u] \notin {journal.before[u], journal.after[u]}
               PROVE  disk'[u] = disk[u] \/ edits' # edits
    OBVIOUS
  <2>1. ASSUME NEW t \in Targets, WriteTarget(t) \/ UndoTarget(t)
        PROVE  disk'[u] = disk[u]
    BY <1>1, <2>1 DEF Inv, TypeOK, WriteTarget, UndoTarget, CompareAndSwap
  <2>2. ASSUME NEW t \in Targets, NEW i \in Images, SaveStore(t, i) PROVE FALSE
    BY <1>1, <2>2 DEF Inv, PointInv, SaveStore
  <2>3. ASSUME NEW t \in Targets, NEW i \in Images, Edit(t, i) PROVE edits' # edits
    BY <1>1, <2>3 DEF Edit, Inv, TypeOK
  <2> QED BY <1>1, <2>1, <2>2, <2>3, FileWriters
<1> QED BY <1>1, Invariance, PTL DEF Spec, ThirdImageIsKept

-----------------------------------------------------------------------------
(* An import is atomic. *)

\* Outside a prepared plan the files are what they are.
LEMMA ShownIsDisk ==
    ASSUME TypeOK, journal.state # "prepared"
    PROVE  Shown = disk
BY DEF Shown, TypeOK

\* What is shown is an image for every target.
LEMMA ShownType == TypeOK => Shown \in [Targets -> Images]
BY DEF TypeOK, DocumentTypes, Shown

\* The same of the state after a step.
LEMMA ShownIsDiskNext ==
    ASSUME TypeOK', journal'.state # "prepared"
    PROVE  Shown' = disk'
BY DEF Shown, TypeOK

\* The same of the state after a step.
LEMMA ShownTypeNext == TypeOK' => Shown' \in [Targets -> Images]
BY DEF TypeOK, DocumentTypes, Shown

\* A write of a planned image shows nothing, unless another program had written
\* the file before.
LEMMA SwapIsHidden ==
    ASSUME Inv, Inv', NEW t \in Targets, WriteTarget(t) \/ UndoTarget(t)
    PROVE  Atomic!Interfere
<1>1. journal.state = "prepared" /\ UNCHANGED <<journal, foreign>>
  BY DEF Inv, PointInv, WriteTarget, UndoTarget
<1>4. op'.want = op.want /\ pc # "serving" /\ pc' # "serving"
  BY DEF Inv, TypeOK, OpTypes, WriteTarget, UndoTarget, Return
<1>2. ASSUME NEW u \in Targets \ foreign PROVE Shown'[u] = Shown[u]
  <2>1. CASE u \in Records(journal)
    BY <1>1, <1>2, <2>1 DEF Shown, Records
  <2>2. CASE u \notin Records(journal)
    BY <1>1, <1>2, <2>2 DEF Shown, Records, Inv, FileInv
  <2> QED BY <2>1, <2>2
<1>3. Shown' \in [Targets -> Images] /\ foreign' \in SUBSET Targets
  BY ShownType, ShownTypeNext DEF Inv, TypeOK
<1> QED BY <1>1, <1>2, <1>3, <1>4 DEF Atomic!Interfere

\* The decision makes the whole request visible.
LEMMA CommitIsImport ==
    ASSUME Inv, Inv', Commit
    PROVE  Atomic!Import \/ UNCHANGED Atomic!vars
<1>1. /\ journal.state = "prepared" /\ pc = "commit" /\ Requested
      /\ UNCHANGED <<disk, foreign>>
  BY DEF Inv, PointInv, Commit
<1>4. pc' # "serving" /\ op'.want = op.want
  BY DEF Inv, TypeOK, OpTypes, Commit, Return
<1>2. CASE journal'.state = "prepared"
  <2>1. journal'.before = journal.before /\ journal'.after = journal.after
    BY CommitFrame DEF Inv, TypeOK
  <2>2. Shown' = Shown
    BY <1>1, <1>2, <2>1 DEF Shown, Records
  <2> QED BY <1>1, <1>4, <2>2 DEF Atomic!vars
<1>3. CASE journal'.state # "prepared"
  <2>1. Shown' = disk
    BY <1>1, <1>3, ShownIsDiskNext DEF Inv
  <2>2. ASSUME NEW t \in Targets \ foreign
        PROVE  disk[t] = Atomic!Over(Shown, op.want)[t]
    <3>1. disk[t] = journal.after[t]
      BY <1>1, <2>2 DEF Inv, FileInv
    <3>2. Shown[t] = journal.before[t]
      BY <1>1, <2>2, <3>1 DEF Shown, Records
    <3>3. journal.after = Over(journal.before, op.want)
      BY <1>1 DEF Inv, RequestInv
    <3> QED BY <3>1, <3>2, <3>3 DEF Over, Atomic!Over
  <2> QED BY <1>1, <1>4, <2>1, <2>2 DEF Atomic!Import, Inv, TypeOK
<1> QED BY <1>2, <1>3

\* The mapped initial states are initial states of AtomicRestore.
LEMMA AtomicInit == Inv /\ Init => Atomic!Init
<1> SUFFICES ASSUME Inv, Init PROVE Atomic!Init
  OBVIOUS
<1>1. Shown \in [Targets -> Images]
  BY ShownType DEF Inv
<1>2. op.want = Atomic!NoRequest
  BY DEF Init, NoOp, NoRequest, Atomic!NoRequest
<1>3. pc = "down"
  BY DEF Init
<1> QED BY <1>1, <1>2, <1>3 DEF Init, Atomic!Init

\* The steps at which an import or the daemon starts or ends.
Turn ==
    \/ StartRuntime \/ StartRefused \/ Close \/ Answer \/ Shutdown \/ Crash

\* Such a step writes nothing.
LEMMA TurnSettles ==
    ASSUME Inv, Inv', Turn, Shown' = Shown, foreign' = foreign
    PROVE  Atomic!Next \/ UNCHANGED Atomic!vars
<1> USE DEF Inv, PointInv, Requested, Importing, Forward, TypeOK, OpTypes
<1>1. \/ op'.want = NoRequest
      \/ op'.want = op.want /\ pc' = "answer" /\ pc = "close"
  <2>1. CASE StartRuntime
    BY <2>1 DEF StartRuntime
  <2>2. CASE StartRefused \/ Shutdown \/ Crash \/ Answer
    BY <2>2 DEF StartRefused, Shutdown, Crash, Answer, Forget, NoOp
  <2>3. CASE Close
    BY <2>3 DEF Close, NoOp
  <2> QED BY <2>1, <2>2, <2>3 DEF Turn
<1>2. CASE op'.want = NoRequest
  BY <1>2 DEF Atomic!Next, Atomic!Settle, NoRequest, Atomic!NoRequest
<1>3. CASE op'.want = op.want /\ pc' = "answer" /\ pc = "close"
  BY <1>3 DEF Atomic!vars
<1> QED BY <1>1, <1>2, <1>3

\* The other steps that write neither a file nor the journal leave the request
\* and the admission alone.
LEMMA OthersHidden ==
    ASSUME Inv, [Next]_vars, UNCHANGED <<disk, journal, foreign>>, ~Turn,
           ~Commit, ~Clear, ~Prepare,
           \A t \in Targets : ~WriteTarget(t) /\ ~UndoTarget(t),
           \A t \in Targets, i \in Images : ~SaveStore(t, i),
           \A request \in Requests : ~RestoreOnline(request) /\ ~RestoreOffline(request)
    PROVE  op'.want = op.want /\ (pc = "serving" <=> pc' = "serving") /\ fenced' = fenced
<1> USE DEF Inv, TypeOK, OpTypes, PointInv, Requested, Importing, Forward, memory
<1>1. CASE Boot
  BY <1>1 DEF Boot, Begun, NoOp, NoRequest
<1>2. CASE Check \/ Undone \/ Opened \/ PrepareRefused \/ NothingToDo \/ Verify
  BY <1>2 DEF Check, Undone, Opened, PrepareRefused, NothingToDo, Verify, Return
<1>3. CASE Handover
  BY <1>3 DEF Handover, Return
<1>4. CASE Cancel \/ Panic
  BY <1>4 DEF Cancel, Panic, Return
<1>5. ASSUME NEW t \in Targets, OpenTarget(t) \/ OpenRefused(t) \/ WriteStopped(t)
      PROVE  op'.want = op.want /\ (pc = "serving" <=> pc' = "serving") /\ fenced' = fenced
  BY <1>5 DEF OpenTarget, OpenRefused, WriteStopped, Return
<1>6. ASSUME NEW t \in Targets, NEW i \in Images, Edit(t, i)
      PROVE  op'.want = op.want /\ pc' = pc /\ fenced' = fenced
  BY <1>6 DEF Edit
<1>7. CASE UNCHANGED vars
  BY <1>7 DEF vars
<1> QED BY <1>1, <1>2, <1>3, <1>4, <1>5, <1>6, <1>7
        DEF Next, Recovery, Import, Environment, Turn

\* Which steps write a file, the journal or the history.
LEMMA Writers ==
    ASSUME [Next]_vars
    PROVE  \/ UNCHANGED <<disk, journal, foreign>>
           \/ Prepare \/ Commit \/ Clear
           \/ \E t \in Targets : WriteTarget(t) \/ UndoTarget(t)
           \/ \E t \in Targets, i \in Images : SaveStore(t, i) \/ Edit(t, i)
           \/ \E request \in Requests : RestoreOnline(request) \/ RestoreOffline(request)
BY DEF Next, Recovery, Import, Environment, vars, Boot, StartRuntime, StartRefused,
       Check, Undone, OpenTarget, OpenRefused, Opened, PrepareRefused, NothingToDo,
       WriteStopped, Verify, Handover, Close, Answer, Cancel, Panic, Shutdown, Crash

\* Every step is a step of AtomicRestore or leaves what it shows alone.
LEMMA AtomicStep == Inv /\ Inv' /\ [Next]_vars => [Atomic!Next]_(Atomic!vars)
<1> SUFFICES ASSUME Inv, Inv', [Next]_vars
             PROVE  Atomic!Next \/ UNCHANGED Atomic!vars
  OBVIOUS
<1>2. ASSUME NEW request \in Requests, RestoreOnline(request) \/ RestoreOffline(request)
      PROVE  Atomic!Next
  <2>1. journal.state = "idle" /\ UNCHANGED <<disk, journal>> /\ foreign' = {}
    BY <1>2 DEF Inv, PointInv, RestoreOnline, RestoreOffline
  <2>2. Shown = disk /\ Shown' = disk'
    BY <2>1, ShownIsDisk, ShownIsDiskNext DEF Inv
  <2>3. op.want = Atomic!NoRequest
    BY <1>2 DEF Inv, PointInv, Requested, Importing, Forward, RestoreOnline,
               RestoreOffline, NoRequest, Atomic!NoRequest
  <2>4. op'.want = request /\ pc' = "open"
    BY <1>2 DEF RestoreOnline, RestoreOffline, Begun, NoOp
  <2> QED BY <2>1, <2>2, <2>3, <2>4 DEF Atomic!Begin, Atomic!Next
<1>3. CASE Prepare
  <2>1. UNCHANGED <<disk, foreign>> /\ Shown = disk
    BY <1>3, ShownIsDisk DEF Prepare, Inv
  <2>2. \/ UNCHANGED journal
        \/ journal'.before = disk
    BY <1>3, PrepareFrame DEF Inv, TypeOK
  <2>3. ASSUME UNCHANGED journal PROVE Shown' = Shown
    BY <2>1, <2>3 DEF Shown, Records
  <2>4. ASSUME journal'.before = disk PROVE Shown' = Shown
    BY <2>1, <2>4 DEF Shown, Records, Inv, TypeOK
  <2>5. Shown' = Shown
    BY <2>1, <2>2, <2>3, <2>4
  <2>6. op'.want = op.want /\ pc # "serving" /\ pc' # "serving"
    BY <1>3 DEF Prepare, Return, Inv, TypeOK, OpTypes
  <2> QED BY <2>1, <2>5, <2>6 DEF Atomic!vars
<1>4. CASE Commit
  BY <1>4, CommitIsImport DEF Atomic!Next
<1>5. CASE Clear
  <2>1. UNCHANGED <<disk, foreign>> /\ journal' \in {journal, IdleDocument}
    BY <1>5 DEF Clear, After
  <2>2. ASSUME journal' = journal PROVE Shown' = Shown
    BY <2>1, <2>2 DEF Shown, Records
  <2>3. ASSUME journal' = IdleDocument PROVE Shown' = Shown
    <3>1. Shown' = disk
      BY <2>1, <2>3, ShownIsDiskNext DEF Inv, IdleDocument, Document
    <3>2. ASSUME NEW t \in Targets PROVE Shown[t] = disk[t]
      BY <1>5, <3>2 DEF Clear, Inv, FileInv, Shown
    <3>3. Shown = disk
      BY <3>2, ShownType DEF Inv, TypeOK
    <3> QED BY <2>1, <3>1, <3>3
  <2>4. op'.want = op.want /\ pc # "serving" /\ pc' # "serving"
    BY <1>5 DEF Clear, Return, Inv, TypeOK, OpTypes
  <2> QED BY <2>1, <2>2, <2>3, <2>4 DEF Atomic!vars
<1>6. ASSUME NEW t \in Targets, WriteTarget(t) \/ UndoTarget(t)
      PROVE  Atomic!Next
  BY <1>6, SwapIsHidden DEF Atomic!Next
<1>7. ASSUME NEW t \in Targets, NEW i \in Images, SaveStore(t, i)
      PROVE  Atomic!Next \/ UNCHANGED Atomic!vars
  <2>1. journal.state = "idle" /\ UNCHANGED <<journal, foreign, pc, op, fenced>>
    BY <1>7 DEF SaveStore, Inv, PointInv
  <2>2. Shown = disk /\ Shown' = disk'
    BY <2>1, ShownIsDisk, ShownIsDiskNext DEF Inv
  <2>3. disk' = [disk EXCEPT ![t] = i] \/ disk' = disk
    BY <1>7 DEF SaveStore, After, Inv, TypeOK
  <2>4. pc = "serving" /\ ~fenced
    BY <1>7 DEF SaveStore
  <2>5. CASE disk' = [disk EXCEPT ![t] = i]
    BY <2>1, <2>2, <2>4, <2>5 DEF Atomic!Next, Atomic!Save
  <2>6. CASE disk' = disk
    BY <2>1, <2>2, <2>6 DEF Atomic!vars
  <2> QED BY <2>3, <2>5, <2>6
<1>8. ASSUME NEW t \in Targets, NEW i \in Images, Edit(t, i)
      PROVE  Atomic!Next
  <2>1. UNCHANGED journal /\ foreign' = foreign \cup {t}
    BY <1>8 DEF Edit
  <2>2. ASSUME NEW u \in Targets \ foreign' PROVE Shown'[u] = Shown[u]
    BY <1>8, <2>1, <2>2 DEF Edit, Shown, Records, Inv, TypeOK
  <2>3. Shown' \in [Targets -> Images] /\ foreign' \in SUBSET Targets
    BY ShownTypeNext DEF Inv, TypeOK
  <2>4. UNCHANGED <<pc, op, fenced>>
    BY <1>8 DEF Edit, memory
  <2> QED BY <2>1, <2>2, <2>3, <2>4 DEF Atomic!Next, Atomic!Interfere
<1>9. CASE UNCHANGED <<disk, journal, foreign>>
  <2>1. Shown' = Shown
    BY <1>9 DEF Shown, Records
  <2>2. CASE Turn
    BY <1>9, <2>1, <2>2, TurnSettles
  <2>3. CASE \E request \in Requests : RestoreOnline(request) \/ RestoreOffline(request)
    BY <1>2, <2>3
  <2>4. CASE \E t \in Targets : WriteTarget(t) \/ UndoTarget(t)
    BY <1>6, <2>4
  <2>5. CASE \E t \in Targets, i \in Images : SaveStore(t, i)
    BY <1>7, <2>5
  <2>6. ASSUME ~Turn, ~Commit, ~Clear, ~Prepare,
               \A t \in Targets : ~WriteTarget(t) /\ ~UndoTarget(t),
               \A t \in Targets, i \in Images : ~SaveStore(t, i),
               \A request \in Requests :
                  ~RestoreOnline(request) /\ ~RestoreOffline(request)
        PROVE  UNCHANGED Atomic!vars
    BY <1>9, <2>1, <2>6, OthersHidden DEF Atomic!vars
  <2> QED BY <1>3, <1>4, <1>5, <2>2, <2>3, <2>4, <2>5, <2>6
<1> QED BY <1>2, <1>3, <1>4, <1>5, <1>6, <1>7, <1>8, <1>9, Writers

\* An import changes all its files in one step or none of them, across faults,
\* cancellations, panics and deaths of the process.
THEOREM RestoreImportIsAtomic == Spec => ImportIsAtomic
<1>1. Spec => Atomic!Init
  BY AtomicInit, InitInv DEF Spec
<1>2. Spec => [][Atomic!Next]_(Atomic!vars)
  BY Invariance, AtomicStep, PTL DEF Spec
<1> QED BY <1>1, <1>2, PTL DEF ImportIsAtomic, Atomic!Spec

-----------------------------------------------------------------------------
(* The stores in memory.                                                     *)

\* A store believes what its file says, or knows that it does not know.
Known(t) == t \in uncertain \/ cache[t] = disk[t]

\* An online import holds a session on every file it may write.
HeldInv ==
    op.mode = "online" =>
       /\ pc = "open" => DOMAIN op.want \subseteq held \cup op.todo
       /\ pc = "prepare" => DOMAIN op.want \subseteq held
       /\ pc \in {"write", "commit", "check", "undo"} => Records(journal) \subseteq held

\* Only a store whose session is open may believe something else, and none does
\* when an import answers and while work is admitted.
CacheInv ==
    edits = 0 =>
       /\ op.mode = "online" => \A t \in Targets : Known(t) \/ t \in held
       /\ pc = "answer" \/ (pc = "serving" /\ ~fenced) => \A t \in Targets : Known(t)

\* An image nobody asks for stays.
LEMMA PlanIsRequested ==
    ASSUME TypeOK, NEW want \in Requests
    PROVE  Records(Document("prepared", disk, Over(disk, want))) \subseteq DOMAIN want
BY DEF TypeOK, Records, Document, Over

\* Steps in which an import goes on without a session being closed.
LEMMA StaysHeld ==
    ASSUME Inv, HeldInv, op'.mode = op.mode, held \subseteq held',
           UNCHANGED <<cache, uncertain, disk, edits>>, CacheInv,
           pc' \notin {"answer", "serving"}
    PROVE  CacheInv'
BY DEF CacheInv, Known

\* A session that is closed leaves a store that knows or that is uncertain.
LEMMA CloseTakesOver ==
    ASSUME Inv, CacheInv, op.mode = "online", NEW broken \in SUBSET held,
           CloseSessions(broken), UNCHANGED <<disk, edits>>
    PROVE  edits' = 0 => \A t \in Targets : Known(t)'
BY DEF CloseSessions, CacheInv, Known, Inv, TypeOK

\* Every step of an import keeps its sessions.
LEMMA HeldInvariant == Inv /\ HeldInv /\ [Next]_vars => HeldInv'
<1> SUFFICES ASSUME Inv, HeldInv, [Next]_vars PROVE HeldInv'
  OBVIOUS
<1> USE DEF Inv, TypeOK, PointInv, Requested, HeldInv, memory, OpTypes, DocumentTypes
<1>1. CASE Boot
  BY <1>1 DEF Boot, Begun, NoOp
<1>2. CASE StartRuntime \/ StartRefused \/ Shutdown \/ Crash \/ Answer
  BY <1>2 DEF StartRuntime, StartRefused, Shutdown, Crash, Answer, Forget, NoOp
<1>3. CASE Check
  BY <1>3 DEF Check, Return
<1>4. CASE Undone \/ Opened
  BY <1>4 DEF Undone, Return, Opened
<1>5. CASE PrepareRefused \/ NothingToDo \/ Panic \/ Cancel
  BY <1>5 DEF PrepareRefused, NothingToDo, Panic, Return, Cancel
<1>6. CASE Prepare
  <2>1. op.want \in Requests
    BY <1>6 DEF Prepare
  <2>2. Records(Document("prepared", disk, Over(disk, op.want))) \subseteq DOMAIN op.want
    BY <2>1, PlanIsRequested
  <2>3. \/ pc' = "close"
        \/ /\ pc' = "write" /\ op'.mode = op.mode
           /\ journal' = Document("prepared", disk, Over(disk, op.want))
    BY <1>6 DEF Prepare, Return, After
  <2>4. held' = held /\ pc = "prepare"
    BY <1>6 DEF Prepare
  <2> QED BY <2>2, <2>3, <2>4
<1>7. CASE Verify
  BY <1>7 DEF Verify, Return
<1>8. CASE Commit \/ Handover \/ Clear
  BY <1>8 DEF Commit, Handover, Clear, Return
<1>9. CASE Close
  <2>1. pc' \in {"answer", "ready", "down"}
    BY <1>9 DEF Close
  <2> QED BY <2>1
<1>10. ASSUME NEW t \in Targets, OpenTarget(t) \/ OpenRefused(t) PROVE HeldInv'
  BY <1>10 DEF OpenTarget, OpenRefused, Return
<1>11. ASSUME NEW t \in Targets, WriteTarget(t) \/ WriteStopped(t) \/ UndoTarget(t)
       PROVE  HeldInv'
  BY <1>11 DEF WriteTarget, WriteStopped, UndoTarget, Return
<1>12. ASSUME NEW want \in Requests, RestoreOnline(want) \/ RestoreOffline(want)
       PROVE  HeldInv'
  <2>1. \A mode : Begun(mode, want).want = want /\ Begun(mode, want).todo = DOMAIN want
    BY DEF Begun, NoOp
  <2>2. pc' = "open" /\ op'.want = want /\ op'.todo = DOMAIN want
    BY <1>12, <2>1 DEF RestoreOnline, RestoreOffline
  <2> QED BY <2>2
<1>13. ASSUME NEW t \in Targets, NEW i \in Images, SaveStore(t, i) \/ Edit(t, i)
       PROVE  HeldInv'
  BY <1>13 DEF SaveStore, Edit
<1>14. CASE UNCHANGED vars
  BY <1>14 DEF vars
<1> QED BY <1>1, <1>2, <1>3, <1>4, <1>5, <1>6, <1>7, <1>8, <1>9, <1>10, <1>11, <1>12,
           <1>13, <1>14 DEF Next, Recovery, Import, Environment

\* Every step of the protocol keeps what the stores know.
LEMMA CacheInvariant == Inv /\ HeldInv /\ CacheInv /\ [Next]_vars => CacheInv'
<1> SUFFICES ASSUME Inv, HeldInv, CacheInv, [Next]_vars PROVE CacheInv'
  OBVIOUS
<1> USE DEF Inv, TypeOK, PointInv, Requested, memory, OpTypes, DocumentTypes
<1>1. CASE Boot \/ StartRefused \/ Shutdown \/ Crash
  <2>1. NoOp.mode = "none" /\ Begun("boot", NoRequest).mode = "boot"
    BY DEF Begun, NoOp
  <2>2. CASE Boot
    <3>1. op.mode # "online"
      BY <2>2 DEF Boot, Importing, Forward
    <3>2. op' \in {op, Begun("boot", NoRequest)} /\ pc' \in {"down", "ready", "check"}
      BY <2>2 DEF Boot
    <3> QED BY <2>1, <3>1, <3>2 DEF CacheInv
  <2>3. CASE StartRefused \/ Shutdown \/ Crash
    <3>1. op' = NoOp /\ pc' = "down"
      BY <2>3 DEF StartRefused, Shutdown, Crash, Forget
    <3> QED BY <2>1, <3>1 DEF CacheInv
  <2> QED BY <1>1, <2>2, <2>3
<1>2. CASE StartRuntime
  <2>1. op'.mode # "online" /\ cache' = disk'
    BY <1>2 DEF StartRuntime, Importing, Forward
  <2> QED BY <2>1 DEF CacheInv, Known
<1>3. CASE \/ Check \/ Undone \/ Opened \/ PrepareRefused \/ NothingToDo \/ Verify
           \/ Commit \/ Clear \/ Cancel \/ Panic
  <2>1. op'.mode = op.mode /\ pc' \notin {"answer", "serving"}
    BY <1>3 DEF Check, Undone, Opened, PrepareRefused, NothingToDo, Verify, Commit,
       Clear, Cancel, Panic, Return, Forward
  <2>2. UNCHANGED <<held, cache, uncertain, disk, edits>>
    BY <1>3 DEF Check, Undone, Opened, PrepareRefused, NothingToDo, Verify, Commit,
       Clear, Cancel, Panic
  <2> QED BY <2>1, <2>2, StaysHeld
<1>4. CASE Prepare
  <2>1. op'.mode = op.mode /\ pc' \notin {"answer", "serving"}
    BY <1>4 DEF Prepare, Return
  <2>2. UNCHANGED <<held, cache, uncertain, disk, edits>>
    BY <1>4 DEF Prepare
  <2> QED BY <2>1, <2>2, StaysHeld
<1>5. CASE Handover
  <2>1. CASE op.mode = "online"
    <3>1. PICK broken \in SUBSET held : CloseSessions(broken)
      BY <1>5, <2>1 DEF Handover
    <3>2. edits' = 0 => \A t \in Targets : Known(t)'
      BY <1>5, <2>1, <3>1, CloseTakesOver DEF Handover
    <3> QED BY <3>2 DEF CacheInv
  <2>2. CASE op.mode # "online"
    BY <1>5, <2>2 DEF Handover, Return, CacheInv
  <2> QED BY <2>1, <2>2
<1>6. CASE Close
  <2>1. CASE op.mode = "online"
    <3>1. PICK broken \in SUBSET held : CloseSessions(broken)
      BY <1>6, <2>1 DEF Close
    <3>2. edits' = 0 => \A t \in Targets : Known(t)'
      BY <1>6, <2>1, <3>1, CloseTakesOver DEF Close
    <3> QED BY <3>2 DEF CacheInv
  <2>2. CASE op.mode # "online"
    <3>1. op' = NoOp /\ pc' \in {"ready", "down"}
      BY <1>6, <2>2 DEF Close, Importing, Forward
    <3> QED BY <3>1 DEF NoOp, CacheInv
  <2> QED BY <2>1, <2>2
<1>7. CASE Answer
  BY <1>7 DEF Answer, NoOp, CacheInv, Known
<1>8. ASSUME NEW t \in Targets, OpenTarget(t) \/ OpenRefused(t) \/ WriteStopped(t)
      PROVE  CacheInv'
  <2>1. op'.mode = op.mode /\ held \subseteq held' /\ pc' \notin {"answer", "serving"}
    BY <1>8 DEF OpenTarget, OpenRefused, WriteStopped, Return
  <2>2. UNCHANGED <<cache, uncertain, disk, edits>>
    BY <1>8 DEF OpenTarget, OpenRefused, WriteStopped
  <2> QED BY <2>1, <2>2, StaysHeld
<1>9. ASSUME NEW t \in Targets, WriteTarget(t) \/ UndoTarget(t)
      PROVE  CacheInv'
  <2>1. /\ op'.mode = op.mode /\ pc' \notin {"answer", "serving"}
        /\ pc \in {"write", "undo"} /\ UNCHANGED <<held, cache, uncertain, edits>>
    BY <1>9 DEF WriteTarget, UndoTarget, Return
  <2>2. \A u \in Targets : disk'[u] # disk[u] => u \in Records(journal)
    BY <1>9 DEF WriteTarget, UndoTarget, CompareAndSwap, After, Records
  <2>3. op.mode = "online" => \A u \in Targets : disk'[u] # disk[u] => u \in held
    BY <2>1, <2>2 DEF HeldInv
  <2> QED BY <2>1, <2>3 DEF CacheInv, Known
<1>10. ASSUME NEW want \in Requests, RestoreOnline(want) PROVE CacheInv'
  BY <1>10 DEF RestoreOnline, CacheInv, Known
<1>11. ASSUME NEW want \in Requests, RestoreOffline(want) PROVE CacheInv'
  <2>1. op'.mode = "offline" /\ pc' = "open"
    BY <1>11 DEF RestoreOffline, Begun, NoOp
  <2> QED BY <2>1 DEF CacheInv
<1>12. ASSUME NEW t \in Targets, NEW i \in Images, SaveStore(t, i) PROVE CacheInv'
  <2>1. op.mode # "online" /\ op' = op /\ edits' = edits
    BY <1>12 DEF SaveStore, Importing, Forward
  <2>2. ASSUME edits = 0, NEW u \in Targets PROVE Known(u)'
    <3>1. Known(u) /\ disk \in [Targets -> Images]
      BY <1>12, <2>2 DEF SaveStore, CacheInv
    <3> QED BY <1>12, <3>1 DEF SaveStore, Known
  <2> QED BY <2>1, <2>2 DEF CacheInv
<1>13. ASSUME NEW t \in Targets, NEW i \in Images, Edit(t, i) PROVE CacheInv'
  BY <1>13 DEF Edit, CacheInv
<1>14. CASE UNCHANGED vars
  BY <1>14 DEF vars, CacheInv, Known
<1> QED BY <1>1, <1>2, <1>3, <1>4, <1>5, <1>6, <1>7, <1>8, <1>9, <1>10, <1>11, <1>12,
           <1>13, <1>14 DEF Next, Recovery, Import, Environment

\* While the daemon admits work, no store believes an image its file does not
\* have (closeAll, privaterestore/online.go:74).
THEOREM RestoreCachesFollowFiles == Spec => []CachesFollowFiles
<1>1. Init => Inv /\ HeldInv /\ CacheInv
  BY InitInv DEF Init, NoOp, HeldInv, CacheInv
<1>2. Inv /\ HeldInv /\ CacheInv /\ [Next]_vars => Inv' /\ HeldInv' /\ CacheInv'
  BY StepInv, HeldInvariant, CacheInvariant
<1>3. CacheInv => CachesFollowFiles
  BY DEF CacheInv, Known, CachesFollowFiles
<1> QED BY <1>1, <1>2, <1>3, PTL DEF Spec

=============================================================================
