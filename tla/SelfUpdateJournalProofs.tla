----------------------- MODULE SelfUpdateJournalProofs -----------------------
(***************************************************************************)
(* Proofs about SelfUpdateJournal, for every number of files and every set *)
(* of transactions, any number of crashes, failed writes and edits.        *)
(*                                                                         *)
(* The invariant says what a caller may rely on while it holds the writer  *)
(* lock: nobody else writes a receipt, so the receipt it read is the one   *)
(* it replaces.  From that follow the single use of a command, the         *)
(* finality of a settled receipt and the readability of the current one.   *)
(***************************************************************************)
EXTENDS SelfUpdateJournal, TLAPS, SequenceTheorems

Accepts == {"accept-live", "accept-rollback"}

\* What caller a knows at its pc.
CallInv(a) ==
    LET t == call[a].id
        r == receipts[t]
        k == call[a].action
        pc == call[a].pc IN
    /\ lock = a <=> pc \in Inside
    /\ pc # "idle" => t \in Txns /\ k \in Actions
    /\ pc = "receipt" => k = "prepare" /\ t \in dirs /\ r = None
    /\ pc = "pointer" =>
          /\ r \in Receipts /\ t \in dirs
          /\ \/ k = "prepare" /\ r.schema = Live
             \/ /\ k = "settle-stopped-rollback" /\ r.schema = StoppedSchema
                /\ pointer # None /\ pointer.id = t
             \/ k = "seal" /\ r.schema = PairedSchema /\ pointer # None /\ pointer.id = t
    /\ pc \in {"file", "rename", "checkpoint", "run", "running", "write"} => IsCurrent(t)
    /\ pc \in {"file", "rename", "checkpoint"} =>
          k \in {"install", "restore"} /\ r.phase = Going(k = "restore")
    /\ pc \in {"rename", "checkpoint"} => r.index < N
    /\ pc \in {"run", "running"} =>
          k \in Commands /\ r.phase = "command-started" /\ r.command = k
    /\ pc = "run" => started[t][k] = 0
    /\ pc = "write" =>
          /\ k \in Accepts /\ r.rollback = (k = "accept-rollback")
          /\ r.phase \in {Gone(k = "accept-rollback"), "command-finished"}
          /\ r.rollback => r.schema # PairedSchema
    /\ pc \in {"archive", "record"} => k \in Accepts \cup {"settle-stopped-rollback"}

\* A command runs before the files only while the prior state is not sealed.
Unsealed(r) == r.before => r.schema # PairedSchema

\* Every receipt that was written can be read, and every transaction that has
\* one has its directory.
ReceiptInv ==
    \A t \in Txns : receipts[t] # None =>
        valid(receipts[t]) /\ t \in dirs /\ Unsealed(receipts[t])

\* A command that was begun is in its receipt.
StartInv ==
    \A t \in Txns, c \in Commands :
        /\ started[t][c] \in {0, 1}
        /\ started[t][c] > 0 => receipts[t] # None /\ c \in receipts[t].commands

\* What the helper still has to do is about the transaction of the record.
HelperInv ==
    /\ call["helper"].pc # "idle" => todo # <<>>
    /\ todo # <<>> => record.id \in Txns

Inv ==
    /\ TypeOK
    /\ \A a \in Actors : CallInv(a)
    /\ ReceiptInv /\ Readable /\ StartInv /\ HelperInv


-----------------------------------------------------------------------------
(* Frames. *)

\* The program counters and the results of an operation are typed.
LEMMA Pcs0 ==
    /\ Inside \subseteq Pcs /\ "done" \notin Inside /\ "failed" \notin Inside
    /\ "idle" \notin Inside /\ "waiting" \notin Inside /\ "archive" \notin Inside
    /\ "record" \notin Inside
    /\ {"idle", "waiting", "archive", "record", "done", "failed"} \subseteq Pcs
BY DEF Pcs, Inside

\* A caller that moves to q is there, nobody else moves, and it holds the lock
\* exactly inside.
LEMMA ProceedStep ==
    ASSUME TypeOK, NEW a \in Actors, NEW q \in Pcs, Proceed(a, q)
    PROVE  /\ call' \in [Actors -> [pc : Pcs, action : Actions \cup {"none"},
                                    id : Txns \cup {None}]]
           /\ call'[a].pc = q /\ call'[a].action = call[a].action /\ call'[a].id = call[a].id
           /\ \A b \in Actors \ {a} : call'[b] = call[b]
           /\ lock' \in Actors \cup {None}
           /\ lock' = a <=> q \in Inside
           /\ lock' # a => lock' = IF lock = a THEN None ELSE lock
<1>1. a # None
  BY AbsenceAssumption DEF Actors
<1>2. call \in [Actors -> [pc : Pcs, action : Actions \cup {"none"}, id : Txns \cup {None}]]
      /\ lock \in Actors \cup {None}
  BY DEF TypeOK
<1> QED
  BY <1>1, <1>2 DEF Proceed, Goto

\* A caller outside relies on nothing the journal holds.
LEMMA OutsideFrame ==
    ASSUME NEW b \in Actors, CallInv(b), call'[b] = call[b],
           call[b].pc \notin Inside, lock' # b
    PROVE  CallInv(b)'
BY DEF CallInv, Inside

\* A caller keeps what it relies on while the journal and the starts stay.
LEMMA QuietFrame ==
    ASSUME NEW b \in Actors, CallInv(b), call'[b] = call[b], lock' = b <=> lock = b,
           UNCHANGED <<receipts, pointer, dirs, started>>
    PROVE  CallInv(b)'
BY DEF CallInv, IsCurrent, Readable

\* While a enters or is inside, everybody else is outside.
LEMMA Alone ==
    ASSUME Inv, NEW a \in Actors, call[a].pc \in Inside \/ lock = None,
           NEW q \in Pcs, Proceed(a, q)
    PROVE  \A b \in Actors \ {a} : CallInv(b)'
<1> SUFFICES ASSUME NEW b \in Actors \ {a} PROVE CallInv(b)'
  OBVIOUS
<1>1. a # None /\ b # None
  BY AbsenceAssumption DEF Actors
<1>2. lock # b
  <2>1. call[a].pc \in Inside => lock = a
    BY DEF Inv, CallInv
  <2> QED
    BY <1>1, <2>1
<1>3. call[b].pc \notin Inside
  BY <1>2 DEF Inv, CallInv
<1>4. call'[b] = call[b] /\ lock' # b
  BY <1>1, <1>2, ProceedStep DEF Inv
<1> QED
  BY <1>2, <1>3, <1>4, OutsideFrame DEF Inv

\* What a write of a receipt may leave behind.
LEMMA WriteStep ==
    ASSUME TypeOK, NEW a \in Actors, NEW r \in Receipts, NEW pc \in Pcs,
           call[a].id \in Txns, WriteReceipt(a, r, pc)
    PROVE  /\ receipts' \in [Txns -> Receipts \cup {None}]
           /\ \A t \in Txns \ {call[a].id} : receipts'[t] = receipts[t]
           /\ receipts'[call[a].id] \in {receipts[call[a].id], r}
           /\ faults' \in 0..MaxFaults /\ crashes' = crashes /\ edits' = edits
           /\ \/ Proceed(a, pc) /\ receipts'[call[a].id] = r
              \/ Proceed(a, "failed")
<1>1. receipts \in [Txns -> Receipts \cup {None}] /\ faults \in 0..MaxFaults /\ MaxFaults \in Nat
  BY BoundAssumption DEF TypeOK
<1>2. PICK o \in Outcomes :
        /\ Fault(o)
        /\ receipts' = IF o = "lost" THEN receipts ELSE [receipts EXCEPT ![call[a].id] = r]
        /\ Proceed(a, IF o = "ok" THEN pc ELSE "failed")
  BY DEF WriteReceipt
<1>3. faults' \in 0..MaxFaults /\ crashes' = crashes /\ edits' = edits
  BY <1>1, <1>2 DEF Fault
<1> QED
  BY <1>1, <1>2, <1>3 DEF Outcomes

\* What a write of the pointer may leave behind.
LEMMA PointerStep ==
    ASSUME TypeOK, NEW a \in Actors, NEW s \in {Live, StoppedSchema, PairedSchema},
           NEW pc \in Pcs, call[a].id \in Txns, WritePointer(a, s, pc)
    PROVE  /\ pointer' \in {pointer, [id |-> call[a].id, schema |-> s]}
           /\ pointer' \in Pointers \cup {None}
           /\ faults' \in 0..MaxFaults /\ crashes' = crashes /\ edits' = edits
           /\ Proceed(a, pc) \/ Proceed(a, "failed")
<1>1. faults \in 0..MaxFaults /\ MaxFaults \in Nat
  BY BoundAssumption DEF TypeOK
<1>2. PICK o \in Outcomes :
        /\ Fault(o)
        /\ pointer' = IF o = "lost" THEN pointer ELSE [id |-> call[a].id, schema |-> s]
        /\ Proceed(a, IF o = "ok" THEN pc ELSE "failed")
  BY DEF WritePointer
<1>3. faults' \in 0..MaxFaults /\ crashes' = crashes /\ edits' = edits
  BY <1>1, <1>2 DEF Fault
<1>4. pointer' \in {pointer, [id |-> call[a].id, schema |-> s]}
  BY <1>2
<1>5. pointer' \in Pointers \cup {None}
  BY <1>4 DEF TypeOK, Pointers
<1> QED
  BY <1>2, <1>3, <1>4, <1>5 DEF Outcomes


-----------------------------------------------------------------------------
(* Operations. *)

Kept == <<record, archive, todo, stop>>
EditTypes == [made : 0..MaxEdits, unseen : SUBSET Files]

\* The invariant after a step of a caller, put together.
LEMMA Assembled ==
    ASSUME Inv, NEW a \in Actors, NEW q \in Pcs, Proceed(a, q), call[a].pc # "idle",
           call[a].pc \in Inside \/ lock = None,
           UNCHANGED Kept, CallInv(a)',
           dirs' \subseteq Txns, disk' \in [Files -> Contents],
           receipts' \in [Txns -> Receipts \cup {None}],
           pointer' \in Pointers \cup {None},
           worker' \in Commands \cup {"ok", "failed"},
           started' \in [Txns -> [Commands -> Nat]],
           panel' = panel,
           faults' \in 0..MaxFaults, crashes' = crashes, edits' \in EditTypes \cup {edits},
           ReceiptInv', Readable', StartInv'
    PROVE  Inv'
<1>1. TypeOK'
  <2>1. edits' \in EditTypes
    BY DEF Inv, TypeOK, EditTypes
  <2> QED
    BY <2>1, ProceedStep DEF Inv, TypeOK, Kept, EditTypes
<1>2. \A b \in Actors : CallInv(b)'
  BY Alone
<1>3. HelperInv'
  BY ProceedStep DEF Inv, HelperInv, Kept, Actors
<1> QED
  BY <1>1, <1>2, <1>3 DEF Inv

\* Whatever a caller knows about itself once a call has ended.
LEMMA Ended0 ==
    ASSUME Inv, NEW a \in Actors, NEW q \in {"done", "failed"}, Proceed(a, q),
           call[a].pc # "idle"
    PROVE  CallInv(a)'
<1>1. /\ call'[a].pc = q /\ call'[a].action = call[a].action /\ call'[a].id = call[a].id
      /\ lock' # a
  BY ProceedStep, Pcs0 DEF Inv
<1>2. call[a].id \in Txns /\ call[a].action \in Actions
  BY DEF Inv, CallInv
<1> QED
  BY <1>1, <1>2 DEF CallInv, Inside

\* A step that leaves the journal alone.
LEMMA StayOperation ==
    ASSUME Inv, NEW a \in Actors, NEW q \in Pcs, Proceed(a, q), call[a].pc # "idle",
           call[a].pc \in Inside \/ lock = None,
           UNCHANGED <<receipts, pointer, dirs, disk, worker, started, panel>>,
           UNCHANGED bounds, UNCHANGED Kept,
           q \in {"done", "failed"} \/ CallInv(a)'
    PROVE  Inv'
<1>1. CallInv(a)'
  BY Ended0
<1>2. ReceiptInv' /\ Readable' /\ StartInv'
  BY DEF Inv, ReceiptInv, Readable, StartInv
<1>3. /\ receipts' \in [Txns -> Receipts \cup {None}]
      /\ pointer' \in Pointers \cup {None}
      /\ dirs' \subseteq Txns /\ disk' \in [Files -> Contents]
      /\ worker' \in Commands \cup {"ok", "failed"}
      /\ started' \in [Txns -> [Commands -> Nat]] /\ panel' = panel
      /\ faults' \in 0..MaxFaults /\ crashes' = crashes /\ edits' = edits
  BY DEF Inv, TypeOK, bounds
<1> QED
  BY <1>1, <1>2, <1>3, Assembled

\* A step that writes a receipt that can be read, keeps the commands of the last
\* one and agrees with the pointer.
LEMMA WriteOperation ==
    ASSUME Inv, NEW a \in Actors, NEW r \in Receipts, NEW pc \in Pcs, call[a].pc # "idle",
           call[a].pc \in Inside \/ lock = None,
           WriteReceipt(a, r, pc),
           UNCHANGED <<pointer, dirs, disk, worker, started, panel>>, UNCHANGED Kept,
           valid(r), Unsealed(r), call[a].id \in dirs,
           receipts[call[a].id] # None => receipts[call[a].id].commands \subseteq r.commands,
           (pointer # None /\ pointer.id = call[a].id) => Agrees(pointer, r),
           pc \in {"done", "failed"} \/
             ((Proceed(a, pc) /\ receipts'[call[a].id] = r) => CallInv(a)')
    PROVE  Inv'
<1> DEFINE t == call[a].id
<1>1. t \in Txns
  BY DEF Inv, CallInv
<1>2. /\ receipts' \in [Txns -> Receipts \cup {None}]
      /\ \A u \in Txns \ {t} : receipts'[u] = receipts[u]
      /\ receipts'[t] \in {receipts[t], r}
      /\ faults' \in 0..MaxFaults /\ crashes' = crashes /\ edits' = edits
      /\ \/ Proceed(a, pc) /\ receipts'[t] = r
         \/ Proceed(a, "failed")
  BY <1>1, WriteStep DEF Inv
<1>3. r # None
  BY AbsenceAssumption
<1>4. ReceiptInv'
  BY <1>1, <1>2 DEF Inv, ReceiptInv
<1>5. StartInv'
  BY <1>1, <1>2, <1>3 DEF Inv, StartInv
<1>6. Readable'
  <2> SUFFICES ASSUME pointer # None
               PROVE  receipts'[pointer.id] # None /\ valid(receipts'[pointer.id])
                      /\ Agrees(pointer, receipts'[pointer.id])
    BY DEF Readable, Agrees, Live
  <2>1. pointer.id \in Txns
    BY DEF Inv, TypeOK, Pointers
  <2>2. CASE pointer.id = t
    BY <1>2, <1>3, <2>2 DEF Inv, Readable
  <2>3. CASE pointer.id # t
    BY <1>2, <2>1, <2>3 DEF Inv, Readable
  <2> QED
    BY <2>2, <2>3
<1>7. /\ pointer' \in Pointers \cup {None}
      /\ dirs' \subseteq Txns /\ disk' \in [Files -> Contents]
      /\ worker' \in Commands \cup {"ok", "failed"}
      /\ started' \in [Txns -> [Commands -> Nat]] /\ panel' = panel
  BY DEF Inv, TypeOK
<1>8. CASE Proceed(a, "failed")
  BY <1>2, <1>4, <1>5, <1>6, <1>7, <1>8, Assembled, Ended0, Pcs0
<1>9. CASE Proceed(a, pc) /\ receipts'[t] = r
  <2>1. CallInv(a)'
    BY <1>9, Ended0
  <2> QED
    BY <1>2, <1>4, <1>5, <1>6, <1>7, <1>9, <2>1, Assembled
<1> QED
  BY <1>2, <1>8, <1>9

\* A check that fails changes nothing but the caller.
LEMMA GiveUpStep ==
    ASSUME Inv, NEW a \in Actors, GiveUp(a), UNCHANGED Kept, call[a].pc # "idle",
           call[a].pc \in Inside \/ lock = None \/ call[a].pc = "waiting"
    PROVE  Inv'
<1>1. CASE call[a].pc \in Inside \/ lock = None
  BY <1>1, StayOperation, Pcs0 DEF GiveUp, journal
<1>2. CASE call[a].pc = "waiting"
  <2>1. lock # a
    BY <1>2 DEF Inv, CallInv, Inside
  <2>2. Proceed(a, "failed") /\ "failed" \in Pcs
    BY Pcs0 DEF GiveUp
  <2>3. lock' = lock
    BY <2>1, <2>2, Pcs0 DEF Proceed
  <2>4. CallInv(a)'
    BY <2>2, Ended0
  <2>5. \A b \in Actors \ {a} : CallInv(b)'
    BY <2>2, <2>3, ProceedStep, QuietFrame DEF Inv, GiveUp, journal
  <2>6. TypeOK'
    BY <2>2, ProceedStep DEF Inv, TypeOK, Kept, GiveUp, journal, bounds
  <2>7. ReceiptInv' /\ Readable' /\ StartInv'
    BY DEF Inv, ReceiptInv, Readable, StartInv, GiveUp, journal
  <2>8. HelperInv'
    BY <2>2, ProceedStep DEF Inv, HelperInv, Kept, Actors
  <2> QED
    BY <2>4, <2>5, <2>6, <2>7, <2>8 DEF Inv
<1> QED
  BY <1>1, <1>2


\* Prepare keeps the invariant: a transaction's first receipt is written before
\* anything can point to it.
LEMMA PrepareStep ==
    ASSUME Inv, NEW a \in Actors, Prepare(a), UNCHANGED Kept
    PROVE  Inv'
<1> DEFINE t == call[a].id
<1>0. call[a].pc # "idle" => t \in Txns
  BY DEF Inv, CallInv
<1>1. CASE GiveUp(a)
  BY <1>1, GiveUpStep, Pcs0 DEF Prepare, Enters, At, Inside
<1>2. CASE /\ Enters(a, {"prepare"}) /\ MayPrepare(a)
           /\ dirs' = dirs \cup {t} /\ Proceed(a, "receipt")
           /\ UNCHANGED <<receipts, pointer, disk, worker, started, panel, bounds>>
  <2>1. call[a].pc = "waiting" /\ call[a].action = "prepare" /\ lock = None /\ t \in Txns
    BY <1>0, <1>2 DEF Enters
  <2>2. t \notin dirs /\ receipts[t] = None
    BY <1>2, <2>1 DEF MayPrepare, Inv, ReceiptInv
  <2>3. Proceed(a, "receipt") /\ "receipt" \in Pcs
    BY <1>2 DEF Pcs, Inside
  <2>4. CallInv(a)'
    <3>1. /\ call'[a].pc = "receipt" /\ call'[a].action = "prepare" /\ call'[a].id = t
          /\ lock' = a
      BY <2>1, <2>3, ProceedStep DEF Inv, Inside
    <3> QED
      BY <1>2, <2>1, <2>2, <3>1 DEF CallInv, Inside, Actions
  <2>5. ReceiptInv' /\ Readable' /\ StartInv'
    BY <1>2 DEF Inv, ReceiptInv, Readable, StartInv
  <2>6. /\ receipts' \in [Txns -> Receipts \cup {None}]
        /\ pointer' \in Pointers \cup {None}
        /\ dirs' \subseteq Txns /\ disk' \in [Files -> Contents]
        /\ worker' \in Commands \cup {"ok", "failed"}
        /\ started' \in [Txns -> [Commands -> Nat]] /\ panel' = panel
        /\ faults' \in 0..MaxFaults /\ crashes' = crashes /\ edits' = edits
    BY <1>2, <2>1 DEF Inv, TypeOK, bounds
  <2> QED
    BY <2>1, <2>3, <2>4, <2>5, <2>6, Assembled
<1>3. CASE /\ At(a, "receipt") /\ call[a].action = "prepare"
           /\ WriteReceipt(a, Prepared(disk), "pointer")
           /\ UNCHANGED <<pointer, dirs, disk, worker, started, panel>>
  <2>1. call[a].pc = "receipt" /\ t \in Txns /\ t \in dirs /\ receipts[t] = None
    BY <1>0, <1>3 DEF At, Inv, CallInv
  <2>2. Prepared(disk) \in Receipts /\ valid(Prepared(disk)) /\ Unsealed(Prepared(disk))
    BY BoundAssumption DEF Unsealed, Prepared, Receipts, valid, Settled, Phases, Inv, TypeOK, Live,
       StoppedSchema, PairedSchema
  <2>3. pointer # None => pointer.id # t
    BY <2>1 DEF Inv, Readable
  <2>4. ASSUME Proceed(a, "pointer"), receipts'[t] = Prepared(disk)
        PROVE  CallInv(a)'
    <3>1. /\ call'[a].pc = "pointer" /\ call'[a].action = "prepare" /\ call'[a].id = t
          /\ lock' = a
      BY <1>3, <2>4, ProceedStep DEF Inv, Inside, Pcs
    <3> QED
      BY <1>3, <2>1, <2>2, <2>4, <3>1 DEF CallInv, Inside, Actions, Prepared
  <2>5. "pointer" \in Pcs /\ "receipt" \in Inside
    BY DEF Pcs, Inside
  <2> QED
    BY <1>3, <2>1, <2>2, <2>3, <2>4, <2>5, WriteOperation
<1>4. CASE /\ At(a, "pointer") /\ call[a].action = "prepare"
           /\ WritePointer(a, Live, "done")
           /\ UNCHANGED <<receipts, dirs, disk, worker, started, panel>>
  <2>1. /\ call[a].pc = "pointer" /\ t \in Txns /\ receipts[t] \in Receipts
        /\ receipts[t].schema = Live
    BY <1>0, <1>4 DEF At, Inv, CallInv
  <2>2. /\ pointer' \in {pointer, [id |-> t, schema |-> Live]}
        /\ pointer' \in Pointers \cup {None}
        /\ faults' \in 0..MaxFaults /\ crashes' = crashes /\ edits' = edits
        /\ Proceed(a, "done") \/ Proceed(a, "failed")
    BY <1>4, <2>1, PointerStep, Pcs0 DEF Inv
  <2>3. CallInv(a)'
    BY <2>1, <2>2, Ended0
  <2>4. Readable'
    BY <1>4, <2>1, <2>2, AbsenceAssumption DEF Inv, ReceiptInv, Readable, Agrees
  <2>5. ReceiptInv' /\ StartInv'
    BY <1>4 DEF Inv, ReceiptInv, StartInv
  <2>6. /\ receipts' \in [Txns -> Receipts \cup {None}]
        /\ dirs' \subseteq Txns /\ disk' \in [Files -> Contents]
        /\ worker' \in Commands \cup {"ok", "failed"}
        /\ started' \in [Txns -> [Commands -> Nat]] /\ panel' = panel
    BY <1>4 DEF Inv, TypeOK
  <2>7. "pointer" \in Inside
    BY DEF Inside
  <2> QED
    BY <2>1, <2>2, <2>3, <2>4, <2>5, <2>6, <2>7, Pcs0, Assembled
<1> QED
  BY <1>1, <1>2, <1>3, <1>4 DEF Prepare


\* A receipt with other fields of their types is a receipt.
LEMMA Updated ==
    ASSUME NEW r \in Receipts, NEW p \in Phases, NEW i \in 0..N,
           NEW c \in Commands \cup {"none"}, NEW b \in BOOLEAN, NEW e \in BOOLEAN
    PROVE  [r EXCEPT !.phase = p, !.index = i, !.command = c, !.rollback = b,
                     !.before = e] \in Receipts
BY DEF Receipts

\* A replacement that starts over writes a receipt that can be read.
LEMMA RestoreAfresh ==
    ASSUME NEW r \in Receipts, valid(r), ~Settled(r), r.schema # PairedSchema
    PROVE  /\ Afresh(r, TRUE) \in Receipts /\ valid(Afresh(r, TRUE))
           /\ Unsealed(Afresh(r, TRUE))
<1>0. Afresh(r, TRUE) \in Receipts
  <2>1. 0 \in 0..N /\ "restoring" \in Phases
    BY BoundAssumption DEF Phases
  <2>2. \A i \in 0..N : [r EXCEPT !.phase = "restoring", !.index = i, !.command = "none",
                                  !.rollback = TRUE, !.before = FALSE] \in Receipts
    BY <2>1, Updated
  <2> QED
    BY <2>1, <2>2 DEF Afresh, Going
<1>1. SUFFICES ASSUME NEW q, q = Afresh(r, TRUE) PROVE valid(q) /\ Unsealed(q)
  BY <1>0
<1>2. /\ q.schema = r.schema /\ q.phase = "restoring" /\ q.index = 0
      /\ q.command = "none" /\ q.commands = r.commands /\ q.rollback = TRUE
      /\ q.before = FALSE
  BY <1>1 DEF Afresh, Receipts, Going
<1>3. r.schema # StoppedSchema
  BY DEF valid, Settled
<1>4. r.schema = PairedSchema => PreFiles \subseteq r.commands
  BY DEF valid
<1>5. ~Settled(q)
  BY <1>2 DEF Settled
<1>6. valid(q)
  BY <1>2, <1>3, <1>4, <1>5 DEF valid
<1> QED
  BY <1>2, <1>6 DEF Unsealed

\* And so does an installation.
LEMMA InstallAfresh ==
    ASSUME NEW r \in Receipts, valid(r), ~Settled(r), ~r.rollback,
           r.phase \in {"prepared", "paired-prepared", "installing"}
    PROVE  /\ Afresh(r, FALSE) \in Receipts /\ valid(Afresh(r, FALSE))
           /\ Unsealed(Afresh(r, FALSE))
<1>0. Afresh(r, FALSE) \in Receipts
  <2>1. 0 \in 0..N /\ "installing" \in Phases
    BY BoundAssumption DEF Phases
  <2>2. \A i \in 0..N : [r EXCEPT !.phase = "installing", !.index = i, !.command = "none",
                                  !.rollback = FALSE, !.before = FALSE] \in Receipts
    BY <2>1, Updated
  <2> QED
    BY <2>1, <2>2 DEF Afresh, Going
<1>1. SUFFICES ASSUME NEW q, q = Afresh(r, FALSE) PROVE valid(q) /\ Unsealed(q)
  BY <1>0
<1>2. /\ q.schema = r.schema /\ q.phase = "installing" /\ q.index = 0
      /\ q.command = "none" /\ q.commands = r.commands /\ q.rollback = FALSE
      /\ q.before = FALSE
  BY <1>1 DEF Afresh, Receipts, Going
<1>3. r.schema # StoppedSchema
  BY DEF valid, Settled
<1>4. r.schema = PairedSchema => PreFiles \subseteq r.commands
  BY DEF valid
<1>5. ~Settled(q)
  BY <1>2 DEF Settled
<1>6. valid(q)
  BY <1>2, <1>3, <1>4, <1>5 DEF valid
<1> QED
  BY <1>2, <1>6 DEF Unsealed

\* Install and Restore keep the invariant: the receipt they replace is the one
\* they read, and it can be read at every checkpoint.
LEMMA ReplaceStep ==
    ASSUME Inv, NEW a \in Actors, Replace(a), UNCHANGED Kept
    PROVE  Inv'
<1> DEFINE t == call[a].id
           r == receipts[t]
           back == call[a].action = "restore"
<1>1. CASE BeginReplace(a)
  <2>1. /\ call[a].pc = "waiting" /\ lock = None /\ t \in Txns
        /\ call[a].action \in {"install", "restore"}
    BY <1>1 DEF BeginReplace, Enters, Inv, CallInv
  <2>2. CASE GiveUp(a)
    BY <2>1, <2>2, GiveUpStep
  <2>3. CASE /\ MayReplace(t, back) /\ Proceed(a, "done")
             /\ UNCHANGED <<journal, disk, worker, started, panel, bounds>>
    BY <2>1, <2>3, StayOperation, Pcs0 DEF journal
  <2>4. CASE /\ MayReplace(t, back) /\ r.phase = Going(back) /\ Proceed(a, "file")
             /\ UNCHANGED <<journal, disk, worker, started, panel, bounds>>
    <3>1. /\ call'[a].pc = "file" /\ call'[a].action = call[a].action /\ call'[a].id = t
          /\ lock' = a
      BY <2>4, ProceedStep DEF Inv, Inside, Pcs
    <3>2. CallInv(a)'
      BY <2>1, <2>4, <3>1 DEF CallInv, Inside, Actions, journal, IsCurrent, Readable, MayReplace
    <3> QED
      BY <2>1, <2>4, <3>2, StayOperation DEF journal, Pcs, Inside
  <2>5. CASE /\ MayReplace(t, back) /\ WriteReceipt(a, Afresh(r, back), "file")
             /\ UNCHANGED <<pointer, dirs, disk, worker, started, panel>>
    <3>1. /\ pointer # None /\ pointer.id = t /\ r # None /\ r \in Receipts /\ valid(r)
          /\ t \in dirs /\ Agrees(pointer, r)
      BY <2>1, <2>5 DEF MayReplace, IsCurrent, Readable, Inv, ReceiptInv, TypeOK
    <3>2. Afresh(r, back) \in Receipts /\ valid(Afresh(r, back)) /\ Unsealed(Afresh(r, back))
      <4>1. /\ ~Settled(r)
            /\ back => r.schema # PairedSchema
            /\ ~back => ~r.rollback /\ r.phase \in {"prepared", "paired-prepared", "installing"}
        BY <2>5 DEF MayReplace
      <4>2. CASE back
        <5>1. back = TRUE
          BY <4>2
        <5>2. Afresh(r, back) = Afresh(r, TRUE)
          BY <5>1, Zenon
        <5>3. ~Settled(r) /\ r.schema # PairedSchema
          BY <4>1, <4>2
        <5>4. /\ Afresh(r, TRUE) \in Receipts /\ valid(Afresh(r, TRUE))
              /\ Unsealed(Afresh(r, TRUE))
          BY <3>1, <5>3, RestoreAfresh
        <5> QED
          BY <5>2, <5>4, Zenon
      <4>3. CASE ~back
        <5>1. back = FALSE
          BY <4>3
        <5>2. Afresh(r, back) = Afresh(r, FALSE)
          BY <5>1, Zenon
        <5>3. /\ ~Settled(r) /\ ~r.rollback
              /\ r.phase \in {"prepared", "paired-prepared", "installing"}
          BY <4>1, <4>3
        <5>4. /\ Afresh(r, FALSE) \in Receipts /\ valid(Afresh(r, FALSE))
              /\ Unsealed(Afresh(r, FALSE))
          BY <3>1, <5>3, InstallAfresh
        <5> QED
          BY <5>2, <5>4, Zenon
      <4> QED
        BY <4>2, <4>3
    <3>3. Afresh(r, back).schema = r.schema
      BY <3>1 DEF Afresh, Receipts
    <3>4. Agrees(pointer, Afresh(r, back))
      BY <2>5, <3>1 DEF Agrees, Afresh, MayReplace, valid, Settled, Receipts, Live,
         StoppedSchema, PairedSchema
    <3>5. r.commands \subseteq Afresh(r, back).commands
      BY <3>1 DEF Afresh, Receipts
    <3>6. ASSUME Proceed(a, "file"), receipts'[t] = Afresh(r, back)
          PROVE  CallInv(a)'
      <4>1. /\ call'[a].pc = "file" /\ call'[a].action = call[a].action /\ call'[a].id = t
            /\ lock' = a
        BY <3>6, ProceedStep DEF Inv, Inside, Pcs
      <4>2. Afresh(r, back).phase = Going(back)
        BY <3>1 DEF Afresh, Receipts
      <4>3. IsCurrent(t)'
        BY <2>5, <3>1, <3>2, <3>3, <3>4, <3>6, <4>1, AbsenceAssumption DEF IsCurrent, Readable, Agrees,
           Live
      <4> QED
        BY <2>1, <3>6, <4>1, <4>2, <4>3 DEF CallInv, Inside, Actions
    <3> QED
      BY <2>1, <2>5, <3>1, <3>2, <3>3, <3>4, <3>5, <3>6, WriteOperation DEF Pcs, Inside
  <2> QED
    BY <1>1, <2>2, <2>3, <2>4, <2>5 DEF BeginReplace
<1>2. CASE CompareFile(a)
  <2>1. /\ call[a].pc = "file" /\ t \in Txns /\ r.index < N /\ IsCurrent(t)
        /\ call[a].action \in {"install", "restore"} /\ r.phase = Going(back)
        /\ call[a].pc \in Inside
    BY <1>2 DEF CompareFile, At, Inv, CallInv, Inside
  <2>2. CASE GiveUp(a)
    BY <2>1, <2>2, GiveUpStep
  <2>3. CASE ~GiveUp(a)
    <3>1. PICK q \in {"failed", "checkpoint", "rename"} :
            /\ Proceed(a, q)
            /\ edits' = [edits EXCEPT !.unseen = @ \ {r.index + 1}]
            /\ UNCHANGED <<journal, disk, worker, started, panel, faults, crashes>>
      BY <1>2, <2>3 DEF CompareFile
    <3>2. edits' \in EditTypes
      BY <3>1 DEF Inv, TypeOK, EditTypes
    <3>3. /\ receipts' \in [Txns -> Receipts \cup {None}]
          /\ pointer' \in Pointers \cup {None}
          /\ worker' \in Commands \cup {"ok", "failed"}
          /\ dirs' \subseteq Txns /\ disk' \in [Files -> Contents]
          /\ started' \in [Txns -> [Commands -> Nat]] /\ panel' = panel
          /\ faults' \in 0..MaxFaults /\ crashes' = crashes
      BY <3>1 DEF Inv, TypeOK, journal
    <3>4. ReceiptInv' /\ Readable' /\ StartInv'
      BY <3>1 DEF Inv, ReceiptInv, Readable, StartInv, journal
    <3>5. CallInv(a)'
      <4>1. CASE q = "failed"
        BY <2>1, <3>1, <4>1, Ended0
      <4>2. CASE q \in {"checkpoint", "rename"}
        <5>1. /\ call'[a].pc = q /\ call'[a].action = call[a].action
              /\ call'[a].id = t /\ lock' = a
          BY <3>1, <4>2, ProceedStep DEF Inv, Inside, Pcs
        <5> QED
          BY <2>1, <3>1, <4>2, <5>1 DEF CallInv, Inside, Actions, journal, IsCurrent, Readable
      <4> QED
        BY <4>1, <4>2
    <3>6. q \in Pcs
      BY DEF Pcs, Inside
    <3> QED
      BY <2>1, <3>1, <3>2, <3>3, <3>4, <3>5, <3>6, Assembled
  <2> QED
    BY <2>2, <2>3
<1>3. CASE RenameFile(a)
  <2>1. /\ call[a].pc = "rename" /\ t \in Txns /\ r.index < N /\ IsCurrent(t)
        /\ call[a].action \in {"install", "restore"} /\ r.phase = Going(back)
        /\ call[a].pc \in Inside
    BY <1>3 DEF RenameFile, At, Inv, CallInv, Inside
  <2>2. CASE GiveUp(a)
    BY <2>1, <2>2, GiveUpStep
  <2>3. CASE ~GiveUp(a)
    <3> DEFINE f == r.index + 1
    <3>1. PICK o \in Outcomes :
            /\ Fault(o)
            /\ disk' = IF o = "lost" THEN disk
                       ELSE [disk EXCEPT ![f] = Image(t, r, back, f)]
            /\ Proceed(a, IF o = "ok" THEN "checkpoint" ELSE "failed")
            /\ UNCHANGED <<journal, worker, started, panel>>
      BY <1>3, <2>3 DEF RenameFile
    <3>2. pointer # None /\ pointer.id = t /\ r # None /\ r \in Receipts
      BY <2>1 DEF IsCurrent, Readable, Inv, TypeOK
    <3>3. f \in Files
      BY <2>1, <3>2, BoundAssumption DEF Files, Receipts
    <3>4. disk' \in [Files -> Contents]
      BY <2>1, <3>1, <3>2, <3>3 DEF Image, Receipts, Inv, TypeOK, Contents
    <3>5. faults' \in 0..MaxFaults /\ crashes' = crashes /\ edits' = edits
      BY <3>1, BoundAssumption DEF Fault, Inv, TypeOK
    <3>6. /\ receipts' \in [Txns -> Receipts \cup {None}]
          /\ pointer' \in Pointers \cup {None}
          /\ worker' \in Commands \cup {"ok", "failed"}
          /\ dirs' \subseteq Txns
          /\ started' \in [Txns -> [Commands -> Nat]] /\ panel' = panel
      BY <3>1 DEF Inv, TypeOK, journal
    <3>7. ReceiptInv' /\ Readable' /\ StartInv'
      BY <3>1 DEF Inv, ReceiptInv, Readable, StartInv, journal
    <3>8. CASE Proceed(a, "failed")
      BY <2>1, <3>4, <3>5, <3>6, <3>7, <3>8, Ended0, Assembled, Pcs0
    <3>9. CASE Proceed(a, "checkpoint")
      <4>1. /\ call'[a].pc = "checkpoint" /\ call'[a].action = call[a].action
            /\ call'[a].id = t /\ lock' = a
        BY <3>9, ProceedStep DEF Inv, Inside, Pcs
      <4>2. CallInv(a)'
        BY <2>1, <3>1, <4>1 DEF CallInv, Inside, Actions, journal, IsCurrent, Readable
      <4> QED
        BY <2>1, <3>4, <3>5, <3>6, <3>7, <3>9, <4>2, Assembled DEF Pcs, Inside
    <3> QED
      BY <3>1, <3>8, <3>9 DEF Outcomes
  <2> QED
    BY <2>2, <2>3
<1>4. CASE Checkpoint(a) \/ FinishReplace(a)
  <2> DEFINE next == [r EXCEPT !.index = @ + 1]
             last == [r EXCEPT !.phase = Gone(back)]
  <2>1. /\ call[a].pc \in {"file", "checkpoint"} /\ t \in Txns /\ IsCurrent(t)
        /\ call[a].pc \in Inside
        /\ call[a].action \in {"install", "restore"} /\ r.phase = Going(back)
        /\ call[a].pc = "checkpoint" => r.index < N
    BY <1>4 DEF Checkpoint, FinishReplace, At, Inv, CallInv, Inside
  <2>2. /\ pointer # None /\ pointer.id = t /\ r # None /\ r \in Receipts /\ valid(r)
        /\ t \in dirs /\ Agrees(pointer, r)
    BY <2>1 DEF IsCurrent, Readable, Inv, ReceiptInv, TypeOK
  <2>3. CASE Checkpoint(a)
    <3>1. call[a].pc = "checkpoint" /\ WriteReceipt(a, next, "file")
          /\ UNCHANGED <<pointer, dirs, disk, worker, started, panel>>
      BY <2>3 DEF Checkpoint, At
    <3>2. /\ next \in Receipts /\ next.phase = r.phase /\ next.schema = r.schema
          /\ next.commands = r.commands
      BY <2>1, <2>2, <3>1, BoundAssumption DEF Receipts
    <3>3. valid(next) /\ Unsealed(next)
      BY <2>1, <2>2 DEF valid, Unsealed, Going, Receipts, Settled
    <3>4. Agrees(pointer, next)
      BY <2>2, <3>2 DEF Agrees
    <3>5. ASSUME Proceed(a, "file"), receipts'[t] = next
          PROVE  CallInv(a)'
      <4>1. /\ call'[a].pc = "file" /\ call'[a].action = call[a].action /\ call'[a].id = t
            /\ lock' = a
        BY <3>5, ProceedStep DEF Inv, Inside, Pcs
      <4>2. IsCurrent(t)'
        BY <2>2, <3>1, <3>2, <3>3, <3>4, <3>5, <4>1, AbsenceAssumption DEF IsCurrent, Readable, Agrees,
           Live
      <4> QED
        BY <2>1, <3>2, <3>5, <4>1, <4>2 DEF CallInv, Inside, Actions
    <3> QED
      BY <2>1, <2>2, <3>1, <3>2, <3>3, <3>4, <3>5, WriteOperation DEF Pcs, Inside
  <2>4. CASE FinishReplace(a)
    <3>1. r.index = N /\ WriteReceipt(a, last, "done")
          /\ UNCHANGED <<pointer, dirs, disk, worker, started, panel>>
      BY <2>4 DEF FinishReplace
    <3>2. /\ last \in Receipts /\ last.phase = Gone(back) /\ last.schema = r.schema
          /\ last.commands = r.commands
      BY <2>2 DEF Receipts, Gone, Phases
    <3>3. valid(last) /\ Unsealed(last)
      BY <2>1, <2>2, <3>1 DEF valid, Unsealed, Going, Gone, Receipts, Settled, StoppedSchema, PairedSchema,
         Live
    <3>4. Agrees(pointer, last)
      BY <2>1, <2>2, <3>2 DEF Agrees, Going
    <3> QED
      BY <2>1, <2>2, <3>1, <3>2, <3>3, <3>4, WriteOperation, Pcs0
  <2> QED
    BY <1>4, <2>3, <2>4
<1> QED
  BY <1>1, <1>2, <1>3, <1>4 DEF Replace


\* What the current receipt of t is known to be.
LEMMA CurrentReceipt ==
    ASSUME Inv, NEW t \in Txns, IsCurrent(t)
    PROVE  /\ pointer # None /\ pointer.id = t /\ receipts[t] # None
           /\ receipts[t] \in Receipts /\ valid(receipts[t]) /\ t \in dirs
           /\ Agrees(pointer, receipts[t])
BY DEF IsCurrent, Readable, Inv, ReceiptInv, TypeOK

\* The current transaction stays current over a write of its receipt.
LEMMA StaysCurrent ==
    ASSUME NEW t \in Txns, NEW r \in Receipts, pointer # None, pointer.id = t,
           pointer' = pointer, receipts'[t] = r, valid(r), Agrees(pointer, r)
    PROVE  receipts'[t] # None /\ Readable' /\ pointer' # None /\ pointer'.id = t
BY AbsenceAssumption DEF Readable, Agrees, Live

\* The intent of a command is a receipt that can be read.
LEMMA IntentValid ==
    ASSUME NEW r \in Receipts, NEW c \in Commands, valid(r),
           \/ r.phase = "prepared" /\ r.schema = Live /\ c \in PreFiles
           \/ r.phase \in {"installed", "restored", "command-finished"}
    PROVE  /\ Intended(r, c) \in Receipts /\ valid(Intended(r, c))
           /\ Unsealed(Intended(r, c))
           /\ Intended(r, c).phase = "command-started" /\ Intended(r, c).command = c
           /\ Intended(r, c).schema = r.schema
           /\ Intended(r, c).commands = r.commands \cup {c}
<1>1. r.commands \cup {c} \in SUBSET Commands
  BY DEF Receipts
<1>2. ASSUME NEW b \in BOOLEAN, b <=> r.phase = "prepared", NEW e,
             e = [r EXCEPT !.phase = "command-started", !.command = c, !.before = b,
                           !.commands = r.commands \cup {c}]
      PROVE  /\ e \in Receipts /\ valid(e) /\ Unsealed(e) /\ e.phase = "command-started"
             /\ e.command = c /\ e.schema = r.schema /\ e.commands = r.commands \cup {c}
  <2>1. PICK s \in SUBSET Commands : s = r.commands \cup {c}
    BY <1>1
  <2>2. e = [r EXCEPT !.phase = "command-started", !.command = c, !.before = b,
                      !.commands = s]
    BY <1>2, <2>1, Zenon
  <2>3. "command-started" \in Phases
    BY DEF Phases
  <2>4. e \in Receipts
    BY <2>2, <2>3 DEF Receipts
  <2>5. /\ e.schema = r.schema /\ e.phase = "command-started" /\ e.index = r.index
        /\ e.command = c /\ e.commands = s /\ e.rollback = r.rollback /\ e.before = b
    BY <2>2 DEF Receipts
  <2>6. /\ r.schema # StoppedSchema
        /\ b => r.index = 0 /\ ~r.rollback /\ r.schema # PairedSchema
        /\ ~b => r.index = N
        /\ b => c \in PreFiles
        /\ r.schema = PairedSchema => ~r.rollback /\ PreFiles \subseteq r.commands
    BY <1>2 DEF valid, Live, PairedSchema, StoppedSchema, Settled
  <2>7. ~Settled(e)
    BY <2>5 DEF Settled
  <2>8. valid(e) /\ Unsealed(e)
    BY <1>2, <2>1, <2>5, <2>6, <2>7 DEF valid, Unsealed
  <2> QED
    BY <2>1, <2>4, <2>5, <2>8
<1>3. CASE r.phase = "prepared"
  <2>1. Intended(r, c) = [r EXCEPT !.phase = "command-started", !.command = c,
                                   !.before = TRUE, !.commands = r.commands \cup {c}]
    BY <1>3 DEF Intended, Receipts
  <2> QED
    BY <1>2, <1>3, <2>1
<1>4. CASE r.phase # "prepared"
  <2>1. Intended(r, c) = [r EXCEPT !.phase = "command-started", !.command = c,
                                   !.before = FALSE, !.commands = r.commands \cup {c}]
    BY <1>4 DEF Intended, Receipts
  <2> QED
    BY <1>2, <1>4, <2>1
<1> QED
  BY <1>3, <1>4

\* A finished command leaves a receipt that can be read.
LEMMA FinishedValid ==
    ASSUME NEW r \in Receipts, valid(r), Unsealed(r), r.phase = "command-started"
    PROVE  /\ finishCommand(r) \in Receipts /\ valid(finishCommand(r))
           /\ Unsealed(finishCommand(r))
           /\ finishCommand(r).schema = r.schema /\ finishCommand(r).commands = r.commands
           /\ r.schema # StoppedSchema
           /\ finishCommand(r).phase \in {"prepared", "command-finished"}
<1>1. r.schema # StoppedSchema
  BY DEF valid
<1>2. CASE r.before
  <2>1. SUFFICES ASSUME NEW q, q = finishCommand(r)
                 PROVE  /\ q \in Receipts /\ valid(q) /\ Unsealed(q) /\ q.schema = r.schema
                        /\ q.commands = r.commands /\ q.phase = "prepared"
    BY <1>1
  <2>2. q = [r EXCEPT !.phase = "prepared", !.command = "none", !.before = FALSE]
    BY <1>2, <2>1 DEF finishCommand
  <2>3. "prepared" \in Phases
    BY DEF Phases
  <2>4. q \in Receipts
    BY <2>2, <2>3 DEF Receipts
  <2>5. /\ q.schema = r.schema /\ q.phase = "prepared" /\ q.index = r.index
        /\ q.command = "none" /\ q.commands = r.commands /\ q.rollback = r.rollback
        /\ q.before = FALSE
    BY <2>2 DEF Receipts
  <2>6. r.index = 0 /\ ~r.rollback /\ r.command \in PreFiles /\ r.schema # PairedSchema
    BY <1>2 DEF valid, Unsealed
  <2>7. valid(q) /\ Unsealed(q)
    BY <1>1, <2>5, <2>6 DEF valid, Settled, Unsealed
  <2> QED
    BY <2>4, <2>5, <2>7
<1>3. CASE ~r.before
  <2>1. finishCommand(r) = [r EXCEPT !.phase = "command-finished"]
    BY <1>3 DEF finishCommand
  <2>2. "command-finished" \in Phases
    BY DEF Phases
  <2>3. [r EXCEPT !.phase = "command-finished"] \in Receipts
    BY <2>2 DEF Receipts
  <2>4. SUFFICES ASSUME NEW q, q = [r EXCEPT !.phase = "command-finished"]
                 PROVE  valid(q) /\ Unsealed(q) /\ q.schema = r.schema /\ q.commands = r.commands
                        /\ q.phase = "command-finished"
    BY <1>1, <2>1, <2>3
  <2>5. /\ q.schema = r.schema /\ q.phase = "command-finished" /\ q.index = r.index
        /\ q.command = r.command /\ q.commands = r.commands /\ q.rollback = r.rollback
        /\ q.before = r.before
    BY <2>4 DEF Receipts
  <2>6. valid(q) /\ Unsealed(q)
    BY <1>1, <1>3, <2>5 DEF valid, Settled, Unsealed
  <2> QED
    BY <2>5, <2>6
<1> QED
  BY <1>2, <1>3

\* The receipt of a finished command keeps the invariant.
LEMMA FinishStep ==
    ASSUME Inv, NEW a \in Actors, call[a].pc # "idle", call[a].pc \in Inside \/ lock = None,
           call[a].id \in Txns, IsCurrent(call[a].id),
           receipts[call[a].id].phase = "command-started",
           NEW pc \in {"done", "failed"},
           WriteReceipt(a, finishCommand(receipts[call[a].id]), pc),
           UNCHANGED <<pointer, dirs, disk, worker, started, panel>>, UNCHANGED Kept
    PROVE  Inv'
<1> DEFINE t == call[a].id
           r == receipts[t]
<1>1. /\ pointer # None /\ pointer.id = t /\ r # None /\ r \in Receipts /\ valid(r)
      /\ t \in dirs /\ Agrees(pointer, r) /\ Unsealed(r)
  BY CurrentReceipt DEF Inv, ReceiptInv
<1>2. /\ finishCommand(r) \in Receipts /\ valid(finishCommand(r))
      /\ Unsealed(finishCommand(r))
      /\ finishCommand(r).schema = r.schema /\ finishCommand(r).commands = r.commands
      /\ r.schema # StoppedSchema
  BY <1>1, FinishedValid
<1>3. Agrees(pointer, finishCommand(r))
  BY <1>1, <1>2 DEF Agrees
<1> QED
  BY <1>1, <1>2, <1>3, WriteOperation, Pcs0

\* Execute keeps the invariant: the intent names a command that was never begun.
LEMMA ExecuteStep ==
    ASSUME Inv, NEW a \in Actors, Execute(a), UNCHANGED Kept
    PROVE  Inv'
<1> DEFINE t == call[a].id
           r == receipts[t]
           c == call[a].action
<1>1. CASE BeginCommand(a)
  <2>1. call[a].pc = "waiting" /\ lock = None /\ t \in Txns /\ c \in Commands
    BY <1>1 DEF BeginCommand, Enters, Inv, CallInv
  <2>2. CASE GiveUp(a)
    BY <2>1, <2>2, GiveUpStep
  <2>3. CASE /\ MayExecute(t, c) /\ WriteReceipt(a, Intended(r, c), "run")
             /\ UNCHANGED <<pointer, dirs, disk, worker, started, panel>>
    <3>1. /\ pointer # None /\ pointer.id = t /\ r # None /\ r \in Receipts /\ valid(r)
          /\ t \in dirs /\ Agrees(pointer, r)
      BY <2>1, <2>3, CurrentReceipt DEF MayExecute
    <3>2. /\ \/ r.phase = "prepared" /\ r.schema = Live /\ c \in PreFiles
             \/ r.phase \in {"installed", "restored", "command-finished"}
          /\ c \notin r.commands
      BY <2>3 DEF MayExecute
    <3>3. /\ Intended(r, c) \in Receipts /\ valid(Intended(r, c))
          /\ Unsealed(Intended(r, c))
          /\ Intended(r, c).phase = "command-started" /\ Intended(r, c).command = c
          /\ Intended(r, c).schema = r.schema
          /\ Intended(r, c).commands = r.commands \cup {c}
      BY <2>1, <3>1, <3>2, IntentValid
    <3>4. Agrees(pointer, Intended(r, c))
      BY <3>1, <3>2, <3>3 DEF Agrees, Live, StoppedSchema, PairedSchema
    <3>5. started[t][c] = 0
      BY <2>1, <3>2 DEF Inv, StartInv
    <3>6. ASSUME Proceed(a, "run"), receipts'[t] = Intended(r, c)
          PROVE  CallInv(a)'
      <4>1. /\ call'[a].pc = "run" /\ call'[a].action = c /\ call'[a].id = t /\ lock' = a
        BY <3>6, ProceedStep DEF Inv, Inside, Pcs
      <4>2. receipts'[t] # None /\ Readable' /\ pointer' # None /\ pointer'.id = t
        BY <2>1, <2>3, <3>1, <3>3, <3>4, <3>6, StaysCurrent
      <4> QED
        BY <2>1, <2>3, <3>3, <3>5, <3>6, <4>1, <4>2 DEF CallInv, Inside, Actions, IsCurrent
    <3> QED
      BY <2>1, <2>3, <3>1, <3>3, <3>4, <3>6, WriteOperation DEF Pcs, Inside
  <2> QED
    BY <1>1, <2>2, <2>3 DEF BeginCommand
<1>2. CASE RunCommand(a)
  <2>1. /\ call[a].pc = "run" /\ t \in Txns /\ c \in Commands /\ IsCurrent(t)
        /\ r.phase = "command-started" /\ r.command = c /\ started[t][c] = 0
        /\ call[a].pc \in Inside
    BY <1>2 DEF RunCommand, At, Inv, CallInv, Inside
  <2>2. CASE GiveUp(a)
    BY <2>1, <2>2, GiveUpStep
  <2>3. CASE ~GiveUp(a)
    <3>1. /\ started' = [started EXCEPT ![t][c] = @ + 1]
          /\ worker' = IF started[t][c] = 0 THEN c ELSE "failed"
          /\ Proceed(a, "running")
          /\ UNCHANGED <<journal, disk, panel, bounds>>
      BY <1>2, <2>3 DEF RunCommand
    <3>2. /\ pointer # None /\ pointer.id = t /\ r # None /\ r \in Receipts /\ valid(r)
      BY <2>1, CurrentReceipt
    <3>3. c \in r.commands
      BY <2>1, <3>2 DEF valid
    <3>4. started \in [Txns -> [Commands -> Nat]]
      BY DEF Inv, TypeOK
    <3>5. /\ started' \in [Txns -> [Commands -> Nat]]
          /\ started'[t][c] = 1
          /\ \A u \in Txns, d \in Commands : <<u, d>> # <<t, c>> => started'[u][d] = started[u][d]
      BY <2>1, <3>1, <3>4
    <3>6. StartInv'
      BY <2>1, <3>1, <3>2, <3>3, <3>5 DEF Inv, StartInv, journal
    <3>7. ReceiptInv' /\ Readable'
      BY <3>1 DEF Inv, ReceiptInv, Readable, journal
    <3>8. /\ call'[a].pc = "running" /\ call'[a].action = c /\ call'[a].id = t /\ lock' = a
      BY <3>1, ProceedStep DEF Inv, Inside, Pcs
    <3>9. CallInv(a)'
      BY <2>1, <3>1, <3>8 DEF CallInv, Inside, Actions, IsCurrent, Readable, journal
    <3>10. /\ receipts' \in [Txns -> Receipts \cup {None}]
           /\ pointer' \in Pointers \cup {None}
           /\ worker' \in Commands \cup {"ok", "failed"}
           /\ dirs' \subseteq Txns /\ disk' \in [Files -> Contents] /\ panel' = panel
           /\ faults' \in 0..MaxFaults /\ crashes' = crashes /\ edits' = edits
      BY <2>1, <3>1 DEF Inv, TypeOK, journal, bounds
    <3> QED
      BY <2>1, <3>1, <3>5, <3>6, <3>7, <3>9, <3>10, Assembled DEF Pcs, Inside
  <2> QED
    BY <2>2, <2>3
<1>3. CASE EndCommand(a)
  <2>1. /\ call[a].pc = "running" /\ t \in Txns /\ IsCurrent(t)
        /\ r.phase = "command-started" /\ call[a].pc \in Inside
    BY <1>3 DEF EndCommand, At, Inv, CallInv, Inside
  <2>2. CASE GiveUp(a)
    BY <2>1, <2>2, GiveUpStep
  <2>3. CASE ~GiveUp(a)
    <3>1. PICK pc \in {"done", "failed"} :
            /\ WriteReceipt(a, finishCommand(r), pc)
            /\ UNCHANGED <<pointer, dirs, disk, worker, started, panel>>
      BY <1>3, <2>3 DEF EndCommand
    <3> QED
      BY <2>1, <3>1, FinishStep
  <2> QED
    BY <2>2, <2>3
<1> QED
  BY <1>1, <1>2, <1>3 DEF Execute

\* ResolveUnknown keeps the invariant: it finishes the command the receipt names.
LEMMA ResolveStep ==
    ASSUME Inv, NEW a \in Actors, ResolveUnknown(a), UNCHANGED Kept
    PROVE  Inv'
<1> DEFINE t == call[a].id
<1>1. call[a].pc = "waiting" /\ lock = None /\ t \in Txns
  BY DEF ResolveUnknown, Enters, Inv, CallInv
<1>2. CASE GiveUp(a)
  BY <1>1, <1>2, GiveUpStep
<1>3. CASE /\ IsCurrent(t) /\ receipts[t].phase = "command-started"
           /\ WriteReceipt(a, finishCommand(receipts[t]), "done")
           /\ UNCHANGED <<pointer, dirs, disk, worker, started, panel>>
  BY <1>1, <1>3, FinishStep
<1> QED
  BY <1>2, <1>3 DEF ResolveUnknown

\* A pointer written to a receipt that is there keeps the invariant.
LEMMA PointerOperation ==
    ASSUME Inv, NEW a \in Actors, call[a].pc = "pointer",
           NEW s \in {Live, StoppedSchema, PairedSchema}, receipts[call[a].id].schema = s,
           NEW pc \in {"done", "archive"},
           pc = "archive" => call[a].action = "settle-stopped-rollback",
           WritePointer(a, s, pc),
           UNCHANGED <<receipts, dirs, disk, worker, started, panel>>, UNCHANGED Kept
    PROVE  Inv'
<1> DEFINE t == call[a].id
<1>1. t \in Txns /\ receipts[t] \in Receipts
  BY DEF Inv, CallInv
<1>2. /\ pointer' \in {pointer, [id |-> t, schema |-> s]}
      /\ pointer' \in Pointers \cup {None}
      /\ faults' \in 0..MaxFaults /\ crashes' = crashes /\ edits' = edits
      /\ Proceed(a, pc) \/ Proceed(a, "failed")
  BY <1>1, PointerStep, Pcs0 DEF Inv
<1>3. Readable'
  BY <1>1, <1>2, AbsenceAssumption DEF Inv, ReceiptInv, Readable, Agrees
<1>4. ReceiptInv' /\ StartInv'
  BY DEF Inv, ReceiptInv, StartInv
<1>5. /\ receipts' \in [Txns -> Receipts \cup {None}]
      /\ dirs' \subseteq Txns /\ disk' \in [Files -> Contents]
      /\ worker' \in Commands \cup {"ok", "failed"}
      /\ started' \in [Txns -> [Commands -> Nat]] /\ panel' = panel
  BY DEF Inv, TypeOK
<1>6. ASSUME NEW q \in {"done", "archive", "failed"}, Proceed(a, q),
             q = "archive" => call[a].action = "settle-stopped-rollback"
      PROVE  CallInv(a)'
  <2>1. q \in Pcs /\ q \notin Inside
    BY Pcs0
  <2>2. /\ call'[a].pc = q /\ call'[a].action = call[a].action /\ call'[a].id = t
        /\ lock' # a
    BY <1>6, <2>1, ProceedStep DEF Inv
  <2>3. call[a].action \in Actions
    BY DEF Inv, CallInv
  <2> QED
    BY <1>1, <1>6, <2>1, <2>2, <2>3 DEF CallInv, Inside
<1>7. "pointer" \in Inside
  BY DEF Inside
<1>8. CASE Proceed(a, pc)
  BY <1>2, <1>3, <1>4, <1>5, <1>6, <1>7, <1>8, Pcs0, Assembled
<1>9. CASE Proceed(a, "failed")
  BY <1>2, <1>3, <1>4, <1>5, <1>6, <1>7, <1>9, Pcs0, Assembled
<1> QED
  BY <1>2, <1>8, <1>9

\* Accept keeps the invariant: what it accepts is completely installed, or
\* completely restored.
LEMMA AcceptStep ==
    ASSUME Inv, NEW a \in Actors, Accept(a), UNCHANGED Kept
    PROVE  Inv'
<1> DEFINE t == call[a].id
           r == receipts[t]
           back == call[a].action = "accept-rollback"
           end == IF back THEN "rolled-back" ELSE "accepted"
<1>0. /\ call[a].pc \in {"waiting", "write"} /\ (call[a].pc \in Inside \/ lock = None)
      /\ t \in Txns /\ call[a].action \in Accepts
  BY DEF Accept, Enters, At, Inv, CallInv, Inside, Accepts
<1>1. CASE GiveUp(a)
  BY <1>0, <1>1, GiveUpStep
<1>2. CASE /\ Enters(a, Accepts) /\ Acceptable(a) /\ Proceed(a, "write")
           /\ UNCHANGED <<journal, disk, worker, started, panel, bounds>>
  <2>1. /\ IsCurrent(t) /\ r.rollback = back
        /\ r.phase \in {Gone(back), "command-finished"}
        /\ back => r.schema # PairedSchema
    BY <1>2 DEF Acceptable
  <2>2. /\ call'[a].pc = "write" /\ call'[a].action = call[a].action /\ call'[a].id = t
        /\ lock' = a
    BY <1>2, ProceedStep DEF Inv, Inside, Pcs
  <2>3. receipts' = receipts /\ pointer' = pointer /\ dirs' = dirs /\ started' = started
    BY <1>2 DEF journal
  <2>4. IsCurrent(t)'
    BY <2>1, <2>2, <2>3 DEF IsCurrent, Readable
  <2>5. CallInv(a)'
    BY <1>0, <2>1, <2>2, <2>3, <2>4 DEF CallInv, Inside, Accepts, Actions
  <2> QED
    BY <1>0, <1>2, <2>5, StayOperation DEF journal, Pcs, Inside
<1>3. CASE /\ At(a, "write") /\ call[a].action \in Accepts
           /\ WriteReceipt(a, [r EXCEPT !.command = "none", !.phase = end], "archive")
           /\ UNCHANGED <<pointer, dirs, disk, worker, started, panel>>
  <2>1. /\ call[a].pc = "write" /\ IsCurrent(t) /\ r.rollback = back
        /\ r.phase \in {Gone(back), "command-finished"}
        /\ r.rollback => r.schema # PairedSchema
    BY <1>3 DEF At, Inv, CallInv
  <2>2. /\ pointer # None /\ pointer.id = t /\ r # None /\ r \in Receipts /\ valid(r)
        /\ t \in dirs /\ Agrees(pointer, r)
    BY <1>0, <2>1, CurrentReceipt
  <2>3. end \in Phases /\ "none" \in Commands \cup {"none"}
    BY DEF Phases
  <2> DEFINE e == [r EXCEPT !.command = "none", !.phase = end]
  <2>4. e \in Receipts
    BY <2>2, <2>3 DEF Receipts
  <2>5. /\ e.schema = r.schema /\ e.phase = end /\ e.index = r.index /\ e.command = "none"
        /\ e.commands = r.commands /\ e.rollback = r.rollback /\ e.before = r.before
    BY <2>2 DEF Receipts
  <2>6. /\ r.index = N /\ ~r.before /\ r.schema # StoppedSchema
        /\ r.schema = PairedSchema => PreFiles \subseteq r.commands
    BY <2>1, <2>2 DEF valid, Gone, Settled
  <2> HIDE DEF e
  <2>9. valid(e) /\ Unsealed(e)
    <3>1. CASE back
      <4>1. end = "rolled-back" /\ r.rollback /\ r.schema # PairedSchema
        BY <2>1, <3>1
      <4> QED
        BY <2>5, <2>6, <4>1 DEF valid, Unsealed, Settled
    <3>2. CASE ~back
      <4>1. end = "accepted" /\ ~r.rollback
        BY <2>1, <3>2
      <4> QED
        BY <2>5, <2>6, <4>1 DEF valid, Unsealed, Settled
    <3> QED
      BY <3>1, <3>2
  <2>10. Agrees(pointer, e)
    BY <2>1, <2>2, <2>5, <2>6 DEF Agrees, Gone
  <2>11. ASSUME Proceed(a, "archive"), receipts'[t] = e
         PROVE  CallInv(a)'
    <3>1. /\ call'[a].pc = "archive" /\ call'[a].action = call[a].action /\ call'[a].id = t
          /\ lock' # a
      BY <2>11, ProceedStep, Pcs0 DEF Inv
    <3> QED
      BY <1>0, <3>1 DEF CallInv, Inside, Accepts, Actions
  <2>12. WriteReceipt(a, e, "archive")
    BY <1>3 DEF e
  <2> QED
    BY <1>0, <1>3, <2>1, <2>2, <2>4, <2>5, <2>9, <2>10, <2>11, <2>12, WriteOperation, Pcs0
<1> QED
  BY <1>1, <1>2, <1>3 DEF Accept, Accepts

\* SettleStoppedRollback keeps the invariant.
LEMMA SettleStep ==
    ASSUME Inv, NEW a \in Actors, SettleStoppedRollback(a), UNCHANGED Kept
    PROVE  Inv'
<1> DEFINE t == call[a].id
           r == receipts[t]
           e == [r EXCEPT !.schema = StoppedSchema, !.command = "none",
                          !.phase = "rolled-back-stopped", !.before = FALSE]
<1>0. /\ call[a].pc \in {"waiting", "pointer"} /\ (call[a].pc \in Inside \/ lock = None)
      /\ t \in Txns /\ call[a].action = "settle-stopped-rollback"
  BY DEF SettleStoppedRollback, Enters, At, Inv, CallInv, Inside
<1>1. CASE GiveUp(a)
  BY <1>0, <1>1, GiveUpStep
<1>2. CASE /\ Enters(a, {"settle-stopped-rollback"}) /\ MaySettle(t)
           /\ r.phase = "rolled-back-stopped" /\ Proceed(a, "pointer")
           /\ UNCHANGED <<journal, disk, worker, started, panel, bounds>>
  <2>1. /\ pointer # None /\ pointer.id = t /\ r # None /\ r \in Receipts /\ valid(r)
        /\ t \in dirs
    BY <1>0, <1>2, CurrentReceipt DEF MaySettle
  <2>2. r.schema = StoppedSchema
    BY <1>2, <2>1 DEF valid
  <2>3. /\ call'[a].pc = "pointer" /\ call'[a].action = call[a].action /\ call'[a].id = t
        /\ lock' = a
    BY <1>2, ProceedStep DEF Inv, Inside, Pcs
  <2>4. CallInv(a)'
    BY <1>0, <1>2, <2>1, <2>2, <2>3 DEF CallInv, Inside, Actions, journal
  <2> QED
    BY <1>0, <1>2, <2>4, StayOperation DEF journal, Pcs, Inside
<1>3. CASE /\ Enters(a, {"settle-stopped-rollback"}) /\ MaySettle(t)
           /\ r.phase # "rolled-back-stopped" /\ WriteReceipt(a, e, "pointer")
           /\ UNCHANGED <<pointer, dirs, disk, worker, started, panel>>
  <2>1. /\ pointer # None /\ pointer.id = t /\ r # None /\ r \in Receipts /\ valid(r)
        /\ t \in dirs /\ Agrees(pointer, r)
    BY <1>0, <1>3, CurrentReceipt DEF MaySettle
  <2>2. /\ r.rollback /\ r.index = N /\ r.schema = Live
    BY <1>3 DEF MaySettle
  <2>3. "rolled-back-stopped" \in Phases
    BY DEF Phases
  <2>4. e \in Receipts
    BY <2>1, <2>3 DEF Receipts
  <2>5. /\ e.schema = StoppedSchema /\ e.phase = "rolled-back-stopped" /\ e.index = r.index
        /\ e.command = "none" /\ e.commands = r.commands /\ e.rollback = r.rollback
        /\ e.before = FALSE
    BY <2>1 DEF Receipts
  <2> HIDE DEF e
  <2>6. valid(e) /\ Unsealed(e)
    BY <2>2, <2>5 DEF valid, Unsealed, Settled, StoppedSchema, PairedSchema
  <2>7. Agrees(pointer, e)
    BY <2>1, <2>2, <2>5 DEF Agrees, Live, StoppedSchema, PairedSchema
  <2>8. ASSUME Proceed(a, "pointer"), receipts'[t] = e
        PROVE  CallInv(a)'
    <3>1. /\ call'[a].pc = "pointer" /\ call'[a].action = call[a].action /\ call'[a].id = t
          /\ lock' = a
      BY <2>8, ProceedStep DEF Inv, Inside, Pcs
    <3> QED
      BY <1>0, <1>3, <2>1, <2>4, <2>5, <2>8, <3>1 DEF CallInv, Inside, Actions
  <2>9. "pointer" \in Pcs /\ UNCHANGED <<pointer, dirs, disk, worker, started, panel>>
    BY <1>3 DEF Pcs, Inside
  <2>10. WriteReceipt(a, e, "pointer")
    BY <1>3
  <2> QED
    BY <1>0, <2>1, <2>4, <2>5, <2>6, <2>7, <2>8, <2>9, <2>10, WriteOperation
<1>4. CASE /\ At(a, "pointer") /\ WritePointer(a, StoppedSchema, "archive")
           /\ UNCHANGED <<receipts, dirs, disk, worker, started, panel>>
  <2>1. r.schema = StoppedSchema /\ call[a].pc = "pointer"
    BY <1>0, <1>4 DEF At, Inv, CallInv
  <2> QED
    BY <1>0, <1>4, <2>1, PointerOperation
<1> QED
  BY <1>0, <1>1, <1>2, <1>3, <1>4 DEF SettleStoppedRollback

\* SealPairedPriorState keeps the invariant: what it seals is still prepared.
LEMMA SealStep ==
    ASSUME Inv, NEW a \in Actors, SealPairedPriorState(a), UNCHANGED Kept
    PROVE  Inv'
<1> DEFINE t == call[a].id
           r == receipts[t]
           e == [r EXCEPT !.schema = PairedSchema, !.phase = "paired-prepared"]
<1>0. /\ call[a].pc \in {"waiting", "pointer"} /\ (call[a].pc \in Inside \/ lock = None)
      /\ t \in Txns /\ call[a].action = "seal"
  BY DEF SealPairedPriorState, Enters, At, Inv, CallInv, Inside
<1>1. CASE GiveUp(a)
  BY <1>0, <1>1, GiveUpStep
<1>2. CASE /\ Enters(a, {"seal"}) /\ MaySeal(t) /\ WriteReceipt(a, e, "pointer")
           /\ UNCHANGED <<pointer, dirs, disk, worker, started, panel>>
  <2>1. /\ pointer # None /\ pointer.id = t /\ r # None /\ r \in Receipts /\ valid(r)
        /\ t \in dirs /\ Agrees(pointer, r)
    BY <1>0, <1>2, CurrentReceipt DEF MaySeal
  <2>2. r.schema = Live /\ r.phase = "prepared" /\ r.commands = PreFiles
    BY <1>2 DEF MaySeal
  <2>3. "paired-prepared" \in Phases
    BY DEF Phases
  <2>4. e \in Receipts
    BY <2>1, <2>3 DEF Receipts
  <2>5. /\ e.schema = PairedSchema /\ e.phase = "paired-prepared" /\ e.index = r.index
        /\ e.command = r.command /\ e.commands = r.commands /\ e.rollback = r.rollback
        /\ e.before = r.before
    BY <2>1 DEF Receipts
  <2> HIDE DEF e
  <2>6. r.index = 0 /\ r.command = "none" /\ ~r.before /\ ~r.rollback
    BY <2>1, <2>2 DEF valid, Settled
  <2>7. valid(e) /\ Unsealed(e)
    BY <2>2, <2>5, <2>6 DEF valid, Unsealed, Settled, StoppedSchema, PairedSchema
  <2>8. Agrees(pointer, e)
    BY <2>1, <2>2, <2>5 DEF Agrees, Live, StoppedSchema, PairedSchema
  <2>9. ASSUME Proceed(a, "pointer"), receipts'[t] = e
        PROVE  CallInv(a)'
    <3>1. /\ call'[a].pc = "pointer" /\ call'[a].action = call[a].action /\ call'[a].id = t
          /\ lock' = a
      BY <2>9, ProceedStep DEF Inv, Inside, Pcs
    <3> QED
      BY <1>0, <1>2, <2>1, <2>4, <2>5, <2>9, <3>1 DEF CallInv, Inside, Actions
  <2>10. "pointer" \in Pcs /\ UNCHANGED <<pointer, dirs, disk, worker, started, panel>>
    BY <1>2 DEF Pcs, Inside
  <2>11. WriteReceipt(a, e, "pointer")
    BY <1>2
  <2> QED
    BY <1>0, <2>1, <2>4, <2>5, <2>7, <2>8, <2>9, <2>10, <2>11, WriteOperation
<1>3. CASE /\ At(a, "pointer") /\ WritePointer(a, PairedSchema, "done")
           /\ UNCHANGED <<receipts, dirs, disk, worker, started, panel>>
  <2>1. r.schema = PairedSchema /\ call[a].pc = "pointer"
    BY <1>0, <1>3 DEF At, Inv, CallInv
  <2> QED
    BY <1>0, <1>3, <2>1, PointerOperation
<1> QED
  BY <1>0, <1>1, <1>2, <1>3 DEF SealPairedPriorState

\* RetirePairedPriorState keeps the invariant: it archives what was accepted.
LEMMA RetireStep ==
    ASSUME Inv, NEW a \in Actors, RetirePairedPriorState(a), UNCHANGED Kept
    PROVE  Inv'
<1> DEFINE t == call[a].id
           r == receipts[t]
           e == [r EXCEPT !.phase = "archived"]
<1>0. call[a].pc = "waiting" /\ lock = None /\ t \in Txns
  BY DEF RetirePairedPriorState, Enters, Inv, CallInv
<1>1. CASE GiveUp(a)
  BY <1>0, <1>1, GiveUpStep
<1>2. CASE /\ IsCurrent(t) /\ r.schema = PairedSchema /\ r.phase = "accepted" /\ ~r.rollback
           /\ WriteReceipt(a, e, "done")
           /\ UNCHANGED <<pointer, dirs, disk, worker, started, panel>>
  <2>1. /\ pointer # None /\ pointer.id = t /\ r # None /\ r \in Receipts /\ valid(r)
        /\ t \in dirs /\ Agrees(pointer, r)
    BY <1>0, <1>2, CurrentReceipt
  <2>2. "archived" \in Phases
    BY DEF Phases
  <2>3. e \in Receipts
    BY <2>1, <2>2 DEF Receipts
  <2>4. /\ e.schema = r.schema /\ e.phase = "archived" /\ e.index = r.index
        /\ e.command = r.command /\ e.commands = r.commands /\ e.rollback = r.rollback
        /\ e.before = r.before
    BY <2>1 DEF Receipts
  <2> HIDE DEF e
  <2>5. r.index = N /\ r.command = "none" /\ ~r.before /\ PreFiles \subseteq r.commands
    BY <1>2, <2>1 DEF valid, Settled
  <2>6. valid(e) /\ Unsealed(e)
    BY <1>2, <2>4, <2>5 DEF valid, Unsealed, Settled, StoppedSchema, PairedSchema
  <2>7. Agrees(pointer, e)
    BY <1>2, <2>1, <2>4 DEF Agrees, StoppedSchema, PairedSchema, Live
  <2>8. WriteReceipt(a, e, "done") /\ UNCHANGED <<pointer, dirs, disk, worker, started, panel>>
    BY <1>2
  <2> QED
    BY <1>0, <2>1, <2>3, <2>4, <2>6, <2>7, <2>8, WriteOperation, Pcs0
<1> QED
  BY <1>1, <1>2 DEF RetirePairedPriorState

-----------------------------------------------------------------------------
(* The helper record and the steps around the operations. *)

States == {"idle", "restarting", "requires-review", "completed", "rolled-back",
           "rolled-back-stopped"}
Records == [id : Txns \cup {None}, state : States]
Archives == {None, "completed", "rolled-back", "rolled-back-stopped"}

\* A step of a caller that holds no lock and leaves the journal alone.
LEMMA OutsideStep ==
    ASSUME Inv, NEW a \in Actors, call[a].pc \in {"archive", "record"},
           NEW q \in {"record", "done", "failed"}, Proceed(a, q),
           UNCHANGED <<journal, disk, worker, started, panel, todo, stop>>,
           crashes' = crashes, edits' = edits, faults' \in 0..MaxFaults,
           record' \in Records, record'.id \in Txns \/ record' = record,
           archive' \in [Txns -> Archives]
    PROVE  Inv'
<1>1. /\ q \in Pcs /\ q \notin Inside /\ lock # a
      /\ call[a].id \in Txns /\ call[a].action \in Actions
      /\ call[a].action \in Accepts \cup {"settle-stopped-rollback"}
  BY Pcs0 DEF Inv, CallInv
<1>2. /\ call' \in [Actors -> [pc : Pcs, action : Actions \cup {"none"}, id : Txns \cup {None}]]
      /\ call'[a].pc = q /\ call'[a].action = call[a].action /\ call'[a].id = call[a].id
      /\ \A b \in Actors \ {a} : call'[b] = call[b]
      /\ lock' = lock
  BY <1>1, ProceedStep DEF Inv, Proceed
<1>3. CallInv(a)'
  BY <1>1, <1>2 DEF CallInv, Inside
<1>4. \A b \in Actors \ {a} : CallInv(b)'
  BY <1>2, QuietFrame DEF Inv, journal
<1>5. TypeOK'
  BY <1>2 DEF Inv, TypeOK, journal, Records, States, Archives
<1>6. ReceiptInv' /\ Readable' /\ StartInv'
  BY DEF Inv, ReceiptInv, Readable, StartInv, journal
<1>7. HelperInv'
  BY <1>2 DEF Inv, HelperInv, Actors
<1> QED
  BY <1>3, <1>4, <1>5, <1>6, <1>7 DEF Inv

\* The retained copy of the helper record says how the update ended.
LEMMA WriteArchiveStep ==
    ASSUME Inv, NEW a \in Actors, WriteArchive(a), UNCHANGED <<todo, stop>>
    PROVE  Inv'
<1> DEFINE t == call[a].id
           wanted == Wanted(call[a].action)
<1>1. /\ call[a].pc = "archive" /\ t \in Txns
      /\ call[a].action \in Accepts \cup {"settle-stopped-rollback"}
      /\ record \in Records /\ archive \in [Txns -> Archives] /\ faults \in 0..MaxFaults
  BY DEF WriteArchive, At, Inv, CallInv, TypeOK, Records, States, Archives
<1>2. wanted \in Archives
  BY <1>1 DEF Wanted, Accepts, Archives
<1>3. UNCHANGED <<journal, disk, worker, started, panel, record>>
  BY DEF WriteArchive
<1>4. CASE \E q \in {"done", "failed"} : Proceed(a, q) /\ UNCHANGED <<archive, bounds>>
  <2>1. PICK q \in {"done", "failed"} : Proceed(a, q) /\ UNCHANGED <<archive, bounds>>
    BY <1>4
  <2> QED
    BY <1>1, <1>3, <2>1, OutsideStep DEF bounds
<1>5. CASE \E o \in Outcomes :
              /\ Fault(o)
              /\ archive' = IF o = "lost" THEN archive ELSE [archive EXCEPT ![t] = wanted]
              /\ Proceed(a, IF o = "ok" THEN "record" ELSE "failed")
  <2>1. PICK o \in Outcomes :
              /\ Fault(o)
              /\ archive' = IF o = "lost" THEN archive ELSE [archive EXCEPT ![t] = wanted]
              /\ Proceed(a, IF o = "ok" THEN "record" ELSE "failed")
    BY <1>5
  <2>2. PICK q \in {"record", "failed"} : Proceed(a, q)
    BY <2>1
  <2>3. archive' \in [Txns -> Archives]
    BY <1>1, <1>2, <2>1
  <2>4. crashes' = crashes /\ edits' = edits /\ faults' \in 0..MaxFaults
    BY <1>1, <2>1, BoundAssumption DEF Fault
  <2> QED
    BY <1>1, <1>3, <2>2, <2>3, <2>4, OutsideStep
<1> QED
  BY <1>4, <1>5 DEF WriteArchive

\* The shared helper record names the transaction of its writer.
LEMMA WriteRecordStep ==
    ASSUME Inv, NEW a \in Actors, WriteRecord(a), UNCHANGED <<todo, stop>>
    PROVE  Inv'
<1> DEFINE t == call[a].id
           wanted == Wanted(call[a].action)
<1>1. /\ call[a].pc = "record" /\ t \in Txns
      /\ call[a].action \in Accepts \cup {"settle-stopped-rollback"}
      /\ record \in Records /\ archive \in [Txns -> Archives] /\ faults \in 0..MaxFaults
  BY DEF WriteRecord, At, Inv, CallInv, TypeOK, Records, States, Archives
<1>2. wanted \in States
  BY <1>1 DEF Wanted, Accepts, States
<1>3. PICK o \in Outcomes :
         /\ Fault(o)
         /\ record' = IF o = "lost" THEN record ELSE [id |-> t, state |-> wanted]
         /\ Proceed(a, IF o = "ok" THEN "done" ELSE "failed")
  BY DEF WriteRecord
<1>4. PICK q \in {"done", "failed"} : Proceed(a, q)
  BY <1>3
<1>5. record' \in Records /\ (record'.id \in Txns \/ record' = record)
  BY <1>1, <1>2, <1>3 DEF Records
<1>6. crashes' = crashes /\ edits' = edits /\ faults' \in 0..MaxFaults
  BY <1>1, <1>3, BoundAssumption DEF Fault
<1>7. UNCHANGED <<journal, disk, worker, started, panel>> /\ archive' \in [Txns -> Archives]
  BY <1>1 DEF WriteRecord
<1> QED
  BY <1>1, <1>4, <1>5, <1>6, <1>7, OutsideStep

\* Every step of a caller keeps the invariant.
LEMMA WorksStep ==
    ASSUME Inv, NEW a \in Actors, Works(a)
    PROVE  Inv'
<1>1. CASE Operation(a) /\ UNCHANGED <<record, archive>> /\ UNCHANGED <<todo, stop>>
  <2>1. UNCHANGED Kept
    BY <1>1 DEF Kept
  <2>2. CASE Busy(a)
    BY <2>1, <2>2, GiveUpStep DEF Busy
  <2> QED
    BY <1>1, <2>1, <2>2, PrepareStep, ReplaceStep, ExecuteStep, ResolveStep, AcceptStep,
       SettleStep, SealStep, RetireStep DEF Operation
<1>2. CASE WriteArchive(a) /\ UNCHANGED <<todo, stop>>
  BY <1>2, WriteArchiveStep
<1>3. CASE WriteRecord(a) /\ UNCHANGED <<todo, stop>>
  BY <1>3, WriteRecordStep
<1> QED
  BY <1>1, <1>2, <1>3 DEF Works

-----------------------------------------------------------------------------
(* The helper, the operator and the environment. *)

\* A step that leaves the journal alone and moves callers only outside.
LEMMA AroundStep ==
    ASSUME Inv, UNCHANGED <<receipts, pointer, dirs, started>>, TypeOK', HelperInv',
           \A b \in Actors :
              \/ call'[b] = call[b] /\ (lock' = b <=> lock = b)
              \/ /\ lock' # b
                 /\ call'[b].pc \in {"idle", "waiting", "archive", "failed"}
                 /\ call'[b].pc # "idle" =>
                      call'[b].id \in Txns /\ call'[b].action \in Actions
                 /\ call'[b].pc = "archive" => call'[b].action \in Accepts
    PROVE  Inv'
<1>1. ASSUME NEW b \in Actors PROVE CallInv(b)'
  <2>1. CASE call'[b] = call[b] /\ (lock' = b <=> lock = b)
    BY <2>1, QuietFrame DEF Inv
  <2>2. CASE ~(call'[b] = call[b] /\ (lock' = b <=> lock = b))
    <3>1. /\ lock' # b
          /\ call'[b].pc \in {"idle", "waiting", "archive", "failed"}
          /\ call'[b].pc # "idle" =>
               call'[b].id \in Txns /\ call'[b].action \in Actions
          /\ call'[b].pc = "archive" => call'[b].action \in Accepts
      BY <2>2
    <3> QED
      BY <3>1 DEF CallInv, Inside
  <2> QED
    BY <2>1, <2>2
<1>2. ReceiptInv' /\ Readable' /\ StartInv'
  BY DEF Inv, ReceiptInv, Readable, StartInv
<1> QED
  BY <1>1, <1>2 DEF Inv

\* A call begins outside the lock.
LEMMA CallsStep ==
    ASSUME Inv, NEW a \in Actors, NEW action \in Actions, NEW t \in Txns,
           Calls(a, action, t), UNCHANGED todo, a = "helper" => todo # <<>>
    PROVE  Inv'
<1>1. PICK q \in {"waiting", "archive", "failed"} :
        /\ call' = [call EXCEPT ![a] = [pc |-> q, action |-> action, id |-> t]]
        /\ q = "archive" => Finishes(action, t)
  BY DEF Calls
<1>2. UNCHANGED <<journal, disk, lock, worker, started, panel, record, archive, stop, bounds>>
      /\ call[a].pc = "idle"
  BY DEF Calls
<1>3. call \in [Actors -> [pc : Pcs, action : Actions \cup {"none"}, id : Txns \cup {None}]]
  BY DEF Inv, TypeOK
<1>4. q \in Pcs
  BY Pcs0
<1>5. call' \in [Actors -> [pc : Pcs, action : Actions \cup {"none"}, id : Txns \cup {None}]]
  BY <1>1, <1>3, <1>4
<1>6. TypeOK'
  BY <1>2, <1>5 DEF Inv, TypeOK, journal, bounds
<1>7. /\ call'[a].pc = q /\ call'[a].action = action /\ call'[a].id = t
      /\ \A b \in Actors \ {a} : call'[b] = call[b]
  BY <1>1, <1>3
<1>8. HelperInv'
  BY <1>2, <1>7 DEF Inv, HelperInv, Actors
<1>9. q = "archive" => action \in Accepts
  BY <1>1 DEF Finishes, Accepts
<1>10. lock # a
  BY <1>2 DEF Inv, CallInv, Inside
<1> QED
  BY <1>1, <1>2, <1>6, <1>7, <1>8, <1>9, <1>10, AroundStep DEF journal

\* The helper's plans are made of actions.
LEMMA Plans ==
    /\ Ordinary \in Seq(Actions) /\ Bootstrap \in Seq(Actions) /\ Rollback \in Seq(Actions)
    /\ <<"settle-stopped-rollback">> \in Seq(Actions) /\ <<>> \in Seq(Actions)
    /\ Ordinary # <<>> /\ Bootstrap # <<>>
<1>1. /\ "prepare" \in Actions /\ "stop-old-panel" \in Actions
      /\ "prepare-private-state" \in Actions /\ "quiesce-old-runtime" \in Actions
      /\ "seal" \in Actions /\ "install" \in Actions /\ "start-candidate-panel" \in Actions
      /\ "accept-live" \in Actions /\ "stop-candidate-panel" \in Actions
      /\ "restore" \in Actions /\ "restore-private-state" \in Actions
      /\ "start-rollback-panel" \in Actions /\ "accept-rollback" \in Actions
      /\ "settle-stopped-rollback" \in Actions
  BY DEF Actions, Commands, PreFiles, Starts
<1>2. Ordinary \in Seq(Actions) /\ Ordinary # <<>>
  BY <1>1 DEF Ordinary
<1>3. Bootstrap \in Seq(Actions) /\ Bootstrap # <<>>
  BY <1>1 DEF Bootstrap
<1>4. Rollback \in Seq(Actions)
  BY <1>1 DEF Rollback
<1> QED
  BY <1>1, <1>2, <1>3, <1>4

\* A new transaction.
LEMMA LaunchStep ==
    ASSUME Inv, NEW t \in Txns, LaunchHelper(t)
    PROVE  Inv'
<1>1. /\ record' = [id |-> t, state |-> "restarting"]
      /\ todo' \in {Ordinary, Bootstrap}
      /\ UNCHANGED <<receipts, pointer, dirs, disk, worker, started, panel, archive, stop,
                     faults, crashes, edits, lock, call>>
  BY DEF LaunchHelper, Untouched, journal, bounds
<1>2. todo' \in Seq(Actions) /\ todo' # <<>>
  BY <1>1, Plans
<1>3. TypeOK'
  BY <1>1, <1>2 DEF Inv, TypeOK
<1>4. HelperInv'
  BY <1>1, <1>2 DEF HelperInv
<1> QED
  BY <1>1, <1>3, <1>4, AroundStep

\* The next call of the helper, and what it does with a result.
LEMMA HelperStep ==
    ASSUME Inv, HelperCalls \/ HelperContinues
    PROVE  Inv'
<1>0. "helper" \in Actors /\ todo \in Seq(Actions)
  BY DEF Actors, Inv, TypeOK
<1>1. CASE HelperCalls
  <2>1. todo # <<>> /\ record.id \in Txns /\ Head(todo) \in Actions
    BY <1>0, <1>1 DEF HelperCalls, Inv, HelperInv
  <2> QED
    BY <1>0, <1>1, <2>1, CallsStep DEF HelperCalls
<1>2. CASE HelperContinues
  <2>1. /\ call["helper"].pc \in {"done", "failed"} /\ todo # <<>> /\ record.id \in Txns
        /\ lock # "helper"
    BY <1>0, <1>2 DEF HelperContinues, Inv, HelperInv, CallInv, Inside
  <2>2. /\ call' = [call EXCEPT !["helper"] = Idle]
        /\ todo' = After(call["helper"].action, record.id, call["helper"].pc)
        /\ record' \in {record, [record EXCEPT !.state = "requires-review"]}
        /\ UNCHANGED <<receipts, pointer, dirs, disk, worker, started, panel, archive, stop,
                       faults, crashes, edits, lock>>
    BY <1>2 DEF HelperContinues, Untouched, journal, bounds
  <2>3. Tail(todo) \in Seq(Actions)
    BY <1>0, <2>1
  <2>4. todo' \in Seq(Actions)
    BY <2>2, <2>3, Plans DEF After
  <2>5. call' \in [Actors -> [pc : Pcs, action : Actions \cup {"none"}, id : Txns \cup {None}]]
    BY <2>2, Pcs0 DEF Inv, TypeOK, Idle
  <2>6. call'["helper"].pc = "idle" /\ \A b \in Actors \ {"helper"} : call'[b] = call[b]
    BY <1>0, <2>2 DEF Inv, TypeOK, Idle
  <2>7. record' \in Records /\ record'.id = record.id
    BY <2>2 DEF Inv, TypeOK, Records, States
  <2>8. TypeOK'
    BY <2>2, <2>4, <2>5, <2>7 DEF Inv, TypeOK, Records, States
  <2>9. HelperInv'
    BY <2>1, <2>6, <2>7 DEF HelperInv
  <2> QED
    BY <2>1, <2>2, <2>6, <2>8, <2>9, AroundStep
<1> QED
  BY <1>1, <1>2

\* A call of the operator, and its end.
LEMMA OperatorStep ==
    ASSUME Inv, OperatorCalls \/ OperatorReturns
    PROVE  Inv'
<1>0. "operator" \in Actors
  BY DEF Actors
<1>1. CASE OperatorCalls
  <2>1. record.id \in Txns
    BY <1>1 DEF OperatorCalls, Inv, TypeOK
  <2>2. PICK action \in Actions : Calls("operator", action, record.id)
    BY <1>1 DEF OperatorCalls
  <2> QED
    BY <1>0, <1>1, <2>1, <2>2, CallsStep DEF OperatorCalls
<1>2. CASE OperatorReturns
  <2>1. call["operator"].pc \in {"done", "failed"} /\ lock # "operator"
    BY <1>0, <1>2 DEF OperatorReturns, Inv, CallInv, Inside
  <2>2. /\ call' = [call EXCEPT !["operator"] = Idle]
        /\ UNCHANGED <<receipts, pointer, dirs, disk, worker, started, panel, archive, stop,
                       faults, crashes, edits, lock, todo, record>>
    BY <1>2 DEF OperatorReturns, Untouched, journal, bounds
  <2>3. call' \in [Actors -> [pc : Pcs, action : Actions \cup {"none"}, id : Txns \cup {None}]]
    BY <2>2, Pcs0 DEF Inv, TypeOK, Idle
  <2>4. call'["operator"].pc = "idle" /\ \A b \in Actors \ {"operator"} : call'[b] = call[b]
    BY <1>0, <2>2 DEF Inv, TypeOK, Idle
  <2>5. TypeOK' /\ HelperInv'
    BY <2>2, <2>3, <2>4 DEF Inv, TypeOK, HelperInv, Actors
  <2> QED
    BY <2>1, <2>2, <2>4, <2>5, AroundStep
<1> QED
  BY <1>1, <1>2

\* A caller dies; the kernel drops its lock.
LEMMA CrashStep ==
    ASSUME Inv, NEW a \in Actors, Crash(a)
    PROVE  Inv'
<1>0. a # None /\ crashes \in Nat /\ MaxCrashes \in Nat
  BY AbsenceAssumption, BoundAssumption DEF Actors, Inv, TypeOK
<1>1. /\ crashes < MaxCrashes /\ crashes' = crashes + 1
      /\ call' = [call EXCEPT ![a] = Idle]
      /\ lock' = IF lock = a THEN None ELSE lock
      /\ todo' = IF a = "helper" THEN <<>> ELSE todo
      /\ UNCHANGED <<receipts, pointer, dirs, disk, worker, started, panel, record, archive,
                     stop, faults, edits>>
  BY DEF Crash, Died, journal
<1>2. call' \in [Actors -> [pc : Pcs, action : Actions \cup {"none"}, id : Txns \cup {None}]]
  BY <1>1, Pcs0 DEF Inv, TypeOK, Idle
<1>3. call'[a].pc = "idle" /\ \A b \in Actors \ {a} : call'[b] = call[b]
  BY <1>1 DEF Inv, TypeOK, Idle
<1>4. lock' # a /\ \A b \in Actors \ {a} : lock' = b <=> lock = b
  BY <1>0, <1>1, AbsenceAssumption DEF Actors
<1>5. todo' \in Seq(Actions) /\ lock' \in Actors \cup {None} /\ crashes' \in 0..MaxCrashes
  BY <1>0, <1>1, Plans DEF Inv, TypeOK
<1>6. TypeOK'
  BY <1>1, <1>2, <1>5 DEF Inv, TypeOK
<1>7. HelperInv'
  BY <1>1, <1>3 DEF Inv, HelperInv, Actors
<1> QED
  BY <1>1, <1>3, <1>4, <1>6, <1>7, AroundStep

\* The device restarts.
LEMMA RebootStep ==
    ASSUME Inv, Reboot
    PROVE  Inv'
<1>0. None \notin Actors /\ crashes \in Nat /\ MaxCrashes \in Nat
  BY AbsenceAssumption, BoundAssumption DEF Actors, Inv, TypeOK
<1>1. /\ crashes < MaxCrashes /\ crashes' = crashes + 1
      /\ call' = [a \in Actors |-> Idle]
      /\ lock' = None /\ todo' = <<>> /\ panel' = None
      /\ worker' \in {worker, "failed"}
      /\ UNCHANGED <<receipts, pointer, dirs, disk, started, record, archive, stop, faults,
                     edits>>
  BY DEF Reboot, journal
<1>2. call' \in [Actors -> [pc : Pcs, action : Actions \cup {"none"}, id : Txns \cup {None}]]
  BY <1>1, Pcs0 DEF Idle
<1>3. \A b \in Actors : call'[b].pc = "idle"
  BY <1>1 DEF Idle
<1>4. crashes' \in 0..MaxCrashes /\ todo' \in Seq(Actions)
  BY <1>0, <1>1, Plans
<1>5. TypeOK'
  BY <1>1, <1>2, <1>4 DEF Inv, TypeOK
<1>6. HelperInv'
  BY <1>1, <1>3 DEF HelperInv, Actors
<1> QED
  BY <1>0, <1>1, <1>3, <1>5, <1>6, AroundStep

\* A worker ends, a stop is requested, a panel starts or dies, a file is edited.
LEMMA EnvironmentStep ==
    ASSUME Inv, \/ WorkerEnds \/ RequestStop \/ BootPanel \/ PanelDies
                \/ \E f \in Files : Edit(f)
    PROVE  Inv'
<1>1. UNCHANGED <<receipts, pointer, dirs, lock, call, todo, started, record>>
  BY DEF WorkerEnds, RequestStop, BootPanel, PanelDies, Edit, journal
<1>2. CASE WorkerEnds
  <2>1. worker' \in {"ok", "failed"} /\ panel' \in [Files -> Contents] \cup {None}
    BY <1>2 DEF WorkerEnds, Inv, TypeOK
  <2> QED
    BY <1>1, <1>2, <2>1, AroundStep DEF WorkerEnds, Inv, TypeOK, HelperInv, bounds, journal
<1>3. CASE RequestStop
  BY <1>1, <1>3, AroundStep DEF RequestStop, Inv, TypeOK, HelperInv, bounds, journal
<1>4. CASE BootPanel \/ PanelDies
  BY <1>1, <1>4, AroundStep DEF BootPanel, PanelDies, Inv, TypeOK, HelperInv, bounds, journal
<1>5. CASE \E f \in Files : Edit(f)
  <2>1. disk' \in [Files -> Contents] /\ edits' \in [made : 0..MaxEdits, unseen : SUBSET Files]
    BY <1>5, BoundAssumption DEF Edit, Contents, Inv, TypeOK
  <2> QED
    BY <1>1, <1>5, <2>1, AroundStep DEF Edit, Inv, TypeOK, HelperInv, bounds, journal
<1> QED
  BY <1>2, <1>3, <1>4, <1>5

-----------------------------------------------------------------------------
(* Theorems. *)

\* The first state satisfies the invariant.
LEMMA InitInv == Init => Inv
<1> SUFFICES ASSUME Init PROVE Inv
  OBVIOUS
<1>1. TypeOK
  BY BoundAssumption, AbsenceAssumption DEF Init, TypeOK, BaseImage, Contents, Idle, Pcs, Inside
<1>2. \A a \in Actors : CallInv(a)
  BY AbsenceAssumption DEF Init, CallInv, Idle, Inside, Actors
<1>3. ReceiptInv /\ Readable /\ StartInv /\ HelperInv
  BY DEF Init, ReceiptInv, Readable, StartInv, HelperInv, Idle, Actors
<1> QED
  BY <1>1, <1>2, <1>3 DEF Inv

\* Nothing happens in a stuttering step.
LEMMA StutterStep ==
    ASSUME Inv, UNCHANGED vars
    PROVE  Inv'
<1>1. UNCHANGED <<receipts, pointer, dirs, disk, lock, call, todo, worker, started, panel,
                  record, archive, stop, faults, crashes, edits>>
  BY DEF vars, journal, bounds
<1>2. TypeOK' /\ HelperInv'
  BY <1>1 DEF Inv, TypeOK, HelperInv
<1> QED
  BY <1>1, <1>2, AroundStep

\* The invariant holds in every reachable state, whatever crashes or fails: the
\* receipt a caller replaces is the one it read, because it holds the writer lock
\* (openWriter, lock.go:14).
THEOREM Invariance == Spec => []Inv
<1>1. Inv /\ [Next]_vars => Inv'
  BY LaunchStep, HelperStep, OperatorStep, WorksStep, CrashStep, RebootStep, EnvironmentStep,
     StutterStep DEF Next
<1> QED
  BY <1>1, InitInv, PTL DEF Spec

\* Every variable keeps its type.
THEOREM TypeCorrectness == Spec => []TypeOK
<1>1. Inv => TypeOK
  BY DEF Inv
<1> QED
  BY <1>1, Invariance, PTL

\* The installer effect of a command is begun at most once, for every number of
\* crashes, retries and concurrent reviews (Execute, journal.go:893).
THEOREM CommandsRunOnce == Spec => []CommandRunsAtMostOnce
<1>1. Inv => CommandRunsAtMostOnce
  BY DEF Inv, StartInv, CommandRunsAtMostOnce
<1> QED
  BY <1>1, Invariance, PTL

\* No crash and no failed write leaves a journal its reader refuses (Current,
\* journal.go:286).
THEOREM CurrentStaysReadable == Spec => []CurrentIsReadable
<1>1. Inv => CurrentIsReadable
  BY DEF Inv, CurrentIsReadable
<1> QED
  BY <1>1, Invariance, PTL

\* A write of a caller replaces no settled receipt.
LEMMA WriteKeepsSettled ==
    ASSUME Inv, NEW a \in Actors, NEW r, NEW pc, WriteReceipt(a, r, pc),
           receipts[call[a].id] = None \/ ~Settled(receipts[call[a].id]),
           NEW t \in Txns, receipts[t] # None, Settled(receipts[t])
    PROVE  receipts'[t] = receipts[t]
BY DEF WriteReceipt, Inv, TypeOK

\* A step of an operation keeps what is settled.
LEMMA OperationKeepsSettled ==
    ASSUME Inv, NEW a \in Actors, Operation(a),
           NEW t \in Txns, receipts[t] # None, Settled(receipts[t])
    PROVE  \/ receipts'[t] = receipts[t]
           \/ receipts[t].phase = "accepted" /\ receipts'[t].phase = "archived"
<1> DEFINE u == call[a].id
           r == receipts[u]
           back == call[a].action = "restore"
<1>1. CASE GiveUp(a)
  BY <1>1 DEF GiveUp, journal
<1>2. CASE Prepare(a) /\ ~GiveUp(a)
  <2>1. \/ receipts' = receipts
        \/ /\ call[a].pc = "receipt"
           /\ WriteReceipt(a, Prepared(disk), "pointer")
    BY <1>2 DEF Prepare, At
  <2>2. call[a].pc = "receipt" => r = None
    BY DEF Inv, CallInv
  <2> QED
    BY <2>1, <2>2, WriteKeepsSettled
<1>3. CASE Replace(a) /\ ~GiveUp(a)
  <2>1. \/ receipts' = receipts
        \/ \E s \in {r} : WriteReceipt(a, Afresh(r, back), "file") /\ MayReplace(u, back)
        \/ /\ call[a].pc \in {"file", "checkpoint"}
           /\ \/ WriteReceipt(a, [r EXCEPT !.index = @ + 1], "file")
              \/ WriteReceipt(a, [r EXCEPT !.phase = Gone(back)], "done")
    BY <1>3 DEF Replace, BeginReplace, CompareFile, RenameFile, Checkpoint, FinishReplace,
       journal, At
  <2>2. MayReplace(u, back) => ~Settled(r)
    BY DEF MayReplace
  <2>3. call[a].pc \in {"file", "checkpoint"} => ~Settled(r)
    BY DEF Inv, CallInv, Going, Settled
  <2> QED
    BY <2>1, <2>2, <2>3, WriteKeepsSettled
<1>4. CASE Execute(a) /\ ~GiveUp(a)
  <2>1. \/ receipts' = receipts
        \/ \E c \in Commands : MayExecute(u, c) /\ WriteReceipt(a, Intended(r, c), "run")
        \/ /\ call[a].pc = "running"
           /\ \E pc \in {"done", "failed"} : WriteReceipt(a, finishCommand(r), pc)
    BY <1>4 DEF Execute, BeginCommand, RunCommand, EndCommand, journal, At, Enters
  <2>2. \A c \in Commands : MayExecute(u, c) => ~Settled(r)
    BY DEF MayExecute, Settled
  <2>3. call[a].pc = "running" => ~Settled(r)
    BY DEF Inv, CallInv, Settled
  <2> QED
    BY <2>1, <2>2, <2>3, WriteKeepsSettled
<1>5. CASE ResolveUnknown(a) /\ ~GiveUp(a)
  <2>1. r.phase = "command-started" /\ WriteReceipt(a, finishCommand(r), "done")
    BY <1>5 DEF ResolveUnknown
  <2>2. ~Settled(r)
    BY <2>1 DEF Settled
  <2> QED
    BY <2>1, <2>2, WriteKeepsSettled
<1>6. CASE Accept(a) /\ ~GiveUp(a)
  <2>1. \/ receipts' = receipts
        \/ /\ call[a].pc = "write"
           /\ \E s : WriteReceipt(a, s, "archive")
    BY <1>6 DEF Accept, At, journal
  <2>2. call[a].pc = "write" => ~Settled(r)
    BY DEF Inv, CallInv, Gone, Settled
  <2> QED
    BY <2>1, <2>2, WriteKeepsSettled
<1>7. CASE SettleStoppedRollback(a) /\ ~GiveUp(a)
  <2>1. \/ receipts' = receipts
        \/ /\ r.phase \in {"restored", "command-finished"}
           /\ \E s : WriteReceipt(a, s, "pointer")
    BY <1>7 DEF SettleStoppedRollback, MaySettle, journal
  <2>2. r.phase \in {"restored", "command-finished"} => ~Settled(r)
    BY DEF Settled
  <2> QED
    BY <2>1, <2>2, WriteKeepsSettled
<1>8. CASE SealPairedPriorState(a) /\ ~GiveUp(a)
  <2>1. \/ receipts' = receipts
        \/ r.phase = "prepared" /\ \E s : WriteReceipt(a, s, "pointer")
    BY <1>8 DEF SealPairedPriorState, MaySeal
  <2>2. r.phase = "prepared" => ~Settled(r)
    BY DEF Settled
  <2> QED
    BY <2>1, <2>2, WriteKeepsSettled
<1>9. CASE RetirePairedPriorState(a) /\ ~GiveUp(a)
  <2>1. /\ r.phase = "accepted" /\ IsCurrent(u)
        /\ WriteReceipt(a, [r EXCEPT !.phase = "archived"], "done")
    BY <1>9 DEF RetirePairedPriorState
  <2>2. u \in Txns
    BY <2>1 DEF IsCurrent, Inv, TypeOK, Pointers
  <2>3. r \in Receipts
    BY <2>1, <2>2, CurrentReceipt
  <2>4. [r EXCEPT !.phase = "archived"].phase = "archived"
    BY <2>3 DEF Receipts
  <2> QED
    BY <2>1, <2>2, <2>4 DEF WriteReceipt, Inv, TypeOK
<1> QED
  BY <1>1, <1>2, <1>3, <1>4, <1>5, <1>6, <1>7, <1>8, <1>9 DEF Operation, Busy

\* A transaction is settled once, whoever races whom: a settled receipt is only
\* ever archived (Accept, Replace and Execute re-read it under the lock).
THEOREM SettledStaysFinal == Spec => SettledIsFinal
<1> DEFINE Final == \A t \in Txns : (receipts[t] # None /\ Settled(receipts[t])) =>
                      \/ receipts'[t] = receipts[t]
                      \/ receipts[t].phase = "accepted" /\ receipts'[t].phase = "archived"
<1>1. Inv /\ [Next]_vars => Final
  <2> SUFFICES ASSUME Inv, [Next]_vars, NEW t \in Txns, receipts[t] # None,
                      Settled(receipts[t])
               PROVE  \/ receipts'[t] = receipts[t]
                      \/ receipts[t].phase = "accepted" /\ receipts'[t].phase = "archived"
    OBVIOUS
  <2>1. CASE \E a \in Actors : Works(a)
    BY <2>1, OperationKeepsSettled DEF Works, WriteArchive, WriteRecord, journal
  <2>2. CASE ~\E a \in Actors : Works(a)
    BY <2>2 DEF Next, LaunchHelper, HelperCalls, HelperContinues, OperatorCalls, OperatorReturns,
       Calls, Untouched, Crash, WorkerEnds, RequestStop, Reboot, BootPanel, PanelDies, Edit,
       vars, journal
  <2> QED
    BY <2>1, <2>2
<1>2. Inv /\ [Next]_vars => [Final]_vars
  BY <1>1
<1> QED
  BY <1>2, Invariance, PTL DEF SettledIsFinal, Spec

\* Under a durable stop files only return to their old images and no panel is
\* started, because every effect asks for its authority again at its own step
\* (selfUpdateActionAuthority, self_update_files.go:437).
THEOREM StopHolds == Spec => StopFreezesTheUpdate
<1> DEFINE Frozen == stop # None =>
                       /\ \A f \in Files : disk'[f] # disk[f] =>
                            disk'[f] = Foreign \/ disk'[f] = receipts[stop].old[f]
                       /\ worker' \in Starts => worker' = worker
<1>1. Inv /\ [Next]_vars => Frozen
  <2> SUFFICES ASSUME Inv, [Next]_vars, stop # None
               PROVE  /\ \A f \in Files : disk'[f] # disk[f] =>
                           disk'[f] = Foreign \/ disk'[f] = receipts[stop].old[f]
                      /\ worker' \in Starts => worker' = worker
    OBVIOUS
  <2>0. disk \in [Files -> Contents]
    BY DEF Inv, TypeOK
  <2>1. ASSUME NEW a \in Actors, RenameFile(a), ~GiveUp(a)
        PROVE  /\ worker' = worker
               /\ \A f \in Files : disk'[f] # disk[f] => disk'[f] = receipts[stop].old[f]
    <3> DEFINE t == call[a].id
    <3>1. call[a].action \in {"install", "restore"}
      BY <2>1 DEF RenameFile, At, Inv, CallInv
    <3>2. Checks(a)
      BY <2>1 DEF RenameFile
    <3>3. stop = t /\ Compensates(call[a].action)
      BY <3>2 DEF Checks, Authorized
    <3>4. call[a].action = "restore"
      BY <3>1, <3>3 DEF Compensates, Stops
    <3>5. \A f : Image(t, receipts[t], TRUE, f) = receipts[t].old[f]
      BY DEF Image
    <3>6. PICK back \in BOOLEAN : back = (call[a].action = "restore")
      OBVIOUS
    <3>7. \/ disk' = disk
          \/ disk' = [disk EXCEPT ![receipts[t].index + 1] =
                        Image(t, receipts[t], TRUE, receipts[t].index + 1)]
      BY <2>1, <3>4 DEF RenameFile, Image, GiveUp
    <3>8. worker' = worker
      BY <2>1 DEF RenameFile
    <3> QED
      BY <2>0, <3>3, <3>5, <3>7, <3>8
  <2>2. ASSUME NEW a \in Actors, Operation(a), ~RenameFile(a) \/ GiveUp(a)
        PROVE  disk' = disk /\ (worker' \in Starts => worker' = worker)
    <3>1. CASE GiveUp(a)
      BY <3>1 DEF GiveUp
    <3>2. CASE RunCommand(a) /\ ~GiveUp(a)
      <4>1. /\ Compensates(call[a].action) /\ worker' \in {call[a].action, "failed"}
            /\ disk' = disk
        BY <3>2 DEF RunCommand, Authorized
      <4>2. Starts \cap (Stops \cup {"failed", "quiesce-old-runtime", "restore",
                                     "restore-private-state", "settle-stopped-rollback",
                                     "resolve-unknown"}) = {}
        BY DEF Starts, Stops
      <4> QED
        BY <4>1, <4>2 DEF Compensates
    <3>3. CASE ~RunCommand(a) /\ ~GiveUp(a)
      BY <2>2, <3>3 DEF Operation, Busy, Prepare, Replace, BeginReplace, CompareFile, Checkpoint,
         FinishReplace, Execute, BeginCommand, EndCommand, ResolveUnknown, Accept,
         SettleStoppedRollback, SealPairedPriorState, RetirePairedPriorState
    <3> QED
      BY <3>1, <3>2, <3>3
  <2>3. CASE \E a \in Actors : Works(a)
    BY <2>1, <2>2, <2>3 DEF Works, WriteArchive, WriteRecord
  <2>4. CASE \E f \in Files : Edit(f)
    BY <2>0, <2>4 DEF Edit
  <2>5. CASE ~(\E a \in Actors : Works(a)) /\ ~(\E f \in Files : Edit(f))
    <3>1. \A c \in Starts : c # "ok" /\ c # "failed"
      BY DEF Starts
    <3> QED
      BY <2>5, <3>1 DEF Next, LaunchHelper, HelperCalls, HelperContinues, OperatorCalls,
         OperatorReturns, Calls, Untouched, Crash, WorkerEnds, RequestStop, Reboot, BootPanel,
         PanelDies, vars, journal
  <2> QED
    BY <2>3, <2>4, <2>5
<1>2. Inv /\ [Next]_vars => [Frozen]_vars
  BY <1>1
<1> QED
  BY <1>2, Invariance, PTL DEF StopFreezesTheUpdate, Spec

=============================================================================
