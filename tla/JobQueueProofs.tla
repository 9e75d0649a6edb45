--------------------------- MODULE JobQueueProofs ---------------------------
(***************************************************************************)
(* Proofs about JobQueue, for any number of jobs, keys, clients, failed    *)
(* writes, restarts and edits: a job runs under a record, a key names one  *)
(* job, an end is final, nothing is done twice.                             *)
(***************************************************************************)
EXTENDS JobQueue, TLAPS

-----------------------------------------------------------------------------
(* The inductive invariant.                                                 *)

\* No job has an identifier yet to be drawn.
BornInv ==
    /\ \A i \in Ids : mem[i] # None \/ file[i] # None => i <= born
    /\ \A k \in Keys : acked[k] # None => acked[k] <= born
    /\ \A i \in Ids : commits[i] # 0 \/ applies[i] # 0 => i <= born

\* The job that runs is one, in memory and on disk, and its attempt is counted.
WorkerInv ==
    worker # NoWorker =>
        /\ worker.id \in Ids /\ worker.pc # "idle"
        /\ mem[worker.id].attempts >= 1
        /\ worker.pc \in {"start", "work"} => worker.result = "none"

Shape == TypeOK /\ BornInv /\ WorkerInv /\ RunningJobHasWorker


-----------------------------------------------------------------------------
(* Lemmas about jobs and writes.                                            *)

States == Waiting \cup Begun \cup Terminal
JobMaps == [Ids -> Jobs \cup {None}]

LEMMA JobFields ==
    ASSUME NEW j \in Jobs
    PROVE  /\ j # None
           /\ j.keys \subseteq Keys /\ j.kind \in Kinds /\ j.rev \in Nat
           /\ j.state \in States /\ j.attempts \in 0..MaxAttempts /\ j.cancel \in BOOLEAN
BY NoneAssumption DEF Jobs, States

\* A state, a count, a mark or a key of a job is replaced.
LEMMA JobStateEdits ==
    ASSUME NEW j \in Jobs, NEW s \in States
    PROVE  /\ [j EXCEPT !.state = s] \in Jobs
           /\ [j EXCEPT !.cancel = TRUE, !.state = s] \in Jobs
BY DEF Jobs, States

LEMMA JobCountEdits ==
    ASSUME NEW j \in Jobs, NEW s \in States, NEW n \in 0..MaxAttempts
    PROVE  [j EXCEPT !.state = s, !.attempts = n] \in Jobs
BY DEF Jobs, States

\* What a write leaves on disk.
LEMMA DiskEffect ==
    ASSUME NEW jobs, NEW o, Disk(jobs, o), TypeOK
    PROVE  /\ file' = IF o \in {"ok", "late"} THEN jobs ELSE file
           /\ stale' \in BOOLEAN /\ stale' = (stale \/ o = "late")
           /\ faults' \in 0..MaxFaults
           /\ o \in {"ok", "late"} => ~stale
BY BoundAssumption DEF Disk, TypeOK

LEMMA WriteEffect ==
    ASSUME NEW jobs, NEW o \in Writes \cup Aborted, Write(jobs, o), TypeOK
    PROVE  /\ file' = IF o \in {"ok", "late"} THEN jobs ELSE file
           /\ stale' \in BOOLEAN /\ stale' = (stale \/ o = "late")
           /\ faults' \in 0..MaxFaults
           /\ o \in {"ok", "late"} => ~stale
           /\ fence' \in {"open", "retry", "closed"}
           /\ fence = "closed" => fence' = "closed"
           /\ o \in {"ok", "aborted"} => fence' = fence
           /\ o \in {"lost", "late", "conflict"} => fence' = "closed"
           /\ o \notin {"ok", "aborted"} => fence' # "open"
BY DiskEffect DEF Write, Fence, Writes, Aborted, TypeOK

-----------------------------------------------------------------------------
(* Types, identifiers and the job that runs.                                *)

LEMMA ShapeInit == Init => Shape
<1> SUFFICES ASSUME Init PROVE Shape
  OBVIOUS
<1>1. \A i \in Ids : mem[i] = None /\ file[i] = None /\ commits[i] = 0 /\ applies[i] = 0
  BY DEF Init, Empty
<1>2. TypeOK
  <2>1. /\ file \in [Ids -> Jobs \cup {None}] /\ mem \in [Ids -> Jobs \cup {None}]
        /\ ask \in [Clients -> Requested \cup {None}] /\ acked \in [Keys -> Ids \cup {None}]
        /\ applies \in [Ids -> Nat] /\ commits \in [Ids -> Nat]
    BY DEF Init, Empty
  <2>2. worker \in [id : 0..MaxId, pc : {"idle", "start", "work", "ended"}, canceled : BOOLEAN,
          result : {"none", "busy", "error", "code", "ok", "more", "network", "canceled"}]
    BY BoundAssumption DEF Init, NoWorker
  <2>3. /\ stale \in BOOLEAN /\ manual \in BOOLEAN /\ closing \in BOOLEAN
        /\ stopped \in BOOLEAN /\ fenced \in BOOLEAN
    BY DEF Init
  <2>4. /\ fence \in {"open", "retry", "closed"}
        /\ preempt \subseteq Ids /\ delayed \subseteq Ids /\ aged \subseteq Ids
        /\ rev \in Nat /\ born \in 0..MaxId /\ cancels \subseteq Ids
        /\ faults \in 0..MaxFaults /\ restarts \in 0..MaxRestarts /\ edits \in 0..MaxEdits
    BY BoundAssumption DEF Init
  <2> QED BY <2>1, <2>2, <2>3, <2>4 DEF TypeOK
<1>3. BornInv
  BY <1>1 DEF Init, BornInv
<1>4. WorkerInv /\ RunningJobHasWorker
  BY <1>1 DEF Init, WorkerInv, RunningJobHasWorker, In
<1> QED BY <1>2, <1>3, <1>4 DEF Shape

\* A change of the jobs beside the one that runs, or of a mark of it.
LEMMA BesideWorker ==
    ASSUME Shape, NEW jobs \in JobMaps, mem' \in {mem, jobs}, file' \in {file, jobs},
           \A x \in Ids : In(jobs, x, Begun) => In(mem, x, Begun),
           \A x \in Ids : In(mem, x, Begun) =>
               In(jobs, x, Begun) /\ jobs[x].attempts = mem[x].attempts,
           worker' \in {worker, Interrupted},
           fence = "closed" => fence' = "closed", closing' = closing
    PROVE  WorkerInv' /\ RunningJobHasWorker'
<1>1. /\ worker'.id = worker.id /\ worker'.pc = worker.pc /\ worker'.result = worker.result
      /\ worker' = NoWorker <=> worker = NoWorker
  BY DEF Interrupted, Shape, TypeOK, NoWorker
<1>2. CASE worker = NoWorker
  <2>1. worker'.id = 0 /\ worker' = NoWorker
    BY <1>1, <1>2 DEF NoWorker
  <2>2. \A x \in Ids : In(mem, x, Begun)' => In(mem, x, Begun)
    BY DEF In
  <2> QED BY <2>1, <2>2, <1>2 DEF WorkerInv, RunningJobHasWorker, Shape, NoWorker
<1>3. CASE worker # NoWorker
  <2>1. /\ worker.id \in Ids /\ In(mem, worker.id, Begun) /\ In(file, worker.id, Begun)
        /\ file[worker.id].attempts = mem[worker.id].attempts
    BY <1>3 DEF Shape, WorkerInv, RunningJobHasWorker
  <2>2. /\ In(jobs, worker.id, Begun) /\ jobs[worker.id].attempts = mem[worker.id].attempts
    BY <2>1
  <2>3. /\ In(mem, worker.id, Begun)' /\ In(file, worker.id, Begun)'
        /\ mem'[worker.id].attempts = mem[worker.id].attempts
        /\ file'[worker.id].attempts = mem[worker.id].attempts
    BY <1>1, <2>1, <2>2 DEF In
  <2>4. \A x \in Ids : In(mem, x, Begun)' => In(mem, x, Begun)
    BY DEF In
  <2>5. WorkerInv'
    BY <1>1, <1>3, <2>1, <2>3 DEF Shape, WorkerInv
  <2> QED BY <1>1, <1>3, <2>1, <2>3, <2>4, <2>5 DEF Shape, RunningJobHasWorker
<1> QED BY <1>2, <1>3

LEMMA KnownKeyShape ==
    ASSUME Shape, NEW c \in Clients, NEW k \in Keys, NEW q \in Requests,
           Ask(c, k, q), KnownKey(k, q)
    PROVE  Shape'
<1>1. PICK i \in Ids : mem[i] # None /\ acked' = [acked EXCEPT ![k] = i]
  BY DEF KnownKey, Holders
<1>2. UNCHANGED <<doc, mem, preempt, born, manual, ask, aged, rest>>
  BY DEF KnownKey, Ask
<1>3. TypeOK'
  BY <1>1, <1>2 DEF rest, doc, world, history, Shape, TypeOK
<1>4. BornInv'
  BY <1>1, <1>2 DEF rest, doc, world, history, Shape, BornInv, TypeOK
<1>5. WorkerInv' /\ RunningJobHasWorker'
  BY <1>2 DEF rest, doc, world, history, Shape, WorkerInv, RunningJobHasWorker, In
<1> QED BY <1>3, <1>4, <1>5 DEF Shape

LEMMA NewAliasShape ==
    ASSUME Shape, NEW k \in Keys, NEW q, NewAlias(k, q), UNCHANGED rest, UNCHANGED aged,
           ask' \in [Clients -> Requested \cup {None}]
    PROVE  Shape'
<1>1. PICK i \in Twins(q), o \in Writes \cup Aborted :
        LET jobs == [mem EXCEPT ![i].keys = @ \cup {k}] IN
        /\ Write(jobs, o)
        /\ mem' = IF Saved(o) THEN jobs ELSE mem
        /\ acked' = IF Saved(o) THEN [acked EXCEPT ![k] = i] ELSE acked
  BY DEF NewAlias
<1> DEFINE jobs == [mem EXCEPT ![i].keys = @ \cup {k}]
<1>2. i \in Ids /\ mem[i] \in Jobs /\ mem[i] # None
  BY DEF Twins, In, Shape, TypeOK
<1>3. jobs \in JobMaps
  <2>1. [mem[i] EXCEPT !.keys = @ \cup {k}] \in Jobs
    BY <1>2 DEF Jobs
  <2> QED BY <2>1, <1>2 DEF JobMaps, Shape, TypeOK
<1>4. \A x \in Ids : /\ jobs[x] # None <=> mem[x] # None
                     /\ x # i => jobs[x] = mem[x]
                     /\ mem[x] # None => /\ jobs[x].state = mem[x].state
                                         /\ jobs[x].attempts = mem[x].attempts
  BY <1>2, JobFields DEF Shape, TypeOK, Jobs
<1>5. TypeOK
  BY DEF Shape
<1>6. /\ file' = IF o \in {"ok", "late"} THEN jobs ELSE file
      /\ stale' \in BOOLEAN /\ faults' \in 0..MaxFaults
      /\ fence' \in {"open", "retry", "closed"}
      /\ fence = "closed" => fence' = "closed"
  BY <1>1, <1>5, WriteEffect
<1>7. TypeOK'
  BY <1>1, <1>2, <1>3, <1>5, <1>6
     DEF NewAlias, rest, world, history, TypeOK, JobMaps
<1>8. BornInv'
  BY <1>1, <1>2, <1>4, <1>6
     DEF NewAlias, rest, world, history, Shape, BornInv, TypeOK
<1>9. WorkerInv' /\ RunningJobHasWorker'
  <2>1. \A x \in Ids : In(jobs, x, Begun) <=> In(mem, x, Begun)
    BY <1>4 DEF In
  <2>2. \A x \in Ids : In(mem, x, Begun) => jobs[x].attempts = mem[x].attempts
    BY <1>4 DEF In
  <2> HIDE DEF jobs
  <2> QED BY <1>1, <1>3, <1>6, <2>1, <2>2, BesideWorker DEF rest, jobs
<1> QED BY <1>7, <1>8, <1>9 DEF Shape


\* The worker goes on, and the jobs stay as they are.
LEMMA WorkerGoesOn ==
    ASSUME Shape, UNCHANGED <<mem, file>>, fence = "closed" => fence' = "closed",
           closing' \in {closing, TRUE},
           \/ worker' = worker
           \/ /\ worker # NoWorker /\ worker' # NoWorker
              /\ worker'.id = worker.id /\ worker'.pc # "idle"
              /\ worker'.pc \in {"start", "work"} => worker'.result = "none"
    PROVE  WorkerInv' /\ RunningJobHasWorker'
<1>1. worker'.id = worker.id
  OBVIOUS
<1>2. WorkerInv'
  BY DEF Shape, WorkerInv
<1>3. RunningJobHasWorker'
  BY <1>1 DEF Shape, RunningJobHasWorker, In
<1> QED BY <1>2, <1>3

LEMMA InterruptedIsWorker ==
    ASSUME Shape
    PROVE  /\ Interrupted = worker
              \/ /\ worker # NoWorker /\ Interrupted # NoWorker
                 /\ Interrupted.id = worker.id /\ Interrupted.pc = worker.pc
                 /\ Interrupted.result = worker.result
           /\ Interrupted \in [id : 0..MaxId, pc : {"idle", "start", "work", "ended"},
                canceled : BOOLEAN,
                result : {"none", "busy", "error", "code", "ok", "more", "network", "canceled"}]
<1>1. CASE worker = NoWorker
  BY <1>1 DEF Interrupted, Shape, TypeOK
<1>2. CASE worker # NoWorker
  <2>1. Interrupted = [worker EXCEPT !.canceled = TRUE]
    BY <1>2 DEF Interrupted
  <2>2. worker.pc # "idle"
    BY <1>2 DEF Shape, WorkerInv
  <2> QED BY <1>2, <2>1, <2>2 DEF Shape, TypeOK, NoWorker
<1> QED BY <1>1, <1>2

LEMMA RequestsOK ==
    ASSUME TypeOK, NEW q \in Requests
    PROVE  q \in [kind : Kinds, rev : Nat]
<1>1. CASE q \in [kind : Kinds, rev : {rev}]
  BY <1>1 DEF TypeOK
<1>2. CASE \E i \in Ids : mem[i] # None /\ q = [kind |-> mem[i].kind, rev |-> mem[i].rev]
  <2>1. PICK i \in Ids : mem[i] # None /\ q = [kind |-> mem[i].kind, rev |-> mem[i].rev]
    BY <1>2
  <2>2. mem[i] \in Jobs
    BY <2>1 DEF TypeOK
  <2> QED BY <2>1, <2>2, JobFields
<1> QED BY <1>1, <1>2 DEF Requests

LEMMA AskShape ==
    ASSUME Shape, NEW c \in Clients, NEW k \in Keys, NEW q \in Requests, Ask(c, k, q)
    PROVE  Shape'
<1>1. CASE KnownKey(k, q)
  BY <1>1, KnownKeyShape
<1>2. CASE NewAlias(k, q)
  <2>1. ask' \in [Clients -> Requested \cup {None}] /\ UNCHANGED rest /\ UNCHANGED aged
    BY DEF Ask, Shape, TypeOK
  <2> QED BY <1>2, <2>1, NewAliasShape
<1> QED BY <1>1, <1>2 DEF Ask, Lookup

LEMMA InsertFoundShape ==
    ASSUME Shape, NEW c \in Clients, InsertFound(c)
    PROVE  Shape'
<1>1. /\ ask[c] \in Requested /\ ask' = [ask EXCEPT ![c] = None]
      /\ UNCHANGED rest /\ UNCHANGED aged
      /\ Lookup(ask[c].key, ask[c])
  BY DEF InsertFound, Shape, TypeOK
<1> DEFINE k == ask[c].key
           q == ask[c]
<1>2. k \in Keys /\ ask' \in [Clients -> Requested \cup {None}]
  BY <1>1 DEF Requested, Shape, TypeOK
<1>3. CASE NewAlias(k, q)
  BY <1>1, <1>2, <1>3, NewAliasShape
<1>4. CASE KnownKey(k, q)
  <2>1. PICK i \in Ids : mem[i] # None /\ acked' = [acked EXCEPT ![k] = i]
    BY <1>4 DEF KnownKey, Holders
  <2>2. UNCHANGED <<doc, mem, preempt, born, manual, aged, rest>>
    BY <1>1, <1>4 DEF KnownKey
  <2>3. TypeOK'
    BY <1>2, <2>1, <2>2 DEF rest, doc, world, history, Shape, TypeOK
  <2>4. BornInv'
    BY <1>2, <2>1, <2>2 DEF rest, doc, world, history, Shape, BornInv, TypeOK
  <2>5. WorkerInv' /\ RunningJobHasWorker'
    BY <2>2, WorkerGoesOn DEF rest, doc
  <2> QED BY <2>3, <2>4, <2>5 DEF Shape
<1> QED BY <1>1, <1>3, <1>4 DEF Lookup

LEMMA PrepareShape ==
    ASSUME Shape, NEW c \in Clients, NEW k \in Keys, NEW q \in Requests, Prepare(c, k, q)
    PROVE  Shape'
<1>1. [key |-> k, kind |-> q.kind, rev |-> q.rev] \in Requested
  BY RequestsOK DEF Requested, Shape
<1>2. TypeOK'
  BY <1>1 DEF Prepare, rest, doc, world, history, Shape, TypeOK
<1>3. BornInv'
  BY DEF Prepare, rest, doc, history, Shape, BornInv
<1>4. WorkerInv' /\ RunningJobHasWorker'
  BY WorkerGoesOn DEF Prepare, rest, doc
<1> QED BY <1>2, <1>3, <1>4 DEF Shape

LEMMA WithdrawShape ==
    ASSUME Shape, NEW c \in Clients, Withdraw(c)
    PROVE  Shape'
<1>2. TypeOK'
  BY DEF Withdraw, rest, doc, world, history, Shape, TypeOK
<1>3. BornInv'
  BY DEF Withdraw, rest, doc, history, Shape, BornInv
<1>4. WorkerInv' /\ RunningJobHasWorker'
  BY WorkerGoesOn DEF Withdraw, rest, doc
<1> QED BY <1>2, <1>3, <1>4 DEF Shape

\* The process, time and the operator: no job changes.
AroundJobs ==
    \/ Interrupt \/ ManualEnds \/ Edit \/ Shutdown
    \/ \E i \in Ids : Preempt(i) \/ Ripen(i) \/ Age(i)

LEMMA AroundJobsKeeps ==
    ASSUME AroundJobs
    PROVE  /\ UNCHANGED <<file, mem, fence, stale, ask, born, acked, applies, commits>>
           /\ worker' \in {worker, Interrupted}
           /\ closing' \in {closing, TRUE}
<1>1. CASE Interrupt \/ ManualEnds \/ Edit \/ Shutdown
  BY <1>1 DEF Interrupt, ManualEnds, Edit, Shutdown, doc, requests, history
<1>2. CASE \E i \in Ids : Preempt(i) \/ Ripen(i) \/ Age(i)
  BY <1>2 DEF Preempt, Ripen, Age, doc, requests, history
<1> QED BY <1>1, <1>2 DEF AroundJobs

LEMMA AroundJobsShape ==
    ASSUME Shape, AroundJobs
    PROVE  Shape'
<1>1. /\ UNCHANGED <<file, mem, fence, stale, ask, born, acked, applies, commits>>
      /\ worker' \in {worker, Interrupted}
      /\ closing' \in {closing, TRUE}
  BY AroundJobsKeeps
<1>2. worker' \in [id : 0..MaxId, pc : {"idle", "start", "work", "ended"}, canceled : BOOLEAN,
          result : {"none", "busy", "error", "code", "ok", "more", "network", "canceled"}]
  BY <1>1, InterruptedIsWorker DEF Shape, TypeOK
<1>3. /\ faults' \in 0..MaxFaults /\ restarts' \in 0..MaxRestarts /\ edits' \in 0..MaxEdits
      /\ rev' \in Nat /\ preempt' \subseteq Ids /\ delayed' \subseteq Ids /\ aged' \subseteq Ids
      /\ cancels' \subseteq Ids
  <2>1. CASE Interrupt \/ ManualEnds \/ Edit \/ Shutdown
    <3>1. CASE Interrupt
      BY <3>1 DEF Interrupt, doc, requests, world, history, Shape, TypeOK
    <3>2. CASE ManualEnds
      BY <3>2 DEF ManualEnds, doc, requests, world, history, Shape, TypeOK
    <3>3. CASE Edit
      BY <3>3, BoundAssumption DEF Edit, doc, requests, history, Shape, TypeOK
    <3>4. CASE Shutdown
      BY <3>4 DEF Shutdown, doc, requests, world, history, Shape, TypeOK
    <3> QED BY <2>1, <3>1, <3>2, <3>3, <3>4
  <2>2. CASE \E i \in Ids : Preempt(i) \/ Ripen(i) \/ Age(i)
    BY <2>2 DEF Preempt, Ripen, Age, doc, requests, world, history, Shape, TypeOK
  <2> QED BY <2>1, <2>2 DEF AroundJobs
<1>4. manual' \in BOOLEAN /\ closing' \in BOOLEAN /\ stopped' \in BOOLEAN /\ fenced' \in BOOLEAN
  <2>1. CASE Interrupt \/ ManualEnds \/ Edit \/ Shutdown
    BY <2>1 DEF Interrupt, ManualEnds, Edit, Shutdown, world, Shape, TypeOK
  <2>2. CASE \E i \in Ids : Preempt(i) \/ Ripen(i) \/ Age(i)
    BY <2>2 DEF Preempt, Ripen, Age, world, Shape, TypeOK
  <2> QED BY <2>1, <2>2 DEF AroundJobs
<1>5. TypeOK'
  BY <1>1, <1>2, <1>3, <1>4 DEF Shape, TypeOK
<1>6. BornInv'
  BY <1>1 DEF Shape, BornInv
<1>7. WorkerInv' /\ RunningJobHasWorker'
  <2>1. \/ worker' = worker
        \/ /\ worker # NoWorker /\ worker' # NoWorker
           /\ worker'.id = worker.id /\ worker'.pc # "idle"
           /\ worker'.pc \in {"start", "work"} => worker'.result = "none"
    BY <1>1, InterruptedIsWorker DEF Shape, WorkerInv
  <2> QED BY <1>1, <2>1, WorkerGoesOn
<1> QED BY <1>5, <1>6, <1>7 DEF Shape


LEMMA AcceptedJob ==
    ASSUME NEW q \in Requested
    PROVE  /\ Accepted(q) \in Jobs
           /\ Accepted(q).keys = {q.key} /\ Accepted(q).kind = q.kind
           /\ Accepted(q).rev = q.rev /\ Accepted(q).state = "queued"
BY LimitAssumption DEF Accepted, Requested, Jobs, Waiting

\* What an insertion proposes to write.
LEMMA Inserted ==
    ASSUME Shape, NEW c \in Clients, Insert(c)
    PROVE  /\ ask[c] \in Requested /\ born + 1 \in Ids /\ born' = born + 1
           /\ mem[born + 1] = None /\ file[born + 1] = None
           /\ \E o \in Writes \cup Aborted, jobs \in JobMaps :
                /\ jobs = [Retained EXCEPT ![born + 1] = Accepted(ask[c])]
                /\ jobs[born + 1] = Accepted(ask[c])
                /\ \A x \in Ids \ {born + 1} :
                      \/ jobs[x] = mem[x]
                      \/ /\ jobs[x] = None
                         /\ In(mem, x, Terminal) /\ x \in aged
                /\ Write(jobs, o)
                /\ mem' = IF Saved(o) THEN jobs ELSE mem
                /\ acked' = IF Saved(o) THEN [acked EXCEPT ![ask[c].key] = born + 1] ELSE acked
                /\ preempt' \in {preempt, preempt \cup {born + 1}}
<1>1. ask[c] \in Requested /\ born + 1 \in Ids /\ born' = born + 1
  BY DEF Insert, Shape, TypeOK
<1>2. mem[born + 1] = None /\ file[born + 1] = None
  BY <1>1 DEF Shape, BornInv, TypeOK
<1> DEFINE jobs == [Retained EXCEPT ![born + 1] = Accepted(ask[c])]
<1>3. Retained \in JobMaps
  BY DEF Retained, JobMaps, Shape, TypeOK
<1>4. jobs \in JobMaps /\ jobs[born + 1] = Accepted(ask[c])
  BY <1>1, <1>3, AcceptedJob DEF JobMaps
<1>5. \A x \in Ids \ {born + 1} : jobs[x] = Retained[x]
  BY <1>3 DEF JobMaps
<1>6. \A x \in Ids : \/ Retained[x] = mem[x]
                     \/ /\ Retained[x] = None
                        /\ In(mem, x, Terminal) /\ x \in aged
  BY DEF Retained
<1>7. PICK o \in Writes \cup Aborted :
        /\ Write(jobs, o)
        /\ mem' = IF Saved(o) THEN jobs ELSE mem
        /\ acked' = IF Saved(o) THEN [acked EXCEPT ![ask[c].key] = born + 1] ELSE acked
        /\ preempt' = IF Saved(o) /\ ask[c].kind = "stop"
                      THEN preempt \cup {born + 1} ELSE preempt
  BY DEF Insert
<1> HIDE DEF jobs
<1>8. preempt' \in {preempt, preempt \cup {born + 1}}
  BY <1>7
<1>9. jobs = [Retained EXCEPT ![born + 1] = Accepted(ask[c])]
  BY DEF jobs
<1> QED BY <1>1, <1>2, <1>4, <1>5, <1>6, <1>7, <1>8, <1>9

LEMMA InsertShape ==
    ASSUME Shape, NEW c \in Clients, Insert(c)
    PROVE  Shape'
<1>1. /\ ask[c] \in Requested /\ born + 1 \in Ids /\ born' = born + 1
      /\ mem[born + 1] = None /\ file[born + 1] = None
  BY Inserted
<1>2. PICK o \in Writes \cup Aborted, jobs \in JobMaps :
        /\ jobs[born + 1] = Accepted(ask[c])
        /\ \A x \in Ids \ {born + 1} :
              \/ jobs[x] = mem[x]
              \/ /\ jobs[x] = None
                 /\ In(mem, x, Terminal) /\ x \in aged
        /\ Write(jobs, o)
        /\ mem' = IF Saved(o) THEN jobs ELSE mem
        /\ acked' = IF Saved(o) THEN [acked EXCEPT ![ask[c].key] = born + 1] ELSE acked
        /\ preempt' \in {preempt, preempt \cup {born + 1}}
  BY Inserted
<1>3. TypeOK
  BY DEF Shape
<1>4. /\ file' = IF o \in {"ok", "late"} THEN jobs ELSE file
      /\ stale' \in BOOLEAN /\ faults' \in 0..MaxFaults
      /\ fence' \in {"open", "retry", "closed"}
      /\ fence = "closed" => fence' = "closed"
  BY <1>2, <1>3, WriteEffect
<1>5. /\ ask' = [ask EXCEPT ![c] = None] /\ UNCHANGED <<aged, rest>>
      /\ manual' \in BOOLEAN
  BY <1>3 DEF Insert, TypeOK
<1>6. ask[c].key \in Keys
  BY <1>1 DEF Requested
<1>7. TypeOK'
  <2>1. born' \in 0..MaxId
    BY <1>1, <1>3, BoundAssumption DEF TypeOK, Ids
  <2>2. file' \in JobMaps /\ mem' \in JobMaps
    BY <1>2, <1>3, <1>4 DEF TypeOK, JobMaps
  <2>3. acked' \in [Keys -> Ids \cup {None}] /\ preempt' \subseteq Ids
        /\ ask' \in [Clients -> Requested \cup {None}]
    BY <1>1, <1>2, <1>3, <1>5, <1>6 DEF TypeOK
  <2> QED BY <1>3, <1>4, <1>5, <2>1, <2>2, <2>3 DEF rest, world, history, TypeOK, JobMaps
<1>8. BornInv'
  <2>1. \A x \in Ids : jobs[x] # None => x <= born + 1
    BY <1>2, <1>3 DEF Shape, BornInv, TypeOK, Ids
  <2>2. \A k \in Keys : acked'[k] # None => acked'[k] <= born + 1
    BY <1>2, <1>3, <1>6 DEF Shape, BornInv, TypeOK, Ids
  <2>3. \A x \in Ids : x <= born => x <= born + 1
    BY <1>3 DEF TypeOK, Ids
  <2> QED BY <1>1, <1>2, <1>4, <1>5, <2>1, <2>2, <2>3
          DEF rest, history, Shape, BornInv
<1>9. WorkerInv' /\ RunningJobHasWorker'
  <2>1. Accepted(ask[c]).state = "queued"
    BY <1>1, AcceptedJob
  <2>2. \A x \in Ids : In(jobs, x, Begun) => In(mem, x, Begun)
    BY <1>2, <2>1 DEF In, Begun
  <2>3. \A x \in Ids : In(mem, x, Begun) =>
            In(jobs, x, Begun) /\ jobs[x].attempts = mem[x].attempts
    BY <1>1, <1>2 DEF In, Begun, Terminal
  <2>4. mem' \in {mem, jobs} /\ file' \in {file, jobs}
    BY <1>2, <1>4
  <2> QED BY <1>4, <1>5, <2>2, <2>3, <2>4, BesideWorker DEF rest
<1> QED BY <1>7, <1>8, <1>9 DEF Shape

\* What a cancelation proposes to write.
LEMMA Canceled ==
    ASSUME Shape, NEW i \in Ids, Cancel(i)
    PROVE  /\ mem[i] \in Jobs
           /\ \E o \in Writes \cup Aborted, jobs \in JobMaps :
                /\ jobs[i] = [mem[i] EXCEPT !.cancel = TRUE,
                                 !.state = IF @ \in Waiting THEN "canceled" ELSE "canceling"]
                /\ jobs[i] \in Jobs
                /\ jobs[i].keys = mem[i].keys /\ jobs[i].kind = mem[i].kind
                /\ jobs[i].rev = mem[i].rev /\ jobs[i].attempts = mem[i].attempts
                /\ jobs[i].state = IF mem[i].state \in Waiting THEN "canceled" ELSE "canceling"
                /\ \A x \in Ids \ {i} : jobs[x] = mem[x]
                /\ Write(jobs, o)
                /\ mem' = IF Saved(o) THEN jobs ELSE mem
                /\ worker' \in {worker, Interrupted}
                /\ cancels' \in {cancels, cancels \cup {i}}
                /\ IF Saved(o) THEN Finishes(jobs, i) ELSE UNCHANGED aged
<1>1. mem[i] \in Jobs
  BY DEF Cancel, In, Shape, TypeOK
<1> DEFINE state == IF mem[i].state \in Waiting THEN "canceled" ELSE "canceling"
           j == [mem[i] EXCEPT !.cancel = TRUE, !.state = state]
           jobs == [mem EXCEPT ![i] = j]
<1>2. state \in States
  BY DEF States, Begun, Terminal
<1>3. j \in Jobs
  BY <1>1, <1>2, JobStateEdits
<1>4. j.keys = mem[i].keys /\ j.kind = mem[i].kind /\ j.rev = mem[i].rev
      /\ j.attempts = mem[i].attempts /\ j.state = state
  BY <1>1 DEF Jobs
<1>5. jobs \in JobMaps /\ jobs[i] = j /\ \A x \in Ids \ {i} : jobs[x] = mem[x]
  BY <1>3 DEF JobMaps, Shape, TypeOK
<1>6. jobs = [mem EXCEPT ![i].cancel = TRUE,
                         ![i].state = IF @ \in Waiting THEN "canceled" ELSE "canceling"]
  <2>1. DOMAIN mem = Ids /\ DOMAIN mem[i] = {"keys", "kind", "rev", "state", "attempts", "cancel"}
    BY <1>1 DEF Shape, TypeOK, Jobs
  <2> QED BY <2>1
<1>7. PICK o \in Writes \cup Aborted :
          LET js == [mem EXCEPT ![i].cancel = TRUE,
                         ![i].state = IF @ \in Waiting THEN "canceled" ELSE "canceling"] IN
          /\ Write(js, o)
          /\ mem' = IF Saved(o) THEN js ELSE mem
          /\ cancels' = IF Saved(o) THEN cancels \cup {i} ELSE cancels
          /\ worker' = IF Saved(o) /\ worker.id = i THEN Interrupted ELSE worker
          /\ IF Saved(o) THEN Finishes(js, i) ELSE UNCHANGED aged
  BY DEF Cancel
<1>8. /\ Write(jobs, o)
      /\ mem' = IF Saved(o) THEN jobs ELSE mem
      /\ worker' \in {worker, Interrupted}
      /\ cancels' \in {cancels, cancels \cup {i}}
      /\ IF Saved(o) THEN Finishes(jobs, i) ELSE UNCHANGED aged
  BY <1>6, <1>7
<1> HIDE DEF jobs
<1> QED BY <1>1, <1>3, <1>4, <1>5, <1>8


LEMMA CancelShape ==
    ASSUME Shape, NEW i \in Ids, Cancel(i)
    PROVE  Shape'
<1>1. mem[i] \in Jobs /\ mem[i] # None
  BY Canceled, JobFields
<1>2. PICK o \in Writes \cup Aborted, jobs \in JobMaps :
        /\ jobs[i] \in Jobs /\ jobs[i].attempts = mem[i].attempts
        /\ jobs[i].state = IF mem[i].state \in Waiting THEN "canceled" ELSE "canceling"
        /\ \A x \in Ids \ {i} : jobs[x] = mem[x]
        /\ Write(jobs, o)
        /\ mem' = IF Saved(o) THEN jobs ELSE mem
        /\ worker' \in {worker, Interrupted}
        /\ cancels' \in {cancels, cancels \cup {i}}
        /\ IF Saved(o) THEN Finishes(jobs, i) ELSE UNCHANGED aged
  BY Canceled
<1>3. TypeOK
  BY DEF Shape
<1>4. /\ file' = IF o \in {"ok", "late"} THEN jobs ELSE file
      /\ stale' \in BOOLEAN /\ faults' \in 0..MaxFaults
      /\ fence' \in {"open", "retry", "closed"}
      /\ fence = "closed" => fence' = "closed"
  BY <1>2, <1>3, WriteEffect
<1>5. UNCHANGED <<requests, delayed, manual, closing, world, applies, commits, restarts, edits>>
  BY DEF Cancel
<1>6. In(mem, i, Waiting \cup Begun)
  BY DEF Cancel
<1>7. TypeOK'
  <2>1. worker' \in [id : 0..MaxId, pc : {"idle", "start", "work", "ended"}, canceled : BOOLEAN,
          result : {"none", "busy", "error", "code", "ok", "more", "network", "canceled"}]
    BY <1>2, <1>3, InterruptedIsWorker DEF TypeOK
  <2>2. file' \in JobMaps /\ mem' \in JobMaps
    BY <1>2, <1>3, <1>4 DEF TypeOK, JobMaps
  <2>3. aged' \subseteq Ids /\ cancels' \subseteq Ids
    BY <1>2, <1>3 DEF TypeOK, Finishes
  <2> QED BY <1>3, <1>4, <1>5, <2>1, <2>2, <2>3 DEF requests, world, TypeOK, JobMaps
<1>8. BornInv'
  <2>1. \A x \in Ids : jobs[x] # None => mem[x] # None
    BY <1>1, <1>2
  <2> QED BY <1>2, <1>4, <1>5, <2>1 DEF requests, Shape, BornInv
<1>9. WorkerInv' /\ RunningJobHasWorker'
  <2>1. jobs[i] # None
    BY <1>2, JobFields
  <2>2. \A x \in Ids : In(jobs, x, Begun) => In(mem, x, Begun)
    BY <1>2, <1>6 DEF In, Begun
  <2>3. \A x \in Ids : In(mem, x, Begun) =>
            In(jobs, x, Begun) /\ jobs[x].attempts = mem[x].attempts
    BY <1>2, <2>1 DEF In, Begun, Waiting
  <2>4. mem' \in {mem, jobs} /\ file' \in {file, jobs} /\ closing' = closing
    BY <1>2, <1>4, <1>5
  <2> QED BY <1>2, <1>4, <2>2, <2>3, <2>4, BesideWorker
<1> QED BY <1>7, <1>8, <1>9 DEF Shape

\* While nothing runs and the scheduler is at work, no job is begun.
LEMMA NothingBegun ==
    ASSUME Shape, worker = NoWorker, fence # "closed", ~closing
    PROVE  \A x \in Ids : ~In(mem, x, Begun)
<1>1. \A x \in Ids : In(mem, x, Begun) => 0 = x
  BY DEF Shape, RunningJobHasWorker, NoWorker
<1> QED BY <1>1 DEF Ids

LEMMA DropShape ==
    ASSUME Shape, NEW i \in Ids, Drop(i)
    PROVE  Shape'
<1>1. /\ worker = NoWorker /\ fence = "open" /\ ~closing /\ In(mem, i, Waiting)
      /\ mem' = Set(i, "failed") /\ Finishes(mem', i)
      /\ UNCHANGED <<requests, worker, delayed, manual, world, history, restarts, edits>>
  BY DEF Drop, Selected, Due
<1>2. PICK o \in Writes \cup Aborted : Write(mem', o) /\ closing' = (o = "aborted")
  BY DEF Drop, Ending
<1>3. TypeOK
  BY DEF Shape
<1>4. /\ file' = IF o \in {"ok", "late"} THEN mem' ELSE file
      /\ stale' \in BOOLEAN /\ faults' \in 0..MaxFaults
      /\ fence' \in {"open", "retry", "closed"}
  BY <1>2, <1>3, WriteEffect
<1>5. mem[i] \in Jobs
  BY <1>1, <1>3 DEF In, TypeOK
<1>6. [mem[i] EXCEPT !.state = "failed"] \in Jobs /\ [mem[i] EXCEPT !.state = "failed"].state = "failed"
  BY <1>5, JobStateEdits DEF States, Terminal, Jobs
<1>7. /\ mem' \in JobMaps /\ mem'[i] = [mem[i] EXCEPT !.state = "failed"]
      /\ \A x \in Ids \ {i} : mem'[x] = mem[x]
  BY <1>1, <1>3, <1>6 DEF Set, JobMaps, TypeOK
<1>8. TypeOK'
  <2>1. file' \in JobMaps /\ closing' \in BOOLEAN /\ aged' \subseteq Ids
    BY <1>1, <1>2, <1>3, <1>4, <1>7 DEF JobMaps, TypeOK, Finishes
  <2> QED BY <1>1, <1>3, <1>4, <1>7, <2>1 DEF requests, world, history, TypeOK, JobMaps
<1>9. BornInv'
  <2>1. \A x \in Ids : mem'[x] # None => mem[x] # None
    BY <1>5, <1>7, JobFields
  <2> QED BY <1>1, <1>4, <2>1 DEF requests, history, Shape, BornInv
<1>10. WorkerInv' /\ RunningJobHasWorker'
  <2>1. \A x \in Ids : ~In(mem, x, Begun)
    BY <1>1, NothingBegun
  <2>2. \A x \in Ids : ~In(mem, x, Begun)'
    BY <1>6, <1>7, <2>1 DEF In, Begun
  <2> QED BY <1>1, <2>2 DEF WorkerInv, RunningJobHasWorker
<1> QED BY <1>8, <1>9, <1>10 DEF Shape

\* What the record of an attempt proposes to write.
LEMMA StartedJob ==
    ASSUME TypeOK, NEW i \in Ids, In(mem, i, Waiting), mem[i].attempts < MaxAttempts
    PROVE  /\ Started(i) \in JobMaps /\ mem[i] \in Jobs /\ Started(i)[i] \in Jobs
           /\ Started(i)[i].state = "running" /\ Started(i)[i].attempts = mem[i].attempts + 1
           /\ Started(i)[i].keys = mem[i].keys /\ Started(i)[i].kind = mem[i].kind
           /\ Started(i)[i].rev = mem[i].rev
           /\ \A x \in Ids \ {i} : Started(i)[x] = mem[x]
<1>1. mem[i] \in Jobs
  BY DEF In, TypeOK
<1> DEFINE j == [mem[i] EXCEPT !.state = "running", !.attempts = mem[i].attempts + 1]
<1>2. j \in Jobs
  <2>1. "running" \in States /\ mem[i].attempts + 1 \in 0..MaxAttempts
    BY <1>1, JobFields, LimitAssumption DEF States, Begun
  <2> QED BY <1>1, <2>1, JobCountEdits
<1>3. /\ j.state = "running" /\ j.attempts = mem[i].attempts + 1
      /\ j.keys = mem[i].keys /\ j.kind = mem[i].kind /\ j.rev = mem[i].rev
  BY <1>1 DEF Jobs
<1>4. Started(i) = [mem EXCEPT ![i] = j]
  <2>1. DOMAIN mem = Ids /\ DOMAIN mem[i] = {"keys", "kind", "rev", "state", "attempts", "cancel"}
    BY <1>1 DEF TypeOK, Jobs
  <2> QED BY <2>1 DEF Started
<1>5. [mem EXCEPT ![i] = j] \in JobMaps
  BY <1>2 DEF JobMaps, TypeOK
<1>6. Started(i)[i] = j /\ \A x \in Ids \ {i} : Started(i)[x] = mem[x]
  BY <1>4 DEF TypeOK
<1> QED BY <1>1, <1>2, <1>3, <1>4, <1>5, <1>6

LEMMA DispatchShape ==
    ASSUME Shape, NEW i \in Ids, Dispatch(i)
    PROVE  Shape'
<1>1. /\ worker = NoWorker /\ fence = "open" /\ ~closing /\ In(mem, i, Waiting)
      /\ UNCHANGED <<requests, delayed, aged, manual, world, history, restarts, edits>>
  BY DEF Dispatch, Selected, Due
<1>2. PICK o \in Writes \cup Aborted :
          /\ Write(Started(i), o)
          /\ mem' = IF Kept(o) THEN mem ELSE Started(i)
          /\ worker' = IF Saved(o)
                       THEN [id |-> i, pc |-> "start", canceled |-> FALSE, result |-> "none"]
                       ELSE worker
          /\ closing' = (o = "aborted")
  BY DEF Dispatch, Ending
<1>3. TypeOK
  BY DEF Shape
<1>4. mem[i] \in Jobs /\ mem[i].attempts \in 0..MaxAttempts /\ mem[i].attempts < MaxAttempts
  <2>1. mem[i] \in Jobs
    BY <1>1, <1>3 DEF In, TypeOK
  <2> QED BY <2>1, JobFields, LimitAssumption DEF Dispatch, Exhausted
<1>5. /\ Started(i) \in JobMaps /\ Started(i)[i] \in Jobs /\ Started(i)[i] # None
      /\ Started(i)[i].state = "running" /\ Started(i)[i].attempts = mem[i].attempts + 1
      /\ \A x \in Ids \ {i} : Started(i)[x] = mem[x]
  BY <1>1, <1>3, <1>4, StartedJob, JobFields
<1>6. /\ file' = IF o \in {"ok", "late"} THEN Started(i) ELSE file
      /\ stale' \in BOOLEAN /\ faults' \in 0..MaxFaults
      /\ fence' \in {"open", "retry", "closed"}
      /\ o \in {"lost", "late", "conflict"} => fence' = "closed"
  BY <1>2, <1>3, WriteEffect
<1>7. TypeOK'
  <2>1. file' \in JobMaps /\ mem' \in JobMaps /\ closing' \in BOOLEAN
    BY <1>2, <1>3, <1>5, <1>6 DEF JobMaps, TypeOK
  <2>2. worker' \in [id : 0..MaxId, pc : {"idle", "start", "work", "ended"}, canceled : BOOLEAN,
          result : {"none", "busy", "error", "code", "ok", "more", "network", "canceled"}]
    BY <1>2, <1>3, BoundAssumption DEF TypeOK, Ids
  <2> QED BY <1>1, <1>3, <1>6, <2>1, <2>2 DEF requests, world, history, TypeOK, JobMaps
<1>8. BornInv'
  <2>1. \A x \in Ids : Started(i)[x] # None => mem[x] # None
    BY <1>4, <1>5, JobFields
  <2> QED BY <1>1, <1>2, <1>6, <2>1 DEF requests, history, Shape, BornInv
<1>9. WorkerInv' /\ RunningJobHasWorker'
  <2>1. \A x \in Ids : ~In(mem, x, Begun)
    BY <1>1, NothingBegun
  <2>2. \A x \in Ids : In(Started(i), x, Begun) => x = i
    BY <1>5, <2>1 DEF In
  <2>3. CASE Saved(o)
    <3>1. /\ mem' = Started(i) /\ file' = Started(i)
          /\ worker' = [id |-> i, pc |-> "start", canceled |-> FALSE, result |-> "none"]
      BY <1>2, <1>6, <2>3 DEF Saved, Kept
    <3>2. In(Started(i), i, Begun)
      BY <1>5 DEF In, Begun
    <3>3. WorkerInv'
      BY <1>4, <1>5, <3>1 DEF WorkerInv
    <3>4. worker'.id = i /\ In(mem, i, Begun)' /\ In(file, i, Begun)'
      BY <3>1, <3>2 DEF In
    <3>5. \A x \in Ids : In(mem, x, Begun)' => x = i
      BY <2>2, <3>1 DEF In
    <3> QED BY <3>1, <3>3, <3>4, <3>5 DEF RunningJobHasWorker
  <2>4. CASE ~Saved(o)
    <3>1. worker' = NoWorker
      BY <1>1, <1>2, <2>4
    <3>2. fence' = "closed" \/ closing' \/ mem' = mem
      BY <1>2, <1>6, <2>4 DEF Saved, Kept, Writes, Aborted
    <3>3. mem' = mem => \A x \in Ids : ~In(mem, x, Begun)'
      BY <2>1 DEF In
    <3> QED BY <3>1, <3>2, <3>3 DEF WorkerInv, RunningJobHasWorker
  <2> QED BY <2>3, <2>4
<1> QED BY <1>7, <1>8, <1>9 DEF Shape


LEMMA MaintainShape ==
    ASSUME Shape, Maintain
    PROVE  Shape'
<1>1. PICK o \in Writes \cup Aborted : Write(mem, o)
  BY DEF Maintain
<1>2. TypeOK
  BY DEF Shape
<1>3. /\ file' = IF o \in {"ok", "late"} THEN mem ELSE file
      /\ stale' \in BOOLEAN /\ faults' \in 0..MaxFaults
      /\ fence' \in {"open", "retry", "closed"}
      /\ fence = "closed" => fence' = "closed"
  BY <1>1, <1>2, WriteEffect
<1>4. /\ worker = NoWorker
      /\ UNCHANGED <<mem, requests, worker, delayed, aged, manual, closing, world, history,
                     restarts, edits>>
  BY DEF Maintain
<1>5. TypeOK'
  <2>1. file' \in [Ids -> Jobs \cup {None}]
    BY <1>2, <1>3 DEF TypeOK
  <2> QED BY <1>2, <1>3, <1>4, <2>1 DEF requests, world, history, TypeOK
<1>6. BornInv'
  BY <1>3, <1>4 DEF requests, history, Shape, BornInv
<1>7. WorkerInv' /\ RunningJobHasWorker'
  BY <1>3, <1>4 DEF Shape, WorkerInv, RunningJobHasWorker, In
<1> QED BY <1>5, <1>6, <1>7 DEF Shape

LEMMA RetryEffect ==
    ASSUME TypeOK, Retry
    PROVE  \E o \in Writes :
              /\ file' = IF o \in {"ok", "late"} THEN mem ELSE file
              /\ stale' \in BOOLEAN /\ stale' = (stale \/ o = "late") /\ faults' \in 0..MaxFaults
              /\ o \in {"ok", "late"} => ~stale
              /\ fence' \in {"open", "retry", "closed"} /\ fence = "retry"
              /\ o \notin {"ok", "refused"} => fence' = "closed"
              /\ o = "refused" => fence' = "retry"
BY DiskEffect DEF Retry, Fence, Saved, Writes

LEMMA RetryShape ==
    ASSUME Shape, Retry
    PROVE  Shape'
<1>1. TypeOK
  BY DEF Shape
<1>2. PICK o \in Writes :
        /\ file' = IF o \in {"ok", "late"} THEN mem ELSE file
        /\ stale' \in BOOLEAN /\ faults' \in 0..MaxFaults
        /\ fence' \in {"open", "retry", "closed"} /\ fence = "retry"
  BY <1>1, RetryEffect
<1>4. /\ worker = NoWorker
      /\ UNCHANGED <<mem, requests, worker, delayed, aged, manual, closing, world, history,
                     restarts, edits>>
  BY DEF Retry
<1>5. TypeOK'
  <2>1. file' \in [Ids -> Jobs \cup {None}]
    BY <1>1, <1>2 DEF TypeOK
  <2> QED BY <1>1, <1>2, <1>4, <2>1 DEF requests, world, history, TypeOK
<1>6. BornInv'
  BY <1>2, <1>4 DEF requests, history, Shape, BornInv
<1>7. WorkerInv' /\ RunningJobHasWorker'
  BY <1>2, <1>4 DEF Shape, WorkerInv, RunningJobHasWorker, In
<1> QED BY <1>5, <1>6, <1>7 DEF Shape

\* The steps of an attempt, up to its end.
Works == Busy \/ Refuse \/ Settle \/ Begin \/ Commit \/ Fail \/ Read

LEMMA WorksKeep ==
    ASSUME Shape, Works
    PROVE  /\ UNCHANGED others
           /\ worker # NoWorker /\ worker' # NoWorker
           /\ worker'.id = worker.id /\ worker'.pc \in {"work", "ended"}
           /\ worker'.pc = "work" => worker'.result = "none"
           /\ worker' \in [id : 0..MaxId, pc : {"idle", "start", "work", "ended"},
                canceled : BOOLEAN,
                result : {"none", "busy", "error", "code", "ok", "more", "network", "canceled"}]
<1>1. UNCHANGED others
  BY DEF Works, Busy, Refuse, Settle, Begin, Commit, Fail, Read
<1>2. worker.pc \in {"start", "work"}
  BY DEF Works, Busy, Refuse, Settle, Begin, Commit, Fail, Read, Enters
<1>3. worker # NoWorker
  BY <1>2 DEF NoWorker
<1>4. worker.pc = "start" => worker.result = "none"
  BY <1>3 DEF Shape, WorkerInv
<1> DEFINE Results == {"busy", "error", "code", "ok", "more", "network", "canceled"}
<1>5. \/ \E result \in Results : worker' = Ended(result)
      \/ worker.pc = "start" /\ worker' = [worker EXCEPT !.pc = "work"]
  <2>1. CASE Busy \/ Settle \/ Commit \/ Fail
    BY <2>1 DEF Busy, Settle, Commit, Fail
  <2>2. CASE Refuse
    BY <2>2 DEF Refuse
  <2>3. CASE Begin
    BY <2>3 DEF Begin, Enters
  <2>4. CASE Read
    BY <2>4 DEF Read, Ends
  <2> QED BY <2>1, <2>2, <2>3, <2>4 DEF Works
<1>6. worker'.id = worker.id /\ worker'.pc \in {"work", "ended"}
      /\ (worker'.pc = "work" => worker'.result = "none")
      /\ worker' \in [id : 0..MaxId, pc : {"idle", "start", "work", "ended"},
                canceled : BOOLEAN,
                result : {"none", "busy", "error", "code", "ok", "more", "network", "canceled"}]
  BY <1>4, <1>5 DEF Ended, Shape, TypeOK
<1>7. worker' # NoWorker
  BY <1>6 DEF NoWorker
<1> QED BY <1>1, <1>3, <1>6, <1>7

LEMMA WorksShape ==
    ASSUME Shape, Works
    PROVE  Shape'
<1>1. UNCHANGED others /\ worker # NoWorker
  BY WorksKeep
<1>2. worker.id \in Ids /\ worker.id <= born /\ mem[worker.id] \in Jobs
  BY <1>1 DEF Shape, WorkerInv, RunningJobHasWorker, BornInv, In, TypeOK
<1>3. /\ applies' \in [Ids -> Nat] /\ commits' \in [Ids -> Nat]
      /\ \A x \in Ids \ {worker.id} : applies'[x] = applies[x] /\ commits'[x] = commits[x]
  <2>1. CASE Busy \/ Refuse \/ Settle \/ Fail \/ Read
    BY <2>1 DEF Busy, Refuse, Settle, Fail, Read, Shape, TypeOK
  <2>2. CASE Begin
    BY <1>2, <2>2 DEF Begin, Shape, TypeOK
  <2>3. CASE Commit
    BY <1>2, <2>3 DEF Commit, Shape, TypeOK
  <2> QED BY <2>1, <2>2, <2>3 DEF Works
<1>4. rev' \in Nat /\ stopped' \in BOOLEAN /\ fenced' \in BOOLEAN
  <2>1. CASE Busy \/ Refuse \/ Settle \/ Begin
    BY <2>1 DEF Busy, Refuse, Settle, Begin, world, Shape, TypeOK
  <2>2. CASE Commit
    <3>1. rev' \in Nat
      BY <2>2 DEF Commit, Shape, TypeOK
    <3>2. stopped' \in BOOLEAN /\ fenced' \in BOOLEAN
      BY <2>2 DEF Commit, Shape, TypeOK
    <3> QED BY <3>1, <3>2
  <2>3. CASE Fail \/ Read
    BY <2>3 DEF Fail, Read, Shape, TypeOK
  <2> QED BY <2>1, <2>2, <2>3 DEF Works
<1>5. TypeOK'
  BY <1>1, <1>3, <1>4, WorksKeep DEF others, doc, requests, Shape, TypeOK
<1>6. BornInv'
  BY <1>1, <1>2, <1>3 DEF others, doc, requests, Shape, BornInv
<1>7. WorkerInv' /\ RunningJobHasWorker'
  <2>1. UNCHANGED <<mem, file, fence, closing>>
    BY <1>1 DEF others, doc
  <2> QED BY <2>1, WorksKeep, WorkerGoesOn
<1> QED BY <1>5, <1>6, <1>7 DEF Shape

\* How an attempt leaves its job: never begun, and nothing else of it changed.
LEMMA OutcomeJob ==
    ASSUME NEW j \in Jobs, j.attempts >= 1, NEW result
    PROVE  /\ Outcome(j, result) \in Jobs
           /\ Outcome(j, result).keys = j.keys /\ Outcome(j, result).kind = j.kind
           /\ Outcome(j, result).rev = j.rev
           /\ Outcome(j, result).state \in Waiting \cup Terminal
<1>1. \A s \in Waiting \cup Terminal :
        /\ To(j, s) \in Jobs /\ To(j, s).keys = j.keys /\ To(j, s).kind = j.kind
        /\ To(j, s).rev = j.rev /\ To(j, s).state = s
  BY DEF To, Jobs
<1>2. \A n \in 0..MaxAttempts :
        /\ Requeued(j, n) \in Jobs /\ Requeued(j, n).keys = j.keys
        /\ Requeued(j, n).kind = j.kind /\ Requeued(j, n).rev = j.rev
        /\ Requeued(j, n).state = "queued"
  BY DEF Requeued, Jobs, Waiting
<1>3. j.attempts \in 0..MaxAttempts /\ j.attempts - 1 \in 0..MaxAttempts /\ 0 \in 0..MaxAttempts
  BY JobFields, LimitAssumption
<1>4. \/ \E s \in Waiting \cup Terminal : Outcome(j, result) = To(j, s)
      \/ \E n \in 0..MaxAttempts : Outcome(j, result) = Requeued(j, n)
  <2>1. \E s \in Waiting \cup Terminal :
          s = CASE result = "ok" -> "completed"
                [] result = "canceled" -> "canceled"
                [] OTHER -> "failed"
    BY DEF Terminal
  <2> QED BY <1>3, <2>1 DEF Outcome, Waiting, Terminal
<1> QED BY <1>1, <1>2, <1>4 DEF Waiting

\* The state of the jobs when an attempt ends.
LEMMA Finished ==
    ASSUME Shape, Finish
    PROVE  /\ worker # NoWorker /\ worker.id \in Ids /\ mem[worker.id] \in Jobs
           /\ worker' = NoWorker /\ mem' \in JobMaps
           /\ mem'[worker.id] = Outcome(mem[worker.id], worker.result)
           /\ mem'[worker.id] \in Jobs
           /\ mem'[worker.id].keys = mem[worker.id].keys
           /\ mem'[worker.id].kind = mem[worker.id].kind
           /\ mem'[worker.id].rev = mem[worker.id].rev
           /\ mem'[worker.id].state \in Waiting \cup Terminal
           /\ \A x \in Ids \ {worker.id} : mem'[x] = mem[x]
           /\ \E o \in Writes \cup Aborted : Write(mem', o)
<1>1. worker # NoWorker
  BY DEF Finish, NoWorker
<1>2. worker.id \in Ids /\ mem[worker.id].attempts >= 1 /\ mem[worker.id] \in Jobs
  BY <1>1 DEF Shape, WorkerInv, RunningJobHasWorker, In, TypeOK
<1> DEFINE j == Outcome(mem[worker.id], worker.result)
<1>3. /\ j \in Jobs /\ j.keys = mem[worker.id].keys /\ j.kind = mem[worker.id].kind
      /\ j.rev = mem[worker.id].rev /\ j.state \in Waiting \cup Terminal
  BY <1>2, OutcomeJob
<1>4. mem' = [mem EXCEPT ![worker.id] = j] /\ worker' = NoWorker
  BY DEF Finish, job
<1>5. \E o \in Writes \cup Aborted : Write(mem', o)
  BY DEF Finish, Slow
<1> HIDE DEF j
<1>6. mem' \in JobMaps /\ mem'[worker.id] = j /\ \A x \in Ids \ {worker.id} : mem'[x] = mem[x]
  BY <1>2, <1>3, <1>4 DEF JobMaps, Shape, TypeOK
<1> QED BY <1>1, <1>2, <1>3, <1>4, <1>5, <1>6 DEF j

LEMMA FinishShape ==
    ASSUME Shape, Finish
    PROVE  Shape'
<1>1. /\ worker # NoWorker /\ worker.id \in Ids /\ mem[worker.id] \in Jobs
      /\ worker' = NoWorker /\ mem' \in JobMaps
      /\ mem'[worker.id].state \in Waiting \cup Terminal
      /\ \A x \in Ids \ {worker.id} : mem'[x] = mem[x]
  BY Finished
<1>2. PICK o \in Writes \cup Aborted : Write(mem', o)
  BY Finished
<1>3. TypeOK
  BY DEF Shape
<1>4. /\ file' = IF o \in {"ok", "late"} THEN mem' ELSE file
      /\ stale' \in BOOLEAN /\ faults' \in 0..MaxFaults
      /\ fence' \in {"open", "retry", "closed"}
      /\ fence = "closed" => fence' = "closed"
  BY <1>2, <1>3, WriteEffect
<1>5. UNCHANGED <<requests, manual, closing, world, history, restarts, edits>>
      /\ delayed' \subseteq Ids /\ aged' \subseteq Ids
  BY <1>1, <1>3 DEF Finish, Finishes, TypeOK
<1>6. TypeOK'
  <2>1. file' \in JobMaps
    BY <1>1, <1>3, <1>4 DEF JobMaps, TypeOK
  <2>2. worker' \in [id : 0..MaxId, pc : {"idle", "start", "work", "ended"}, canceled : BOOLEAN,
          result : {"none", "busy", "error", "code", "ok", "more", "network", "canceled"}]
    BY <1>1, BoundAssumption DEF NoWorker
  <2> QED BY <1>1, <1>3, <1>4, <1>5, <2>1, <2>2 DEF requests, world, history, TypeOK, JobMaps
<1>7. BornInv'
  <2>1. \A x \in Ids : mem'[x] # None => mem[x] # None
    BY <1>1, JobFields
  <2> QED BY <1>4, <1>5, <2>1 DEF requests, history, Shape, BornInv
<1>8. WorkerInv' /\ RunningJobHasWorker'
  <2>1. ASSUME fence' # "closed", ~closing'
        PROVE  \A x \in Ids : ~In(mem, x, Begun)'
    <3>1. \A x \in Ids : In(mem, x, Begun) => x = worker.id
      BY <1>4, <1>5, <2>1 DEF Shape, RunningJobHasWorker
    <3> QED BY <1>1, <3>1 DEF In, Begun, Waiting, Terminal
  <2> QED BY <1>1, <2>1 DEF WorkerInv, RunningJobHasWorker
<1> QED BY <1>6, <1>7, <1>8 DEF Shape

\* What a start makes of a job.
LEMMA RecoveredJob ==
    ASSUME NEW j \in Jobs \cup {None}
    PROVE  /\ Recovered(j) \in Jobs \cup {None}
           /\ Recovered(j) = None <=> j = None
           /\ j # None =>
                 /\ Recovered(j).keys = j.keys /\ Recovered(j).kind = j.kind
                 /\ Recovered(j).rev = j.rev
                 /\ Recovered(j).state \in Waiting \cup Terminal
                 /\ j.state \in Terminal => Recovered(j) = j
                 /\ j.kind = "apply" => Recovered(j).state \in Terminal
<1>1. CASE j = None
  BY <1>1 DEF Recovered
<1>2. CASE j # None
  <2>1. \A s \in Waiting \cup Terminal :
          /\ To(j, s) \in Jobs /\ To(j, s).keys = j.keys /\ To(j, s).kind = j.kind
          /\ To(j, s).rev = j.rev /\ To(j, s).state = s
    BY <1>2 DEF To, Jobs
  <2>2. j \in Jobs /\ j.state \in States
    BY <1>2, JobFields
  <2> QED BY <1>2, <2>1, <2>2, JobFields DEF Recovered, Waiting, Terminal, Begun, States
<1> QED BY <1>1, <1>2

LEMMA Restarted ==
    ASSUME Shape, Restart
    PROVE  /\ AfterStart \in JobMaps
           /\ \A x \in Ids : AfterStart[x] = Recovered(file[x])
           /\ worker' = NoWorker /\ stale' = FALSE /\ closing' = FALSE
           /\ UNCHANGED <<born, acked, rev, stopped, history, edits>>
           /\ file' \in {file, AfterStart}
           /\ \/ mem' = AfterStart /\ file' = AfterStart /\ fence' = "open"
              \/ mem' = Empty /\ fence' = "closed"
           /\ aged' = aged \ {x \in Ids : In(AfterStart, x, Terminal) /\ AfterStart[x] # file[x]}
<1>1. AfterStart \in JobMaps
  BY RecoveredJob DEF AfterStart, JobMaps, Shape, TypeOK
<1> QED BY <1>1 DEF Restart, AfterStart, Saved

LEMMA RestartShape ==
    ASSUME Shape, Restart
    PROVE  Shape'
<1>1. /\ AfterStart \in JobMaps
      /\ \A x \in Ids : AfterStart[x] = Recovered(file[x])
      /\ worker' = NoWorker /\ stale' = FALSE /\ closing' = FALSE
      /\ UNCHANGED <<born, acked, rev, stopped, history, edits>>
      /\ file' \in {file, AfterStart}
      /\ \/ mem' = AfterStart /\ file' = AfterStart /\ fence' = "open"
         \/ mem' = Empty /\ fence' = "closed"
      /\ aged' \subseteq Ids
  BY Restarted DEF Shape, TypeOK
<1>2. TypeOK
  BY DEF Shape
<1>3. /\ ask' = [c \in Clients |-> None] /\ preempt' = {} /\ delayed' \subseteq Ids
      /\ faults' \in 0..MaxFaults /\ restarts' \in 0..MaxRestarts
  BY <1>2, BoundAssumption DEF Restart, TypeOK
<1>4. manual' \in BOOLEAN /\ fenced' \in BOOLEAN
  BY <1>2 DEF Restart, TypeOK
<1>5. Empty \in JobMaps
  BY DEF Empty, JobMaps
<1>6. TypeOK'
  <2>1. worker' \in [id : 0..MaxId, pc : {"idle", "start", "work", "ended"}, canceled : BOOLEAN,
          result : {"none", "busy", "error", "code", "ok", "more", "network", "canceled"}]
    BY <1>1, BoundAssumption DEF NoWorker
  <2>2. file' \in JobMaps /\ mem' \in JobMaps /\ ask' \in [Clients -> Requested \cup {None}]
    BY <1>1, <1>2, <1>3, <1>5 DEF TypeOK, JobMaps
  <2>3. fence' \in {"open", "retry", "closed"} /\ stale' \in BOOLEAN /\ closing' \in BOOLEAN
    BY <1>1
  <2> QED BY <1>1, <1>2, <1>3, <1>4, <2>1, <2>2, <2>3 DEF history, TypeOK, JobMaps
<1>7. BornInv'
  <2>1. \A x \in Ids : AfterStart[x] # None => file[x] # None
    BY <1>1, <1>2, RecoveredJob DEF TypeOK
  <2>2. \A x \in Ids : Empty[x] = None
    BY DEF Empty
  <2> QED BY <1>1, <2>1, <2>2 DEF history, Shape, BornInv
<1>8. WorkerInv' /\ RunningJobHasWorker'
  <2>1. \A x \in Ids : ~In(AfterStart, x, Begun)
    <3>1. ASSUME NEW x \in Ids PROVE ~In(AfterStart, x, Begun)
      BY <1>1, <1>2, RecoveredJob DEF In, TypeOK, Begun, Waiting, Terminal
    <3> QED BY <3>1
  <2>2. \A x \in Ids : mem' = AfterStart => ~In(mem, x, Begun)'
    BY <2>1 DEF In
  <2> QED BY <1>1, <2>2 DEF WorkerInv, RunningJobHasWorker
<1> QED BY <1>6, <1>7, <1>8 DEF Shape

\* Every step is one of these.
LEMMA Steps ==
    ASSUME Next
    PROVE  \/ \E c \in Clients, k \in Keys, q \in Requests : Ask(c, k, q) \/ Prepare(c, k, q)
           \/ \E c \in Clients : Insert(c) \/ InsertFound(c) \/ Withdraw(c)
           \/ \E i \in Ids : Cancel(i) \/ Drop(i) \/ Dispatch(i)
           \/ Maintain \/ Retry \/ Works \/ Finish \/ AroundJobs \/ Restart
BY DEF Next, Request, Schedule, Attempt, Environment, Works, AroundJobs

LEMMA ShapeStep ==
    ASSUME Shape, [Next]_vars
    PROVE  Shape'
<1>1. CASE UNCHANGED vars
  BY <1>1 DEF vars, Shape, TypeOK, BornInv, WorkerInv, RunningJobHasWorker, In
<1>2. CASE Next
  BY <1>2, Steps, AskShape, PrepareShape, InsertShape, InsertFoundShape, WithdrawShape,
     CancelShape, DropShape, DispatchShape, MaintainShape, RetryShape, WorksShape,
     FinishShape, AroundJobsShape, RestartShape
<1> QED BY <1>1, <1>2

LEMMA ShapeInvariance == Spec => []Shape
<1>1. Init => Shape
  BY ShapeInit
<1>2. Shape /\ [Next]_vars => Shape'
  BY ShapeStep
<1> QED BY <1>1, <1>2, PTL DEF Spec

\* Every variable keeps its type (durable_service_jobs.go:32).
THEOREM TypeCorrectness == Spec => []TypeOK
<1>1. Shape => TypeOK
  BY DEF Shape
<1> QED BY <1>1, ShapeInvariance, PTL

\* A job that runs is on disk with its attempt, and no other one is marked as
\* running unless the process has given up writing (durable_service_jobs.go:662).
THEOREM RunningJobsAreRecorded == Spec => []RunningJobHasWorker
<1>1. Shape => RunningJobHasWorker
  BY DEF Shape
<1> QED BY <1>1, ShapeInvariance, PTL


-----------------------------------------------------------------------------
(* The jobs in memory and on disk.                                          *)

\* The memory stands for something: it is written, or an attempt will end.
Live == fence # "closed" \/ worker # NoWorker

SameRequest ==
    \A x \in Ids : mem[x] # None /\ file[x] # None =>
        mem[x].kind = file[x].kind /\ mem[x].rev = file[x].rev
SameKeys ==
    fence # "closed" => \A x \in Ids : /\ mem[x] = None <=> file[x] = None
                                       /\ mem[x] # None => mem[x].keys = file[x].keys
Unique(jobs) ==
    \A x, y \in Ids, k \in Keys :
        jobs[x] # None /\ jobs[y] # None /\ k \in jobs[x].keys /\ k \in jobs[y].keys => x = y

\* The job a key was answered with still has the key, or is forgotten.
Named(jobs, k) ==
    \/ jobs[acked[k]] # None /\ k \in jobs[acked[k]].keys
    \/ jobs[acked[k]] = None /\ acked[k] \in aged
KeyInv == \A k \in Keys : acked[k] # None => Named(file, k) /\ (Live => Named(mem, k))

\* An end that is on disk is also in a memory that may be written.
FinalInv == Live /\ ~stale => \A x \in Ids : In(file, x, Terminal) => mem[x] = file[x]

JobInv ==
    /\ SameRequest /\ SameKeys /\ Unique(mem) /\ Unique(file)
    /\ KeyInv /\ FinalInv

\* What may become of the jobs in a write: an unfinished one goes on, an old one
\* is dropped, a new one is accepted.
GoesOn(j, p) ==
    /\ j \in Jobs /\ p \in Jobs /\ j.state \notin Terminal
    /\ p.kind = j.kind /\ p.rev = j.rev /\ j.keys \subseteq p.keys
Changed(jobs) ==
    \A x \in Ids :
        \/ jobs[x] = mem[x]
        \/ GoesOn(mem[x], jobs[x])
        \/ jobs[x] = None /\ In(mem, x, Terminal) /\ x \in aged
        \/ mem[x] = None /\ file[x] = None /\ x > born /\ jobs[x] \in Jobs
KeepsKeys(jobs) ==
    \A x \in Ids : /\ jobs[x] = None <=> mem[x] = None
                   /\ mem[x] # None => jobs[x].keys = mem[x].keys

\* Every step that writes the document proposes jobs and meets an outcome.
Proposes(jobs, o) ==
    /\ Live /\ Changed(jobs) /\ Unique(jobs)
    /\ file' = IF o \in {"ok", "late"} THEN jobs ELSE file
    /\ mem' = mem \/ mem' = jobs
    /\ o = "ok" => mem' = jobs
    /\ o # "ok" => mem' = mem \/ KeepsKeys(jobs)
    /\ stale' = (stale \/ o = "late") /\ (o \in {"ok", "late"} => ~stale)
    /\ o \in {"lost", "late", "conflict"} => fence' = "closed"
    /\ fence = "closed" => fence' = "closed"
    /\ o \in Writes \cup Aborted
    /\ \A x \in aged \ aged' : jobs[x] # None /\ file[x] # None
    /\ \A k \in Keys : acked'[k] # acked[k] =>
          /\ o = "ok" /\ Holders(k) = {} /\ acked'[k] \in Ids
          /\ jobs[acked'[k]] # None /\ k \in jobs[acked'[k]].keys

LEMMA ProposalSettles ==
    ASSUME Shape, JobInv, NEW jobs, NEW o, Proposes(jobs, o), NEW x \in Ids,
           In(file, x, Terminal)
    PROVE  file'[x] \in {file[x], None}
<1>1. CASE o \in {"ok", "late"}
  <2>1. file' = jobs /\ ~stale /\ Live
    BY <1>1 DEF Proposes
  <2>2. mem[x] = file[x] /\ mem[x] # None /\ mem[x].state \in Terminal
    BY <2>1 DEF JobInv, FinalInv, In
  <2>3. jobs[x] = mem[x] \/ jobs[x] = None
    BY <2>2 DEF Proposes, Changed, GoesOn
  <2> QED BY <2>1, <2>2, <2>3
<1>2. CASE o \notin {"ok", "late"}
  BY <1>2 DEF Proposes
<1> QED BY <1>1, <1>2

LEMMA ProposalNames ==
    ASSUME Shape, JobInv, NEW jobs, NEW o, Proposes(jobs, o), NEW k \in Keys,
           acked[k] # None, acked'[k] # acked[k]
    PROVE  acked[k] \in aged /\ ~In(mem, acked[k], Waiting \cup Begun)
<1>1. acked[k] \in Ids
  BY DEF Shape, TypeOK
<1>2. Holders(k) = {} /\ Live
  BY DEF Proposes
<1>3. Named(mem, k)
  BY <1>2 DEF JobInv, KeyInv
<1>4. mem[acked[k]] = None /\ acked[k] \in aged
  BY <1>1, <1>2, <1>3 DEF Named, Holders
<1> QED BY <1>4 DEF In

LEMMA ProposalKeeps ==
    ASSUME Shape, JobInv, NEW jobs, NEW o, Proposes(jobs, o)
    PROVE  JobInv'
<1>1. /\ Live /\ Changed(jobs) /\ Unique(jobs)
      /\ file' = IF o \in {"ok", "late"} THEN jobs ELSE file
      /\ mem' = mem \/ mem' = jobs
      /\ o = "ok" => mem' = jobs
      /\ o # "ok" => mem' = mem \/ KeepsKeys(jobs)
      /\ stale' = (stale \/ o = "late") /\ (o \in {"ok", "late"} => ~stale)
      /\ o \in {"lost", "late", "conflict"} => fence' = "closed"
      /\ fence = "closed" => fence' = "closed"
      /\ \A x \in aged \ aged' : jobs[x] # None /\ file[x] # None
  BY DEF Proposes
<1>0. \A j \in Jobs : j # None
  BY NoneAssumption
<1>2. SameRequest'
  <2>1. ASSUME NEW x \in Ids, jobs[x] # None, mem[x] # None
        PROVE  jobs[x].kind = mem[x].kind /\ jobs[x].rev = mem[x].rev
    BY <1>1, <2>1 DEF Changed, GoesOn
  <2>2. ASSUME NEW x \in Ids, jobs[x] # None, file[x] # None
        PROVE  jobs[x].kind = file[x].kind /\ jobs[x].rev = file[x].rev
    <3>1. mem[x] # None => mem[x].kind = file[x].kind /\ mem[x].rev = file[x].rev
      BY <2>2 DEF JobInv, SameRequest
    <3>2. jobs[x] = mem[x] \/ GoesOn(mem[x], jobs[x])
      BY <1>1, <2>2 DEF Changed
    <3> QED BY <1>0, <2>2, <3>1, <3>2 DEF GoesOn
  <2> QED BY <1>1, <2>1, <2>2 DEF SameRequest, JobInv
<1>3. SameKeys'
  <2>1. CASE o = "ok"
    BY <1>1, <2>1 DEF SameKeys
  <2>2. CASE o # "ok" /\ fence' # "closed"
    <3>1. fence # "closed" /\ file' = file
      BY <1>1, <2>2
    <3> QED BY <1>1, <2>2, <3>1 DEF JobInv, SameKeys, KeepsKeys
  <2> QED BY <2>1, <2>2 DEF SameKeys
<1>4. Unique(mem)' /\ Unique(file)'
  BY <1>1 DEF JobInv, Unique
<1>5. KeyInv'
  <2> SUFFICES ASSUME NEW k \in Keys, acked'[k] # None
               PROVE  Named(file, k)' /\ Named(mem, k)'
    BY DEF KeyInv
  <2>1. CASE acked'[k] = acked[k]
    <3> DEFINE a == acked[k]
    <3>1. a \in Ids /\ a <= born
      BY <2>1 DEF Shape, TypeOK, BornInv
    <3>2. Named(file, k) /\ Named(mem, k)
      BY <1>1, <2>1 DEF JobInv, KeyInv
    <3>3. ~(a > born)
      BY <3>1 DEF Shape, TypeOK, Ids
    <3>4. jobs[a] # None => k \in jobs[a].keys /\ mem[a] # None
      <4>1. \/ jobs[a] = mem[a] \/ GoesOn(mem[a], jobs[a]) \/ jobs[a] = None
        BY <1>1, <3>1, <3>3 DEF Changed
      <4> QED BY <1>0, <3>2, <4>1 DEF Named, GoesOn
    <3>5. jobs[a] = None => a \in aged /\ a \in aged'
      <4>1. \/ jobs[a] = mem[a] \/ GoesOn(mem[a], jobs[a]) \/ a \in aged
        BY <1>1, <3>1, <3>3 DEF Changed
      <4> QED BY <1>0, <1>1, <3>2, <4>1 DEF Named, GoesOn
    <3>6. mem[a] = None => a \in aged /\ jobs[a] = None
      BY <3>2, <3>4 DEF Named
    <3>7. mem[a] # None => k \in mem[a].keys
      BY <3>2 DEF Named
    <3>8. file[a] = None => a \in aged'
      BY <1>1, <3>2 DEF Named
    <3>9. file[a] # None => k \in file[a].keys
      BY <3>2 DEF Named
    <3> QED BY <1>1, <2>1, <3>4, <3>5, <3>6, <3>7, <3>8, <3>9 DEF Named
  <2>2. CASE acked'[k] # acked[k]
    <3>1. o = "ok" /\ jobs[acked'[k]] # None /\ k \in jobs[acked'[k]].keys
      BY <2>2 DEF Proposes
    <3> QED BY <1>1, <3>1 DEF Named
  <2> QED BY <2>1, <2>2
<1>6. FinalInv'
  <2> SUFFICES ASSUME ~stale', NEW x \in Ids, In(file, x, Terminal)'
               PROVE  mem'[x] = file'[x]
    BY DEF FinalInv
  <2>1. CASE o = "ok"
    BY <1>1, <2>1
  <2>2. CASE o # "ok"
    <3>1. ~stale /\ o # "late" /\ file' = file
      BY <1>1, <2>2
    <3>2. In(file, x, Terminal)
      BY <3>1 DEF In
    <3>3. mem[x] = file[x] /\ mem[x] # None /\ mem[x].state \in Terminal
      BY <1>1, <3>1, <3>2 DEF JobInv, FinalInv, In
    <3>4. KeepsKeys(jobs) => jobs[x] = mem[x]
      BY <1>1, <3>3 DEF KeepsKeys, Changed, GoesOn
    <3> QED BY <1>1, <2>2, <3>1, <3>3, <3>4
  <2> QED BY <2>1, <2>2
<1> QED BY <1>2, <1>3, <1>4, <1>5, <1>6 DEF JobInv


LEMMA NewAliasProposes ==
    ASSUME Shape, JobInv, NEW k \in Keys, NEW q, fence = "open", NewAlias(k, q),
           UNCHANGED aged
    PROVE  \E jobs, o : Proposes(jobs, o)
<1>1. PICK i \in Twins(q), o \in Writes \cup Aborted :
        LET jobs == [mem EXCEPT ![i].keys = @ \cup {k}] IN
        /\ Write(jobs, o)
        /\ mem' = IF Saved(o) THEN jobs ELSE mem
        /\ acked' = IF Saved(o) THEN [acked EXCEPT ![k] = i] ELSE acked
  BY DEF NewAlias
<1> DEFINE jobs == [mem EXCEPT ![i].keys = @ \cup {k}]
           j == [mem[i] EXCEPT !.keys = @ \cup {k}]
<1>2. /\ i \in Ids /\ mem[i] \in Jobs /\ mem[i].state \in Waiting \cup Begun
  BY DEF Twins, In, Shape, TypeOK
<1>3. /\ j \in Jobs /\ j # None /\ j.keys = mem[i].keys \cup {k}
      /\ j.kind = mem[i].kind /\ j.rev = mem[i].rev
  <2>1. j \in Jobs
    BY <1>2 DEF Jobs
  <2>2. /\ j.keys = mem[i].keys \cup {k}
        /\ j.kind = mem[i].kind /\ j.rev = mem[i].rev
    BY <1>2 DEF Jobs
  <2> QED BY <2>1, <2>2, JobFields
<1>4. jobs[i] = j /\ \A x \in Ids \ {i} : jobs[x] = mem[x]
  BY <1>2 DEF Shape, TypeOK
<1>5. Holders(k) = {}
  BY DEF NewAlias
<1> HIDE DEF jobs, j
<1>6. Changed(jobs)
  BY <1>2, <1>3, <1>4 DEF Changed, GoesOn, Waiting, Begun, Terminal
<1>7. Unique(jobs)
  <2>1. \A x \in Ids : mem[x] # None => k \notin mem[x].keys
    BY <1>5 DEF Holders
  <2> QED BY <1>2, <1>3, <1>4, <2>1, JobFields DEF JobInv, Unique
<1>8. TypeOK /\ Live
  BY DEF Shape, Live
<1>9. /\ file' = IF o \in {"ok", "late"} THEN jobs ELSE file
      /\ stale' = (stale \/ o = "late") /\ (o \in {"ok", "late"} => ~stale)
      /\ o \in {"lost", "late", "conflict"} => fence' = "closed"
      /\ fence = "closed" => fence' = "closed"
  BY <1>1, <1>8, WriteEffect DEF jobs
<1>10. /\ mem' = IF Saved(o) THEN jobs ELSE mem
       /\ acked' = IF Saved(o) THEN [acked EXCEPT ![k] = i] ELSE acked
  BY <1>1 DEF jobs
<1>11. \A h \in Keys : acked'[h] # acked[h] =>
          o = "ok" /\ h = k /\ acked'[h] = i
  BY <1>8, <1>10 DEF Saved, TypeOK
<1>12. /\ mem' = mem \/ mem' = jobs
       /\ o = "ok" => mem' = jobs
       /\ o # "ok" => mem' = mem
  BY <1>10 DEF Saved
<1>13. \A h \in Keys : acked'[h] # acked[h] =>
          /\ o = "ok" /\ Holders(h) = {} /\ acked'[h] \in Ids
          /\ jobs[acked'[h]] # None /\ h \in jobs[acked'[h]].keys
  BY <1>2, <1>3, <1>4, <1>5, <1>11
<1>14. Proposes(jobs, o)
  BY <1>1, <1>6, <1>7, <1>8, <1>9, <1>12, <1>13 DEF Proposes
<1> QED BY <1>14

LEMMA InsertProposes ==
    ASSUME Shape, JobInv, NEW c \in Clients, Insert(c)
    PROVE  \E jobs, o : Proposes(jobs, o)
<1>1. /\ ask[c] \in Requested /\ born + 1 \in Ids
      /\ mem[born + 1] = None /\ file[born + 1] = None
  BY Inserted
<1>2. PICK o \in Writes \cup Aborted, jobs \in JobMaps :
        /\ jobs[born + 1] = Accepted(ask[c])
        /\ \A x \in Ids \ {born + 1} :
              \/ jobs[x] = mem[x]
              \/ /\ jobs[x] = None
                 /\ In(mem, x, Terminal) /\ x \in aged
        /\ Write(jobs, o)
        /\ mem' = IF Saved(o) THEN jobs ELSE mem
        /\ acked' = IF Saved(o) THEN [acked EXCEPT ![ask[c].key] = born + 1] ELSE acked
  BY Inserted
<1> DEFINE k == ask[c].key
<1>3. /\ Accepted(ask[c]) \in Jobs /\ Accepted(ask[c]) # None
      /\ Accepted(ask[c]).keys = {k} /\ k \in Keys
  BY <1>1, AcceptedJob, JobFields DEF Requested
<1>4. fence = "open" /\ aged' = aged /\ Holders(k) = {}
  BY DEF Insert, Found
<1> HIDE DEF k
<1>5. TypeOK /\ Live
  BY <1>4 DEF Shape, Live
<1>6. Changed(jobs)
  <2>1. born + 1 > born
    BY <1>5 DEF TypeOK
  <2> QED BY <1>1, <1>2, <1>3, <2>1 DEF Changed
<1>7. Unique(jobs)
  <2>1. \A x \in Ids : mem[x] # None => k \notin mem[x].keys
    BY <1>4 DEF Holders
  <2>2. \A x \in Ids \ {born + 1} : jobs[x] # None => jobs[x] = mem[x]
    BY <1>2
  <2> QED BY <1>1, <1>2, <1>3, <2>1, <2>2 DEF JobInv, Unique
<1>8. /\ file' = IF o \in {"ok", "late"} THEN jobs ELSE file
      /\ stale' = (stale \/ o = "late") /\ (o \in {"ok", "late"} => ~stale)
      /\ o \in {"lost", "late", "conflict"} => fence' = "closed"
      /\ fence = "closed" => fence' = "closed"
  BY <1>2, <1>5, WriteEffect
<1>9. /\ mem' = mem \/ mem' = jobs
      /\ o = "ok" => mem' = jobs
      /\ o # "ok" => mem' = mem
  BY <1>2 DEF Saved
<1>10. \A h \in Keys : acked'[h] # acked[h] =>
          /\ o = "ok" /\ Holders(h) = {} /\ acked'[h] \in Ids
          /\ jobs[acked'[h]] # None /\ h \in jobs[acked'[h]].keys
  <2>1. \A h \in Keys : acked'[h] # acked[h] => o = "ok" /\ h = k /\ acked'[h] = born + 1
    BY <1>2, <1>5 DEF Saved, TypeOK, k
  <2> QED BY <1>1, <1>2, <1>3, <1>4, <2>1
<1>11. Proposes(jobs, o)
  BY <1>2, <1>4, <1>5, <1>6, <1>7, <1>8, <1>9, <1>10 DEF Proposes
<1> QED BY <1>11

\* What the writes of the scheduler and of a cancelation have in common: the keys
\* stay, and one job may be marked.
LEMMA MarkProposes ==
    ASSUME Shape, JobInv, Live, NEW i \in Ids, NEW jobs, NEW o \in Writes \cup Aborted,
           \/ jobs[i] = mem[i]
           \/ GoesOn(mem[i], jobs[i]) /\ jobs[i].keys = mem[i].keys /\ file[i] # None,
           \A x \in Ids \ {i} : jobs[x] = mem[x],
           file' = IF o \in {"ok", "late"} THEN jobs ELSE file,
           stale' = (stale \/ o = "late"), o \in {"ok", "late"} => ~stale,
           o \in {"lost", "late", "conflict"} => fence' = "closed",
           fence = "closed" => fence' = "closed",
           mem' = mem \/ mem' = jobs, o = "ok" => mem' = jobs,
           \/ aged' = aged
           \/ aged' = aged \ {i} /\ jobs[i] # None /\ file[i] # None,
           acked' = acked
    PROVE  Proposes(jobs, o)
<1>1. \A j \in Jobs : j # None
  BY NoneAssumption
<1>2. Changed(jobs)
  BY DEF Changed
<1>3. KeepsKeys(jobs)
  BY <1>1 DEF KeepsKeys, GoesOn
<1>4. Unique(jobs)
  BY <1>3 DEF KeepsKeys, JobInv, Unique
<1> QED BY <1>2, <1>3, <1>4 DEF Proposes

LEMMA CancelProposes ==
    ASSUME Shape, JobInv, NEW i \in Ids, Cancel(i)
    PROVE  \E jobs, o : Proposes(jobs, o)
<1>1. mem[i] \in Jobs /\ mem[i] # None
  BY Canceled, JobFields
<1>2. PICK o \in Writes \cup Aborted, jobs \in JobMaps :
        /\ jobs[i] \in Jobs /\ jobs[i].keys = mem[i].keys /\ jobs[i].kind = mem[i].kind
        /\ jobs[i].rev = mem[i].rev
        /\ \A x \in Ids \ {i} : jobs[x] = mem[x]
        /\ Write(jobs, o)
        /\ mem' = IF Saved(o) THEN jobs ELSE mem
        /\ IF Saved(o) THEN Finishes(jobs, i) ELSE UNCHANGED aged
  BY Canceled
<1>3. fence = "open" /\ mem[i].state \in Waiting \cup Begun /\ acked' = acked
  BY DEF Cancel, In, requests
<1>4. TypeOK /\ Live
  BY <1>3 DEF Shape, Live
<1>5. file[i] # None
  BY <1>1, <1>3 DEF JobInv, SameKeys
<1>6. GoesOn(mem[i], jobs[i]) /\ jobs[i] # None
  BY <1>1, <1>2, <1>3, JobFields DEF GoesOn, Waiting, Begun, Terminal
<1>7. /\ file' = IF o \in {"ok", "late"} THEN jobs ELSE file
      /\ stale' = (stale \/ o = "late") /\ (o \in {"ok", "late"} => ~stale)
      /\ o \in {"lost", "late", "conflict"} => fence' = "closed"
      /\ fence = "closed" => fence' = "closed"
  BY <1>2, <1>4, WriteEffect
<1>8. aged' = aged \/ aged' = aged \ {i}
  BY <1>2 DEF Finishes
<1>9. (mem' = mem \/ mem' = jobs) /\ (o = "ok" => mem' = jobs)
  BY <1>2 DEF Saved
<1>10. Proposes(jobs, o)
  BY <1>2, <1>3, <1>4, <1>5, <1>6, <1>7, <1>8, <1>9, MarkProposes
<1> QED BY <1>10

LEMMA DropProposes ==
    ASSUME Shape, JobInv, NEW i \in Ids, Drop(i)
    PROVE  \E jobs, o : Proposes(jobs, o)
<1>1. /\ fence = "open" /\ In(mem, i, Waiting) /\ acked' = acked
      /\ mem' = Set(i, "failed") /\ Finishes(mem', i)
  BY DEF Drop, Selected, Due, requests
<1>2. PICK o \in Writes \cup Aborted : Write(mem', o)
  BY DEF Drop, Ending
<1>3. TypeOK /\ Live
  BY <1>1 DEF Shape, Live
<1>4. mem[i] \in Jobs /\ mem[i] # None /\ mem[i].state \in Waiting
  BY <1>1, <1>3 DEF In, TypeOK
<1>5. file[i] # None
  BY <1>1, <1>4 DEF JobInv, SameKeys
<1> DEFINE j == [mem[i] EXCEPT !.state = "failed"]
<1>6. j \in Jobs /\ j.keys = mem[i].keys /\ j.kind = mem[i].kind /\ j.rev = mem[i].rev
  BY <1>4, JobStateEdits DEF States, Terminal, Jobs
<1>7. mem'[i] = j /\ \A x \in Ids \ {i} : mem'[x] = mem[x]
  BY <1>1, <1>3 DEF Set, TypeOK
<1> HIDE DEF j
<1>8. GoesOn(mem[i], mem'[i]) /\ mem'[i].keys = mem[i].keys /\ mem'[i] # None
  BY <1>4, <1>6, <1>7, JobFields DEF GoesOn, Waiting, Terminal
<1>9. /\ file' = IF o \in {"ok", "late"} THEN mem' ELSE file
      /\ stale' = (stale \/ o = "late") /\ (o \in {"ok", "late"} => ~stale)
      /\ o \in {"lost", "late", "conflict"} => fence' = "closed"
      /\ fence = "closed" => fence' = "closed"
  BY <1>2, <1>3, WriteEffect
<1>10. aged' = aged \/ aged' = aged \ {i}
  BY <1>1 DEF Finishes
<1> DEFINE jobs == mem'
<1>11. jobs = mem'
  OBVIOUS
<1> HIDE DEF jobs
<1>12. Proposes(jobs, o)
  BY <1>1, <1>3, <1>5, <1>7, <1>8, <1>9, <1>10, <1>11, MarkProposes
<1> QED BY <1>12

LEMMA DispatchProposes ==
    ASSUME Shape, JobInv, NEW i \in Ids, Dispatch(i)
    PROVE  \E jobs, o : Proposes(jobs, o)
<1>1. /\ fence = "open" /\ In(mem, i, Waiting) /\ acked' = acked /\ aged' = aged
  BY DEF Dispatch, Selected, Due, requests
<1>2. PICK o \in Writes \cup Aborted :
          /\ Write(Started(i), o)
          /\ mem' = IF Kept(o) THEN mem ELSE Started(i)
  BY DEF Dispatch, Ending
<1>3. TypeOK /\ Live
  BY <1>1 DEF Shape, Live
<1>4. mem[i] \in Jobs /\ mem[i] # None /\ mem[i].state \in Waiting
  BY <1>1, <1>3 DEF In, TypeOK
<1>5. file[i] # None
  BY <1>1, <1>4 DEF JobInv, SameKeys
<1>6. mem[i].attempts < MaxAttempts
  BY <1>4, JobFields, LimitAssumption DEF Dispatch, Exhausted
<1>7. /\ Started(i)[i] \in Jobs /\ Started(i)[i].keys = mem[i].keys
      /\ Started(i)[i].kind = mem[i].kind /\ Started(i)[i].rev = mem[i].rev
      /\ \A x \in Ids \ {i} : Started(i)[x] = mem[x]
  BY <1>1, <1>3, <1>6, StartedJob
<1>8. GoesOn(mem[i], Started(i)[i])
  BY <1>4, <1>7 DEF GoesOn, Waiting, Terminal
<1>9. /\ file' = IF o \in {"ok", "late"} THEN Started(i) ELSE file
      /\ stale' = (stale \/ o = "late") /\ (o \in {"ok", "late"} => ~stale)
      /\ o \in {"lost", "late", "conflict"} => fence' = "closed"
      /\ fence = "closed" => fence' = "closed"
  BY <1>2, <1>3, WriteEffect
<1>10. (mem' = mem \/ mem' = Started(i)) /\ (o = "ok" => mem' = Started(i))
  BY <1>2 DEF Kept
<1>11. Proposes(Started(i), o)
  BY <1>1, <1>3, <1>5, <1>7, <1>8, <1>9, <1>10, MarkProposes
<1> QED BY <1>11

LEMMA FinishProposes ==
    ASSUME Shape, JobInv, Finish
    PROVE  \E jobs, o : Proposes(jobs, o)
<1> DEFINE i == worker.id
<1>1. /\ worker # NoWorker /\ i \in Ids /\ mem[i] \in Jobs /\ mem'[i] \in Jobs
      /\ mem'[i].keys = mem[i].keys /\ mem'[i].kind = mem[i].kind
      /\ mem'[i].rev = mem[i].rev
      /\ \A x \in Ids \ {i} : mem'[x] = mem[x]
  BY Finished
<1>2. PICK o \in Writes \cup Aborted : Write(mem', o)
  BY Finished
<1>3. TypeOK /\ Live /\ acked' = acked /\ Finishes(mem', i)
  BY <1>1 DEF Shape, Live, Finish, requests
<1>4. file[i] # None /\ mem[i].state \in Begun
  BY <1>1 DEF Shape, RunningJobHasWorker, In
<1>5. GoesOn(mem[i], mem'[i]) /\ mem'[i] # None
  BY <1>1, <1>4, JobFields DEF GoesOn, Begun, Terminal
<1>6. /\ file' = IF o \in {"ok", "late"} THEN mem' ELSE file
      /\ stale' = (stale \/ o = "late") /\ (o \in {"ok", "late"} => ~stale)
      /\ o \in {"lost", "late", "conflict"} => fence' = "closed"
      /\ fence = "closed" => fence' = "closed"
  BY <1>2, <1>3, WriteEffect
<1>7. aged' = aged \/ aged' = aged \ {i}
  BY <1>3 DEF Finishes
<1> DEFINE jobs == mem'
<1>8. jobs = mem'
  OBVIOUS
<1> HIDE DEF jobs, i
<1>9. Proposes(jobs, o)
  BY <1>1, <1>3, <1>4, <1>5, <1>6, <1>7, <1>8, MarkProposes
<1> QED BY <1>9

LEMMA RewriteProposes ==
    ASSUME Shape, JobInv, Maintain \/ Retry
    PROVE  \E jobs, o : Proposes(jobs, o)
<1>1. /\ mem' = mem /\ aged' = aged /\ acked' = acked /\ fence # "closed"
  BY DEF Maintain, Retry, requests
<1>2. TypeOK /\ Live
  BY <1>1 DEF Shape, Live
<1>3. PICK o \in Writes \cup Aborted :
         /\ file' = IF o \in {"ok", "late"} THEN mem ELSE file
         /\ stale' = (stale \/ o = "late") /\ (o \in {"ok", "late"} => ~stale)
         /\ o \in {"lost", "late", "conflict"} => fence' = "closed"
  <2>1. CASE Maintain
    <3>1. PICK o \in Writes : Write(mem, o)
      BY <2>1 DEF Maintain
    <3> QED BY <1>2, <3>1, WriteEffect
  <2>2. CASE Retry
    BY <1>2, <2>2, RetryEffect DEF Writes
  <2> QED BY <2>1, <2>2
<1>4. Changed(mem) /\ Unique(mem)
  BY DEF Changed, JobInv
<1>5. Proposes(mem, o)
  BY <1>1, <1>2, <1>3, <1>4 DEF Proposes
<1> QED BY <1>5


\* A key is answered with the job that has it.
LEMMA KnownKeyKeeps ==
    ASSUME Shape, JobInv, NEW k \in Keys, NEW q, fence = "open", KnownKey(k, q),
           UNCHANGED <<aged, rest>>
    PROVE  /\ JobInv'
           /\ UNCHANGED file
           /\ \A h \in Keys : acked[h] # None /\ acked'[h] # acked[h] =>
                 acked[h] \in aged /\ ~In(mem, acked[h], Waiting \cup Begun)
<1>1. PICK i \in Holders(k) : acked' = [acked EXCEPT ![k] = i]
  BY DEF KnownKey
<1>2. UNCHANGED <<file, mem, fence, stale, aged, worker>>
  BY DEF KnownKey, doc, rest
<1>3. i \in Ids /\ mem[i] # None /\ k \in mem[i].keys
  BY DEF Holders
<1>4. file[i] # None /\ k \in file[i].keys
  BY <1>3 DEF JobInv, SameKeys
<1>5. TypeOK /\ Live
  BY DEF Shape, Live
<1>6. acked'[k] = i /\ \A h \in Keys \ {k} : acked'[h] = acked[h]
  BY <1>1, <1>5 DEF TypeOK
<1>7. SameRequest' /\ SameKeys' /\ Unique(mem)' /\ Unique(file)' /\ FinalInv'
  BY <1>2 DEF JobInv, SameRequest, SameKeys, Unique, FinalInv, Live, In
<1>8. KeyInv'
  <2>1. ASSUME NEW h \in Keys, acked'[h] # None
        PROVE  Named(file, h)' /\ Named(mem, h)'
    <3>1. CASE h = k
      BY <1>2, <1>3, <1>4, <1>6, <3>1 DEF Named
    <3>2. CASE h # k
      BY <1>2, <1>5, <1>6, <2>1, <3>2 DEF JobInv, KeyInv, Named
    <3> QED BY <3>1, <3>2
  <2> QED BY <2>1 DEF KeyInv
<1>9. ASSUME acked[k] # None, acked[k] # i
      PROVE  acked[k] \in aged /\ ~In(mem, acked[k], Waiting \cup Begun)
  <2>1. acked[k] \in Ids /\ Named(mem, k)
    BY <1>5, <1>9 DEF JobInv, KeyInv, TypeOK
  <2>2. mem[acked[k]] = None /\ acked[k] \in aged
    BY <1>3, <1>9, <2>1 DEF Named, JobInv, Unique
  <2> QED BY <2>2 DEF In
<1> QED BY <1>2, <1>6, <1>7, <1>8, <1>9 DEF JobInv

\* Steps that leave the jobs, the document and the answers alone.
LEMMA QuietKeeps ==
    ASSUME Shape, JobInv, UNCHANGED <<file, mem, fence, stale, acked>>, aged \subseteq aged',
           worker' = NoWorker <=> worker = NoWorker
    PROVE  JobInv'
<1>1. SameRequest' /\ SameKeys' /\ Unique(mem)' /\ Unique(file)' /\ FinalInv'
  BY DEF JobInv, SameRequest, SameKeys, Unique, FinalInv, Live, In
<1>2. KeyInv'
  <2>1. ASSUME NEW k \in Keys, acked'[k] # None
        PROVE  Named(file, k)' /\ (Live' => Named(mem, k)')
    BY <2>1 DEF JobInv, KeyInv, Named, Live
  <2> QED BY <2>1 DEF KeyInv
<1> QED BY <1>1, <1>2 DEF JobInv

LEMMA QuietSteps ==
    ASSUME Shape, Works \/ AroundJobs
           \/ \E c \in Clients : Withdraw(c) \/ \E k \in Keys, q \in Requests : Prepare(c, k, q)
    PROVE  /\ UNCHANGED <<file, mem, fence, stale, acked>> /\ aged \subseteq aged'
           /\ worker' = NoWorker <=> worker = NoWorker
<1>1. CASE Works
  BY <1>1, WorksKeep DEF others, doc, requests
<1>2. CASE AroundJobs
  <2>1. aged \subseteq aged'
    <3>1. CASE Interrupt \/ ManualEnds \/ Edit \/ Shutdown
      BY <3>1 DEF Interrupt, ManualEnds, Edit, Shutdown
    <3>2. CASE \E i \in Ids : Preempt(i) \/ Ripen(i) \/ Age(i)
      BY <3>2 DEF Preempt, Ripen, Age
    <3> QED BY <1>2, <3>1, <3>2 DEF AroundJobs
  <2>2. Interrupted = NoWorker <=> worker = NoWorker
    BY InterruptedIsWorker
  <2> QED BY <1>2, <2>1, <2>2, AroundJobsKeeps
<1>3. CASE \E c \in Clients : Withdraw(c) \/ \E k \in Keys, q \in Requests : Prepare(c, k, q)
  BY <1>3 DEF Withdraw, Prepare, doc, rest
<1> QED BY <1>1, <1>2, <1>3

LEMMA RestartKeeps ==
    ASSUME Shape, JobInv, Restart
    PROVE  /\ JobInv'
           /\ UNCHANGED acked
           /\ \A x \in Ids : In(file, x, Terminal) => file'[x] = file[x]
<1>1. /\ AfterStart \in JobMaps
      /\ \A x \in Ids : AfterStart[x] = Recovered(file[x])
      /\ worker' = NoWorker /\ acked' = acked
      /\ file' = file \/ file' = AfterStart
      /\ \/ mem' = AfterStart /\ file' = AfterStart /\ fence' = "open"
         \/ mem' = Empty /\ fence' = "closed"
      /\ aged' = aged \ {x \in Ids : In(AfterStart, x, Terminal) /\ AfterStart[x] # file[x]}
  BY Restarted
<1>2. \A x \in Ids : /\ AfterStart[x] = None <=> file[x] = None
                     /\ file[x] # None => AfterStart[x].keys = file[x].keys
                     /\ In(file, x, Terminal) => AfterStart[x] = file[x]
  <2>1. ASSUME NEW x \in Ids
        PROVE  /\ AfterStart[x] = None <=> file[x] = None
               /\ file[x] # None => AfterStart[x].keys = file[x].keys
               /\ In(file, x, Terminal) => AfterStart[x] = file[x]
    <3>1. file[x] \in Jobs \cup {None}
      BY DEF Shape, TypeOK
    <3> QED BY <1>1, <3>1, RecoveredJob DEF In
  <2> QED BY <2>1
<1>3. \A x \in Ids : Empty[x] = None
  BY DEF Empty
<1>4. Unique(AfterStart) /\ Unique(Empty)
  BY <1>2, <1>3 DEF JobInv, Unique
<1>5. Unique(mem)' /\ Unique(file)'
  BY <1>1, <1>4 DEF JobInv, Unique
<1>6. SameRequest' /\ SameKeys' /\ FinalInv'
  BY <1>1, <1>3 DEF SameRequest, SameKeys, FinalInv, Live, In
<1>7. KeyInv'
  <2>1. ASSUME NEW k \in Keys, acked'[k] # None
        PROVE  Named(file, k)' /\ (Live' => Named(mem, k)')
    <3> DEFINE a == acked[k]
    <3>1. a \in Ids /\ Named(file, k)
      BY <1>1, <2>1 DEF JobInv, KeyInv, Shape, TypeOK
    <3>2. file[a] = None => a \in aged'
      BY <1>1, <1>2, <3>1 DEF Named, In
    <3>3. Named(file, k)'
      BY <1>1, <1>2, <3>1, <3>2 DEF Named
    <3>4. Live' => mem' = file'
      BY <1>1 DEF Live
    <3> QED BY <3>3, <3>4 DEF Named
  <2> QED BY <2>1 DEF KeyInv
<1> QED BY <1>1, <1>2, <1>5, <1>6, <1>7 DEF JobInv

LEMMA JobInit == Init => JobInv
<1> SUFFICES ASSUME Init PROVE JobInv
  OBVIOUS
<1>1. /\ \A i \in Ids : mem[i] = None /\ file[i] = None
      /\ \A k \in Keys : acked[k] = None
  BY DEF Init, Empty
<1> QED BY <1>1 DEF JobInv, SameRequest, SameKeys, Unique, KeyInv, FinalInv, In

\* The properties of one step, with the invariant after it.
KeysStay ==
    \A k \in Keys : acked[k] # None =>
        \/ acked'[k] = acked[k]
        \/ acked[k] \in aged /\ ~In(mem, acked[k], Waiting \cup Begun)
EndsStay == \A i \in Ids : In(file, i, Terminal) => file'[i] \in {file[i], None}

LEMMA LookupStep ==
    ASSUME Shape, JobInv, NEW k \in Keys, NEW q, Lookup(k, q), UNCHANGED <<aged, rest>>
    PROVE  JobInv' /\ KeysStay /\ EndsStay
<1>1. CASE KnownKey(k, q)
  BY <1>1, KnownKeyKeeps DEF Lookup, KeysStay, EndsStay
<1>2. CASE NewAlias(k, q)
  <2>1. PICK jobs, o : Proposes(jobs, o)
    BY <1>2, NewAliasProposes DEF Lookup
  <2> QED BY <2>1, ProposalKeeps, ProposalNames, ProposalSettles DEF KeysStay, EndsStay
<1> QED BY <1>1, <1>2 DEF Lookup

LEMMA JobStep ==
    ASSUME Shape, JobInv, [Next]_vars
    PROVE  JobInv' /\ KeysStay /\ EndsStay
<1>1. CASE Works \/ AroundJobs \/ UNCHANGED vars
           \/ \E c \in Clients : Withdraw(c) \/ \E k \in Keys, q \in Requests : Prepare(c, k, q)
  <2>1. /\ UNCHANGED <<file, mem, fence, stale, acked>> /\ aged \subseteq aged'
        /\ worker' = NoWorker <=> worker = NoWorker
    BY <1>1, QuietSteps DEF vars
  <2> QED BY <2>1, QuietKeeps DEF KeysStay, EndsStay
<1>2. CASE \E c \in Clients, k \in Keys, q \in Requests : Ask(c, k, q)
  BY <1>2, LookupStep DEF Ask
<1>3. CASE \E c \in Clients : InsertFound(c)
  <2>1. PICK c \in Clients : InsertFound(c)
    BY <1>3
  <2>2. ask[c].key \in Keys
    BY <2>1 DEF InsertFound, Requested, Shape, TypeOK
  <2> QED BY <2>1, <2>2, LookupStep DEF InsertFound
<1>4. CASE \/ \E c \in Clients : Insert(c)
           \/ \E i \in Ids : Cancel(i) \/ Drop(i) \/ Dispatch(i)
           \/ Maintain \/ Retry \/ Finish
  <2>1. PICK jobs, o : Proposes(jobs, o)
    BY <1>4, InsertProposes, CancelProposes, DropProposes, DispatchProposes,
       RewriteProposes, FinishProposes
  <2> QED BY <2>1, ProposalKeeps, ProposalNames, ProposalSettles DEF KeysStay, EndsStay
<1>5. CASE Restart
  BY <1>5, RestartKeeps DEF KeysStay, EndsStay
<1> QED BY <1>1, <1>2, <1>3, <1>4, <1>5, Steps

LEMMA JobInvariance == Spec => [](Shape /\ JobInv)
<1>1. Init => Shape /\ JobInv
  BY ShapeInit, JobInit
<1>2. Shape /\ JobInv /\ [Next]_vars => Shape' /\ JobInv'
  BY ShapeStep, JobStep
<1> QED BY <1>1, <1>2, PTL DEF Spec

\* A repeated or a concurrent request is never accepted as a second job
\* (durable_service_jobs.go:330).
THEOREM KeysNameOneJob == Spec => KeyNamesOneJob
<1>1. Shape /\ JobInv /\ [Next]_vars =>
        [\A k \in Keys : acked[k] # None =>
          \/ acked'[k] = acked[k]
          \/ acked[k] \in aged /\ ~In(mem, acked[k], Waiting \cup Begun)]_vars
  BY JobStep DEF KeysStay
<1> QED BY <1>1, JobInvariance, PTL DEF Spec, KeyNamesOneJob

\* No write replaces an end that is on disk (file_target.go:141).
THEOREM SettledJobsAreFinal == Spec => SettledJobIsFinal
<1>1. Shape /\ JobInv /\ [Next]_vars =>
        [\A i \in Ids : In(file, i, Terminal) => file'[i] \in {file[i], None}]_vars
  BY JobStep DEF EndsStay
<1> QED BY <1>1, JobInvariance, PTL DEF Spec, SettledJobIsFinal


-----------------------------------------------------------------------------
(* Nothing is done twice.                                                   *)

\* A plan that has begun is at work, or over, or left to the next process.
Over(x) ==
    \/ mem[x] = None
    \/ mem[x].state \in Terminal
    \/ closing /\ worker.id # x
AtWork(x) ==
    /\ worker.id = x /\ worker.pc \in {"work", "ended"}
    /\ worker.result \notin {"busy", "more", "network"}
AppliesInv == \A x \in Ids : applies[x] >= 1 => Over(x) \/ AtWork(x)

\* What the jobs say of what was done: a plan commits only after it began, and a
\* Stop or a Resume outdates the settings it was asked for.
Counted(jobs) ==
    \A x \in Ids : jobs[x] # None =>
        /\ jobs[x].kind = "apply" => commits[x] <= applies[x]
        /\ jobs[x].kind # "apply" => applies[x] = 0
        /\ jobs[x].kind \in Runtime /\ commits[x] >= 1 => jobs[x].rev < rev

\* A transaction under way works on the reviewed settings.
AttemptInv ==
    worker.pc = "work" =>
        /\ mem[worker.id].rev = rev
        /\ mem[worker.id].kind = "apply" => applies[worker.id] = 1 /\ commits[worker.id] = 0

ActInv == ActsOnce /\ AppliesInv /\ Counted(mem) /\ Counted(file) /\ AttemptInv

LEMMA ActInit == Init => ActInv
<1> SUFFICES ASSUME Init PROVE ActInv
  OBVIOUS
<1>1. \A i \in Ids : mem[i] = None /\ file[i] = None /\ commits[i] = 0 /\ applies[i] = 0
  BY DEF Init, Empty
<1> QED BY <1>1 DEF Init, ActInv, ActsOnce, AppliesInv, Over, Counted, AttemptInv, NoWorker

\* A write changes neither the kind nor the settings of a job.
LEMMA ProposalCounts ==
    ASSUME Shape, ActInv, NEW jobs, NEW o, Proposes(jobs, o),
           UNCHANGED <<applies, commits, rev>>
    PROVE  /\ ActsOnce' /\ Counted(mem)' /\ Counted(file)'
           /\ \A x \in Ids : applies[x] >= 1 /\ (mem[x] = None \/ mem[x].state \in Terminal) =>
                 mem'[x] = None \/ mem'[x].state \in Terminal
<1>1. \A x \in Ids : x > born => commits[x] = 0 /\ applies[x] = 0
  BY DEF Shape, BornInv, TypeOK, Ids
<1>2. \A j \in Jobs : j # None
  BY NoneAssumption
<1>3. ASSUME NEW x \in Ids, jobs[x] # None
      PROVE  /\ jobs[x].kind = "apply" => commits[x] <= applies[x]
             /\ jobs[x].kind # "apply" => applies[x] = 0
             /\ jobs[x].kind \in Runtime /\ commits[x] >= 1 => jobs[x].rev < rev
  <2>1. CASE x > born
    BY <1>1, <2>1
  <2>2. CASE ~(x > born)
    <3>1. mem[x] # None /\ jobs[x].kind = mem[x].kind /\ jobs[x].rev = mem[x].rev
      BY <1>2, <1>3, <2>2 DEF Proposes, Changed, GoesOn
    <3> QED BY <3>1 DEF ActInv, Counted
  <2> QED BY <2>1, <2>2
<1>4. Counted(jobs)
  BY <1>3 DEF Counted
<1>5. Counted(mem)' /\ Counted(file)'
  <2>1. (mem' = mem \/ mem' = jobs) /\ (file' = file \/ file' = jobs)
    BY DEF Proposes
  <2> QED BY <1>4, <2>1 DEF ActInv, Counted
<1>6. ASSUME NEW x \in Ids, applies[x] >= 1, mem[x] = None \/ mem[x].state \in Terminal
      PROVE  jobs[x] = None \/ jobs[x].state \in Terminal
  <2>1. ~(x > born)
    BY <1>1, <1>6
  <2> QED BY <1>2, <1>6, <2>1 DEF Proposes, Changed, GoesOn
<1>7. ActsOnce'
  BY DEF ActInv, ActsOnce
<1> QED BY <1>5, <1>6, <1>7 DEF Proposes

\* Requests and cancelations leave the worker at its work.
LEMMA BesideActs ==
    ASSUME Shape, ActInv, NEW jobs, NEW o, Proposes(jobs, o),
           UNCHANGED <<applies, commits, rev>>,
           worker'.id = worker.id, worker'.pc = worker.pc, worker'.result = worker.result,
           closing' = closing
    PROVE  ActInv'
<1>1. ActsOnce' /\ Counted(mem)' /\ Counted(file)'
  BY ProposalCounts
<1>2. AppliesInv'
  BY ProposalCounts DEF ActInv, AppliesInv, Over, AtWork
<1>3. AttemptInv'
  <2>1. ASSUME worker.pc = "work"
        PROVE  mem'[worker.id].rev = mem[worker.id].rev /\ mem'[worker.id].kind = mem[worker.id].kind
    <3>1. worker # NoWorker
      BY <2>1 DEF NoWorker
    <3>2. worker.id \in Ids /\ mem[worker.id] # None /\ mem[worker.id].state \in Begun
      BY <3>1 DEF Shape, WorkerInv, RunningJobHasWorker, In
    <3>3. jobs[worker.id] = mem[worker.id] \/ GoesOn(mem[worker.id], jobs[worker.id])
      BY <3>2 DEF Proposes, Changed, In, Begun, Terminal
    <3> QED BY <3>3 DEF Proposes, GoesOn
  <2> QED BY <2>1 DEF ActInv, AttemptInv
<1> QED BY <1>1, <1>2, <1>3 DEF ActInv

\* The scheduler, while nothing runs.
LEMMA ScheduleActs ==
    ASSUME Shape, ActInv, NEW jobs, NEW o, Proposes(jobs, o),
           UNCHANGED <<applies, commits, rev>>,
           worker = NoWorker, ~closing, worker'.pc # "work"
    PROVE  ActInv'
<1>1. ActsOnce' /\ Counted(mem)' /\ Counted(file)'
  BY ProposalCounts
<1>2. AppliesInv'
  <2>1. ASSUME NEW x \in Ids, applies'[x] >= 1
        PROVE  mem'[x] = None \/ mem'[x].state \in Terminal
    <3>1. mem[x] = None \/ mem[x].state \in Terminal
      BY <2>1 DEF ActInv, AppliesInv, Over, AtWork, NoWorker
    <3> QED BY <2>1, <3>1, ProposalCounts
  <2> QED BY <2>1 DEF AppliesInv, Over
<1>3. AttemptInv'
  BY DEF AttemptInv
<1> QED BY <1>1, <1>2, <1>3 DEF ActInv

LEMMA FinishActs ==
    ASSUME Shape, JobInv, ActInv, Finish
    PROVE  ActInv'
<1> DEFINE i == worker.id
<1>1. /\ worker # NoWorker /\ i \in Ids /\ mem[i] \in Jobs
      /\ worker' = NoWorker
      /\ mem'[i] = Outcome(mem[i], worker.result)
      /\ \A x \in Ids \ {i} : mem'[x] = mem[x]
  BY Finished
<1>2. PICK jobs, o : Proposes(jobs, o)
  BY FinishProposes
<1>3. UNCHANGED <<applies, commits, rev, closing>> /\ worker.pc = "ended"
  BY DEF Finish, history, world
<1>4. ActsOnce' /\ Counted(mem)' /\ Counted(file)'
  BY <1>2, <1>3, ProposalCounts
<1>5. AppliesInv'
  <2> SUFFICES ASSUME NEW x \in Ids, applies[x] >= 1 PROVE Over(x)'
    BY <1>3 DEF AppliesInv
  <2>1. CASE x # i
    <3>1. Over(x)
      BY <2>1 DEF ActInv, AppliesInv, AtWork
    <3>2. worker'.id # x
      BY <1>1 DEF NoWorker, Ids
    <3> QED BY <1>1, <1>3, <2>1, <3>1, <3>2 DEF Over
  <2>2. CASE x = i
    <3>1. mem[i].kind = "apply" /\ mem[i] # None /\ mem[i].state \in Begun
      BY <1>1, <2>2, JobFields DEF ActInv, Counted, Shape, RunningJobHasWorker, In
    <3>2. worker.result \notin {"busy", "more", "network"}
      BY <2>2, <3>1 DEF ActInv, AppliesInv, Over, AtWork, Begun, Terminal
    <3>3. \/ \E s \in Terminal : mem'[i] = To(mem[i], s)
          \/ closing
      <4>1. \E s \in Terminal :
              s = CASE worker.result = "ok" -> "completed"
                    [] worker.result = "canceled" -> "canceled"
                    [] OTHER -> "failed"
        BY DEF Terminal
      <4> QED BY <1>1, <3>2, <4>1 DEF Outcome, Terminal
    <3>4. worker'.id # i
      BY <1>1 DEF NoWorker, Ids
    <3>5. \A s \in Terminal : To(mem[i], s).state = s
      BY <1>1 DEF To, Jobs
    <3> QED BY <1>3, <2>2, <3>3, <3>4, <3>5 DEF Over
  <2> QED BY <2>1, <2>2
<1>6. AttemptInv'
  BY <1>1 DEF AttemptInv, NoWorker
<1> QED BY <1>4, <1>5, <1>6 DEF ActInv

LEMMA RestartActs ==
    ASSUME Shape, ActInv, Restart
    PROVE  ActInv'
<1>1. /\ \A x \in Ids : AfterStart[x] = Recovered(file[x])
      /\ worker' = NoWorker /\ UNCHANGED <<applies, commits, rev>>
      /\ file' = file \/ file' = AfterStart
      /\ mem' = AfterStart \/ mem' = Empty
  BY Restarted DEF history
<1>2. \A x \in Ids : AfterStart[x] # None =>
        /\ file[x] # None /\ AfterStart[x].kind = file[x].kind /\ AfterStart[x].rev = file[x].rev
        /\ file[x].kind = "apply" => AfterStart[x].state \in Terminal
  BY <1>1, RecoveredJob DEF Shape, TypeOK
<1>3. Counted(AfterStart) /\ Counted(Empty)
  BY <1>2 DEF ActInv, Counted, Empty
<1>4. Counted(mem)' /\ Counted(file)' /\ ActsOnce'
  BY <1>1, <1>3 DEF ActInv, Counted, ActsOnce
<1>5. AppliesInv'
  <2>1. ASSUME NEW x \in Ids, applies[x] >= 1, AfterStart[x] # None
        PROVE  AfterStart[x].state \in Terminal
    BY <1>2, <2>1 DEF ActInv, Counted
  <2>2. \A x \in Ids : Empty[x] = None
    BY DEF Empty
  <2> QED BY <1>1, <2>1, <2>2 DEF AppliesInv, Over
<1>6. AttemptInv'
  BY <1>1 DEF AttemptInv, NoWorker
<1> QED BY <1>4, <1>5, <1>6 DEF ActInv

LEMMA AroundActs ==
    ASSUME Shape, ActInv, AroundJobs
    PROVE  ActInv'
<1>1. /\ UNCHANGED <<file, mem, applies, commits>>
      /\ worker'.id = worker.id /\ worker'.pc = worker.pc /\ worker'.result = worker.result
      /\ closing => closing'
  BY AroundJobsKeeps, InterruptedIsWorker DEF Shape, TypeOK
<1>2. rev' = rev \/ (rev' = rev + 1 /\ worker.pc # "work")
  <2>1. CASE Interrupt \/ ManualEnds \/ Edit \/ Shutdown
    BY <2>1 DEF Interrupt, ManualEnds, Edit, Shutdown, world
  <2>2. CASE \E i \in Ids : Preempt(i) \/ Ripen(i) \/ Age(i)
    BY <2>2 DEF Preempt, Ripen, Age, world
  <2> QED BY <2>1, <2>2 DEF AroundJobs
<1>3. ActsOnce' /\ AppliesInv'
  BY <1>1 DEF ActInv, ActsOnce, AppliesInv, Over, AtWork
<1>4. \A J \in {mem, file} : J \in [Ids -> Jobs \cup {None}]
  BY DEF Shape, TypeOK
<1>5. Counted(mem)' /\ Counted(file)'
  <2>1. \A x \in Ids : /\ mem[x] # None => mem[x].rev \in Nat
                       /\ file[x] # None => file[x].rev \in Nat
    BY <1>4, JobFields
  <2>2. rev \in Nat
    BY DEF Shape, TypeOK
  <2> QED BY <1>1, <1>2, <2>1, <2>2 DEF ActInv, Counted
<1>6. AttemptInv'
  BY <1>1, <1>2 DEF ActInv, AttemptInv
<1> QED BY <1>3, <1>5, <1>6 DEF ActInv

\* A job whose attempt starts has done nothing yet, or only outdated its settings.
LEMMA AtStart ==
    ASSUME Shape, ActInv, worker # NoWorker
    PROVE  /\ worker.id \in Ids /\ mem[worker.id] \in Jobs /\ mem[worker.id].state \in Begun
           /\ worker.pc = "start" => applies[worker.id] = 0
           /\ worker.pc = "start" /\ mem[worker.id].kind = "apply" => commits[worker.id] = 0
<1>1. worker.id \in Ids /\ mem[worker.id] # None /\ mem[worker.id].state \in Begun
  BY DEF Shape, WorkerInv, RunningJobHasWorker, In
<1>2. /\ mem[worker.id] \in Jobs
      /\ applies[worker.id] \in Nat /\ commits[worker.id] \in Nat
  BY <1>1 DEF Shape, TypeOK
<1>3. ASSUME worker.pc = "start" PROVE applies[worker.id] = 0
  <2>1. ~Over(worker.id) /\ ~AtWork(worker.id)
    BY <1>1, <1>3 DEF Over, AtWork, Begun, Terminal
  <2> QED BY <1>1, <1>2, <2>1 DEF ActInv, AppliesInv
<1>4. mem[worker.id].kind = "apply" => commits[worker.id] <= applies[worker.id]
  BY <1>1 DEF ActInv, Counted
<1> QED BY <1>1, <1>2, <1>3, <1>4

\* An attempt that ends without a change, or fails, or only reads.
LEMMA IdleActs ==
    ASSUME Shape, ActInv, Busy \/ Refuse \/ Settle \/ Fail \/ Read
    PROVE  ActInv'
<1>1. /\ UNCHANGED <<mem, file, closing, applies, commits, rev>>
      /\ worker # NoWorker /\ worker'.id = worker.id
  <2>1. Works
    BY DEF Works
  <2> QED BY <2>1, WorksKeep DEF Busy, Refuse, Settle, Fail, Read, others, doc, world
<1>2. \E result : worker' = Ended(result)
  BY DEF Busy, Refuse, Settle, Fail, Read
<1>3. worker'.pc = "ended"
  BY <1>2 DEF Ended, Shape, TypeOK
<1>4. ActsOnce' /\ Counted(mem)' /\ Counted(file)'
  BY <1>1 DEF ActInv, ActsOnce, Counted
<1>5. AppliesInv'
  <2> SUFFICES ASSUME NEW x \in Ids, applies[x] >= 1 PROVE Over(x)' \/ AtWork(x)'
    BY <1>1 DEF AppliesInv
  <2>1. CASE Over(x)
    BY <1>1, <2>1 DEF Over
  <2>2. CASE AtWork(x)
    <3>1. x = worker.id /\ worker.pc \in {"work", "ended"}
      BY <2>2 DEF AtWork
    <3>2. CASE Read
      <4>1. mem[x] \in Jobs /\ mem[x].kind # "apply"
        BY <1>1, <3>1, <3>2, AtStart DEF Read, Reading, job
      <4> QED BY <4>1, JobFields DEF ActInv, Counted
    <3>3. CASE Fail
      <4>1. worker'.result = "code"
        BY <3>3 DEF Fail, Ended, Shape, TypeOK
      <4> QED BY <1>1, <1>3, <3>1, <4>1 DEF AtWork
    <3> QED BY <3>1, <3>2, <3>3 DEF Busy, Refuse, Settle, Enters
  <2> QED BY <2>1, <2>2 DEF ActInv, AppliesInv
<1>6. AttemptInv'
  BY <1>3 DEF AttemptInv
<1> QED BY <1>4, <1>5, <1>6 DEF ActInv

LEMMA BeginActs ==
    ASSUME Shape, JobInv, ActInv, Begin
    PROVE  ActInv'
<1> DEFINE i == worker.id
<1>1. /\ worker # NoWorker /\ worker.pc = "start" /\ worker.result = "none"
  BY DEF Begin, Enters, NoWorker, Shape, WorkerInv
<1>2. /\ i \in Ids /\ mem[i] \in Jobs /\ mem[i] # None /\ applies[i] = 0
      /\ mem[i].kind = "apply" => commits[i] = 0
  BY <1>1, AtStart, JobFields
<1>3. /\ UNCHANGED <<mem, file, closing, commits, rev>>
      /\ mem[i].rev = rev
  BY DEF Begin, others, doc, world, job
<1>4. worker'.id = i /\ worker'.pc = "work" /\ worker'.result = "none"
  BY <1>1 DEF Begin, Shape, TypeOK
<1>5. /\ applies'[i] = IF mem[i].kind = "apply" THEN 1 ELSE 0
      /\ \A x \in Ids \ {i} : applies'[x] = applies[x]
  BY <1>2 DEF Begin, job, Shape, TypeOK
<1>6. \A x \in Ids : applies[x] \in Nat /\ commits[x] \in Nat
  BY DEF Shape, TypeOK
<1>7. ActsOnce'
  BY <1>3, <1>5, <1>6 DEF ActInv, ActsOnce
<1>8. Counted(mem)'
  BY <1>2, <1>3, <1>5, <1>6 DEF ActInv, Counted
<1>9. Counted(file)'
  <2>1. file[i] # None /\ file[i].kind = mem[i].kind
    BY <1>1, <1>2 DEF Shape, RunningJobHasWorker, In, JobInv, SameRequest
  <2> QED BY <1>2, <1>3, <1>5, <1>6, <2>1 DEF ActInv, Counted
<1>10. AppliesInv'
  <2> SUFFICES ASSUME NEW x \in Ids, applies'[x] >= 1 PROVE Over(x)' \/ AtWork(x)'
    BY DEF AppliesInv
  <2>1. CASE x = i
    BY <1>4, <2>1 DEF AtWork
  <2>2. CASE x # i
    <3>1. Over(x)
      BY <1>5, <2>2 DEF ActInv, AppliesInv, AtWork
    <3> QED BY <1>3, <1>4, <3>1 DEF Over
  <2> QED BY <2>1, <2>2
<1>11. AttemptInv'
  BY <1>2, <1>3, <1>4, <1>5 DEF AttemptInv
<1> QED BY <1>7, <1>8, <1>9, <1>10, <1>11 DEF ActInv

LEMMA CommitActs ==
    ASSUME Shape, JobInv, ActInv, Commit
    PROVE  ActInv'
<1> DEFINE i == worker.id
<1>1. worker # NoWorker /\ worker.pc = "work"
  BY DEF Commit, NoWorker
<1>2. /\ i \in Ids /\ mem[i] \in Jobs /\ mem[i] # None /\ mem[i].rev \in Nat
      /\ mem[i].kind \in Acting
  BY <1>1, AtStart, JobFields DEF Commit, job
<1>3. /\ file[i] # None /\ file[i].kind = mem[i].kind /\ file[i].rev = mem[i].rev
  BY <1>1, <1>2 DEF Shape, RunningJobHasWorker, In, JobInv, SameRequest
<1>4. /\ UNCHANGED <<mem, file, closing, applies>>
      /\ worker'.id = i /\ worker'.pc = "ended" /\ worker'.result = "ok"
  BY DEF Commit, others, doc, Ended, Shape, TypeOK
<1>5. /\ commits'[i] = commits[i] + 1
      /\ \A x \in Ids \ {i} : commits'[x] = commits[x]
  BY <1>2 DEF Commit, Shape, TypeOK
<1>6. /\ rev \in Nat /\ rev' \in {rev, rev + 1}
      /\ mem[i].kind \in Runtime => rev' = rev + 1
  BY DEF Commit, job, Runtime, Shape, TypeOK
<1>7. \A x \in Ids : applies[x] \in Nat /\ commits[x] \in Nat
  BY DEF Shape, TypeOK
<1>8. /\ mem[i].rev = rev
      /\ mem[i].kind = "apply" => applies[i] = 1
      /\ commits[i] = 0
  <2>1. /\ mem[i].rev = rev
        /\ mem[i].kind = "apply" => applies[i] = 1 /\ commits[i] = 0
    BY <1>1 DEF ActInv, AttemptInv
  <2>2. mem[i].kind \in Runtime => ~(commits[i] >= 1)
    BY <1>2, <1>6, <2>1 DEF ActInv, Counted
  <2> QED BY <1>2, <1>7, <2>1, <2>2 DEF Acting
<1>9. mem[i].kind # "apply" => applies[i] = 0
  BY <1>2 DEF ActInv, Counted
<1>10. ActsOnce'
  BY <1>4, <1>5, <1>7, <1>8 DEF ActInv, ActsOnce
<1>11. \A x \in Ids : /\ mem[x] # None => mem[x].rev \in Nat
                      /\ file[x] # None => file[x].rev \in Nat
  <2>1. \A x \in Ids : mem[x] \in Jobs \cup {None} /\ file[x] \in Jobs \cup {None}
    BY DEF Shape, TypeOK
  <2> QED BY <2>1, JobFields
<1>12. ASSUME NEW x \in Ids, NEW j,
              j # None, j.rev \in Nat,
              j = mem[x] \/ j = file[x]
       PROVE  /\ j.kind = "apply" => commits'[x] <= applies[x]
              /\ j.kind # "apply" => applies[x] = 0
              /\ j.kind \in Runtime /\ commits'[x] >= 1 => j.rev < rev'
  <2>1. CASE x = i
    <3>1. j.kind = mem[i].kind /\ j.rev = rev
      BY <1>3, <1>8, <1>12, <2>1
    <3> QED BY <1>5, <1>6, <1>8, <1>9, <2>1, <3>1
  <2>2. CASE x # i
    <3>1. commits'[x] = commits[x]
      BY <1>5, <2>2
    <3>2. /\ j.kind = "apply" => commits[x] <= applies[x]
          /\ j.kind # "apply" => applies[x] = 0
          /\ j.kind \in Runtime /\ commits[x] >= 1 => j.rev < rev
      BY <1>12 DEF ActInv, Counted
    <3> QED BY <1>6, <1>12, <3>1, <3>2
  <2> QED BY <2>1, <2>2
<1>13. Counted(mem)' /\ Counted(file)'
  BY <1>4, <1>11, <1>12 DEF Counted
<1>14. AppliesInv'
  <2> SUFFICES ASSUME NEW x \in Ids, applies[x] >= 1 PROVE Over(x)' \/ AtWork(x)'
    BY <1>4 DEF AppliesInv
  <2>1. CASE Over(x)
    BY <1>4, <2>1 DEF Over
  <2>2. CASE AtWork(x)
    BY <1>4, <2>2 DEF AtWork
  <2> QED BY <2>1, <2>2 DEF ActInv, AppliesInv
<1>15. AttemptInv'
  BY <1>4 DEF AttemptInv
<1> QED BY <1>10, <1>13, <1>14, <1>15 DEF ActInv

\* A lookup that finds the request answered leaves the jobs alone.
LEMMA QuietActs ==
    ASSUME ActInv,
           UNCHANGED <<file, mem, worker, closing, rev, applies, commits>>
    PROVE  ActInv'
BY DEF ActInv, ActsOnce, AppliesInv, Over, AtWork, Counted, AttemptInv

LEMMA LookupActs ==
    ASSUME Shape, JobInv, ActInv, NEW k \in Keys, NEW q, Lookup(k, q),
           UNCHANGED <<aged, rest>>
    PROVE  ActInv'
<1>1. UNCHANGED <<worker, closing, rev, applies, commits>>
  BY DEF rest, world, history
<1>2. CASE KnownKey(k, q)
  BY <1>1, <1>2, QuietActs DEF KnownKey, doc
<1>3. CASE NewAlias(k, q)
  <2>1. PICK jobs, o : Proposes(jobs, o)
    BY <1>3, NewAliasProposes DEF Lookup
  <2> QED BY <1>1, <2>1, BesideActs
<1> QED BY <1>2, <1>3 DEF Lookup

LEMMA ActStep ==
    ASSUME Shape, JobInv, ActInv, [Next]_vars
    PROVE  ActInv'
<1>1. CASE \/ UNCHANGED vars
           \/ \E c \in Clients : Withdraw(c) \/ \E k \in Keys, q \in Requests : Prepare(c, k, q)
  BY <1>1, QuietActs DEF vars, Withdraw, Prepare, doc, rest, world, history
<1>2. CASE \E c \in Clients, k \in Keys, q \in Requests : Ask(c, k, q)
  BY <1>2, LookupActs DEF Ask
<1>3. CASE \E c \in Clients : InsertFound(c)
  <2>1. PICK c \in Clients : InsertFound(c)
    BY <1>3
  <2>2. ask[c].key \in Keys
    BY <2>1 DEF InsertFound, Requested, Shape, TypeOK
  <2> QED BY <2>1, <2>2, LookupActs DEF InsertFound
<1>4. CASE \E c \in Clients : Insert(c)
  <2>1. PICK jobs, o : Proposes(jobs, o)
    BY <1>4, InsertProposes
  <2>2. UNCHANGED <<worker, closing, rev, applies, commits>>
    BY <1>4 DEF Insert, rest, world, history
  <2> QED BY <2>1, <2>2, BesideActs
<1>5. CASE \E i \in Ids : Cancel(i)
  <2>1. PICK jobs, o : Proposes(jobs, o)
    BY <1>5, CancelProposes
  <2>2. UNCHANGED <<closing, rev, applies, commits>> /\ worker' \in {worker, Interrupted}
    BY <1>5 DEF Cancel, world
  <2>3. worker'.id = worker.id /\ worker'.pc = worker.pc /\ worker'.result = worker.result
    BY <2>2, InterruptedIsWorker
  <2> QED BY <2>1, <2>2, <2>3, BesideActs
<1>6. CASE Maintain \/ Retry \/ \E i \in Ids : Drop(i) \/ Dispatch(i)
  <2>1. PICK jobs, o : Proposes(jobs, o)
    BY <1>6, DropProposes, DispatchProposes, RewriteProposes
  <2>2. /\ UNCHANGED <<rev, applies, commits>>
        /\ worker = NoWorker /\ ~closing /\ worker'.pc # "work"
    <3>1. CASE Maintain \/ Retry \/ \E i \in Ids : Drop(i)
      BY <3>1 DEF Maintain, Retry, Drop, Selected, world, history, NoWorker
    <3>2. CASE \E i \in Ids : Dispatch(i)
      BY <3>2 DEF Dispatch, Selected, world, history, NoWorker
    <3> QED BY <1>6, <3>1, <3>2
  <2> QED BY <2>1, <2>2, ScheduleActs
<1>7. CASE Works
  BY <1>7, IdleActs, BeginActs, CommitActs DEF Works
<1>8. CASE Finish \/ AroundJobs \/ Restart
  BY <1>8, FinishActs, AroundActs, RestartActs
<1> QED BY <1>1, <1>2, <1>3, <1>4, <1>5, <1>6, <1>7, <1>8, Steps

\* An acting job changes the routes at most once, and a plan is not begun twice
\* (durable_service_jobs.go:281).
THEOREM JobsActOnce == Spec => []ActsOnce
<1>1. Init => Shape /\ JobInv /\ ActInv
  BY ShapeInit, JobInit, ActInit
<1>2. Shape /\ JobInv /\ ActInv /\ [Next]_vars => Shape' /\ JobInv' /\ ActInv'
  BY ShapeStep, JobStep, ActStep
<1>3. ActInv => ActsOnce
  BY DEF ActInv
<1> QED BY <1>1, <1>2, <1>3, PTL DEF Spec

=============================================================================
