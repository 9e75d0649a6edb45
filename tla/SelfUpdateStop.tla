---------------------------- MODULE SelfUpdateStop ----------------------------
(***************************************************************************)
(* The durable authority of an application update and its revocation       *)
(* (src/internal/operationgate/self_update_stop.go,                        *)
(* control_epoch_review.go, control_epoch_cleanup_start.go).               *)
(*                                                                         *)
(* The authority is a directory: a lock file with a marker, the current    *)
(* record, and one immutable request file per stop.  The daemon, the       *)
(* update helper and their workers are separate processes that meet only   *)
(* in this directory.  An effect begins while its process holds the lock   *)
(* and the record still names the epoch the effect was reviewed under.  A  *)
(* stop replaces the record, writes the request, writes the record again,  *)
(* and is acknowledged only after the last directory sync.                 *)
(*                                                                         *)
(* A process may die between any two steps, a write may fail before its    *)
(* rename or after it, and the power may fail, which takes back whatever   *)
(* no sync has covered.                                                    *)
(***************************************************************************)
EXTENDS Naturals

CONSTANTS
    Procs,           \* processes that use the directory
    Installations,   \* identifiers controlInstallationID may draw
    Requests,        \* stops that may be asked for: [id, revision]
    None,            \* an absent file
    MaxFaults,       \* bound on failed writes
    MaxCrashes,      \* bound on deaths of a process
    MaxOutages       \* bound on losses of power

ASSUME BoundAssumption ==
    MaxFaults \in Nat /\ MaxCrashes \in Nat /\ MaxOutages \in Nat

Ids == {q.id : q \in Requests}
Names == {"directory", "marker", "current"} \cup Ids
NobodyStopped == [id |-> None, revision |-> 0]

ASSUME NameAssumption ==
    /\ Requests \subseteq [id : Ids, revision : Nat]
    /\ {"directory", "marker", "current"} \cap Ids = {}
    /\ None \notin Ids \cup Procs \cup Installations

VARIABLES
    visible,    \* what a process reads: name -> content
    survivors,  \* contents a name may have after a loss of power
    holder,     \* the process that holds the lock file
    proc,       \* program counter and local variables of a process
    granted,    \* references that were given out, and sealed by their callers
    drawn,      \* installation identifiers drawn so far
    acked,      \* history: the stop that was acknowledged
    running,    \* admitted work that has not been joined
    faults, crashes, outages

files == <<visible, survivors>>
bounds == <<faults, crashes, outages>>
vars == <<files, holder, proc, granted, drawn, acked, running, bounds>>

-----------------------------------------------------------------------------
(* Records and files. *)

Ready(i) == [installation |-> i, sequence |-> 1, request |-> NobodyStopped,
             state |-> "ready"]
Stopped(r) == r.state # "ready"
Reference(r) == [installation |-> r.installation, sequence |-> r.sequence]
Intent(r) == [r EXCEPT !.state = "requested"]

\* Mutant: the stop keeps the epoch that it revokes.
RevokedSameEpoch(r, q) == [r EXCEPT !.request = q, !.state = "requested"]

\* The record of a stop: the next epoch of the same installation, or the first
\* one of an installation that has none.
Revoked(r, q) == [r EXCEPT !.sequence = @ + 1, !.request = q, !.state = "requested"]
First(i, q) == [installation |-> i, sequence |-> 1, request |-> q,
                state |-> "requested"]

\* readControlCurrent, checkControlRequest: a stopped record counts only
\* together with its request.
Readable ==
    /\ visible["current"] # None
    /\ Stopped(visible["current"]) =>
          visible[visible["current"].request.id] = Intent(visible["current"])

\* Work that an effect started: the reference it was admitted under, and
\* whether the record was a stop at that time.
Work(ref, stopped) == [ref |-> ref, stopped |-> stopped]
EarlierWork == {w \in running : ~w.stopped}

\* What a write may do: succeed; fail before its rename; fail after it, with
\* the directory not synced.
Outcomes == {"ok", "lost", "late"}
Fault(o) ==
    /\ IF o = "ok" THEN faults' = faults
                   ELSE faults < MaxFaults /\ faults' = faults + 1
    /\ UNCHANGED <<crashes, outages>>

\* writeControl.  A sync covers every name of the directory.
Write(name, content, o) ==
    /\ Fault(o)
    /\ visible' = IF o = "lost" THEN visible ELSE [visible EXCEPT ![name] = content]
    /\ survivors' =
         CASE o = "lost" -> survivors
           [] o = "late" -> [survivors EXCEPT ![name] = @ \cup {content}]
           [] o = "ok"   -> [n \in Names |-> IF n = "directory" THEN survivors[n]
                                             ELSE {visible'[n]}]

Idle == [pc |-> "idle", kind |-> "none", request |-> NobodyStopped,
         ref |-> [installation |-> None, sequence |-> 0], created |-> FALSE,
         made |-> FALSE, record |-> None]

At(p, pc) == proc[p].pc = pc
Go(p, pc) == proc' = [proc EXCEPT ![p].pc = pc]

\* The call returns; the kernel drops its lock.
Return(p) ==
    /\ proc' = [proc EXCEPT ![p] = Idle]
    /\ holder' = IF holder = p THEN None ELSE holder

Init ==
    /\ visible = [n \in Names |-> None]
    /\ survivors = [n \in Names |-> {None}]
    /\ holder = None /\ proc = [p \in Procs |-> Idle]
    /\ granted = {} /\ drawn = {} /\ acked = None /\ running = {}
    /\ faults = 0 /\ crashes = 0 /\ outages = 0

-----------------------------------------------------------------------------
(* A call, the directory and its lock. *)

Creators == {"initialize", "stop"}

CallInitialize(p) ==
    /\ At(p, "idle")
    /\ proc' = [proc EXCEPT ![p] = [Idle EXCEPT !.pc = "open", !.kind = "initialize"]]
    /\ UNCHANGED <<files, holder, granted, drawn, acked, running, bounds>>

CallStop(p, q) ==
    /\ At(p, "idle")
    /\ proc' = [proc EXCEPT ![p] =
                  [Idle EXCEPT !.pc = "open", !.kind = "stop", !.request = q]]
    /\ UNCHANGED <<files, holder, granted, drawn, acked, running, bounds>>

\* An effect of a reviewed update: forward, in compensation of a stop, or the
\* cleanup of an operation that owns what it started.
CallEffect(p, kind, ref, q) ==
    /\ At(p, "idle") /\ kind \in {"effect", "compensate", "cleanup"}
    /\ kind # "compensate" => q = NobodyStopped
    /\ proc' = [proc EXCEPT ![p] =
                  [Idle EXCEPT !.pc = "open", !.kind = kind, !.ref = ref,
                               !.request = q]]
    /\ UNCHANGED <<files, holder, granted, drawn, acked, running, bounds>>

\* RecordSelfUpdateStopped observes once before it opens anything.
CallRecord(p, q) ==
    /\ At(p, "idle") /\ running = {}
    /\ proc' = [proc EXCEPT ![p] =
                  [Idle EXCEPT !.pc = "open", !.kind = "record", !.request = q]]
    /\ UNCHANGED <<files, holder, granted, drawn, acked, running, bounds>>

\* openControlDirectory: only a bootstrap or a stop may create it.
OpenDirectory(p) ==
    /\ At(p, "open")
    /\ IF visible["directory"] # None THEN Go(p, "lockfile") /\ UNCHANGED holder
       ELSE IF proc[p].kind \in Creators THEN Go(p, "mkdir") /\ UNCHANGED holder
       ELSE Return(p)
    /\ UNCHANGED <<files, granted, drawn, acked, running, bounds>>

MakeDirectory(p) ==
    /\ At(p, "mkdir")
    /\ \E o \in Outcomes :
         /\ Fault(o)
         /\ visible' = IF o = "lost" THEN visible
                       ELSE [visible EXCEPT !["directory"] = "made"]
         /\ survivors' = CASE o = "lost" -> survivors
                           [] o = "late" -> [survivors EXCEPT !["directory"] = @ \cup {"made"}]
                           [] o = "ok"   -> [survivors EXCEPT !["directory"] = {"made"}]
         /\ IF o = "ok"
            THEN /\ proc' = [proc EXCEPT ![p].pc = "lockfile", ![p].created = TRUE]
                 /\ UNCHANGED holder
            ELSE Return(p)
    /\ UNCHANGED <<granted, drawn, acked, running>>

\* The lock file is created by the process that created the directory, and by
\* one process only (O_EXCL); everybody else needs it to exist.
OpenLockFile(p) ==
    /\ At(p, "lockfile")
    /\ IF visible["marker"] # None
       THEN Go(p, "lock") /\ UNCHANGED <<files, holder>>
       ELSE IF proc[p].created
       THEN /\ visible' = [visible EXCEPT !["marker"] = "empty"]
            /\ survivors' = [survivors EXCEPT !["marker"] = @ \cup {"empty"}]
            /\ proc' = [proc EXCEPT ![p].pc = "lock", ![p].made = TRUE]
            /\ UNCHANGED holder
       ELSE Return(p) /\ UNCHANGED files
    /\ UNCHANGED <<granted, drawn, acked, running, bounds>>

\* A lock file without its marker refuses whoever did not create it.
AcquireLock(p) ==
    /\ At(p, "lock") /\ holder = None
    /\ IF proc[p].made THEN Go(p, "marker") /\ holder' = p
       ELSE IF visible["marker"] = "full" THEN Go(p, "body") /\ holder' = p
       ELSE Return(p)
    /\ UNCHANGED <<files, granted, drawn, acked, running, bounds>>

\* The deadline of the caller passes while the lock is busy.
GiveUp(p) ==
    /\ At(p, "lock") /\ Return(p)
    /\ UNCHANGED <<files, granted, drawn, acked, running, bounds>>

WriteMarker(p) ==
    /\ At(p, "marker")
    /\ \E o \in Outcomes :
         /\ Write("marker", "full", o)
         /\ IF o = "ok" THEN Go(p, "body") /\ UNCHANGED holder ELSE Return(p)
    /\ UNCHANGED <<granted, drawn, acked, running>>

-----------------------------------------------------------------------------
(* The bodies of the calls, under the lock. *)

\* A missing record may be replaced only by the process that made the
\* directory and its marker in this very call.
MayFound(p) == visible["current"] = None /\ proc[p].created /\ proc[p].made

\* InitializeSelfUpdateControl never clears a stop.
Initialize(p) ==
    /\ At(p, "body") /\ proc[p].kind = "initialize"
    /\ \/ /\ visible["current"] # None
          /\ granted' = IF Readable /\ ~Stopped(visible["current"])
                        THEN granted \cup {Reference(visible["current"])} ELSE granted
          /\ Return(p) /\ UNCHANGED <<files, drawn, bounds>>
       \/ /\ MayFound(p)
          /\ \E i \in Installations \ drawn, o \in Outcomes :
               /\ Write("current", Ready(i), o)
               /\ drawn' = drawn \cup {i}
               /\ granted' = IF o = "ok" THEN granted \cup {Reference(Ready(i))}
                                         ELSE granted
               /\ Return(p)
       \/ /\ visible["current"] = None /\ ~MayFound(p)
          /\ Return(p) /\ UNCHANGED <<files, granted, drawn, bounds>>
    /\ UNCHANGED <<acked, running>>

\* RequestSelfUpdateStop, first write: the record.
StopTo(p, record) ==
    \E o \in Outcomes :
        /\ Write("current", record, o)
        /\ IF o = "ok"
           THEN /\ proc' = [proc EXCEPT ![p].pc = "intent", ![p].record = record]
                /\ UNCHANGED holder
           ELSE Return(p)

RequestStop(p) ==
    /\ At(p, "body") /\ proc[p].kind = "stop"
    /\ LET r == visible["current"] q == proc[p].request IN
       \/ /\ r # None /\ ~Stopped(r)
          /\ StopTo(p, Revoked(r, q)) /\ UNCHANGED drawn
       \/ /\ MayFound(p)
          /\ \E i \in Installations \ drawn :
               StopTo(p, First(i, q)) /\ drawn' = drawn \cup {i}
       \/ /\ r # None /\ Stopped(r) /\ r.request = q
          /\ proc' = [proc EXCEPT ![p].pc = "intent", ![p].record = r]
          /\ UNCHANGED <<files, holder, drawn, bounds>>
       \/ /\ IF r = None THEN ~MayFound(p) ELSE Stopped(r) /\ r.request # q
          /\ Return(p) /\ UNCHANGED <<files, drawn, bounds>>
    /\ UNCHANGED <<granted, acked, running>>

\* Second write: the request, which is never replaced.
WriteIntent(p) ==
    /\ At(p, "intent")
    /\ LET r == proc[p].record IN
       \/ /\ visible[r.request.id] = None
          /\ \E o \in Outcomes :
               /\ Write(r.request.id, Intent(r), o)
               /\ IF o = "ok" THEN Go(p, "flush") /\ UNCHANGED holder ELSE Return(p)
       \/ /\ visible[r.request.id] = Intent(r)
          /\ Go(p, "flush") /\ UNCHANGED <<files, holder, bounds>>
       \/ /\ visible[r.request.id] \notin {None, Intent(r)}
          /\ Return(p) /\ UNCHANGED <<files, bounds>>
    /\ UNCHANGED <<granted, drawn, acked, running>>

\* Mutant: a repetition does not write the record again.
FlushSkipped(p) ==
    /\ At(p, "flush")
    /\ acked' = proc[p].record /\ Return(p)
    /\ UNCHANGED <<files, granted, drawn, running, bounds>>

\* Third write: the record again, because an earlier call may have returned
\* after the rename and before the sync.  Then the stop is acknowledged.
Flush(p) ==
    /\ At(p, "flush")
    /\ \E o \in Outcomes :
         /\ Write("current", proc[p].record, o)
         /\ acked' = IF o = "ok" THEN proc[p].record ELSE acked
    /\ Return(p)
    /\ UNCHANGED <<granted, drawn, running>>

\* The three admissions of an effect: forward, under exactly the reviewed
\* epoch; compensation, under the stop that followed it; cleanup of what an
\* operation owns, under either.
Successor(r, ref) ==
    /\ Stopped(r) /\ r.installation = ref.installation
    /\ r.sequence = ref.sequence + 1

Admitted(r, kind, ref, q) ==
    \/ kind \in {"effect", "cleanup"} /\ ~Stopped(r) /\ Reference(r) = ref
    \/ kind = "compensate" /\ Successor(r, ref) /\ r.request = q
    \/ kind = "cleanup" /\ Successor(r, ref)

EffectKinds == {"effect", "compensate", "cleanup"}

\* Mutant: the lock is given back between the check and the effect.
AdmitUnlocked(p) ==
    /\ At(p, "body") /\ proc[p].kind \in EffectKinds
    /\ Readable /\ Admitted(visible["current"], proc[p].kind, proc[p].ref, proc[p].request)
    /\ Go(p, "begin") /\ holder' = None
    /\ UNCHANGED <<files, granted, drawn, acked, running, bounds>>

Admit(p) ==
    /\ At(p, "body") /\ proc[p].kind \in EffectKinds
    /\ IF Readable /\ Admitted(visible["current"], proc[p].kind, proc[p].ref,
                               proc[p].request)
       THEN Go(p, "begin") /\ UNCHANGED holder
       ELSE Return(p)
    /\ UNCHANGED <<files, granted, drawn, acked, running, bounds>>

\* begin: the start or the rename itself.  What an effect of any kind started
\* runs on, also when its process dies, until its owner has joined it.
Begin(p) ==
    /\ At(p, "begin")
    /\ running' = running \cup {Work(proc[p].ref, Stopped(visible["current"]))}
    /\ Return(p)
    /\ UNCHANGED <<files, granted, drawn, acked, bounds>>

Join(work) ==
    /\ work \in running /\ running' = running \ {work}
    /\ UNCHANGED <<files, holder, proc, granted, drawn, acked, bounds>>

\* RecordSelfUpdateStopped: first the record says that the outcome is unknown.
\* The call names the epoch it observed; here that of the stop it names.
Matches(q) ==
    Readable /\ Stopped(visible["current"]) /\ visible["current"].request = q

RecordUnknown(p) ==
    /\ At(p, "body") /\ proc[p].kind = "record"
    /\ IF Matches(proc[p].request)
       THEN LET r == [visible["current"] EXCEPT !.state = "cleanup-unknown"] IN
            \E o \in Outcomes :
              /\ Write("current", r, o)
              /\ holder' = None
              /\ proc' = [proc EXCEPT ![p] =
                            IF o = "ok" THEN [@ EXCEPT !.pc = "observe", !.record = r]
                                        ELSE Idle]
       ELSE Return(p) /\ UNCHANGED <<files, bounds>>
    /\ UNCHANGED <<granted, drawn, acked, running>>

\* Mutant: the second observation is left out.
ObserveNothing(p) ==
    /\ At(p, "observe") /\ Go(p, "relock")
    /\ UNCHANGED <<files, holder, granted, drawn, acked, running, bounds>>

\* The second observation, with no lock held: it sees every admitted tree.
Observe(p) ==
    /\ At(p, "observe")
    /\ \/ running = {} /\ Go(p, "relock") /\ UNCHANGED holder
       \/ Return(p)
    /\ UNCHANGED <<files, granted, drawn, acked, running, bounds>>

RecordObserved(p) ==
    /\ At(p, "relock") /\ holder = None
    /\ IF /\ visible["marker"] = "full" /\ Matches(proc[p].request)
          /\ Reference(visible["current"]) = Reference(proc[p].record)
       THEN \E o \in Outcomes :
              Write("current", [visible["current"] EXCEPT !.state = "observed-stopped"], o)
       ELSE UNCHANGED <<files, bounds>>
    /\ Return(p)
    /\ UNCHANGED <<granted, drawn, acked, running>>

-----------------------------------------------------------------------------
(* Deaths. *)

Crash(p) ==
    /\ ~At(p, "idle") /\ crashes < MaxCrashes /\ crashes' = crashes + 1
    /\ Return(p)
    /\ UNCHANGED <<files, granted, drawn, acked, running, faults, outages>>

\* The power fails: every process and every started tree ends, and a name has
\* one of the contents that no sync has replaced.
Outage ==
    /\ outages < MaxOutages /\ outages' = outages + 1
    /\ \E d \in survivors["directory"], m \in survivors["marker"],
          r \in survivors["current"],
          intents \in [Ids -> UNION {survivors[i] : i \in Ids}] :
         /\ \A i \in Ids : intents[i] \in survivors[i]
         /\ visible' = [n \in Names |-> CASE n = "directory" -> d
                                         [] n = "marker"    -> m
                                         [] n = "current"   -> r
                                         [] OTHER           -> intents[n]]
         /\ survivors' = [n \in Names |-> {visible'[n]}]
    /\ holder' = None /\ proc' = [p \in Procs |-> Idle] /\ running' = {}
    /\ UNCHANGED <<granted, drawn, acked, faults, crashes>>

Step(p) ==
    \/ OpenDirectory(p) \/ MakeDirectory(p) \/ OpenLockFile(p)
    \/ AcquireLock(p) \/ GiveUp(p) \/ WriteMarker(p)
    \/ Initialize(p) \/ RequestStop(p) \/ WriteIntent(p) \/ Flush(p)
    \/ Admit(p) \/ Begin(p)
    \/ RecordUnknown(p) \/ Observe(p) \/ RecordObserved(p)

Call(p) ==
    \/ CallInitialize(p)
    \/ \E q \in Requests : CallStop(p, q) \/ CallRecord(p, q)
    \/ \E kind \in EffectKinds, ref \in granted, q \in Requests \cup {NobodyStopped} :
         CallEffect(p, kind, ref, q)

Next ==
    \/ \E p \in Procs : Call(p) \/ Step(p) \/ Crash(p)
    \/ \E work \in running : Join(work)
    \/ Outage

Spec == Init /\ [][Next]_vars

-----------------------------------------------------------------------------
(* Properties. *)

References == [installation : Installations, sequence : Nat]
Records ==
    [installation : Installations, sequence : Nat \ {0},
     request : Requests \cup {NobodyStopped},
     state : {"ready", "requested", "cleanup-unknown", "observed-stopped"}]
ASSUME AbsenceAssumption == None \notin {"made", "empty", "full"} \cup Records

Contents(n) ==
    CASE n = "directory" -> {None, "made"}
      [] n = "marker"    -> {None, "empty", "full"}
      [] OTHER           -> {None} \cup Records

ProcTypes ==
    [pc : {"idle", "open", "mkdir", "lockfile", "lock", "marker", "body",
           "intent", "flush", "begin", "observe", "relock"},
     kind : EffectKinds \cup Creators \cup {"none", "record"},
     request : Requests \cup {NobodyStopped},
     ref : granted \cup {Idle.ref},
     created : BOOLEAN, made : BOOLEAN,
     record : Records \cup {None}]

\* Types of the variables.
TypeOK ==
    /\ visible = [n \in Names |-> visible[n]]
    /\ survivors = [n \in Names |-> survivors[n]]
    /\ \A n \in Names : visible[n] \in Contents(n) /\ survivors[n] \subseteq Contents(n)
    /\ holder \in Procs \cup {None}
    /\ proc \in [Procs -> ProcTypes]
    /\ granted \subseteq References /\ drawn \subseteq Installations
    /\ acked \in Records \cup {None}
    /\ running \subseteq [ref : granted, stopped : BOOLEAN]
    /\ faults \in 0..MaxFaults /\ crashes \in 0..MaxCrashes
    /\ outages \in 0..MaxOutages

\* While an effect may begin, the authority it was reviewed under stands: no
\* stop has been acknowledged, or even become visible, since it was checked.
\* A compensation has its own stop in front of it.
EffectHoldsAuthority ==
    \A p \in Procs : At(p, "begin") =>
        /\ Readable
        /\ Admitted(visible["current"], proc[p].kind, proc[p].ref, proc[p].request)
        /\ proc[p].kind = "effect" => acked = None

\* An acknowledged stop is final: whatever process died, whatever power was
\* lost, the record and its request say so, and nothing else may be found.
AcknowledgedStopStands ==
    acked # None =>
        /\ \A r \in survivors["current"] \cup {visible["current"]} :
             r # None /\ Stopped(r) /\ Intent(r) = Intent(acked)
        /\ survivors[acked.request.id] = {Intent(acked)}
        /\ visible[acked.request.id] = Intent(acked)
        /\ visible["marker"] = "full" /\ survivors["marker"] = {"full"}
        /\ visible["directory"] = "made" /\ survivors["directory"] = {"made"}

\* A record that confirms the stop is never written over work that was admitted
\* before the stop and that nobody has joined.  It does not say that nothing
\* runs: a compensation or a cleanup is admitted under the stop itself, and one
\* that begins between the second observation and the last write, or later,
\* runs beside the confirmation.  A caller has to look again before it reports.
ConfirmedStopIsQuiet ==
    visible["current"] # None /\ visible["current"].state = "observed-stopped"
        => EarlierWork = {}

\* While no power is lost an epoch never comes back.  A record that is there is
\* replaced only by itself or by the stop of the next epoch; a stop that is
\* there keeps its request and its epoch; and a record that is founded belongs
\* to an installation that no reference given out before can name.
AuthorityNeverResets ==
    [][LET r == visible["current"] s == visible'["current"] IN
       s # r /\ outages' = outages =>
          /\ s # None
          /\ r = None => /\ s.sequence = 1
                         /\ \A ref \in granted : ref.installation # s.installation
          /\ r # None => /\ s.installation = r.installation
                         /\ Stopped(s)
                         /\ IF Stopped(r) THEN Intent(s) = Intent(r)
                                          ELSE s.sequence = r.sequence + 1]_vars
=============================================================================
