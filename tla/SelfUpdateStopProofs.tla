------------------------- MODULE SelfUpdateStopProofs -------------------------
(* Proofs about SelfUpdateStop: an effect begins only while its authority     *)
(* stands, and an acknowledged stop is final, for any number of processes,    *)
(* requests, failed writes, deaths and losses of power.                       *)
EXTENDS SelfUpdateStop, TLAPS

\* Points of a call that are passed while it holds the lock.
Locked == {"marker", "body", "intent", "flush", "begin"}

DirectoryStands ==
    visible["directory"] = "made" /\ survivors["directory"] = {"made"}

\* What every content of a record or request file looks like.
RecordShape(r) == r # None => (Stopped(r) => r.request \in Requests)

\* Contents: a stop names a request that was asked for.
ShapeInv ==
    \A n \in Names \ {"directory", "marker"} :
        RecordShape(visible[n]) /\ \A r \in survivors[n] : RecordShape(r)

\* The lock file behind its marker, and the directory behind the lock file.
MarkerInv ==
    visible["marker"] # None \/ (\E c \in survivors["marker"] : c # None)
        => DirectoryStands

\* What a call holds and knows: the lock, the marker, the record it wrote or
\* checked.
CallInv(p) ==
    /\ proc[p].pc \in Locked => holder = p
    /\ proc[p].pc \in {"body", "intent", "flush", "begin", "observe", "relock"}
          => visible["marker"] = "full"
    /\ proc[p].created \/ proc[p].made \/ proc[p].pc = "marker" => DirectoryStands
    /\ proc[p].pc \in {"intent", "flush"} =>
          /\ proc[p].record # None /\ Stopped(proc[p].record)
          /\ visible["current"] = proc[p].record
    /\ proc[p].pc = "flush" =>
          visible[proc[p].record.request.id] = Intent(proc[p].record)
    /\ proc[p].pc = "begin" =>
          /\ Readable
          /\ Admitted(visible["current"], proc[p].kind, proc[p].ref, proc[p].request)
    /\ proc[p].pc \in {"observe", "relock"} =>
          visible["current"] # None /\ Stopped(visible["current"])
    /\ proc[p].pc = "relock" => EarlierWork = {}
    /\ proc[p].kind = "stop" => proc[p].request \in Requests

Inv ==
    /\ TypeOK /\ ShapeInv /\ MarkerInv
    /\ \A p \in Procs : CallInv(p)
    /\ AcknowledgedStopStands /\ ConfirmedStopIsQuiet

-----------------------------------------------------------------------------
(* Records, names and writes. *)

\* A record file and a request file hold a record or are absent.
LEMMA RecordFiles ==
    ASSUME NEW n \in {"current"} \cup Ids
    PROVE  /\ Contents(n) = {None} \cup Records
           /\ n \in Names \ {"directory", "marker"}
  BY NameAssumption DEF Contents, Names

\* The request of a stop names a file of its own.
LEMMA RequestNames ==
    ASSUME NEW q \in Requests
    PROVE  q.id \in Ids /\ q # NobodyStopped /\ q.id # "current"
  <1>1. q.id \in Ids
    BY DEF Ids
  <1>2. NobodyStopped.id = None
    BY DEF NobodyStopped
  <1>3. q.id # "current" /\ q.id # None
    BY <1>1, NameAssumption
  <1>4. QED BY <1>1, <1>2, <1>3

\* Marking a record as requested keeps its request, installation and epoch.
LEMMA Intents ==
    ASSUME NEW r \in Records
    PROVE  /\ Intent(r) \in Records /\ Stopped(Intent(r))
           /\ Intent(r).request = r.request
           /\ Intent(r).installation = r.installation
           /\ Intent(r).sequence = r.sequence
           /\ r # None
  <1>1. r # None
    BY AbsenceAssumption
  <1>2. QED BY <1>1 DEF Records, Intent, Stopped

\* What a write leaves, whatever its outcome.
LEMMA Written ==
    ASSUME TypeOK, NEW name \in Names \ {"directory"}, NEW content \in Contents(name),
           NEW o \in Outcomes, Write(name, content, o)
    PROVE  /\ visible' = [n \in Names |-> visible'[n]]
           /\ survivors' = [n \in Names |-> survivors'[n]]
           /\ \A n \in Names : visible'[n] \in Contents(n)
                                /\ survivors'[n] \subseteq Contents(n)
           /\ \A n \in Names \ {name} : visible'[n] = visible[n]
           /\ visible'[name] \in {visible[name], content}
           /\ \A n \in Names : survivors'[n] \subseteq survivors[n] \cup {visible'[n]}
           /\ survivors'["directory"] = survivors["directory"]
           /\ o = "ok" => /\ visible'[name] = content
                          /\ \A n \in Names \ {"directory"} :
                                survivors'[n] = {visible'[n]}
           /\ faults' \in 0..MaxFaults /\ UNCHANGED <<crashes, outages>>
  <1>1. visible' = IF o = "lost" THEN visible ELSE [visible EXCEPT ![name] = content]
    BY DEF Write
  <1>2. /\ visible' = [n \in Names |-> visible'[n]]
        /\ \A n \in Names \ {name} : visible'[n] = visible[n]
        /\ visible'[name] \in {visible[name], content}
        /\ o = "ok" => visible'[name] = content
        /\ o # "lost" => visible'[name] = content
    BY <1>1 DEF TypeOK
  <1>3. \A n \in Names : visible'[n] \in Contents(n)
    BY <1>2 DEF TypeOK
  <1>4. survivors' =
         CASE o = "lost" -> survivors
           [] o = "late" -> [survivors EXCEPT ![name] = @ \cup {content}]
           [] o = "ok"   -> [n \in Names |-> IF n = "directory" THEN survivors[n]
                                             ELSE {visible'[n]}]
    BY DEF Write
  <1>5. "directory" \in Names
    BY DEF Names
  <1>6. /\ survivors' = [n \in Names |-> survivors'[n]]
        /\ \A n \in Names : survivors'[n] \subseteq survivors[n] \cup {visible'[n]}
        /\ survivors'["directory"] = survivors["directory"]
        /\ o = "ok" => \A n \in Names \ {"directory"} : survivors'[n] = {visible'[n]}
    <2>1. CASE o = "lost"
      BY <2>1, <1>4, <1>5 DEF TypeOK
    <2>2. CASE o = "late"
      BY <2>2, <1>2, <1>4, <1>5 DEF TypeOK
    <2>3. CASE o = "ok"
      <3>1. survivors' = [n \in Names |-> IF n = "directory" THEN survivors[n]
                                          ELSE {visible'[n]}]
        BY <2>3, <1>4
      <3>2. QED BY <3>1, <1>5
    <2>4. QED BY <2>1, <2>2, <2>3 DEF Outcomes
  <1>7. \A n \in Names : survivors'[n] \subseteq Contents(n)
    BY <1>3, <1>6 DEF TypeOK
  <1>8. faults' \in 0..MaxFaults /\ UNCHANGED <<crashes, outages>>
    BY BoundAssumption DEF Write, Fault, TypeOK
  <1>9. QED BY <1>2, <1>3, <1>6, <1>7, <1>8

\* A write never leaves a name without a content that survives.
LEMMA WriteKeeps ==
    ASSUME TypeOK, NEW name \in Names, NEW content, NEW o \in Outcomes,
           Write(name, content, o), NEW n \in Names, survivors[n] # {}
    PROVE  survivors'[n] # {}
  BY DEF Write, Outcomes, TypeOK

\* A readable stop names a request.
LEMMA CurrentShape ==
    ASSUME Inv, visible["current"] # None
    PROVE  /\ visible["current"] \in Records
           /\ Stopped(visible["current"]) => visible["current"].request \in Requests
  BY RecordFiles DEF Inv, TypeOK, ShapeInv, RecordShape, Names

\* A step of one call that leaves the files alone keeps the invariant when the
\* call keeps its own part of it.
LEMMA FilesUnchanged ==
    ASSUME Inv, NEW p \in Procs, UNCHANGED <<files, acked>>,
           granted \subseteq granted', granted' \subseteq References,
           drawn' \subseteq Installations,
           NEW c \in ProcTypes', proc' = [proc EXCEPT ![p] = c],
           CallInv(p)', holder' \in Procs \cup {None},
           holder' = holder \/ holder \in {p, None},
           running' \subseteq [ref : granted', stopped : BOOLEAN],
           EarlierWork' \subseteq EarlierWork \/ ~Stopped(visible["current"]),
           faults' \in 0..MaxFaults, crashes' \in 0..MaxCrashes, outages' \in 0..MaxOutages
    PROVE  Inv'
  <1>1. ProcTypes \subseteq ProcTypes'
    BY DEF ProcTypes
  <1>2. proc' \in [Procs -> ProcTypes']
    BY <1>1 DEF Inv, TypeOK
  <1>3. TypeOK'
    BY <1>2 DEF Inv, TypeOK, files, Contents
  <1>4. ShapeInv' /\ MarkerInv' /\ AcknowledgedStopStands'
    BY DEF Inv, ShapeInv, MarkerInv, AcknowledgedStopStands, DirectoryStands, files
  <1>5. ConfirmedStopIsQuiet'
    BY DEF Inv, ConfirmedStopIsQuiet, Stopped, files
  <1>6. ASSUME NEW q \in Procs, q # p PROVE CallInv(q)'
    <2>1. proc'[q] = proc[q] /\ CallInv(q) /\ visible' = visible /\ survivors' = survivors
      BY <1>6 DEF Inv, TypeOK, files
    <2>2. proc[q].pc \in Locked => holder' = q
      BY <2>1, <1>6, NameAssumption DEF CallInv, Inv, TypeOK
    <2>3. proc[q].pc = "relock" => EarlierWork' = {}
      BY <2>1 DEF CallInv
    <2>4. Readable' = Readable /\ DirectoryStands' = DirectoryStands
      BY <2>1 DEF Readable, DirectoryStands
    <2>5. QED BY <2>1, <2>2, <2>3, <2>4 DEF CallInv
  <1>7. QED BY <1>3, <1>4, <1>5, <1>6 DEF Inv

\* A write of the record by the holder of the lock.
LEMMA CurrentWritten ==
    ASSUME Inv, NEW p \in Procs, holder \in {p, None},
           NEW content \in Records, RecordShape(content), NEW o \in Outcomes,
           Write("current", content, o),
           \/ visible["current"] = None
           \/ ~Stopped(visible["current"])
           \/ Stopped(content) /\ Intent(content) = Intent(visible["current"]),
           visible["current"] = None
              => \A q \in Procs : proc[q].pc \notin {"observe", "relock"},
           visible["current"] # None => Stopped(content),
           visible["marker"] = "full",
           content.state = "observed-stopped" => EarlierWork = {},
           UNCHANGED running,
           acked' = acked \/ AcknowledgedStopStands', acked' \in Records \cup {None},
           granted \subseteq granted', granted' \subseteq References,
           drawn' \subseteq Installations,
           NEW c \in ProcTypes', proc' = [proc EXCEPT ![p] = c],
           CallInv(p)', holder' \in {p, None}
    PROVE  Inv'
  <1>0. /\ "current" \in Names \ {"directory"} /\ content \in Contents("current")
        /\ "marker" \in Names /\ "directory" \in Names /\ "current" # "marker"
    BY RecordFiles DEF Names
  <1>1. /\ visible' = [n \in Names |-> visible'[n]]
        /\ survivors' = [n \in Names |-> survivors'[n]]
        /\ \A n \in Names : visible'[n] \in Contents(n)
                             /\ survivors'[n] \subseteq Contents(n)
        /\ \A n \in Names \ {"current"} : visible'[n] = visible[n]
        /\ visible'["current"] \in {visible["current"], content}
        /\ \A n \in Names : survivors'[n] \subseteq survivors[n] \cup {visible'[n]}
        /\ survivors'["directory"] = survivors["directory"]
        /\ faults' \in 0..MaxFaults /\ UNCHANGED <<crashes, outages>>
    BY <1>0, Written DEF Inv
  <1>2. ProcTypes \subseteq ProcTypes'
    BY DEF ProcTypes
  <1>3. proc' \in [Procs -> ProcTypes']
    BY <1>2 DEF Inv, TypeOK
  <1>4. TypeOK'
    <2>1. \A n : Contents(n)' = Contents(n)
      BY DEF Contents
    <2>2. running' \subseteq [ref : granted', stopped : BOOLEAN]
      BY DEF Inv, TypeOK
    <2>3. holder' \in Procs \cup {None}
      OBVIOUS
    <2>4. QED BY <1>1, <1>3, <2>1, <2>2, <2>3 DEF Inv, TypeOK
  <1>5. ShapeInv'
    <2>1. ASSUME NEW n \in Names \ {"directory", "marker"}
          PROVE RecordShape(visible'[n])
      BY <1>1 DEF Inv, ShapeInv
    <2>2. ASSUME NEW n \in Names \ {"directory", "marker"}, NEW r \in survivors'[n]
          PROVE RecordShape(r)
      BY <1>1, <2>1 DEF Inv, ShapeInv
    <2>3. QED BY <2>1, <2>2 DEF ShapeInv, RecordShape, Stopped
  <1>6. MarkerInv' /\ (DirectoryStands => DirectoryStands')
    BY <1>0, <1>1 DEF Inv, MarkerInv, DirectoryStands
  <1>7. AcknowledgedStopStands'
    <2>1. CASE acked = None \/ acked' # acked
      BY <2>1 DEF AcknowledgedStopStands
    <2>2. CASE acked # None /\ acked' = acked
      <3>1. /\ visible["current"] # None /\ Stopped(visible["current"])
            /\ Intent(visible["current"]) = Intent(acked)
        BY <2>2 DEF Inv, AcknowledgedStopStands
      <3>2. content # None /\ Stopped(content) /\ Intent(content) = Intent(acked)
        BY <3>1, Intents
      <3>3. \A r \in survivors'["current"] \cup {visible'["current"]} :
               r # None /\ Stopped(r) /\ Intent(r) = Intent(acked)
        BY <1>0, <1>1, <2>2, <3>2 DEF Inv, AcknowledgedStopStands
      <3>4. /\ acked \in Records /\ acked.request \in Requests
            /\ acked.request.id \in Ids
        <4>1. acked \in Records
          BY <2>2 DEF Inv, TypeOK
        <4>2. acked.request = visible["current"].request
          BY <3>1, <4>1, CurrentShape, Intents
        <4>3. QED BY <3>1, <4>1, <4>2, CurrentShape, RequestNames
      <3>5. visible'[acked.request.id] = Intent(acked)
        BY <1>1, <2>2, <3>4, NameAssumption DEF Inv, AcknowledgedStopStands, Names
      <3>6. survivors'[acked.request.id] = {Intent(acked)}
        <4>1. survivors'[acked.request.id] \subseteq {Intent(acked)}
          BY <1>1, <2>2, <3>4, <3>5 DEF Inv, AcknowledgedStopStands, Names
        <4>2. survivors'[acked.request.id] # {}
          BY <2>2, <3>4, <3>5, <4>1, RecordFiles, WriteKeeps DEF Inv, AcknowledgedStopStands, Names
        <4>3. QED BY <4>1, <4>2
      <3>7. /\ visible'["marker"] = "full" /\ survivors'["marker"] = {"full"}
            /\ visible'["directory"] = "made" /\ survivors'["directory"] = {"made"}
        <4>1. survivors'["marker"] \subseteq {"full"} /\ survivors'["marker"] # {}
          BY <1>0, <1>1, <2>2, WriteKeeps DEF Inv, AcknowledgedStopStands
        <4>2. QED BY <1>0, <1>1, <2>2, <4>1 DEF Inv, AcknowledgedStopStands
      <3>8. QED BY <2>2, <3>3, <3>5, <3>6, <3>7 DEF AcknowledgedStopStands
    <2>3. QED BY <2>1, <2>2
  <1>8. ConfirmedStopIsQuiet'
    BY <1>1 DEF EarlierWork, Inv, ConfirmedStopIsQuiet
  <1>9. ASSUME NEW q \in Procs, q # p PROVE CallInv(q)'
    <2>1. proc'[q] = proc[q] /\ CallInv(q)
      BY <1>9 DEF Inv, TypeOK
    <2>2. proc[q].pc \notin Locked
      BY <1>9, <2>1, NameAssumption DEF CallInv
    <2>3. visible'["marker"] = visible["marker"]
      BY <1>0, <1>1
    <2>4. proc[q].pc \in {"observe", "relock"} =>
             visible'["current"] # None /\ Stopped(visible'["current"])
      BY <1>1, <2>1, Intents DEF CallInv
    <2>5. QED BY <1>6, <2>1, <2>2, <2>3, <2>4 DEF EarlierWork, CallInv, Locked
  <1>10. QED BY <1>4, <1>5, <1>6, <1>7, <1>8, <1>9 DEF Inv

-----------------------------------------------------------------------------
(* The steps. *)

\* A call that returned knows and holds nothing.
LEMMA Returned ==
    ASSUME Inv, NEW p \in Procs, Return(p)
    PROVE  /\ CallInv(p)' /\ Idle \in ProcTypes'
           /\ holder' \in Procs \cup {None}
           /\ holder' = holder \/ (holder = p /\ holder' = None)
  <1>1. proc'[p] = Idle
    BY DEF Return, Inv, TypeOK
  <1>2. CallInv(p)'
    BY <1>1 DEF CallInv, Idle, Locked
  <1>3. Idle \in ProcTypes'
    BY DEF Idle, ProcTypes
  <1>4. QED BY <1>2, <1>3 DEF Return, Inv, TypeOK

\* A call that returns without having written keeps the invariant.
LEMMA ReturnKeeps ==
    ASSUME Inv, NEW p \in Procs, Return(p), UNCHANGED <<files, acked, drawn, running>>,
           granted \subseteq granted', granted' \subseteq References,
           faults' \in 0..MaxFaults, crashes' \in 0..MaxCrashes, outages' \in 0..MaxOutages
    PROVE  Inv'
  <1>1. proc' = [proc EXCEPT ![p] = Idle]
    BY DEF Return
  <1>2. QED
    BY <1>1, Returned, FilesUnchanged DEF EarlierWork, Inv, TypeOK

\* A call that moves on without having written keeps the invariant.
LEMMA GoKeeps ==
    ASSUME Inv, NEW p \in Procs, UNCHANGED <<files, granted, drawn, acked, running, bounds>>,
           NEW c \in ProcTypes, proc' = [proc EXCEPT ![p] = c],
           CallInv(p)', holder' = holder \/ (holder = None /\ holder' = p)
    PROVE  Inv'
  <1>1. c \in ProcTypes'
    BY DEF ProcTypes
  <1>2. QED
    BY <1>1, FilesUnchanged DEF EarlierWork, Inv, TypeOK, bounds

\* The local variables of a call.
LEMMA Locals ==
    ASSUME Inv, NEW p \in Procs
    PROVE  /\ proc[p] \in ProcTypes /\ CallInv(p)
           /\ \A c : [proc EXCEPT ![p] = c] \in [Procs -> ProcTypes \cup {c}]
           /\ \A c : [proc EXCEPT ![p] = c][p] = c
           /\ \A pc : [proc EXCEPT ![p].pc = pc] = [proc EXCEPT ![p] = [proc[p] EXCEPT !.pc = pc]]
  BY DEF Inv, TypeOK

\* A call that has just been made holds nothing.
LEMMA OpenKeeps ==
    ASSUME Inv, NEW p \in Procs, NEW c \in ProcTypes, c.pc = "open", c.created = FALSE, c.made = FALSE,
           c.kind = "stop" => c.request \in Requests,
           proc' = [proc EXCEPT ![p] = c],
           UNCHANGED <<files, holder, granted, drawn, acked, running, bounds>>
    PROVE  Inv'
  <1>1. proc'[p] = c
    BY Locals
  <1>2. CallInv(p)'
    BY <1>1 DEF CallInv, Locked
  <1>3. QED BY <1>2, GoKeeps

\* A new call, of whatever kind.
LEMMA CallKeeps ==
    ASSUME Inv, NEW p \in Procs, Call(p)
    PROVE  Inv'
  <1>1. CASE CallInitialize(p)
    <2>1. [Idle EXCEPT !.pc = "open", !.kind = "initialize"] \in ProcTypes
      BY DEF Idle, ProcTypes, Creators
    <2>2. QED BY <1>1, <2>1, OpenKeeps DEF CallInitialize, Idle
  <1>2. ASSUME NEW q \in Requests, CallStop(p, q) PROVE Inv'
    <2>1. [Idle EXCEPT !.pc = "open", !.kind = "stop", !.request = q] \in ProcTypes
      BY DEF Idle, ProcTypes, Creators
    <2>2. QED BY <1>2, <2>1, OpenKeeps DEF CallStop, Idle
  <1>3. ASSUME NEW q \in Requests, CallRecord(p, q) PROVE Inv'
    <2>1. [Idle EXCEPT !.pc = "open", !.kind = "record", !.request = q] \in ProcTypes
      BY DEF Idle, ProcTypes
    <2>2. QED BY <1>3, <2>1, OpenKeeps DEF CallRecord, Idle
  <1>4. ASSUME NEW kind \in EffectKinds, NEW ref \in granted,
               NEW q \in Requests \cup {NobodyStopped}, CallEffect(p, kind, ref, q)
        PROVE  Inv'
    <2>1. [Idle EXCEPT !.pc = "open", !.kind = kind, !.ref = ref, !.request = q]
             \in ProcTypes
      BY DEF Idle, ProcTypes
    <2>2. QED BY <1>4, <2>1, OpenKeeps DEF CallEffect, Idle
  <1>5. QED BY <1>1, <1>2, <1>3, <1>4 DEF Call

\* The steps that leave the files alone, up to the lock.
LEMMA LockStepsKeep ==
    ASSUME Inv, NEW p \in Procs,
           OpenDirectory(p) \/ AcquireLock(p) \/ GiveUp(p) \/ Crash(p)
    PROVE  Inv'
  <1>1. CASE Return(p) /\ UNCHANGED <<files, granted, drawn, acked, running>>
             /\ (UNCHANGED bounds \/ Crash(p))
    <2>1. /\ faults' \in 0..MaxFaults /\ crashes' \in 0..MaxCrashes
          /\ outages' \in 0..MaxOutages
      BY <1>1, BoundAssumption DEF Crash, bounds, Inv, TypeOK
    <2>2. QED BY <1>1, <2>1, ReturnKeeps DEF Inv, TypeOK
  <1>2. ASSUME NEW pc \in {"lockfile", "mkdir"}, Go(p, pc), UNCHANGED holder,
               UNCHANGED <<files, granted, drawn, acked, running, bounds>>
        PROVE  Inv'
    <2> DEFINE c == [proc[p] EXCEPT !.pc = pc]
    <2>1. /\ c \in ProcTypes /\ c.pc = pc /\ c.created = proc[p].created
          /\ c.kind = proc[p].kind /\ c.request = proc[p].request /\ c.made = proc[p].made
      BY Locals DEF ProcTypes
    <2>2. proc' = [proc EXCEPT ![p] = c] /\ proc'[p] = c
      BY <1>2, Locals DEF Go
    <2> HIDE DEF c
    <2>3. CallInv(p)'
      BY <1>2, <2>1, <2>2, Locals DEF CallInv, Locked, files, DirectoryStands
    <2>4. QED BY <1>2, <2>1, <2>2, <2>3, GoKeeps
  <1>3. ASSUME NEW pc \in {"marker", "body"}, Go(p, pc), holder = None, holder' = p,
               pc = "marker" => proc[p].made,
               pc = "body" => visible["marker"] = "full",
               UNCHANGED <<files, granted, drawn, acked, running, bounds>>
        PROVE  Inv'
    <2> DEFINE c == [proc[p] EXCEPT !.pc = pc]
    <2>1. /\ c \in ProcTypes /\ c.pc = pc /\ c.created = proc[p].created
          /\ c.kind = proc[p].kind /\ c.request = proc[p].request /\ c.made = proc[p].made
      BY Locals DEF ProcTypes
    <2>2. proc' = [proc EXCEPT ![p] = c] /\ proc'[p] = c
      BY <1>3, Locals DEF Go
    <2> HIDE DEF c
    <2>3. CallInv(p)'
      BY <1>3, <2>1, <2>2, Locals DEF CallInv, Locked, files, DirectoryStands
    <2>4. QED BY <1>3, <2>1, <2>2, <2>3, GoKeeps
  <1>4. CASE AcquireLock(p) /\ proc[p].made
    BY <1>3, <1>4 DEF AcquireLock
  <1>5. CASE AcquireLock(p) /\ ~proc[p].made
    BY <1>1, <1>3, <1>5 DEF AcquireLock
  <1>6. CASE OpenDirectory(p)
    BY <1>1, <1>2, <1>6 DEF OpenDirectory
  <1>7. QED BY <1>1, <1>4, <1>5, <1>6 DEF GiveUp, Crash

\* A call that moves on under the lock it holds, or with no lock.
LEMMA MoveKeeps ==
    ASSUME Inv, NEW p \in Procs, NEW c \in ProcTypes, c.created = proc[p].created,
           c.kind = proc[p].kind, c.request = proc[p].request, c.made = proc[p].made,
           proc' = [proc EXCEPT ![p] = c],
           UNCHANGED <<files, holder, granted, drawn, acked, running, bounds>>,
           c.pc \in Locked => proc[p].pc \in Locked,
           visible["marker"] = "full",
           c.pc \notin {"marker", "body"},
           c.pc \in {"intent", "flush"} =>
              /\ c.record # None /\ Stopped(c.record) /\ visible["current"] = c.record,
           c.pc = "flush" => visible[c.record.request.id] = Intent(c.record),
           c.pc = "begin" =>
              /\ Readable
              /\ Admitted(visible["current"], c.kind, c.ref, c.request),
           c.pc \in {"observe", "relock"} =>
              visible["current"] # None /\ Stopped(visible["current"]),
           c.pc = "relock" => EarlierWork = {}
    PROVE  Inv'
  <1>1. proc'[p] = c /\ visible' = visible /\ survivors' = survivors
    BY Locals DEF files
  <1>2. CallInv(p)'
    BY <1>1, Locals DEF EarlierWork, CallInv, files, DirectoryStands, Readable
  <1>3. QED BY <1>2, GoKeeps

\* The admission of an effect, its beginning and the second observation.
LEMMA EffectStepsKeep ==
    ASSUME Inv, NEW p \in Procs, Admit(p) \/ Begin(p) \/ Observe(p)
    PROVE  Inv'
  <1>1. CASE Return(p) /\ UNCHANGED <<files, granted, drawn, acked, running, bounds>>
    BY <1>1, ReturnKeeps DEF Inv, TypeOK, bounds
  <1>2. CASE Admit(p) /\ Go(p, "begin") /\ UNCHANGED holder
    <2> DEFINE c == [proc[p] EXCEPT !.pc = "begin"]
    <2>1. /\ c \in ProcTypes /\ c.pc = "begin" /\ c.created = proc[p].created
          /\ c.kind = proc[p].kind /\ c.ref = proc[p].ref
          /\ c.request = proc[p].request /\ c.made = proc[p].made
      BY Locals DEF ProcTypes
    <2>2. proc' = [proc EXCEPT ![p] = c] /\ proc[p].pc = "body"
      BY <1>2, Locals DEF Go, Admit, At
    <2>3. /\ Readable /\ visible["marker"] = "full"
          /\ Admitted(visible["current"], c.kind, c.ref, c.request)
      <3>1. visible["marker"] = "full"
        BY <2>2, Locals DEF CallInv
      <3>2. ~Return(p)
        <4>1. SUFFICES ASSUME Return(p) PROVE FALSE
          OBVIOUS
        <4>2. proc'[p] = Idle
          BY <4>1, Locals DEF Return
        <4>3. proc'[p] = c
          BY <2>2, Locals
        <4>4. QED BY <2>1, <4>2, <4>3 DEF Idle
      <3>3. QED BY <1>2, <2>1, <3>1, <3>2 DEF Admit
    <2> HIDE DEF c
    <2>4. QED BY <1>2, <2>1, <2>2, <2>3, MoveKeeps DEF Admit, Locked
  <1>3. CASE Begin(p)
    <2>1. proc[p].pc = "begin" /\ Return(p)
      BY <1>3 DEF Begin, At
    <2>2. Readable /\ Admitted(visible["current"], proc[p].kind, proc[p].ref, proc[p].request)
      BY <2>1, Locals DEF CallInv
    <2> DEFINE w == Work(proc[p].ref, Stopped(visible["current"]))
    <2>3. proc[p].ref \in granted
      <3>1. proc[p].ref \in granted \cup {Idle.ref}
        BY Locals DEF ProcTypes
      <3>2. visible["current"] \in Records /\ Idle.ref.installation = None
        BY <2>2, CurrentShape DEF Readable, Idle
      <3>3. proc[p].ref.installation = visible["current"].installation
        BY <2>2 DEF Admitted, Successor, Reference
      <3>4. proc[p].ref.installation # None
        BY <3>2, <3>3, NameAssumption DEF Records
      <3>5. QED BY <3>1, <3>2, <3>4
    <2>4. w \in [ref : granted, stopped : BOOLEAN] /\ w.stopped = Stopped(visible["current"])
      BY <2>3 DEF Work, Stopped
    <2>5. running' = running \cup {w}
      BY <1>3 DEF Begin
    <2>6. running' \subseteq [ref : granted, stopped : BOOLEAN]
      BY <2>4, <2>5 DEF Inv, TypeOK
    <2>7. EarlierWork' \subseteq EarlierWork \/ ~Stopped(visible["current"])
      BY <2>4, <2>5 DEF EarlierWork
    <2>8. proc' = [proc EXCEPT ![p] = Idle]
      BY <2>1 DEF Return
    <2> HIDE DEF w
    <2>9. QED
      BY <1>3, <2>1, <2>6, <2>7, <2>8, Returned, FilesUnchanged
      DEF Begin, bounds, Inv, TypeOK
  <1>4. CASE Observe(p) /\ running = {} /\ Go(p, "relock") /\ UNCHANGED holder
    <2> DEFINE c == [proc[p] EXCEPT !.pc = "relock"]
    <2>1. c \in ProcTypes /\ c.pc = "relock" /\ c.created = proc[p].created
          /\ c.kind = proc[p].kind /\ c.request = proc[p].request /\ c.made = proc[p].made
      BY Locals DEF ProcTypes
    <2>2. proc' = [proc EXCEPT ![p] = c] /\ proc[p].pc = "observe"
      BY <1>4, Locals DEF Go, Observe, At
    <2> HIDE DEF c
    <2>3. EarlierWork = {}
      BY <1>4 DEF EarlierWork
    <2>4. QED BY <1>4, <2>1, <2>2, <2>3, Locals, MoveKeeps DEF Observe, CallInv, Locked
  <1>5. CASE Admit(p) /\ ~(Go(p, "begin") /\ UNCHANGED holder)
    BY <1>1, <1>5 DEF Admit
  <1>6. CASE Observe(p) /\ ~(running = {} /\ Go(p, "relock") /\ UNCHANGED holder)
    BY <1>1, <1>6 DEF Observe
  <1>7. QED BY <1>2, <1>3, <1>4, <1>5, <1>6

\* A write of the record after which the call returns.
LEMMA WriteReturns ==
    ASSUME Inv, NEW p \in Procs, proc[p].pc \in Locked \/ holder = None,
           NEW content \in Records, RecordShape(content), NEW o \in Outcomes,
           Write("current", content, o), Return(p),
           \/ visible["current"] = None /\ proc[p].pc \in Locked
              /\ DirectoryStands /\ (\A q \in Procs : proc[q].pc \notin {"observe", "relock"})
           \/ visible["current"] # None /\ ~Stopped(visible["current"]) /\ Stopped(content)
           \/ visible["current"] # None /\ Stopped(content)
              /\ Intent(content) = Intent(visible["current"]),
           visible["marker"] = "full",
           content.state = "observed-stopped" => EarlierWork = {},
           UNCHANGED running,
           acked' = acked \/ AcknowledgedStopStands', acked' \in Records \cup {None},
           granted \subseteq granted', granted' \subseteq References,
           drawn' \subseteq Installations
    PROVE  Inv'
  <1>1. holder \in {p, None} /\ holder' \in {p, None}
    BY Locals DEF CallInv, Return
  <1>2. proc' = [proc EXCEPT ![p] = Idle]
    BY DEF Return
  <1>3. /\ \/ visible["current"] = None
           \/ ~Stopped(visible["current"])
           \/ Stopped(content) /\ Intent(content) = Intent(visible["current"])
        /\ visible["current"] = None
              => \A q \in Procs : proc[q].pc \notin {"observe", "relock"}
        /\ visible["current"] # None => Stopped(content)
    OBVIOUS
  <1>4. QED
    BY <1>1, <1>2, <1>3, Returned, CurrentWritten

\* A record that has never been written stops nobody.
LEMMA NobodyObserves ==
    ASSUME Inv, visible["current"] = None, NEW q \in Procs
    PROVE  proc[q].pc \notin {"observe", "relock"}
  BY Locals DEF CallInv

\* The bootstrap: it founds an installation or leaves the record alone.
LEMMA InitializeKeeps ==
    ASSUME Inv, NEW p \in Procs, Initialize(p)
    PROVE  Inv'
  <1>1. proc[p].pc = "body" /\ Return(p) /\ UNCHANGED <<acked, running>>
    BY DEF Initialize, At
  <1>2. visible["marker"] = "full"
    BY <1>1, Locals DEF CallInv
  <1>3. CASE /\ visible["current"] # None
             /\ granted' = IF Readable /\ ~Stopped(visible["current"])
                           THEN granted \cup {Reference(visible["current"])} ELSE granted
             /\ UNCHANGED <<files, drawn, bounds>>
    <2>1. Reference(visible["current"]) \in References
      BY <1>3, CurrentShape DEF Reference, References, Records
    <2>2. granted \subseteq granted' /\ granted' \subseteq References
      BY <1>3, <2>1 DEF Inv, TypeOK
    <2>3. QED BY <1>1, <1>3, <2>2, ReturnKeeps DEF Inv, TypeOK, bounds
  <1>4. ASSUME NEW i \in Installations \ drawn, NEW o \in Outcomes, MayFound(p),
               Write("current", Ready(i), o),
               drawn' = drawn \cup {i},
               granted' = IF o = "ok" THEN granted \cup {Reference(Ready(i))}
                                      ELSE granted
        PROVE  Inv'
    <2>1. Ready(i) \in Records /\ RecordShape(Ready(i)) /\ ~Stopped(Ready(i))
          /\ Ready(i).state # "observed-stopped"
      BY DEF Ready, Records, RecordShape, Stopped
    <2>2. Reference(Ready(i)) \in References
      BY DEF Ready, Reference, References
    <2>3. /\ granted \subseteq granted' /\ granted' \subseteq References
          /\ drawn' \subseteq Installations
      BY <1>4, <2>2 DEF Inv, TypeOK
    <2>4. /\ visible["current"] = None /\ proc[p].pc \in Locked /\ DirectoryStands
          /\ \A q \in Procs : proc[q].pc \notin {"observe", "relock"}
      BY <1>1, <1>4, Locals, NobodyObserves DEF MayFound, CallInv, Locked
    <2>5. acked' \in Records \cup {None}
      BY <1>1 DEF Inv, TypeOK
    <2>6. QED BY <1>1, <1>2, <1>4, <2>1, <2>3, <2>4, <2>5, WriteReturns
  <1>5. CASE visible["current"] = None /\ UNCHANGED <<files, granted, drawn, bounds>>
    BY <1>1, <1>5, ReturnKeeps DEF Inv, TypeOK, bounds
  <1>6. QED BY <1>3, <1>4, <1>5 DEF Initialize

\* The first write of a stop.
LEMMA StopWritten ==
    ASSUME Inv, NEW p \in Procs, proc[p].pc = "body", NEW record \in Records,
           Stopped(record), record.request \in Requests,
           record.state # "observed-stopped", StopTo(p, record),
           visible["current"] # None => ~Stopped(visible["current"]),
           UNCHANGED <<granted, acked, running>>, drawn' \subseteq Installations
    PROVE  Inv'
  <1>1. PICK o \in Outcomes :
          /\ Write("current", record, o)
          /\ IF o = "ok"
             THEN /\ proc' = [proc EXCEPT ![p].pc = "intent", ![p].record = record]
                  /\ UNCHANGED holder
             ELSE Return(p)
    BY DEF StopTo
  <1>2. /\ visible["marker"] = "full" /\ holder = p
        /\ proc[p].created \/ proc[p].made => DirectoryStands
    BY Locals DEF CallInv, Locked
  <1>3. RecordShape(record) /\ record # None /\ DirectoryStands
    <2>1. record # None /\ visible["marker"] # None
      BY <1>2, AbsenceAssumption
    <2>2. QED BY <2>1 DEF RecordShape, Inv, MarkerInv
  <1>4. visible["current"] = None
           => \A q \in Procs : proc[q].pc \notin {"observe", "relock"}
    BY NobodyObserves
  <1>5. acked' \in Records \cup {None} /\ granted' \subseteq References
    BY DEF Inv, TypeOK
  <1>6. CASE Return(p)
    BY <1>1, <1>2, <1>3, <1>4, <1>5, <1>6, WriteReturns DEF Locked
  <1>7. CASE /\ o = "ok" /\ UNCHANGED holder
             /\ proc' = [proc EXCEPT ![p].pc = "intent", ![p].record = record]
    <2> DEFINE c == [proc[p] EXCEPT !.pc = "intent", !.record = record]
    <2>1. /\ c \in ProcTypes' /\ c.pc = "intent" /\ c.record = record
          /\ c.created = proc[p].created /\ c.kind = proc[p].kind
          /\ c.request = proc[p].request /\ c.made = proc[p].made
      BY Locals DEF ProcTypes
    <2>2. proc' = [proc EXCEPT ![p] = c] /\ proc'[p] = c
      BY <1>7, Locals DEF Inv, TypeOK
    <2> HIDE DEF c
    <2>3. /\ visible'["current"] = record /\ visible'["marker"] = visible["marker"]
          /\ visible'["directory"] = visible["directory"]
          /\ survivors'["directory"] = survivors["directory"]
      <3>1. "current" \in Names \ {"directory"} /\ record \in Contents("current")
            /\ "marker" \in Names \ {"current"} /\ "directory" \in Names \ {"current"}
        BY RecordFiles DEF Names
      <3>2. QED BY <1>1, <1>7, <3>1, Written DEF Inv
    <2>4. CallInv(p)'
      BY <1>2, <1>3, <1>7, <2>1, <2>2, <2>3, Locals DEF CallInv, Locked, DirectoryStands
    <2>5. QED
      BY <1>1, <1>2, <1>3, <1>4, <1>5, <1>7, <2>1, <2>2, <2>4, CurrentWritten
  <1>8. QED BY <1>1, <1>6, <1>7

\* The record of a stop has the next epoch and the request of the stop.
LEMMA RevokedRecords ==
    ASSUME NEW r \in Records, NEW q \in Requests
    PROVE  /\ Revoked(r, q) \in Records /\ Stopped(Revoked(r, q))
           /\ Revoked(r, q).request = q /\ Revoked(r, q).state # "observed-stopped"
  <1> DEFINE next == r.sequence + 1
  <1>1. r.sequence \in Nat /\ next \in Nat \ {0}
    BY DEF Records
  <1>2. Revoked(r, q) =
            [[[r EXCEPT !.sequence = next] EXCEPT !.request = q] EXCEPT !.state = "requested"]
    BY DEF Revoked, Records
  <1> HIDE DEF next
  <1>3. QED BY <1>1, <1>2 DEF Records, Stopped

\* A stop replaces a record that stops nobody, founds one, or repeats its own.
LEMMA RequestStopKeeps ==
    ASSUME Inv, NEW p \in Procs, RequestStop(p)
    PROVE  Inv'
  <1> DEFINE r == visible["current"]
             q == proc[p].request
  <1>1. /\ proc[p].pc = "body" /\ UNCHANGED <<granted, acked, running>>
        /\ proc[p].kind = "stop"
    BY DEF RequestStop, At
  <1>2. visible["marker"] = "full"
    BY <1>1, Locals DEF CallInv
  <1>3. q \in Requests \cup {NobodyStopped}
    BY Locals DEF ProcTypes
  <1>4. CASE r # None /\ ~Stopped(r) /\ StopTo(p, Revoked(r, q)) /\ UNCHANGED drawn
             /\ q \in Requests
    <2>1. /\ Revoked(r, q) \in Records /\ Stopped(Revoked(r, q))
          /\ Revoked(r, q).request = q /\ Revoked(r, q).state # "observed-stopped"
      <3>1. r \in Records
        BY <1>4, CurrentShape
      <3>2. QED BY <1>4, <3>1, RevokedRecords
    <2>2. drawn' \subseteq Installations
      BY <1>4 DEF Inv, TypeOK
    <2>3. QED BY <1>1, <1>4, <2>1, <2>2, StopWritten
  <1>5. ASSUME NEW i \in Installations \ drawn, MayFound(p), StopTo(p, First(i, q)),
               drawn' = drawn \cup {i}, q \in Requests
        PROVE  Inv'
    <2>1. /\ First(i, q) \in Records /\ Stopped(First(i, q))
          /\ First(i, q).request = q /\ First(i, q).state # "observed-stopped"
      BY <1>5 DEF First, Records, Stopped
    <2>2. drawn' \subseteq Installations
      BY <1>5 DEF Inv, TypeOK
    <2>3. QED BY <1>1, <1>5, <2>1, <2>2, StopWritten DEF MayFound
  <1>6. CASE /\ r # None /\ Stopped(r)
             /\ proc' = [proc EXCEPT ![p].pc = "intent", ![p].record = r]
             /\ UNCHANGED <<files, holder, drawn, bounds>>
    <2> DEFINE c == [proc[p] EXCEPT !.pc = "intent", !.record = r]
    <2>1. r \in Records
      BY <1>6, CurrentShape
    <2>2. /\ c \in ProcTypes /\ c.pc = "intent" /\ c.record = r
          /\ c.created = proc[p].created /\ c.kind = proc[p].kind
          /\ c.request = proc[p].request /\ c.made = proc[p].made
      BY <2>1, Locals DEF ProcTypes
    <2>3. proc' = [proc EXCEPT ![p] = c]
      BY <1>6, Locals DEF Inv, TypeOK
    <2> HIDE DEF c
    <2>4. QED BY <1>1, <1>2, <1>6, <2>2, <2>3, MoveKeeps DEF Locked
  <1>7. CASE Return(p) /\ UNCHANGED <<files, drawn, bounds>>
    BY <1>1, <1>7, ReturnKeeps DEF Inv, TypeOK, bounds
  <1>8. q \in Requests
    BY <1>1, Locals DEF CallInv
  <1>9. QED BY <1>4, <1>5, <1>6, <1>7, <1>8 DEF RequestStop

\* The last write of a stop, which is then acknowledged.
LEMMA FlushKeeps ==
    ASSUME Inv, NEW p \in Procs, Flush(p)
    PROVE  Inv'
  <1> DEFINE r == proc[p].record
  <1>1. proc[p].pc = "flush" /\ Return(p) /\ UNCHANGED <<granted, drawn, running>>
    BY DEF Flush, At
  <1>2. PICK o \in Outcomes :
          Write("current", r, o) /\ acked' = IF o = "ok" THEN r ELSE acked
    BY DEF Flush
  <1>3. /\ r # None /\ Stopped(r) /\ visible["current"] = r
        /\ visible[r.request.id] = Intent(r) /\ visible["marker"] = "full"
    BY <1>1, Locals DEF CallInv
  <1>4. r \in Records /\ r.request \in Requests /\ r.request.id \in Ids
    BY <1>3, CurrentShape, RequestNames
  <1>5. RecordShape(r) /\ (r.state = "observed-stopped" => EarlierWork = {})
    BY <1>3, <1>4 DEF RecordShape, Inv, ConfirmedStopIsQuiet
  <1>6. CASE o = "ok"
    <2>1. /\ "current" \in Names \ {"directory"} /\ r \in Contents("current")
          /\ r.request.id \in Names \ {"directory", "current"}
          /\ "marker" \in Names \ {"directory", "current"} /\ "directory" \in Names \ {"current"}
      BY <1>4, RecordFiles, RequestNames DEF Names
    <2>2. /\ visible'["current"] = r
          /\ \A n \in Names \ {"current"} : visible'[n] = visible[n]
          /\ \A n \in Names \ {"directory"} : survivors'[n] = {visible'[n]}
          /\ survivors'["directory"] = survivors["directory"]
      BY <1>2, <1>6, <2>1, Written DEF Inv
    <2>3. DirectoryStands
      BY <1>3, AbsenceAssumption DEF Inv, MarkerInv
    <2>4. AcknowledgedStopStands'
      BY <1>2, <1>3, <1>6, <2>1, <2>2, <2>3 DEF AcknowledgedStopStands, DirectoryStands
    <2>5. acked' \in Records \cup {None}
      BY <1>2, <1>4, <1>6
    <2>6. QED
      BY <1>1, <1>2, <1>3, <1>4, <1>5, <2>4, <2>5, WriteReturns DEF Locked, Inv, TypeOK
  <1>7. CASE o # "ok"
    <2>1. acked' = acked /\ acked' \in Records \cup {None}
      BY <1>2, <1>7 DEF Inv, TypeOK
    <2>2. QED
      BY <1>1, <1>2, <1>3, <1>4, <1>5, <2>1, WriteReturns DEF Locked, Inv, TypeOK
  <1>8. QED BY <1>6, <1>7

\* The record of an unknown outcome.
LEMMA RecordUnknownKeeps ==
    ASSUME Inv, NEW p \in Procs, RecordUnknown(p)
    PROVE  Inv'
  <1> DEFINE r == [visible["current"] EXCEPT !.state = "cleanup-unknown"]
  <1>1. proc[p].pc = "body" /\ UNCHANGED <<granted, drawn, acked, running>>
    BY DEF RecordUnknown, At
  <1>2. /\ visible["marker"] = "full" /\ holder = p
        /\ proc[p].created \/ proc[p].made => DirectoryStands
        /\ proc[p].kind = "stop" => proc[p].request \in Requests
    BY <1>1, Locals DEF CallInv, Locked
  <1>3. CASE Return(p) /\ UNCHANGED <<files, bounds>>
    BY <1>1, <1>3, ReturnKeeps DEF Inv, TypeOK, bounds
  <1>4. CASE Matches(proc[p].request)
    <2>1. PICK o \in Outcomes :
              /\ Write("current", r, o)
              /\ holder' = None
              /\ proc' = [proc EXCEPT ![p] =
                            IF o = "ok" THEN [@ EXCEPT !.pc = "observe", !.record = r]
                                        ELSE Idle]
      BY <1>4 DEF RecordUnknown
    <2>2. /\ visible["current"] # None /\ Stopped(visible["current"])
          /\ visible["current"] \in Records
          /\ visible["current"].request \in Requests
      BY <1>4, CurrentShape DEF Matches, Readable
    <2>3. /\ r \in Records /\ Stopped(r) /\ r.state # "observed-stopped"
          /\ r.request \in Requests /\ Intent(r) = Intent(visible["current"])
      BY <2>2 DEF Records, Stopped, Intent
    <2>4. RecordShape(r) /\ r # None
      BY <2>3, Intents DEF RecordShape
    <2> HIDE DEF r
    <2>5. CASE o # "ok"
      <3>1. Return(p)
        BY <1>2, <2>1, <2>5 DEF Return
      <3>2. QED
        BY <1>1, <1>2, <2>1, <2>2, <2>3, <2>4, <3>1, WriteReturns DEF Locked, Inv, TypeOK
    <2>6. CASE o = "ok"
      <3> DEFINE c == [proc[p] EXCEPT !.pc = "observe", !.record = r]
      <3>1. /\ c \in ProcTypes' /\ c.pc = "observe" /\ c.created = proc[p].created
            /\ c.kind = proc[p].kind /\ c.request = proc[p].request /\ c.made = proc[p].made
        BY <1>1, <2>3, Locals DEF ProcTypes
      <3>2. proc' = [proc EXCEPT ![p] = c] /\ proc'[p] = c
        BY <2>1, <2>6, Locals
      <3> HIDE DEF c
      <3>3. /\ visible'["current"] = r /\ visible'["marker"] = visible["marker"]
            /\ visible'["directory"] = visible["directory"]
            /\ survivors'["directory"] = survivors["directory"]
        <4>1. "current" \in Names \ {"directory"} /\ r \in Contents("current")
              /\ "marker" \in Names \ {"current"} /\ "directory" \in Names \ {"current"}
          BY <2>3, RecordFiles DEF Names
        <4>2. QED BY <2>1, <2>6, <4>1, Written DEF Inv
      <3>4. CallInv(p)'
        BY <1>2, <2>3, <2>4, <3>1, <3>2, <3>3 DEF CallInv, Locked, DirectoryStands
      <3>5. /\ granted' \subseteq References /\ drawn' \subseteq Installations
            /\ acked' \in Records \cup {None}
        BY <1>1 DEF Inv, TypeOK
      <3>6. QED
        BY <1>1, <1>2, <2>1, <2>2, <2>3, <2>4, <3>1, <3>2, <3>4, <3>5, CurrentWritten
    <2>7. QED BY <2>5, <2>6
  <1>5. QED BY <1>1, <1>3, <1>4 DEF RecordUnknown

\* The record of the confirmed stop.
LEMMA RecordObservedKeeps ==
    ASSUME Inv, NEW p \in Procs, RecordObserved(p)
    PROVE  Inv'
  <1> DEFINE r == [visible["current"] EXCEPT !.state = "observed-stopped"]
  <1>1. /\ proc[p].pc = "relock" /\ holder = None /\ Return(p)
        /\ UNCHANGED <<granted, drawn, acked, running>>
    BY DEF RecordObserved, At
  <1>2. visible["marker"] = "full" /\ EarlierWork = {}
    BY <1>1, Locals DEF CallInv
  <1>3. CASE UNCHANGED <<files, bounds>>
    BY <1>1, <1>3, ReturnKeeps DEF Inv, TypeOK, bounds
  <1>4. CASE Matches(proc[p].request) /\ \E o \in Outcomes : Write("current", r, o)
    <2>1. PICK o \in Outcomes : Write("current", r, o)
      BY <1>4
    <2>2. /\ visible["current"] # None /\ Stopped(visible["current"])
          /\ visible["current"] \in Records
          /\ visible["current"].request \in Requests
      BY <1>4, CurrentShape DEF Matches, Readable
    <2>3. /\ r \in Records /\ Stopped(r)
          /\ r.request \in Requests /\ Intent(r) = Intent(visible["current"])
      BY <2>2 DEF Records, Stopped, Intent
    <2>4. RecordShape(r)
      BY <2>3 DEF RecordShape
    <2> HIDE DEF r
    <2>5. QED
      BY <1>1, <1>2, <2>1, <2>2, <2>3, <2>4, WriteReturns DEF Inv, TypeOK
  <1>5. QED BY <1>3, <1>4 DEF RecordObserved

\* The lock file, and whoever waits for it, before anything is written.
LEMMA UnlockedOthers ==
    ASSUME Inv, NEW p \in Procs, proc[p].pc \in Locked, NEW q \in Procs, q # p
    PROVE  proc[q].pc \notin Locked
  BY Locals, NameAssumption DEF CallInv

\* The request of a stop is written once and never replaced.
LEMMA WriteIntentKeeps ==
    ASSUME Inv, NEW p \in Procs, WriteIntent(p)
    PROVE  Inv'
  <1> DEFINE r == proc[p].record
  <1>1. proc[p].pc = "intent" /\ UNCHANGED <<granted, drawn, acked, running>>
    BY DEF WriteIntent, At
  <1>2. /\ r # None /\ Stopped(r) /\ visible["current"] = r
        /\ visible["marker"] = "full" /\ holder = p
        /\ proc[p].created \/ proc[p].made => DirectoryStands
        /\ proc[p].kind = "stop" => proc[p].request \in Requests
    BY <1>1, Locals DEF CallInv, Locked
  <1>3. r \in Records /\ r.request \in Requests /\ r.request.id \in Ids
    BY <1>2, CurrentShape, RequestNames
  <1> DEFINE f == r.request.id
             c == [proc[p] EXCEPT !.pc = "flush"]
  <1>4. /\ c \in ProcTypes /\ c.pc = "flush" /\ c.created = proc[p].created
        /\ c.kind = proc[p].kind /\ c.request = proc[p].request /\ c.made = proc[p].made
        /\ c.record = r
    BY Locals DEF ProcTypes
  <1>5. Go(p, "flush") => proc' = [proc EXCEPT ![p] = c] /\ proc'[p] = c
    BY Locals DEF Go
  <1> HIDE DEF c
  <1>6. CASE Return(p) /\ UNCHANGED <<files, bounds>>
    BY <1>1, <1>6, ReturnKeeps DEF Inv, TypeOK, bounds
  <1>7. CASE visible[f] = Intent(r) /\ Go(p, "flush") /\ UNCHANGED <<files, holder, bounds>>
    BY <1>1, <1>2, <1>4, <1>5, <1>7, MoveKeeps DEF Locked
  <1>8. CASE visible[f] = None
    <2>1. PICK o \in Outcomes :
              /\ Write(f, Intent(r), o)
              /\ IF o = "ok" THEN Go(p, "flush") /\ UNCHANGED holder ELSE Return(p)
      <3>1. Intent(r) # None
        BY <1>3, Intents
      <3>2. QED BY <1>8, <3>1 DEF WriteIntent
    <2>2. /\ f \in Names \ {"directory"} /\ f # "current" /\ f # "marker"
          /\ Intent(r) \in Contents(f) /\ Intent(r) \in Records
          /\ RecordShape(Intent(r)) /\ "current" \in Names \ {f, "directory", "marker"}
          /\ "marker" \in Names \ {f} /\ "directory" \in Names
      BY <1>3, RecordFiles, RequestNames, Intents DEF Names, RecordShape
    <2>3. acked = None
      <3>1. SUFFICES ASSUME acked # None PROVE FALSE
        OBVIOUS
      <3>2. acked \in Records /\ Intent(r) = Intent(acked) /\ visible[acked.request.id] = Intent(acked)
        BY <1>2, <3>1 DEF Inv, TypeOK, AcknowledgedStopStands
      <3>3. acked.request = r.request
        BY <1>3, <3>2, Intents
      <3>4. QED BY <1>3, <1>8, <3>2, <3>3, Intents
    <2>4. /\ visible' = [n \in Names |-> visible'[n]]
          /\ survivors' = [n \in Names |-> survivors'[n]]
          /\ \A n \in Names : visible'[n] \in Contents(n)
                               /\ survivors'[n] \subseteq Contents(n)
          /\ \A n \in Names \ {f} : visible'[n] = visible[n]
          /\ visible'[f] \in {visible[f], Intent(r)}
          /\ \A n \in Names : survivors'[n] \subseteq survivors[n] \cup {visible'[n]}
          /\ survivors'["directory"] = survivors["directory"]
          /\ o = "ok" => visible'[f] = Intent(r)
          /\ faults' \in 0..MaxFaults /\ UNCHANGED <<crashes, outages>>
      <3> HIDE DEF f
      <3>1. QED BY <2>1, <2>2, Written DEF Inv
    <2>5. /\ proc' \in [Procs -> ProcTypes'] /\ CallInv(p)'
          /\ \A q \in Procs \ {p} : proc'[q] = proc[q]
          /\ holder' \in Procs \cup {None}
      <3>1. ProcTypes' = ProcTypes
        BY <1>1 DEF ProcTypes
      <3>2. CASE o = "ok"
        <4>1. proc' = [proc EXCEPT ![p] = c] /\ proc'[p] = c /\ holder' = holder
          BY <1>5, <2>1, <3>2
        <4>2. /\ visible'["current"] = r /\ visible'["marker"] = "full"
              /\ visible'["directory"] = visible["directory"] /\ visible'[f] = Intent(r)
          BY <1>2, <2>2, <2>4, <3>2
        <4>3. CallInv(p)'
          BY <1>2, <1>4, <2>4, <4>1, <4>2 DEF CallInv, Locked, DirectoryStands
        <4>4. QED BY <1>4, <3>1, <4>1, <4>3 DEF Inv, TypeOK
      <3>3. CASE o # "ok"
        <4>1. Return(p)
          BY <2>1, <3>3
        <4>2. QED BY <3>1, <4>1, Returned DEF Return, Inv, TypeOK
      <3>4. QED BY <3>2, <3>3
    <2>6. TypeOK'
      BY <1>1, <2>4, <2>5 DEF Inv, TypeOK, Contents
    <2>7. ShapeInv'
      <3>1. ASSUME NEW n \in Names \ {"directory", "marker"}
            PROVE RecordShape(visible'[n])
        BY <2>2, <2>4 DEF Inv, ShapeInv
      <3>2. ASSUME NEW n \in Names \ {"directory", "marker"}, NEW x \in survivors'[n]
            PROVE RecordShape(x)
        BY <2>2, <2>4, <3>1 DEF Inv, ShapeInv
      <3>3. QED BY <3>1, <3>2 DEF ShapeInv, RecordShape, Stopped
    <2>8. MarkerInv' /\ (DirectoryStands => DirectoryStands')
      BY <2>2, <2>4 DEF Inv, MarkerInv, DirectoryStands
    <2>9. AcknowledgedStopStands' /\ ConfirmedStopIsQuiet'
      BY <1>1, <2>2, <2>3, <2>4 DEF EarlierWork, Inv, AcknowledgedStopStands, ConfirmedStopIsQuiet
    <2>10. ASSUME NEW q \in Procs, q # p PROVE CallInv(q)'
      <3>1. proc'[q] = proc[q] /\ CallInv(q) /\ proc[q].pc \notin Locked
        BY <1>1, <2>5, <2>10, Locals, UnlockedOthers DEF Locked
      <3>2. visible'["current"] = visible["current"] /\ visible'["marker"] = visible["marker"]
        BY <2>2, <2>4
      <3>3. QED BY <1>1, <2>8, <3>1, <3>2 DEF EarlierWork, CallInv, Locked
    <2>11. QED BY <2>5, <2>6, <2>7, <2>8, <2>9, <2>10 DEF Inv
  <1>9. QED BY <1>6, <1>7, <1>8 DEF WriteIntent

\* The directory, the lock file and its marker come into being; the records and
\* the requests stay.
LEMMA PathsKeep ==
    ASSUME Inv, NEW p \in Procs,
           visible' = [n \in Names |-> visible'[n]],
           survivors' = [n \in Names |-> survivors'[n]],
           \A n \in Names : visible'[n] \in Contents(n)
                             /\ survivors'[n] \subseteq Contents(n),
           \A n \in Names \ {"directory", "marker"} :
              /\ visible'[n] = visible[n]
              /\ survivors'[n] \subseteq survivors[n] \cup {visible[n]}
              /\ survivors[n] # {} => survivors'[n] # {},
           visible["marker"] = "full" =>
              /\ visible'["marker"] = "full"
              /\ survivors["marker"] = {"full"} => survivors'["marker"] = {"full"},
           DirectoryStands => DirectoryStands', MarkerInv',
           UNCHANGED <<granted, drawn, acked, running, crashes, outages>>,
           faults' \in 0..MaxFaults,
           NEW c \in ProcTypes, proc' = [proc EXCEPT ![p] = c], CallInv(p)',
           holder' = holder \/ holder = p, holder' \in Procs \cup {None}
    PROVE  Inv'
  <1>0. "current" \in Names \ {"directory", "marker"} /\ "marker" \in Names /\ "directory" \in Names
    BY RecordFiles DEF Names
  <1>1. proc' \in [Procs -> ProcTypes'] /\ \A q \in Procs \ {p} : proc'[q] = proc[q]
    BY DEF ProcTypes, Inv, TypeOK
  <1>2. TypeOK'
    BY <1>1 DEF Inv, TypeOK, Contents
  <1>3. ShapeInv'
    <2>1. ASSUME NEW n \in Names \ {"directory", "marker"}
          PROVE RecordShape(visible'[n])
      BY DEF Inv, ShapeInv
    <2>2. ASSUME NEW n \in Names \ {"directory", "marker"}, NEW r \in survivors'[n]
          PROVE RecordShape(r)
      BY <2>1 DEF Inv, ShapeInv
    <2>3. QED BY <2>1, <2>2 DEF ShapeInv, RecordShape, Stopped
  <1>4. AcknowledgedStopStands'
    <2>1. SUFFICES ASSUME acked # None PROVE AcknowledgedStopStands'
      BY DEF AcknowledgedStopStands
    <2>2. /\ acked \in Records /\ acked.request.id \in Names \ {"directory", "marker"}
      <3>1. /\ acked \in Records /\ visible["current"] # None
            /\ Stopped(visible["current"]) /\ Intent(visible["current"]) = Intent(acked)
        BY <2>1 DEF Inv, TypeOK, AcknowledgedStopStands
      <3>2. acked.request \in Requests
        BY <3>1, CurrentShape, Intents
      <3>3. QED BY <3>1, <3>2, RequestNames, RecordFiles
    <2>3. AcknowledgedStopStands
      BY DEF Inv
    <2>4. /\ \A r \in survivors'["current"] \cup {visible'["current"]} :
                r # None /\ Stopped(r) /\ Intent(r) = Intent(acked)
          /\ survivors'[acked.request.id] = {Intent(acked)}
          /\ visible'[acked.request.id] = Intent(acked)
      BY <1>0, <2>1, <2>2, <2>3 DEF AcknowledgedStopStands
    <2>5. /\ visible'["marker"] = "full" /\ survivors'["marker"] = {"full"}
          /\ visible'["directory"] = "made" /\ survivors'["directory"] = {"made"}
      BY <2>1, <2>3 DEF AcknowledgedStopStands, DirectoryStands
    <2>6. QED BY <2>4, <2>5 DEF AcknowledgedStopStands
  <1>5. ConfirmedStopIsQuiet'
    BY <1>0 DEF EarlierWork, Inv, ConfirmedStopIsQuiet
  <1>6. ASSUME NEW q \in Procs, q # p PROVE CallInv(q)'
    <2>1. proc'[q] = proc[q] /\ CallInv(q)
      BY <1>1, <1>6 DEF Inv
    <2>2. proc[q].pc \in Locked => holder' = q
      BY <1>6, <2>1 DEF CallInv
    <2>3. visible'["current"] = visible["current"]
      BY <1>0
    <2>4. \A r \in Records : r.request \in Requests
             => visible'[r.request.id] = visible[r.request.id]
      BY RequestNames, RecordFiles
    <2>5. visible["current"] # None /\ Stopped(visible["current"]) =>
             /\ visible["current"] \in Records
             /\ visible["current"].request \in Requests
      BY CurrentShape
    <2>6. Readable => Readable'
      BY <2>3, <2>4, <2>5 DEF Readable
    <2>7. proc[q].pc = "flush" => visible'[proc[q].record.request.id] = Intent(proc[q].record)
      BY <2>1, <2>4, <2>5 DEF CallInv
    <2>8. QED BY <2>1, <2>2, <2>3, <2>6, <2>7 DEF EarlierWork, CallInv
  <1>7. QED BY <1>2, <1>3, <1>4, <1>5, <1>6 DEF Inv

\* The marker is written under the lock of the file that was created.
LEMMA WriteMarkerKeeps ==
    ASSUME Inv, NEW p \in Procs, WriteMarker(p)
    PROVE  Inv'
  <1>1. PICK o \in Outcomes :
          /\ Write("marker", "full", o)
          /\ IF o = "ok" THEN Go(p, "body") /\ UNCHANGED holder ELSE Return(p)
    BY DEF WriteMarker
  <1>2. proc[p].pc = "marker" /\ UNCHANGED <<granted, drawn, acked, running>>
    BY DEF WriteMarker, At
  <1>3. /\ holder = p /\ DirectoryStands
        /\ proc[p].kind = "stop" => proc[p].request \in Requests
    BY <1>2, Locals DEF CallInv, Locked
  <1>4. /\ "marker" \in Names \ {"directory"} /\ "full" \in Contents("marker")
        /\ "directory" \in Names
    BY DEF Names, Contents
  <1>5. /\ visible' = [n \in Names |-> visible'[n]]
        /\ survivors' = [n \in Names |-> survivors'[n]]
        /\ \A n \in Names : visible'[n] \in Contents(n)
                             /\ survivors'[n] \subseteq Contents(n)
        /\ \A n \in Names \ {"marker"} : visible'[n] = visible[n]
        /\ visible'["marker"] \in {visible["marker"], "full"}
        /\ \A n \in Names : survivors'[n] \subseteq survivors[n] \cup {visible'[n]}
        /\ survivors'["directory"] = survivors["directory"]
        /\ o = "ok" => visible'["marker"] = "full"
        /\ faults' \in 0..MaxFaults /\ UNCHANGED <<crashes, outages>>
    BY <1>1, <1>4, Written DEF Inv
  <1>6. \A n \in Names : survivors[n] # {} => survivors'[n] # {}
    BY <1>1, <1>4, WriteKeeps DEF Inv
  <1>7. DirectoryStands' /\ MarkerInv'
    BY <1>3, <1>4, <1>5 DEF DirectoryStands, MarkerInv
  <1>8. visible["marker"] = "full" =>
              /\ visible'["marker"] = "full"
              /\ survivors["marker"] = {"full"} => survivors'["marker"] = {"full"}
    BY <1>4, <1>5, <1>6
  <1>9. /\ \A n \in Names \ {"directory", "marker"} :
              /\ visible'[n] = visible[n]
              /\ survivors'[n] \subseteq survivors[n] \cup {visible[n]}
              /\ survivors[n] # {} => survivors'[n] # {}
    BY <1>5, <1>6
  <1>10. CASE o = "ok"
    <2> DEFINE c == [proc[p] EXCEPT !.pc = "body"]
    <2>1. /\ c \in ProcTypes /\ c.pc = "body" /\ c.created = proc[p].created
          /\ c.kind = proc[p].kind /\ c.request = proc[p].request /\ c.made = proc[p].made
      BY Locals DEF ProcTypes
    <2>2. proc' = [proc EXCEPT ![p] = c] /\ proc'[p] = c /\ holder' = holder
      BY <1>1, <1>10, Locals DEF Go
    <2> HIDE DEF c
    <2>3. CallInv(p)'
      BY <1>3, <1>5, <1>7, <1>10, <2>1, <2>2 DEF CallInv, Locked
    <2>4. QED
      BY <1>2, <1>3, <1>5, <1>7, <1>8, <1>9, <2>1, <2>2, <2>3, PathsKeep
  <1>11. CASE o # "ok"
    <2>1. Return(p) /\ proc' = [proc EXCEPT ![p] = Idle]
      BY <1>1, <1>11 DEF Return
    <2>2. Idle \in ProcTypes
      BY DEF Idle, ProcTypes
    <2>3. QED
      BY <1>2, <1>3, <1>5, <1>7, <1>8, <1>9, <2>1, <2>2, Returned, PathsKeep
  <1>12. QED BY <1>10, <1>11

\* The directory is made, and its parent synced, before the lock file.
LEMMA MakeDirectoryKeeps ==
    ASSUME Inv, NEW p \in Procs, MakeDirectory(p)
    PROVE  Inv'
  <1>1. PICK o \in Outcomes :
         /\ Fault(o)
         /\ visible' = IF o = "lost" THEN visible
                       ELSE [visible EXCEPT !["directory"] = "made"]
         /\ survivors' = CASE o = "lost" -> survivors
                           [] o = "late" -> [survivors EXCEPT !["directory"] = @ \cup {"made"}]
                           [] o = "ok"   -> [survivors EXCEPT !["directory"] = {"made"}]
         /\ IF o = "ok"
            THEN /\ proc' = [proc EXCEPT ![p].pc = "lockfile", ![p].created = TRUE]
                 /\ UNCHANGED holder
            ELSE Return(p)
    BY DEF MakeDirectory
  <1>2. proc[p].pc = "mkdir" /\ UNCHANGED <<granted, drawn, acked, running>>
    BY DEF MakeDirectory, At
  <1>3. "directory" \in Names /\ "marker" \in Names /\ "made" \in Contents("directory")
    BY DEF Names, Contents
  <1>4. /\ visible' = [n \in Names |-> visible'[n]]
        /\ \A n \in Names \ {"directory"} : visible'[n] = visible[n]
        /\ visible'["directory"] \in {visible["directory"], "made"}
        /\ o = "ok" => visible'["directory"] = "made"
    BY <1>1, <1>3 DEF Inv, TypeOK
  <1>5. /\ survivors' = [n \in Names |-> survivors'[n]]
        /\ \A n \in Names \ {"directory"} : survivors'[n] = survivors[n]
        /\ survivors'["directory"] \subseteq survivors["directory"] \cup {"made"}
        /\ survivors["directory"] = {"made"} => survivors'["directory"] = {"made"}
        /\ o = "ok" => survivors'["directory"] = {"made"}
    <2>1. CASE o = "lost"
      BY <1>1, <1>3, <2>1 DEF Inv, TypeOK
    <2>2. CASE o = "late"
      BY <1>1, <1>3, <2>2 DEF Inv, TypeOK
    <2>3. CASE o = "ok"
      BY <1>1, <1>3, <2>3 DEF Inv, TypeOK
    <2>4. QED BY <2>1, <2>2, <2>3 DEF Outcomes
  <1>6. /\ \A n \in Names : visible'[n] \in Contents(n)
                             /\ survivors'[n] \subseteq Contents(n)
        /\ faults' \in 0..MaxFaults /\ UNCHANGED <<crashes, outages>>
    <2>1. \A n \in Names : visible'[n] \in Contents(n)
                             /\ survivors'[n] \subseteq Contents(n)
      BY <1>3, <1>4, <1>5 DEF Inv, TypeOK
    <2>2. faults' \in 0..MaxFaults /\ UNCHANGED <<crashes, outages>>
      BY <1>1, BoundAssumption DEF Fault, Inv, TypeOK
    <2>3. QED BY <2>1, <2>2
  <1>7. /\ DirectoryStands => DirectoryStands'
        /\ o = "ok" => DirectoryStands'
        /\ visible'["marker"] = visible["marker"] /\ survivors'["marker"] = survivors["marker"]
    BY <1>3, <1>4, <1>5 DEF DirectoryStands
  <1>8. MarkerInv'
    BY <1>7 DEF Inv, MarkerInv
  <1>9. \A n \in Names \ {"directory", "marker"} :
              /\ visible'[n] = visible[n]
              /\ survivors'[n] \subseteq survivors[n] \cup {visible[n]}
              /\ survivors[n] # {} => survivors'[n] # {}
    BY <1>4, <1>5
  <1>10. CASE o = "ok"
    <2> DEFINE c == [proc[p] EXCEPT !.pc = "lockfile", !.created = TRUE]
    <2>1. /\ c \in ProcTypes /\ c.pc = "lockfile"
          /\ c.kind = proc[p].kind /\ c.request = proc[p].request
      BY Locals DEF ProcTypes
    <2>2. proc' = [proc EXCEPT ![p] = c] /\ proc'[p] = c /\ holder' = holder
      BY <1>1, <1>10, Locals DEF Inv, TypeOK
    <2> HIDE DEF c
    <2>3. CallInv(p)'
      BY <1>7, <1>10, <2>1, <2>2, Locals DEF CallInv, Locked
    <2>4. QED
      BY <1>2, <1>4, <1>5, <1>6, <1>7, <1>8, <1>9, <2>1, <2>2, <2>3, PathsKeep
      DEF Inv, TypeOK
  <1>11. CASE o # "ok"
    <2>1. Return(p) /\ proc' = [proc EXCEPT ![p] = Idle]
      BY <1>1, <1>11 DEF Return
    <2>2. Idle \in ProcTypes
      BY DEF Idle, ProcTypes
    <2>3. QED
      BY <1>2, <1>4, <1>5, <1>6, <1>7, <1>8, <1>9, <2>1, <2>2, Returned, PathsKeep
  <1>12. QED BY <1>10, <1>11

\* The lock file is created by whoever created the directory.
LEMMA OpenLockFileKeeps ==
    ASSUME Inv, NEW p \in Procs, OpenLockFile(p)
    PROVE  Inv'
  <1>1. /\ proc[p].pc = "lockfile"
        /\ UNCHANGED <<granted, drawn, acked, running, bounds>>
    BY DEF OpenLockFile, At
  <1>2. CASE Return(p) /\ UNCHANGED files
    BY <1>1, <1>2, ReturnKeeps DEF Inv, TypeOK, bounds
  <1>3. CASE Go(p, "lock") /\ UNCHANGED <<files, holder>>
    <2> DEFINE c == [proc[p] EXCEPT !.pc = "lock"]
    <2>1. /\ c \in ProcTypes /\ c.pc = "lock" /\ c.created = proc[p].created
          /\ c.kind = proc[p].kind /\ c.request = proc[p].request /\ c.made = proc[p].made
      BY Locals DEF ProcTypes
    <2>2. proc' = [proc EXCEPT ![p] = c] /\ proc'[p] = c
      BY <1>3, Locals DEF Go
    <2> HIDE DEF c
    <2>3. CallInv(p)'
      BY <1>3, <2>1, <2>2, Locals DEF CallInv, Locked, files, DirectoryStands
    <2>4. QED BY <1>1, <1>3, <2>1, <2>2, <2>3, GoKeeps
  <1>4. CASE /\ visible["marker"] = None /\ proc[p].created
             /\ visible' = [visible EXCEPT !["marker"] = "empty"]
             /\ survivors' = [survivors EXCEPT !["marker"] = @ \cup {"empty"}]
             /\ proc' = [proc EXCEPT ![p].pc = "lock", ![p].made = TRUE]
             /\ UNCHANGED holder
    <2> DEFINE c == [proc[p] EXCEPT !.pc = "lock", !.made = TRUE]
    <2>1. /\ c \in ProcTypes /\ c.pc = "lock"
          /\ c.kind = proc[p].kind /\ c.request = proc[p].request
      BY Locals DEF ProcTypes
    <2>2. proc' = [proc EXCEPT ![p] = c] /\ proc'[p] = c
      BY <1>4, Locals DEF Inv, TypeOK
    <2> HIDE DEF c
    <2>3. DirectoryStands
      BY <1>4, Locals DEF CallInv
    <2>4. "marker" \in Names /\ "directory" \in Names /\ "empty" \in Contents("marker")
      BY DEF Names, Contents
    <2>5. /\ visible' = [n \in Names |-> visible'[n]]
          /\ survivors' = [n \in Names |-> survivors'[n]]
          /\ \A n \in Names \ {"marker"} :
                visible'[n] = visible[n] /\ survivors'[n] = survivors[n]
          /\ visible'["marker"] = "empty"
          /\ survivors'["marker"] = survivors["marker"] \cup {"empty"}
      BY <1>4, <2>4 DEF Inv, TypeOK
    <2>6. \A n \in Names : visible'[n] \in Contents(n)
                             /\ survivors'[n] \subseteq Contents(n)
      BY <2>4, <2>5 DEF Inv, TypeOK
    <2>7. DirectoryStands' /\ MarkerInv'
      BY <2>3, <2>4, <2>5 DEF DirectoryStands, MarkerInv
    <2>8. visible["marker"] # "full"
      BY <1>4, AbsenceAssumption
    <2>9. CallInv(p)'
      BY <2>1, <2>2, <2>7, Locals DEF CallInv, Locked
    <2>10. QED
      BY <1>1, <1>4, <2>1, <2>2, <2>5, <2>6, <2>7, <2>8, <2>9, PathsKeep
      DEF Inv, TypeOK, bounds
  <1>5. QED BY <1>1, <1>2, <1>3, <1>4 DEF OpenLockFile

\* Work that an effect started is joined by its owner.
LEMMA JoinKeeps ==
    ASSUME Inv, NEW work \in running, Join(work)
    PROVE  Inv'
  <1>1. /\ running' = running \ {work}
        /\ UNCHANGED <<files, holder, proc, granted, drawn, acked, bounds>>
    BY DEF Join
  <1>2. TypeOK'
    BY <1>1 DEF Inv, TypeOK, ProcTypes, Contents, files, bounds
  <1>3. ShapeInv' /\ MarkerInv' /\ AcknowledgedStopStands' /\ ConfirmedStopIsQuiet'
    BY <1>1 DEF Inv, ShapeInv, MarkerInv, AcknowledgedStopStands, ConfirmedStopIsQuiet,
                EarlierWork, DirectoryStands, files
  <1>4. \A q \in Procs : CallInv(q)'
    <2>1. EarlierWork' \subseteq EarlierWork
      BY <1>1 DEF EarlierWork
    <2>2. QED BY <1>1, <2>1, Locals DEF CallInv, DirectoryStands, Readable, files
  <1>5. QED BY <1>2, <1>3, <1>4 DEF Inv

\* A loss of power leaves what a sync has covered.
LEMMA OutageKeeps ==
    ASSUME Inv, Outage
    PROVE  Inv'
  <1>1. PICK d \in survivors["directory"], m \in survivors["marker"],
             r \in survivors["current"], intents \in [Ids -> UNION {survivors[i] : i \in Ids}] :
          /\ \A i \in Ids : intents[i] \in survivors[i]
          /\ visible' = [n \in Names |-> CASE n = "directory" -> d
                                          [] n = "marker"    -> m
                                          [] n = "current"   -> r
                                          [] OTHER           -> intents[n]]
          /\ survivors' = [n \in Names |-> {visible'[n]}]
    BY DEF Outage
  <1>2. /\ proc' = [p \in Procs |-> Idle] /\ holder' = None /\ running' = {}
        /\ outages' \in 0..MaxOutages
        /\ UNCHANGED <<granted, drawn, acked, faults, crashes>>
    BY BoundAssumption DEF Outage, Inv, TypeOK
  <1>3. \A n \in Names : visible'[n] \in survivors[n] /\ survivors'[n] = {visible'[n]}
    <2>1. ASSUME NEW n \in Names PROVE visible'[n] \in survivors[n]
      <3>1. CASE n \in Ids
        BY <1>1, <3>1, NameAssumption
      <3>2. CASE n \in {"directory", "marker", "current"}
        BY <1>1, <3>2
      <3>3. QED BY <3>1, <3>2 DEF Names
    <2>2. QED BY <1>1, <2>1
  <1>4. /\ visible' = [n \in Names |-> visible'[n]]
        /\ survivors' = [n \in Names |-> survivors'[n]]
    BY <1>1
  <1>5. Idle \in ProcTypes'
    BY DEF Idle, ProcTypes
  <1>6. TypeOK'
    BY <1>2, <1>3, <1>4, <1>5 DEF Inv, TypeOK, Contents
  <1>7. ShapeInv'
    BY <1>3 DEF Inv, ShapeInv, RecordShape, Stopped
  <1>8. "directory" \in Names /\ "marker" \in Names /\ "current" \in Names
    BY DEF Names
  <1>9. MarkerInv'
    BY <1>3, <1>8 DEF Inv, MarkerInv, DirectoryStands
  <1>10. \A q \in Procs : CallInv(q)'
    BY <1>2 DEF CallInv, Idle, Locked
  <1>11. AcknowledgedStopStands'
    <2>1. SUFFICES ASSUME acked # None PROVE AcknowledgedStopStands'
      BY <1>2 DEF AcknowledgedStopStands
    <2>2. AcknowledgedStopStands /\ acked \in Records
      BY <2>1 DEF Inv, TypeOK
    <2>3. acked.request.id \in Names
      <3>1. /\ visible["current"] # None /\ Stopped(visible["current"])
            /\ Intent(visible["current"]) = Intent(acked)
        BY <2>1, <2>2 DEF AcknowledgedStopStands
      <3>2. acked.request \in Requests
        BY <2>2, <3>1, CurrentShape, Intents
      <3>3. QED BY <3>2, RequestNames DEF Names
    <2>4. QED BY <1>2, <1>3, <1>8, <2>1, <2>2, <2>3 DEF AcknowledgedStopStands
  <1>12. ConfirmedStopIsQuiet'
    BY <1>2 DEF ConfirmedStopIsQuiet, EarlierWork
  <1>13. QED BY <1>6, <1>7, <1>9, <1>10, <1>11, <1>12 DEF Inv

\* Nothing exists before the first call.
LEMMA InitInv == Init => Inv
  <1>1. SUFFICES ASSUME Init PROVE Inv
    OBVIOUS
  <1>2. \A n \in Names : visible[n] = None /\ survivors[n] = {None}
    BY <1>1 DEF Init
  <1>3. "directory" \in Names /\ "marker" \in Names /\ "current" \in Names
    BY DEF Names
  <1>4. Idle \in ProcTypes
    BY DEF Idle, ProcTypes
  <1>5. TypeOK
    BY <1>1, <1>2, <1>4, BoundAssumption DEF Init, TypeOK, Contents
  <1>6. ShapeInv /\ MarkerInv
    BY <1>2, <1>3 DEF ShapeInv, MarkerInv, RecordShape
  <1>7. \A p \in Procs : CallInv(p)
    BY <1>1 DEF Init, CallInv, Idle, Locked
  <1>8. AcknowledgedStopStands /\ ConfirmedStopIsQuiet
    BY <1>1, <1>2, <1>3 DEF Init, AcknowledgedStopStands, ConfirmedStopIsQuiet, EarlierWork
  <1>9. QED BY <1>5, <1>6, <1>7, <1>8 DEF Inv

\* Every step keeps the invariant.
LEMMA NextInv == Inv /\ [Next]_vars => Inv'
  <1>1. SUFFICES ASSUME Inv, [Next]_vars PROVE Inv'
    OBVIOUS
  <1>2. CASE UNCHANGED vars
    <2>1. /\ visible' = visible /\ survivors' = survivors /\ holder' = holder /\ proc' = proc
          /\ granted' = granted /\ drawn' = drawn /\ acked' = acked /\ running' = running
          /\ faults' = faults /\ crashes' = crashes /\ outages' = outages
      BY <1>2 DEF vars, files, bounds
    <2>2. QED
      BY <1>1, <2>1 DEF EarlierWork, Inv, TypeOK, ProcTypes, Contents, ShapeInv, MarkerInv, CallInv,
         DirectoryStands, Readable, AcknowledgedStopStands, ConfirmedStopIsQuiet
  <1>3. ASSUME NEW p \in Procs, Step(p) PROVE Inv'
    BY <1>1, <1>3, LockStepsKeep, MakeDirectoryKeeps, OpenLockFileKeeps, WriteMarkerKeeps,
       InitializeKeeps, RequestStopKeeps, WriteIntentKeeps, FlushKeeps, EffectStepsKeep,
       RecordUnknownKeeps, RecordObservedKeeps DEF Step
  <1>4. ASSUME NEW p \in Procs, Call(p) \/ Crash(p) PROVE Inv'
    BY <1>1, <1>4, CallKeeps, LockStepsKeep
  <1>5. QED
    BY <1>1, <1>2, <1>3, <1>4, JoinKeeps, OutageKeeps DEF Next

-----------------------------------------------------------------------------
(* The theorems. *)

\* The inductive invariant holds throughout.
THEOREM Invariance == Spec => []Inv
  <1>1. QED BY InitInv, NextInv, PTL DEF Spec

\* The variables keep their types.
THEOREM TypeCorrectness == Spec => []TypeOK
  <1>1. Inv => TypeOK
    BY DEF Inv
  <1>2. QED BY Invariance, <1>1, PTL

\* An acknowledged stop survives every death and every loss of power
\* (requestSelfUpdateStop writes the record a second time before it returns).
THEOREM StopIsFinal == Spec => []AcknowledgedStopStands
  <1>1. Inv => AcknowledgedStopStands
    BY DEF Inv
  <1>2. QED BY Invariance, <1>1, PTL

\* An effect begins only under an authority that still stands, and a forward
\* effect never begins once a stop has been acknowledged
\* (withSelfUpdateEffect keeps the lock from its check to the effect).
THEOREM EffectsAreAuthorized == Spec => []EffectHoldsAuthority
  <1>1. ASSUME Inv PROVE EffectHoldsAuthority
    <2>1. SUFFICES ASSUME NEW p \in Procs, proc[p].pc = "begin"
                   PROVE  /\ Readable
                          /\ Admitted(visible["current"], proc[p].kind, proc[p].ref,
                                      proc[p].request)
                          /\ proc[p].kind = "effect" => acked = None
      BY DEF EffectHoldsAuthority, At
    <2>2. /\ Readable
          /\ Admitted(visible["current"], proc[p].kind, proc[p].ref, proc[p].request)
      BY <1>1, <2>1, Locals DEF CallInv
    <2>3. proc[p].kind = "effect" => acked = None
      BY <1>1, <2>2 DEF Admitted, Inv, AcknowledgedStopStands
    <2>4. QED BY <2>2, <2>3
  <1>2. QED BY Invariance, <1>1, PTL

\* A confirmed stop is never written over work admitted before the stop, however
\* many compensations and cleanups begin under it (RecordSelfUpdateStopped
\* observes again before it confirms).
THEOREM ConfirmedStopsAreQuiet == Spec => []ConfirmedStopIsQuiet
  <1>1. Inv => ConfirmedStopIsQuiet
    BY DEF Inv
  <1>2. QED BY Invariance, <1>1, PTL

-----------------------------------------------------------------------------
(* Epochs.  A step touches the records in one of four ways. *)

RecordNames == Names \ {"directory", "marker"}

Untouched ==
    /\ \A n \in RecordNames : visible'[n] = visible[n] /\ survivors'[n] = survivors[n]
    /\ drawn' = drawn
    /\ \/ granted' = granted
       \/ visible["current"] # None
          /\ granted' = granted \cup {Reference(visible["current"])}

\* The record that follows another.
Succeeds(content) ==
    /\ visible["current"] # None /\ content \in Records
    /\ content.installation = visible["current"].installation
    /\ Stopped(content)
    /\ IF Stopped(visible["current"])
       THEN Intent(content) = Intent(visible["current"])
       ELSE content.sequence = visible["current"].sequence + 1

\* The first record of an installation.
Founds(content) ==
    /\ visible["current"] = None /\ content \in Records
    /\ content.sequence = 1 /\ content.installation \notin drawn

Replaces ==
    /\ \E content \in Records, o \in Outcomes : Succeeds(content) /\ Write("current", content, o)
    /\ UNCHANGED <<drawn, granted>>

Establishes ==
    \E content \in Records, o \in Outcomes :
        /\ Founds(content) /\ Write("current", content, o)
        /\ drawn' = drawn \cup {content.installation}
        /\ \/ granted' = granted
           \/ granted' = granted \cup {Reference(content)}

\* The request of a stop is a copy of the record; the marker is no record.
WritesBeside ==
    /\ \E n \in Names \ {"directory", "current"} : \E content \in Contents(n), o \in Outcomes :
         /\ n # "marker" => visible["current"] # None /\ content # None
                            /\ content.installation = visible["current"].installation
         /\ Write(n, content, o)
    /\ UNCHANGED <<drawn, granted>>

LEMMA RecordSteps ==
    ASSUME Inv, [Next]_vars
    PROVE  Untouched \/ Replaces \/ Establishes \/ WritesBeside \/ Outage
  <1> DEFINE r == visible["current"]
             Seen == Untouched \/ Replaces \/ Establishes \/ WritesBeside \/ Outage
  <1>1. r # None => r \in Records
    BY CurrentShape
  <1>2. CASE UNCHANGED <<files, drawn, granted>>
    BY <1>2 DEF Untouched, files
  <1>3. ASSUME NEW p \in Procs, Initialize(p) PROVE Seen
    <2>1. CASE MayFound(p) /\ \E i \in Installations \ drawn, o \in Outcomes :
                  /\ Write("current", Ready(i), o) /\ drawn' = drawn \cup {i}
                  /\ granted' = IF o = "ok" THEN granted \cup {Reference(Ready(i))}
                                            ELSE granted
      <3>1. PICK i \in Installations \ drawn, o \in Outcomes :
                  /\ Write("current", Ready(i), o) /\ drawn' = drawn \cup {i}
                  /\ granted' = IF o = "ok" THEN granted \cup {Reference(Ready(i))}
                                            ELSE granted
        BY <2>1
      <3>2. Ready(i) \in Records /\ Founds(Ready(i)) /\ Ready(i).installation = i
        BY <2>1 DEF Founds, MayFound, Ready, Records
      <3>3. Establishes
        BY <3>1, <3>2 DEF Establishes
      <3>4. QED BY <3>3
    <2>2. CASE UNCHANGED <<files, drawn>> /\ r # None
               /\ (granted' = granted \/ granted' = granted \cup {Reference(r)})
      BY <2>2 DEF Untouched, files
    <2>3. CASE UNCHANGED <<files, drawn, granted>>
      BY <1>2, <2>3
    <2>4. QED BY <1>3, <2>1, <2>2, <2>3 DEF Initialize
  <1>4. ASSUME NEW p \in Procs, RequestStop(p) PROVE Seen
    <2> DEFINE q == proc[p].request
    <2>1. q \in Requests /\ granted' = granted
      BY <1>4, Locals DEF RequestStop, At, CallInv
    <2>2. CASE r # None /\ ~Stopped(r) /\ StopTo(p, Revoked(r, q)) /\ UNCHANGED drawn
      <3>1. PICK o \in Outcomes : Write("current", Revoked(r, q), o)
        BY <2>2 DEF StopTo
      <3>2. Revoked(r, q) \in Records /\ Stopped(Revoked(r, q))
        BY <1>1, <2>1, <2>2, RevokedRecords
      <3>3. Revoked(r, q).installation = r.installation
            /\ Revoked(r, q).sequence = r.sequence + 1
        BY <1>1, <2>2 DEF Revoked, Records
      <3>4. Succeeds(Revoked(r, q))
        BY <2>2, <3>2, <3>3 DEF Succeeds
      <3>5. Replaces
        BY <2>1, <2>2, <3>1, <3>2, <3>4 DEF Replaces
      <3>6. QED BY <3>5
    <2>3. CASE MayFound(p) /\ \E i \in Installations \ drawn :
                  StopTo(p, First(i, q)) /\ drawn' = drawn \cup {i}
      <3>1. PICK i \in Installations \ drawn :
                  StopTo(p, First(i, q)) /\ drawn' = drawn \cup {i}
        BY <2>3
      <3>2. PICK o \in Outcomes : Write("current", First(i, q), o)
        BY <3>1 DEF StopTo
      <3>3. First(i, q) \in Records /\ Founds(First(i, q)) /\ First(i, q).installation = i
        BY <2>1, <2>3 DEF Founds, MayFound, First, Records
      <3>4. Establishes
        BY <2>1, <3>1, <3>2, <3>3 DEF Establishes
      <3>5. QED BY <3>4
    <2>4. CASE UNCHANGED <<files, drawn>>
      BY <1>2, <2>1, <2>4
    <2>5. QED BY <1>4, <2>2, <2>3, <2>4 DEF RequestStop
  <1>5. ASSUME NEW p \in Procs, WriteIntent(p) PROVE Seen
    <2> DEFINE s == proc[p].record
    <2>1. s = r /\ s # None /\ s \in Records /\ s.request \in Requests
      BY <1>5, Locals, CurrentShape DEF WriteIntent, At, CallInv
    <2>2. /\ s.request.id \in Names \ {"current", "directory"}
          /\ Intent(s) \in Contents(s.request.id) /\ Intent(s) # None
          /\ Intent(s).installation = s.installation
      BY <2>1, RequestNames, RecordFiles, Intents
    <2>3. CASE UNCHANGED files
      BY <1>2, <1>5, <2>3 DEF WriteIntent
    <2>4. CASE \E o \in Outcomes : Write(s.request.id, Intent(s), o)
      <3>1. WritesBeside
        BY <1>5, <2>1, <2>2, <2>4 DEF WritesBeside, WriteIntent
      <3>2. QED BY <3>1
    <2>5. QED BY <1>5, <2>3, <2>4 DEF WriteIntent
  <1>6. ASSUME NEW p \in Procs, Flush(p) PROVE Seen
    <2>1. r = proc[p].record /\ r # None /\ Stopped(r)
      BY <1>6, Locals DEF Flush, At, CallInv
    <2>2. Succeeds(r)
      BY <1>1, <2>1 DEF Succeeds
    <2>3. Replaces
      BY <1>1, <1>6, <2>1, <2>2 DEF Replaces, Flush
    <2>4. QED BY <2>3
  <1>7. ASSUME NEW p \in Procs, RecordUnknown(p) \/ RecordObserved(p) PROVE Seen
    <2>1. UNCHANGED <<drawn, granted>>
      BY <1>7 DEF RecordUnknown, RecordObserved
    <2>2. CASE UNCHANGED files
      BY <1>2, <2>1, <2>2
    <2>3. ASSUME NEW state \in {"cleanup-unknown", "observed-stopped"}, NEW o \in Outcomes,
                 Matches(proc[p].request), Write("current", [r EXCEPT !.state = state], o)
          PROVE  Seen
      <3> DEFINE s == [r EXCEPT !.state = state]
      <3>1. r # None /\ Stopped(r) /\ r \in Records
        BY <1>1, <2>3 DEF Matches, Readable
      <3>2. s \in Records /\ Stopped(s) /\ s.installation = r.installation
            /\ Intent(s) = Intent(r)
        BY <3>1 DEF Records, Stopped, Intent
      <3>3. Succeeds(s)
        BY <3>1, <3>2 DEF Succeeds
      <3>4. Replaces
        BY <2>1, <2>3, <3>2, <3>3 DEF Replaces
      <3>5. QED BY <3>4
    <2>4. QED BY <1>7, <2>2, <2>3 DEF RecordUnknown, RecordObserved
  <1>8. ASSUME NEW p \in Procs, WriteMarker(p) PROVE Seen
    <2>1. "marker" \in Names \ {"directory", "current"} /\ "full" \in Contents("marker")
      BY DEF Names, Contents
    <2>2. UNCHANGED <<drawn, granted>>
      BY <1>8 DEF WriteMarker
    <2>3. WritesBeside
      BY <1>8, <2>1, <2>2 DEF WritesBeside, WriteMarker
    <2>4. QED BY <2>3
  <1>9. ASSUME NEW p \in Procs, MakeDirectory(p) \/ OpenLockFile(p) PROVE Seen
    <2>1. CASE MakeDirectory(p)
      BY <2>1 DEF MakeDirectory, Untouched, RecordNames, Outcomes, Inv, TypeOK
    <2>2. CASE OpenLockFile(p)
      BY <2>2 DEF OpenLockFile, Untouched, RecordNames, Inv, TypeOK, files
    <2>3. QED BY <1>9, <2>1, <2>2
  <1>10. ASSUME NEW p \in Procs,
                \/ OpenDirectory(p) \/ AcquireLock(p) \/ GiveUp(p) \/ Admit(p)
                \/ Begin(p) \/ Observe(p) \/ Crash(p) \/ Call(p)
         PROVE  Seen
    <2>1. UNCHANGED <<files, drawn, granted>>
      BY <1>10 DEF OpenDirectory, AcquireLock, GiveUp, Admit, Begin, Observe, Crash, Call,
         CallInitialize, CallStop, CallEffect, CallRecord
    <2>2. QED BY <1>2, <2>1
  <1>11. CASE UNCHANGED vars
    BY <1>2, <1>11 DEF vars
  <1> HIDE DEF Seen
  <1>12. ASSUME NEW work \in running, Join(work) PROVE Seen
    BY <1>2, <1>12 DEF Join, Seen
  <1>13. CASE Outage
    BY <1>13 DEF Seen
  <1>14. ASSUME NEW p \in Procs, Call(p) \/ Step(p) \/ Crash(p) PROVE Seen
    <2>1. CASE Step(p)
      BY <1>3, <1>4, <1>5, <1>6, <1>7, <1>8, <1>9, <1>10, <2>1 DEF Step
    <2>2. CASE Call(p) \/ Crash(p)
      BY <1>10, <2>2
    <2>3. QED BY <1>14, <2>1, <2>2
  <1>15. Seen
    <2>1. CASE \E p \in Procs : Call(p) \/ Step(p) \/ Crash(p)
      BY <1>14, <2>1
    <2>2. CASE \E work \in running : Join(work)
      BY <1>12, <2>2
    <2>3. QED BY <1>11, <1>13, <2>1, <2>2 DEF Next, Seen
  <1>16. QED BY <1>15 DEF Seen

\* Every installation that a record, a survivor or a reference names was drawn.
Drawn(r) == r # None => r.installation \in drawn

DrawnInv ==
    /\ \A n \in RecordNames : Drawn(visible[n]) /\ \A r \in survivors[n] : Drawn(r)
    /\ \A ref \in granted : ref.installation \in drawn

LEMMA DrawnKeeps ==
    ASSUME Inv, DrawnInv, [Next]_vars
    PROVE  DrawnInv'
  <1>1. "current" \in RecordNames /\ RecordNames \subseteq Names \ {"directory"}
    BY RecordFiles DEF RecordNames, Names
  <1>2. \A c : Reference(c).installation = c.installation
    BY DEF Reference
  <1>3. ASSUME NEW n \in Names \ {"directory"}, NEW content \in Contents(n), NEW o \in Outcomes,
               Write(n, content, o), n \in RecordNames => Drawn(content)',
               drawn \subseteq drawn', \A ref \in granted' : ref.installation \in drawn'
        PROVE  DrawnInv'
    <2>1. /\ \A m \in Names \ {n} : visible'[m] = visible[m]
          /\ visible'[n] \in {visible[n], content}
          /\ \A m \in Names : survivors'[m] \subseteq survivors[m] \cup {visible'[m]}
      BY <1>3, Written DEF Inv
    <2>2. \A m \in RecordNames : Drawn(visible[m])' /\ \A c \in survivors[m]' : Drawn(c)'
      BY <1>1, <1>3, <2>1 DEF DrawnInv, Drawn
    <2>3. QED BY <1>3, <2>2 DEF DrawnInv, RecordNames
  <1>4. CASE Untouched
    BY <1>1, <1>2, <1>4 DEF Untouched, DrawnInv, Drawn, RecordNames
  <1>5. CASE Replaces
    <2>1. PICK content \in Records, o \in Outcomes : Succeeds(content) /\ Write("current", content, o)
      BY <1>5 DEF Replaces
    <2>2. content \in Contents("current") /\ Drawn(content) /\ UNCHANGED <<drawn, granted>>
      BY <1>1, <1>5, <2>1, RecordFiles DEF Replaces, Succeeds, DrawnInv, Drawn
    <2>3. QED BY <1>1, <1>3, <2>1, <2>2 DEF Drawn, DrawnInv
  <1>6. CASE Establishes
    <2>1. PICK content \in Records, o \in Outcomes :
             /\ Founds(content) /\ Write("current", content, o)
             /\ drawn' = drawn \cup {content.installation}
             /\ \/ granted' = granted
                \/ granted' = granted \cup {Reference(content)}
      BY <1>6 DEF Establishes
    <2>2. content \in Contents("current")
      BY <2>1, RecordFiles DEF Founds
    <2>3. QED BY <1>1, <1>2, <1>3, <2>1, <2>2 DEF Drawn, DrawnInv
  <1>7. CASE WritesBeside
    <2>1. PICK n \in Names \ {"directory", "current"} : \E content \in Contents(n), o \in Outcomes :
             /\ n # "marker" => visible["current"] # None /\ content # None
                                /\ content.installation = visible["current"].installation
             /\ Write(n, content, o)
      BY <1>7 DEF WritesBeside
    <2>2. PICK content \in Contents(n), o \in Outcomes :
             /\ n # "marker" => visible["current"] # None /\ content # None
                                /\ content.installation = visible["current"].installation
             /\ Write(n, content, o)
      BY <2>1
    <2>3. UNCHANGED <<drawn, granted>>
      BY <1>7 DEF WritesBeside
    <2>4. n \in RecordNames => Drawn(content)
      BY <1>1, <2>2 DEF DrawnInv, Drawn, RecordNames
    <2>5. QED BY <1>3, <2>2, <2>3, <2>4 DEF Drawn, DrawnInv
  <1>8. CASE Outage
    <2>1. PICK d \in survivors["directory"], m \in survivors["marker"],
               c \in survivors["current"],
               intents \in [Ids -> UNION {survivors[i] : i \in Ids}] :
            /\ \A i \in Ids : intents[i] \in survivors[i]
            /\ visible' = [n \in Names |-> CASE n = "directory" -> d
                                            [] n = "marker"    -> m
                                            [] n = "current"   -> c
                                            [] OTHER           -> intents[n]]
            /\ survivors' = [n \in Names |-> {visible'[n]}]
      BY <1>8 DEF Outage
    <2>2. UNCHANGED <<drawn, granted>>
      BY <1>8 DEF Outage
    <2>3. \A n \in RecordNames : visible'[n] \in survivors[n]
      BY <2>1, NameAssumption DEF RecordNames, Names
    <2>4. \A n \in RecordNames : survivors'[n] = {visible'[n]}
      BY <1>1, <2>1
    <2>5. QED BY <2>2, <2>3, <2>4 DEF DrawnInv, Drawn, RecordNames
  <1>9. QED BY <1>4, <1>5, <1>6, <1>7, <1>8, RecordSteps

\* An epoch never comes back while no power is lost: a record is replaced by
\* itself or by the stop of the next epoch, and a founded record is one that no
\* reference given out before can name (InitializeSelfUpdateControl,
\* requestSelfUpdateStop).
THEOREM AuthorityIsMonotone == Spec => AuthorityNeverResets
  <1> DEFINE r == visible["current"]
             s == visible'["current"]
             Kept == s # r /\ outages' = outages =>
                /\ s # None
                /\ r = None => /\ s.sequence = 1
                               /\ \A ref \in granted : ref.installation # s.installation
                /\ r # None => /\ s.installation = r.installation
                               /\ Stopped(s)
                               /\ IF Stopped(r) THEN Intent(s) = Intent(r)
                                                ELSE s.sequence = r.sequence + 1
  <1>1. ASSUME Inv, DrawnInv, [Next]_vars PROVE Kept
    <2>1. "current" \in RecordNames /\ "current" \in Names \ {"directory"}
      BY RecordFiles DEF RecordNames
    <2>2. ASSUME NEW content \in Records, NEW o \in Outcomes, Write("current", content, o)
          PROVE  s \in {r, content} /\ content # None
      BY <1>1, <2>1, <2>2, Written, RecordFiles, AbsenceAssumption DEF Inv
    <2>3. CASE Untouched
      BY <2>1, <2>3 DEF Untouched
    <2>4. CASE Replaces
      <3>1. PICK content \in Records, o \in Outcomes : Succeeds(content) /\ Write("current", content, o)
        BY <2>4 DEF Replaces
      <3>2. s \in {r, content} /\ content # None
        BY <2>2, <3>1 DEF Succeeds
      <3>3. QED BY <3>1, <3>2 DEF Succeeds
    <2>5. CASE Establishes
      <3>1. PICK content \in Records, o \in Outcomes : Founds(content) /\ Write("current", content, o)
        BY <2>5 DEF Establishes
      <3>2. s \in {r, content} /\ content # None
        BY <2>2, <3>1 DEF Founds
      <3>3. \A ref \in granted : ref.installation # content.installation
        BY <1>1, <3>1 DEF Founds, DrawnInv
      <3>4. QED BY <3>1, <3>2, <3>3 DEF Founds
    <2>6. CASE WritesBeside
      <3>1. PICK n \in Names \ {"directory", "current"} :
                   \E content \in Contents(n), o \in Outcomes : Write(n, content, o)
        BY <2>6 DEF WritesBeside
      <3>2. \A m \in Names \ {n} : visible'[m] = visible[m]
        BY <1>1, <3>1, Written DEF Inv
      <3>3. QED BY <2>1, <3>2
    <2>7. CASE Outage
      BY <1>1, <2>7 DEF Outage, Inv, TypeOK
    <2> HIDE DEF Kept
    <2>8. QED BY <1>1, <2>3, <2>4, <2>5, <2>6, <2>7, RecordSteps
  <1>2. Init => DrawnInv
    BY RecordFiles DEF Init, DrawnInv, Drawn, RecordNames
  <1>3. Spec => []DrawnInv
    BY <1>2, DrawnKeeps, Invariance, PTL DEF Spec
  <1>4. QED
    BY <1>1, <1>3, Invariance, PTL DEF Spec, AuthorityNeverResets

=============================================================================
