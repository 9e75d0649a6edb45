------------------------ MODULE AutonomySearchProofs ------------------------
(***************************************************************************)
(* Proofs about AutonomySearch, for every set of nodes and networks, any   *)
(* budget and any number of failed writes, restarts, requests and changes  *)
(* of the network: an unrecorded route is kept, a doubt ends the search,   *)
(* a failure is confirmed, a rejected candidate cools down, the budget is  *)
(* kept.                                                                   *)
(***************************************************************************)
EXTENDS AutonomySearch, TLAPS, SequenceTheorems, FiniteSetTheorems, WellFoundedInduction

-----------------------------------------------------------------------------
(* The inductive invariants.                                                *)

\* An entry of its type; the reservations of the budget are left open, because
\* only BudgetInv is about them.
EntryOK(e) ==
    e \in [next : Nat, fails : 0..2, failNode : Nodes \cup {None},
           net : Networks \cup {None}, last : Times, search : Searches \cup {None},
           switches : {e.switches},
           rejected : SUBSET [node : Nodes, net : Networks, at : Times]]
DocOK(d) ==
    /\ d \in [entry : {d.entry}, expected : Nodes \cup {None}, revision : Nat]
    /\ EntryOK(d.entry)

\* Where a round looks for another node, and where it applies something.
Searching == {"prepare", "search", "intent", "rejected", "path"}
Applying == {"apply", "running", "record"}

TInv ==
    /\ DocOK(file) /\ DocOK(mem) /\ EntryOK(r)
    /\ blocked \in BOOLEAN /\ pc \in Pcs
    /\ round \in [profile : Networks \cup {None}, checks : Nat,
                  node : Nodes \cup {None}, kind : {"search", "repair"},
                  expired : BOOLEAN, at : Times]
    /\ pc # "idle" => round.profile \in Networks
    /\ pc \in {"intent", "rejected", "path"} \cup Applying => round.node \in Nodes
    /\ pc \in Searching \cup {"service", "repair"} => round.kind = "search"
    /\ pc \in Searching \ {"prepare"} \/ (pc \in Applying /\ round.kind = "search")
          => r.search # None
    /\ pc = "repair" => applied # None
    /\ applied \in Nodes \cup {None} /\ network \in Networks /\ now \in Times
    /\ log \in Seq(Transactions)
    /\ pc = "running" =>
          /\ log # <<>> /\ log[Len(log)].kind = round.kind
          /\ log[Len(log)].end = "running" /\ log[Len(log)].node = round.node
    /\ pc \in {"running", "record", "rejected", "path"} => ~blocked
    /\ run \in Failures \cup {None}
    /\ epoch \in 0..MaxEpoch

\* What is not in doubt is on disk, and the route of a round is the recorded one.
RouteInv ==
    /\ ~blocked =>
          /\ file.expected = mem.expected
          /\ file.entry.search = mem.entry.search
          /\ file.entry.rejected = mem.entry.rejected
    /\ pc \in Searching \cup {"repair", "apply", "running"} => RouteIsRecorded

\* The failures an entry counts are those of the unbroken run.
QuorumOK(e) ==
    /\ e.fails >= 1 =>
          /\ run # None
          /\ run.node = e.failNode /\ run.net = e.net /\ run.first <= e.last
    /\ e.fails >= 2 => run.last - run.first >= Gap
\* A round that looks for another node, or applies it, has found the failure.
ConfirmedAt ==
    (/\ pc \in Searching \cup {"apply", "running"} /\ round.kind = "search"
     /\ applied # None /\ ~round.expired) =>
          /\ run # None
          /\ run.node = applied /\ run.net = round.profile
          /\ run.last - run.first >= Gap

QuorumInv ==
    /\ run # None => run.first <= run.last /\ run.last <= now
    /\ pc = "idle" => QuorumOK(mem.entry)
    /\ pc # "idle" => QuorumOK(r)
    /\ ConfirmedAt

\* A transaction the next search must not forget: one whose end is in doubt, or
\* one that was refused and is neither listed in rej nor long ago.
Doubtful(x) == x.kind = "search" /\ x.end = "doubt"
Refused(x) == x.kind = "search" /\ x.end = "rejected"
Cooled(x, rej, net, time, ep) ==
    \/ x.epoch # ep
    \/ time >= x.done + Cooldown
    \/ \E f \in rej : f.node = x.node /\ f.net = net /\ f.at >= x.done
Open(l, rej, net, time, ep) ==
    {i \in DOMAIN l : Doubtful(l[i]) \/ (Refused(l[i]) /\ ~Cooled(l[i], rej, net, time, ep))}

\* Where the list of candidates to check is in use.
Traversing ==
    \/ pc \in Searching \ {"prepare"}
    \/ pc \in Applying /\ round.kind = "search"

\* From the intent to the end of a transaction the latch is set.
LatchSet ==
    pc \in {"rejected", "path"} \/ (pc \in {"apply", "running"} /\ round.kind = "search")
        => Halted(file.entry.search) /\ Halted(r.search)

\* What must not be forgotten halts the search of the document and of the entry
\* of the round; a round that searches has nothing to remember but the rejection
\* it is about to record.
FileRemembers ==
    Open(log, file.entry.rejected, network, now, epoch) # {} => Halted(file.entry.search)
RoundRemembers ==
    /\ pc # "idle" /\ ~Traversing /\ Open(log, r.rejected, network, now, epoch) # {} =>
          Halted(r.search)
    /\ Traversing =>
          Open(log, r.rejected, network, now, epoch) \subseteq
             IF pc = "rejected" THEN {Len(log)} ELSE {}

LatchInv == LatchSet /\ FileRemembers /\ RoundRemembers /\ DoubtEndsTheSearch

\* Times and epochs of the past.
LogPast ==
    /\ \A i \in DOMAIN log :
          /\ log[i].epoch <= epoch /\ log[i].done <= now
          /\ pc # "idle" /\ log[i].epoch = epoch => round.profile = network
          /\ pc = "rejected" => log[i].done <= round.at
    /\ pc = "rejected" =>
          /\ round.at <= now /\ log # <<>>
          /\ log[Len(log)].node = round.node /\ log[Len(log)].end = "rejected"
Before(rej, time) == \A f \in rej : f.at <= time
PastInv ==
    /\ LogPast
    /\ Before(file.entry.rejected, now) /\ Before(mem.entry.rejected, now)
    /\ Before(r.rejected, now)

\* The list of a traversal.
ListInv ==
    /\ Traversing => r.search.left \cap CoolingDown(r.rejected) = {}
    /\ Traversing /\ pc # "search" => round.node \notin r.search.left
    /\ pc = "intent" => round.node \notin CoolingDown(r.rejected)
\* The candidate to apply does not cool down.
WarmInv ==
    pc = "apply" /\ round.kind = "search" =>
       \A i \in DOMAIN log :
          Refused(log[i]) /\ log[i].node = round.node /\ log[i].epoch = epoch
             => round.at >= log[i].done + Cooldown

-----------------------------------------------------------------------------
(* Entries.                                                                 *)

\* The node, the consent and the receipt are not touched by what an entry says.
SameSearch(e, d) == e.search = d.search /\ e.rejected = d.rejected
SameQuorum(e, d) ==
    e.fails = d.fails /\ e.failNode = d.failNode /\ e.net = d.net /\ e.last = d.last

\* A fresh entry has its type.
LEMMA FreshOK ==
    /\ EntryOK(FreshEntry)
    /\ FreshEntry.search = None /\ FreshEntry.rejected = {} /\ FreshEntry.fails = 0
BY BoundAssumption DEF EntryOK, FreshEntry, Times

\* Counting failures leaves the search.
Counted(e, k, t) == [e EXCEPT !.fails = k, !.last = t]
LEMMA CountedOK ==
    ASSUME NEW e, EntryOK(e), NEW k \in 0..2, NEW t \in Times
    PROVE  /\ EntryOK(Counted(e, k, t)) /\ SameSearch(Counted(e, k, t), e)
           /\ Counted(e, k, t).fails = k /\ Counted(e, k, t).last = t
           /\ Counted(e, k, t).failNode = e.failNode /\ Counted(e, k, t).net = e.net
<1> DEFINE d == [e EXCEPT !.fails = k]
<1>1. EntryOK(d) /\ SameSearch(d, e) /\ d.fails = k /\ d.failNode = e.failNode /\ d.net = e.net
  BY DEF EntryOK, SameSearch
<1>2. Counted(e, k, t) = [d EXCEPT !.last = t]
  BY DEF Counted
<1> HIDE DEF d
<1> QED
  BY <1>1, <1>2 DEF EntryOK, SameSearch

\* Forgetting failures leaves the search.
LEMMA NoFailuresOK ==
    ASSUME NEW e, EntryOK(e)
    PROVE  /\ EntryOK(NoFailures(e)) /\ SameSearch(NoFailures(e), e)
           /\ NoFailures(e).fails = 0 /\ NoFailures(e).last = 0
           /\ NoFailures(e).failNode = e.failNode /\ NoFailures(e).net = e.net
<1>1. 0 \in 0..2 /\ 0 \in Times
  BY BoundAssumption DEF Times
<1>2. NoFailures(e) = Counted(e, 0, 0)
  BY DEF NoFailures, Counted
<1> QED
  BY <1>1, <1>2, CountedOK

\* Reservations leave everything else.
LEMMA BudgetOK ==
    ASSUME NEW e, EntryOK(e)
    PROVE  /\ EntryOK(Reserved(e)) /\ SameSearch(Reserved(e), e) /\ SameQuorum(Reserved(e), e)
           /\ EntryOK(Refunded(e)) /\ SameSearch(Refunded(e), e) /\ SameQuorum(Refunded(e), e)
           /\ EntryOK([e EXCEPT !.switches = Recent(@)])
           /\ SameSearch([e EXCEPT !.switches = Recent(@)], e)
           /\ SameQuorum([e EXCEPT !.switches = Recent(@)], e)
BY DEF EntryOK, Reserved, Refunded, SameSearch, SameQuorum

\* The next check leaves everything else.
LEMMA NextCheckOK ==
    ASSUME NEW e, EntryOK(e), NEW t \in Nat
    PROVE  /\ EntryOK([e EXCEPT !.next = t]) /\ SameSearch([e EXCEPT !.next = t], e)
           /\ SameQuorum([e EXCEPT !.next = t], e)
BY DEF EntryOK, SameSearch, SameQuorum

\* The entry about the node that is observed now.
About(e, node, profile) ==
    IF e.failNode = node /\ e.net = profile THEN e
    ELSE [NoFailures(e) EXCEPT !.failNode = node, !.net = profile]

\* What is known of another node is forgotten.
LEMMA AboutOK ==
    ASSUME NEW e, EntryOK(e), NEW node \in Nodes, NEW profile \in Networks
    PROVE  /\ EntryOK(About(e, node, profile)) /\ SameSearch(About(e, node, profile), e)
           /\ About(e, node, profile).failNode = node
           /\ About(e, node, profile).net = profile
           /\ \/ About(e, node, profile).fails = 0
              \/ About(e, node, profile) = e /\ e.failNode = node /\ e.net = profile
<1> DEFINE c == NoFailures(e)
           d == [c EXCEPT !.failNode = node]
<1>1. EntryOK(c) /\ SameSearch(c, e) /\ c.fails = 0
  BY NoFailuresOK
<1>2. About(e, node, profile) = IF e.failNode = node /\ e.net = profile THEN e
                                ELSE [d EXCEPT !.net = profile]
  BY DEF About
<1> HIDE DEF c
<1>3. EntryOK(d) /\ SameSearch(d, e) /\ d.fails = 0 /\ d.failNode = node
  BY <1>1 DEF EntryOK, SameSearch
<1> HIDE DEF d
<1>4. /\ EntryOK([d EXCEPT !.net = profile]) /\ SameSearch([d EXCEPT !.net = profile], e)
      /\ [d EXCEPT !.net = profile].fails = 0 /\ [d EXCEPT !.net = profile].failNode = node
      /\ [d EXCEPT !.net = profile].net = profile
  BY <1>3 DEF EntryOK, SameSearch
<1> QED
  BY <1>2, <1>4 DEF SameSearch

\* An observation counts, forgets or leaves the failures.
LEMMA ObservedIs ==
    ASSUME NEW e, NEW node, NEW profile, NEW verdict
    PROVE  LET d == About(e, node, profile) IN
           Observed(e, node, profile, verdict) =
              IF verdict # "FAIL" THEN NoFailures(d)
              ELSE IF d.fails = 0 THEN Counted(d, 1, now)
              ELSE IF now >= d.last + Gap THEN Counted(d, 2, now)
              ELSE d
BY DEF Observed, About, Counted

\* An observation leaves the search.
LEMMA ObservedOK ==
    ASSUME NEW e, EntryOK(e), NEW node \in Nodes, NEW profile \in Networks, NEW verdict,
           now \in Times
    PROVE  /\ EntryOK(Observed(e, node, profile, verdict))
           /\ SameSearch(Observed(e, node, profile, verdict), e)
<1> DEFINE d == About(e, node, profile)
<1>1. EntryOK(d) /\ SameSearch(d, e)
  BY AboutOK
<1> HIDE DEF d
<1>2. EntryOK(NoFailures(d)) /\ SameSearch(NoFailures(d), d)
  BY <1>1, NoFailuresOK
<1>3. \A k \in 0..2 : EntryOK(Counted(d, k, now)) /\ SameSearch(Counted(d, k, now), d)
  BY <1>1, CountedOK
<1>4. Observed(e, node, profile, verdict) \in
        {NoFailures(d), d, Counted(d, 1, now), Counted(d, 2, now)}
  BY ObservedIs DEF d
<1> QED
  BY <1>1, <1>2, <1>3, <1>4 DEF SameSearch

\* Pruning drops what no longer holds.
LEMMA StillCoolingOK ==
    ASSUME NEW e, EntryOK(e)
    PROVE  /\ EntryOK(StillCooling(e)) /\ SameQuorum(StillCooling(e), e)
           /\ StillCooling(e).search = e.search
           /\ StillCooling(e).rejected = Pruned(e.rejected, round.profile)
           /\ StillCooling(e).rejected \subseteq e.rejected
BY DEF EntryOK, StillCooling, SameQuorum, Pruned

\* A rejection is recorded, and nothing else.
LEMMA RejectedOK ==
    ASSUME NEW e, EntryOK(e), NEW node \in Nodes, NEW profile \in Networks, NEW at \in Times
    PROVE  /\ EntryOK(Rejected(e, node, profile, at))
           /\ SameQuorum(Rejected(e, node, profile, at), e)
           /\ Rejected(e, node, profile, at).search = e.search
           /\ Rejected(e, node, profile, at).rejected =
                Pruned({f \in e.rejected : f.node # node} \cup
                         {[node |-> node, net |-> profile, at |-> at]}, profile)
BY DEF EntryOK, Rejected, SameQuorum, Pruned

\* Another search changes nothing else.
LEMMA SearchOK ==
    ASSUME NEW e, EntryOK(e), NEW s \in Searches \cup {None}
    PROVE  /\ EntryOK([e EXCEPT !.search = s]) /\ SameQuorum([e EXCEPT !.search = s], e)
           /\ [e EXCEPT !.search = s].search = s
           /\ [e EXCEPT !.search = s].rejected = e.rejected
BY DEF EntryOK, SameQuorum

\* The latch of a search.
LEMMA LatchOK ==
    ASSUME NEW s \in Searches, NEW b \in BOOLEAN
    PROVE  /\ [s EXCEPT !.halted = b] \in Searches
           /\ [s EXCEPT !.halted = b].left = s.left
           /\ Halted([s EXCEPT !.halted = b]) = b
BY AbsenceAssumption DEF Searches, Halted

\* A prepared traversal offers candidates of this round only, and lifts no latch.
LEMMA PreparedOK ==
    ASSUME NEW s \in Searches \cup {None}, NEW ids \in SUBSET Nodes,
           NEW version \in [revision : Nat, expected : Nodes \cup {None}, net : Networks]
    PROVE  /\ Prepared(s, version, ids) \in Searches
           /\ Prepared(s, version, ids).left \subseteq ids
BY DEF Prepared, NewSearch, Searches

\* A consumed candidate is not offered again.
LEMMA ConsumedOK ==
    ASSUME NEW s \in Searches, NEW n \in Nodes, now \in Times
    PROVE  /\ Consumed(s, n) \in Searches
           /\ Consumed(s, n).left = s.left \ {n}
           /\ Consumed(s, n).halted = s.halted
<1> DEFINE a == [s EXCEPT !.done = @ \cup {n}]
           b == [a EXCEPT !.left = @ \ {n}]
<1>1. a \in Searches /\ a.left = s.left /\ a.halted = s.halted /\ a.retryAt = s.retryAt
  BY DEF Searches
<1>2. Consumed(s, n) = [b EXCEPT !.retryAt = IF s.left = {n} THEN now + Retry ELSE @]
  BY DEF Consumed
<1> HIDE DEF a
<1>3. b \in Searches /\ b.left = s.left \ {n} /\ b.halted = s.halted
  BY <1>1 DEF Searches
<1>4. now + Retry \in Nat
  BY TimeAssumption, BoundAssumption DEF Times
<1> HIDE DEF b
<1> QED
  BY <1>2, <1>3, <1>4 DEF Searches

-----------------------------------------------------------------------------
(* Documents.                                                               *)

\* A document with another entry.
LEMMA WithEntryOK ==
    ASSUME DocOK(mem), NEW e, EntryOK(e)
    PROVE  /\ DocOK(WithEntry(e)) /\ WithEntry(e).entry = e
           /\ WithEntry(e).expected = mem.expected
BY DEF DocOK, WithEntry

\* What a write of the sidecar leaves, whether it succeeds or not.
Stored(d) ==
    /\ mem' = d /\ file' \in {file, d} /\ (~blocked' => file' = d)
    /\ blocked' \in BOOLEAN /\ (blocked => blocked')

\* A write that succeeds stores.
LEMMA WrittenStores ==
    ASSUME NEW d, blocked \in BOOLEAN, Written(d)
    PROVE  Stored(d) /\ file' = d /\ ~blocked /\ ~blocked'
BY DEF Written, Stored

\* So does one that fails, in memory at least.
LEMMA NotWrittenStores ==
    ASSUME NEW d, blocked \in BOOLEAN, NotWritten(d)
    PROVE  Stored(d) /\ blocked'
BY DEF NotWritten, Unsaved, Stored

\* The result of a published entry is not looked at.
LEMMA PublishStores ==
    ASSUME NEW e, blocked \in BOOLEAN, Publish(e)
    PROVE  Stored(WithEntry(e))
BY WrittenStores, NotWrittenStores DEF Publish

\* A prerequisite: the round goes on with what is on disk, or it ends.
LEMMA PersistStores ==
    ASSUME NEW e, NEW next, blocked \in BOOLEAN, PersistThen(e, next)
    PROVE  /\ Stored(WithEntry(e)) /\ r' = e
           /\ \/ pc' = next /\ file' = WithEntry(e) /\ ~blocked'
              \/ pc' = "review" /\ blocked'
BY WrittenStores, NotWrittenStores DEF PersistThen, Finish

\* Stored documents keep their type.
LEMMA StoredOK ==
    ASSUME NEW d, DocOK(file), DocOK(d), Stored(d)
    PROVE  DocOK(file') /\ DocOK(mem') /\ blocked' \in BOOLEAN
BY DEF Stored

\* After a start the failures are forgotten and everything else stays.
LEMMA LoadedOK ==
    ASSUME NEW d, DocOK(d)
    PROVE  /\ DocOK(Loaded(d)) /\ Loaded(d).expected = d.expected
           /\ SameSearch(Loaded(d).entry, d.entry) /\ Loaded(d).entry.fails = 0
<1> DEFINE e == [NoFailures(d.entry) EXCEPT !.next = 0]
<1>1. EntryOK(NoFailures(d.entry)) /\ SameSearch(NoFailures(d.entry), d.entry)
      /\ NoFailures(d.entry).fails = 0
  BY NoFailuresOK DEF DocOK
<1>2. EntryOK(e) /\ SameSearch(e, d.entry) /\ e.fails = 0
  <2> DEFINE c == NoFailures(d.entry)
  <2> HIDE DEF c
  <2>1. EntryOK(c) /\ SameSearch(c, d.entry) /\ c.fails = 0
    BY <1>1 DEF c
  <2>2. EntryOK([c EXCEPT !.next = 0]) /\ SameSearch([c EXCEPT !.next = 0], d.entry)
        /\ [c EXCEPT !.next = 0].fails = 0
    BY <2>1 DEF EntryOK, SameSearch
  <2> QED
    BY <2>2 DEF c
<1>3. Loaded(d) = [d EXCEPT !.entry = e]
  BY DEF Loaded
<1> HIDE DEF e
<1> QED
  BY <1>2, <1>3 DEF DocOK

-----------------------------------------------------------------------------
(* Types.                                                                   *)

\* The log records one more transaction, or the end of the last one.
LEMMA LogOK ==
    ASSUME log \in Seq(Transactions), now \in Times
    PROVE  /\ \A t \in Transactions :
                 /\ Append(log, t) \in Seq(Transactions)
                 /\ Append(log, t) # <<>> /\ Len(Append(log, t)) = Len(log) + 1
                 /\ Append(log, t)[Len(log) + 1] = t
                 /\ \A i \in DOMAIN log : Append(log, t)[i] = log[i]
                 /\ DOMAIN Append(log, t) = DOMAIN log \cup {Len(log) + 1}
                 /\ Len(log) + 1 \notin DOMAIN log
           /\ \A end \in {"committed", "rejected", "path", "doubt"} : log # <<>> =>
                 /\ EndsAs(end) \in Seq(Transactions) /\ Len(EndsAs(end)) = Len(log)
                 /\ DOMAIN EndsAs(end) = DOMAIN log /\ Len(log) \in DOMAIN log
                 /\ \A i \in DOMAIN log : i # Len(log) => EndsAs(end)[i] = log[i]
                 /\ \A i \in DOMAIN log :
                       /\ EndsAs(end)[i].node = log[i].node
                       /\ EndsAs(end)[i].kind = log[i].kind
                       /\ EndsAs(end)[i].at = log[i].at
                       /\ EndsAs(end)[i].epoch = log[i].epoch
                 /\ EndsAs(end)[Len(log)].end = end
                 /\ EndsAs(end)[Len(log)].done = IF end = "rejected" THEN now ELSE 0
<1>1. \A t \in Transactions :
                 /\ Append(log, t) \in Seq(Transactions)
                 /\ Append(log, t) # <<>> /\ Len(Append(log, t)) = Len(log) + 1
                 /\ Append(log, t)[Len(log) + 1] = t
                 /\ \A i \in DOMAIN log : Append(log, t)[i] = log[i]
                 /\ DOMAIN Append(log, t) = DOMAIN log \cup {Len(log) + 1}
                 /\ Len(log) + 1 \notin DOMAIN log
  OBVIOUS
<1>2. ASSUME NEW end \in {"committed", "rejected", "path", "doubt"}, log # <<>>
      PROVE  /\ EndsAs(end) \in Seq(Transactions) /\ Len(EndsAs(end)) = Len(log)
             /\ DOMAIN EndsAs(end) = DOMAIN log /\ Len(log) \in DOMAIN log
             /\ \A i \in DOMAIN log : i # Len(log) => EndsAs(end)[i] = log[i]
             /\ \A i \in DOMAIN log :
                   /\ EndsAs(end)[i].node = log[i].node
                   /\ EndsAs(end)[i].kind = log[i].kind
                   /\ EndsAs(end)[i].at = log[i].at
                   /\ EndsAs(end)[i].epoch = log[i].epoch
             /\ EndsAs(end)[Len(log)].end = end
             /\ EndsAs(end)[Len(log)].done = IF end = "rejected" THEN now ELSE 0
  <2> DEFINE n == Len(log)
             d == IF end = "rejected" THEN now ELSE 0
             t == [log[n] EXCEPT !.end = end, !.done = d]
             u == [log[n] EXCEPT !.end = end]
  <2>1. n \in DOMAIN log /\ log[n] \in Transactions /\ n \in Nat
    BY <1>2
  <2>2. d \in Times
    BY BoundAssumption DEF Times
  <2>3. u \in Transactions /\ u.node = log[n].node /\ u.kind = log[n].kind
        /\ u.at = log[n].at /\ u.epoch = log[n].epoch /\ u.end = end
    BY <2>1 DEF Transactions
  <2>4. t = [u EXCEPT !.done = d]
    OBVIOUS
  <2>5. t \in Transactions /\ t.node = log[n].node /\ t.kind = log[n].kind
        /\ t.at = log[n].at /\ t.epoch = log[n].epoch /\ t.end = end /\ t.done = d
    <3> HIDE DEF u, t, d
    <3> QED
      BY <2>2, <2>3, <2>4 DEF Transactions
  <2>6. EndsAs(end) = [log EXCEPT ![n] = t]
    BY DEF EndsAs
  <2> HIDE DEF t
  <2>7. EndsAs(end) \in Seq(Transactions) /\ Len(EndsAs(end)) = Len(log)
        /\ DOMAIN EndsAs(end) = DOMAIN log
        /\ \A i \in DOMAIN log : EndsAs(end)[i] = IF i = n THEN t ELSE log[i]
    BY <2>1, <2>5, <2>6, ExceptSeq
  <2> QED
    BY <2>1, <2>5, <2>7
<1> QED
  BY <1>1, <1>2

\* The points of a round.
LEMMA Points ==
    /\ Pcs = {"idle", "service", "repair", "prepare", "search", "intent", "apply", "running",
              "record", "rejected", "path"} \cup Ends
    /\ Ends \cap (Searching \cup Applying \cup {"idle", "service", "repair"}) = {}
BY DEF Pcs, Inside, Ends, Searching, Applying

\* A round that ends leaves nothing but its entry and the documents.
LEMMA FinishTypes ==
    ASSUME TInv, NEW e, EntryOK(e), NEW s \in Ends, pc # "idle", Finish(e, s),
           DocOK(file'), DocOK(mem'), blocked' \in BOOLEAN, log' \in Seq(Transactions),
           run' \in Failures \cup {None}, UNCHANGED world,
           round' \in [profile : {round.profile}, checks : Nat, node : Nodes \cup {None},
                       kind : {"search", "repair"}, expired : BOOLEAN, at : Times]
    PROVE  TInv'
<1>1. s \in Pcs /\ s \notin Searching \cup Applying \cup {"idle", "service", "repair"}
  BY Points
<1>2. pc' = s /\ r' = e
  BY DEF Finish
<1>3. /\ s # "running" /\ s # "record" /\ s # "rejected" /\ s # "path" /\ s # "intent"
      /\ s # "repair"
  BY <1>1 DEF Searching, Applying
<1>4. round.profile \in Networks
  BY DEF TInv
<1> QED
  BY <1>1, <1>2, <1>3, <1>4 DEF TInv, world

\* What a step leaves when it does not touch the world or the history.
LEMMA TypesOfRound ==
    ASSUME TInv, BeginRound \/ NoCurrentNode
    PROVE  TInv'
<1>1. CASE BeginRound
  <2>1. EntryOK(mem.entry) /\ now + Interval \in Nat
    BY <1>1, TimeAssumption, BoundAssumption DEF TInv, DocOK, Times
  <2>2. EntryOK(r')
    BY <1>1, <2>1, NextCheckOK DEF BeginRound
  <2>3. Stored(WithEntry(r'))
    BY <1>1, PublishStores DEF BeginRound, TInv
  <2>4. DocOK(file') /\ DocOK(mem') /\ blocked' \in BOOLEAN
    BY <2>2, <2>3, WithEntryOK, StoredOK DEF TInv
  <2>5. 0 \in Times
    BY BoundAssumption DEF Times
  <2> QED
    BY <1>1, <2>2, <2>4, <2>5, Points DEF TInv, BeginRound, NoRound, world, Searching, Applying
<1>2. CASE NoCurrentNode
  <2>1. EntryOK(r')
    BY <1>2, StillCoolingOK DEF TInv, NoCurrentNode
  <2>2. round' \in [profile : {round.profile}, checks : Nat, node : Nodes \cup {None},
                    kind : {round.kind}, expired : BOOLEAN, at : Times]
    BY <1>2 DEF TInv, NoCurrentNode
  <2>3. /\ pc = "service" /\ pc' = "prepare"
        /\ UNCHANGED <<file, mem, blocked, applied, network, epoch, now, log, run>>
    BY <1>2 DEF NoCurrentNode, doc, world
  <2> QED
    BY <2>1, <2>2, <2>3, Points DEF TInv, Searching, Applying
<1> QED
  BY <1>1, <1>2

\* The look at the current node.
LEMMA TypesOfCheck ==
    ASSUME TInv, NEW verdict, CheckCurrent(verdict)
    PROVE  TInv'
<1> DEFINE seen == Observed(StillCooling(r), applied, round.profile, verdict)
           waits == [seen EXCEPT !.next = IF verdict = "FAIL" THEN now + Gap ELSE @]
<1>1. /\ pc = "service" /\ applied \in Nodes /\ round.profile \in Networks
      /\ UNCHANGED <<file, mem, blocked, applied, network, epoch, now, log, round>>
      /\ run' = RunAfter(verdict)
  BY DEF CheckCurrent, TInv, doc, world
<1>2. EntryOK(seen)
  BY <1>1, StillCoolingOK, ObservedOK DEF TInv
<1>3. \/ r' = seen /\ pc' = "healthy"
      \/ r' = seen /\ pc' \in {"repair", "prepare"}
      \/ r' = waits /\ pc' = "unconfirmed"
  BY DEF CheckCurrent, Finish
<1>4. EntryOK(waits)
  <2> HIDE DEF seen
  <2>1a. now + Gap \in Nat
    BY TimeAssumption, BoundAssumption DEF TInv, Times
  <2>1b. seen.next \in Nat
    BY <1>2 DEF EntryOK
  <2>1. now + Gap \in Nat /\ seen.next \in Nat
    BY <2>1a, <2>1b
  <2> DEFINE t == IF verdict = "FAIL" THEN now + Gap ELSE seen.next
  <2>2. t \in Nat /\ waits = [seen EXCEPT !.next = t]
    BY <2>1
  <2> HIDE DEF t, waits
  <2> QED
    BY <1>2, <2>2, NextCheckOK
<1>5. run' \in Failures \cup {None}
  <2>1. now \in Times /\ run \in Failures \cup {None}
    BY DEF TInv
  <2>2. run # None => [run EXCEPT !.last = now] \in Failures
    BY <2>1 DEF Failures
  <2>3. [node |-> applied, net |-> round.profile, first |-> now, last |-> now] \in Failures
    BY <1>1, <2>1 DEF Failures
  <2> QED
    BY <1>1, <2>2, <2>3 DEF RunAfter
<1> HIDE DEF seen, waits
<1>6. EntryOK(r') /\ pc' \in {"healthy", "unconfirmed", "repair", "prepare"}
  BY <1>2, <1>3, <1>4
<1> QED
  BY <1>1, <1>5, <1>6, Points, NoneAssumption DEF TInv, Searching, Applying, Ends

\* The ends of a round that write nothing.
LEMMA TypesOfEnds ==
    ASSUME TInv,
           ManualChange \/ RateLimited \/ Interrupted \/ EndSearch \/ Inconclusive
             \/ ApplyRefused \/ ApplyNotStarted \/ ResumeRefused
    PROVE  TInv'
<1>1. PICK e, s : Finish(e, s) /\ EntryOK(e) /\ s \in Ends
  <2>1. EntryOK(StillCooling(r)) /\ now + 1 \in Nat
    BY StillCoolingOK, BoundAssumption DEF TInv, Times
  <2>2. EntryOK(NoFailures(StillCooling(r))) /\ EntryOK(NoFailures(r)) /\ EntryOK(r)
    BY <2>1, NoFailuresOK DEF TInv
  <2>3. EntryOK([NoFailures(StillCooling(r)) EXCEPT !.next = now + 1])
        /\ EntryOK([NoFailures(r) EXCEPT !.next = now + 1])
    BY <2>1, <2>2, NextCheckOK
  <2>4. EntryOK(Refunded(r))
    BY <2>2, BudgetOK
  <2>5. CASE ManualChange
    BY <2>2, <2>5 DEF ManualChange, Ends
  <2>6. CASE RateLimited
    BY <2>3, <2>6 DEF RateLimited, Ends
  <2>7. CASE Interrupted
    BY <2>2, <2>7 DEF Interrupted, Ends
  <2>8. CASE EndSearch
    BY <2>2, <2>8 DEF EndSearch, Ends
  <2>9. CASE Inconclusive
    BY <2>2, <2>3, <2>9 DEF Inconclusive, Ends
  <2>10. CASE ApplyRefused
    BY <2>2, <2>10 DEF ApplyRefused, Ends
  <2>11. CASE ApplyNotStarted
    BY <2>4, <2>11 DEF ApplyNotStarted, Ends
  <2>12. CASE ResumeRefused
    BY <2>2, <2>12 DEF ResumeRefused, Ends
  <2> QED
    BY <2>5, <2>6, <2>7, <2>8, <2>9, <2>10, <2>11, <2>12
<1>2. pc # "idle" /\ UNCHANGED <<doc, world, round, log>> /\ run' \in Failures \cup {None}
  BY DEF ManualChange, RateLimited, Interrupted, EndSearch, Inconclusive, ApplyRefused,
         ApplyNotStarted, ResumeRefused, Inside, MayCheck, TInv
<1>3. /\ DocOK(file') /\ DocOK(mem') /\ blocked' \in BOOLEAN /\ log' \in Seq(Transactions)
      /\ round' \in [profile : {round.profile}, checks : Nat, node : Nodes \cup {None},
                     kind : {"search", "repair"}, expired : BOOLEAN, at : Times]
  BY <1>2 DEF TInv, doc
<1> QED
  BY <1>1, <1>2, <1>3, FinishTypes

\* The end of a round is published.
LEMMA TypesOfEndRound ==
    ASSUME TInv, EndRound
    PROVE  TInv'
<1> DEFINE t == IF r.next <= now THEN now + Interval ELSE r.next
           e == [r EXCEPT !.next = t]
<1>1. t \in Nat
  BY TimeAssumption, BoundAssumption DEF TInv, EntryOK, Times
<1>2. Publish(e)
  BY DEF EndRound
<1> HIDE DEF t
<1>3. EntryOK(e)
  BY <1>1, NextCheckOK DEF TInv
<1> HIDE DEF e
<1>4. DocOK(file') /\ DocOK(mem') /\ blocked' \in BOOLEAN
  BY <1>2, <1>3, PublishStores, WithEntryOK, StoredOK DEF TInv
<1>5. /\ pc' = "idle" /\ r' = FreshEntry /\ round' = NoRound
      /\ UNCHANGED <<applied, network, epoch, now, log, run>>
  BY DEF EndRound, world
<1>6. 0 \in Times
  BY BoundAssumption DEF Times
<1> QED
  BY <1>4, <1>5, <1>6, FreshOK DEF TInv, NoRound, Pcs, Searching, Applying

\* The same node again: the reservation is published, or there is no room.
LEMMA TypesOfRepair ==
    ASSUME TInv, Repair
    PROVE  TInv'
<1>1. EntryOK([r EXCEPT !.switches = Recent(@)]) /\ EntryOK(Reserved(r)) /\ EntryOK(r)
  BY BudgetOK DEF TInv
<1>2. pc = "repair" /\ UNCHANGED <<applied, network, epoch, now, log, run>>
  BY DEF Repair, world
<1>3. CASE ~HasBudget(r)
  <2>1. Finish([r EXCEPT !.switches = Recent(@)], "limited")
        /\ UNCHANGED <<file, mem, blocked, round>>
    BY <1>3 DEF Repair, doc
  <2>2. "limited" \in Ends
    BY DEF Ends
  <2> QED
    BY <1>1, <1>2, <2>1, <2>2, FinishTypes DEF TInv, world
<1>4. CASE HasBudget(r)
  <2>1. /\ r' = Reserved(r) /\ Publish(Reserved(r)) /\ pc' = "apply"
        /\ round' = [round EXCEPT !.node = applied, !.kind = "repair", !.at = now]
    BY <1>4 DEF Repair
  <2>2. DocOK(file') /\ DocOK(mem') /\ blocked' \in BOOLEAN
    BY <1>1, <2>1, PublishStores, WithEntryOK, StoredOK DEF TInv
  <2>3. applied \in Nodes /\ now \in Times
    BY <1>2 DEF TInv
  <2>4. /\ round' \in [profile : {round.profile}, checks : Nat, node : Nodes,
                       kind : {"repair"}, expired : BOOLEAN, at : Times]
    <3> DEFINE a == [round EXCEPT !.node = applied]
               b == [a EXCEPT !.kind = "repair"]
    <3>1. a \in [profile : {round.profile}, checks : Nat, node : Nodes,
                 kind : {"search", "repair"}, expired : BOOLEAN, at : Times]
      BY <2>3 DEF TInv
    <3>2. b \in [profile : {round.profile}, checks : Nat, node : Nodes,
                 kind : {"repair"}, expired : BOOLEAN, at : Times]
      <4> HIDE DEF a
      <4> QED
        BY <3>1
    <3>3. round' = [b EXCEPT !.at = now]
      BY <2>1
    <3> HIDE DEF b
    <3> QED
      BY <2>3, <3>2, <3>3
  <2>5. pc' \in Pcs
    BY <2>1, Points
  <2> QED
    BY <1>1, <1>2, <2>1, <2>2, <2>4, <2>5 DEF TInv, Searching, Applying
<1> QED
  BY <1>3, <1>4

\* A saved step of the search: it goes on, or the round ends in a review.
LEMMA PersistTypes ==
    ASSUME TInv, NEW e, EntryOK(e), NEW q \in Pcs, pc # "idle", PersistThen(e, q),
           UNCHANGED <<world, log, run>>,
           q \in {"search", "intent", "apply"}, e.search # None,
           round' \in [profile : {round.profile}, checks : Nat, node : Nodes \cup {None},
                       kind : {"search"}, expired : BOOLEAN, at : Times],
           q # "search" => round'.node \in Nodes
    PROVE  TInv'
<1>1. /\ Stored(WithEntry(e)) /\ r' = e
      /\ \/ pc' = q /\ file' = WithEntry(e) /\ ~blocked'
         \/ pc' = "review" /\ blocked'
  BY PersistStores DEF TInv
<1>2. DocOK(file') /\ DocOK(mem') /\ blocked' \in BOOLEAN
  BY <1>1, WithEntryOK, StoredOK DEF TInv
<1>3. CASE pc' = "review"
  <2>1. Finish(e, "review") /\ "review" \in Ends /\ log' \in Seq(Transactions)
        /\ run' \in Failures \cup {None}
        /\ round' \in [profile : {round.profile}, checks : Nat, node : Nodes \cup {None},
                       kind : {"search", "repair"}, expired : BOOLEAN, at : Times]
    BY <1>1, <1>3 DEF Finish, Ends, TInv
  <2> QED
    BY <1>2, <2>1, FinishTypes
<1>4. CASE pc' = q
  <2>1. round.profile \in Networks
    BY DEF TInv
  <2> QED
    BY <1>1, <1>2, <1>4, <2>1 DEF TInv, Searching, Applying, world
<1> QED
  BY <1>1, <1>3, <1>4

\* The steps of the search that are saved before the next one.
LEMMA TypesOfSearch ==
    ASSUME TInv,
           PrepareSearch \/ Intend
             \/ \E n \in Nodes : SkipCandidate(n) \/ CheckCandidate(n, TRUE)
                                   \/ CheckCandidate(n, FALSE)
    PROVE  TInv'
<1>0. EntryOK(r) /\ r.search \in Searches \cup {None} /\ now \in Times
      /\ mem.expected \in Nodes \cup {None} /\ mem.revision \in Nat /\ network \in Networks
  BY DEF TInv, EntryOK, DocOK
<1>a. {"search", "intent", "apply"} \subseteq Pcs /\ {"review", "limited"} \subseteq Ends
  BY Points DEF Ends
<1>1. CASE PrepareSearch
  <2>1. /\ pc = "prepare" /\ round.profile \in Networks /\ round.kind = "search"
        /\ UNCHANGED <<world, round, log, run>>
    BY <1>1 DEF PrepareSearch, TInv, Searching
  <2>2. CASE Halted(r.search)
    <3>1. Finish(r, "review") /\ UNCHANGED doc
      BY <1>1, <2>2 DEF PrepareSearch
    <3> QED
      BY <1>0, <1>a, <2>1, <3>1, FinishTypes DEF TInv, doc
  <2>3. CASE ~Halted(r.search)
    <3>1. PICK ids \in SUBSET Nodes :
             PersistThen([r EXCEPT !.search = Prepared(@, Version(round.profile), ids)],
                         "search")
      BY <1>1, <2>3 DEF PrepareSearch
    <3> DEFINE s == Prepared(r.search, Version(round.profile), ids)
    <3>2. Version(round.profile) \in
             [revision : Nat, expected : Nodes \cup {None}, net : Networks]
      BY <1>0, <2>1 DEF Version
    <3>3. s \in Searches
      BY <1>0, <3>2, PreparedOK
    <3>4. PersistThen([r EXCEPT !.search = s], "search")
      BY <3>1
    <3> HIDE DEF s
    <3> DEFINE e == [r EXCEPT !.search = s]
    <3>5. EntryOK(e) /\ e.search # None
      BY <1>0, <3>3, SearchOK, AbsenceAssumption
    <3>6. PersistThen(e, "search")
      BY <3>4
    <3> HIDE DEF e
    <3>7. round' \in [profile : {round.profile}, checks : Nat, node : Nodes \cup {None},
                      kind : {"search"}, expired : BOOLEAN, at : Times]
      BY <2>1 DEF TInv
    <3> QED
      BY <1>a, <2>1, <3>5, <3>6, <3>7, PersistTypes
  <2> QED
    BY <2>2, <2>3
<1>2. CASE Intend
  <2>1. /\ pc = "intent" /\ round.kind = "search" /\ r.search \in Searches
        /\ round' = [round EXCEPT !.at = now] /\ UNCHANGED <<world, log, run>>
    BY <1>0, <1>2 DEF Intend, TInv, Searching
  <2>2. round' \in [profile : {round.profile}, checks : Nat, node : Nodes,
                    kind : {"search"}, expired : BOOLEAN, at : Times]
    BY <1>0, <2>1 DEF TInv
  <2>4. CASE PersistThen([Reserved(r) EXCEPT !.search.halted = TRUE], "apply")
    <3> DEFINE b == Reserved(r)
               s == [r.search EXCEPT !.halted = TRUE]
               e == [b EXCEPT !.search = s]
    <3>1. EntryOK(b) /\ b.search = r.search
      BY <1>0, BudgetOK DEF SameSearch
    <3>2. s \in Searches
      BY <2>1, LatchOK
    <3>3. [Reserved(r) EXCEPT !.search.halted = TRUE] = e
      <4>1. [b EXCEPT !.search.halted = TRUE] = [b EXCEPT !.search = [b.search EXCEPT !.halted = TRUE]]
        <5> HIDE DEF b
        <5> QED
          OBVIOUS
      <4> QED
        BY <3>1, <4>1
    <3> HIDE DEF b, s
    <3>4. EntryOK(e) /\ e.search # None
      BY <3>1, <3>2, SearchOK, AbsenceAssumption
    <3>5. PersistThen(e, "apply")
      BY <2>4, <3>3
    <3> HIDE DEF e
    <3> QED
      BY <1>a, <2>1, <2>2, <3>4, <3>5, PersistTypes
  <2>5. \/ Finish(r, "limited") /\ UNCHANGED doc
        \/ Finish([r EXCEPT !.switches = Recent(@)], "limited") /\ UNCHANGED doc
        \/ PersistThen([Reserved(r) EXCEPT !.search.halted = TRUE], "apply")
    BY <1>2 DEF Intend
  <2>6. CASE Finish(r, "limited") /\ UNCHANGED doc
    BY <1>0, <1>a, <2>1, <2>2, <2>6, FinishTypes DEF TInv, doc
  <2>7. CASE Finish([r EXCEPT !.switches = Recent(@)], "limited") /\ UNCHANGED doc
    <3>1. EntryOK([r EXCEPT !.switches = Recent(@)])
      BY <1>0, BudgetOK
    <3> QED
      BY <1>0, <1>a, <2>1, <2>2, <2>7, <3>1, FinishTypes DEF TInv, doc
  <2> QED
    BY <2>4, <2>5, <2>6, <2>7
<1>3. ASSUME NEW n \in Nodes, SkipCandidate(n) \/ CheckCandidate(n, TRUE)
                                \/ CheckCandidate(n, FALSE)
      PROVE  TInv'
  <2> DEFINE e == [r EXCEPT !.search = Consumed(@, n)]
  <2>1. /\ pc = "search" /\ round.kind = "search" /\ r.search \in Searches
        /\ UNCHANGED <<world, log, run>>
    BY <1>0, <1>3 DEF SkipCandidate, CheckCandidate, MayCheck, TInv, Searching
  <2>2. EntryOK(e) /\ e.search # None
    BY <1>0, <2>1, ConsumedOK, SearchOK, AbsenceAssumption
  <2>3. CASE SkipCandidate(n)
    <3>1. PersistThen(e, "search") /\ UNCHANGED round
      BY <2>3 DEF SkipCandidate
    <3> HIDE DEF e
    <3>2. round' \in [profile : {round.profile}, checks : Nat, node : Nodes \cup {None},
                      kind : {"search"}, expired : BOOLEAN, at : Times]
      BY <2>1, <3>1 DEF TInv
    <3> QED
      BY <1>a, <2>1, <2>2, <3>1, <3>2, PersistTypes
  <2>4. CASE CheckCandidate(n, TRUE) \/ CheckCandidate(n, FALSE)
    <3>1. PICK q \in {"intent", "search"} :
             PersistThen(e, q) /\ round' = [round EXCEPT !.checks = @ + 1, !.node = n]
      BY <2>4 DEF CheckCandidate
    <3> HIDE DEF e
    <3> DEFINE c == [round EXCEPT !.checks = @ + 1]
    <3>2. c \in [profile : {round.profile}, checks : Nat, node : Nodes \cup {None},
                 kind : {"search"}, expired : BOOLEAN, at : Times]
      BY <2>1 DEF TInv
    <3>3. round' = [c EXCEPT !.node = n]
      BY <3>1
    <3> HIDE DEF c
    <3>4. round' \in [profile : {round.profile}, checks : Nat, node : Nodes \cup {None},
                      kind : {"search"}, expired : BOOLEAN, at : Times]
          /\ round'.node \in Nodes
      BY <3>2, <3>3
    <3> QED
      BY <1>a, <2>1, <2>2, <3>1, <3>4, PersistTypes
  <2> QED
    BY <1>3, <2>3, <2>4
<1> QED
  BY <1>1, <1>2, <1>3

\* A transaction begins and ends.
LEMMA TypesOfTransaction ==
    ASSUME TInv, StartTransaction \/ CommitTransaction \/ FailTransaction
                   \/ \E end \in {"rejected", "path"} : RollBackCandidate(end)
    PROVE  TInv'
<1>1. CASE StartTransaction
  <2> DEFINE t == [node |-> round.node, kind |-> round.kind, at |-> round.at,
                   end |-> "running", done |-> 0, epoch |-> epoch]
  <2>1. t \in Transactions
    BY <1>1, BoundAssumption DEF StartTransaction, TInv, Applying, Transactions, Times
  <2>2. /\ log' = Append(log, t) /\ pc = "apply" /\ pc' = "running" /\ ~blocked
        /\ UNCHANGED <<file, mem, blocked, r, applied, network, epoch, now, round, run>>
    BY <1>1 DEF StartTransaction, GuardHolds, doc, world
  <2>3. /\ log' \in Seq(Transactions) /\ log' # <<>> /\ log'[Len(log')] = t
    BY <2>1, <2>2, LogOK DEF TInv
  <2>4. t.kind = round.kind /\ t.end = "running" /\ t.node = round.node
    OBVIOUS
  <2> HIDE DEF t
  <2> QED
    BY <2>2, <2>3, <2>4, Points DEF TInv, Searching, Applying
<1>2. ASSUME CommitTransaction \/ FailTransaction
               \/ \E end \in {"rejected", "path"} : RollBackCandidate(end)
      PROVE  TInv'
  <2>1. /\ pc = "running" /\ log # <<>> /\ log \in Seq(Transactions) /\ now \in Times
        /\ UNCHANGED <<file, mem, blocked, r, network, epoch, now, run>>
    BY <1>2 DEF CommitTransaction, FailTransaction, RollBackCandidate, doc, world, Finish, TInv
  <2>2. log' \in Seq(Transactions)
    BY <1>2, <2>1, LogOK DEF CommitTransaction, FailTransaction, RollBackCandidate
  <2>3. CASE CommitTransaction
    BY <2>1, <2>2, <2>3, Points DEF CommitTransaction, TInv, Searching, Applying
  <2>4. CASE FailTransaction
    BY <2>1, <2>2, <2>4, FinishTypes DEF FailTransaction, TInv, doc, world, Ends
  <2>5. ASSUME NEW end \in {"rejected", "path"}, RollBackCandidate(end)
        PROVE  TInv'
    <3>1. CASE round.kind = "repair"
      BY <2>1, <2>2, <2>5, <3>1, FinishTypes DEF RollBackCandidate, TInv, doc, world, Ends
    <3>2. CASE round.kind # "repair"
      <4>1. /\ pc' = end /\ round' = [round EXCEPT !.at = now] /\ UNCHANGED applied
        BY <2>5, <3>2 DEF RollBackCandidate, world
      <4>2. round' \in [profile : {round.profile}, checks : Nat, node : {round.node},
                        kind : {"search"}, expired : BOOLEAN, at : Times]
        BY <2>1, <3>2, <4>1 DEF TInv
      <4>3. end \in Pcs
        BY Points
      <4> QED
        BY <2>1, <2>2, <3>2, <4>1, <4>2, <4>3 DEF TInv, Searching, Applying
    <3> QED
      BY <3>1, <3>2
  <2> QED
    BY <1>2, <2>3, <2>4, <2>5
<1> QED
  BY <1>1, <1>2

\* The receipt of a route.
LEMMA TypesOfReceipt ==
    ASSUME TInv, RecordRoute
    PROVE  TInv'
<1> DEFINE d == [mem EXCEPT !.expected = round.node]
           e == IF round.kind = "repair" THEN r
                ELSE [NoFailures(r) EXCEPT !.search.halted = FALSE]
<1>1. /\ pc = "record" /\ UNCHANGED <<world, round, log, run>>
      /\ round.node \in Nodes /\ EntryOK(r)
  BY DEF RecordRoute, TInv, Applying
<1>2. DocOK(d)
  BY <1>1 DEF TInv, DocOK
<1>3. EntryOK(e)
  <2>1. CASE round.kind = "repair"
    BY <1>1, <2>1
  <2>2. CASE round.kind # "repair"
    <3> DEFINE b == NoFailures(r)
               s == [r.search EXCEPT !.halted = FALSE]
    <3>1. EntryOK(b) /\ b.search = r.search
      BY <1>1, NoFailuresOK DEF SameSearch
    <3>2. r.search \in Searches
      BY <1>1, <2>2 DEF TInv, Applying, EntryOK
    <3>3. s \in Searches
      BY <3>2, LatchOK
    <3>4. [b EXCEPT !.search.halted = FALSE] = [b EXCEPT !.search = [b.search EXCEPT !.halted = FALSE]]
      <4> HIDE DEF b
      <4> QED
        OBVIOUS
    <3>5. e = [b EXCEPT !.search = s]
      BY <2>2, <3>1, <3>4
    <3> HIDE DEF b, s, e
    <3> QED
      BY <3>1, <3>3, <3>5, SearchOK
  <2> QED
    BY <2>1, <2>2
<1>4. \/ Stored(d) /\ Finish(e, "applied")
      \/ (Stored(d) \/ UNCHANGED doc) /\ Finish(r, "refused")
  BY WrittenStores, NotWrittenStores DEF RecordRoute, TInv
<1> HIDE DEF d, e
<1>5. DocOK(file') /\ DocOK(mem') /\ blocked' \in BOOLEAN
  BY <1>2, <1>4, StoredOK DEF TInv, doc
<1>6. {"applied", "refused"} \subseteq Ends
  BY DEF Ends
<1> QED
  BY <1>1, <1>3, <1>4, <1>5, <1>6, FinishTypes DEF TInv

\* The search goes on after a verified rollback.
LEMMA TypesOfResume ==
    ASSUME TInv, ResumeSearch
    PROVE  TInv'
<1> DEFINE c == IF pc = "rejected" THEN Rejected(r, round.node, round.profile, round.at) ELSE r
           s == [r.search EXCEPT !.halted = FALSE]
           e == [c EXCEPT !.search = s]
<1>1. /\ pc \in {"rejected", "path"} /\ UNCHANGED <<world, round, log, run>>
      /\ round.node \in Nodes /\ round.profile \in Networks /\ round.at \in Times
      /\ EntryOK(r) /\ r.search \in Searches /\ round.kind = "search"
  BY DEF ResumeSearch, TInv, EntryOK, Searching
<1>2. EntryOK(c) /\ c.search = r.search
  BY <1>1, RejectedOK
<1>3. s \in Searches
  BY <1>1, LatchOK
<1>4. [c EXCEPT !.search.halted = FALSE] = [c EXCEPT !.search = [c.search EXCEPT !.halted = FALSE]]
  <2> HIDE DEF c
  <2> QED
    OBVIOUS
<1>5. PersistThen([c EXCEPT !.search.halted = FALSE], "search")
  BY DEF ResumeSearch
<1>6. PersistThen(e, "search")
  BY <1>2, <1>4, <1>5
<1> HIDE DEF c, s
<1>7. EntryOK(e) /\ e.search # None
  BY <1>2, <1>3, SearchOK, AbsenceAssumption
<1> HIDE DEF e
<1>8. round' \in [profile : {round.profile}, checks : Nat, node : Nodes \cup {None},
                  kind : {"search"}, expired : BOOLEAN, at : Times]
  BY <1>1 DEF TInv
<1>9. "search" \in Pcs
  BY Points
<1> QED
  BY <1>1, <1>6, <1>7, <1>8, <1>9, PersistTypes

\* A new revision of the consent.
LEMMA RevisionOK ==
    ASSUME TInv
    PROVE  /\ DocOK([mem EXCEPT !.revision = @ + 1])
           /\ [mem EXCEPT !.revision = @ + 1].expected = mem.expected
           /\ [mem EXCEPT !.revision = @ + 1].entry = mem.entry
BY DEF TInv, DocOK

\* The document of an enrolment.
Enrolled == [entry |-> FreshEntry, expected |-> applied, revision |-> mem.revision + 1]
LEMMA EnrolledOK ==
    ASSUME TInv
    PROVE  DocOK(Enrolled) /\ Enrolled.entry = FreshEntry /\ Enrolled.expected = applied
<1>1. mem.revision \in Nat /\ applied \in Nodes \cup {None}
  BY DEF TInv, DocOK
<1> QED
  BY <1>1, FreshOK DEF Enrolled, DocOK

\* The world outside.
LEMMA TypesOutside ==
    ASSUME TInv, Outside
    PROVE  TInv'
<1>1. CASE Restart
  <2>1. /\ pc' = "idle" /\ r' = FreshEntry /\ round' = NoRound /\ run' = None
        /\ mem' = Loaded(file) /\ blocked' = FALSE
        /\ UNCHANGED <<file, network, now, epoch>>
    BY <1>1 DEF Restart
  <2>2. applied' \in Nodes \cup {None} /\ log' \in Seq(Transactions)
    BY <1>1, LogOK DEF Restart, TInv, Applying
  <2>3. 0 \in Times /\ DocOK(mem')
    BY <2>1, BoundAssumption, LoadedOK DEF Times, TInv
  <2> QED
    BY <2>1, <2>2, <2>3, FreshOK, Points DEF TInv, NoRound, Searching, Applying
<1>2. CASE Enroll
  <2>1. /\ pc = "idle" /\ run' = None
        /\ UNCHANGED <<pc, r, round, applied, network, epoch, now>>
        /\ Stored(Enrolled) /\ log' \in {<<>>, log}
    BY <1>2, WrittenStores, NotWrittenStores DEF Enroll, Enrolled, world, TInv
  <2>2. DocOK(file') /\ DocOK(mem') /\ blocked' \in BOOLEAN
    BY <2>1, EnrolledOK, StoredOK DEF TInv
  <2>3. log' \in Seq(Transactions)
    <3>1. <<>> \in Seq(Transactions) /\ log \in Seq(Transactions)
      BY DEF TInv
    <3> QED
      BY <2>1, <3>1
  <2>4. pc' = "idle" /\ pc' \notin Searching \cup Applying \cup {"service", "repair"}
    BY <2>1 DEF Searching, Applying
  <2>5. /\ EntryOK(r') /\ pc' \in Pcs /\ run' \in Failures \cup {None}
        /\ round' \in [profile : Networks \cup {None}, checks : Nat, node : Nodes \cup {None},
                       kind : {"search", "repair"}, expired : BOOLEAN, at : Times]
        /\ applied' \in Nodes \cup {None} /\ network' \in Networks /\ now' \in Times
        /\ epoch' \in 0..MaxEpoch
    BY <2>1 DEF TInv
  <2> QED
    BY <2>2, <2>3, <2>4, <2>5 DEF TInv, Searching, Applying
<1>3. CASE SavePolicy
  <2>1. /\ pc = "idle" /\ UNCHANGED <<pc, r, round, applied, network, epoch, now, log, run>>
    BY <1>3 DEF SavePolicy, world
  <2>2. DocOK(file') /\ DocOK(mem') /\ blocked' \in BOOLEAN
    BY <1>3, RevisionOK DEF SavePolicy, Written, Unsaved, TInv
  <2> QED
    BY <2>1, <2>2 DEF TInv, Searching, Applying
<1>4. CASE Tick
  <2>1. now' \in Times /\ UNCHANGED <<file, mem, blocked, pc, r, round, applied, network,
                                       epoch, log, run>>
    BY <1>4, BoundAssumption DEF Tick, TInv, Times, doc
  <2> QED
    BY <2>1 DEF TInv
<1>5. ASSUME NEW n \in Nodes \cup {None}, ManualApply(n)
      PROVE  TInv'
  BY <1>5 DEF ManualApply, TInv, doc
<1>6. ASSUME NEW w \in Networks, NetworkChanges(w)
      PROVE  TInv'
  <2>1. epoch' \in 0..MaxEpoch /\ network' \in Networks
        /\ UNCHANGED <<file, mem, blocked, pc, r, round, applied, now, log, run>>
    BY <1>6, BoundAssumption DEF NetworkChanges, TInv, doc
  <2> QED
    BY <2>1 DEF TInv
<1> QED
  BY <1>1, <1>2, <1>3, <1>4, <1>5, <1>6 DEF Outside

\* The types, and what a point of a round says of its variables, are inductive.
LEMMA TypesStep == TInv /\ [Next]_vars => TInv'
<1> SUFFICES ASSUME TInv, [Next]_vars PROVE TInv'
  OBVIOUS
<1>1. CASE Round
  BY <1>1, TypesOfRound, TypesOfCheck, TypesOfEnds, TypesOfEndRound, TypesOfRepair DEF Round
<1>2. CASE Search
  BY <1>2, TypesOfEnds, TypesOfSearch DEF Search
<1>3. CASE Application
  BY <1>3, TypesOfEnds, TypesOfTransaction, TypesOfReceipt, TypesOfResume DEF Application
<1>4. CASE Outside
  BY <1>4, TypesOutside
<1>5. CASE UNCHANGED vars
  BY <1>5 DEF vars, TInv
<1> QED
  BY <1>1, <1>2, <1>3, <1>4, <1>5 DEF Next

\* They hold when the daemon has nothing.
LEMMA TypesInit == Init => TInv
<1> SUFFICES ASSUME Init PROVE TInv
  OBVIOUS
<1>1. mem = [entry |-> FreshEntry, expected |-> None, revision |-> 0] /\ file = mem
      /\ blocked = FALSE /\ pc = "idle" /\ r = FreshEntry /\ round = NoRound
  BY DEF Init
<1>2. DocOK(mem)
  BY <1>1, FreshOK DEF DocOK
<1>3. 0 \in Times /\ 0 \in 0..MaxEpoch
  BY BoundAssumption DEF Times
<1>4. log \in Seq(Transactions) /\ run = None /\ applied = None /\ network \in Networks
      /\ now = 0 /\ epoch = 0
  BY DEF Init
<1>5. pc \in Pcs /\ pc \notin Searching \cup Applying \cup {"service", "repair"}
  BY <1>1, Points DEF Searching, Applying
<1>6. round \in [profile : Networks \cup {None}, checks : Nat, node : Nodes \cup {None},
                kind : {"search", "repair"}, expired : BOOLEAN, at : Times]
  BY <1>1, <1>3 DEF NoRound
<1> QED
  BY <1>1, <1>2, <1>3, <1>4, <1>5, <1>6, FreshOK DEF TInv, Searching, Applying

-----------------------------------------------------------------------------
(* The recorded route.                                                      *)

\* A document that keeps the receipt.
Keeps(d) == Stored(d) /\ d.expected = mem.expected

\* Within a round the documents keep the receipt until a route is recorded, and
\* the route stays until a transaction commits.
LEMMA RoundKeepsReceipt ==
    ASSUME TInv, Round \/ Search \/ Application, ~RecordRoute
    PROVE  UNCHANGED doc \/ \E d : Keeps(d)
<1>1. ASSUME NEW e, EntryOK(e), Stored(WithEntry(e))
      PROVE  \E d : Keeps(d)
  BY <1>1, WithEntryOK DEF Keeps, TInv
<1>2. CASE BeginRound
  <2>1. EntryOK(mem.entry) /\ now + Interval \in Nat
    BY TimeAssumption, BoundAssumption DEF TInv, DocOK, Times
  <2>2. EntryOK(r') /\ Stored(WithEntry(r'))
    BY <1>2, <2>1, NextCheckOK, PublishStores DEF BeginRound, TInv
  <2> QED
    BY <1>1, <2>2
<1>3. CASE EndRound
  <2> DEFINE t == IF r.next <= now THEN now + Interval ELSE r.next
  <2>1. t \in Nat
    BY TimeAssumption, BoundAssumption DEF TInv, EntryOK, Times
  <2>2. Publish([r EXCEPT !.next = t])
    BY <1>3 DEF EndRound
  <2> HIDE DEF t
  <2> QED
    BY <1>1, <2>1, <2>2, NextCheckOK, PublishStores DEF TInv
<1>4. CASE Repair
  <2>1. EntryOK(Reserved(r))
    BY BudgetOK DEF TInv
  <2>2. UNCHANGED doc \/ Publish(Reserved(r))
    BY <1>4 DEF Repair, doc
  <2> QED
    BY <1>1, <2>1, <2>2, PublishStores DEF TInv
<1>5. ASSUME NEW e, NEW q, PersistThen(e, q)
      PROVE  UNCHANGED doc \/ \E d : Keeps(d)
  <2>1. Stored(WithEntry(e)) /\ WithEntry(e).expected = mem.expected
    BY <1>5, PersistStores DEF TInv, WithEntry, DocOK
  <2> QED
    BY <2>1 DEF Keeps
<1>6. CASE Round
  BY <1>2, <1>3, <1>4, <1>6 DEF Round, ManualChange, NoCurrentNode, RateLimited, Interrupted,
     CheckCurrent
<1>7. CASE Search
  BY <1>5, <1>7 DEF Search, PrepareSearch, EndSearch, Inconclusive, Intend, SkipCandidate,
     CheckCandidate
<1>8. CASE Application
  BY <1>5, <1>8 DEF Application, ApplyRefused, ApplyNotStarted, StartTransaction,
     CommitTransaction, RollBackCandidate, FailTransaction, ResumeSearch, ResumeRefused
<1> QED
  BY <1>6, <1>7, <1>8

\* What is on disk is what is in memory, unless a write is in doubt.
Saved ==
    ~blocked =>
          /\ file.expected = mem.expected
          /\ file.entry.search = mem.entry.search
          /\ file.entry.rejected = mem.entry.rejected

\* No step takes memory and disk apart without saying so.
LEMMA SavedStep == TInv /\ Saved /\ [Next]_vars => Saved'
<1> SUFFICES ASSUME TInv, Saved, [Next]_vars PROVE Saved'
  OBVIOUS
<1>1. CASE UNCHANGED doc
  BY <1>1 DEF Saved, doc
<1>2. CASE \E d : Stored(d)
  BY <1>2 DEF Saved, Stored
<1>3. CASE Restart
  BY <1>3, LoadedOK DEF Restart, Saved, TInv, SameSearch
<1>4. CASE SavePolicy
  BY <1>4 DEF SavePolicy, Written, Unsaved, Saved
<1>5. CASE Enroll
  <2>1. Stored(Enrolled)
    BY <1>5, WrittenStores, NotWrittenStores DEF Enroll, Enrolled, TInv
  <2> QED
    BY <1>2, <2>1
<1>6. CASE RecordRoute
  <2>1. UNCHANGED doc \/ Stored([mem EXCEPT !.expected = round.node])
    BY <1>6, WrittenStores, NotWrittenStores DEF RecordRoute, TInv
  <2> QED
    BY <1>1, <1>2, <2>1
<1>7. CASE Tick \/ (\E n \in Nodes \cup {None} : ManualApply(n))
             \/ (\E w \in Networks : NetworkChanges(w))
  BY <1>1, <1>7 DEF Tick, ManualApply, NetworkChanges
<1> QED
  BY <1>1, <1>2, <1>3, <1>4, <1>5, <1>6, <1>7, RoundKeepsReceipt
     DEF Next, Outside, vars, doc, Keeps

\* Where a round has found the recorded route.
Found == Searching \cup {"repair", "apply", "running"}

\* Who comes to such a point has found it, and nobody there touches the route.
LEMMA RouteIsHeld ==
    ASSUME TInv, Round \/ Search \/ Application, pc' \in Found
    PROVE  /\ pc \in Found \/ (pc = "service" /\ RouteIsRecorded)
           /\ applied' = applied /\ ~RecordRoute
<1>1. Ends \cap Found = {} /\ "idle" \notin Found /\ "service" \notin Found
      /\ "record" \notin Found
  BY DEF Ends, Found, Searching
<1>2. CASE Round
  BY <1>1, <1>2 DEF Round, BeginRound, ManualChange, NoCurrentNode, RateLimited, Interrupted,
     CheckCurrent, Repair, EndRound, Finish, Ends, Found, RouteIsRecorded, world, RecordRoute
<1>3. CASE Search
  BY <1>1, <1>3 DEF Search, PrepareSearch, EndSearch, Inconclusive, Intend, SkipCandidate,
     CheckCandidate, MayCheck, Found, Searching, world, RecordRoute
<1>4. CASE Application
  BY <1>1, <1>4 DEF Application, ApplyRefused, ApplyNotStarted, StartTransaction,
     CommitTransaction, RollBackCandidate, FailTransaction, RecordRoute, ResumeSearch,
     ResumeRefused, Finish, Ends, Found, Searching, world
<1> QED
  BY <1>2, <1>3, <1>4

\* The recorded route is inductive beside the types.
LEMMA RouteStep == TInv /\ RouteInv /\ [Next]_vars => RouteInv'
<1> SUFFICES ASSUME TInv, RouteInv, [Next]_vars PROVE RouteInv'
  OBVIOUS
<1>1. Saved'
  BY SavedStep DEF Saved, RouteInv
<1>2. pc' \in Found => (mem.expected = applied => (mem.expected = applied)')
  <2>1. CASE Round \/ Search \/ Application
    BY <2>1, RoundKeepsReceipt, RouteIsHeld DEF Keeps, Stored, doc
  <2>2. CASE Outside
    <3>1. pc' \in Found => ~Restart /\ ~Enroll /\ ~SavePolicy
                           /\ \A n \in Nodes \cup {None} : ~ManualApply(n)
      BY DEF Restart, Enroll, SavePolicy, ManualApply, Found, Searching
    <3> QED
      BY <2>2, <3>1 DEF Outside, Tick, NetworkChanges, doc
  <2> QED
    BY <2>1, <2>2 DEF Next, vars
<1>3. pc' \in Found => mem.expected = applied
  <2>1. CASE Round \/ Search \/ Application
    BY <2>1, RouteIsHeld DEF RouteInv, RouteIsRecorded, Found
  <2>2. CASE Outside \/ UNCHANGED vars
    <3>1. pc' = pc \/ pc' = "idle"
      BY <2>2 DEF Outside, Restart, Enroll, SavePolicy, Tick, ManualApply, NetworkChanges, vars
    <3> QED
      BY <3>1 DEF RouteInv, RouteIsRecorded, Found, Searching
  <2> QED
    BY <2>1, <2>2 DEF Next
<1> QED
  BY <1>1, <1>2, <1>3 DEF Saved, RouteInv, RouteIsRecorded, Found

\* It holds at first.
LEMMA RouteInit == Init => RouteInv
BY DEF Init, RouteInv, Searching

\* TInv and RouteInv hold in every reachable state.
LEMMA RouteInvariant == Spec => [](TInv /\ RouteInv)
<1>1. Init => TInv /\ RouteInv
  BY TypesInit, RouteInit
<1>2. (TInv /\ RouteInv) /\ [Next]_vars => (TInv /\ RouteInv)'
  BY TypesStep, RouteStep
<1> QED
  BY <1>1, <1>2, PTL DEF Spec

\* While the committed route is not the recorded one, nothing is applied.
THEOREM UnrecordedRouteStays == Spec => []UnrecordedRouteIsKept
<1>1. TInv /\ RouteInv => UnrecordedRouteIsKept
  BY DEF TInv, RouteInv, UnrecordedRouteIsKept, RouteIsRecorded
<1> QED
  BY <1>1, RouteInvariant, PTL

-----------------------------------------------------------------------------
(* The confirmed failure.                                                   *)

\* An entry counts what another one counts, or nothing.
CountsAs(e, d) == SameQuorum(e, d) \/ e.fails = 0

\* What was counted of the run stays counted while the run goes on.
LEMMA CountedStays ==
    ASSUME NEW d, NEW e, QuorumOK(d), CountsAs(e, d), EntryOK(e)
    PROVE  QuorumOK(e)
BY DEF QuorumOK, CountsAs, SameQuorum, EntryOK

\* A saved entry is the one of the round from then on.
LEMMA PersistCounts ==
    ASSUME NEW e, NEW d, NEW q, blocked \in BOOLEAN, PersistThen(e, q), CountsAs(e, d)
    PROVE  CountsAs(r', d)
BY PersistStores DEF CountsAs

\* Between its look at the current node and its end a round keeps its counts.
LEMMA RoundKeepsCounts ==
    ASSUME TInv, Round \/ Search \/ Application, ~BeginRound, ~EndRound, ~RateLimited,
           \A verdict \in {"PASS", "FAIL", "INCONCLUSIVE"} : ~CheckCurrent(verdict)
    PROVE  /\ pc # "idle" /\ pc' # "idle" /\ run' = run /\ now' = now
           /\ CountsAs(r', r)
<1>0. EntryOK(r) /\ now + 1 \in Nat /\ r.search \in Searches \cup {None} /\ blocked \in BOOLEAN
      /\ now \in Times
  <2>1. now + 1 \in Nat
    BY BoundAssumption DEF TInv, Times
  <2> QED
    BY <2>1 DEF TInv, EntryOK
<1>1. /\ CountsAs(r, r) /\ CountsAs(StillCooling(r), r) /\ CountsAs(Reserved(r), r)
      /\ CountsAs(Refunded(r), r) /\ CountsAs([r EXCEPT !.switches = Recent(@)], r)
  BY <1>0, StillCoolingOK, BudgetOK DEF CountsAs, SameQuorum
<1>2. CountsAs([NoFailures(r) EXCEPT !.next = now + 1], r)
  BY <1>0, NoFailuresOK, NextCheckOK DEF CountsAs, SameQuorum
<1>3. \A s \in Searches \cup {None} : CountsAs([r EXCEPT !.search = s], r)
  BY <1>0, SearchOK DEF CountsAs
<1>4. CASE Round
  <2>1. CASE ManualChange \/ NoCurrentNode \/ Interrupted
    BY <1>1, <2>1 DEF ManualChange, NoCurrentNode, Interrupted, Finish, Inside, Ends, world
  <2>2. CASE Repair
    BY <1>1, <2>2 DEF Repair, Finish, world
  <2> QED
    BY <1>4, <2>1, <2>2 DEF Round
<1>5. CASE Search
  <2>1. CASE EndSearch \/ Inconclusive
    BY <1>1, <1>2, <2>1 DEF EndSearch, Inconclusive, MayCheck, Finish, world
  <2>2. CASE PrepareSearch
    <3>1. pc = "prepare" /\ run' = run /\ now' = now /\ round.profile \in Networks
      BY <2>2 DEF PrepareSearch, world, TInv
    <3>2. CASE Finish(r, "review")
      BY <1>1, <3>1, <3>2 DEF Finish
    <3>3. ASSUME NEW ids \in SUBSET Nodes,
                 PersistThen([r EXCEPT !.search = Prepared(@, Version(round.profile), ids)],
                             "search")
          PROVE  CountsAs(r', r) /\ pc' # "idle"
      <4> DEFINE s == Prepared(r.search, Version(round.profile), ids)
      <4>1. Version(round.profile) \in
               [revision : Nat, expected : Nodes \cup {None}, net : Networks]
        BY <3>1 DEF Version, TInv, DocOK
      <4>2. s \in Searches
        BY <1>0, <4>1, PreparedOK
      <4>3. PersistThen([r EXCEPT !.search = s], "search")
        BY <3>3
      <4> HIDE DEF s
      <4> QED
        BY <1>0, <1>3, <4>2, <4>3, PersistStores
    <3>4. Finish(r, "review") \/ \E ids \in SUBSET Nodes :
             PersistThen([r EXCEPT !.search = Prepared(@, Version(round.profile), ids)], "search")
      BY <2>2 DEF PrepareSearch
    <3> QED
      BY <3>1, <3>2, <3>3, <3>4
  <2>3. CASE Intend
    <3>1. pc = "intent" /\ run' = run /\ now' = now /\ r.search \in Searches
      BY <2>3, <1>0 DEF Intend, world, TInv, Searching
    <3>2. CountsAs([Reserved(r) EXCEPT !.search.halted = TRUE], r)
      <4> DEFINE b == Reserved(r)
                 s == [b.search EXCEPT !.halted = TRUE]
      <4>1. EntryOK(b) /\ SameQuorum(b, r) /\ b.search = r.search
        BY <1>0, BudgetOK DEF SameSearch
      <4>2. [b EXCEPT !.search.halted = TRUE] = [b EXCEPT !.search = s]
        <5> HIDE DEF b
        <5> QED
          OBVIOUS
      <4>3. s \in Searches
        BY <3>1, <4>1, LatchOK
      <4> HIDE DEF b, s
      <4>4. SameQuorum([b EXCEPT !.search = s], b)
        BY <4>1, <4>3, SearchOK
      <4> QED
        BY <4>1, <4>2, <4>4 DEF b, CountsAs, SameQuorum
    <3>3. \/ Finish(r, "limited")
          \/ Finish([r EXCEPT !.switches = Recent(@)], "limited")
          \/ PersistThen([Reserved(r) EXCEPT !.search.halted = TRUE], "apply")
      BY <2>3 DEF Intend
    <3>4. CASE PersistThen([Reserved(r) EXCEPT !.search.halted = TRUE], "apply")
      BY <1>0, <3>1, <3>2, <3>4, PersistStores
    <3> QED
      BY <1>1, <3>1, <3>3, <3>4 DEF Finish
  <2>4. ASSUME NEW n \in Nodes, SkipCandidate(n) \/ CheckCandidate(n, TRUE)
                                  \/ CheckCandidate(n, FALSE)
        PROVE  pc # "idle" /\ pc' # "idle" /\ run' = run /\ now' = now /\ CountsAs(r', r)
    <3>1. pc = "search" /\ run' = run /\ now' = now /\ r.search \in Searches
      BY <1>0, <2>4 DEF SkipCandidate, CheckCandidate, MayCheck, world, TInv, Searching
    <3>2. PICK q \in {"search", "intent"} :
             PersistThen([r EXCEPT !.search = Consumed(@, n)], q)
      BY <2>4 DEF SkipCandidate, CheckCandidate
    <3>3. CountsAs([r EXCEPT !.search = Consumed(@, n)], r)
      BY <1>0, <1>3, <3>1, ConsumedOK
    <3> QED
      BY <1>0, <3>1, <3>2, <3>3, PersistStores
  <2> QED
    BY <1>5, <2>1, <2>2, <2>3, <2>4 DEF Search
<1>6. CASE Application
  <2>1. CASE ApplyRefused \/ ApplyNotStarted \/ StartTransaction \/ CommitTransaction
               \/ FailTransaction \/ ResumeRefused
               \/ \E end \in {"rejected", "path"} : RollBackCandidate(end)
    BY <1>1, <2>1 DEF ApplyRefused, ApplyNotStarted, StartTransaction, CommitTransaction,
       FailTransaction, ResumeRefused, RollBackCandidate, Finish, world
  <2>2. CASE RecordRoute
    <3> DEFINE b == NoFailures(r)
               s == [b.search EXCEPT !.halted = FALSE]
    <3>1. pc = "record" /\ pc' # "idle" /\ run' = run /\ now' = now
      BY <2>2 DEF RecordRoute, Finish, world
    <3>2. EntryOK(b) /\ b.fails = 0 /\ b.search = r.search
      BY <1>0, NoFailuresOK DEF SameSearch
    <3>3. round.kind # "repair" => CountsAs([b EXCEPT !.search.halted = FALSE], r)
      <4>1. [b EXCEPT !.search.halted = FALSE] = [b EXCEPT !.search = s]
        <5> HIDE DEF b
        <5> QED
          OBVIOUS
      <4>2. round.kind # "repair" => s \in Searches
        BY <1>0, <3>1, <3>2, LatchOK DEF TInv, Applying
      <4> HIDE DEF b, s
      <4> QED
        BY <3>2, <4>1, <4>2, SearchOK DEF CountsAs, SameQuorum
    <3>4. \/ r' = r
          \/ round.kind # "repair" /\ r' = [b EXCEPT !.search.halted = FALSE]
      BY <2>2 DEF RecordRoute, Finish
    <3> QED
      BY <1>1, <3>1, <3>3, <3>4
  <2>3. CASE ResumeSearch
    <3> DEFINE c == IF pc = "rejected"
                    THEN Rejected(r, round.node, round.profile, round.at) ELSE r
               s == [c.search EXCEPT !.halted = FALSE]
    <3>1. /\ pc \in {"rejected", "path"} /\ run' = run /\ now' = now
          /\ round.node \in Nodes /\ round.profile \in Networks /\ round.at \in Times
          /\ r.search \in Searches
      BY <2>3, <1>0 DEF ResumeSearch, TInv, Searching, world
    <3>2. EntryOK(c) /\ c.search = r.search /\ SameQuorum(c, r)
      BY <1>0, <3>1, RejectedOK DEF SameQuorum
    <3>3. [c EXCEPT !.search.halted = FALSE] = [c EXCEPT !.search = s]
      <4> HIDE DEF c
      <4> QED
        OBVIOUS
    <3>4. PersistThen([c EXCEPT !.search.halted = FALSE], "search")
      BY <2>3 DEF ResumeSearch
    <3>5. s \in Searches
      BY <3>1, <3>2, LatchOK
    <3> HIDE DEF c, s
    <3>6. CountsAs([c EXCEPT !.search = s], r)
      BY <3>2, <3>5, SearchOK DEF CountsAs, SameQuorum
    <3> QED
      BY <1>0, <3>1, <3>3, <3>4, <3>6, PersistStores
  <2> QED
    BY <1>6, <2>1, <2>2, <2>3 DEF Application
<1> QED
  BY <1>4, <1>5, <1>6

\* The look at the current node continues the run, and counts what it continues.
LEMMA CheckCounts ==
    ASSUME TInv, QuorumInv, NEW verdict, CheckCurrent(verdict)
    PROVE  /\ QuorumOK(r)'
           /\ run' # None => run'.first <= run'.last /\ run'.last <= now
           /\ pc' = "prepare" =>
                 /\ run' # None /\ run'.node = applied /\ run'.net = round.profile
                 /\ run'.last - run'.first >= Gap
<1> DEFINE c == StillCooling(r)
           d == About(c, applied, round.profile)
           seen == Observed(c, applied, round.profile, verdict)
<1>1. /\ pc = "service" /\ applied \in Nodes /\ round.profile \in Networks /\ EntryOK(r)
      /\ run' = RunAfter(verdict) /\ run \in Failures \cup {None} /\ now \in Times
      /\ QuorumOK(r) /\ (run # None => run.first <= run.last /\ run.last <= now)
  BY DEF CheckCurrent, TInv, QuorumInv
<1>2. EntryOK(c) /\ SameQuorum(c, r)
  BY <1>1, StillCoolingOK
<1>3. /\ EntryOK(d) /\ d.failNode = applied /\ d.net = round.profile
      /\ d.fails = 0 \/ (SameQuorum(d, r) /\ r.failNode = applied /\ r.net = round.profile)
  <2> HIDE DEF c
  <2> QED
    BY <1>1, <1>2, AboutOK DEF SameQuorum
<1>4. QuorumOK(d)
  BY <1>1, <1>3, CountedStays DEF CountsAs
<1>5. EntryOK(seen)
  BY <1>1, <1>2, ObservedOK
<1>6. seen = IF verdict # "FAIL" THEN NoFailures(d)
             ELSE IF d.fails = 0 THEN Counted(d, 1, now)
             ELSE IF now >= d.last + Gap THEN Counted(d, 2, now)
             ELSE d
  BY ObservedIs
<1>7. r' = seen \/ \E t \in Nat : r' = [seen EXCEPT !.next = t]
  <2>1. now + Gap \in Nat
    BY <1>1, TimeAssumption, BoundAssumption DEF Times
  <2>2. seen.next \in Nat
    BY <1>5 DEF EntryOK
  <2> DEFINE t == IF verdict = "FAIL" THEN now + Gap ELSE seen.next
  <2>3. t \in Nat
    BY <2>1, <2>2
  <2>4. r' \in {seen, [seen EXCEPT !.next = t]}
    BY DEF CheckCurrent, Finish
  <2> HIDE DEF t, seen
  <2> QED
    BY <2>3, <2>4
<1>8. /\ pc' = "prepare" => verdict = "FAIL" /\ seen.fails >= 2
  BY DEF CheckCurrent, Finish, Replaces
<1> HIDE DEF c, d, seen
<1>9. EntryOK(r') /\ SameQuorum(r', seen)
  BY <1>5, <1>7, NextCheckOK DEF SameQuorum
<1>10. CASE verdict # "FAIL"
  <2>1. run' = None /\ seen.fails = 0
    BY <1>1, <1>3, <1>6, <1>10, NoFailuresOK DEF RunAfter
  <2> QED
    BY <1>8, <1>9, <1>10, <2>1 DEF QuorumOK, SameQuorum
<1>11. CASE verdict = "FAIL"
  <2> DEFINE goes == run # None /\ run.node = applied /\ run.net = round.profile
  <2>1. /\ run' # None /\ run' \in Failures /\ run'.node = applied /\ run'.net = round.profile
        /\ run'.last = now /\ run'.first <= now
        /\ goes => run'.first = run.first
    <3>1. CASE goes
      <4>1. run' = [run EXCEPT !.last = now]
        BY <1>1, <1>11, <3>1 DEF RunAfter
      <4> QED
        BY <1>1, <3>1, <4>1, AbsenceAssumption DEF Failures, Times
    <3>2. CASE ~goes
      <4>1. run' = [node |-> applied, net |-> round.profile, first |-> now, last |-> now]
        BY <1>1, <1>11, <3>2 DEF RunAfter
      <4> QED
        BY <1>1, <3>2, <4>1, AbsenceAssumption, BoundAssumption DEF Failures, Times
    <3> QED
      BY <3>1, <3>2
  <2>2. d.fails >= 1 => goes /\ run.first <= d.last
    BY <1>3, <1>4 DEF QuorumOK
  <2>3. /\ Counted(d, 1, now).fails = 1 /\ Counted(d, 1, now).last = now
        /\ Counted(d, 1, now).failNode = applied /\ Counted(d, 1, now).net = round.profile
        /\ Counted(d, 2, now).fails = 2 /\ Counted(d, 2, now).last = now
        /\ Counted(d, 2, now).failNode = applied /\ Counted(d, 2, now).net = round.profile
    BY <1>1, <1>3, CountedOK
  <2>4. d.fails \in 0..2 /\ d.last \in Int /\ now \in Int /\ Gap \in Int
        /\ (run # None => run.first \in Int /\ run.last \in Int)
        /\ run'.first \in Int /\ run'.last \in Int
    BY <1>1, <1>3, <2>1, TimeAssumption, BoundAssumption DEF EntryOK, Failures, Times
  <2> HIDE DEF goes
  <2>5. goes => run # None /\ run.last <= now
    BY <1>1 DEF goes
  <2>6. CASE d.fails = 0
    <3>1. seen.fails = 1 /\ seen.last = now /\ seen.failNode = applied /\ seen.net = round.profile
      BY <1>6, <1>11, <2>3, <2>6
    <3> QED
      BY <1>8, <1>9, <2>1, <2>4, <3>1 DEF QuorumOK, SameQuorum
  <2>7. CASE d.fails # 0 /\ now >= d.last + Gap
    <3>1. seen.fails = 2 /\ seen.last = now /\ seen.failNode = applied /\ seen.net = round.profile
      BY <1>6, <1>11, <2>3, <2>7
    <3>2. run'.last - run'.first >= Gap
      BY <2>1, <2>2, <2>4, <2>7
    <3> QED
      BY <1>8, <1>9, <2>1, <2>4, <3>1, <3>2 DEF QuorumOK, SameQuorum
  <2>8. CASE d.fails # 0 /\ ~(now >= d.last + Gap)
    <3>1. seen = d
      BY <1>6, <1>11, <2>8
    <3>2. d.fails >= 2 => run'.last - run'.first >= Gap
      BY <1>4, <2>1, <2>2, <2>4, <2>5 DEF QuorumOK
    <3>3. run'.first <= d.last
      BY <2>1, <2>2, <2>4, <2>8
    <3> QED
      BY <1>3, <1>8, <1>9, <2>1, <2>4, <3>1, <3>2, <3>3 DEF QuorumOK, SameQuorum
  <2> QED
    BY <2>6, <2>7, <2>8
<1> QED
  BY <1>10, <1>11

\* Where a round looks for a node or applies it, nothing it rests on changes.
LEMMA SearchKeepsGround ==
    ASSUME TInv, Round \/ Search \/ Application, ~BeginRound, ~EndRound, ~RateLimited,
           ~NoCurrentNode, \A verdict \in {"PASS", "FAIL", "INCONCLUSIVE"} : ~CheckCurrent(verdict),
           pc' \in Searching \cup {"apply", "running"}, round'.kind = "search"
    PROVE  /\ pc \in Searching \cup {"apply", "running"} /\ round.kind = "search"
           /\ applied' = applied /\ round'.expired = round.expired
           /\ round'.profile = round.profile
<1>0. round \in [profile : Networks \cup {None}, checks : Nat, node : Nodes \cup {None},
                 kind : {"search", "repair"}, expired : BOOLEAN, at : Times]
  BY DEF TInv
<1>1. Ends \cap (Searching \cup {"apply", "running"}) = {}
  BY DEF Ends, Searching
<1>2. CASE Round
  <2>1. CASE Repair
    <3>1. CASE HasBudget(r)
      <4>1. round' = [round EXCEPT !.node = applied, !.kind = "repair", !.at = now]
        BY <2>1, <3>1 DEF Repair
      <4>2. round'.kind = "repair"
        <5> DEFINE a == [round EXCEPT !.node = applied]
                   b == [a EXCEPT !.kind = "repair"]
        <5>1. b.kind = "repair" /\ DOMAIN b = {"profile", "checks", "node", "kind", "expired", "at"}
          BY <1>0
        <5>2. round' = [b EXCEPT !.at = now]
          BY <4>1
        <5> HIDE DEF b
        <5> QED
          BY <5>1, <5>2
      <4> QED
        BY <4>2
    <3>2. CASE ~HasBudget(r)
      BY <1>1, <2>1, <3>2 DEF Repair, Finish, Ends
    <3> QED
      BY <3>1, <3>2
  <2> QED
    BY <1>1, <1>2, <2>1 DEF Round, ManualChange, Interrupted, Finish, Ends
<1>3. CASE Search
  <2>1. CASE Intend
    BY <1>0, <2>1 DEF Intend, TInv, Searching, world
  <2>2. CASE \E n \in Nodes : CheckCandidate(n, TRUE) \/ CheckCandidate(n, FALSE)
    <3>1. PICK n \in Nodes : round' = [round EXCEPT !.checks = @ + 1, !.node = n]
      BY <2>2 DEF CheckCandidate
    <3> DEFINE c == [round EXCEPT !.checks = @ + 1]
    <3>2. c.profile = round.profile /\ c.expired = round.expired /\ c.kind = round.kind
          /\ DOMAIN c = {"profile", "checks", "node", "kind", "expired", "at"}
      BY <1>0
    <3>3. round' = [c EXCEPT !.node = n]
      BY <3>1
    <3> HIDE DEF c
    <3>4. round'.profile = round.profile /\ round'.expired = round.expired
      BY <3>2, <3>3
    <3>5. pc = "search" /\ applied' = applied
      BY <2>2 DEF CheckCandidate, MayCheck, world
    <3> QED
      BY <3>4, <3>5 DEF TInv, Searching
  <2>3. CASE PrepareSearch \/ EndSearch \/ Inconclusive \/ \E n \in Nodes : SkipCandidate(n)
    BY <2>3 DEF PrepareSearch, EndSearch, Inconclusive, SkipCandidate, MayCheck, TInv, Searching,
       world
  <2> QED
    BY <1>3, <2>1, <2>2, <2>3 DEF Search
<1>4. CASE Application
  BY <1>0, <1>1, <1>4 DEF Application, ApplyRefused, ApplyNotStarted, StartTransaction,
     CommitTransaction, RollBackCandidate, FailTransaction, RecordRoute, ResumeSearch,
     ResumeRefused, Finish, Ends, Searching, world, TInv
<1> QED
  BY <1>2, <1>3, <1>4

\* The failures a round begins with are those it counts.
LEMMA BeginCounts ==
    ASSUME TInv, BeginRound
    PROVE  CountsAs(r', mem.entry) /\ EntryOK(r')
<1>1. now + Interval \in Nat /\ EntryOK(mem.entry)
  BY TimeAssumption, BoundAssumption DEF TInv, DocOK, Times
<1> QED
  BY <1>1, NextCheckOK DEF BeginRound, CountsAs

\* The failures a round ends with are published.
LEMMA EndCounts ==
    ASSUME TInv, EndRound
    PROVE  CountsAs(mem'.entry, r) /\ EntryOK(mem'.entry)
<1> DEFINE t == IF r.next <= now THEN now + Interval ELSE r.next
<1>1. t \in Nat
  BY TimeAssumption, BoundAssumption DEF TInv, EntryOK, Times
<1>2. Publish([r EXCEPT !.next = t])
  BY DEF EndRound
<1> HIDE DEF t
<1>3. mem' = WithEntry([r EXCEPT !.next = t])
  BY <1>2, PublishStores DEF Stored, TInv
<1> QED
  BY <1>1, <1>3, NextCheckOK, WithEntryOK DEF CountsAs, TInv

\* Every step keeps the counts and what they are worth.
LEMMA QuorumStep == TInv /\ QuorumInv /\ [Next]_vars => QuorumInv'
<1> SUFFICES ASSUME TInv, QuorumInv, [Next]_vars PROVE QuorumInv'
  OBVIOUS
<1>0. /\ EntryOK(r) /\ EntryOK(mem.entry) /\ now \in Times /\ run \in Failures \cup {None}
      /\ EntryOK(r') /\ EntryOK(mem'.entry)
  BY TypesStep DEF TInv, DocOK
<1>1. ASSUME NEW verdict \in {"PASS", "FAIL", "INCONCLUSIVE"}, CheckCurrent(verdict)
      PROVE  QuorumInv'
  <2>1. /\ pc = "service" /\ pc' \in {"healthy", "repair", "prepare", "unconfirmed"}
        /\ now' = now /\ applied' = applied /\ round' = round
    BY <1>1 DEF CheckCurrent, Finish, world
  <2>2. CheckCurrent(verdict)
    BY <1>1
  <2>3. /\ QuorumOK(r)'
        /\ run' # None => run'.first <= run'.last /\ run'.last <= now
        /\ pc' = "prepare" =>
              /\ run' # None /\ run'.node = applied /\ run'.net = round.profile
              /\ run'.last - run'.first >= Gap
    BY <2>2, CheckCounts
  <2> QED
    BY <2>1, <2>3 DEF QuorumInv, ConfirmedAt, Searching
<1>2. CASE BeginRound
  <2>1. pc = "idle" /\ pc' = "service" /\ run' = run /\ now' = now
    BY <1>2 DEF BeginRound, world
  <2>2. QuorumOK(r')
    BY <1>2, <2>1, BeginCounts, CountedStays DEF QuorumInv
  <2> QED
    BY <2>1, <2>2 DEF QuorumInv, QuorumOK, ConfirmedAt, Searching
<1>3. CASE EndRound
  <2>1. pc # "idle" /\ pc' = "idle" /\ run' = run /\ now' = now
    BY <1>3 DEF EndRound, world, Ends
  <2>2. QuorumOK(mem'.entry)
    BY <1>3, <2>1, EndCounts, CountedStays DEF QuorumInv
  <2> QED
    BY <2>1, <2>2 DEF QuorumInv, QuorumOK, ConfirmedAt, Searching
<1>4. CASE RateLimited
  <2>1. pc' = "unconfirmed" /\ run' = None /\ r' = [NoFailures(StillCooling(r)) EXCEPT !.next = now + 1]
    BY <1>4 DEF RateLimited, Finish
  <2>2. EntryOK(NoFailures(StillCooling(r))) /\ NoFailures(StillCooling(r)).fails = 0
    BY <1>0, StillCoolingOK, NoFailuresOK
  <2>3. now + 1 \in Nat
    BY <1>0, BoundAssumption DEF Times
  <2>4. r'.fails = 0
    BY <2>1, <2>2, <2>3, NextCheckOK DEF SameQuorum
  <2> QED
    BY <2>1, <2>4 DEF QuorumInv, QuorumOK, ConfirmedAt, Searching
<1>5. ASSUME Round \/ Search \/ Application, ~BeginRound, ~EndRound, ~RateLimited,
             \A verdict \in {"PASS", "FAIL", "INCONCLUSIVE"} : ~CheckCurrent(verdict)
      PROVE  QuorumInv'
  <2>1. /\ pc # "idle" /\ pc' # "idle" /\ run' = run /\ now' = now /\ CountsAs(r', r)
    BY <1>5, RoundKeepsCounts
  <2>2. QuorumOK(r')
    BY <1>0, <2>1, CountedStays DEF QuorumInv
  <2>3. QuorumOK(r)'
    BY <2>1, <2>2 DEF QuorumOK
  <2>4. ConfirmedAt'
    <3>1. CASE NoCurrentNode
      <4>1. applied' = applied /\ (applied # None => round' = [round EXCEPT !.expired = TRUE])
        BY <3>1 DEF NoCurrentNode, world
      <4>2. applied # None => round'.expired
        BY <4>1 DEF TInv
      <4> QED
        BY <4>1, <4>2 DEF ConfirmedAt
    <3>2. CASE ~NoCurrentNode
      <4>1. pc' \in Searching \cup {"apply", "running"} /\ round'.kind = "search" =>
              /\ pc \in Searching \cup {"apply", "running"} /\ round.kind = "search"
              /\ applied' = applied /\ round'.expired = round.expired
              /\ round'.profile = round.profile
        BY <1>5, <3>2, SearchKeepsGround
      <4> QED
        BY <2>1, <4>1 DEF QuorumInv, ConfirmedAt
    <3> QED
      BY <3>1, <3>2
  <2> QED
    BY <2>1, <2>3, <2>4 DEF QuorumInv
<1>6. CASE Outside
  <2>1. CASE Restart
    <3>1. pc' = "idle" /\ run' = None /\ mem' = Loaded(file)
      BY <2>1 DEF Restart
    <3>2. mem'.entry.fails = 0
      BY <3>1, LoadedOK DEF TInv
    <3> QED
      BY <3>1, <3>2 DEF QuorumInv, QuorumOK, ConfirmedAt, Searching
  <2>2. CASE Enroll
    <3>1. pc' = "idle" /\ run' = None /\ mem' = Enrolled
      BY <2>2 DEF Enroll, Written, NotWritten, Enrolled
    <3>2. mem'.entry.fails = 0
      BY <3>1, EnrolledOK, FreshOK
    <3> QED
      BY <3>1, <3>2 DEF QuorumInv, QuorumOK, ConfirmedAt, Searching
  <2>3. CASE SavePolicy
    <3>1. pc = "idle" /\ pc' = "idle" /\ run' = run /\ now' = now
      BY <2>3 DEF SavePolicy, world
    <3>2. mem'.entry = mem.entry
      BY <2>3, RevisionOK DEF SavePolicy, Written
    <3> QED
      BY <3>1, <3>2 DEF QuorumInv, QuorumOK, ConfirmedAt, Searching
  <2>4. CASE Tick
    <3>1. /\ now' = now + 1 /\ now \in Nat
          /\ UNCHANGED <<mem, pc, r, round, applied, run>>
      BY <1>0, <2>4, BoundAssumption DEF Tick, doc, Times
    <3>2. run # None => run'.first <= run'.last /\ run'.last <= now' 
      <4>1. run # None => run.last \in Int
        BY <1>0 DEF Failures, Times
      <4> QED
        BY <3>1, <4>1 DEF QuorumInv
    <3> QED
      BY <3>1, <3>2 DEF QuorumInv, QuorumOK, ConfirmedAt
  <2>5. ASSUME NEW n \in Nodes \cup {None}, ManualApply(n)
        PROVE  QuorumInv'
    BY <2>5 DEF ManualApply, QuorumInv, QuorumOK, ConfirmedAt, doc, Searching
  <2>6. ASSUME NEW w \in Networks, NetworkChanges(w)
        PROVE  QuorumInv'
    BY <2>6 DEF NetworkChanges, QuorumInv, QuorumOK, ConfirmedAt, doc
  <2> QED
    BY <1>6, <2>1, <2>2, <2>3, <2>4, <2>5, <2>6 DEF Outside
<1>7. CASE UNCHANGED vars
  BY <1>7 DEF vars, QuorumInv, QuorumOK, ConfirmedAt
<1> QED
  BY <1>1, <1>2, <1>3, <1>4, <1>5, <1>6, <1>7 DEF Next

\* Nothing is counted at first.
LEMMA QuorumInit == Init => QuorumInv
BY FreshOK DEF Init, QuorumInv, QuorumOK, ConfirmedAt, Searching

\* A node that carries the service is replaced only after a confirmed failure.
THEOREM FailuresAreConfirmed == Spec => []FailureIsConfirmed
<1>1. Init => TInv /\ QuorumInv
  BY TypesInit, QuorumInit
<1>2. (TInv /\ QuorumInv) /\ [Next]_vars => (TInv /\ QuorumInv)'
  BY TypesStep, QuorumStep
<1>3. QuorumInv => FailureIsConfirmed
  BY DEF QuorumInv, ConfirmedAt, FailureIsConfirmed
<1> QED
  BY <1>1, <1>2, <1>3, PTL DEF Spec

-----------------------------------------------------------------------------
(* What the next search must not forget.                                    *)

\* The past of the log.
LEMMA TransactionsOK ==
    ASSUME NEW l \in Seq(Transactions), NEW i \in DOMAIN l
    PROVE  /\ l[i] \in Transactions /\ l[i].epoch \in Int /\ l[i].done \in Int
           /\ i \in Nat /\ i >= 1 /\ i <= Len(l) /\ Len(l) \in Nat
<1>1. l[i] \in Transactions /\ i \in Nat /\ i >= 1 /\ i <= Len(l) /\ Len(l) \in Nat
  OBVIOUS
<1> QED
  BY <1>1, BoundAssumption DEF Transactions, Times

\* Time closes what is open, and opens nothing.
LEMMA OpenInTime ==
    ASSUME NEW l \in Seq(Transactions), NEW rej, NEW net, NEW ep,
           NEW t \in Int, NEW u \in Int, t <= u
    PROVE  Open(l, rej, net, u, ep) \subseteq Open(l, rej, net, t, ep)
<1> SUFFICES ASSUME NEW i \in DOMAIN l, ~(u >= l[i].done + Cooldown)
             PROVE  ~(t >= l[i].done + Cooldown)
  BY DEF Open, Cooled
<1>1. l[i].done \in Int /\ Cooldown \in Int
  BY TransactionsOK, TimeAssumption
<1> QED
  BY <1>1

\* So does a change of the network.
LEMMA OpenElsewhere ==
    ASSUME NEW l \in Seq(Transactions), NEW rej, NEW net, NEW net2, NEW t, NEW ep \in Int,
           \A i \in DOMAIN l : l[i].epoch <= ep
    PROVE  Open(l, rej, net2, t, ep + 1) \subseteq Open(l, rej, net, t, ep)
<1> SUFFICES ASSUME NEW i \in DOMAIN l
             PROVE  l[i].epoch # ep + 1
  BY DEF Open, Cooled
<1>1. l[i].epoch \in Int /\ l[i].epoch <= ep
  BY TransactionsOK
<1> QED
  BY <1>1

\* A rejection that is dropped is no longer needed: it is old, or of a network
\* that was left.
LEMMA OpenPruned ==
    ASSUME NEW l \in Seq(Transactions), NEW rej, NEW net, NEW profile, NEW ep, now \in Int,
           rej \in SUBSET [node : Nodes, net : Networks, at : Times], Before(rej, now),
           \A i \in DOMAIN l : l[i].epoch = ep => profile = net
    PROVE  Open(l, Pruned(rej, profile), net, now, ep) \subseteq Open(l, rej, net, now, ep)
<1> SUFFICES ASSUME NEW i \in DOMAIN l, Cooled(l[i], rej, net, now, ep)
             PROVE  Cooled(l[i], Pruned(rej, profile), net, now, ep)
  BY DEF Open
<1>1. l[i].done \in Int /\ Cooldown \in Int
  BY TransactionsOK, TimeAssumption
<1>2. CASE l[i].epoch # ep \/ now >= l[i].done + Cooldown
  BY <1>2 DEF Cooled
<1>3. CASE l[i].epoch = ep /\ ~(now >= l[i].done + Cooldown)
  <2>1. PICK f \in rej : f.node = l[i].node /\ f.net = net /\ f.at >= l[i].done
    BY <1>3 DEF Cooled
  <2>2. f.at \in Int /\ f.at <= now
    BY <2>1, BoundAssumption DEF Before, Times
  <2>3. now < f.at + Cooldown
    BY <1>1, <1>3, <2>1, <2>2
  <2>4. f \in Pruned(rej, profile)
    BY <1>3, <2>1, <2>2, <2>3 DEF Pruned
  <2> QED
    BY <2>1, <2>4 DEF Cooled
<1> QED
  BY <1>2, <1>3

\* The rejection that ends the transaction closes what it is about.
LEMMA OpenRejected ==
    ASSUME NEW l \in Seq(Transactions), NEW rej, NEW net, NEW ep, NEW node \in Nodes,
           NEW at \in Int, now \in Int, at <= now, l # <<>>,
           rej \in SUBSET [node : Nodes, net : Networks, at : Times], Before(rej, now),
           \A i \in DOMAIN l : l[i].done <= at,
           l[Len(l)].node = node, l[Len(l)].end = "rejected",
           Open(l, rej, net, now, ep) \subseteq {Len(l)}
    PROVE  Open(l, Pruned({f \in rej : f.node # node} \cup
                             {[node |-> node, net |-> net, at |-> at]}, net),
                net, now, ep) = {}
<1> DEFINE new == [node |-> node, net |-> net, at |-> at]
           kept == Pruned({f \in rej : f.node # node} \cup {new}, net)
<1> SUFFICES ASSUME NEW i \in DOMAIN l
             PROVE  ~Doubtful(l[i]) /\ (Refused(l[i]) => Cooled(l[i], kept, net, now, ep))
  BY DEF Open
<1>1. l[i].done \in Int /\ Cooldown \in Int /\ l[i].done <= at
  BY TransactionsOK, TimeAssumption
<1>2. CASE i = Len(l)
  <2>1. CASE now < at + Cooldown
    <3>1. new \in kept
      BY <1>1, <2>1 DEF Pruned
    <3> QED
      BY <1>1, <1>2, <3>1 DEF Cooled, Doubtful
  <2>2. CASE ~(now < at + Cooldown)
    <3>1. now >= l[i].done + Cooldown
      BY <1>1, <2>2
    <3> QED
      BY <1>2, <3>1 DEF Cooled, Doubtful
  <2> QED
    BY <2>1, <2>2
<1>3. CASE i # Len(l)
  <2>1. i \notin Open(l, rej, net, now, ep)
    BY <1>3
  <2>2. ~Doubtful(l[i]) /\ (Refused(l[i]) => Cooled(l[i], rej, net, now, ep))
    BY <2>1 DEF Open
  <2>3. CASE l[i].epoch # ep \/ now >= l[i].done + Cooldown
    BY <2>2, <2>3 DEF Cooled
  <2>4. CASE Refused(l[i]) /\ l[i].epoch = ep /\ ~(now >= l[i].done + Cooldown)
    <3>1. PICK f \in rej : f.node = l[i].node /\ f.net = net /\ f.at >= l[i].done
      BY <2>2, <2>4 DEF Cooled
    <3>2. f.at \in Int /\ f.at <= now
      BY <3>1, BoundAssumption DEF Before, Times
    <3>3. CASE f.node # node
      <4>1. f \in kept
        BY <1>1, <2>4, <3>1, <3>2, <3>3 DEF Pruned
      <4> QED
        BY <2>2, <3>1, <4>1 DEF Cooled
    <3>4. CASE f.node = node
      <4>1. new \in kept
        BY <1>1, <2>4 DEF Pruned
      <4> QED
        BY <1>1, <2>2, <3>1, <3>4, <4>1 DEF Cooled
    <3> QED
      BY <3>3, <3>4
  <2> QED
    BY <2>2, <2>3, <2>4
<1> QED
  BY <1>2, <1>3

\* A transaction that runs, committed or failed on its way is not remembered.
LEMMA OpenAppended ==
    ASSUME NEW t \in Transactions, t.end = "running", log \in Seq(Transactions),
           now \in Times, NEW rej
    PROVE  Open(Append(log, t), rej, network, now, epoch)
             = Open(log, rej, network, now, epoch)
<1>1. /\ DOMAIN Append(log, t) = DOMAIN log \cup {Len(log) + 1} /\ Len(log) + 1 \notin DOMAIN log
      /\ Append(log, t)[Len(log) + 1] = t
      /\ \A i \in DOMAIN log : Append(log, t)[i] = log[i]
  BY LogOK
<1> QED
  BY <1>1 DEF Open, Doubtful, Refused

\* The end of a transaction opens at most that transaction.
LEMMA OpenEnded ==
    ASSUME log \in Seq(Transactions), log # <<>>, now \in Times, NEW rej,
           NEW end \in {"committed", "rejected", "path", "doubt"}
    PROVE  /\ Open(EndsAs(end), rej, network, now, epoch)
                \subseteq Open(log, rej, network, now, epoch) \cup {Len(log)}
           /\ log[Len(log)].kind = "repair" \/ end \in {"committed", "path"} =>
                Open(EndsAs(end), rej, network, now, epoch)
                   \subseteq Open(log, rej, network, now, epoch)
<1>1. /\ DOMAIN EndsAs(end) = DOMAIN log /\ Len(log) \in DOMAIN log
      /\ \A i \in DOMAIN log : i # Len(log) => EndsAs(end)[i] = log[i]
      /\ EndsAs(end)[Len(log)].kind = log[Len(log)].kind
      /\ EndsAs(end)[Len(log)].end = end
  BY LogOK
<1>2. \A i \in DOMAIN log : i # Len(log) =>
        (i \in Open(EndsAs(end), rej, network, now, epoch)
           => i \in Open(log, rej, network, now, epoch))
  BY <1>1 DEF Open
<1>3. log[Len(log)].kind = "repair" \/ end \in {"committed", "path"} =>
        Len(log) \notin Open(EndsAs(end), rej, network, now, epoch)
  BY <1>1 DEF Open, Doubtful, Refused
<1> QED
  BY <1>1, <1>2, <1>3 DEF Open

\* What the history and the world are in a step that does not touch them.
Frame == UNCHANGED <<log, applied, network, epoch, now>>

\* The effects of the steps of a round on what it must not forget.
LEMMA BeginEffect ==
    ASSUME TInv, BeginRound
    PROVE  /\ pc = "idle" /\ pc' = "service" /\ ~blocked /\ Frame
           /\ SameSearch(r', mem.entry) /\ Stored(WithEntry(r')) /\ WithEntry(r').entry = r'
           /\ round'.profile = network /\ round'.kind = "search"
<1>1. EntryOK(mem.entry) /\ now + Interval \in Nat
  BY TimeAssumption, BoundAssumption DEF TInv, DocOK, Times
<1>2. EntryOK(r') /\ SameSearch(r', mem.entry) /\ Publish(r')
  BY <1>1, NextCheckOK DEF BeginRound
<1>3. Stored(WithEntry(r')) /\ WithEntry(r').entry = r'
  BY <1>2, PublishStores, WithEntryOK DEF TInv
<1> QED
  BY <1>2, <1>3 DEF BeginRound, NoRound, Frame, world

\* The look at the current node, and the ends that write nothing.
Quiet ==
    \/ ManualChange \/ RateLimited \/ Interrupted \/ EndSearch \/ Inconclusive
    \/ ApplyRefused \/ ApplyNotStarted \/ ResumeRefused \/ NoCurrentNode
    \/ \E verdict \in {"PASS", "FAIL", "INCONCLUSIVE"} : CheckCurrent(verdict)
LEMMA QuietEffect ==
    ASSUME TInv, Quiet
    PROVE  /\ pc # "idle" /\ Frame /\ UNCHANGED doc
           /\ r'.search = r.search
           /\ r'.rejected \in {r.rejected, Pruned(r.rejected, round.profile)}
           /\ round'.profile = round.profile /\ round'.kind = round.kind
           /\ pc' \in Ends \/ (pc = "service" /\ pc' \in {"prepare", "repair"})
<1>1. EntryOK(r) /\ now \in Times /\ round.profile \in Networks \cup {None}
  BY DEF TInv
<1> DEFINE c == StillCooling(r)
<1>2. EntryOK(c) /\ c.search = r.search /\ c.rejected = Pruned(r.rejected, round.profile)
  BY <1>1, StillCoolingOK
<1>3. CASE \/ ManualChange \/ Interrupted \/ EndSearch \/ ApplyRefused \/ ResumeRefused
  BY <1>3 DEF ManualChange, Interrupted, EndSearch, ApplyRefused, ResumeRefused, Finish, Ends,
     Inside, Frame, world
<1>4. CASE NoCurrentNode
  <2>1. r' = c /\ pc = "service" /\ pc' = "prepare" /\ Frame /\ UNCHANGED doc
        /\ (round' = round \/ round' = [round EXCEPT !.expired = TRUE])
    BY <1>4 DEF NoCurrentNode, Frame, world
  <2>2. round'.profile = round.profile /\ round'.kind = round.kind
    BY <2>1 DEF TInv
  <2> HIDE DEF c
  <2> QED
    BY <1>2, <2>1, <2>2
<1>5. CASE RateLimited
  <2> DEFINE d == NoFailures(c)
  <2>1. r' = [d EXCEPT !.next = now + 1] /\ pc = "service" /\ pc' = "unconfirmed" /\ Frame
        /\ UNCHANGED doc /\ round' = round
    BY <1>5 DEF RateLimited, Finish, Frame, world
  <2> HIDE DEF c
  <2>2. EntryOK(d) /\ SameSearch(d, c)
    BY <1>2, NoFailuresOK
  <2> HIDE DEF d
  <2> QED
    BY <1>2, <2>1, <2>2 DEF EntryOK, SameSearch, Ends
<1>6. CASE Inconclusive
  <2> DEFINE d == NoFailures(r)
  <2>1. (r' = r \/ r' = [d EXCEPT !.next = now + 1]) /\ pc = "search" /\ pc' = "unconfirmed"
        /\ Frame /\ UNCHANGED doc /\ round' = round
    BY <1>6 DEF Inconclusive, MayCheck, Finish, Frame, world
  <2>2. EntryOK(d) /\ SameSearch(d, r)
    BY <1>1, NoFailuresOK
  <2> HIDE DEF d
  <2> QED
    BY <2>1, <2>2 DEF EntryOK, SameSearch, Ends
<1>7. CASE ApplyNotStarted
  <2>1. r' = Refunded(r) /\ pc = "apply" /\ pc' = "retry" /\ Frame /\ UNCHANGED doc
        /\ round' = round
    BY <1>7 DEF ApplyNotStarted, Finish, Frame, world
  <2> QED
    BY <1>1, <2>1, BudgetOK DEF SameSearch, Ends
<1>8. ASSUME NEW verdict, CheckCurrent(verdict)
      PROVE  /\ pc = "service" /\ Frame /\ UNCHANGED <<doc, round>>
             /\ r'.search = r.search /\ r'.rejected = Pruned(r.rejected, round.profile)
             /\ pc' \in Ends \cup {"prepare", "repair"}
  <2> DEFINE seen == Observed(c, applied, round.profile, verdict)
             t == IF verdict = "FAIL" THEN now + Gap ELSE seen.next
  <2>1. /\ pc = "service" /\ applied \in Nodes /\ round.profile \in Networks
        /\ Frame /\ UNCHANGED <<doc, round>>
    BY <1>8 DEF CheckCurrent, TInv, Frame, world
  <2>2. EntryOK(seen) /\ SameSearch(seen, c)
    BY <1>1, <1>2, <2>1, ObservedOK
  <2>3. /\ r' = seen \/ r' = [seen EXCEPT !.next = t]
        /\ pc' \in {"healthy", "repair", "prepare", "unconfirmed"}
    BY <1>8 DEF CheckCurrent, Finish
  <2> HIDE DEF seen, t, c
  <2> QED
    BY <1>2, <2>1, <2>2, <2>3 DEF EntryOK, SameSearch, Ends
<1> QED
  BY <1>3, <1>4, <1>5, <1>6, <1>7, <1>8 DEF Quiet

\* The repair of the current node.
LEMMA RepairEffect ==
    ASSUME TInv, Repair
    PROVE  /\ pc = "repair" /\ Frame /\ SameSearch(r', r)
           /\ UNCHANGED doc \/ (Stored(WithEntry(r')) /\ WithEntry(r').entry = r')
           /\ round'.profile = round.profile
           /\ pc' \in Ends \/ (pc' = "apply" /\ round'.kind = "repair")
<1>1. EntryOK(r)
  BY DEF TInv
<1>2. CASE ~HasBudget(r)
  <2>1. r' = [r EXCEPT !.switches = Recent(@)] /\ pc' = "limited" /\ UNCHANGED <<doc, round>>
        /\ pc = "repair" /\ Frame
    BY <1>2 DEF Repair, Finish, Frame, world
  <2> QED
    BY <1>1, <2>1, BudgetOK DEF Ends
<1>3. CASE HasBudget(r)
  <2>1. /\ r' = Reserved(r) /\ Publish(r') /\ pc = "repair" /\ pc' = "apply" /\ Frame
        /\ round' = [round EXCEPT !.node = applied, !.kind = "repair", !.at = now]
    BY <1>3 DEF Repair, Frame, world
  <2>2. EntryOK(r') /\ SameSearch(r', r)
    BY <1>1, <2>1, BudgetOK
  <2>3. Stored(WithEntry(r')) /\ WithEntry(r').entry = r'
    BY <2>1, <2>2, PublishStores, WithEntryOK DEF TInv
  <2>4. round'.profile = round.profile /\ round'.kind = "repair"
    BY <2>1 DEF TInv
  <2> QED
    BY <2>1, <2>2, <2>3, <2>4
<1> QED
  BY <1>2, <1>3

\* The end of a round publishes its entry.
LEMMA EndEffect ==
    ASSUME TInv, EndRound
    PROVE  /\ pc \in Ends /\ pc' = "idle" /\ Frame /\ r' = FreshEntry
           /\ \E e : SameSearch(e, r) /\ Stored(WithEntry(e)) /\ WithEntry(e).entry = e
<1> DEFINE t == IF r.next <= now THEN now + Interval ELSE r.next
           e == [r EXCEPT !.next = t]
<1>1. t \in Nat /\ EntryOK(r)
  BY TimeAssumption, BoundAssumption DEF TInv, EntryOK, Times
<1>2. Publish(e)
  BY DEF EndRound
<1> HIDE DEF t
<1>3. EntryOK(e) /\ SameSearch(e, r)
  BY <1>1, NextCheckOK
<1> HIDE DEF e
<1>4. Stored(WithEntry(e)) /\ WithEntry(e).entry = e
  BY <1>2, <1>3, PublishStores, WithEntryOK DEF TInv
<1>5. pc \in Ends /\ pc' = "idle" /\ Frame /\ r' = FreshEntry
  BY DEF EndRound, Frame, world
<1> QED
  BY <1>3, <1>4, <1>5

\* The preparation of the traversal.
LEMMA PrepareEffect ==
    ASSUME TInv, PrepareSearch
    PROVE  /\ pc = "prepare" /\ Frame /\ UNCHANGED round /\ r'.rejected = r.rejected
           /\ \/ r' = r /\ pc' = "review" /\ UNCHANGED doc
              \/ /\ ~Halted(r.search) /\ pc' \in {"search", "review"}
                 /\ Stored(WithEntry(r')) /\ WithEntry(r').entry = r'
                 /\ r'.search.left \cap CoolingDown(r.rejected) = {}
<1>1. /\ pc = "prepare" /\ Frame /\ UNCHANGED round
      /\ EntryOK(r) /\ r.search \in Searches \cup {None} /\ round.profile \in Networks
      /\ mem.expected \in Nodes \cup {None} /\ mem.revision \in Nat
  BY DEF PrepareSearch, TInv, EntryOK, DocOK, Frame, world
<1>2. CASE Halted(r.search)
  BY <1>1, <1>2 DEF PrepareSearch, Finish
<1>3. CASE ~Halted(r.search)
  <2>1. PICK ids \in SUBSET (Nodes \ CoolingDown(r.rejected)) :
           PersistThen([r EXCEPT !.search = Prepared(@, Version(round.profile), ids)],
                       "search")
    BY <1>3 DEF PrepareSearch
  <2> DEFINE s == Prepared(r.search, Version(round.profile), ids)
             e == [r EXCEPT !.search = s]
  <2>2. Version(round.profile) \in
           [revision : Nat, expected : Nodes \cup {None}, net : Networks]
    BY <1>1 DEF Version
  <2>3. s \in Searches /\ s.left \subseteq ids
    BY <1>1, <2>1, <2>2, PreparedOK
  <2>4. PersistThen(e, "search")
    BY <2>1
  <2> HIDE DEF s
  <2>5. EntryOK(e) /\ e.search = s /\ e.rejected = r.rejected
    BY <1>1, <2>3, SearchOK
  <2> HIDE DEF e
  <2>6. Stored(WithEntry(e)) /\ r' = e /\ pc' \in {"search", "review"}
    BY <2>4, PersistStores DEF TInv
  <2>7. WithEntry(e).entry = e
    BY <2>5, WithEntryOK DEF TInv
  <2>8. s.left \cap CoolingDown(r.rejected) = {}
    BY <2>1, <2>3
  <2> QED
    BY <1>1, <1>3, <2>5, <2>6, <2>7, <2>8
<1> QED
  BY <1>2, <1>3

\* A candidate that is consumed.
LEMMA CandidateEffect ==
    ASSUME TInv, NEW n \in Nodes,
           SkipCandidate(n) \/ CheckCandidate(n, TRUE) \/ CheckCandidate(n, FALSE)
    PROVE  /\ pc = "search" /\ pc' \in {"search", "intent", "review"} /\ Frame
           /\ round'.profile = round.profile /\ round'.kind = round.kind
           /\ n \in r.search.left
           /\ pc' = "intent" => round'.node = n
           /\ r'.rejected = r.rejected /\ r'.search.left = r.search.left \ {n}
           /\ Stored(WithEntry(r')) /\ WithEntry(r').entry = r'
<1> DEFINE s == Consumed(r.search, n)
           e == [r EXCEPT !.search = s]
<1>1. /\ pc = "search" /\ n \in r.search.left /\ Frame
      /\ EntryOK(r) /\ r.search \in Searches /\ now \in Times
  BY DEF SkipCandidate, CheckCandidate, MayCheck, TInv, EntryOK, Searching, Frame, world
<1>2. s \in Searches /\ s.left = r.search.left \ {n}
  BY <1>1, ConsumedOK
<1>3. \/ PersistThen(e, "search") /\ UNCHANGED round
      \/ /\ PersistThen(e, "search") \/ PersistThen(e, "intent")
         /\ round' = [round EXCEPT !.checks = @ + 1, !.node = n]
  BY DEF SkipCandidate, CheckCandidate
<1>4. (\E q \in {"search", "intent"} : PersistThen(e, q))
  BY <1>3
<1>5. PersistThen(e, "search") \/ round' = [round EXCEPT !.checks = @ + 1, !.node = n]
  BY <1>3
<1> HIDE DEF s
<1>6. EntryOK(e) /\ e.search = s /\ e.rejected = r.rejected
  BY <1>1, <1>2, SearchOK
<1> HIDE DEF e
<1>7. Stored(WithEntry(e)) /\ r' = e /\ pc' \in {"search", "intent", "review"}
  BY <1>4, PersistStores DEF TInv
<1>8. WithEntry(e).entry = e
  BY <1>6, WithEntryOK DEF TInv
<1>9. round'.profile = round.profile /\ round'.kind = round.kind
  BY <1>3 DEF TInv
<1>10. pc' = "intent" => round'.node = n
  <2>1. CASE PersistThen(e, "search")
    BY <2>1, PersistStores DEF TInv
  <2>2. CASE round' = [round EXCEPT !.checks = @ + 1, !.node = n]
    BY <2>2 DEF TInv
  <2> QED
    BY <1>5, <2>1, <2>2
<1> QED
  BY <1>1, <1>2, <1>6, <1>7, <1>8, <1>9, <1>10

\* The intent halts the search.
LEMMA IntendEffect ==
    ASSUME TInv, Intend
    PROVE  /\ pc = "intent" /\ Frame /\ r'.rejected = r.rejected
           /\ round'.profile = round.profile /\ round'.kind = round.kind
           /\ round'.node = round.node /\ round'.at = now
           /\ \/ r'.search = r.search /\ pc' = "limited" /\ UNCHANGED doc
              \/ /\ Halted(r'.search) /\ r'.search.left = r.search.left
                 /\ Stored(WithEntry(r')) /\ WithEntry(r').entry = r'
                 /\ (pc' = "apply" /\ file' = WithEntry(r')) \/ pc' = "review"
<1>1. /\ pc = "intent" /\ Frame /\ EntryOK(r) /\ r.search \in Searches
      /\ round' = [round EXCEPT !.at = now]
  BY DEF Intend, TInv, EntryOK, Searching, Frame, world
<1>2. /\ round'.profile = round.profile /\ round'.kind = round.kind
      /\ round'.node = round.node /\ round'.at = now
  BY <1>1 DEF TInv
<1>3. \/ Finish(r, "limited") /\ UNCHANGED doc
      \/ Finish([r EXCEPT !.switches = Recent(@)], "limited") /\ UNCHANGED doc
      \/ PersistThen([Reserved(r) EXCEPT !.search.halted = TRUE], "apply")
  BY DEF Intend
<1>4. CASE Finish(r, "limited") /\ UNCHANGED doc
  BY <1>1, <1>2, <1>4 DEF Finish
<1>5. CASE Finish([r EXCEPT !.switches = Recent(@)], "limited") /\ UNCHANGED doc
  BY <1>1, <1>2, <1>5, BudgetOK DEF Finish, SameSearch
<1>6. CASE PersistThen([Reserved(r) EXCEPT !.search.halted = TRUE], "apply")
  <2> DEFINE b == Reserved(r)
             s == [r.search EXCEPT !.halted = TRUE]
             e == [b EXCEPT !.search = s]
  <2>1. EntryOK(b) /\ b.search = r.search /\ b.rejected = r.rejected
    BY <1>1, BudgetOK DEF SameSearch
  <2>2. s \in Searches /\ s.left = r.search.left /\ Halted(s)
    BY <1>1, LatchOK
  <2>3. [Reserved(r) EXCEPT !.search.halted = TRUE] = e
    <3>1. [b EXCEPT !.search.halted = TRUE]
            = [b EXCEPT !.search = [b.search EXCEPT !.halted = TRUE]]
      <4> HIDE DEF b
      <4> QED
        OBVIOUS
    <3> QED
      BY <2>1, <3>1
  <2> HIDE DEF b, s
  <2>4. EntryOK(e) /\ e.search = s /\ e.rejected = r.rejected
    BY <2>1, <2>2, SearchOK
  <2>5. PersistThen(e, "apply")
    BY <1>6, <2>3
  <2> HIDE DEF e
  <2>6. /\ Stored(WithEntry(e)) /\ r' = e
        /\ (pc' = "apply" /\ file' = WithEntry(e)) \/ pc' = "review"
    BY <2>5, PersistStores DEF TInv
  <2>7. WithEntry(e).entry = e
    BY <2>4, WithEntryOK DEF TInv
  <2> QED
    BY <1>1, <1>2, <2>2, <2>4, <2>6, <2>7
<1> QED
  BY <1>3, <1>4, <1>5, <1>6

\* The receipt lifts the latch of a search in the entry of the round only.
LEMMA ReceiptEffect ==
    ASSUME TInv, RecordRoute
    PROVE  /\ pc = "record" /\ pc' \in Ends /\ Frame /\ UNCHANGED round
           /\ r'.rejected = r.rejected
           /\ round.kind = "repair" => r'.search = r.search
           /\ UNCHANGED doc \/ \E d : Stored(d) /\ d.entry = mem.entry
<1> DEFINE d == [mem EXCEPT !.expected = round.node]
           b == NoFailures(r)
<1>1. pc = "record" /\ Frame /\ UNCHANGED round /\ EntryOK(r)
  BY DEF RecordRoute, TInv, Frame, world
<1>2. d.entry = mem.entry
  BY DEF TInv, DocOK
<1>3. UNCHANGED doc \/ Stored(d)
  BY WrittenStores, NotWrittenStores DEF RecordRoute, TInv
<1>4. /\ pc' \in {"applied", "refused"}
      /\ r' = r \/ (round.kind # "repair" /\ r' = [b EXCEPT !.search.halted = FALSE])
  BY DEF RecordRoute, Finish
<1>5. EntryOK(b) /\ SameSearch(b, r)
  BY <1>1, NoFailuresOK
<1> HIDE DEF b, d
<1>6. [b EXCEPT !.search.halted = FALSE].rejected = r.rejected
  BY <1>5 DEF EntryOK, SameSearch
<1> QED
  BY <1>1, <1>2, <1>3, <1>4, <1>6 DEF Ends

\* The rejection is recorded, or nothing, and the search goes on.
LEMMA ResumeEffect ==
    ASSUME TInv, ResumeSearch
    PROVE  /\ pc \in {"rejected", "path"} /\ pc' \in {"search", "review"}
           /\ Frame /\ UNCHANGED round /\ network = round.profile
           /\ r'.search.left = r.search.left
           /\ r'.rejected = IF pc = "path" THEN r.rejected
                ELSE Pruned({f \in r.rejected : f.node # round.node} \cup
                       {[node |-> round.node, net |-> network, at |-> round.at]}, network)
           /\ Stored(WithEntry(r')) /\ WithEntry(r').entry = r'
<1> DEFINE c == IF pc = "rejected" THEN Rejected(r, round.node, round.profile, round.at) ELSE r
           s == [r.search EXCEPT !.halted = FALSE]
           e == [c EXCEPT !.search = s]
<1>1. /\ pc \in {"rejected", "path"} /\ Frame /\ UNCHANGED round /\ network = round.profile
      /\ round.node \in Nodes /\ round.profile \in Networks /\ round.at \in Times
      /\ EntryOK(r) /\ r.search \in Searches
  BY DEF ResumeSearch, GuardHolds, TInv, EntryOK, Searching, Frame, world
<1>2. /\ EntryOK(c) /\ c.search = r.search
      /\ c.rejected = IF pc = "path" THEN r.rejected
           ELSE Pruned({f \in r.rejected : f.node # round.node} \cup
                  {[node |-> round.node, net |-> network, at |-> round.at]}, network)
  BY <1>1, RejectedOK
<1>3. s \in Searches /\ s.left = r.search.left
  BY <1>1, LatchOK
<1>4. [c EXCEPT !.search.halted = FALSE] = [c EXCEPT !.search = [c.search EXCEPT !.halted = FALSE]]
  <2> HIDE DEF c
  <2> QED
    OBVIOUS
<1>5. PersistThen([c EXCEPT !.search.halted = FALSE], "search")
  BY DEF ResumeSearch
<1>6. PersistThen(e, "search")
  BY <1>2, <1>4, <1>5
<1> HIDE DEF c, s
<1>7. EntryOK(e) /\ e.search = s /\ e.rejected = c.rejected
  BY <1>2, <1>3, SearchOK
<1> HIDE DEF e
<1>8. Stored(WithEntry(e)) /\ r' = e /\ pc' \in {"search", "review"}
  BY <1>6, PersistStores DEF TInv
<1>9. WithEntry(e).entry = e
  BY <1>7, WithEntryOK DEF TInv
<1> QED
  BY <1>1, <1>2, <1>3, <1>7, <1>8, <1>9

\* The steps of a round, by what they do to the memory of the search.
LEMMA RoundSteps ==
    ASSUME Round \/ Search \/ Application
    PROVE  \/ BeginRound \/ Quiet \/ Repair \/ EndRound \/ PrepareSearch \/ Intend
           \/ \E n \in Nodes : SkipCandidate(n) \/ CheckCandidate(n, TRUE)
                                 \/ CheckCandidate(n, FALSE)
           \/ RecordRoute \/ ResumeSearch
           \/ StartTransaction \/ CommitTransaction \/ FailTransaction
           \/ \E end \in {"rejected", "path"} : RollBackCandidate(end)
BY DEF Round, Search, Application, Quiet

\* The steps that begin or end a transaction write nothing and leave the entry.
Transacts ==
    \/ StartTransaction \/ CommitTransaction \/ FailTransaction
    \/ \E end \in {"rejected", "path"} : RollBackCandidate(end)
LEMMA TransactionEffect ==
    ASSUME Transacts
    PROVE  UNCHANGED <<file, mem, blocked, r, network, epoch, now>>
BY DEF Transacts, StartTransaction, CommitTransaction, FailTransaction, RollBackCandidate,
   Finish, doc, world

\* What the operator and the router change.
LEMMA PolicyEffect ==
    ASSUME TInv, SavePolicy
    PROVE  /\ pc = "idle" /\ ~blocked /\ Frame /\ UNCHANGED <<pc, r, round>>
           /\ mem'.entry = mem.entry /\ file'.entry \in {file.entry, mem.entry}
<1>1. [mem EXCEPT !.revision = @ + 1].entry = mem.entry
  BY RevisionOK
<1> QED
  BY <1>1 DEF SavePolicy, Written, Unsaved, Frame, world

\* An enrolment starts afresh, on disk and in the log, or leaves both.
LEMMA EnrollEffect ==
    ASSUME TInv, Enroll
    PROVE  /\ pc = "idle" /\ UNCHANGED <<pc, r, round, network, epoch, now>>
           /\ mem'.entry = FreshEntry
           /\ \/ log' = <<>> /\ file'.entry = FreshEntry
              \/ log' = log /\ file' = file
<1>1. /\ pc = "idle" /\ UNCHANGED <<pc, r, round, network, epoch, now>>
      /\ Written(Enrolled) \/ NotWritten(Enrolled)
      /\ log' = IF file' = Enrolled THEN <<>> ELSE log
  BY DEF Enroll, Enrolled, world
<1>2. mem' = Enrolled /\ file' \in {file, Enrolled}
  BY <1>1 DEF Written, NotWritten, Unsaved
<1>3. Enrolled.entry = FreshEntry
  BY EnrolledOK
<1> QED
  BY <1>1, <1>2, <1>3

\* A start keeps the search and the rejections.
LEMMA RestartEffect ==
    ASSUME TInv, Restart
    PROVE  /\ pc' = "idle" /\ r' = FreshEntry /\ UNCHANGED <<file, network, epoch, now>>
           /\ SameSearch(mem'.entry, file.entry)
           /\ \/ pc = "running" /\ log' = EndsAs("doubt")
              \/ pc # "running" /\ log' = log
BY LoadedOK DEF Restart, TInv

\* No rejection comes from the future.
LEMMA BeforeStep ==
    ASSUME TInv, PastInv, [Next]_vars
    PROVE  /\ Before(file'.entry.rejected, now') /\ Before(mem'.entry.rejected, now')
           /\ Before(r'.rejected, now')
<1>0. Before(file.entry.rejected, now) /\ Before(mem.entry.rejected, now)
      /\ Before(r.rejected, now) /\ Before(FreshEntry.rejected, now)
  BY FreshOK DEF PastInv, Before
<1>1. \A rej, profile : Before(Pruned(rej, profile), now)
  BY DEF Before, Pruned
<1>2. ASSUME NEW e, UNCHANGED now, Before(e.rejected, now),
             NEW d, Stored(d), d.entry = e
      PROVE  Before(file'.entry.rejected, now') /\ Before(mem'.entry.rejected, now')
  BY <1>0, <1>2 DEF Stored
<1>3. CASE BeginRound
  BY <1>0, <1>2, <1>3, BeginEffect DEF Frame, SameSearch
<1>4. CASE Quiet
  BY <1>0, <1>1, <1>4, QuietEffect DEF Frame, doc
<1>5. CASE Repair
  BY <1>0, <1>2, <1>5, RepairEffect DEF Frame, doc, SameSearch
<1>6. CASE EndRound
  <2>1. PICK e : SameSearch(e, r) /\ Stored(WithEntry(e)) /\ WithEntry(e).entry = e
    BY <1>6, EndEffect
  <2> QED
    BY <1>0, <1>2, <1>6, <2>1, EndEffect DEF Frame, SameSearch
<1>7. CASE PrepareSearch
  BY <1>0, <1>2, <1>7, PrepareEffect DEF Frame, doc
<1>8. CASE Intend
  BY <1>0, <1>2, <1>8, IntendEffect DEF Frame, doc
<1>9. ASSUME NEW n \in Nodes,
             SkipCandidate(n) \/ CheckCandidate(n, TRUE) \/ CheckCandidate(n, FALSE)
      PROVE  /\ Before(file'.entry.rejected, now') /\ Before(mem'.entry.rejected, now')
             /\ Before(r'.rejected, now')
  BY <1>0, <1>2, <1>9, CandidateEffect DEF Frame
<1>10. CASE RecordRoute
  BY <1>0, <1>2, <1>10, ReceiptEffect DEF Frame, doc
<1>11. CASE ResumeSearch
  BY <1>0, <1>1, <1>2, <1>11, ResumeEffect DEF Frame
<1>12. CASE Transacts
  BY <1>0, <1>12, TransactionEffect
<1>13. CASE Outside
  <2>1. CASE Restart
    BY <1>0, <2>1, RestartEffect DEF SameSearch
  <2>2. CASE Enroll
    BY <1>0, <2>2, EnrollEffect
  <2>3. CASE SavePolicy
    BY <1>0, <2>3, PolicyEffect DEF Frame
  <2>4. CASE Tick
    <3>1. UNCHANGED <<file, mem, r>> /\ now' = now + 1
      BY <2>4 DEF Tick, doc
    <3>2. \A f \in file.entry.rejected \cup mem.entry.rejected \cup r.rejected : f.at \in Int
      BY BoundAssumption DEF TInv, DocOK, EntryOK, Times
    <3>3. now \in Int
      BY BoundAssumption DEF TInv, Times
    <3> QED
      BY <1>0, <3>1, <3>2, <3>3 DEF Before
  <2>5. CASE (\E n \in Nodes \cup {None} : ManualApply(n))
               \/ (\E w \in Networks : NetworkChanges(w))
    BY <1>0, <2>5 DEF ManualApply, NetworkChanges, doc
  <2> QED
    BY <1>13, <2>1, <2>2, <2>3, <2>4, <2>5 DEF Outside
<1>14. CASE UNCHANGED vars
  BY <1>0, <1>14 DEF vars
<1> QED
  BY <1>3, <1>4, <1>5, <1>6, <1>7, <1>8, <1>9, <1>10, <1>11, <1>12, <1>13, <1>14, RoundSteps
     DEF Next, Transacts

\* The log that no step of a transaction touches.
LEMMA LogPastKept ==
    ASSUME LogPast, Frame, pc' # "rejected",
           pc' = "idle" \/ (pc # "idle" /\ round'.profile = round.profile)
              \/ round'.profile = network
    PROVE  LogPast'
BY DEF LogPast, Frame

\* The log is of the past.
LEMMA LogPastStep ==
    ASSUME TInv, PastInv, [Next]_vars
    PROVE  LogPast'
<1>0. LogPast /\ now \in Int /\ epoch \in Int /\ log \in Seq(Transactions)
  BY BoundAssumption DEF PastInv, TInv, Times
<1>1. CASE BeginRound \/ Quiet \/ Repair \/ EndRound \/ PrepareSearch \/ Intend
             \/ RecordRoute \/ ResumeSearch
             \/ \E n \in Nodes : SkipCandidate(n) \/ CheckCandidate(n, TRUE)
                                   \/ CheckCandidate(n, FALSE)
  <2>1. "rejected" \notin Ends /\ "idle" \notin Ends
    BY DEF Ends
  <2>2. pc' # "rejected" /\ Frame
        /\ (pc' = "idle" \/ (pc # "idle" /\ round'.profile = round.profile)
              \/ round'.profile = network)
    BY <1>1, <2>1, BeginEffect, QuietEffect, RepairEffect, EndEffect, PrepareEffect,
       IntendEffect, ReceiptEffect, ResumeEffect, CandidateEffect
  <2> QED
    BY <1>0, <2>2, LogPastKept
<1>2. CASE StartTransaction
  <2> DEFINE t == [node |-> round.node, kind |-> round.kind, at |-> round.at,
                   end |-> "running", done |-> 0, epoch |-> epoch]
  <2>1. t \in Transactions
    BY <1>2, BoundAssumption DEF StartTransaction, TInv, Applying, Transactions, Times
  <2>2. /\ log' = Append(log, t) /\ pc' = "running" /\ pc = "apply" /\ network = round.profile
        /\ UNCHANGED <<network, epoch, now, round>>
    BY <1>2 DEF StartTransaction, GuardHolds, world
  <2>3. /\ DOMAIN log' = DOMAIN log \cup {Len(log) + 1}
        /\ log'[Len(log) + 1] = t
        /\ \A i \in DOMAIN log : log'[i] = log[i]
    BY <1>0, <2>1, <2>2, LogOK DEF TInv
  <2>4. t.done = 0 /\ t.epoch = epoch /\ 0 <= now
    BY BoundAssumption DEF TInv, Times
  <2> HIDE DEF t
  <2> QED
    BY <1>0, <2>2, <2>3, <2>4 DEF LogPast
<1>3. ASSUME NEW end \in {"committed", "rejected", "path", "doubt"}, log' = EndsAs(end),
             pc = "running", UNCHANGED <<network, epoch, now>>,
             pc' = "idle" \/ round'.profile = round.profile,
             pc' = "rejected" => end = "rejected" /\ round'.at = now /\ round'.node = round.node
      PROVE  LogPast'
  <2>1. /\ DOMAIN log' = DOMAIN log /\ Len(log) \in DOMAIN log /\ Len(log') = Len(log)
        /\ \A i \in DOMAIN log : i # Len(log) => log'[i] = log[i]
        /\ \A i \in DOMAIN log : log'[i].epoch = log[i].epoch /\ log'[i].node = log[i].node
        /\ log'[Len(log)].end = end
        /\ log'[Len(log)].done = IF end = "rejected" THEN now ELSE 0
    BY <1>0, <1>3, LogOK DEF TInv
  <2>2. 0 <= now
    BY BoundAssumption DEF TInv, Times
  <2>3. log[Len(log)].node = round.node /\ log' # <<>>
    BY <1>3, <2>1 DEF TInv
  <2>4. \A i \in DOMAIN log : log'[i].done <= now
    BY <1>0, <2>1, <2>2 DEF LogPast
  <2> QED
    BY <1>0, <1>3, <2>1, <2>3, <2>4 DEF LogPast
<1>4. CASE CommitTransaction
  BY <1>3, <1>4 DEF CommitTransaction
<1>5. CASE FailTransaction
  BY <1>3, <1>5 DEF FailTransaction, Finish, world
<1>6. ASSUME NEW end \in {"rejected", "path"}, RollBackCandidate(end)
      PROVE  LogPast'
  <2>1. /\ log' = EndsAs(end) /\ pc = "running" /\ UNCHANGED <<network, epoch, now>>
        /\ \/ pc' = "refused" /\ round' = round
           \/ pc' = end /\ round' = [round EXCEPT !.at = now]
    BY <1>6 DEF RollBackCandidate, Finish, world
  <2>2. /\ round'.profile = round.profile
        /\ pc' = "rejected" => end = "rejected" /\ round'.at = now /\ round'.node = round.node
    BY <2>1 DEF TInv
  <2> QED
    BY <1>3, <2>1, <2>2
<1>7. CASE Outside
  <2>1. CASE Restart
    BY <1>0, <1>3, <2>1, RestartEffect DEF LogPast
  <2>2. CASE Enroll
    BY <1>0, <2>2, EnrollEffect DEF LogPast
  <2>3. CASE SavePolicy
    BY <1>0, <2>3, PolicyEffect DEF LogPast, Frame
  <2>4. CASE Tick
    <3>1. UNCHANGED <<log, epoch, network, pc, round>> /\ now' = now + 1
      BY <2>4 DEF Tick
    <3>2. \A i \in DOMAIN log : log[i].done \in Int
      BY <1>0, TransactionsOK
    <3>3. round.at \in Int
      BY BoundAssumption DEF TInv, Times
    <3> QED
      BY <1>0, <3>1, <3>2, <3>3 DEF LogPast
  <2>5. ASSUME NEW n \in Nodes \cup {None}, ManualApply(n)
        PROVE  LogPast'
    BY <1>0, <2>5 DEF ManualApply, LogPast
  <2>6. ASSUME NEW w \in Networks, NetworkChanges(w)
        PROVE  LogPast'
    <3>1. UNCHANGED <<log, pc, round, now>> /\ epoch' = epoch + 1
      BY <2>6 DEF NetworkChanges
    <3>2. \A i \in DOMAIN log : log[i].epoch \in Int
      BY <1>0, TransactionsOK
    <3>3. \A i \in DOMAIN log : log[i].epoch <= epoch' /\ log[i].epoch # epoch'
      BY <1>0, <3>1, <3>2 DEF LogPast
    <3> QED
      BY <1>0, <3>1, <3>3 DEF LogPast
  <2> QED
    BY <1>7, <2>1, <2>2, <2>3, <2>4, <2>5, <2>6 DEF Outside
<1>8. CASE UNCHANGED vars
  BY <1>0, <1>8 DEF vars, LogPast
<1> QED
  BY <1>1, <1>2, <1>4, <1>5, <1>6, <1>7, <1>8, RoundSteps DEF Next

\* What is past stays past.
LEMMA PastStep == TInv /\ PastInv /\ [Next]_vars => PastInv'
BY BeforeStep, LogPastStep DEF PastInv

\* Nothing is past at first.
LEMMA PastInit == Init => PastInv
BY FreshOK DEF Init, PastInv, LogPast, Before

-----------------------------------------------------------------------------
(* The latch of the search.                                                 *)

\* What is open now, and an entry that does not forget it.
Now(rej) == Open(log, rej, network, now, epoch)
Remembered(e) == Now(e.rejected) # {} => Halted(e.search)

\* A round that must not forget something is halted, or about to record it.
LEMMA RoundHalted ==
    ASSUME LatchInv, pc # "idle"
    PROVE  Remembered(r)
BY DEF LatchInv, LatchSet, RoundRemembers, Remembered, Now, Traversing

\* The entry in memory remembers what the one on disk does, unless a write of it
\* is in doubt.
LEMMA MemRemembers ==
    ASSUME RouteInv, LatchInv, ~blocked
    PROVE  Remembered(mem.entry)
BY DEF RouteInv, LatchInv, FileRemembers, Remembered, Now

\* A document that remembers may be stored.
LEMMA FileKept ==
    ASSUME LatchInv, Frame, UNCHANGED doc \/ \E d : Stored(d) /\ Remembered(d.entry)
    PROVE  FileRemembers'
BY DEF LatchInv, FileRemembers, Frame, Stored, Remembered, Now, doc

\* A round that does not use the list remembers what its entry remembers.
LEMMA OutsideRemembers ==
    ASSUME LatchInv, Frame, FileRemembers', pc' = "idle" \/ Remembered(r'),
           pc' \in Ends \cup {"idle", "service", "prepare", "repair"}
             \/ (pc' = "apply" /\ round'.kind = "repair")
    PROVE  LatchInv'
<1>1. ~Traversing' /\ LatchSet'
  BY DEF Ends, Traversing, Searching, Applying, LatchSet
<1>2. RoundRemembers'
  BY <1>1 DEF RoundRemembers, Remembered, Now, Frame
<1>3. DoubtEndsTheSearch'
  BY DEF LatchInv, DoubtEndsTheSearch, Frame
<1> QED
  BY <1>1, <1>2, <1>3 DEF LatchInv

\* A round with nothing to remember may go on searching.
LEMMA FreeRemembers ==
    ASSUME LatchInv, Frame, FileRemembers', LatchSet', Now(r'.rejected) = {}
    PROVE  LatchInv'
<1>1. RoundRemembers'
  BY DEF RoundRemembers, Now, Frame
<1>2. DoubtEndsTheSearch'
  BY DEF LatchInv, DoubtEndsTheSearch, Frame
<1> QED
  BY <1>1, <1>2 DEF LatchInv

\* Nothing is open on a traversal.
LEMMA TraversalIsFree ==
    ASSUME LatchInv, Traversing, pc # "rejected"
    PROVE  Now(r.rejected) = {}
BY DEF LatchInv, RoundRemembers, Now

\* The steps of a round outside the search.
LEMMA LatchOfRound ==
    ASSUME TInv, RouteInv, PastInv, LatchInv,
           BeginRound \/ Quiet \/ Repair \/ EndRound \/ RecordRoute
    PROVE  LatchInv'
<1>1. CASE BeginRound
  <2>1. Remembered(mem.entry)
    BY <1>1, BeginEffect, MemRemembers
  <2>2. Remembered(r')
    BY <1>1, <2>1, BeginEffect DEF SameSearch, Remembered
  <2> QED
    BY <1>1, <2>2, BeginEffect, FileKept, OutsideRemembers
<1>2. CASE Quiet
  <2>1. pc # "idle" /\ Remembered(r)
    BY <1>2, QuietEffect, RoundHalted
  <2>2. Now(Pruned(r.rejected, round.profile)) \subseteq Now(r.rejected)
    <3>1. /\ r.rejected \in SUBSET [node : Nodes, net : Networks, at : Times]
          /\ log \in Seq(Transactions) /\ now \in Int /\ Before(r.rejected, now)
      BY BoundAssumption DEF TInv, EntryOK, PastInv, Times
    <3>2. \A i \in DOMAIN log : log[i].epoch = epoch => round.profile = network
      BY <2>1 DEF PastInv, LogPast
    <3> QED
      BY <3>1, <3>2, OpenPruned DEF Now
  <2>3. Remembered(r')
    BY <1>2, <2>1, <2>2, QuietEffect DEF Remembered
  <2> QED
    BY <1>2, <2>3, QuietEffect, FileKept, OutsideRemembers
<1>3. CASE Repair
  <2>1. Remembered(r')
    BY <1>3, RepairEffect, RoundHalted DEF SameSearch, Remembered
  <2> QED
    BY <1>3, <2>1, RepairEffect, FileKept, OutsideRemembers
<1>4. CASE EndRound
  <2>1. PICK e : SameSearch(e, r) /\ Stored(WithEntry(e)) /\ WithEntry(e).entry = e
    BY <1>4, EndEffect
  <2>2. pc # "idle"
    BY <1>4, EndEffect DEF Ends
  <2>3. Remembered(e)
    BY <2>1, <2>2, RoundHalted DEF SameSearch, Remembered
  <2>4. Frame /\ pc' = "idle" /\ FileRemembers'
    BY <1>4, <2>1, <2>3, EndEffect, FileKept
  <2> QED
    BY <2>4, OutsideRemembers
<1>5. CASE RecordRoute
  <2>1. pc = "record" /\ ~blocked /\ round.kind \in {"search", "repair"}
    BY <1>5, ReceiptEffect DEF TInv
  <2>2. Remembered(r')
    <3>1. CASE round.kind = "repair"
      BY <1>5, <2>1, <3>1, ReceiptEffect, RoundHalted DEF Remembered
    <3>2. CASE round.kind = "search"
      BY <1>5, <2>1, <3>2, ReceiptEffect, TraversalIsFree
         DEF Traversing, Applying, Remembered
    <3> QED
      BY <2>1, <3>1, <3>2
  <2>3. Remembered(mem.entry)
    BY <2>1, MemRemembers
  <2> QED
    BY <1>5, <2>2, <2>3, ReceiptEffect, FileKept, OutsideRemembers
<1> QED
  BY <1>1, <1>2, <1>3, <1>4, <1>5

\* The steps of the search.
LEMMA LatchOfSearch ==
    ASSUME TInv, RouteInv, PastInv, LatchInv,
           PrepareSearch \/ Intend \/ ResumeSearch
             \/ \E n \in Nodes : SkipCandidate(n) \/ CheckCandidate(n, TRUE)
                                   \/ CheckCandidate(n, FALSE)
    PROVE  LatchInv'
<1>1. ASSUME Frame, Now(r'.rejected) = {},
             UNCHANGED doc \/ (Stored(WithEntry(r')) /\ WithEntry(r').entry = r'),
             pc' \in Ends \cup {"search", "intent"}
               \/ (pc' = "apply" /\ Halted(r'.search) /\ file'.entry = r')
      PROVE  LatchInv'
  <2>1. Remembered(r')
    BY <1>1 DEF Remembered
  <2>2. FileRemembers'
    BY <1>1, <2>1, FileKept
  <2>3. LatchSet'
    BY <1>1 DEF LatchSet, Ends
  <2> QED
    BY <1>1, <2>2, <2>3, FreeRemembers
<1>2. CASE PrepareSearch
  <2>1. CASE r' = r /\ pc' = "review" /\ UNCHANGED doc
    <3>1. Remembered(r') /\ Frame
      BY <1>2, <2>1, PrepareEffect, RoundHalted
    <3> QED
      BY <2>1, <3>1, FileKept, OutsideRemembers DEF Ends
  <2>2. CASE ~Halted(r.search) /\ pc' \in {"search", "review"}
             /\ Stored(WithEntry(r')) /\ WithEntry(r').entry = r'
    <3>1. Now(r.rejected) = {}
      BY <1>2, <2>2, PrepareEffect, RoundHalted DEF Remembered
    <3> QED
      BY <1>1, <1>2, <2>2, <3>1, PrepareEffect DEF Ends
  <2> QED
    BY <1>2, <2>1, <2>2, PrepareEffect
<1>3. CASE Intend
  <2>1. Now(r.rejected) = {}
    BY <1>3, IntendEffect, TraversalIsFree DEF Traversing, Searching
  <2> QED
    BY <1>1, <1>3, <2>1, IntendEffect DEF Ends
<1>4. ASSUME NEW n \in Nodes,
             SkipCandidate(n) \/ CheckCandidate(n, TRUE) \/ CheckCandidate(n, FALSE)
      PROVE  LatchInv'
  <2>1. Now(r.rejected) = {}
    BY <1>4, CandidateEffect, TraversalIsFree DEF Traversing, Searching
  <2> QED
    BY <1>1, <1>4, <2>1, CandidateEffect DEF Ends
<1>5. CASE ResumeSearch
  <2>1. Now(r'.rejected) = {}
    <3>1. CASE pc = "path"
      BY <1>5, <3>1, ResumeEffect, TraversalIsFree DEF Traversing, Searching
    <3>2. CASE pc = "rejected"
      <4>1. /\ log \in Seq(Transactions) /\ now \in Int /\ round.node \in Nodes
            /\ round.at \in Int /\ Before(r.rejected, now)
            /\ r.rejected \in SUBSET [node : Nodes, net : Networks, at : Times]
        BY <3>2, BoundAssumption DEF TInv, EntryOK, PastInv, Times
      <4>2. /\ round.at <= now /\ log # <<>> /\ \A i \in DOMAIN log : log[i].done <= round.at
            /\ log[Len(log)].node = round.node /\ log[Len(log)].end = "rejected"
        BY <3>2 DEF PastInv, LogPast
      <4>3. Now(r.rejected) \subseteq {Len(log)}
        BY <3>2 DEF LatchInv, RoundRemembers, Traversing, Searching, Now
      <4> QED
        BY <1>5, <3>2, <4>1, <4>2, <4>3, ResumeEffect, OpenRejected DEF Now
    <3> QED
      BY <1>5, <3>1, <3>2, ResumeEffect
  <2> QED
    BY <1>1, <1>5, <2>1, ResumeEffect DEF Ends
<1> QED
  BY <1>2, <1>3, <1>4, <1>5

\* The begin of a transaction.
LEMMA LatchOfStart ==
    ASSUME TInv, LatchInv, StartTransaction
    PROVE  LatchInv'
<1> DEFINE t == [node |-> round.node, kind |-> round.kind, at |-> round.at,
                 end |-> "running", done |-> 0, epoch |-> epoch]
<1>1. t \in Transactions
  BY BoundAssumption DEF StartTransaction, TInv, Applying, Transactions, Times
<1>2. /\ log' = Append(log, t) /\ pc' = "running" /\ pc = "apply"
      /\ UNCHANGED <<file, r, round, network, epoch, now>>
  BY DEF StartTransaction, doc, world
<1>3. t.kind = round.kind /\ t.end = "running"
  OBVIOUS
<1>4. log \in Seq(Transactions) /\ now \in Times /\ round.kind \in {"search", "repair"}
  BY DEF TInv
<1> HIDE DEF t
<1>5. \A rej : Open(log', rej, network', now', epoch') = Now(rej)
  BY <1>1, <1>2, <1>3, <1>4, OpenAppended DEF Now
<1>6. Traversing' = Traversing
  BY <1>2 DEF Traversing, Searching, Applying
<1>7. LatchSet' /\ FileRemembers' /\ RoundRemembers'
  BY <1>2, <1>5, <1>6 DEF LatchInv, LatchSet, FileRemembers, RoundRemembers, Now
<1>8. DoubtEndsTheSearch'
  <2>1. /\ DOMAIN log' = DOMAIN log \cup {Len(log) + 1} /\ log'[Len(log) + 1] = t
        /\ \A i \in DOMAIN log : log'[i] = log[i]
    BY <1>1, <1>2, <1>4, LogOK
  <2>2. \A i \in DOMAIN log : i < Len(log) + 1
    BY <1>4
  <2>3. CASE round.kind = "repair"
    <3> SUFFICES ASSUME NEW i \in DOMAIN log', NEW j \in DOMAIN log', i < j,
                        log'[i].kind = "search", log'[i].end = "doubt"
                 PROVE  log'[j].kind = "repair"
      BY DEF DoubtEndsTheSearch
    <3>1. i \in DOMAIN log
      BY <1>3, <2>1
    <3> QED
      BY <1>3, <2>1, <2>3, <3>1 DEF LatchInv, DoubtEndsTheSearch
  <2>4. CASE round.kind = "search"
    <3>1. Now(r.rejected) = {}
      BY <1>2, <2>4, TraversalIsFree DEF Traversing, Applying
    <3>2. \A i \in DOMAIN log : ~Doubtful(log[i])
      BY <3>1 DEF Now, Open
    <3> QED
      BY <1>3, <2>1, <3>2 DEF Doubtful, DoubtEndsTheSearch
  <2> QED
    BY <1>4, <2>3, <2>4
<1> QED
  BY <1>7, <1>8 DEF LatchInv

\* The end of a transaction, whatever it is.
LEMMA LatchOfEnd ==
    ASSUME TInv, LatchInv, pc = "running", UNCHANGED <<file, network, epoch, now>>,
           NEW end \in {"committed", "rejected", "path", "doubt"}, log' = EndsAs(end),
           \/ pc' = "idle"
           \/ /\ r' = r /\ round'.kind = round.kind
              /\ \/ pc' = "record" /\ end = "committed"
                 \/ pc' = "refused"
                 \/ pc' = end /\ end \in {"rejected", "path"} /\ round.kind = "search"
    PROVE  LatchInv'
<1>1. /\ log \in Seq(Transactions) /\ log # <<>> /\ now \in Times
      /\ log[Len(log)].kind = round.kind /\ round.kind \in {"search", "repair"}
  BY DEF TInv
<1>2. /\ \A rej : Open(log', rej, network', now', epoch') \subseteq Now(rej) \cup {Len(log)}
      /\ round.kind = "repair" \/ end \in {"committed", "path"} =>
           \A rej : Open(log', rej, network', now', epoch') \subseteq Now(rej)
      /\ Len(log') = Len(log)
  BY <1>1, OpenEnded, LogOK DEF Now
<1>3. round.kind = "search" => Halted(file.entry.search) /\ Halted(r.search)
                               /\ Now(r.rejected) = {}
  BY TraversalIsFree DEF LatchInv, LatchSet, Traversing, Applying
<1>4. FileRemembers'
  BY <1>1, <1>2, <1>3 DEF LatchInv, FileRemembers, Now
<1>5. LatchSet'
  BY <1>3 DEF LatchSet
<1>6. RoundRemembers'
  <2>1. CASE pc' = "idle"
    BY <2>1 DEF RoundRemembers, Traversing, Searching, Applying
  <2>2. CASE round.kind = "repair" /\ pc' \in {"record", "refused"} /\ r' = r
               /\ round'.kind = "repair"
    BY <1>2, <2>2 DEF LatchInv, RoundRemembers, Traversing, Searching, Applying, Now
  <2>3. CASE round.kind = "search" /\ r' = r
    BY <1>2, <1>3, <2>3 DEF RoundRemembers, Traversing, Searching, Applying
  <2> QED
    BY <1>1, <2>1, <2>2, <2>3
<1>7. DoubtEndsTheSearch'
  <2>1. /\ DOMAIN log' = DOMAIN log
        /\ \A i \in DOMAIN log : log'[i].kind = log[i].kind
        /\ \A i \in DOMAIN log : i # Len(log) => log'[i] = log[i]
    BY <1>1, LogOK
  <2>2. \A i, j \in DOMAIN log : i < j => i # Len(log)
    BY <1>1
  <2> QED
    BY <2>1, <2>2 DEF LatchInv, DoubtEndsTheSearch
<1> QED
  BY <1>4, <1>5, <1>6, <1>7 DEF LatchInv

\* The operator, the router and time.
LEMMA LatchOutside ==
    ASSUME TInv, RouteInv, PastInv, LatchInv, Outside
    PROVE  LatchInv'
<1>0. log \in Seq(Transactions) /\ now \in Int /\ epoch \in Int
  BY BoundAssumption DEF TInv, Times
<1>1. CASE Restart
  <2>1. CASE pc = "running"
    BY <1>1, <2>1, RestartEffect, LatchOfEnd
  <2>2. CASE pc # "running"
    BY <1>1, <2>2, RestartEffect DEF LatchInv, LatchSet, FileRemembers, RoundRemembers,
       DoubtEndsTheSearch, Traversing, Searching, Applying
  <2> QED
    BY <2>1, <2>2
<1>2. CASE Enroll
  <2>1. pc' = "idle" /\ UNCHANGED <<network, epoch, now>>
        /\ (log' = <<>> \/ (log' = log /\ file' = file))
    BY <1>2, EnrollEffect
  <2>2. LatchSet' /\ RoundRemembers'
    BY <2>1 DEF LatchSet, RoundRemembers, Traversing, Searching, Applying
  <2>3. FileRemembers' /\ DoubtEndsTheSearch'
    BY <2>1 DEF LatchInv, FileRemembers, DoubtEndsTheSearch, Open
  <2> QED
    BY <2>2, <2>3 DEF LatchInv
<1>3. CASE SavePolicy
  <2>1. Remembered(mem.entry) /\ Frame /\ pc' = "idle"
        /\ file'.entry \in {file.entry, mem.entry}
    BY <1>3, PolicyEffect, MemRemembers
  <2>2. FileRemembers'
    BY <2>1 DEF LatchInv, FileRemembers, Remembered, Now, Frame
  <2> QED
    BY <2>1, <2>2 DEF LatchInv, LatchSet, RoundRemembers, DoubtEndsTheSearch, Traversing,
       Searching, Applying, Frame
<1>4. ASSUME UNCHANGED <<file, r, pc, round, log>>,
             \A rej : Open(log, rej, network', now', epoch') \subseteq Now(rej)
      PROVE  LatchInv'
  <2>1. Traversing' = Traversing
    BY <1>4 DEF Traversing, Searching, Applying
  <2>2. FileRemembers' /\ RoundRemembers'
    BY <1>4, <2>1 DEF LatchInv, FileRemembers, RoundRemembers, Now
  <2>3. LatchSet' /\ DoubtEndsTheSearch'
    BY <1>4 DEF LatchInv, LatchSet, DoubtEndsTheSearch
  <2> QED
    BY <2>2, <2>3 DEF LatchInv
<1>5. CASE Tick
  <2>1. UNCHANGED <<file, r, pc, round, log, network, epoch>> /\ now' = now + 1
    BY <1>5 DEF Tick, doc
  <2>2. now' \in Int /\ now <= now'
    BY <1>0, <2>1
  <2>3. \A rej : Open(log, rej, network, now', epoch) \subseteq Now(rej)
    BY <1>0, <2>2, OpenInTime DEF Now
  <2> QED
    BY <1>4, <2>1, <2>3
<1>6. ASSUME NEW n \in Nodes \cup {None}, ManualApply(n)
      PROVE  LatchInv'
  BY <1>4, <1>6 DEF ManualApply, doc, Now
<1>7. ASSUME NEW w \in Networks, NetworkChanges(w)
      PROVE  LatchInv'
  <2>1. UNCHANGED <<file, r, pc, round, log, now>> /\ epoch' = epoch + 1
    BY <1>7 DEF NetworkChanges, doc
  <2>2. \A i \in DOMAIN log : log[i].epoch <= epoch
    BY DEF PastInv, LogPast
  <2>3. \A rej : Open(log, rej, network', now, epoch + 1) \subseteq Now(rej)
    BY <1>0, <2>2, OpenElsewhere DEF Now
  <2> QED
    BY <1>4, <2>1, <2>3
<1> QED
  BY <1>1, <1>2, <1>3, <1>5, <1>6, <1>7 DEF Outside

\* The latch is inductive beside the types, the recorded route and the past.
LEMMA LatchStep == TInv /\ RouteInv /\ PastInv /\ LatchInv /\ [Next]_vars => LatchInv'
<1> SUFFICES ASSUME TInv, RouteInv, PastInv, LatchInv, [Next]_vars PROVE LatchInv'
  OBVIOUS
<1>1. CASE StartTransaction
  BY <1>1, LatchOfStart
<1>2. CASE CommitTransaction
  BY <1>2, LatchOfEnd DEF CommitTransaction, doc
<1>3. CASE FailTransaction
  BY <1>3, LatchOfEnd DEF FailTransaction, Finish, doc, world
<1>4. ASSUME NEW end \in {"rejected", "path"}, RollBackCandidate(end)
      PROVE  LatchInv'
  <2>1. /\ log' = EndsAs(end) /\ pc = "running" /\ UNCHANGED <<file, network, epoch, now>>
        /\ r' = r
        /\ \/ pc' = "refused" /\ round' = round
           \/ pc' = end /\ round.kind # "repair" /\ round' = [round EXCEPT !.at = now]
    BY <1>4 DEF RollBackCandidate, Finish, doc, world
  <2>2. round'.kind = round.kind /\ round.kind \in {"search", "repair"}
    BY <2>1 DEF TInv
  <2> QED
    BY <2>1, <2>2, LatchOfEnd
<1>5. CASE UNCHANGED vars
  BY <1>5 DEF vars, LatchInv, LatchSet, FileRemembers, RoundRemembers, DoubtEndsTheSearch,
     Traversing
<1> QED
  BY <1>1, <1>2, <1>3, <1>4, <1>5, RoundSteps, LatchOfRound, LatchOfSearch, LatchOutside
     DEF Next

\* Nothing is latched at first.
LEMMA LatchInit == Init => LatchInv
BY DEF Init, LatchInv, LatchSet, FileRemembers, RoundRemembers, DoubtEndsTheSearch, Open,
   Traversing, Searching, Applying

\* An application whose end is not known is the last one of the search.
THEOREM DoubtIsLast == Spec => []DoubtEndsTheSearch
<1> DEFINE Inv == TInv /\ RouteInv /\ PastInv /\ LatchInv
<1>1. Init => Inv
  BY TypesInit, RouteInit, PastInit, LatchInit
<1>2. Inv /\ [Next]_vars => Inv'
  BY TypesStep, RouteStep, PastStep, LatchStep
<1>3. Inv => DoubtEndsTheSearch
  BY DEF LatchInv
<1> QED
  BY <1>1, <1>2, <1>3, PTL DEF Spec

-----------------------------------------------------------------------------
(* The cooldown of a rejected node.                                         *)

\* The steps that leave or have left the list.
Leaves ==
    \/ pc' \in Ends \cup {"idle", "service", "prepare", "repair"}
    \/ pc' = "apply" /\ round'.kind = "repair"
LEMMA LeavesCool ==
    ASSUME Leaves
    PROVE  ListInv' /\ WarmInv'
BY DEF Leaves, ListInv, WarmInv, Traversing, Searching, Applying, Ends

\* The candidates of a traversal do not cool down.
LEMMA ListStep ==
    ASSUME TInv, ListInv, [Next]_vars
    PROVE  ListInv'
<1>1. CASE BeginRound \/ Quiet \/ Repair \/ EndRound \/ RecordRoute
  <2>1. Leaves
    BY <1>1, BeginEffect, QuietEffect, RepairEffect, EndEffect, ReceiptEffect DEF Leaves
  <2> QED
    BY <2>1, LeavesCool
<1>2. CASE PrepareSearch
  <2>1. CASE pc' = "review"
    BY <2>1, LeavesCool DEF Leaves, Ends
  <2>2. CASE pc' = "search"
    BY <1>2, <2>2, PrepareEffect DEF ListInv
  <2> QED
    BY <1>2, <2>1, <2>2, PrepareEffect
<1>3. ASSUME NEW n \in Nodes,
             SkipCandidate(n) \/ CheckCandidate(n, TRUE) \/ CheckCandidate(n, FALSE)
      PROVE  ListInv'
  <2>1. CASE pc' = "review"
    BY <2>1, LeavesCool DEF Leaves, Ends
  <2>2. CASE pc' \in {"search", "intent"}
    <3>1. n \in r.search.left /\ r.search.left \cap CoolingDown(r.rejected) = {}
      BY <1>3, CandidateEffect DEF ListInv, Traversing, Searching
    <3> QED
      BY <1>3, <2>2, <3>1, CandidateEffect DEF ListInv
  <2> QED
    BY <1>3, <2>1, <2>2, CandidateEffect
<1>4. CASE Intend
  <2>1. CASE pc' \in Ends
    BY <2>1, LeavesCool DEF Leaves
  <2>2. CASE pc' = "apply"
    <3>1. /\ r.search.left \cap CoolingDown(r.rejected) = {} /\ round.node \notin r.search.left
          /\ r'.search.left = r.search.left /\ r'.rejected = r.rejected
          /\ round'.node = round.node
      BY <1>4, <2>2, IntendEffect DEF ListInv, Traversing, Searching
    <3> QED
      BY <2>2, <3>1 DEF ListInv
  <2> QED
    BY <1>4, <2>1, <2>2, IntendEffect DEF Ends
<1>5. CASE ResumeSearch
  <2>1. CASE pc' = "review"
    BY <2>1, LeavesCool DEF Leaves, Ends
  <2>2. CASE pc' = "search"
    <3>1. /\ r.search.left \cap CoolingDown(r.rejected) = {} /\ round.node \notin r.search.left
          /\ r'.search.left = r.search.left
      BY <1>5, ResumeEffect DEF ListInv, Traversing, Searching
    <3>2. CoolingDown(r'.rejected) \subseteq CoolingDown(r.rejected) \cup {round.node}
      BY <1>5, ResumeEffect DEF CoolingDown, Pruned
    <3> QED
      BY <2>2, <3>1, <3>2 DEF ListInv
  <2> QED
    BY <1>5, <2>1, <2>2, ResumeEffect
<1>6. CASE Transacts
  <2>1. /\ UNCHANGED r /\ round'.node = round.node /\ round'.kind = round.kind
        /\ pc \in {"apply", "running"}
        /\ \/ pc' \in {"running", "record", "refused"}
           \/ pc' \in {"rejected", "path"} /\ round.kind # "repair"
    BY <1>6 DEF Transacts, StartTransaction, CommitTransaction, FailTransaction,
       RollBackCandidate, Finish, TInv
  <2>2. CASE pc' = "refused"
    BY <2>2, LeavesCool DEF Leaves, Ends
  <2>3. CASE pc' # "refused"
    <3>1. Traversing' => Traversing
      BY <2>1, <2>3 DEF Traversing, Searching, Applying, TInv
    <3> QED
      BY <2>1, <2>3, <3>1 DEF ListInv
  <2> QED
    BY <2>2, <2>3
<1>7. CASE Outside \/ UNCHANGED vars
  <2>1. CASE pc' = "idle"
    BY <2>1, LeavesCool DEF Leaves
  <2>2. CASE UNCHANGED <<pc, r, round>>
    BY <2>2 DEF ListInv, Traversing
  <2> QED
    BY <1>7, <2>1, <2>2 DEF Outside, Restart, Enroll, SavePolicy, Tick, ManualApply,
       NetworkChanges, vars
<1> QED
  BY <1>1, <1>2, <1>3, <1>4, <1>5, <1>6, <1>7, RoundSteps DEF Next, Transacts

\* Neither does the one that is about to be applied.
LEMMA WarmStep ==
    ASSUME TInv, ListInv, PastInv, LatchInv, WarmInv, [Next]_vars
    PROVE  WarmInv'
<1>1. CASE BeginRound \/ Quiet \/ Repair \/ EndRound \/ RecordRoute
  <2>1. Leaves
    BY <1>1, BeginEffect, QuietEffect, RepairEffect, EndEffect, ReceiptEffect DEF Leaves
  <2> QED
    BY <2>1, LeavesCool
<1>2. CASE PrepareSearch \/ ResumeSearch \/ Transacts
             \/ \E n \in Nodes : SkipCandidate(n) \/ CheckCandidate(n, TRUE)
                                   \/ CheckCandidate(n, FALSE)
  <2>1. pc' # "apply"
    BY <1>2, PrepareEffect, ResumeEffect, CandidateEffect DEF Transacts, StartTransaction,
       CommitTransaction, FailTransaction, RollBackCandidate, Finish
  <2> QED
    BY <2>1 DEF WarmInv
<1>3. CASE Intend
  <2>1. Now(r.rejected) = {}
    BY <1>3, IntendEffect, TraversalIsFree DEF Traversing, Searching
  <2> SUFFICES ASSUME NEW i \in DOMAIN log, Refused(log[i]), log[i].node = round.node,
                      log[i].epoch = epoch
               PROVE  now >= log[i].done + Cooldown
    BY <1>3, IntendEffect DEF WarmInv, Frame
  <2>2. Cooled(log[i], r.rejected, network, now, epoch)
    BY <2>1 DEF Now, Open
  <2>3. round.node \notin CoolingDown(r.rejected)
    BY <1>3, IntendEffect DEF ListInv
  <2> QED
    BY <2>2, <2>3 DEF Cooled, CoolingDown
<1>4. CASE Outside \/ UNCHANGED vars
  <2>1. CASE pc' = "idle"
    BY <2>1, LeavesCool DEF Leaves
  <2>2. CASE UNCHANGED <<pc, round, log, epoch>>
    BY <2>2 DEF WarmInv
  <2>3. ASSUME NEW w \in Networks, NetworkChanges(w)
        PROVE  WarmInv'
    <3>1. UNCHANGED <<log, pc, round>> /\ epoch' = epoch + 1
      BY <2>3 DEF NetworkChanges
    <3>2. \A i \in DOMAIN log : log[i].epoch # epoch'
      <4>1. \A i \in DOMAIN log : log[i].epoch <= epoch /\ log[i].epoch \in Int
        BY TransactionsOK DEF TInv, PastInv, LogPast
      <4>2. epoch \in Int
        BY DEF TInv
      <4> QED
        BY <3>1, <4>1, <4>2
    <3> QED
      BY <3>1, <3>2 DEF WarmInv
  <2> QED
    BY <1>4, <2>1, <2>2, <2>3 DEF Outside, Restart, Enroll, SavePolicy, Tick, ManualApply, vars
<1> QED
  BY <1>1, <1>2, <1>3, <1>4, RoundSteps DEF Next, Transacts

\* A rejection is not followed by the same node before its time.
LEMMA CoolsStep ==
    ASSUME TInv, WarmInv, RejectedCandidateCoolsDown, [Next]_vars
    PROVE  RejectedCandidateCoolsDown'
<1>0. log \in Seq(Transactions) /\ now \in Times
  BY DEF TInv
<1>1. CASE log' = log
  BY <1>1 DEF RejectedCandidateCoolsDown
<1>2. CASE log' = <<>>
  BY <1>2 DEF RejectedCandidateCoolsDown
<1>3. CASE StartTransaction
  <2> DEFINE t == [node |-> round.node, kind |-> round.kind, at |-> round.at,
                   end |-> "running", done |-> 0, epoch |-> epoch]
             n == Len(log) + 1
  <2>1. t \in Transactions
    BY <1>3, BoundAssumption DEF StartTransaction, TInv, Applying, Transactions, Times
  <2>2. log' = Append(log, t) /\ pc = "apply"
    BY <1>3 DEF StartTransaction
  <2>3. /\ t.node = round.node /\ t.kind = round.kind /\ t.at = round.at /\ t.epoch = epoch
    OBVIOUS
  <2> HIDE DEF t
  <2>4. /\ DOMAIN log' = DOMAIN log \cup {n} /\ log'[n] = t
        /\ \A i \in DOMAIN log : log'[i] = log[i] /\ i < n
    BY <1>0, <2>1, <2>2, LogOK
  <2> HIDE DEF n
  <2> SUFFICES ASSUME NEW i \in DOMAIN log', NEW j \in DOMAIN log', i < j,
                      log'[i].end = "rejected", log'[j].node = log'[i].node,
                      log'[j].epoch = log'[i].epoch,
                      log'[i].kind = "search", log'[j].kind = "search"
               PROVE  log'[j].at >= log'[i].done + Cooldown
    BY DEF RejectedCandidateCoolsDown
  <2>5. i \in DOMAIN log
    <3>1. j \in DOMAIN log => j < n /\ j \in Int /\ n \in Int /\ i \in Int
      BY <1>0, <2>4 DEF n
    <3>2. i = n => FALSE
      BY <1>0, <2>4, <3>1 DEF n
    <3> QED
      BY <2>4, <3>2
  <2>6. CASE j \in DOMAIN log
    BY <2>4, <2>5, <2>6 DEF RejectedCandidateCoolsDown
  <2>7. CASE j = n
    BY <2>2, <2>3, <2>4, <2>5, <2>7 DEF WarmInv, Refused
  <2> QED
    BY <2>4, <2>6, <2>7
<1>4. ASSUME NEW end \in {"committed", "rejected", "path", "doubt"}, log' = EndsAs(end),
             pc = "running"
      PROVE  RejectedCandidateCoolsDown'
  <2>1. /\ DOMAIN log' = DOMAIN log
        /\ \A i \in DOMAIN log : i # Len(log) => log'[i] = log[i]
        /\ \A i \in DOMAIN log : /\ log'[i].node = log[i].node /\ log'[i].kind = log[i].kind
                                 /\ log'[i].at = log[i].at /\ log'[i].epoch = log[i].epoch
    BY <1>0, <1>4, LogOK DEF TInv
  <2>2. \A i, j \in DOMAIN log : i < j => i # Len(log)
    BY <1>0
  <2> QED
    BY <2>1, <2>2 DEF RejectedCandidateCoolsDown
<1>5. CASE Transacts /\ ~StartTransaction
  BY <1>4, <1>5 DEF Transacts, CommitTransaction, FailTransaction, RollBackCandidate
<1>6. CASE Outside
  BY <1>1, <1>2, <1>4, <1>6, RestartEffect, EnrollEffect, PolicyEffect
     DEF Outside, Tick, ManualApply, NetworkChanges, Frame
<1>7. CASE \/ BeginRound \/ Quiet \/ Repair \/ EndRound \/ PrepareSearch \/ Intend
           \/ RecordRoute \/ ResumeSearch
           \/ \E n \in Nodes : SkipCandidate(n) \/ CheckCandidate(n, TRUE)
                                 \/ CheckCandidate(n, FALSE)
  BY <1>1, <1>7, BeginEffect, QuietEffect, RepairEffect, EndEffect, PrepareEffect, IntendEffect,
     ReceiptEffect, ResumeEffect, CandidateEffect DEF Frame
<1> QED
  BY <1>1, <1>3, <1>5, <1>6, <1>7, RoundSteps DEF Next, Transacts, vars

\* A node the service refused is not applied again within five minutes.
THEOREM RejectionsCoolDown == Spec => []RejectedCandidateCoolsDown
<1> DEFINE Inv == /\ TInv /\ RouteInv /\ PastInv /\ LatchInv
                  /\ ListInv /\ WarmInv /\ RejectedCandidateCoolsDown
<1>1. Init => Inv
  <2>1. Init => ListInv /\ WarmInv /\ RejectedCandidateCoolsDown
    BY DEF Init, ListInv, WarmInv, RejectedCandidateCoolsDown, Traversing, Searching, Applying
  <2> QED
    BY <2>1, TypesInit, RouteInit, PastInit, LatchInit
<1>2. Inv /\ [Next]_vars => Inv'
  BY TypesStep, RouteStep, PastStep, LatchStep, ListStep, WarmStep, CoolsStep
<1> QED
  BY <1>1, <1>2, PTL DEF Spec

-----------------------------------------------------------------------------
(* The budget.                                                              *)

\* Reservations in the order of time, none of the future.
Timed(sw, t) ==
    /\ sw \in Seq(Nat)
    /\ \A i, j \in DOMAIN sw : i <= j => sw[i] <= sw[j] /\ sw[j] <= t

\* Counted from the end, every transaction of the window has a reservation of its
\* own, not older than it; spare of the last ones are for transactions to come.
Covers(sw, l, t, spare) ==
    \A i \in DOMAIN l : l[i].at > t - Hour =>
        LET k == i + Len(sw) - Len(l) - spare IN
        k \in DOMAIN sw /\ l[i].at <= sw[k]
Ready(sw) == Timed(sw, now) /\ Covers(sw, log, now, 0)
Spare(sw) ==
    /\ Timed(sw, now) /\ Covers(sw, log, now, 1)
    /\ sw # <<>> /\ sw[Len(sw)] = round.at

LogInOrder ==
    \A i, j \in DOMAIN log : i <= j => log[i].at <= log[j].at /\ log[j].at <= now
\* No Limit + 1 transactions in a row fall within an hour.
LogWithinBudget ==
    /\ log # <<>> => Limit > 0
    /\ \A j \in DOMAIN log : j > Limit => log[j - Limit].at <= log[j].at - Hour
\* What is about to begin has its reservation, and its place in the log.
RoomToApply ==
    pc = "apply" =>
        /\ Limit > 0
        /\ Spare(r.switches)
        /\ ~blocked => Spare(file.entry.switches) /\ Spare(mem.entry.switches)
        /\ \A i \in DOMAIN log : log[i].at <= round.at
        /\ Len(log) >= Limit => log[Len(log) + 1 - Limit].at <= round.at - Hour

BudgetInv ==
    /\ Timed(mem.entry.switches, now) /\ Timed(r.switches, now)
    /\ Ready(file.entry.switches)
    /\ ~blocked => Ready(mem.entry.switches)
    /\ pc # "idle" => Ready(r.switches)
    /\ LogInOrder /\ LogWithinBudget /\ RoomToApply

-----------------------------------------------------------------------------
(* Reservations.                                                            *)

\* A set of numbers that is not empty has a least one.
LEMMA LeastNumber ==
    ASSUME NEW T \in SUBSET Nat, T # {}
    PROVE  \E x \in T : \A y \in T : x <= y
<1>1. PICK x \in T : \A y \in T : ~(<<y, x>> \in OpToRel(<, Nat))
  BY NatLessThanWellFounded, WFMin
<1>2. \A y \in T : ~(y < x)
  BY <1>1 DEF OpToRel
<1> QED
  BY <1>2

\* The reservations of the window are the ones after a certain place.
LEMMA RecentIs ==
    ASSUME NEW sw, Timed(sw, now), now \in Nat
    PROVE  \E k \in 0..Len(sw) :
             /\ Recent(sw) = SubSeq(sw, k + 1, Len(sw))
             /\ \A i \in DOMAIN sw : sw[i] > now - Hour <=> i > k
<1> DEFINE n == Len(sw)
           T == {i \in 0..n : \A j \in DOMAIN sw : j > i => sw[j] > now - Hour}
           aged == {i \in DOMAIN sw : sw[i] <= now - Hour}
<1>1. sw \in Seq(Nat) /\ n \in Nat /\ DOMAIN sw = 1..n /\ Hour \in Nat
  BY TimeAssumption DEF Timed
<1>2. n \in T /\ T \subseteq Nat
  BY <1>1
<1>3. PICK k \in T : \A y \in T : k <= y
  BY <1>2, LeastNumber
<1>4. \A i \in DOMAIN sw : i <= k => sw[i] <= now - Hour
  <2> SUFFICES ASSUME NEW i \in DOMAIN sw, i <= k, sw[i] > now - Hour
               PROVE  FALSE
    BY <1>1
  <2>1. k - 1 \in 0..n /\ k \in DOMAIN sw
    BY <1>1
  <2>2. sw[i] <= sw[k] /\ sw[k] \in Nat /\ sw[i] \in Nat
    BY <1>1, <2>1 DEF Timed
  <2>3. sw[k] > now - Hour
    BY <1>1, <2>2
  <2>4. \A j \in DOMAIN sw : j > k - 1 => sw[j] > now - Hour
    BY <1>1, <2>1, <2>3
  <2>5. k - 1 \in T
    BY <2>1, <2>4
  <2> QED
    BY <1>3, <2>1, <2>5
<1>5. k \in 0..n /\ \A j \in DOMAIN sw : j > k => sw[j] > now - Hour
  OBVIOUS
<1> HIDE DEF T
<1>6. aged = 1..k
  <2>1. \A i \in DOMAIN sw : i \in Nat /\ sw[i] \in Nat
    BY <1>1
  <2>2. \A i \in DOMAIN sw : sw[i] <= now - Hour <=> i <= k
    BY <1>1, <1>4, <1>5, <2>1
  <2>3. \A i : i \in 1..k <=> i \in 1..n /\ i <= k
    BY <1>1, <1>5
  <2> QED
    BY <1>1, <2>2, <2>3
<1>7. Recent(sw) = SubSeq(sw, k + 1, n)
  <2>1. 1 \in Int /\ k \in Int /\ (IF 1 > k THEN 0 ELSE k - 1 + 1) = k
    BY <1>1, <1>5
  <2>2. Cardinality(aged) = k
    BY <1>6, <2>1, FS_Interval
  <2> QED
    BY <2>2 DEF Recent
<1>8. \A i \in DOMAIN sw : sw[i] > now - Hour <=> i > k
  <2>1. \A i \in DOMAIN sw : i \in Nat /\ sw[i] \in Nat
    BY <1>1
  <2> QED
    BY <1>1, <1>4, <1>5, <2>1
<1> QED
  BY <1>5, <1>7, <1>8

\* How long the rest of a sequence is.
LEMMA LengthOfRest ==
    ASSUME NEW sw \in Seq(Nat), NEW k \in 0..Len(sw)
    PROVE  /\ SubSeq(sw, k + 1, Len(sw)) \in Seq(Nat)
           /\ Len(SubSeq(sw, k + 1, Len(sw))) = Len(sw) - k
           /\ \A i \in 1..(Len(sw) - k) : SubSeq(sw, k + 1, Len(sw))[i] = sw[k + i]
<1>1. \A n \in Nat : \A m \in 0..n :
        /\ m + 1 \in Int /\ n \in Int
        /\ n - (m + 1) + 1 = n - m /\ (m + 1 <= n \/ n - m = 0)
        /\ \A i \in 1..(n - m) : m + 1 + i - 1 = m + i
  OBVIOUS
<1> DEFINE n == Len(sw)
<1>2. n \in Nat /\ DOMAIN sw = 1..n /\ \A i \in 1..n : sw[i] \in Nat
  OBVIOUS
<1>3. \A i \in (k + 1)..n : sw[i] \in Nat
  BY <1>2
<1> HIDE DEF n
<1>4. k \in 0..n
  BY DEF n
<1>5. /\ SubSeq(sw, k + 1, n) \in Seq(Nat)
      /\ Len(SubSeq(sw, k + 1, n)) = IF k + 1 <= n THEN n - (k + 1) + 1 ELSE 0
      /\ \A i \in 1..(n - (k + 1) + 1) : SubSeq(sw, k + 1, n)[i] = sw[k + 1 + i - 1]
  BY <1>1, <1>2, <1>3, <1>4, SubSeqProperties
<1>6. n - (k + 1) + 1 = n - k /\ (k + 1 <= n \/ n - k = 0)
      /\ \A i \in 1..(n - k) : k + 1 + i - 1 = k + i
  BY <1>1, <1>2, <1>4
<1> QED
  BY <1>5, <1>6 DEF n

\* What ages covers nothing of the window.
LEMMA RecentCovers ==
    ASSUME NEW sw, Ready(sw), now \in Nat, log \in Seq(Transactions)
    PROVE  Ready(Recent(sw))
<1>1. PICK k \in 0..Len(sw) :
         /\ Recent(sw) = SubSeq(sw, k + 1, Len(sw))
         /\ \A i \in DOMAIN sw : sw[i] > now - Hour <=> i > k
  BY RecentIs DEF Ready
<1> DEFINE c == Recent(sw)
<1>2. sw \in Seq(Nat) /\ Len(sw) \in Nat /\ DOMAIN sw = 1..Len(sw) /\ Hour \in Nat
  BY TimeAssumption DEF Ready, Timed
<1>3. /\ c \in Seq(Nat) /\ Len(c) = Len(sw) - k
      /\ \A i \in 1..(Len(sw) - k) : c[i] = sw[k + i]
  BY <1>1, <1>2, LengthOfRest
<1> HIDE DEF c
<1>4. DOMAIN c = 1..(Len(sw) - k)
  BY <1>3
<1>5. Timed(c, now)
  <2> SUFFICES ASSUME NEW i \in DOMAIN c, NEW j \in DOMAIN c, i <= j
               PROVE  c[i] <= c[j] /\ c[j] <= now
    BY <1>3 DEF Timed
  <2>1. k + i \in DOMAIN sw /\ k + j \in DOMAIN sw /\ k + i <= k + j
    BY <1>2, <1>4
  <2>2. sw[k + i] <= sw[k + j] /\ sw[k + j] <= now
    BY <2>1 DEF Ready, Timed
  <2> QED
    BY <1>3, <1>4, <2>2
<1>6. Covers(c, log, now, 0)
  <2> SUFFICES ASSUME NEW i \in DOMAIN log, log[i].at > now - Hour
               PROVE  /\ i + Len(c) - Len(log) - 0 \in DOMAIN c
                      /\ log[i].at <= c[i + Len(c) - Len(log) - 0]
    BY DEF Covers
  <2> DEFINE q == i + Len(sw) - Len(log) - 0
  <2>1. q \in DOMAIN sw /\ log[i].at <= sw[q]
    BY DEF Ready, Covers
  <2>2. log[i].at \in Nat /\ i \in Nat /\ Len(log) \in Nat
    <3>1. log[i] \in Transactions
      OBVIOUS
    <3> QED
      BY <3>1, BoundAssumption DEF Transactions, Times
  <2>3. sw[q] \in Nat /\ sw[q] > now - Hour
    BY <1>2, <2>1, <2>2
  <2>4. q > k
    BY <1>1, <2>1, <2>3
  <2>5. q \in 1..Len(sw) /\ i + Len(c) - Len(log) - 0 = q - k
    BY <1>2, <1>3, <2>1, <2>2
  <2> HIDE DEF q
  <2>6. q - k \in 1..(Len(sw) - k) /\ k + (q - k) = q
    BY <1>2, <2>4, <2>5
  <2>7. c[q - k] = sw[q]
    BY <1>3, <2>6
  <2> QED
    BY <1>4, <2>1, <2>5, <2>6, <2>7
<1> QED
  BY <1>5, <1>6 DEF Ready, c

\* A new reservation is spare until its transaction begins.
LEMMA ReservationIsSpare ==
    ASSUME NEW sw, Ready(sw), now \in Nat, log \in Seq(Transactions)
    PROVE  /\ Ready(Append(sw, now))
           /\ Timed(Append(sw, now), now) /\ Covers(Append(sw, now), log, now, 1)
           /\ Append(sw, now) # <<>> /\ Append(sw, now)[Len(Append(sw, now))] = now
<1> DEFINE c == Append(sw, now)
           n == Len(sw)
<1>1. sw \in Seq(Nat) /\ n \in Nat /\ DOMAIN sw = 1..n /\ Hour \in Nat /\ Len(log) \in Nat
  BY TimeAssumption DEF Ready, Timed
<1>2. /\ c \in Seq(Nat) /\ Len(c) = n + 1 /\ DOMAIN c = 1..(n + 1) /\ c # <<>>
      /\ c[n + 1] = now /\ \A i \in 1..n : c[i] = sw[i]
  BY <1>1
<1> HIDE DEF c
<1>3. Timed(c, now)
  <2> SUFFICES ASSUME NEW i \in DOMAIN c, NEW j \in DOMAIN c, i <= j
               PROVE  c[i] <= c[j] /\ c[j] <= now
    BY <1>2 DEF Timed
  <2>1. CASE j = n + 1
    <3>1. c[i] <= now
      <4>1. CASE i = n + 1
        BY <1>2, <4>1
      <4>2. CASE i # n + 1
        <5>1. i \in DOMAIN sw
          BY <1>1, <1>2, <4>2
        <5> QED
          BY <1>1, <1>2, <5>1 DEF Ready, Timed
      <4> QED
        BY <4>1, <4>2
    <3> QED
      BY <1>2, <2>1, <3>1
  <2>2. CASE j # n + 1
    <3>1. i \in DOMAIN sw /\ j \in DOMAIN sw
      BY <1>1, <1>2, <2>2
    <3> QED
      BY <1>1, <1>2, <3>1 DEF Ready, Timed
  <2> QED
    BY <2>1, <2>2
<1>4. ASSUME NEW i \in DOMAIN log, log[i].at > now - Hour
      PROVE  /\ i + Len(c) - Len(log) - 1 \in DOMAIN c
             /\ log[i].at <= c[i + Len(c) - Len(log) - 1]
             /\ i + Len(c) - Len(log) - 0 \in DOMAIN c
             /\ log[i].at <= c[i + Len(c) - Len(log) - 0]
  <2> DEFINE q == i + n - Len(log) - 0
  <2>1. q \in DOMAIN sw /\ log[i].at <= sw[q]
    BY <1>4 DEF Ready, Covers
  <2>2. i \in Nat /\ log[i].at \in Nat
    <3>1. log[i] \in Transactions
      OBVIOUS
    <3> QED
      BY <3>1, BoundAssumption DEF Transactions, Times
  <2>3. i + Len(c) - Len(log) - 1 = q /\ i + Len(c) - Len(log) - 0 = q + 1
    BY <1>1, <1>2, <2>2
  <2> HIDE DEF q
  <2>4. q \in 1..n /\ q \in DOMAIN c /\ q + 1 \in DOMAIN c /\ q <= q + 1
    BY <1>1, <1>2, <2>1
  <2>5. c[q] = sw[q] /\ c[q] <= c[q + 1] /\ c[q] \in Nat /\ c[q + 1] \in Nat
    BY <1>2, <1>3, <2>4 DEF Timed
  <2> QED
    BY <2>1, <2>2, <2>3, <2>4, <2>5
<1>5. Covers(c, log, now, 0) /\ Covers(c, log, now, 1)
  BY <1>4 DEF Covers
<1> QED
  BY <1>2, <1>3, <1>5 DEF Ready, c

\* A reservation that goes back leaves the ones of the transactions that began.
LEMMA RefundCovers ==
    ASSUME NEW sw, Spare(sw), now \in Nat, log \in Seq(Transactions)
    PROVE  Ready(SubSeq(sw, 1, Len(sw) - 1))
<1> DEFINE n == Len(sw)
           c == SubSeq(sw, 1, n - 1)
<1>1. /\ sw \in Seq(Nat) /\ n \in Nat \ {0} /\ DOMAIN sw = 1..n /\ Hour \in Nat
      /\ Len(log) \in Nat
  BY TimeAssumption DEF Spare, Timed
<1>2. c \in Seq(Nat) /\ Len(c) = n - 1 /\ \A i \in 1..(n - 1) : c[i] = sw[i]
  <2>1. \A i \in 1..(n - 1) : sw[i] \in Nat
    BY <1>1
  <2>2. /\ c \in Seq(Nat) /\ Len(c) = IF 1 <= n - 1 THEN n - 1 - 1 + 1 ELSE 0
        /\ \A i \in 1..(n - 1 - 1 + 1) : c[i] = sw[1 + i - 1]
    BY <1>1, <2>1, SubSeqProperties, 1 \in Int, n - 1 \in Int
  <2>3. n - 1 - 1 + 1 = n - 1 /\ (IF 1 <= n - 1 THEN n - 1 ELSE 0) = n - 1
    BY <1>1
  <2>4. \A i \in 1..(n - 1) : 1 + i - 1 = i
    BY <1>1
  <2> HIDE DEF c
  <2> QED
    BY <2>2, <2>3, <2>4
<1> HIDE DEF c
<1>3. DOMAIN c = 1..(n - 1)
  BY <1>2
<1>4. Timed(c, now)
  <2> SUFFICES ASSUME NEW i \in DOMAIN c, NEW j \in DOMAIN c, i <= j
               PROVE  c[i] <= c[j] /\ c[j] <= now
    BY <1>2 DEF Timed
  <2>1. i \in DOMAIN sw /\ j \in DOMAIN sw
    BY <1>1, <1>3
  <2> QED
    BY <1>2, <1>3, <2>1 DEF Spare, Timed
<1>5. ASSUME NEW i \in DOMAIN log, log[i].at > now - Hour
      PROVE  /\ i + Len(c) - Len(log) - 0 \in DOMAIN c
             /\ log[i].at <= c[i + Len(c) - Len(log) - 0]
  <2> DEFINE q == i + n - Len(log) - 1
  <2>1. q \in DOMAIN sw /\ log[i].at <= sw[q]
    BY <1>5 DEF Spare, Covers
  <2>2. i \in 1..Len(log)
    OBVIOUS
  <2>3. i + Len(c) - Len(log) - 0 = q /\ q <= n - 1
    BY <1>1, <1>2, <2>2
  <2> HIDE DEF q
  <2>4. q \in 1..(n - 1)
    BY <1>1, <2>1, <2>3
  <2> QED
    BY <1>2, <1>3, <2>1, <2>3, <2>4
<1>6. Covers(c, log, now, 0)
  BY <1>5 DEF Covers
<1> QED
  BY <1>4, <1>6 DEF Ready, c

\* What covered the log still covers it when time goes on, or when the end of a
\* transaction is recorded.
SameTimes(l) == Len(l) = Len(log) /\ \A i \in DOMAIN log : l[i].at = log[i].at
LEMMA TimeGoesOn ==
    ASSUME NEW sw, NEW l, NEW t \in Nat, NEW spare \in {0, 1}, now \in Nat, t >= now,
           log \in Seq(Transactions), l \in Seq(Transactions), SameTimes(l),
           Timed(sw, now), Covers(sw, log, now, spare)
    PROVE  Timed(sw, t) /\ Covers(sw, l, t, spare)
<1>1. Timed(sw, t)
  BY DEF Timed
<1>2. DOMAIN l = DOMAIN log /\ Hour \in Nat
  BY TimeAssumption DEF SameTimes
<1>3. \A i \in DOMAIN log : l[i].at > t - Hour => log[i].at > now - Hour
  <2> SUFFICES ASSUME NEW i \in DOMAIN log, l[i].at > t - Hour
               PROVE  log[i].at > now - Hour
    OBVIOUS
  <2>1. log[i] \in Transactions
    OBVIOUS
  <2>2. log[i].at \in Nat
    BY <2>1, BoundAssumption DEF Transactions, Times
  <2> QED
    BY <1>2, <2>2 DEF SameTimes
<1>4. Covers(sw, l, t, spare)
  BY <1>2, <1>3 DEF Covers, SameTimes
<1> QED
  BY <1>1, <1>4

\* A transaction that begins takes its reservation.
LEMMA BeginsReserved ==
    ASSUME NEW sw, NEW x \in Transactions, now \in Nat, log \in Seq(Transactions),
           Spare(sw), x.at = round.at
    PROVE  Timed(sw, now) /\ Covers(sw, Append(log, x), now, 0)
<1> DEFINE l == Append(log, x)
           n == Len(log)
<1>1. /\ n \in Nat /\ Len(l) = n + 1 /\ DOMAIN log = 1..n /\ DOMAIN l = 1..(n + 1)
      /\ l[n + 1] = x /\ \A i \in 1..n : l[i] = log[i]
  OBVIOUS
<1> HIDE DEF l
<1>2. Timed(sw, now) /\ sw # <<>> /\ sw[Len(sw)] = round.at /\ sw \in Seq(Nat)
  BY DEF Spare, Timed
<1>3. ASSUME NEW i \in DOMAIN l, l[i].at > now - Hour
      PROVE  /\ i + Len(sw) - Len(l) - 0 \in DOMAIN sw
             /\ l[i].at <= sw[i + Len(sw) - Len(l) - 0]
  <2>1. CASE i = n + 1
    <3>1. i + Len(sw) - Len(l) - 0 = Len(sw)
      BY <1>1, <1>2, <2>1
    <3>2. Len(sw) \in DOMAIN sw /\ sw[Len(sw)] \in Nat
      BY <1>2
    <3> QED
      BY <1>1, <1>2, <2>1, <3>1, <3>2
  <2>2. CASE i # n + 1
    <3>1. i \in DOMAIN log /\ l[i] = log[i] /\ i \in Nat
      BY <1>1, <2>2
    <3>2. i + Len(sw) - Len(l) - 0 = i + Len(sw) - Len(log) - 1
      BY <1>1, <1>2, <3>1
    <3> QED
      BY <1>3, <3>1, <3>2 DEF Spare, Covers
  <2> QED
    BY <2>1, <2>2
<1>4. Covers(sw, l, now, 0)
  BY <1>3 DEF Covers
<1> QED
  BY <1>2, <1>4 DEF l

\* Where there is room for a reservation there is room for a transaction.
LEMMA RoomInTheLog ==
    ASSUME NEW sw, Ready(sw), now \in Nat, log \in Seq(Transactions),
           Len(Recent(sw)) < Limit, Len(log) >= Limit
    PROVE  log[Len(log) + 1 - Limit].at <= now - Hour
<1> DEFINE i == Len(log) + 1 - Limit
           n == Len(sw)
<1>1. /\ sw \in Seq(Nat) /\ n \in Nat /\ DOMAIN sw = 1..n /\ Hour \in Nat
      /\ Len(log) \in Nat /\ Limit \in Nat
  BY TimeAssumption, LimitAssumption DEF Ready, Timed
<1>2. PICK k \in 0..n :
         /\ Recent(sw) = SubSeq(sw, k + 1, n)
         /\ \A j \in DOMAIN sw : sw[j] > now - Hour <=> j > k
  BY RecentIs DEF Ready
<1>3. Len(Recent(sw)) = n - k
  BY <1>1, <1>2, LengthOfRest
<1> HIDE DEF n
<1>4. n - k < Limit /\ n - k >= 0 /\ Len(log) >= Limit
  BY <1>1, <1>2, <1>3
<1>11. Limit > 0 /\ i \in DOMAIN log
  BY <1>1, <1>4
<1>5. log[i].at \in Nat
  <2>1. log[i] \in Transactions
    BY <1>11
  <2> QED
    BY <2>1, BoundAssumption DEF Transactions, Times
<1>6. SUFFICES ASSUME log[i].at > now - Hour PROVE FALSE
  BY <1>1, <1>5
<1> DEFINE q == i + n - Len(log) - 0
<1>7. q \in DOMAIN sw /\ log[i].at <= sw[q]
  BY <1>6, <1>11 DEF Ready, Covers, n
<1>8. q = n + 1 - Limit
  BY <1>1
<1> HIDE DEF q
<1>9. sw[q] > now - Hour
  BY <1>1, <1>5, <1>6, <1>7
<1>10. q > k
  BY <1>2, <1>7, <1>9
<1> QED
  BY <1>1, <1>4, <1>8, <1>10

-----------------------------------------------------------------------------
(* What the steps of a round do to the reservations.                        *)

\* Only a reservation, its return and its age change them.
LEMMA SameSwitches ==
    ASSUME NEW e, EntryOK(e)
    PROVE  /\ NoFailures(e).switches = e.switches
           /\ StillCooling(e).switches = e.switches
           /\ \A t : [e EXCEPT !.next = t].switches = e.switches
           /\ \A s : [e EXCEPT !.search = s].switches = e.switches
           /\ \A k, t : Counted(e, k, t).switches = e.switches
           /\ \A node, profile, at : Rejected(e, node, profile, at).switches = e.switches
           /\ Reserved(e).switches = Append(Recent(e.switches), now)
           /\ Refunded(e).switches = IF e.switches = <<>> THEN e.switches
                                     ELSE SubSeq(e.switches, 1, Len(e.switches) - 1)
           /\ [e EXCEPT !.switches = Recent(@)].switches = Recent(e.switches)
<1>1. /\ StillCooling(e).switches = e.switches
      /\ \A t : [e EXCEPT !.next = t].switches = e.switches
      /\ \A s : [e EXCEPT !.search = s].switches = e.switches
      /\ \A node, profile, at : Rejected(e, node, profile, at).switches = e.switches
      /\ Reserved(e).switches = Append(Recent(e.switches), now)
      /\ Refunded(e).switches = IF e.switches = <<>> THEN e.switches
                                ELSE SubSeq(e.switches, 1, Len(e.switches) - 1)
      /\ [e EXCEPT !.switches = Recent(@)].switches = Recent(e.switches)
  BY DEF EntryOK, StillCooling, Rejected, Reserved, Refunded
<1>2. ASSUME NEW k, NEW t PROVE Counted(e, k, t).switches = e.switches
  BY DEF EntryOK, Counted
<1>3. NoFailures(e).switches = e.switches
  <2>1. NoFailures(e) = Counted(e, 0, 0)
    BY DEF NoFailures, Counted
  <2> QED
    BY <1>2, <2>1
<1> QED
  BY <1>1, <1>2, <1>3

LEMMA ObservedSwitches ==
    ASSUME NEW e, EntryOK(e), NEW node \in Nodes, NEW profile \in Networks, NEW verdict
    PROVE  Observed(e, node, profile, verdict).switches = e.switches
<1> DEFINE c == NoFailures(e)
           b == [c EXCEPT !.failNode = node]
           d == About(e, node, profile)
<1>1. EntryOK(c) /\ c.switches = e.switches
  BY NoFailuresOK, SameSwitches
<1>2. d = IF e.failNode = node /\ e.net = profile THEN e ELSE [b EXCEPT !.net = profile]
  BY DEF About
<1> HIDE DEF c
<1>3. EntryOK(b) /\ b.switches = e.switches
  BY <1>1 DEF EntryOK
<1> HIDE DEF b
<1>4. d.switches = e.switches /\ EntryOK(d)
  BY <1>2, <1>3, AboutOK DEF EntryOK
<1> HIDE DEF d
<1>5. Observed(e, node, profile, verdict) \in
        {NoFailures(d), d, Counted(d, 1, now), Counted(d, 2, now)}
  BY ObservedIs DEF d
<1> QED
  BY <1>4, <1>5, SameSwitches

LEMMA LoadedSwitches ==
    ASSUME NEW d, DocOK(d)
    PROVE  Loaded(d).entry.switches = d.entry.switches
<1> DEFINE c == NoFailures(d.entry)
           e == [c EXCEPT !.next = 0]
<1>1. EntryOK(c) /\ c.switches = d.entry.switches
  BY NoFailuresOK, SameSwitches DEF DocOK
<1>2. Loaded(d) = [d EXCEPT !.entry = e]
  BY DEF Loaded
<1> HIDE DEF c
<1>3. e.switches = d.entry.switches
  BY <1>1, SameSwitches
<1> HIDE DEF e
<1> QED
  BY <1>2, <1>3 DEF DocOK

\* What a step leaves that reserves nothing: the reservations of the round, those
\* that have not aged, or all but the last.
LEMMA QuietSwitches ==
    ASSUME TInv, Quiet
    PROVE  \/ r'.switches = r.switches
           \/ /\ pc = "apply" /\ ~blocked
              /\ r'.switches = IF r.switches = <<>> THEN r.switches
                               ELSE SubSeq(r.switches, 1, Len(r.switches) - 1)
<1>1. EntryOK(r)
  BY DEF TInv
<1> DEFINE c == StillCooling(r)
<1>2. EntryOK(c) /\ c.switches = r.switches
  BY <1>1, StillCoolingOK, SameSwitches
<1>3. CASE \/ ManualChange \/ Interrupted \/ EndSearch \/ ApplyRefused \/ ResumeRefused
  BY <1>3 DEF ManualChange, Interrupted, EndSearch, ApplyRefused, ResumeRefused, Finish
<1>4. CASE NoCurrentNode
  BY <1>2, <1>4 DEF NoCurrentNode
<1>5. CASE RateLimited
  <2> DEFINE d == NoFailures(c)
  <2>1. r' = [d EXCEPT !.next = now + 1]
    BY <1>5 DEF RateLimited, Finish
  <2> HIDE DEF c
  <2>2. EntryOK(d) /\ d.switches = c.switches
    BY <1>2, NoFailuresOK, SameSwitches
  <2> HIDE DEF d
  <2> QED
    BY <1>2, <2>1, <2>2, SameSwitches
<1>6. CASE Inconclusive
  <2> DEFINE d == NoFailures(r)
  <2>1. r' = r \/ r' = [d EXCEPT !.next = now + 1]
    BY <1>6 DEF Inconclusive, Finish
  <2>2. EntryOK(d) /\ d.switches = r.switches
    BY <1>1, NoFailuresOK, SameSwitches
  <2> HIDE DEF d
  <2>3. \A t : [d EXCEPT !.next = t].switches = d.switches
    BY <2>2, SameSwitches
  <2> QED
    BY <2>1, <2>2, <2>3
<1>7. CASE ApplyNotStarted
  BY <1>1, <1>7, SameSwitches DEF ApplyNotStarted, Finish
<1>8. ASSUME NEW verdict, CheckCurrent(verdict)
      PROVE  r'.switches = r.switches
  <2> DEFINE seen == Observed(c, applied, round.profile, verdict)
             t == IF verdict = "FAIL" THEN now + Gap ELSE seen.next
  <2>1. pc = "service" /\ applied \in Nodes /\ round.profile \in Networks /\ now \in Times
    BY <1>8 DEF CheckCurrent, TInv
  <2>2. EntryOK(seen) /\ seen.switches = c.switches
    BY <1>2, <2>1, ObservedOK, ObservedSwitches
  <2>3. r' = seen \/ r' = [seen EXCEPT !.next = t]
    BY <1>8 DEF CheckCurrent, Finish
  <2> HIDE DEF seen, c
  <2>4. \A u : [seen EXCEPT !.next = u].switches = seen.switches
    BY <2>2, SameSwitches
  <2> HIDE DEF t
  <2> QED
    BY <1>2, <2>2, <2>3, <2>4
<1> QED
  BY <1>3, <1>4, <1>5, <1>6, <1>7, <1>8 DEF Quiet

\* The steps of a search, and a receipt, reserve nothing.
LEMMA SearchSwitches ==
    ASSUME TInv,
           \/ PrepareSearch \/ RecordRoute \/ ResumeSearch
           \/ \E n \in Nodes : SkipCandidate(n) \/ CheckCandidate(n, TRUE)
                                 \/ CheckCandidate(n, FALSE)
    PROVE  r'.switches = r.switches
<1>1. EntryOK(r)
  BY DEF TInv
<1>2. \A e, next : PersistThen(e, next) => r' = e
  BY PersistStores DEF TInv
<1>3. CASE PrepareSearch
  <2>1. r' = r \/ \E s : r' = [r EXCEPT !.search = s]
    BY <1>2, <1>3 DEF PrepareSearch, Finish
  <2>2. \A s : [r EXCEPT !.search = s].switches = r.switches
    BY <1>1, SameSwitches
  <2> QED
    BY <2>1, <2>2
<1>4. ASSUME NEW n \in Nodes, SkipCandidate(n) \/ CheckCandidate(n, TRUE)
               \/ CheckCandidate(n, FALSE)
      PROVE  r'.switches = r.switches
  <2>1. r' = [r EXCEPT !.search = Consumed(r.search, n)]
    BY <1>2, <1>4 DEF SkipCandidate, CheckCandidate
  <2> QED
    BY <1>1, <2>1, SameSwitches
<1>5. CASE RecordRoute
  <2> DEFINE b == NoFailures(r)
  <2>1. EntryOK(b) /\ b.switches = r.switches
    BY <1>1, NoFailuresOK, SameSwitches
  <2>2. r' = r \/ r' = [b EXCEPT !.search.halted = FALSE]
    BY <1>5 DEF RecordRoute, Finish
  <2> HIDE DEF b
  <2>3. [b EXCEPT !.search.halted = FALSE].switches = b.switches
    BY <2>1 DEF EntryOK
  <2> QED
    BY <2>1, <2>2, <2>3
<1>6. CASE ResumeSearch
  <2> DEFINE c == IF pc = "rejected" THEN Rejected(r, round.node, round.profile, round.at)
                  ELSE r
  <2>1. PersistThen([c EXCEPT !.search.halted = FALSE], "search")
    BY <1>6 DEF ResumeSearch
  <2>2. /\ round.node \in Nodes /\ round.profile \in Networks /\ round.at \in Times
        /\ pc \in {"rejected", "path"}
    BY <1>6 DEF ResumeSearch, TInv
  <2>3. EntryOK(c) /\ c.switches = r.switches
    <3>1. CASE pc = "rejected"
      <4> DEFINE b == Rejected(r, round.node, round.profile, round.at)
      <4>1. EntryOK(b)
        BY <1>1, <2>2, RejectedOK
      <4>2. b.switches = r.switches
        BY <1>1, SameSwitches
      <4>3. c = b
        BY <3>1
      <4> HIDE DEF b, c
      <4> QED
        BY <4>1, <4>2, <4>3
    <3>2. CASE pc # "rejected"
      BY <1>1, <3>2
    <3> QED
      BY <3>1, <3>2
  <2> HIDE DEF c
  <2>4. r' = [c EXCEPT !.search.halted = FALSE]
    BY <1>2, <2>1
  <2>5. [c EXCEPT !.search.halted = FALSE].switches = c.switches
    BY <2>3 DEF EntryOK
  <2> QED
    BY <2>3, <2>4, <2>5
<1> QED
  BY <1>3, <1>4, <1>5, <1>6

\* A reservation needs room and is stored; without room only what aged is dropped.
ReservesOrNot ==
    \/ UNCHANGED doc /\ pc' = "limited" /\ r'.switches \in {r.switches, Recent(r.switches)}
    \/ /\ HasBudget(r) /\ r'.switches = Append(Recent(r.switches), now)
       /\ Stored(WithEntry(r')) /\ WithEntry(r').entry = r'
       /\ round'.at = now /\ pc' \in {"apply", "review"}
LEMMA ReservationEffect ==
    ASSUME TInv, Repair \/ Intend
    PROVE  pc # "idle" /\ Frame /\ ReservesOrNot
<1>1. EntryOK(r) /\ DocOK(mem) /\ blocked \in BOOLEAN
  BY DEF TInv
<1>2. CASE Repair
  <2>1. pc # "idle" /\ Frame
    BY <1>2, RepairEffect
  <2>2. CASE ~HasBudget(r)
    <3>1. r' = [r EXCEPT !.switches = Recent(@)] /\ pc' = "limited" /\ UNCHANGED doc
      BY <1>2, <2>2 DEF Repair, Finish
    <3> QED
      BY <1>1, <2>1, <3>1, SameSwitches DEF ReservesOrNot
  <2>3. CASE HasBudget(r)
    <3>1. /\ r' = Reserved(r) /\ Publish(r') /\ pc' = "apply"
          /\ round' = [round EXCEPT !.node = applied, !.kind = "repair", !.at = now]
      BY <1>2, <2>3 DEF Repair
    <3>2. round'.at = now
      BY <3>1 DEF TInv
    <3>3. EntryOK(r') /\ r'.switches = Append(Recent(r.switches), now)
      BY <1>1, <3>1, BudgetOK, SameSwitches
    <3>4. Stored(WithEntry(r')) /\ WithEntry(r').entry = r'
      BY <1>1, <3>1, <3>3, PublishStores, WithEntryOK
    <3> QED
      BY <2>1, <2>3, <3>1, <3>2, <3>3, <3>4 DEF ReservesOrNot
  <2> QED
    BY <2>2, <2>3
<1>3. CASE Intend
  <2>1. pc # "idle" /\ Frame /\ round'.at = now
    BY <1>3, IntendEffect
  <2>2. \/ Finish(r, "limited") /\ UNCHANGED doc
        \/ Finish([r EXCEPT !.switches = Recent(@)], "limited") /\ UNCHANGED doc
        \/ HasBudget(r) /\ PersistThen([Reserved(r) EXCEPT !.search.halted = TRUE], "apply")
    BY <1>3 DEF Intend
  <2>3. CASE Finish(r, "limited") /\ UNCHANGED doc
    BY <2>1, <2>3 DEF Finish, ReservesOrNot
  <2>4. CASE Finish([r EXCEPT !.switches = Recent(@)], "limited") /\ UNCHANGED doc
    BY <1>1, <2>1, <2>4, SameSwitches DEF Finish, ReservesOrNot
  <2>5. CASE HasBudget(r)
              /\ PersistThen([Reserved(r) EXCEPT !.search.halted = TRUE], "apply")
    <3> DEFINE b == Reserved(r)
               e == [b EXCEPT !.search.halted = TRUE]
    <3>1. EntryOK(b) /\ b.switches = Append(Recent(r.switches), now)
      BY <1>1, BudgetOK, SameSwitches
    <3>2. PersistThen(e, "apply")
      BY <2>5
    <3> HIDE DEF b
    <3>3. e.switches = b.switches
      BY <3>1 DEF EntryOK
    <3> HIDE DEF e
    <3>4. r' = e /\ Stored(WithEntry(e)) /\ pc' \in {"apply", "review"}
      BY <1>1, <3>2, PersistStores
    <3>5. WithEntry(e).entry = e
      BY <1>1 DEF WithEntry, DocOK
    <3> QED
      BY <2>1, <2>5, <3>1, <3>3, <3>4, <3>5 DEF ReservesOrNot
  <2> QED
    BY <2>2, <2>3, <2>4, <2>5
<1> QED
  BY <1>2, <1>3

\* The entry a round begins with, and the one it leaves.
LEMMA RoundSwitches ==
    ASSUME TInv, BeginRound \/ EndRound
    PROVE  \/ /\ pc = "idle" /\ pc' = "service" /\ ~blocked
              /\ r'.switches = mem.entry.switches
              /\ Stored(WithEntry(r')) /\ WithEntry(r').entry = r'
           \/ /\ pc \in Ends /\ pc' = "idle" /\ r' = FreshEntry
              /\ \E e : /\ e.switches = r.switches
                        /\ Stored(WithEntry(e)) /\ WithEntry(e).entry = e
<1>1. EntryOK(r) /\ DocOK(mem) /\ blocked \in BOOLEAN /\ EntryOK(mem.entry)
  BY DEF TInv, DocOK
<1>2. CASE BeginRound
  <2>1. r' = [mem.entry EXCEPT !.next = now + Interval]
    BY <1>2 DEF BeginRound
  <2>2. r'.switches = mem.entry.switches
    BY <1>1, <2>1, SameSwitches
  <2> QED
    BY <1>2, <2>2, BeginEffect
<1>3. CASE EndRound
  <2> DEFINE t == IF r.next <= now THEN now + Interval ELSE r.next
             e == [r EXCEPT !.next = t]
  <2>1. t \in Nat
    BY <1>1, TimeAssumption, BoundAssumption DEF TInv, EntryOK, Times
  <2>2. Publish(e)
    BY <1>3 DEF EndRound
  <2> HIDE DEF t
  <2>3. EntryOK(e) /\ e.switches = r.switches
    BY <1>1, <2>1, NextCheckOK, SameSwitches
  <2> HIDE DEF e
  <2>4. Stored(WithEntry(e)) /\ WithEntry(e).entry = e
    BY <1>1, <2>2, <2>3, PublishStores, WithEntryOK
  <2> QED
    BY <1>3, <2>3, <2>4, EndEffect
<1> QED
  BY <1>2, <1>3

-----------------------------------------------------------------------------
(* The budget is kept.                                                      *)

\* Without reservations nothing is out of order.
LEMMA NoReservation ==
    ASSUME NEW t
    PROVE  FreshEntry.switches = <<>> /\ Timed(<<>>, t)
BY DEF FreshEntry, Timed

\* A stored document covers the log if its entry does.
LEMMA StoredReady ==
    ASSUME BudgetInv, NEW d, Stored(d), Ready(d.entry.switches)
    PROVE  /\ Timed(mem'.entry.switches, now) /\ Ready(file'.entry.switches)
           /\ ~blocked' => Ready(mem'.entry.switches)
BY DEF BudgetInv, Stored, Ready

\* A step that leaves the time and the log.
LEMMA BudgetKept ==
    ASSUME BudgetInv, UNCHANGED <<log, now>>,
           Timed(mem'.entry.switches, now), Timed(r'.switches, now),
           Ready(file'.entry.switches), ~blocked' => Ready(mem'.entry.switches),
           pc' # "idle" => Ready(r'.switches), pc' # "apply" \/ RoomToApply'
    PROVE  BudgetInv'
<1>1. LogInOrder' /\ LogWithinBudget'
  BY DEF BudgetInv, LogInOrder, LogWithinBudget
<1>2. RoomToApply'
  BY DEF RoomToApply
<1> QED
  BY <1>1, <1>2 DEF BudgetInv, Ready

\* A step that lets time go on, or records how the last transaction ended.
LEMMA BudgetMoves ==
    ASSUME TInv, BudgetInv, log' \in Seq(Transactions), SameTimes(log'),
           now' \in Nat, now' >= now, UNCHANGED file,
           Timed(mem'.entry.switches, now), Timed(r'.switches, now),
           ~blocked' => Ready(mem'.entry.switches), pc' # "idle" => Ready(r'.switches),
           pc' # "apply" \/ UNCHANGED <<pc, r, mem, blocked, round, log>>
    PROVE  BudgetInv'
<1>1. now \in Nat /\ log \in Seq(Transactions) /\ Hour \in Nat
  BY BoundAssumption, TimeAssumption DEF TInv, Times
<1>2. \A sw : Ready(sw) => Timed(sw, now') /\ Covers(sw, log', now', 0)
  BY <1>1, TimeGoesOn DEF Ready
<1>3. \A sw : Timed(sw, now) => Timed(sw, now')
  BY <1>1 DEF Timed
<1>4. DOMAIN log' = DOMAIN log
  BY <1>1 DEF SameTimes
<1>5. \A i \in DOMAIN log : log[i].at \in Nat /\ log'[i].at = log[i].at
  <2>1. \A i \in DOMAIN log : log[i] \in Transactions
    BY <1>1
  <2> QED
    BY <2>1, BoundAssumption DEF SameTimes, Transactions, Times
<1>6. LogInOrder'
  BY <1>1, <1>4, <1>5 DEF BudgetInv, LogInOrder
<1>7. LogWithinBudget'
  <2>1. log' # <<>> => log # <<>>
    BY <1>1 DEF SameTimes
  <2>2. \A j \in DOMAIN log : j > Limit => j - Limit \in DOMAIN log
    BY <1>1, LimitAssumption
  <2> QED
    BY <1>4, <1>5, <2>1, <2>2 DEF BudgetInv, LogWithinBudget
<1>8. RoomToApply'
  <2>1. CASE pc' # "apply"
    BY <2>1 DEF RoomToApply
  <2>2. CASE pc' = "apply" /\ UNCHANGED <<pc, r, mem, blocked, round, log>>
    <3>1. RoomToApply /\ pc = "apply"
      BY <2>2 DEF BudgetInv
    <3>2. \A sw : Timed(sw, now) /\ Covers(sw, log, now, 1)
                    => Timed(sw, now') /\ Covers(sw, log', now', 1)
      BY <1>1, TimeGoesOn
    <3>3. ASSUME NEW sw, Spare(sw)
          PROVE  /\ Timed(sw, now') /\ Covers(sw, log', now', 1)
                 /\ sw # <<>> /\ sw[Len(sw)] = round'.at
      BY <2>2, <3>2, <3>3 DEF Spare
    <3> QED
      BY <2>2, <3>1, <3>3 DEF RoomToApply, Spare
  <2> QED
    BY <2>1, <2>2
<1>9. /\ Timed(mem.entry.switches, now)' /\ Timed(r.switches, now)'
      /\ Ready(file.entry.switches)'
      /\ (~blocked => Ready(mem.entry.switches))'
      /\ (pc # "idle" => Ready(r.switches))'
  BY <1>2, <1>3 DEF BudgetInv, Ready
<1> QED
  BY <1>6, <1>7, <1>8, <1>9 DEF BudgetInv

\* The steps of a round that reserve nothing.
LEMMA BudgetOfRound ==
    ASSUME TInv, BudgetInv,
           \/ BeginRound \/ Quiet \/ EndRound \/ PrepareSearch \/ RecordRoute \/ ResumeSearch
           \/ \E n \in Nodes : SkipCandidate(n) \/ CheckCandidate(n, TRUE)
                                 \/ CheckCandidate(n, FALSE)
    PROVE  BudgetInv'
<1>0. now \in Nat /\ log \in Seq(Transactions)
  BY BoundAssumption DEF TInv, Times
<1>1. \A sw : Ready(sw) => Timed(sw, now)
  BY DEF Ready
<1>2. /\ Timed(mem.entry.switches, now) /\ Ready(file.entry.switches)
      /\ ~blocked => Ready(mem.entry.switches)
      /\ pc # "idle" => Ready(r.switches)
  BY DEF BudgetInv
<1>3. CASE BeginRound
  <2>1. Frame /\ pc' = "service"
    BY <1>3, BeginEffect
  <2>2. /\ pc = "idle" /\ ~blocked /\ r'.switches = mem.entry.switches
        /\ Stored(WithEntry(r')) /\ WithEntry(r').entry = r'
    BY <1>3, <2>1, RoundSwitches
  <2>3. Ready(r'.switches)
    BY <1>2, <2>2
  <2> QED
    BY <1>1, <2>1, <2>2, <2>3, StoredReady, BudgetKept DEF Frame
<1>4. CASE EndRound
  <2>1. pc \in Ends /\ pc' = "idle" /\ Frame /\ r' = FreshEntry /\ pc # "idle"
    BY <1>4, EndEffect, Points
  <2>2. PICK e : e.switches = r.switches /\ Stored(WithEntry(e)) /\ WithEntry(e).entry = e
    BY <1>4, <2>1, RoundSwitches
  <2>3. Ready(WithEntry(e).entry.switches)
    BY <1>2, <2>1, <2>2
  <2>4. Timed(r'.switches, now)
    BY <2>1, NoReservation
  <2> QED
    BY <2>1, <2>2, <2>3, <2>4, StoredReady, BudgetKept DEF Frame
<1>5. CASE Quiet
  <2>1. /\ pc # "idle" /\ Frame /\ UNCHANGED doc
        /\ pc' \in Ends \cup {"prepare", "repair"}
    BY <1>5, QuietEffect
  <2>2. pc' # "apply"
    BY <2>1 DEF Ends
  <2>3. Ready(r'.switches)
    <3>1. CASE r'.switches = r.switches
      BY <1>2, <2>1, <3>1
    <3>2. CASE /\ pc = "apply" /\ ~blocked
               /\ r'.switches = IF r.switches = <<>> THEN r.switches
                                ELSE SubSeq(r.switches, 1, Len(r.switches) - 1)
      <4>1. Spare(r.switches)
        BY <3>2 DEF BudgetInv, RoomToApply
      <4>2. r.switches # <<>>
        BY <4>1 DEF Spare
      <4> QED
        BY <1>0, <3>2, <4>1, <4>2, RefundCovers
    <3> QED
      BY <1>5, <3>1, <3>2, QuietSwitches
  <2> QED
    BY <1>1, <1>2, <2>1, <2>2, <2>3, BudgetKept DEF Frame, doc
<1>6. CASE \/ PrepareSearch \/ ResumeSearch
           \/ \E n \in Nodes : SkipCandidate(n) \/ CheckCandidate(n, TRUE)
                                 \/ CheckCandidate(n, FALSE)
  <2>1. /\ pc # "idle" /\ pc' # "apply" /\ Frame
        /\ UNCHANGED doc \/ (Stored(WithEntry(r')) /\ WithEntry(r').entry = r')
    BY <1>6, PrepareEffect, ResumeEffect, CandidateEffect
  <2>2. Ready(r'.switches)
    <3>1. r'.switches = r.switches
      BY <1>6, SearchSwitches
    <3> QED
      BY <1>2, <2>1, <3>1
  <2>3. CASE UNCHANGED doc
    BY <1>1, <1>2, <2>1, <2>2, <2>3, BudgetKept DEF Frame, doc
  <2>4. CASE Stored(WithEntry(r')) /\ WithEntry(r').entry = r'
    BY <1>1, <2>1, <2>2, <2>4, StoredReady, BudgetKept DEF Frame
  <2> QED
    BY <2>1, <2>3, <2>4
<1>7. CASE RecordRoute
  <2>1. /\ pc = "record" /\ pc' \in Ends /\ Frame
        /\ UNCHANGED doc \/ \E d : Stored(d) /\ d.entry = mem.entry
    BY <1>7, ReceiptEffect
  <2>2. ~blocked /\ pc' # "apply"
    BY <2>1 DEF TInv, Ends
  <2>3. Ready(r'.switches) /\ Ready(mem.entry.switches)
    <3>1. r'.switches = r.switches
      BY <1>7, SearchSwitches
    <3> QED
      BY <1>2, <2>1, <2>2, <3>1
  <2>4. CASE UNCHANGED doc
    BY <1>1, <1>2, <2>1, <2>2, <2>3, <2>4, BudgetKept DEF Frame, doc
  <2>5. CASE \E d : Stored(d) /\ d.entry = mem.entry
    BY <1>1, <2>1, <2>2, <2>3, <2>5, StoredReady, BudgetKept DEF Frame
  <2> QED
    BY <2>1, <2>4, <2>5
<1> QED
  BY <1>3, <1>4, <1>5, <1>6, <1>7

\* A reservation, or what aged is dropped.
LEMMA BudgetOfReservation ==
    ASSUME TInv, BudgetInv, Repair \/ Intend
    PROVE  BudgetInv'
<1>0. now \in Nat /\ log \in Seq(Transactions)
  BY BoundAssumption DEF TInv, Times
<1>1. pc # "idle" /\ Frame /\ ReservesOrNot
  BY ReservationEffect
<1>2. /\ Timed(mem.entry.switches, now) /\ Ready(file.entry.switches)
      /\ ~blocked => Ready(mem.entry.switches)
      /\ Ready(r.switches) /\ LogInOrder
  BY <1>1 DEF BudgetInv
<1> DEFINE c == Recent(r.switches)
<1>3. Ready(c)
  BY <1>0, <1>2, RecentCovers
<1>4. CASE UNCHANGED doc /\ pc' = "limited" /\ r'.switches \in {r.switches, c}
  <2>1. Ready(r'.switches)
    BY <1>2, <1>3, <1>4
  <2> QED
    BY <1>1, <1>2, <1>4, <2>1, BudgetKept DEF Frame, doc, Ready
<1>5. CASE /\ HasBudget(r) /\ r'.switches = Append(c, now)
           /\ Stored(WithEntry(r')) /\ WithEntry(r').entry = r'
           /\ round'.at = now /\ pc' \in {"apply", "review"}
  <2> DEFINE sw == Append(c, now)
  <2>1. /\ Ready(sw) /\ Timed(sw, now) /\ Covers(sw, log, now, 1)
        /\ sw # <<>> /\ sw[Len(sw)] = now
    BY <1>0, <1>3, ReservationIsSpare
  <2>2. r'.switches = sw /\ WithEntry(r').entry.switches = sw
    BY <1>5
  <2>3. Limit > 0 /\ Len(c) < Limit
    BY <1>5 DEF HasBudget
  <2>4. Len(log) >= Limit => log[Len(log) + 1 - Limit].at <= now - Hour
    BY <1>0, <1>2, <2>3, RoomInTheLog
  <2>5. \A i \in DOMAIN log : log[i].at <= now
    BY <1>0, <1>2 DEF LogInOrder
  <2> HIDE DEF sw, c
  <2>6. Spare(r.switches)'
    BY <1>1, <1>5, <2>1, <2>2 DEF Spare, Frame
  <2>7. ~blocked' => file'.entry.switches = r'.switches /\ mem'.entry.switches = r'.switches
    BY <1>5 DEF Stored
  <2>8. (~blocked => Spare(file.entry.switches) /\ Spare(mem.entry.switches))'
    BY <2>6, <2>7 DEF Spare
  <2>9. RoomToApply'
    BY <1>1, <1>5, <2>3, <2>4, <2>5, <2>6, <2>8 DEF RoomToApply, Frame
  <2> QED
    BY <1>1, <1>5, <2>1, <2>2, <2>9, StoredReady, BudgetKept DEF Frame
<1> QED
  BY <1>1, <1>4, <1>5 DEF ReservesOrNot

\* A transaction that begins takes what was reserved for it.
LEMMA BudgetOfStart ==
    ASSUME TInv, BudgetInv, StartTransaction
    PROVE  BudgetInv'
<1> DEFINE x == [node |-> round.node, kind |-> round.kind, at |-> round.at,
                 end |-> "running", done |-> 0, epoch |-> epoch]
           n == Len(log)
<1>0. now \in Nat /\ log \in Seq(Transactions) /\ Limit \in Nat /\ Hour \in Nat /\ n \in Nat
  BY BoundAssumption, LimitAssumption, TimeAssumption DEF TInv, Times
<1>1. x \in Transactions /\ x.at = round.at
  BY BoundAssumption DEF StartTransaction, TInv, Applying, Transactions, Times
<1>2. /\ pc = "apply" /\ pc' = "running" /\ ~blocked /\ log' = Append(log, x)
      /\ UNCHANGED <<file, mem, blocked, r, round, now>>
  BY DEF StartTransaction, GuardHolds, doc, world
<1> HIDE DEF x
<1>3. /\ Limit > 0
      /\ Spare(r.switches) /\ Spare(file.entry.switches) /\ Spare(mem.entry.switches)
      /\ \A i \in DOMAIN log : log[i].at <= round.at
      /\ n >= Limit => log[n + 1 - Limit].at <= round.at - Hour
      /\ LogInOrder /\ LogWithinBudget
  BY <1>2 DEF BudgetInv, RoomToApply
<1>4. \A sw : Spare(sw) => Ready(sw)'
  BY <1>0, <1>1, <1>2, BeginsReserved DEF Ready
<1>5. round.at <= now /\ round.at \in Nat
  <2> DEFINE sw == r.switches
  <2>1. /\ sw \in Seq(Nat) /\ sw # <<>> /\ sw[Len(sw)] = round.at
        /\ \A i \in DOMAIN sw : sw[i] <= now
    BY <1>3 DEF Spare, Timed
  <2> HIDE DEF sw
  <2>2. Len(sw) \in DOMAIN sw /\ sw[Len(sw)] \in Nat
    BY <2>1
  <2> QED
    BY <2>1, <2>2
<1>6. /\ DOMAIN log' = 1..(n + 1) /\ DOMAIN log = 1..n /\ Len(log') = n + 1
      /\ log'[n + 1] = x /\ \A i \in 1..n : log'[i] = log[i]
  BY <1>0, <1>1, <1>2
<1>7. \A i \in 1..n : log[i].at \in Nat
  <2>1. \A i \in 1..n : log[i] \in Transactions
    BY <1>0
  <2> QED
    BY <2>1, BoundAssumption DEF Transactions, Times
<1>8. LogInOrder'
  <2> SUFFICES ASSUME NEW i \in 1..(n + 1), NEW j \in 1..(n + 1), i <= j
               PROVE  log'[i].at <= log'[j].at /\ log'[j].at <= now
    BY <1>2, <1>6 DEF LogInOrder
  <2>1. CASE j = n + 1
    <3>1. CASE i = n + 1
      BY <1>1, <1>5, <1>6, <2>1, <3>1
    <3>2. CASE i # n + 1
      <4>1. i \in 1..n
        BY <1>0, <3>2
      <4> QED
        BY <1>1, <1>3, <1>5, <1>6, <2>1, <4>1
    <3> QED
      BY <3>1, <3>2
  <2>2. CASE j # n + 1
    <3>1. i \in 1..n /\ j \in 1..n
      BY <1>0, <2>2
    <3> QED
      BY <1>3, <1>6, <3>1 DEF LogInOrder
  <2> QED
    BY <2>1, <2>2
<1>9. LogWithinBudget'
  <2> SUFFICES ASSUME NEW j \in 1..(n + 1), j > Limit
               PROVE  log'[j - Limit].at <= log'[j].at - Hour
    BY <1>3, <1>6 DEF LogWithinBudget
  <2>1. j - Limit \in 1..n
    BY <1>0, <1>3
  <2>2. CASE j = n + 1
    <3>1. n >= Limit /\ j - Limit = n + 1 - Limit
      BY <1>0, <2>2
    <3> QED
      BY <1>1, <1>3, <1>6, <2>1, <2>2, <3>1
  <2>3. CASE j # n + 1
    <3>1. j \in 1..n
      BY <1>0, <2>3
    <3> QED
      BY <1>3, <1>6, <2>1, <3>1 DEF LogWithinBudget
  <2> QED
    BY <2>2, <2>3
<1>10. RoomToApply'
  BY <1>2 DEF RoomToApply
<1>11. /\ Ready(r.switches)' /\ Ready(file.entry.switches)' /\ Ready(mem.entry.switches)'
  BY <1>2, <1>3, <1>4 DEF Ready
<1> QED
  BY <1>8, <1>9, <1>10, <1>11 DEF BudgetInv, Ready

\* The log with another end has the same times.
LEMMA EndedTimes ==
    ASSUME TInv, pc = "running",
           NEW end \in {"committed", "rejected", "path", "doubt"}, log' = EndsAs(end)
    PROVE  SameTimes(log')
BY LogOK DEF TInv, SameTimes

\* A transaction that ends.
LEMMA BudgetOfEnd ==
    ASSUME TInv, TInv', BudgetInv, CommitTransaction \/ FailTransaction
             \/ \E end \in {"rejected", "path"} : RollBackCandidate(end)
    PROVE  BudgetInv'
<1>1. /\ pc = "running" /\ ~blocked /\ pc' # "apply"
      /\ UNCHANGED <<file, mem, blocked, r, now>>
  BY DEF CommitTransaction, FailTransaction, RollBackCandidate, Finish, doc, world, TInv
<1>2. SameTimes(log')
  BY <1>1, EndedTimes DEF CommitTransaction, FailTransaction, RollBackCandidate
<1>3. log' \in Seq(Transactions) /\ now \in Nat
  BY BoundAssumption DEF TInv, Times
<1>4. /\ Ready(mem.entry.switches) /\ Ready(r.switches)
  BY <1>1 DEF BudgetInv
<1> QED
  BY <1>1, <1>2, <1>3, <1>4, BudgetMoves DEF Ready

\* The operator, the router and time.
LEMMA BudgetOutside ==
    ASSUME TInv, TInv', BudgetInv, Outside
    PROVE  BudgetInv'
<1>0. /\ now \in Nat /\ now' \in Nat /\ log \in Seq(Transactions)
      /\ log' \in Seq(Transactions) /\ SameTimes(log)
  BY BoundAssumption DEF TInv, Times, SameTimes
<1>1. /\ Timed(mem.entry.switches, now) /\ Timed(r.switches, now)
      /\ Ready(file.entry.switches)
      /\ ~blocked => Ready(mem.entry.switches)
  BY DEF BudgetInv
<1>2. CASE Restart
  <2>1. /\ mem' = Loaded(file) /\ pc' = "idle" /\ r' = FreshEntry
        /\ UNCHANGED <<file, now>>
        /\ \/ pc = "running" /\ log' = EndsAs("doubt")
           \/ log' = log
    BY <1>2 DEF Restart
  <2>2. mem'.entry.switches = file.entry.switches
    BY <2>1, LoadedSwitches DEF TInv
  <2>3. SameTimes(log')
    BY <1>0, <2>1, EndedTimes
  <2>4. Timed(r'.switches, now)
    BY <2>1, NoReservation
  <2> QED
    BY <1>0, <1>1, <2>1, <2>2, <2>3, <2>4, BudgetMoves DEF Ready
<1>3. CASE Enroll
  <2>1. /\ pc = "idle" /\ UNCHANGED <<pc, r, round, now>>
        /\ Written(Enrolled) \/ NotWritten(Enrolled)
        /\ log' = IF file' = Enrolled THEN <<>> ELSE log
    BY <1>3 DEF Enroll, Enrolled, world
  <2>2. Stored(Enrolled)
    BY <2>1, WrittenStores, NotWrittenStores DEF TInv
  <2>3. mem'.entry.switches = <<>> /\ (file' = Enrolled => file'.entry.switches = <<>>)
    BY <2>2, EnrolledOK, NoReservation DEF Stored
  <2>4. CASE file' = Enrolled
    <3>1. log' = <<>> /\ file'.entry.switches = <<>>
      BY <2>1, <2>3, <2>4
    <3>2. Ready(file.entry.switches)' /\ Ready(mem.entry.switches)'
      BY <2>3, <3>1, NoReservation DEF Ready, Covers
    <3>3. LogInOrder' /\ LogWithinBudget' /\ RoomToApply'
      BY <2>1, <3>1 DEF LogInOrder, LogWithinBudget, RoomToApply
    <3> QED
      BY <1>1, <2>1, <3>2, <3>3 DEF BudgetInv, Ready
  <2>5. CASE file' # Enrolled
    <3>1. blocked' /\ UNCHANGED <<file, log>>
      BY <2>1, <2>2, <2>5 DEF Stored
    <3>2. Timed(mem'.entry.switches, now)
      BY <2>3, NoReservation
    <3> QED
      BY <1>1, <2>1, <3>1, <3>2, BudgetKept
  <2> QED
    BY <2>4, <2>5
<1>4. CASE SavePolicy
  <2>1. /\ pc = "idle" /\ ~blocked /\ Frame /\ UNCHANGED <<pc, r, round>>
        /\ mem'.entry = mem.entry /\ file'.entry \in {file.entry, mem.entry}
    BY <1>4, PolicyEffect
  <2> QED
    BY <1>1, <2>1, BudgetKept DEF Frame
<1>5. CASE Tick
  <2>1. /\ UNCHANGED <<file, mem, blocked, pc, r, round, log>> /\ now' = now + 1
    BY <1>5 DEF Tick, doc
  <2>2. pc # "idle" => Ready(r.switches)
    BY DEF BudgetInv
  <2>3. now' >= now
    BY <1>0, <2>1
  <2> QED
    BY <1>0, <1>1, <2>1, <2>2, <2>3, BudgetMoves
<1>6. CASE \/ \E n \in Nodes \cup {None} : ManualApply(n)
           \/ \E w \in Networks : NetworkChanges(w)
  <2>1. UNCHANGED <<file, mem, blocked, pc, r, round, log, now>>
    BY <1>6 DEF ManualApply, NetworkChanges, doc
  <2>2. pc # "idle" => Ready(r.switches)
    BY DEF BudgetInv
  <2>3. now' >= now
    BY <1>0, <2>1
  <2> QED
    BY <1>0, <1>1, <2>1, <2>2, <2>3, BudgetMoves
<1> QED
  BY <1>2, <1>3, <1>4, <1>5, <1>6 DEF Outside

\* The budget is inductive beside the types.
LEMMA BudgetStep == TInv /\ TInv' /\ BudgetInv /\ [Next]_vars => BudgetInv'
<1> SUFFICES ASSUME TInv, TInv', BudgetInv, [Next]_vars PROVE BudgetInv'
  OBVIOUS
<1>1. CASE UNCHANGED vars
  <2>1. UNCHANGED <<file, mem, blocked, pc, r, round, log, now>>
    BY <1>1 DEF vars
  <2>2. RoomToApply'
    BY <2>1 DEF BudgetInv, RoomToApply, Spare
  <2> QED
    BY <2>1, <2>2, BudgetKept DEF BudgetInv
<1> QED
  BY <1>1, RoundSteps, BudgetOfRound, BudgetOfReservation, BudgetOfStart, BudgetOfEnd,
     BudgetOutside DEF Next

\* Nothing is reserved at first.
LEMMA BudgetInit == Init => BudgetInv
<1> SUFFICES ASSUME Init PROVE BudgetInv
  OBVIOUS
<1>1. /\ mem.entry = FreshEntry /\ file.entry = FreshEntry /\ r = FreshEntry
      /\ pc = "idle" /\ log = <<>>
  BY DEF Init
<1>2. Ready(FreshEntry.switches)
  BY <1>1, NoReservation DEF Ready, Covers
<1> QED
  BY <1>1, <1>2 DEF BudgetInv, Ready, LogInOrder, LogWithinBudget, RoomToApply

\* When Limit + 1 transactions in a row take more than an hour, no hour has more
\* than Limit.
LEMMA HourWithinBudget ==
    ASSUME log \in Seq(Transactions), LogInOrder, LogWithinBudget
    PROVE  SwitchesStayWithinBudget
<1> SUFFICES ASSUME NEW j \in DOMAIN log
             PROVE  Cardinality({i \in DOMAIN log : i <= j /\ log[i].at > log[j].at - Hour})
                       <= Limit
  BY DEF SwitchesStayWithinBudget
<1> DEFINE S == {i \in DOMAIN log : i <= j /\ log[i].at > log[j].at - Hour}
           a == j - Limit + 1
<1>1. /\ Limit \in Nat /\ Limit > 0 /\ Hour \in Nat
      /\ Len(log) \in Nat /\ DOMAIN log = 1..Len(log)
  BY LimitAssumption, TimeAssumption DEF LogWithinBudget
<1>2. \A i \in DOMAIN log : log[i].at \in Nat
  <2>1. \A i \in DOMAIN log : log[i] \in Transactions
    OBVIOUS
  <2> QED
    BY <2>1, BoundAssumption DEF Transactions, Times
<1>3. S \subseteq a..j
  <2> SUFFICES ASSUME NEW i \in S PROVE i >= a
    BY <1>1
  <2>1. i \in DOMAIN log /\ i <= j /\ log[i].at > log[j].at - Hour
    OBVIOUS
  <2>2. SUFFICES ASSUME i <= j - Limit PROVE FALSE
    BY <1>1, <2>1
  <2>3. j - Limit \in DOMAIN log /\ j > Limit
    BY <1>1, <2>1, <2>2
  <2>4. log[i].at <= log[j - Limit].at
    BY <2>1, <2>2, <2>3 DEF LogInOrder
  <2>5. log[j - Limit].at <= log[j].at - Hour
    BY <2>3 DEF LogWithinBudget
  <2> QED
    BY <1>1, <1>2, <2>1, <2>3, <2>4, <2>5
<1>4. Cardinality(a..j) = Limit /\ IsFiniteSet(a..j)
  <2>1. a \in Int /\ j \in Int /\ (IF a > j THEN 0 ELSE j - a + 1) = Limit
    BY <1>1
  <2> HIDE DEF a
  <2> QED
    BY <2>1, FS_Interval
<1> HIDE DEF S, a
<1>5. Cardinality(S) <= Cardinality(a..j)
  BY <1>3, <1>4, FS_Subset
<1> QED
  BY <1>4, <1>5 DEF S

\* No hour sees more applications than the policy allows (ReserveSwitch,
\* decision.go:82), across restarts, lost writes and returned reservations.
THEOREM BudgetIsKept == Spec => []SwitchesStayWithinBudget
<1> DEFINE Inv == TInv /\ BudgetInv
<1>1. Init => Inv
  BY TypesInit, BudgetInit
<1>2. Inv /\ [Next]_vars => Inv'
  BY TypesStep, BudgetStep
<1>3. Inv => SwitchesStayWithinBudget
  BY HourWithinBudget DEF TInv, BudgetInv
<1> QED
  BY <1>1, <1>2, <1>3, PTL DEF Spec

-----------------------------------------------------------------------------
(* Types, with the reservations and the bounds.                             *)

CountersOK ==
    /\ round.checks \in 0..Checks
    /\ faults \in 0..MaxFaults /\ crashes \in 0..MaxCrashes /\ requests \in 0..MaxRequests

\* At most one write of a step fails.
FaultStep == faults' = faults \/ (faults < MaxFaults /\ faults' = faults + 1)
LEMMA WriteFaults ==
    /\ \A d : Written(d) \/ NotWritten(d) \/ Unsaved(d) => FaultStep
    /\ \A e : Publish(e) => FaultStep
    /\ \A e, next : PersistThen(e, next) => FaultStep
BY DEF Written, NotWritten, Unsaved, FaultStep, Publish, PersistThen

\* The counters of a round.
LEMMA CountersOfRound ==
    ASSUME TInv, CountersOK, Round \/ Search \/ Application
    PROVE  CountersOK'
<1>0. /\ MaxFaults \in Nat /\ Checks \in Nat /\ UNCHANGED bounds
      /\ round.checks \in 0..Checks /\ faults \in 0..MaxFaults
  BY BoundAssumption, LimitAssumption DEF CountersOK, Round, Search, Application, BeginRound,
     ManualChange, NoCurrentNode, RateLimited, Interrupted, CheckCurrent, Repair, EndRound,
     PrepareSearch, EndSearch, Inconclusive, Intend, SkipCandidate, CheckCandidate,
     ApplyRefused, ApplyNotStarted, StartTransaction, CommitTransaction, RollBackCandidate,
     FailTransaction, RecordRoute, ResumeSearch, ResumeRefused
<1>1. FaultStep /\ round'.checks \in 0..Checks
  <2>1. CASE BeginRound \/ EndRound
    BY <1>0, <2>1, WriteFaults DEF BeginRound, EndRound, NoRound
  <2>2. CASE Quiet
    BY <1>0, <2>2 DEF Quiet, ManualChange, NoCurrentNode, RateLimited, Interrupted,
       CheckCurrent, EndSearch, Inconclusive, ApplyRefused, ApplyNotStarted, ResumeRefused,
       FaultStep, doc, TInv
  <2>3. CASE Repair
    <3>1. UNCHANGED doc \/ Publish(r')
      BY <2>3 DEF Repair
    <3>2. round'.checks = round.checks
      BY <2>3 DEF Repair, TInv
    <3> QED
      BY <1>0, <3>1, <3>2, WriteFaults DEF FaultStep, doc
  <2>4. CASE Intend
    <3>1. UNCHANGED doc \/ \E e : PersistThen(e, "apply")
      BY <2>4 DEF Intend
    <3>2. round'.checks = round.checks
      BY <2>4 DEF Intend, TInv
    <3> QED
      BY <1>0, <3>1, <3>2, WriteFaults DEF FaultStep, doc
  <2>5. CASE PrepareSearch \/ ResumeSearch
    <3>1. UNCHANGED doc \/ \E e : PersistThen(e, "search")
      BY <2>5 DEF PrepareSearch, ResumeSearch
    <3>2. round' = round
      BY <2>5 DEF PrepareSearch, ResumeSearch
    <3> QED
      BY <1>0, <3>1, <3>2, WriteFaults DEF FaultStep, doc
  <2>6. ASSUME NEW n \in Nodes,
               SkipCandidate(n) \/ CheckCandidate(n, TRUE) \/ CheckCandidate(n, FALSE)
        PROVE  FaultStep /\ round'.checks \in 0..Checks
    <3>1. \E e, q : PersistThen(e, q)
      BY <2>6 DEF SkipCandidate, CheckCandidate
    <3>2. \/ round' = round
          \/ /\ round.checks < Checks
             /\ round' = [round EXCEPT !.checks = @ + 1, !.node = n]
      BY <2>6 DEF SkipCandidate, CheckCandidate, MayCheck
    <3>3. CASE round' = round
      BY <1>0, <3>1, <3>3, WriteFaults
    <3>4. CASE /\ round.checks < Checks
               /\ round' = [round EXCEPT !.checks = @ + 1, !.node = n]
      <4>1. round'.checks = round.checks + 1
        BY <3>4 DEF TInv
      <4> QED
        BY <1>0, <3>1, <3>4, <4>1, WriteFaults
    <3> QED
      BY <3>2, <3>3, <3>4
  <2>7. CASE RecordRoute
    BY <1>0, <2>7, WriteFaults DEF RecordRoute, FaultStep, doc
  <2>8. CASE Transacts
    <3>1. UNCHANGED doc
      BY <2>8 DEF Transacts, StartTransaction, CommitTransaction, FailTransaction,
         RollBackCandidate
    <3>2. round' = round \/ round' = [round EXCEPT !.at = now]
      BY <2>8 DEF Transacts, StartTransaction, CommitTransaction, FailTransaction,
         RollBackCandidate
    <3>3. round'.checks = round.checks
      BY <3>2 DEF TInv
    <3> QED
      BY <1>0, <3>1, <3>3 DEF FaultStep, doc
  <2> QED
    BY <2>1, <2>2, <2>3, <2>4, <2>5, <2>6, <2>7, <2>8, RoundSteps DEF Transacts
<1> QED
  BY <1>0, <1>1 DEF CountersOK, FaultStep, bounds

\* The counters outside a round.
LEMMA CountersOutside ==
    ASSUME TInv, CountersOK, Outside \/ UNCHANGED vars
    PROVE  CountersOK'
<1>0. /\ MaxFaults \in Nat /\ Checks \in Nat /\ MaxCrashes \in Nat /\ MaxRequests \in Nat
      /\ round.checks \in 0..Checks /\ faults \in 0..MaxFaults
      /\ crashes \in 0..MaxCrashes /\ requests \in 0..MaxRequests
  BY BoundAssumption, LimitAssumption DEF CountersOK
<1>1. FaultStep
  <2>1. CASE Enroll
    BY <2>1, WriteFaults DEF Enroll
  <2>2. CASE SavePolicy
    BY <2>2, WriteFaults DEF SavePolicy
  <2>3. CASE faults' = faults
    BY <2>3 DEF FaultStep
  <2> QED
    BY <2>1, <2>2, <2>3 DEF Outside, Restart, Tick, ManualApply, NetworkChanges, doc, vars
<1>2. /\ \/ crashes' = crashes
         \/ crashes < MaxCrashes /\ crashes' = crashes + 1
      /\ \/ requests' = requests
         \/ requests < MaxRequests /\ requests' = requests + 1
      /\ round' = round \/ round' = NoRound
  BY DEF Outside, Restart, Enroll, SavePolicy, Tick, ManualApply, NetworkChanges, bounds, vars
<1>3. round'.checks \in 0..Checks
  BY <1>0, <1>2 DEF NoRound
<1> QED
  BY <1>0, <1>1, <1>2, <1>3 DEF CountersOK, FaultStep

\* An entry with timely reservations.
LEMMA TimelyEntry ==
    ASSUME NEW e, EntryOK(e), Timed(e.switches, now), now \in Times
    PROVE  e \in Entries
<1> DEFINE sw == e.switches
           n == Len(sw)
<1>1. sw \in Seq(Nat) /\ \A i \in DOMAIN sw : sw[i] <= now
  BY DEF Timed
<1> HIDE DEF sw
<1>2. n \in Nat /\ DOMAIN sw = 1..n /\ sw = [i \in 1..n |-> sw[i]]
  BY <1>1
<1>3. \A i \in 1..n : sw[i] \in Times
  BY <1>1, <1>2, BoundAssumption DEF Times
<1> HIDE DEF n
<1>4. sw \in [1..n -> Times]
  BY <1>2, <1>3
<1>5. sw \in Seq(Times)
  BY <1>2, <1>4
<1> QED
  BY <1>5 DEF EntryOK, Entries, sw

\* Every variable holds a value of its type, the reservations (Runtime.Switches,
\* decision.go:10) included.
THEOREM TypesAreKept == Spec => []TypeOK
<1> DEFINE Inv == TInv /\ BudgetInv /\ CountersOK
<1>1. Init => Inv
  <2>1. Init => CountersOK
    BY BoundAssumption, LimitAssumption DEF Init, CountersOK, NoRound
  <2> QED
    BY <2>1, TypesInit, BudgetInit
<1>2. Inv /\ [Next]_vars => Inv'
  BY TypesStep, BudgetStep, CountersOfRound, CountersOutside DEF Next
<1>3. Inv => TypeOK
  <2> SUFFICES ASSUME Inv PROVE TypeOK
    OBVIOUS
  <2>1. now \in Times
    BY DEF TInv
  <2>2. file.entry \in Entries /\ mem.entry \in Entries /\ r \in Entries
    BY <2>1, TimelyEntry DEF TInv, DocOK, BudgetInv, Ready
  <2>3. file \in Documents /\ mem \in Documents
    BY <2>2 DEF TInv, DocOK, Documents
  <2>4. round \in [profile : Networks \cup {None}, checks : 0..Checks,
                   node : Nodes \cup {None}, kind : {"search", "repair"},
                   expired : BOOLEAN, at : Times]
    BY DEF TInv, CountersOK
  <2> QED
    BY <2>2, <2>3, <2>4 DEF TInv, CountersOK, TypeOK
<1> QED
  BY <1>1, <1>2, <1>3, PTL DEF Spec

=============================================================================
