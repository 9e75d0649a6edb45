------------------------- MODULE OperationGateProofs -------------------------
(***************************************************************************)
(* Proofs about OperationGate for any finite set of goroutines and         *)
(* callbacks and any bound on the generation.                              *)
(***************************************************************************)
EXTENDS OperationGate, FiniteSetTheorems, TLAPS

(***************************************************************************)
(* The inductive invariant.  LeaseExclusion and CallbackUnderLease say what *)
(* a caller relies on; the other conjuncts say why: the owner object lives *)
(* only under its exclusive lease, a callback only under an owner that has *)
(* not drained, one call at a time is at the door of an owner, and no one  *)
(* has seen a generation that is yet to come.                              *)
(***************************************************************************)
OwnerHoldsLease == \A o \in Ops : owner[o] # "none" => mode[o] = "exclusive"

CallbackHasOwner ==
    \A u \in Uses :
       /\ use[u].phase \in {"checking", "passed"} => owner[use[u].owner] = "open"
       /\ use[u].phase \in {"running", "returned", "confirmed"}
             => owner[use[u].owner] \in {"open", "closing"}

\* owner.mu is held by one call at a time.
OneAtTheDoor == \A o \in Ops : \A u, w \in AtDoor(o) : u = w

UsesCounted == \A o \in Ops : uses[o] = Cardinality(Callbacks(o))

SeenNotAhead == \A o \in Ops : seen[o].known => seen[o].value <= generation

IInv ==
    /\ TypeOK
    /\ LeaseExclusion
    /\ OwnerHoldsLease
    /\ CallbackHasOwner
    /\ OneAtTheDoor
    /\ UsesCounted
    /\ SeenNotAhead
    /\ ObservationIsFresh

-----------------------------------------------------------------------------
(* Counting. *)

\* The holders of a lease and the callbacks of an owner can be counted.
LEMMA Countable ==
    /\ IsFiniteSet(Holders)
    /\ \A o : IsFiniteSet(Callbacks(o))
<1>1. Holders \subseteq Ops
  BY DEF Holders
<1>2. \A o : Callbacks(o) \subseteq Uses
  BY DEF Callbacks
<1> QED
  BY <1>1, <1>2, OpsAssumption, UsesAssumption, FS_Subset

\* One more member, or one less, is counted as one.
LEMMA OneMore ==
    ASSUME NEW S, IsFiniteSet(S), NEW T, NEW x, x \notin S, T = S \cup {x}
    PROVE  Cardinality(T) = Cardinality(S) + 1
BY FS_AddElement

LEMMA OneLess ==
    ASSUME NEW S, IsFiniteSet(S), NEW T, NEW x, x \in S, T = S \ {x}
    PROVE  /\ Cardinality(S) \in Nat \ {0}
           /\ Cardinality(T) = Cardinality(S) - 1
<1>1. Cardinality(S) \in Nat /\ Cardinality(S) # 0
  BY FS_CardinalityType, FS_EmptySet
<1> QED
  BY <1>1, FS_RemoveElement

\* A counter of zero leases means that nobody holds one.
LEMMA IdleMeansNobody ==
    ASSUME LeaseExclusion, active = 0
    PROVE  Holders = {}
BY Countable, FS_EmptySet DEF LeaseExclusion

\* A user that is in some phase of a call is calling under an owner.
LEMMA CallTyped ==
    ASSUME TypeOK, NEW u \in Uses
    PROVE  /\ use[u] = NoUse \/ use[u] \in Calls
           /\ use[u] = NoUse <=> use[u].phase = "none"
           /\ use[u].phase # "none" => use[u] \in Calls /\ use[u].owner \in Ops
<1>1. use[u] = NoUse \/ use[u] \in Calls
  BY DEF TypeOK, Calls
<1>2. NoUse.phase = "none" /\ \A c \in Calls : c.phase # "none" /\ c.owner \in Ops
  BY DEF NoUse, Calls, Phases
<1> QED
  BY <1>1, <1>2

\* What becomes of a call whose phase and outcome are set.
LEMMA CallMoved ==
    ASSUME TypeOK, NEW u \in Uses, use[u].phase # "none", NEW phase \in Phases
    PROVE  /\ use' = [use EXCEPT ![u].phase = phase] =>
                 /\ use'[u].phase = phase /\ use'[u].kind = use[u].kind
                 /\ use'[u].owner = use[u].owner
                 /\ \A w \in Uses \ {u} : use'[w] = use[w]
           /\ \A ok \in BOOLEAN :
                 use' = [use EXCEPT ![u].phase = phase, ![u].ok = ok] =>
                    /\ use'[u].phase = phase /\ use'[u].kind = use[u].kind
                    /\ use'[u].owner = use[u].owner /\ use'[u].ok = ok
                    /\ \A w \in Uses \ {u} : use'[w] = use[w]
<1>1. use[u] \in Calls
  BY CallTyped
<1>2. /\ [use[u] EXCEPT !.phase = phase].phase = phase
      /\ [use[u] EXCEPT !.phase = phase].kind = use[u].kind
      /\ [use[u] EXCEPT !.phase = phase].owner = use[u].owner
  BY <1>1 DEF Calls
<1>3. \A ok \in BOOLEAN :
         /\ [use[u] EXCEPT !.phase = phase, !.ok = ok].phase = phase
         /\ [use[u] EXCEPT !.phase = phase, !.ok = ok].kind = use[u].kind
         /\ [use[u] EXCEPT !.phase = phase, !.ok = ok].owner = use[u].owner
         /\ [use[u] EXCEPT !.phase = phase, !.ok = ok].ok = ok
  BY <1>1 DEF Calls
<1> QED
  BY <1>2, <1>3 DEF TypeOK

-----------------------------------------------------------------------------
(* Admission and release of a lease. *)

\* Every admission keeps the invariant, whatever it does to the owner object
\* of the lease.
LEMMA AdmitKeeps ==
    ASSUME IInv, NEW o \in Ops, NEW lease \in Leases,
           NEW observed \in [known : BOOLEAN, value : 0..MaxGeneration],
           Admit(o, lease, observed),
           \/ owner' = owner
           \/ lease = "exclusive" /\ owner' = [owner EXCEPT ![o] = "open"]
    PROVE  IInv'
<1> USE DEF IInv, TypeOK, Leases
<1>1. /\ mode' = [mode EXCEPT ![o] = lease]
      /\ mode[o] = "out" /\ lease # "out"
      /\ active' = active + 1 /\ exclusive' = (lease # "shared")
      /\ ~exclusive /\ (lease # "shared" => active = 0)
      /\ uses' = uses /\ use' = use /\ seen' = seen
  BY DEF Admit, Admissible
<1>2. TypeOK'
  <2>1. generation' \in 0..MaxGeneration
    BY GenerationAssumption DEF Admit
  <2>2. overlapped' \in [Ops -> SUBSET Ops]
    BY DEF Admit
  <2>3. owner' \in [Ops -> {"none", "open", "closing", "drained"}]
    OBVIOUS
  <2>4. reason' = reason /\ stopped' = stopped /\ review' = review
        /\ cancelled' = cancelled
    BY DEF Admit
  <2>5. mode' \in [Ops -> {"out"} \cup Leases] /\ active' \in Nat
        /\ exclusive' \in BOOLEAN
    BY <1>1
  <2> QED
    BY <1>1, <2>1, <2>2, <2>3, <2>4, <2>5
<1>3. Holders' = Holders \cup {o} /\ o \notin Holders
  BY <1>1 DEF Holders, Held
<1>4. LeaseExclusion'
  <2>1. active' = Cardinality(Holders)'
    BY <1>1, <1>3, Countable, OneMore DEF LeaseExclusion
  <2>2. CASE lease = "shared"
    <3>1. \A p \in Ops : ~HoldsExclusive(p)'
      BY <1>1, <2>2 DEF LeaseExclusion, HoldsExclusive
    <3> QED
      BY <1>1, <2>1, <2>2, <3>1 DEF LeaseExclusion
  <2>3. CASE lease # "shared"
    <3>1. Holders' = {o}
      BY <1>1, <1>3, <2>3, IdleMeansNobody
    <3>2. \A p \in Ops : HoldsExclusive(p)' <=> p = o
      BY <1>1, <2>3, <3>1 DEF HoldsExclusive, Holders, Held
    <3> QED
      BY <1>1, <2>1, <2>3, <3>1, <3>2 DEF LeaseExclusion
  <2> QED
    BY <2>2, <2>3
<1>5. OwnerHoldsLease'
  BY <1>1 DEF OwnerHoldsLease
<1>6. CallbackHasOwner'
  BY <1>1, CallTyped DEF CallbackHasOwner, OwnerHoldsLease
<1>7. UsesCounted' /\ OneAtTheDoor'
  BY <1>1 DEF UsesCounted, Callbacks, OneAtTheDoor, AtDoor
<1>8. /\ generation \in Nat /\ generation' \in Nat
      /\ \A p \in Ops : seen[p].value \in Nat
      /\ generation' >= generation
      /\ lease # "observe" => generation' > generation
  BY GenerationAssumption DEF Admit
<1>9. SeenNotAhead'
  BY <1>1, <1>8 DEF SeenNotAhead
<1>10. ObservationIsFresh'
  <2> SUFFICES ASSUME NEW p \in Ops, mode'[p] = "out", seen'[p].known,
                      seen'[p].value = generation'
               PROVE  overlapped'[p] = {}
    BY DEF ObservationIsFresh
  <2>1. p # o /\ mode[p] = "out"
    BY <1>1
  <2>2. generation' = generation /\ lease = "observe"
    BY <1>1, <1>8 DEF SeenNotAhead
  <2> QED
    BY <1>1, <2>1, <2>2 DEF ObservationIsFresh, Admit
<1> QED
  BY <1>2, <1>4, <1>5, <1>6, <1>7, <1>9, <1>10

\* A lease is given back only when no callback runs under it, so the release
\* of one lease disturbs no other.
LEMMA ReleaseKeeps ==
    ASSUME IInv, NEW o \in Ops, Held(o), owner[o] \notin {"open", "closing"},
           ReleaseLease(o), UNCHANGED <<uses, use>>,
           review' \in [Ops -> BOOLEAN],
           \/ owner' = owner /\ owner[o] = "none"
           \/ owner' = [owner EXCEPT ![o] = "none"]
    PROVE  IInv'
<1> USE DEF IInv, TypeOK
<1>1. /\ mode' = [mode EXCEPT ![o] = "out"]
      /\ active' = active - 1
      /\ exclusive' = IF HoldsExclusive(o) THEN FALSE ELSE exclusive
      /\ generation' = generation /\ reason' = reason /\ stopped' = stopped
      /\ seen' = [seen EXCEPT ![o] = NoGeneration]
      /\ cancelled' = [cancelled EXCEPT ![o] = FALSE]
      /\ overlapped' = [overlapped EXCEPT ![o] = {}]
  BY DEF ReleaseLease
<1>2. Holders' = Holders \ {o} /\ o \in Holders
  BY <1>1 DEF Holders, Held
<1>3. active \in Nat \ {0} /\ active' = Cardinality(Holders)'
  BY <1>1, <1>2, Countable, OneLess DEF LeaseExclusion
<1>4. TypeOK'
  <2>1. active' \in Nat
    BY <1>1, <1>3
  <2>2. exclusive' \in BOOLEAN
    BY <1>1
  <2>3. mode' \in [Ops -> {"out"} \cup Leases]
        /\ cancelled' \in [Ops -> BOOLEAN]
        /\ overlapped' \in [Ops -> SUBSET Ops]
        /\ owner' \in [Ops -> {"none", "open", "closing", "drained"}]
    BY <1>1
  <2>4. NoGeneration \in [known : BOOLEAN, value : 0..MaxGeneration]
    BY GenerationAssumption DEF NoGeneration
  <2>5. seen' \in [Ops -> [known : BOOLEAN, value : 0..MaxGeneration]]
    BY <1>1, <2>4
  <2> QED
    BY <1>1, <2>1, <2>2, <2>3, <2>5
<1>5. LeaseExclusion'
  <2>1. \A p \in Ops : HoldsExclusive(p)' <=> p # o /\ HoldsExclusive(p)
    BY <1>1 DEF HoldsExclusive
  <2>2. \A p \in Ops : HoldsExclusive(p) /\ p # o => FALSE
    BY <1>2 DEF LeaseExclusion
  <2>3. exclusive' = FALSE
    BY <1>1, <2>2 DEF LeaseExclusion
  <2> QED
    BY <1>3, <2>1, <2>2, <2>3 DEF LeaseExclusion
<1>6. OwnerHoldsLease'
  BY <1>1 DEF OwnerHoldsLease
<1>7. CallbackHasOwner'
  BY CallTyped DEF CallbackHasOwner
<1>8. UsesCounted' /\ OneAtTheDoor'
  BY DEF UsesCounted, Callbacks, OneAtTheDoor, AtDoor
<1>9. SeenNotAhead'
  BY <1>1 DEF SeenNotAhead, NoGeneration
<1>10. ObservationIsFresh'
  BY <1>1 DEF ObservationIsFresh, NoGeneration
<1> QED
  BY <1>4, <1>5, <1>6, <1>7, <1>8, <1>9, <1>10

-----------------------------------------------------------------------------
(* Callbacks. *)

\* What a step of a call leaves alone.
LeasesUntouched ==
    UNCHANGED <<gate, mode, seen, owner, cancelled, overlapped>>

\* The conjuncts that speak of leases only.
LEMMA CallKeepsLeases ==
    ASSUME IInv, LeasesUntouched
    PROVE  LeaseExclusion' /\ OwnerHoldsLease' /\ SeenNotAhead'
           /\ ObservationIsFresh'
<1>1. LeaseExclusion'
  BY DEF LeasesUntouched, IInv, gate, LeaseExclusion, HoldsExclusive, Holders,
         Held
<1> QED
  BY <1>1 DEF LeasesUntouched, IInv, gate, OwnerHoldsLease, SeenNotAhead,
              ObservationIsFresh

\* A call comes to the door of an owner that is open and has nobody there.
LEMMA KnockKeeps ==
    ASSUME IInv, NEW u \in Uses, NEW o \in Ops,
           NEW kind \in Forward \cup {"cleanup"}, Knock(u, kind, o)
    PROVE  IInv'
<1> USE DEF IInv, TypeOK
<1>1. /\ use' = [use EXCEPT ![u] = Use(kind, o)]
      /\ use[u] = NoUse /\ owner[o] = "open" /\ AtDoor(o) = {}
      /\ LeasesUntouched /\ uses' = uses /\ review' = review
  BY DEF Knock, Unlocked, LeasesUntouched, leases
<1>2. /\ Use(kind, o).phase = "checking" /\ Use(kind, o).owner = o
      /\ Use(kind, o) \in Calls
  BY DEF Use, Phases, Calls
<1>3. TypeOK'
  <2>1. use' \in [Uses -> {NoUse} \cup Calls]
    BY <1>1, <1>2
  <2> QED
    BY <1>1, <2>1 DEF LeasesUntouched, gate
<1>4. CallbackHasOwner'
  BY <1>1, <1>2 DEF LeasesUntouched, CallbackHasOwner
<1>5. \A p \in Ops : Callbacks(p)' = Callbacks(p)
  BY <1>1, <1>2 DEF Callbacks, NoUse
<1>6. AtDoor(o)' = {u} /\ \A p \in Ops \ {o} : AtDoor(p)' = AtDoor(p)
  BY <1>1, <1>2 DEF AtDoor, NoUse
<1>7. UsesCounted'
  BY <1>1, <1>5 DEF UsesCounted
<1>8. OneAtTheDoor'
  BY <1>6 DEF OneAtTheDoor
<1> QED
  BY <1>1, <1>3, <1>4, <1>7, <1>8, CallKeepsLeases

\* The first check of the gate: the call stays at the door, or goes away.
LEMMA PassKeeps ==
    ASSUME IInv, NEW u \in Uses, Pass(u)
    PROVE  IInv'
<1> USE DEF IInv, TypeOK
<1>1. /\ use[u].phase = "checking" /\ use[u] # NoUse
      /\ LeasesUntouched /\ uses' = uses /\ review' = review
      /\ \/ use' = [use EXCEPT ![u].phase = "passed"]
         \/ use' = [use EXCEPT ![u] = NoUse]
  BY DEF Pass, Move, LeasesUntouched, leases, NoUse
<1>2. /\ use' \in [Uses -> {NoUse} \cup Calls]
      /\ \A w \in Uses \ {u} : use'[w] = use[w]
      /\ use'[u].phase \in {"passed", "none"}
      /\ use'[u].phase = "passed" => use'[u].owner = use[u].owner
  <2>1. use[u] \in Calls
    BY <1>1, CallTyped
  <2>2. [use[u] EXCEPT !.phase = "passed"] \in Calls
    BY <2>1 DEF Calls, Phases
  <2>3. use'[u] = NoUse \/ use'[u] = [use[u] EXCEPT !.phase = "passed"]
    BY <1>1
  <2>4. [use[u] EXCEPT !.phase = "passed"].phase = "passed"
        /\ [use[u] EXCEPT !.phase = "passed"].owner = use[u].owner
        /\ NoUse.phase = "none"
    BY <2>1 DEF Calls, NoUse
  <2>5. use' \in [Uses -> {NoUse} \cup Calls]
        /\ \A w \in Uses \ {u} : use'[w] = use[w]
    <3>1. PICK c \in {NoUse} \cup Calls : use' = [use EXCEPT ![u] = c]
      BY <1>1, <2>2
    <3> QED
      BY <3>1
  <2> QED
    BY <2>3, <2>4, <2>5
<1>3. TypeOK'
  BY <1>1, <1>2 DEF LeasesUntouched, gate
<1>4. CallbackHasOwner'
  BY <1>1, <1>2 DEF LeasesUntouched, CallbackHasOwner
<1>5. \A p \in Ops : Callbacks(p)' = Callbacks(p)
                      /\ AtDoor(p)' \subseteq AtDoor(p)
  BY <1>1, <1>2 DEF Callbacks, AtDoor
<1>6. UsesCounted' /\ OneAtTheDoor'
  BY <1>1, <1>5 DEF UsesCounted, OneAtTheDoor
<1> QED
  BY <1>1, <1>3, <1>4, <1>6, CallKeepsLeases

\* The call leaves the door and is counted.
LEMMA StartKeeps ==
    ASSUME IInv, NEW u \in Uses, Start(u)
    PROVE  IInv'
<1> USE DEF IInv, TypeOK
<1>0. use[u].phase = "passed" /\ use[u] # NoUse
  BY DEF Start, NoUse
<1> PICK o \in Ops : o = use[u].owner
  BY <1>0, CallTyped
<1>1. /\ use' = [use EXCEPT ![u].phase = "running"]
      /\ uses' = [uses EXCEPT ![o] = uses[o] + 1]
      /\ LeasesUntouched /\ review' = review
  BY DEF Start, Move, LeasesUntouched
<1>2. /\ use' \in [Uses -> {NoUse} \cup Calls]
      /\ \A w \in Uses \ {u} : use'[w] = use[w]
      /\ use'[u].phase = "running" /\ use'[u].owner = o
  <2>1. use[u] \in Calls
    BY <1>0, CallTyped
  <2>2. /\ [use[u] EXCEPT !.phase = "running"] \in Calls
        /\ [use[u] EXCEPT !.phase = "running"].phase = "running"
        /\ [use[u] EXCEPT !.phase = "running"].owner = o
    BY <2>1 DEF Calls, Phases
  <2> QED
    BY <1>1, <2>2
<1>3. TypeOK'
  <2>1. uses' \in [Ops -> Nat]
    BY <1>1
  <2> QED
    BY <1>1, <1>2, <2>1 DEF LeasesUntouched, gate
<1>4. CallbackHasOwner'
  <2>1. owner[o] = "open" /\ owner' = owner
    BY <1>0, <1>1 DEF LeasesUntouched, CallbackHasOwner
  <2> QED
    BY <1>2, <2>1 DEF CallbackHasOwner
<1>5. UsesCounted'
  <2>1. Callbacks(o)' = Callbacks(o) \cup {u} /\ u \notin Callbacks(o)
    BY <1>0, <1>2 DEF Callbacks
  <2>2. \A p \in Ops \ {o} : Callbacks(p)' = Callbacks(p)
    BY <1>0, <1>2 DEF Callbacks
  <2>3. Cardinality(Callbacks(o)') = Cardinality(Callbacks(o)) + 1
    BY <2>1, Countable, OneMore
  <2> QED
    BY <1>1, <2>2, <2>3 DEF UsesCounted
<1>6. \A p \in Ops : AtDoor(p)' \subseteq AtDoor(p)
  BY <1>0, <1>2 DEF AtDoor
<1>7. OneAtTheDoor'
  BY <1>6 DEF OneAtTheDoor
<1> QED
  BY <1>1, <1>3, <1>4, <1>5, <1>7, CallKeepsLeases

\* The callback is back and its second check is made: the use stays counted.
LEMMA ReturnKeeps ==
    ASSUME IInv, NEW u \in Uses, Return(u) \/ Confirm(u)
    PROVE  IInv'
<1> USE DEF IInv, TypeOK
<1>1. /\ use[u].phase \in {"running", "returned"} /\ use[u] # NoUse
      /\ LeasesUntouched /\ uses' = uses /\ review' = review
  BY DEF Return, Confirm, LeasesUntouched, leases, NoUse
<1>2. PICK phase \in {"returned", "confirmed"}, ok \in BOOLEAN :
         use' = [use EXCEPT ![u].phase = phase, ![u].ok = ok]
  <2>1. CASE Return(u)
    <3>1. PICK own \in BOOLEAN,
               alive \in ContextAnswers(use[u].kind, use[u].owner) :
             use' = [use EXCEPT ![u].phase = "returned", ![u].ok = own /\ alive]
      BY <2>1 DEF Return
    <3> QED
      BY <3>1
  <2>2. CASE Confirm(u)
    <3>1. (use[u].ok /\ GatePasses(use[u].kind)) \in BOOLEAN
      BY <2>2, <1>1
    <3> QED
      BY <2>2, <3>1 DEF Confirm
  <2> QED
    BY <2>1, <2>2
<1>3. /\ use' \in [Uses -> {NoUse} \cup Calls]
      /\ \A w \in Uses \ {u} : use'[w] = use[w]
      /\ use'[u].phase = phase /\ use'[u].owner = use[u].owner
  <2>1. use[u] \in Calls
    BY <1>1, CallTyped
  <2>2. /\ [use[u] EXCEPT !.phase = phase, !.ok = ok] \in Calls
        /\ [use[u] EXCEPT !.phase = phase, !.ok = ok].phase = phase
        /\ [use[u] EXCEPT !.phase = phase, !.ok = ok].owner = use[u].owner
    BY <2>1 DEF Calls, Phases
  <2> QED
    BY <1>2, <2>2 DEF Calls
<1>4. TypeOK'
  BY <1>1, <1>3 DEF LeasesUntouched, gate
<1>5. CallbackHasOwner'
  BY <1>1, <1>3 DEF LeasesUntouched, CallbackHasOwner
<1>6. \A p \in Ops : Callbacks(p)' = Callbacks(p) /\ AtDoor(p)' = AtDoor(p)
  <2>1. use'[u].phase \in {"returned", "confirmed"}
    BY <1>3
  <2> QED
    BY <1>1, <1>3, <2>1 DEF Callbacks, AtDoor
<1>7. UsesCounted' /\ OneAtTheDoor'
  BY <1>1, <1>6 DEF UsesCounted, OneAtTheDoor
<1> QED
  BY <1>1, <1>4, <1>5, <1>7, CallKeepsLeases

\* The use is counted out.
LEMMA LeaveKeeps ==
    ASSUME IInv, NEW u \in Uses, Leave(u)
    PROVE  IInv'
<1> USE DEF IInv, TypeOK
<1>0. use[u].phase = "confirmed" /\ use[u] # NoUse
  BY DEF Leave, NoUse
<1> PICK o \in Ops : o = use[u].owner
  BY <1>0, CallTyped
<1>1. /\ use' = [use EXCEPT ![u] = NoUse]
      /\ uses' = [uses EXCEPT ![o] = uses[o] - 1]
      /\ LeasesUntouched
      /\ review' \in [Ops -> BOOLEAN]
  <2>1. review' \in [Ops -> BOOLEAN]
    BY <1>0 DEF Leave
  <2> QED
    BY <2>1 DEF Leave, LeasesUntouched
<1>2. NoUse.phase = "none"
  BY DEF NoUse
<1>3. Callbacks(o)' = Callbacks(o) \ {u} /\ u \in Callbacks(o)
  BY <1>0, <1>1, <1>2 DEF Callbacks
<1>4. /\ Cardinality(Callbacks(o)) \in Nat \ {0}
      /\ Cardinality(Callbacks(o)') = Cardinality(Callbacks(o)) - 1
  BY <1>3, Countable, OneLess
<1>5. \A p \in Ops \ {o} : Callbacks(p)' = Callbacks(p)
  BY <1>0, <1>1, <1>2 DEF Callbacks
<1>6. UsesCounted'
  BY <1>1, <1>4, <1>5 DEF UsesCounted
<1>7. TypeOK'
  <2>1. uses[o] = Cardinality(Callbacks(o))
    BY DEF UsesCounted
  <2>2. uses[o] \in Nat \ {0}
    BY <1>4, <2>1, Zenon
  <2>3. \A n \in Nat \ {0} : n - 1 \in Nat
    OBVIOUS
  <2>4. uses[o] - 1 \in Nat
    BY <2>2, <2>3, Zenon
  <2>5. uses' \in [Ops -> Nat]
    BY <1>1, <2>4
  <2>6. use' \in [Uses -> {NoUse} \cup Calls]
    BY <1>1
  <2> QED
    BY <1>1, <2>5, <2>6 DEF LeasesUntouched, gate
<1>8. CallbackHasOwner'
  BY <1>1, <1>2 DEF LeasesUntouched, CallbackHasOwner
<1>9. \A p \in Ops : AtDoor(p)' \subseteq AtDoor(p)
  BY <1>1, <1>2 DEF AtDoor
<1>10. OneAtTheDoor'
  BY <1>9 DEF OneAtTheDoor
<1> QED
  BY <1>1, <1>6, <1>7, <1>8, <1>10, CallKeepsLeases

-----------------------------------------------------------------------------
(* The invariant of every behaviour. *)

LEMMA InitEstablishes == Init => IInv
<1> SUFFICES ASSUME Init PROVE IInv
  OBVIOUS
<1>1. TypeOK
  <2>1. NoGeneration \in [known : BOOLEAN, value : 0..MaxGeneration]
    BY GenerationAssumption DEF NoGeneration
  <2>2. generation \in 0..MaxGeneration
    BY GenerationAssumption DEF Init
  <2> QED
    BY <2>1, <2>2 DEF Init, TypeOK
<1>2. Holders = {} /\ \A o \in Ops : /\ ~HoldsExclusive(o)
                                      /\ Callbacks(o) = {} /\ AtDoor(o) = {}
  BY DEF Init, Holders, Held, HoldsExclusive, Callbacks, AtDoor, NoUse
<1>3. LeaseExclusion /\ UsesCounted /\ OneAtTheDoor
  BY <1>2, FS_EmptySet DEF Init, LeaseExclusion, UsesCounted, OneAtTheDoor
<1> QED
  BY <1>1, <1>3 DEF Init, IInv, OwnerHoldsLease, CallbackHasOwner,
                    SeenNotAhead, NoGeneration, NoUse, ObservationIsFresh

\* The steps that neither admit, release nor run a callback.
LEMMA IdleGenerationKeeps ==
    ASSUME IInv, NEW o \in Ops, IdleGeneration(o)
    PROVE  IInv'
<1> USE DEF IInv
<1>1. Holders = {}
  BY IdleMeansNobody DEF IdleGeneration
<1>2. Generation(generation) \in [known : BOOLEAN, value : 0..MaxGeneration]
  BY DEF TypeOK, Generation
<1>3. TypeOK'
  BY <1>1, <1>2 DEF TypeOK, IdleGeneration, gate
<1>4. LeaseExclusion'
  BY DEF IdleGeneration, gate, LeaseExclusion, HoldsExclusive, Holders, Held
<1>5. OwnerHoldsLease' /\ CallbackHasOwner' /\ UsesCounted' /\ OneAtTheDoor'
  BY DEF IdleGeneration, gate, OwnerHoldsLease, CallbackHasOwner,
         UsesCounted, Callbacks, OneAtTheDoor, AtDoor
<1>6. SeenNotAhead' /\ ObservationIsFresh'
  BY <1>1, GenerationAssumption
     DEF TypeOK, IdleGeneration, gate, SeenNotAhead, ObservationIsFresh,
         Generation
<1> QED
  BY <1>3, <1>4, <1>5, <1>6

LEMMA OwnerStepKeeps ==
    ASSUME IInv, NEW o \in Ops,
           \/ BeginClose(o)
           \/ Drained(o)
    PROVE  IInv'
<1> USE DEF IInv
<1>1. /\ UNCHANGED <<gate, mode, seen, uses, review, cancelled, use, overlapped>>
      /\ owner[o] # "none"
  BY DEF BeginClose, Drained
<1>2. LeaseExclusion' /\ UsesCounted' /\ OneAtTheDoor'
  BY <1>1 DEF gate, LeaseExclusion, HoldsExclusive, Holders, Held, UsesCounted,
              Callbacks, OneAtTheDoor, AtDoor
<1>3. SeenNotAhead' /\ ObservationIsFresh'
  BY <1>1 DEF gate, SeenNotAhead, ObservationIsFresh
<1>4. AtDoor(o) = {} /\ (Drained(o) => Callbacks(o) = {})
  BY Countable, FS_EmptySet DEF BeginClose, Drained, Unlocked, UsesCounted
<1>5. \A u \in Uses :
         /\ use[u].phase \in {"checking", "passed"} => use[u].owner # o
         /\ Drained(o) /\ use[u].phase \in {"running", "returned", "confirmed"}
               => use[u].owner # o
  BY <1>4 DEF AtDoor, Callbacks
<1>6. TypeOK' /\ OwnerHoldsLease'
  BY <1>1 DEF BeginClose, Drained, gate, TypeOK, OwnerHoldsLease
<1>7. CallbackHasOwner'
  <2>1. CASE BeginClose(o)
    BY <1>1, <1>5, <2>1 DEF BeginClose, TypeOK, CallbackHasOwner
  <2>2. CASE Drained(o)
    BY <1>1, <1>5, <2>2 DEF Drained, TypeOK, CallbackHasOwner
  <2> QED
    BY <2>1, <2>2
<1> QED
  BY <1>2, <1>3, <1>6, <1>7

\* A fence, a cancellation and a stop request change nothing that the other
\* conjuncts of the invariant speak of.
LEMMA FlagStepKeeps ==
    ASSUME IInv,
           \/ \E r \in Reasons : Fence(r)
           \/ \E o \in Ops : Cancel(o)
           \/ RequestStop
           \/ UNCHANGED vars
    PROVE  IInv'
<1> USE DEF IInv
<1>1. /\ UNCHANGED <<active, exclusive, generation, mode, seen, owner, uses,
                     review, use, overlapped>>
      /\ reason' \in {"open"} \cup Reasons /\ stopped' \in BOOLEAN
      /\ cancelled' \in [Ops -> BOOLEAN]
  <2>1. CASE \E r \in Reasons : Fence(r)
    BY <2>1 DEF Fence, leases, TypeOK
  <2>2. CASE \E o \in Ops : Cancel(o)
    BY <2>2 DEF Cancel, gate, TypeOK
  <2>3. CASE RequestStop
    BY <2>3 DEF RequestStop, leases, TypeOK
  <2>4. CASE UNCHANGED vars
    BY <2>4 DEF vars, gate, leases, TypeOK
  <2> QED
    BY <2>1, <2>2, <2>3, <2>4
<1>2. TypeOK'
  BY <1>1 DEF TypeOK
<1>3. LeaseExclusion'
  BY <1>1 DEF LeaseExclusion, HoldsExclusive, Holders, Held
<1>4. \A o \in Ops : Callbacks(o)' = Callbacks(o) /\ AtDoor(o)' = AtDoor(o)
  BY <1>1 DEF Callbacks, AtDoor
<1>5. UsesCounted' /\ OneAtTheDoor'
  BY <1>1, <1>4 DEF UsesCounted, OneAtTheDoor
<1>6. OwnerHoldsLease' /\ CallbackHasOwner' /\ SeenNotAhead'
      /\ ObservationIsFresh'
  BY <1>1 DEF OwnerHoldsLease, CallbackHasOwner, SeenNotAhead,
              ObservationIsFresh
<1> QED
  BY <1>2, <1>3, <1>5, <1>6

LEMMA StepKeeps == IInv /\ [Next]_vars => IInv'
<1> SUFFICES ASSUME IInv, [Next]_vars PROVE IInv'
  OBVIOUS
<1>1. ASSUME NEW o \in Ops, Enter(o) \/ Exclusive(o)
      PROVE  IInv'
  <2>1. NoGeneration \in [known : BOOLEAN, value : 0..MaxGeneration]
    BY GenerationAssumption DEF NoGeneration
  <2>2. "shared" \in Leases /\ "exclusive" \in Leases
    BY DEF Leases
  <2> QED
    BY <1>1, <2>1, <2>2, AdmitKeeps DEF Enter, Exclusive
<1>2. ASSUME NEW o \in Ops, ExclusiveAfter(o) \/ ObserveExclusive(o)
      PROVE  IInv'
  <2>1. seen[o] \in [known : BOOLEAN, value : 0..MaxGeneration]
        /\ NoGeneration \in [known : BOOLEAN, value : 0..MaxGeneration]
    BY GenerationAssumption DEF NoGeneration, IInv, TypeOK
  <2>2. "observe" \in Leases /\ "exclusive" \in Leases
    BY DEF Leases
  <2> QED
    BY <1>2, <2>1, <2>2, AdmitKeeps DEF ExclusiveAfter, ObserveExclusive
<1>3. ASSUME NEW o \in Ops, ExclusiveContext(o)
      PROVE  IInv'
  <2>1. NoGeneration \in [known : BOOLEAN, value : 0..MaxGeneration]
    BY GenerationAssumption DEF NoGeneration
  <2>2. "exclusive" \in Leases
    BY DEF Leases
  <2> QED
    BY <1>3, <2>1, <2>2, AdmitKeeps DEF ExclusiveContext
<1>4. ASSUME NEW o \in Ops, Release(o)
      PROVE  IInv'
  BY <1>4, ReleaseKeeps DEF Release, IInv, TypeOK
<1>5. ASSUME NEW o \in Ops, ReleaseScoped(o)
      PROVE  IInv'
  <2>1. Held(o)
    BY <1>5 DEF ReleaseScoped, IInv, OwnerHoldsLease, Held
  <2>2. review' \in [Ops -> BOOLEAN]
    BY <1>5 DEF ReleaseScoped, IInv, TypeOK
  <2> QED
    BY <1>5, <2>1, <2>2, ReleaseKeeps DEF ReleaseScoped
<1>6. ASSUME NEW o \in Ops, NEW u \in Uses,
             WithExclusiveContext(u, o) \/ WithCurrent(u, o)
      PROVE  IInv'
  BY <1>6, KnockKeeps DEF WithExclusiveContext, WithCurrent
<1> QED
  BY <1>1, <1>2, <1>3, <1>4, <1>5, <1>6, IdleGenerationKeeps, OwnerStepKeeps,
     PassKeeps, StartKeeps, ReturnKeeps, LeaveKeeps, FlagStepKeeps DEF Next

\* The invariant holds in every reachable state.
THEOREM GateInvariant == Spec => []IInv
BY InitEstablishes, StepKeeps, PTL DEF Spec

\* Every variable keeps its type: the counters of leases and of callbacks are
\* never released below zero.
THEOREM GateTypeOK == Spec => []TypeOK
BY GateInvariant, PTL DEF IInv

\* The counter, the flag and the holders agree, and an exclusive holder is
\* alone, for any number of goroutines.
THEOREM GateLeaseExclusion == Spec => []LeaseExclusion
BY GateInvariant, PTL DEF IInv

\* A capability callback runs only while its exclusive lease is held, alone.
THEOREM GateCallbackUnderLease == Spec => []CallbackUnderLease
<1>1. IInv => CallbackUnderLease
  <2> SUFFICES ASSUME IInv, NEW o \in Ops
               PROVE  /\ uses[o] = Cardinality(Callbacks(o))
                      /\ Callbacks(o) \cup AtDoor(o) # {}
                            => mode[o] = "exclusive" /\ Holders = {o}
    BY DEF CallbackUnderLease
  <2>1. uses[o] = Cardinality(Callbacks(o))
    BY DEF IInv, UsesCounted
  <2>2. ASSUME NEW u \in Callbacks(o) \cup AtDoor(o)
        PROVE  mode[o] = "exclusive"
    BY <2>2 DEF IInv, Callbacks, AtDoor, CallbackHasOwner, OwnerHoldsLease
  <2>3. mode[o] = "exclusive" => Holders = {o}
    BY DEF IInv, LeaseExclusion, HoldsExclusive
  <2> QED
    BY <2>1, <2>2, <2>3
<1> QED
  BY <1>1, GateInvariant, PTL

\* An observed generation that is still current proves that nobody else
\* worked since the observation.
THEOREM GateObservationIsFresh == Spec => []ObservationIsFresh
BY GateInvariant, PTL DEF IInv

\* After a Fence nothing is admitted, no forward call passes a check of the
\* gate, and a forward callback that still starts is the one at the door.
THEOREM GateFencedOnlyDrains == Spec => FencedGateOnlyDrains
<1> DEFINE Late(u) ==
      use'[u] # use[u] /\ use'[u].kind \in Forward =>
         /\ use'[u].phase # "passed"
         /\ use'[u].phase = "confirmed" => ~use'[u].ok
         /\ use'[u].phase = "running" =>
               /\ use[u].phase = "passed"
               /\ AtDoor(use[u].owner) = {u}
<1> DEFINE Drains ==
      reason # "open" =>
         /\ reason' = reason
         /\ generation' = generation
         /\ \A o \in Ops : Held(o)' => Held(o)
         /\ \A u \in Uses : Late(u)
<1>1. ASSUME IInv, [Next]_vars
      PROVE  [Drains]_vars
  <2> SUFFICES ASSUME reason # "open", Next
               PROVE  Drains
    BY <1>1
  <2>1. \A o \in Ops, lease \in Leases : \A observed :
           ~Admit(o, lease, observed)
    BY DEF Admit, Admissible
  <2>2. \A o \in Ops : ~(Enter(o) \/ Exclusive(o) \/ ExclusiveAfter(o)
                         \/ ObserveExclusive(o) \/ ExclusiveContext(o)
                         \/ IdleGeneration(o))
    BY <2>1 DEF Enter, Exclusive, ExclusiveAfter, ObserveExclusive,
                ExclusiveContext, IdleGeneration, Leases
  <2>3. ASSUME NEW o \in Ops, ReleaseLease(o), UNCHANGED use
        PROVE  Drains
    BY <1>1, <2>3 DEF ReleaseLease, Held, IInv, TypeOK
  <2>4. ASSUME NEW o \in Ops, Release(o) \/ ReleaseScoped(o)
        PROVE  Drains
    BY <2>3, <2>4 DEF Release, ReleaseScoped
  <2>5. ASSUME NEW o \in Ops, Cancel(o) \/ BeginClose(o) \/ Drained(o)
        PROVE  Drains
    BY <2>5 DEF Cancel, BeginClose, Drained, gate, Held
  <2>6. CASE RequestStop \/ \E r \in Reasons : Fence(r)
    BY <2>6 DEF RequestStop, Fence, leases, Held
  <2>7. ASSUME NEW u \in Uses, \A w \in Uses \ {u} : use'[w] = use[w], Late(u),
               UNCHANGED <<gate, mode>>
        PROVE  Drains
    BY <2>7 DEF gate, Held
  <2>8. ASSUME NEW o \in Ops, NEW u \in Uses, NEW kind \in Forward \cup {"cleanup"},
               Knock(u, kind, o)
        PROVE  Drains
    <3>1. Late(u) /\ \A w \in Uses \ {u} : use'[w] = use[w]
      BY <1>1, <2>8 DEF Knock, Use, IInv, TypeOK
    <3> QED
      BY <2>7, <2>8, <3>1 DEF Knock, leases
  <2>9. ASSUME NEW u \in Uses, Pass(u)
        PROVE  Drains
    <3>1. CASE GatePasses(use[u].kind)
      <4>1. use[u].kind \notin Forward
        BY <3>1 DEF GatePasses
      <4>2. use'[u].kind = use[u].kind /\ \A w \in Uses \ {u} : use'[w] = use[w]
        BY <1>1, <2>9, <3>1, CallMoved DEF Pass, Move, Phases, IInv
      <4> QED
        BY <2>7, <2>9, <4>1, <4>2 DEF Pass, leases
    <3>2. CASE ~GatePasses(use[u].kind)
      <4>1. use'[u] = NoUse /\ \A w \in Uses \ {u} : use'[w] = use[w]
        BY <1>1, <2>9, <3>2 DEF Pass, IInv, TypeOK
      <4>2. Late(u)
        BY <4>1 DEF NoUse, Forward
      <4> QED
        BY <2>7, <2>9, <4>1, <4>2 DEF Pass, leases
    <3> QED
      BY <3>1, <3>2
  <2>10. ASSUME NEW u \in Uses, Start(u)
         PROVE  Drains
    <3>1. use[u].owner \in Ops /\ u \in AtDoor(use[u].owner)
      BY <1>1, <2>10, CallTyped DEF Start, AtDoor, IInv
    <3>2. AtDoor(use[u].owner) = {u}
      BY <1>1, <3>1 DEF IInv, OneAtTheDoor
    <3>3. Late(u) /\ \A w \in Uses \ {u} : use'[w] = use[w]
      BY <1>1, <2>10, <3>2 DEF Start, Move, NoUse, IInv, TypeOK
    <3> QED
      BY <2>7, <2>10, <3>3 DEF Start
  <2>11. ASSUME NEW u \in Uses, Return(u) \/ Confirm(u) \/ Leave(u)
         PROVE  Drains
    <3>1. CASE Return(u)
      <4>1. use'[u].phase = "returned" /\ \A w \in Uses \ {u} : use'[w] = use[w]
        BY <1>1, <3>1 DEF Return, NoUse, IInv, TypeOK
      <4> QED
        BY <2>7, <3>1, <4>1 DEF Return, leases
    <3>2. CASE Confirm(u)
      <4>1. /\ use'[u].phase = "confirmed" /\ use'[u].kind = use[u].kind
            /\ use'[u].ok => GatePasses(use[u].kind)
            /\ \A w \in Uses \ {u} : use'[w] = use[w]
        <5>1. use[u] \in Calls
          BY <1>1, <3>2, CallTyped DEF Confirm, IInv
        <5>2. PICK ok \in BOOLEAN :
                 /\ use' = [use EXCEPT ![u].phase = "confirmed", ![u].ok = ok]
                 /\ ok => GatePasses(use[u].kind)
          BY <3>2, <5>1, (use[u].ok /\ GatePasses(use[u].kind)) \in BOOLEAN
             DEF Confirm
        <5> QED
          BY <1>1, <3>2, <5>2, CallMoved DEF Confirm, Phases, IInv
      <4>2. Late(u)
        BY <4>1 DEF GatePasses
      <4> QED
        BY <2>7, <3>2, <4>1, <4>2 DEF Confirm, leases
    <3>3. CASE Leave(u)
      <4>1. use'[u] = NoUse /\ \A w \in Uses \ {u} : use'[w] = use[w]
        BY <1>1, <3>3 DEF Leave, IInv, TypeOK
      <4>2. Late(u)
        BY <4>1 DEF NoUse, Forward
      <4> QED
        BY <2>7, <3>3, <4>1, <4>2 DEF Leave
    <3> QED
      BY <2>11, <3>1, <3>2, <3>3
  <2> QED
    BY <2>2, <2>4, <2>5, <2>6, <2>8, <2>9, <2>10, <2>11
       DEF Next, WithExclusiveContext, WithCurrent
<1> QED
  BY <1>1, GateInvariant, PTL DEF Spec, FencedGateOnlyDrains

\* A forward call is reported successful only if it was not cancelled before
\* its callback returned and the gate not fenced before its second check.
THEOREM GateForwardSuccess == Spec => ForwardSuccessIsUninterrupted
<1> DEFINE Honest(u) ==
      use[u].kind \in Forward /\ use'[u] # use[u] /\ use'[u] # NoUse =>
         /\ (use'[u].phase = "returned" /\ use'[u].ok)
               => ~cancelled[use[u].owner]
         /\ (use'[u].phase = "confirmed" /\ use'[u].ok)
               => (use[u].phase = "returned" /\ use[u].ok /\ reason = "open")
<1>1. ASSUME IInv, [Next]_vars
      PROVE  [\A u \in Uses : Honest(u)]_vars
  <2> SUFFICES ASSUME Next, NEW u \in Uses,
                      use[u].kind \in Forward, use'[u] # use[u], use'[u] # NoUse,
                      use'[u].phase \in {"returned", "confirmed"}, use'[u].ok
               PROVE  Honest(u)
    BY <1>1
  <2>1. use' # use /\ use[u] # NoUse
    BY DEF NoUse, Forward
  <2>2. \A o \in Ops, w \in Uses, kind \in Forward \cup {"cleanup"} :
           ~Knock(w, kind, o)
    <3> SUFFICES ASSUME NEW o \in Ops, NEW w \in Uses,
                        NEW kind \in Forward \cup {"cleanup"}, Knock(w, kind, o)
                 PROVE  FALSE
      OBVIOUS
    <3>1. use' = [use EXCEPT ![w] = Use(kind, o)] /\ Use(kind, o).phase = "checking"
      BY DEF Knock, Use
    <3> QED
      BY <1>1, <3>1 DEF IInv, TypeOK
  <2>3. \A o \in Ops, lease \in Leases : \A observed :
           ~Admit(o, lease, observed)
    BY <2>1 DEF Admit
  <2>4. \A w \in Uses : ~Pass(w) /\ ~Start(w) /\ ~Leave(w)
    <3> SUFFICES ASSUME NEW w \in Uses, Pass(w) \/ Start(w) \/ Leave(w)
                 PROVE  FALSE
      OBVIOUS
    <3>1. use[w].phase # "none"
      BY DEF Pass, Start, Leave
    <3>2. \/ use' = [use EXCEPT ![w] = NoUse]
          \/ use' = [use EXCEPT ![w].phase = "passed"]
          \/ use' = [use EXCEPT ![w].phase = "running"]
      BY DEF Pass, Start, Leave, Move
    <3>3. CASE use' = [use EXCEPT ![w] = NoUse]
      BY <1>1, <3>3 DEF IInv, TypeOK
    <3>4. CASE use' = [use EXCEPT ![w].phase = "passed"]
      BY <1>1, <3>1, <3>4, CallMoved DEF Phases, IInv
    <3>5. CASE use' = [use EXCEPT ![w].phase = "running"]
      BY <1>1, <3>1, <3>5, CallMoved DEF Phases, IInv
    <3> QED
      BY <3>2, <3>3, <3>4, <3>5
  <2>5. PICK w \in Uses : Return(w) \/ Confirm(w)
    BY <2>1, <2>2, <2>3, <2>4
       DEF Next, Enter, Exclusive, ExclusiveAfter, ObserveExclusive,
           ExclusiveContext, Leases, IdleGeneration, Release, Cancel,
           BeginClose, Drained, ReleaseScoped, WithExclusiveContext,
           WithCurrent, Fence, RequestStop
  <2>6. w = u
    BY <1>1, <2>5 DEF Return, Confirm, IInv, TypeOK
  <2>7. CASE Return(u)
    <3>1. use[u] \in Calls
      BY <1>1, <2>1, CallTyped DEF IInv
    <3>2. PICK own \in BOOLEAN, alive \in {~cancelled[use[u].owner]} :
             use' = [use EXCEPT ![u].phase = "returned", ![u].ok = own /\ alive]
      BY <2>7 DEF Return, ContextAnswers
    <3>3. use'[u] = [use[u] EXCEPT !.phase = "returned", !.ok = own /\ alive]
      BY <1>1, <3>2 DEF IInv, TypeOK
    <3>4. use'[u].phase = "returned" /\ use'[u].ok = (own /\ alive)
      BY <3>1, <3>3 DEF Calls
    <3> QED
      BY <3>2, <3>4
  <2>8. CASE Confirm(u)
    <3>1. use[u] \in Calls /\ use[u].ok \in BOOLEAN
      BY <1>1, <2>1, CallTyped DEF IInv, Calls
    <3>2. PICK ok \in BOOLEAN :
             /\ use' = [use EXCEPT ![u].phase = "confirmed", ![u].ok = ok]
             /\ ok => use[u].ok /\ GatePasses(use[u].kind)
      BY <2>8, <3>1, (use[u].ok /\ GatePasses(use[u].kind)) \in BOOLEAN
         DEF Confirm
    <3>3. use'[u].phase = "confirmed" /\ use'[u].ok = ok
      BY <1>1, <2>8, <3>2, CallMoved DEF Confirm, Phases, IInv
    <3> QED
      BY <2>8, <3>2, <3>3 DEF Confirm, GatePasses
  <2> QED
    BY <2>5, <2>6, <2>7, <2>8
<1> QED
  BY <1>1, GateInvariant, PTL DEF Spec, ForwardSuccessIsUninterrupted

=============================================================================
