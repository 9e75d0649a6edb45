---------------------------- MODULE OperationGate ----------------------------
(***************************************************************************)
(* Admission control of the whole application                              *)
(* (src/internal/operationgate: gate.go, exclusive_context.go,             *)
(* exclusive_cleanup.go).                                                  *)
(*                                                                         *)
(* Every HTTP handler and background worker holds a lease of the one Gate  *)
(* while it touches a Store, a journal or the network.  Shared leases may  *)
(* overlap; an exclusive lease is alone.  The holder of a scoped exclusive *)
(* lease (ExclusiveContext) hands a capability to synchronous callbacks,   *)
(* and the release of the lease must wait for them.  A Fence is permanent  *)
(* for the process: nothing is admitted after it, but a lease already held *)
(* is not taken away, and its reviewed cleanup may still run.              *)
(*                                                                         *)
(* Every step below is one critical section of Gate.mu, or a part of one   *)
(* of owner.mu: a call that starts a callback keeps owner.mu from its      *)
(* first look at the owner until it is counted, and takes and releases     *)
(* Gate.mu in between, so that a Fence may come after its check.           *)
(***************************************************************************)
EXTENDS Naturals, FiniteSets

CONSTANTS
    Ops,            \* goroutines that ask the gate for a lease
    Uses,           \* goroutines that run a callback under a scoped lease
    MaxGeneration   \* bound on the number of advancing admissions

ASSUME OpsAssumption == IsFiniteSet(Ops)
ASSUME UsesAssumption == IsFiniteSet(Uses)
ASSUME GenerationAssumption == MaxGeneration \in Nat

VARIABLES
    reason,      \* "open", or the reason of the first Fence
    active,      \* Gate.active
    exclusive,   \* Gate.exclusive
    generation,  \* Gate.generation
    stopped,     \* what the Guard reads: a durable stop request refuses work
    mode,        \* Gate.holders: the lease each goroutine holds
    seen,        \* the generation a goroutine took from IdleGeneration
    owner,       \* exclusiveContextOwner: life of a scoped lease
    uses,        \* exclusiveContextOwner.uses
    review,      \* has an ExclusiveCleanupReview been issued for the lease?
    cancelled,   \* is the original context of the lease cancelled?
    use,         \* the WithExclusiveContext / WithCurrent call of each user
    overlapped   \* history: who worked since the goroutine's IdleGeneration

gate == <<reason, active, exclusive, generation, stopped>>
leases == <<mode, seen, owner, uses, review, cancelled>>
vars == <<gate, leases, use, overlapped>>

Reasons == {"restore", "journal"}
Leases == {"shared", "exclusive", "observe"}
NoGeneration == [known |-> FALSE, value |-> 0]
Generation(n) == [known |-> TRUE, value |-> n]
Forward == {"forward", "review"}
Phases == {"checking", "passed", "running", "returned", "confirmed"}
Calls == [kind : Forward \cup {"cleanup"}, owner : Ops, phase : Phases,
          ok : BOOLEAN]
NoUse == [kind |-> "none", phase |-> "none"]
Use(kind, o) ==
    [kind |-> kind, owner |-> o, phase |-> "checking", ok |-> FALSE]

Held(o) == mode[o] # "out"
HoldsExclusive(o) == mode[o] \in {"exclusive", "observe"}
Holders == {o \in Ops : Held(o)}

\* The calls that were counted in and are not counted out; the call that is
\* at the door of the owner holds owner.mu.
Callbacks(o) ==
    {u \in Uses : /\ use[u].phase \in {"running", "returned", "confirmed"}
                  /\ use[u].owner = o}
AtDoor(o) ==
    {u \in Uses : use[u].phase \in {"checking", "passed"} /\ use[u].owner = o}
Unlocked(o) == AtDoor(o) = {}

Init ==
    /\ reason = "open"
    /\ active = 0
    /\ exclusive = FALSE
    /\ generation = 0
    /\ stopped \in BOOLEAN
    /\ mode = [o \in Ops |-> "out"]
    /\ seen = [o \in Ops |-> NoGeneration]
    /\ owner = [o \in Ops |-> "none"]
    /\ uses = [o \in Ops |-> 0]
    /\ review = [o \in Ops |-> FALSE]
    /\ cancelled = [o \in Ops |-> FALSE]
    /\ use = [u \in Uses |-> NoUse]
    /\ overlapped = [o \in Ops |-> {}]

-----------------------------------------------------------------------------
(* Admission. *)

\* Mutant: an exclusive lease does not wait until nothing is active.
AdmissibleBesideShared(lease, observed) ==
    /\ reason = "open"
    /\ lease # "observe" => ~stopped
    /\ observed.known => generation = observed.value
    /\ ~exclusive

\* The refusals of enterAfter that depend on the kind of lease and, when the
\* caller brings one, on the generation it observed.
Admissible(lease, observed) ==
    /\ reason = "open"
    /\ lease # "observe" => ~stopped
    /\ observed.known => generation = observed.value
    /\ ~exclusive
    /\ lease # "shared" => active = 0

\* enterAfter: counters, the exclusive flag and the new holder.  Only an
\* observation leaves the generation alone.
Admit(o, lease, observed) ==
    /\ mode[o] = "out"
    /\ Admissible(lease, observed)
    /\ active' = active + 1
    /\ exclusive' = (lease # "shared")
    /\ IF lease = "observe"
         THEN generation' = generation
         ELSE generation < MaxGeneration /\ generation' = generation + 1
    /\ mode' = [mode EXCEPT ![o] = lease]
    /\ overlapped' = [p \in Ops |-> IF p = o \/ lease = "observe"
                                      THEN overlapped[p]
                                      ELSE overlapped[p] \cup {o}]
    /\ UNCHANGED <<reason, stopped, seen, uses, review, cancelled, use>>

Enter(o) == Admit(o, "shared", NoGeneration) /\ UNCHANGED owner

Exclusive(o) == Admit(o, "exclusive", NoGeneration) /\ UNCHANGED owner

\* The observed generation is a value the caller keeps: it may be used, or
\* replaced by a newer observation.
ExclusiveAfter(o) ==
    /\ seen[o].known
    /\ Admit(o, "exclusive", seen[o])
    /\ UNCHANGED owner

ObserveExclusive(o) ==
    /\ \E observed \in {NoGeneration, seen[o]} : Admit(o, "observe", observed)
    /\ UNCHANGED owner

\* Exclusive plus a fresh owner object for the capability.
ExclusiveContext(o) ==
    /\ Admit(o, "exclusive", NoGeneration)
    /\ owner' = [owner EXCEPT ![o] = "open"]

\* Mutant: the idle result is ignored and only the generation is kept.
GenerationOnly(o) ==
    /\ mode[o] = "out"
    /\ reason = "open"
    /\ seen' = [seen EXCEPT ![o] = Generation(generation)]
    /\ overlapped' = [overlapped EXCEPT ![o] = Holders]
    /\ UNCHANGED <<gate, mode, owner, uses, review, cancelled, use>>

\* A caller that is told the gate is not idle gives up its preparation.
IdleGeneration(o) ==
    /\ mode[o] = "out"
    /\ active = 0 /\ reason = "open"
    /\ seen' = [seen EXCEPT ![o] = Generation(generation)]
    /\ overlapped' = [overlapped EXCEPT ![o] = Holders]
    /\ UNCHANGED <<gate, mode, owner, uses, review, cancelled, use>>

\* The once-only release closure returned by enterAfter.
ReleaseLease(o) ==
    /\ active' = active - 1
    /\ exclusive' = IF HoldsExclusive(o) THEN FALSE ELSE exclusive
    /\ mode' = [mode EXCEPT ![o] = "out"]
    /\ seen' = [seen EXCEPT ![o] = NoGeneration]
    /\ cancelled' = [cancelled EXCEPT ![o] = FALSE]
    /\ overlapped' = [overlapped EXCEPT ![o] = {}]
    /\ UNCHANGED <<reason, generation, stopped>>

Release(o) ==
    /\ Held(o)
    /\ owner[o] = "none"
    /\ ReleaseLease(o)
    /\ UNCHANGED <<owner, uses, review, use>>

-----------------------------------------------------------------------------
(* Fences, cancellation and the durable stop record read by the guard. *)

\* Fence and FenceJournal; the first reason is kept.
Fence(r) ==
    /\ reason' = IF reason = "open" THEN r ELSE reason
    /\ UNCHANGED <<active, exclusive, generation, stopped, leases, use,
                   overlapped>>

\* Only a scoped lease looks at its original context again; a cancelled
\* context does not release the lease it was admitted with.
Cancel(o) ==
    /\ owner[o] # "none"
    /\ cancelled' = [cancelled EXCEPT ![o] = TRUE]
    /\ UNCHANGED <<gate, mode, seen, owner, uses, review, use,
                   overlapped>>

RequestStop ==
    /\ stopped' = TRUE
    /\ UNCHANGED <<reason, active, exclusive, generation, leases, use,
                   overlapped>>

-----------------------------------------------------------------------------
(* Callbacks under a scoped exclusive lease. *)

\* The part of checkExclusiveContext and of the check of
\* ExclusiveCleanupReview.WithCurrent that is made under Gate.mu.  Neither a
\* fence nor the original deadline matters to a cleanup.
GatePasses(kind) ==
    /\ kind \in Forward => reason = "open"
    /\ exclusive /\ active = 1

\* Both checks read the context first.  That of a forward call is the original
\* one, that of a cleanup a new one, which may end at any time.
ContextAnswers(kind, o) ==
    IF kind \in Forward THEN {~cancelled[o]} ELSE BOOLEAN

Move(u, phase) == use' = [use EXCEPT ![u].phase = phase]

\* Mutant: the closing flag is not checked.
KnockWhileClosing(u, kind, o) ==
    /\ use[u] = NoUse
    /\ owner[o] # "none"
    /\ Unlocked(o)
    /\ TRUE \in ContextAnswers(kind, o)
    /\ use' = [use EXCEPT ![u] = Use(kind, o)]
    /\ UNCHANGED <<gate, leases, overlapped>>

\* The call takes owner.mu, which it keeps until it is counted, finds the owner
\* open and its context alive.
Knock(u, kind, o) ==
    /\ use[u] = NoUse
    /\ owner[o] = "open"
    /\ Unlocked(o)
    /\ TRUE \in ContextAnswers(kind, o)
    /\ use' = [use EXCEPT ![u] = Use(kind, o)]
    /\ UNCHANGED <<gate, leases, overlapped>>

\* A forward callback, or the one by which ReviewExclusiveCleanup makes its
\* review.
WithExclusiveContext(u, o) == \E kind \in Forward : Knock(u, kind, o)

\* The review outlives cancellation and fence, but not the lease.
WithCurrent(u, o) == review[o] /\ Knock(u, "cleanup", o)

\* The first check of the gate; Gate.mu is free again after it.
Pass(u) ==
    /\ use[u].phase = "checking"
    /\ IF GatePasses(use[u].kind)
         THEN Move(u, "passed")
         ELSE use' = [use EXCEPT ![u] = NoUse]
    /\ UNCHANGED <<gate, leases, overlapped>>

\* The use is counted, owner.mu is unlocked and the callback runs.
Start(u) ==
    /\ use[u].phase = "passed"
    /\ Move(u, "running")
    /\ uses' = [uses EXCEPT ![use[u].owner] = @ + 1]
    /\ UNCHANGED <<gate, mode, seen, owner, review, cancelled, overlapped>>

\* The callback is back, with or without an error of its own (a review has
\* none), and the second check reads the context.
Return(u) ==
    /\ use[u].phase = "running"
    /\ \E own \in BOOLEAN, alive \in ContextAnswers(use[u].kind, use[u].owner) :
          /\ use[u].kind = "review" => own
          /\ use' = [use EXCEPT ![u].phase = "returned", ![u].ok = own /\ alive]
    /\ UNCHANGED <<gate, leases, overlapped>>

\* The second check reads the gate.  The call will succeed only if it passes.
Confirm(u) ==
    /\ use[u].phase = "returned"
    /\ use' = [use EXCEPT ![u].phase = "confirmed",
                          ![u].ok = @ /\ GatePasses(use[u].kind)]
    /\ UNCHANGED <<gate, leases, overlapped>>

\* Mutant: a callback that fails is not counted out.
LeaveKeepsFailedUse(u) ==
    /\ use[u].phase = "confirmed"
    /\ Unlocked(use[u].owner)
    /\ uses' = [uses EXCEPT ![use[u].owner] = IF use[u].ok THEN @ - 1 ELSE @]
    /\ use' = [use EXCEPT ![u] = NoUse]
    /\ UNCHANGED <<gate, mode, seen, owner, review, cancelled, overlapped>>

\* The deferred function counts the use out in every case, and the caller has
\* the answer.  ReviewExclusiveCleanup hands out its review only on success.
Leave(u) ==
    /\ use[u].phase = "confirmed"
    /\ Unlocked(use[u].owner)
    /\ uses' = [uses EXCEPT ![use[u].owner] = @ - 1]
    /\ review' = [review EXCEPT ![use[u].owner] =
                     @ \/ (use[u].kind = "review" /\ use[u].ok)]
    /\ use' = [use EXCEPT ![u] = NoUse]
    /\ UNCHANGED <<gate, mode, seen, owner, cancelled, overlapped>>

\* closeOwner: refuse new uses, wait until none is left, and only then, with
\* owner.mu unlocked, release the lease.
BeginClose(o) ==
    /\ owner[o] = "open"
    /\ Unlocked(o)
    /\ owner' = [owner EXCEPT ![o] = "closing"]
    /\ UNCHANGED <<gate, mode, seen, uses, review, cancelled, use, overlapped>>

Drained(o) ==
    /\ owner[o] = "closing"
    /\ Unlocked(o)
    /\ uses[o] = 0
    /\ owner' = [owner EXCEPT ![o] = "drained"]
    /\ UNCHANGED <<gate, mode, seen, uses, review, cancelled, use, overlapped>>

ReleaseScoped(o) ==
    /\ owner[o] = "drained"
    /\ ReleaseLease(o)
    /\ owner' = [owner EXCEPT ![o] = "none"]
    /\ review' = [review EXCEPT ![o] = FALSE]
    /\ UNCHANGED <<uses, use>>

-----------------------------------------------------------------------------
Next ==
    \/ \E o \in Ops :
          \/ Enter(o) \/ Exclusive(o) \/ ExclusiveAfter(o)
          \/ ObserveExclusive(o) \/ ExclusiveContext(o)
          \/ IdleGeneration(o) \/ Release(o) \/ Cancel(o)
          \/ BeginClose(o) \/ Drained(o) \/ ReleaseScoped(o)
          \/ \E u \in Uses : WithExclusiveContext(u, o) \/ WithCurrent(u, o)
    \/ \E u \in Uses :
          \/ Pass(u) \/ Start(u) \/ Return(u) \/ Confirm(u) \/ Leave(u)
    \/ \E r \in Reasons : Fence(r)
    \/ RequestStop

Spec == Init /\ [][Next]_vars

\* A call that has begun goes on, its callback returns, and closeOwner is a
\* goroutine that goes on once its wait is over.  Nothing else is promised: a
\* holder may keep its lease for ever.
Fairness ==
    /\ \A u \in Uses : /\ WF_vars(Pass(u)) /\ WF_vars(Start(u))
                       /\ WF_vars(Return(u)) /\ WF_vars(Confirm(u))
                       /\ WF_vars(Leave(u))
    /\ \A o \in Ops : WF_vars(Drained(o)) /\ WF_vars(ReleaseScoped(o))

FairSpec == Spec /\ Fairness

-----------------------------------------------------------------------------
(* Properties. *)

\* Every variable keeps the type of the Go field it stands for; the counters
\* Gate.active and owner.uses never wrap below zero.
TypeOK ==
    /\ reason \in {"open"} \cup Reasons
    /\ active \in Nat
    /\ exclusive \in BOOLEAN
    /\ generation \in 0..MaxGeneration
    /\ stopped \in BOOLEAN
    /\ mode \in [Ops -> {"out"} \cup Leases]
    /\ seen \in [Ops -> [known : BOOLEAN, value : 0..MaxGeneration]]
    /\ owner \in [Ops -> {"none", "open", "closing", "drained"}]
    /\ uses \in [Ops -> Nat]
    /\ review \in [Ops -> BOOLEAN]
    /\ cancelled \in [Ops -> BOOLEAN]
    /\ use \in [Uses -> {NoUse} \cup Calls]
    /\ overlapped \in [Ops -> SUBSET Ops]

\* Whatever mixture of shared, exclusive and observing leases was granted,
\* released and fenced: the counter is the number of holders, the flag says
\* whether one of them is exclusive, and an exclusive holder is alone.
LeaseExclusion ==
    /\ active = Cardinality(Holders)
    /\ exclusive <=> \E o \in Ops : HoldsExclusive(o)
    /\ \A o \in Ops : HoldsExclusive(o) => Holders = {o}

\* A callback never outlives the exclusive lease it was admitted under, even
\* when the release is in progress, the context cancelled or the gate fenced:
\* release waits for the callbacks, and no call is let in after the wait.
CallbackUnderLease ==
    \A o \in Ops :
       /\ uses[o] = Cardinality(Callbacks(o))
       /\ Callbacks(o) \cup AtDoor(o) # {}
             => mode[o] = "exclusive" /\ Holders = {o}

\* IdleGeneration / ExclusiveAfter: as long as the observed generation is still
\* current, no other operation was running at the observation or has been
\* admitted since, not even one that is already finished.
ObservationIsFresh ==
    \A o \in Ops :
       mode[o] = "out" /\ seen[o].known /\ seen[o].value = generation
          => overlapped[o] = {}

\* After a Fence the process only drains: the first reason stays, no lease is
\* admitted, the generation is frozen, and no forward call passes a check of
\* the gate any more, neither the one before its callback nor the one that
\* confirms its success.  A forward callback may still start after the Fence,
\* when its call had passed the first check before: the gate is not locked in
\* between.  One scoped lease has at most one such call, which holds owner.mu.
FencedGateOnlyDrains ==
    [][reason # "open" =>
          /\ reason' = reason
          /\ generation' = generation
          /\ \A o \in Ops : Held(o)' => Held(o)
          /\ \A u \in Uses :
                use'[u] # use[u] /\ use'[u].kind \in Forward =>
                   /\ use'[u].phase # "passed"
                   /\ use'[u].phase = "confirmed" => ~use'[u].ok
                   /\ use'[u].phase = "running" =>
                         /\ use[u].phase = "passed"
                         /\ AtDoor(use[u].owner) = {u}]_vars

\* WithExclusiveContext reports success for a forward callback only if the
\* operation was not cancelled before its callback returned, and the gate not
\* fenced before the check that follows.
ForwardSuccessIsUninterrupted ==
    [][\A u \in Uses :
          use[u].kind \in Forward /\ use'[u] # use[u] /\ use'[u] # NoUse =>
             /\ (use'[u].phase = "returned" /\ use'[u].ok)
                   => ~cancelled[use[u].owner]
             /\ (use'[u].phase = "confirmed" /\ use'[u].ok)
                   => (use[u].phase = "returned" /\ use[u].ok /\ reason = "open")
          ]_vars

\* closeOwner never waits for ever: callbacks return and no new one starts.
CloseCompletes ==
    \A o \in Ops : owner[o] = "closing" ~> owner[o] = "none"

=============================================================================
