-------------------------- MODULE MCApplyTransaction --------------------------
(* Small instances of ApplyTransaction for TLC. *)
EXTENDS ApplyTransaction, TLC

CONSTANTS nfq, sing, gate, none, basic, other, mixed, stop, lan

\* Two plans of the same adapters, one with a node that needs a proof, as a retry
\* at startup asks for, and the plan of an explicit Stop.
SharedAdapters == basic :> {nfq, sing} @@ other :> {nfq, sing} @@ stop :> {}
SharedProof == basic :> {} @@ other :> {sing} @@ stop :> {}

\* A plan without a proof, one with a node that needs a proof, and the plan of
\* an explicit Stop.
MixedAdapters == basic :> {nfq} @@ mixed :> {nfq, sing} @@ stop :> {}
MixedProof == basic :> {} @@ mixed :> {sing} @@ stop :> {}

\* Two plans of one adapter.
RetryAdapters == basic :> {nfq} @@ other :> {nfq}
RetryProof == basic :> {} @@ other :> {}

\* A managed LAN plan beside a plan of the same consumer.
LanAdapters == basic :> {nfq} @@ lan :> {gate, nfq}
LanProof == basic :> {} @@ lan :> {gate, nfq}

=============================================================================
