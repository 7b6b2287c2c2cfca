----------------------------- MODULE CurvyChain -----------------------------
(***************************************************************************)
(* What the Curvy pool spends against, seen from the SDK bridge: the       *)
(* aggregator contract, and the relayer (or the operator's own             *)
(* transaction) that carries a proof to it.  A proof is known by its       *)
(* number.  One that was accepted somewhere is held: it may land at any    *)
(* time while its inputs exist and are unspent, which is what nullifiers   *)
(* enforce, and a carrier may give up on it for good.  A landed proof may  *)
(* still be reorganised away, with everything after it, until it is final; *)
(* its carrier then still holds it.  The relayer may forget a request it   *)
(* carries.                                                                *)
(***************************************************************************)
EXTENDS Integers, Sequences, FiniteSets

CONSTANTS MaxProofs,    \* bound on the proofs made
          MaxReorgs     \* bound on the reorganisations

ASSUME ChainAssumption == MaxProofs \in Nat /\ MaxReorgs \in Nat

VARIABLES
    made,           \* the proofs made: their inputs, allocations and change note
    held,           \* proofs that may land
    failed,         \* proofs their carrier gave up on
    forgotten,      \* proofs whose request the relayer no longer tracks
    landed,         \* proofs on chain, oldest first
    final,          \* how many of them are final
    reorgs          \* reorganisations so far

chainVars == <<made, held, failed, forgotten, landed, final, reorgs>>

Proof == 1..MaxProofs

OnChain       == {landed[i] : i \in 1..Len(landed)}
Finalized     == {landed[i] : i \in 1..final}
Spent         == UNION {made[k].inputs : k \in OnChain}
Live(k)       == k \in held \cup OnChain
\* Two proofs over a common input: at most one of them lands.
Competing(j, k) == j # k /\ made[j].inputs \cap made[k].inputs # {}

ChainInit ==
    /\ made = <<>> /\ held = {} /\ failed = {} /\ forgotten = {}
    /\ landed = <<>> /\ final = 0 /\ reorgs = 0

\* A note exists on chain once the shield or the proof that made it landed; floats have ids below 1.
Exists(note) == note.id < 1 \/ note.id \in OnChain

\* A held proof takes effect.
Land(k) ==
    /\ k \in held \ OnChain
    /\ \A note \in made[k].inputs : Exists(note) /\ note \notin Spent
    /\ landed' = Append(landed, k)
    /\ UNCHANGED <<made, held, failed, forgotten, final, reorgs>>

\* Its carrier gives up: the proof can no longer land.
Abandon(k) ==
    /\ k \in held \ OnChain
    /\ held' = held \ {k}
    /\ failed' = failed \cup {k}
    /\ UNCHANGED <<made, forgotten, landed, final, reorgs>>

\* The relayer stops tracking a request; a proof it holds may still land.
Forget(k) ==
    /\ k \in (held \cup failed) \ forgotten
    /\ forgotten' = forgotten \cup {k}
    /\ UNCHANGED <<made, held, failed, landed, final, reorgs>>

Finalize ==
    /\ final < Len(landed)
    /\ final' = final + 1
    /\ UNCHANGED <<made, held, failed, forgotten, landed, reorgs>>

Reorganise ==
    /\ final < Len(landed) /\ reorgs < MaxReorgs
    /\ landed' = SubSeq(landed, 1, Len(landed) - 1)
    /\ reorgs' = reorgs + 1
    /\ UNCHANGED <<made, held, failed, forgotten, final>>

ChainStep ==
    \/ \E k \in Proof : Land(k) \/ Abandon(k) \/ Forget(k)
    \/ Finalize
    \/ Reorganise
=============================================================================
