-------------------------------- MODULE Payout --------------------------------
(***************************************************************************)
(* What a deposit pool promises about its allocations, without journals,   *)
(* proofs or carriers: an allocation is paid only while it is unpaid, it   *)
(* is recorded as completed only when it is paid, and what was recorded is *)
(* never taken back.  The chain may undo a payment, recorded or not, and   *)
(* pay it again.                                                           *)
(***************************************************************************)
EXTENDS Naturals

CONSTANT Deposits       \* allocations

VARIABLES paid,         \* how often each is paid on chain
          completed     \* those recorded as completed

payoutVars == <<paid, completed>>

Init == paid = [d \in Deposits |-> 0] /\ completed = {}

PaidWith(S) == [d \in Deposits |-> IF d \in S THEN paid[d] + 1 ELSE paid[d]]

\* A batch is paid; all of it was unpaid.
Pay(S) == (\A d \in S : paid[d] = 0) /\ paid' = PaidWith(S) /\ UNCHANGED completed

Revert(S) ==
    /\ \A d \in S : paid[d] = 1
    /\ paid' = [d \in Deposits |-> IF d \in S THEN 0 ELSE paid[d]]
    /\ UNCHANGED completed

\* A paid batch is recorded.
Complete(S) == (\A d \in S : paid[d] = 1) /\ completed' = completed \cup S /\ UNCHANGED paid

\* A carrier that confirms what it pays.
PayAndComplete(S) ==
    /\ \A d \in S : paid[d] = 0
    /\ paid' = PaidWith(S)
    /\ completed' = completed \cup S

Next == \E S \in SUBSET Deposits : Pay(S) \/ Revert(S) \/ Complete(S) \/ PayAndComplete(S)

Spec == Init /\ [][Next]_payoutVars
=============================================================================
