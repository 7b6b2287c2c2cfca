------------------------------ MODULE StakeSizing ------------------------------
(***************************************************************************)
(* From data capacities to channel stakes: FundingConfig::resolve, at the  *)
(* ticket price and winning probability of one tick.                       *)
(*                                                                         *)
(* A winning probability is a fraction <<num, den>>.  The stake is counted *)
(* in whole winning tickets; how many is worked out from the unrounded     *)
(* face value, and what each is worth from the truncated one.  The share a *)
(* probabilistic mode adds to the mean drain, k times its deviation, is a  *)
(* parameter: zero when every ticket wins.                                 *)
(***************************************************************************)
EXTENDS Integers

CONSTANTS
    Prices,         \* ticket prices, in the smallest unit
    WinProbs,       \* winning probabilities as read, not clamped: <<num, den>>
    Capacities,     \* capacities, in bytes
    Payload,        \* packet_payload_size()
    AssumedHops,    \* ASSUMED_HOPS
    Buffers,        \* what the sizing mode adds to the mean drain
    Epsilon         \* f64::EPSILON: the least probability, as 1 in Epsilon

ASSUME SizingAssumption ==
    /\ Prices \subseteq Nat /\ Capacities \subseteq Nat /\ Buffers \subseteq Nat
    /\ Payload \in Nat \ {0} /\ AssumedHops \in Nat \ {0} /\ Epsilon \in Nat \ {0}
    /\ \A p \in WinProbs : p[1] \in Int /\ p[2] \in Nat \ {0}

VARIABLES
    economics,      \* [price, winProb, buffer]: what the tick reads
    funding,        \* the capacities: [initial, topup, lower]
    resolved        \* {} until resolve has answered, then {ResolvedFunding}

sizeVars == <<economics, funding, resolved>>

SizingTypeOK ==
    /\ economics \in [price : Prices, winProb : WinProbs, buffer : Buffers]
    /\ funding \in [initial : Capacities, topup : Capacities, lower : Capacities]
    /\ \A r \in resolved : r \in [initial : Nat, topup : Nat, lower : Nat, face : Nat]

CeilDiv(n, d) == (n + d - 1) \div d
AtLeast(n, floor) == IF n >= floor THEN n ELSE floor

ClampedWinProb(p) ==
    IF p[1] * Epsilon < p[2] THEN <<1, Epsilon>> ELSE IF p[1] > p[2] THEN <<1, 1>> ELSE p

\* winning_ticket_face_value: one ticket is divided first, and the hops
\* multiply what is left of it.
FaceValue(price, p) == AssumedHops * ((price * p[2]) \div p[1])

MeanDrain(n, price) == n * AssumedHops * price

\* A slip: a started ticket is not paid for.
WholeTicketsDown(target, price, p) == AtLeast((target * p[1]) \div (price * AssumedHops * p[2]), 1)

\* whole_tickets(target / face_f64), at least the one that makes the channel
\* selectable.
WholeTickets(target, price, p) == AtLeast(CeilDiv(target * p[1], price * AssumedHops * p[2]), 1)

CapacityToBalance(bytes, e) ==
    LET p      == ClampedWinProb(e.winProb)
        buffer == IF p[1] = p[2] THEN 0 ELSE e.buffer
        target == MeanDrain(CeilDiv(bytes, Payload), e.price) + buffer
    IN  IF bytes = 0 \/ FaceValue(e.price, p) = 0 THEN 0
        ELSE WholeTickets(target, e.price, p) * FaceValue(e.price, p)

SizingInit ==
    /\ economics \in [price : Prices, winProb : WinProbs, buffer : Buffers]
    /\ funding \in [initial : Capacities, topup : Capacities, lower : Capacities]
    /\ resolved = {}

Resolve ==
    /\ resolved = {}
    /\ resolved' = {[initial |-> CapacityToBalance(funding.initial, economics),
                     topup   |-> CapacityToBalance(funding.topup, economics),
                     lower   |-> CapacityToBalance(funding.lower, economics),
                     face    |-> FaceValue(economics.price, ClampedWinProb(economics.winProb))]}
    /\ UNCHANGED <<economics, funding>>

SizingSpec == SizingInit /\ [][Resolve]_sizeVars

-----------------------------------------------------------------------------
\* What capacity_to_balance promises: a stake is as many whole tickets as
\* are expected to win over the packets it was sized for, never less than the
\* one that makes the channel selectable, and not one ticket more than the
\* sizing mode asks for - whatever truncation does to the face value.
StakeCarriesCapacity ==
    \A r \in resolved :
        LET p     == ClampedWinProb(economics.winProb)
            Holds(stakeOf, bytes) ==
                (bytes > 0 /\ r.face > 0) =>
                    LET tickets == stakeOf \div r.face
                        packets == CeilDiv(bytes, Payload)
                    IN  /\ stakeOf = tickets * r.face /\ tickets >= 1
                        /\ tickets * p[2] >= packets * p[1]
                        /\ (economics.buffer = 0 /\ tickets > 1)
                               => (tickets - 1) * p[2] < packets * p[1]
        IN  /\ Holds(r.initial, funding.initial)
            /\ Holds(r.topup, funding.topup)
            /\ Holds(r.lower, funding.lower)

=============================================================================
