----------------------------- MODULE AutoFunding -----------------------------
(***************************************************************************)
(* The auto-funding strategy: tops up outgoing channels whose stake is at  *)
(* or below a threshold, on ticks and on balance-decrease events, with a   *)
(* set of in-flight channels as its only guard.                            *)
(*                                                                         *)
(* Actors.  The loop handles one tick or event at a time; each funding is  *)
(* a task that submits and awaits the confirmation; the chain applies a    *)
(* transaction when it likes and announces it by an event that may be      *)
(* lost.  A task that reports an error does not prove its transaction dead. *)
(* A successful task leaves the guard for the event to clear.              *)
(***************************************************************************)
EXTENDS Integers, Sequences

CONSTANTS
    Outgoing,           \* outgoing open channels
    Threshold,          \* min_stake_threshold
    FundingAmount,      \* funding_amount
    InitialStake,       \* stake of a channel at the start
    SafeFunds,          \* what the Safe holds and has approved, at the start
    MaxFundings,        \* bound on the fundings started
    MaxForeign          \* bound on fundings by others

ASSUME FundingAssumption ==
    /\ Threshold \in Nat /\ InitialStake \in Nat /\ SafeFunds \in Nat
    /\ FundingAmount \in Nat \ {0}
    /\ MaxFundings \in Nat /\ MaxForeign \in Nat

VARIABLES
    stake,          \* Outgoing -> stake on chain
    safe,           \* the lesser of the Safe's balance and its allowance
    inFlight,       \* in_flight
    fundings,       \* the funding tasks, in the order they were started
    events,         \* balance events on their way: [kind, chan]
    visiting,       \* what the tick being handled has left to look at
    budget,         \* what that tick may still spend
    seen,           \* the stakes as that tick's stream may report them
    deciding,       \* a decrease event whose Safe budget was read and covers it
    foreign,        \* how many times others funded a channel
    history         \* Outgoing -> [rises: who raised it, lost: an increase event was lost]

fundVars == <<stake, safe, inFlight, fundings, events, visiting, budget, seen,
              deciding, foreign, history>>

Num     == 1..MaxFundings
MaxLevel == InitialStake + (MaxFundings + MaxForeign) * FundingAmount
Funding == [chan : Outgoing, chain : {"pending", "landed", "dead"}, report : {"none", "ok", "err"}]

FundTypeOK ==
    /\ stake \in [Outgoing -> 0..MaxLevel] /\ seen \in [Outgoing -> 0..MaxLevel]
    /\ safe \in 0..SafeFunds /\ budget \in 0..SafeFunds
    /\ inFlight \subseteq Outgoing /\ visiting \subseteq Outgoing /\ deciding \subseteq Outgoing
    /\ fundings \in Seq(Funding) /\ Len(fundings) <= MaxFundings
    /\ events \subseteq [kind : {"increased", "decreased"}, chan : Outgoing]
    /\ foreign \in 0..MaxForeign
    /\ history \in [Outgoing -> [rises : SUBSET (0..MaxFundings), lost : BOOLEAN]]

Event(kind, c) == [kind |-> kind, chan |-> c]
TakerFree      == visiting = {} /\ deciding = {}

FundInit ==
    /\ stake = [c \in Outgoing |-> InitialStake] /\ seen = stake
    /\ safe = SafeFunds /\ budget = 0
    /\ inFlight = {} /\ fundings = <<>> /\ events = {} /\ visiting = {} /\ deciding = {}
    /\ foreign = 0
    /\ history = [c \in Outgoing |-> [rises |-> {}, lost |-> FALSE]]

-----------------------------------------------------------------------------
(* The chain. *)

Spend(c) ==
    /\ stake[c] > 0
    /\ stake' = [stake EXCEPT ![c] = @ - 1]
    /\ events' = IF stake[c] - 1 <= Threshold THEN events \cup {Event("decreased", c)} ELSE events
    /\ UNCHANGED <<safe, inFlight, fundings, visiting, budget, seen, deciding, foreign, history>>

Raise(c, who) ==
    /\ stake' = [stake EXCEPT ![c] = @ + FundingAmount]
    /\ events' = events \cup {Event("increased", c)}
    /\ history' = [history EXCEPT ![c].rises = @ \cup {who}]

ForeignFunding(c) ==
    /\ foreign < MaxForeign
    /\ foreign' = foreign + 1
    /\ Raise(c, 0)
    /\ UNCHANGED <<safe, inFlight, fundings, visiting, budget, seen, deciding>>

Lands(i) ==
    /\ i \in DOMAIN fundings /\ fundings[i].chain = "pending" /\ safe >= FundingAmount
    /\ fundings' = [fundings EXCEPT ![i].chain = "landed"]
    /\ safe' = safe - FundingAmount
    /\ Raise(fundings[i].chan, i)
    /\ UNCHANGED <<inFlight, visiting, budget, seen, deciding, foreign>>

FundEventLost(e) ==
    /\ e \in events
    /\ events' = events \ {e}
    /\ history' = [history EXCEPT ![e.chan].lost = @ \/ e.kind = "increased"]
    /\ UNCHANGED <<stake, safe, inFlight, fundings, visiting, budget, seen, deciding, foreign>>

-----------------------------------------------------------------------------
(* The loop. *)

\* A slip: the guard is never taken.
TakeNoGuard(c) == UNCHANGED inFlight
TakeGuard(c) == inFlight' = inFlight \cup {c}

\* try_fund_channel: the guard is taken first, and the task spawned with it.
\* Past the bound a funding is one whose submission fails on the spot.
TryFundChannel(c) ==
    IF c \in inFlight \/ Len(fundings) = MaxFundings
    THEN UNCHANGED <<inFlight, fundings, history>>
    ELSE /\ TakeGuard(c)
         /\ fundings' = Append(fundings, [chan |-> c, chain |-> "pending", report |-> "none"])
         /\ history' = [history EXCEPT ![c].lost = FALSE]

\* A slip: the budget is not looked at.
AffordableAlways == TRUE
Affordable == budget >= FundingAmount

\* A slip: the guard stays.
ClearNoGuard(c) == UNCHANGED inFlight
ClearGuard(c) == inFlight' = inFlight \ {c}

\* on_tick reads the budget - nothing where the Safe is not registered - ...
FundTick ==
    /\ TakerFree
    /\ visiting' = Outgoing /\ seen' = stake
    /\ budget' \in {0, safe}
    /\ UNCHANGED <<stake, safe, inFlight, fundings, events, deciding, foreign, history>>

\* ... and looks at one channel after the other, each as the stream has it.
VisitOutgoing(c) ==
    /\ c \in visiting
    /\ visiting' = visiting \ {c}
    /\ \E level \in {seen[c], stake[c]} :
          \/ /\ level > Threshold
             /\ ClearGuard(c)
             /\ UNCHANGED <<fundings, budget, history>>
          \/ /\ level <= Threshold
             /\ c \in inFlight \/ ~Affordable
             /\ UNCHANGED <<inFlight, fundings, budget, history>>
          \/ /\ level <= Threshold
             /\ c \notin inFlight /\ Affordable
             /\ TryFundChannel(c)
             /\ budget' = budget - FundingAmount
    /\ UNCHANGED <<stake, safe, events, seen, deciding, foreign>>

\* A decrease to the threshold or below: read the Safe, ...
OnBalanceDecreased(c) ==
    /\ TakerFree /\ Event("decreased", c) \in events
    /\ events' = events \ {Event("decreased", c)}
    /\ \/ safe >= FundingAmount /\ deciding' = {c}
       \/ UNCHANGED deciding          \* short of funds, or the Safe cannot be read
    /\ UNCHANGED <<stake, safe, inFlight, fundings, visiting, budget, seen, foreign, history>>

\* ... then fund.
FundOnDecrease(c) ==
    /\ c \in deciding
    /\ deciding' = {}
    /\ TryFundChannel(c)
    /\ UNCHANGED <<stake, safe, events, visiting, budget, seen, foreign>>

\* Any increase clears the guard, whoever caused it.
OnBalanceIncreased(c) ==
    /\ TakerFree /\ Event("increased", c) \in events
    /\ events' = events \ {Event("increased", c)}
    /\ ClearGuard(c)
    /\ UNCHANGED <<stake, safe, fundings, visiting, budget, seen, deciding, foreign, history>>

-----------------------------------------------------------------------------
(* The tasks. *)

Confirmed(i) ==
    /\ i \in DOMAIN fundings /\ fundings[i].report = "none" /\ fundings[i].chain = "landed"
    /\ fundings' = [fundings EXCEPT ![i].report = "ok"]
    /\ UNCHANGED <<stake, safe, inFlight, events, visiting, budget, seen, deciding, foreign, history>>

\* Submitting or confirming failed.  The transaction may be dead, or only
\* slower than whoever waited for it.
FundingFailed(i) ==
    /\ i \in DOMAIN fundings /\ fundings[i].report = "none"
    /\ \E fate \in {fundings[i].chain} \cup {f \in {"dead"} : fundings[i].chain = "pending"} :
          fundings' = [fundings EXCEPT ![i].report = "err", ![i].chain = fate]
    /\ ClearGuard(fundings[i].chan)
    /\ UNCHANGED <<stake, safe, events, visiting, budget, seen, deciding, foreign, history>>

-----------------------------------------------------------------------------
FundNext ==
    \/ \E c \in Outgoing : \/ Spend(c) \/ ForeignFunding(c)
                           \/ VisitOutgoing(c) \/ OnBalanceDecreased(c)
                           \/ FundOnDecrease(c) \/ OnBalanceIncreased(c)
    \/ \E i \in Num : Lands(i) \/ Confirmed(i) \/ FundingFailed(i)
    \/ \E e \in events : FundEventLost(e)
    \/ FundTick

\* The loop takes what it is given - an increase that is announced again and
\* again is handled one day, though ticks compete for the loop.  A transaction
\* may stay pending, and its task wait for it, for ever.
FundFairness ==
    /\ WF_fundVars(FundTick)
    /\ \A c \in Outgoing :
        /\ WF_fundVars(VisitOutgoing(c)) /\ WF_fundVars(FundOnDecrease(c))
        /\ SF_fundVars(OnBalanceIncreased(c)) /\ SF_fundVars(OnBalanceDecreased(c))

FundSpec == FundInit /\ [][FundNext]_fundVars /\ FundFairness

-----------------------------------------------------------------------------
\* Two fundings of one channel can both still land only if the first was
\* reported failed while it was merely slow, or if the stake of the channel
\* rose by something that is neither of them: someone else's funding or an
\* earlier one, whose event - or whose effect, seen by a tick - clears the
\* guard of a funding it has nothing to do with (try_fund_channel, run).  Any
\* such rise counts, however long ago: its event may come late, and a tick may
\* read a stake that is out of date.
DoubleFundingExplained ==
    \A i, j \in DOMAIN fundings :
        (i < j /\ fundings[i].chan = fundings[j].chan
               /\ fundings[i].chain = "pending" /\ fundings[j].chain = "pending")
            => \/ fundings[i].report = "err"
               \/ history[fundings[i].chan].rises \ {i, j} # {}

\* The last funding of c has not landed, and its task has not reported.
Unheard(c) ==
    \E i \in DOMAIN fundings :
        /\ fundings[i].chan = c /\ fundings[i].chain # "landed" /\ fundings[i].report = "none"
        /\ \A j \in DOMAIN fundings : fundings[j].chan = c => j <= i

\* in_flight has no deadline, and a task awaits its confirmation without one: a
\* guard stays for ever only if the event that should have cleared it was lost,
\* or its transaction neither lands nor is ever reported on (try_fund_channel).
GuardEnds ==
    \A c \in Outgoing : []<>(c \notin inFlight \/ history[c].lost \/ Unheard(c))

=============================================================================
