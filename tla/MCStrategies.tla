----------------------------- MODULE MCStrategies -----------------------------
(***************************************************************************)
(* The strategies and algorithms that do not interact share one run, on    *)
(* small instances.                                                        *)
(***************************************************************************)
EXTENDS Strategies, TLC

MCRedeemCfgs == {[onWinning |-> FALSE, onClose |-> TRUE], [onWinning |-> TRUE, onClose |-> TRUE]}

-----------------------------------------------------------------------------
(* Snapshots for the selectors: every subset of a few candidates that differ *)
(* in what the selectors tell apart.                                         *)

Candidate(id, ms, ack, subnet, out) ==
    [id |-> id, latency |-> ms, probe |-> Unmeasured, ack |-> ack, ticket |-> Unmeasured, edge |-> ack,
     keyKnown |-> TRUE, subnet |-> subnet, stake |-> Unmeasured, outgoing |-> out]

OpenPool == {Candidate(1, 50, 100, "A", 1), Candidate(2, 51, 80, "B", 1),
             Candidate(3, 50, 20, "A", 0), Candidate(4, Unmeasured, 20, "C", 1),
             Candidate(5, 40, 90, "B", Unmeasured), Candidate(6, 51, 60, "B", 2),
             Candidate(7, 40, 70, "B", 0)}

Occupant(id, subnet, edge, ticket, age, balance, keyKnown) ==
    [Candidate(id, 50, edge, subnet, 1) EXCEPT !.ticket = ticket, !.keyKnown = keyKnown]
        @@ [lastUpdate |-> age, balance |-> balance]

ClosePool == {Occupant(1, "A", 10, Unmeasured, 1, 5, TRUE), Occupant(2, "A", 60, Unmeasured, 9, 5, TRUE),
              Occupant(3, "A", 20, 0, 1, 0, TRUE),          Occupant(4, UnknownSubnet, 10, 20, 1, 5, TRUE),
              Occupant(5, "B", 60, 0, 1, 5, TRUE),          Occupant(6, "A", 90, 100, 0, 5, FALSE),
              Occupant(7, "A", 30, Unmeasured, 1, 5, TRUE)}

Weights == {[latency |-> 35, trust |-> 30, stake |-> 15, anonymity |-> 20],
            [latency |-> 70, trust |-> 20, stake |-> 5, anonymity |-> 5]}

Cfgs(w, k, limit) ==
    [weights |-> w, kFloor |-> k, openPerTick |-> limit, closePerTick |-> limit, gap |-> 20,
     trustProbe |-> 50, trustAck |-> 35, trustTicket |-> 15, qualityWeight |-> 60, ticketWeight |-> 40,
     minQuality |-> 60, closeBelow |-> 30, unseenFor |-> 5, requireObserved |-> TRUE,
     drainedBelow |-> 0, demote |-> TRUE, minOutgoing |-> 1]

Opens  == {[selector |-> s, cfg |-> Cfgs(w, k, limit), deficit |-> 4, elapsed |-> 10, opens |-> S,
            channels |-> T] :
              s \in {"multi"}, w \in Weights, k \in 0..2, limit \in {2, 3, 5}, S \in SUBSET OpenPool,
              T \in {{}, {Occupant(1, "A", 60, Unmeasured, 1, 5, TRUE)}}}
Closes == {[selector |-> s, cfg |-> Cfgs(w, k, limit), deficit |-> 0, elapsed |-> 10, opens |-> {},
            channels |-> T] :
              s \in {"multi"}, w \in Weights, k \in 0..2, limit \in 1..3, T \in SUBSET ClosePool}
Ranks == {[selector |-> "default", cfg |-> Cfgs(w, 1, 2), deficit |-> 0, elapsed |-> 10, opens |-> S,
           channels |-> T] :
              w \in Weights, S \in {U \in SUBSET OpenPool : Cardinality(U) >= 5}, T \in {{}, ClosePool}}

MCProblems == Opens \cup Closes \cup Ranks
MCWinProbs == {<<1, 1>>, <<2, 3>>, <<1, 10>>, <<0, 1>>, <<3, 2>>}

-----------------------------------------------------------------------------
\* What a behaviour is not about begins in one way.
MCInit ==
    /\ subject \in {"redeem", "fund", "final", "select", "size"}
    /\ IF Only("redeem") THEN TRUE ELSE redeemCfg = CHOOSE c \in RedeemCfgs : TRUE
    /\ IF Only("final") THEN TRUE ELSE interval = CHOOSE i \in Intervals : TRUE
    /\ IF Only("select") THEN TRUE
       ELSE problem = CHOOSE p \in Problems : p.opens = {} /\ p.channels = {}
    /\ IF Only("size") THEN TRUE
       ELSE /\ economics = CHOOSE e \in [price : Prices, winProb : WinProbs, buffer : Buffers] : TRUE
            /\ funding = CHOOSE f \in [initial : Capacities, topup : Capacities, lower : Capacities] : TRUE
    /\ StrategiesInit

\* RedeemFairness and FundFairness, each for the behaviours about its subject.
MCFairness ==
    /\ WF_redeemVars(Only("redeem") /\ RedeemTick) /\ WF_redeemVars(Only("redeem") /\ InsertHandle)
    /\ \A c \in Channel :
        /\ WF_redeemVars(Only("redeem") /\ VisitChannel(c)) /\ WF_redeemVars(Only("redeem") /\ Expire(c))
        /\ WF_redeemVars(Only("redeem") /\ OnAcknowledgedWinningTicket(c))
        /\ WF_redeemVars(Only("redeem") /\ OnOwnChannelChanged(c))
        /\ SF_redeemVars(Only("redeem") /\ \E r \in Run : runs[r] = c /\ Redeem(r))
    /\ \A r \in Run : WF_redeemVars(Only("redeem") /\ FinishRun(r))
    /\ WF_fundVars(Only("fund") /\ FundTick)
    /\ \A c \in Outgoing :
        /\ WF_fundVars(Only("fund") /\ VisitOutgoing(c)) /\ WF_fundVars(Only("fund") /\ FundOnDecrease(c))
        /\ SF_fundVars(Only("fund") /\ OnBalanceIncreased(c))
        /\ SF_fundVars(Only("fund") /\ OnBalanceDecreased(c))

MCSpec == MCInit /\ [][StrategiesNext]_strategiesVars /\ MCFairness

\* Incoming channels are alike until a ticket is won: the one ticket may be won on the first of them.  Where
\* ticks visit every channel, one of them closes.
MCIncoming ==
    /\ \A c \in Channel \ {CHOOSE d \in Channel : TRUE} : tickets[c] = 0
    /\ ~redeemCfg.onWinning => Cardinality({c \in Channel : status[c] # "open"}) <= 1
=============================================================================
