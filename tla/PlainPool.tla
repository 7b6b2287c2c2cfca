----------------------------- MODULE PlainPool -----------------------------
(***************************************************************************)
(* The non-anonymous deposit pool.  The Entry pays a deposit by a plain    *)
(* transfer out of its Safe, the Exit sweeps the address with the key it   *)
(* recovered, after topping up its gas from the node's account.  Each call *)
(* retries an attempt made of separate chain reads and a transfer that is  *)
(* awaited for a limited time: one whose confirmation is lost may land     *)
(* later, or never.                                                        *)
(*                                                                         *)
(* A deposit is worth one unit, and so is the gas of one sweep.            *)
(***************************************************************************)
EXTENDS Integers, Sequences, FiniteSets

CONSTANTS
    Dest,           \* deposit addresses, one per allocation
    SafeFloat,      \* the Safe's wxHOPR at the start
    SafeReserve,    \* cfg.min_safe_hopr_reserve
    NodeGas,        \* the node account's xDai at the start
    NodeReserve,    \* cfg.min_node_xdai_reserve
    DepositRetries, \* cfg.max_deposit_retries
    SweepRetries,   \* cfg.max_sweep_retries
    MaxTransfers    \* bound on the transfers sent

ASSUME PlainAssumption ==
    {SafeFloat, SafeReserve, NodeGas, NodeReserve, DepositRetries, SweepRetries, MaxTransfers} \subseteq Nat

VARIABLES
    wx,         \* wxHOPR of the Safe, the addresses and the sweeps' destination
    xdai,       \* xDai of the node account and the addresses
    transfers,  \* every transfer sent, with its fate so far
    deposits,   \* deposit_funds_to, by address
    sweeps      \* withdraw_deposit, by address

plainVars == <<wx, xdai, transfers, deposits, sweeps>>

Safe == "safe"
Node == "node"
Out  == "out"

ASSUME AddressAssumption == {Safe, Node, Out} \cap Dest = {}

DepositCall == [at : {"idle", "check", "afford", "send", "wait", "end"}, left : 0..DepositRetries, tried : BOOLEAN,
                tx : 0..MaxTransfers, verdict : {"none", "ok", "free", "unknown"}, excused : BOOLEAN]
SweepCall   == [at : {"idle", "read", "gas", "topup", "send", "wait", "end"}, left : 0..SweepRetries,
                amount : Nat, tx : 0..MaxTransfers, verdict : {"none", "ok", "failed"}]

PlainTypeOK ==
    /\ wx \in [Dest \cup {Safe, Out} -> Nat] /\ xdai \in [Dest \cup {Node} -> Nat]
    /\ Len(transfers) <= MaxTransfers
    /\ \A i \in 1..Len(transfers) : transfers[i].status \in {"pending", "landed", "dead"}
    /\ deposits \in [Dest -> DepositCall] /\ sweeps \in [Dest -> SweepCall]

PlainInit ==
    /\ wx = [a \in Dest \cup {Safe, Out} |-> IF a = Safe THEN SafeFloat ELSE 0]
    /\ xdai = [a \in Dest \cup {Node} |-> IF a = Node THEN NodeGas ELSE 0]
    /\ transfers = <<>>
    /\ deposits = [d \in Dest |-> [at |-> "idle", left |-> DepositRetries, tried |-> FALSE, tx |-> 0,
                                   verdict |-> "none", excused |-> FALSE]]
    /\ sweeps = [d \in Dest |-> [at |-> "idle", left |-> SweepRetries, amount |-> 0, tx |-> 0, verdict |-> "none"]]

-----------------------------------------------------------------------------
(* The chain. *)

Transfer(coin, from, to, amount) == [coin |-> coin, from |-> from, to |-> to, amount |-> amount, status |-> "pending"]

Of(coin, from, to, status) ==
    {i \in 1..Len(transfers) : /\ transfers[i].coin = coin /\ transfers[i].from = from /\ transfers[i].to = to
                               /\ transfers[i].status = status}

Covered(t) == IF t.coin = "xdai" THEN xdai[t.from] >= t.amount
                                 ELSE wx[t.from] >= t.amount /\ (t.from \in Dest => xdai[t.from] >= 1)

\* A pending transfer takes effect; a sweep burns the address's gas.
LandTransfer(i) ==
    LET t == transfers[i] IN
    /\ t.status = "pending" /\ Covered(t)
    /\ transfers' = [transfers EXCEPT ![i].status = "landed"]
    /\ IF t.coin = "xdai"
       THEN xdai' = [xdai EXCEPT ![t.from] = @ - t.amount, ![t.to] = @ + t.amount] /\ UNCHANGED wx
       ELSE /\ wx' = [wx EXCEPT ![t.from] = @ - t.amount, ![t.to] = @ + t.amount]
            /\ xdai' = [a \in DOMAIN xdai |-> IF a = t.from /\ a \in Dest THEN xdai[a] - 1 ELSE xdai[a]]
    /\ UNCHANGED <<deposits, sweeps>>

\* It reverts, or is dropped for good.
DropTransfer(i) ==
    /\ transfers[i].status = "pending"
    /\ transfers' = [transfers EXCEPT ![i].status = "dead"]
    /\ UNCHANGED <<wx, xdai, deposits, sweeps>>

-----------------------------------------------------------------------------
(* deposit_funds_to and its deposit_once. *)

Put(d, call) == deposits' = [deposits EXCEPT ![d] = call]

StartDeposit(d) ==
    /\ deposits[d].at = "idle"
    /\ Put(d, [deposits[d] EXCEPT !.at = "check"])
    /\ UNCHANGED <<wx, xdai, transfers, sweeps>>

\* A failed attempt is retried whatever failed; the last error is what the caller gets.
Retried(call, verdict) ==
    IF call.left > 0 THEN [call EXCEPT !.at = "check", !.left = @ - 1, !.tx = 0]
                     ELSE [call EXCEPT !.at = "end", !.verdict = verdict]

\* A slip: an attempt sends its transfer whatever the address already holds.
FundedNever(d) == FALSE

Funded(d) == wx[d] >= 1

\* The balance of the destination, read before every attempt.  Excused when it cannot show an earlier
\* transfer: one is still pending, or what one paid in was swept.
CheckDest(d) ==
    /\ deposits[d].at = "check"
    /\ \/ Funded(d) /\ Put(d, [deposits[d] EXCEPT !.at = "end", !.verdict = "ok"])
       \/ ~Funded(d) /\ Put(d, [deposits[d] EXCEPT !.at = "afford",
              !.excused = @ \/ Of("wx", Safe, d, "pending") \cup Of("wx", d, Out, "landed") # {}])
       \/ Put(d, Retried(deposits[d], "unknown"))
    /\ UNCHANGED <<wx, xdai, transfers, sweeps>>

\* PlainDepositError::Unaffordable moved no funds unless an attempt was made before.
Afford(d) ==
    /\ deposits[d].at = "afford"
    /\ \/ wx[Safe] < 1 + SafeReserve
          /\ Put(d, Retried(deposits[d], IF deposits[d].tried THEN "unknown" ELSE "free"))
       \/ wx[Safe] >= 1 + SafeReserve
          /\ Put(d, [deposits[d] EXCEPT !.at = "send", !.tried = TRUE])
       \/ Put(d, Retried(deposits[d], "unknown"))
    /\ UNCHANGED <<wx, xdai, transfers, sweeps>>

\* The transfer is submitted; the submission's own outcome may be lost.
SendDeposit(d) ==
    /\ deposits[d].at = "send"
    /\ \/ /\ Len(transfers) < MaxTransfers
          /\ transfers' = Append(transfers, Transfer("wx", Safe, d, 1))
          /\ \/ Put(d, [deposits[d] EXCEPT !.at = "wait", !.tx = Len(transfers) + 1])
             \/ Put(d, Retried(deposits[d], "unknown"))
       \/ Put(d, Retried(deposits[d], "unknown")) /\ UNCHANGED transfers
    /\ UNCHANGED <<wx, xdai, sweeps>>

\* Confirmed, reverted, or not confirmed in time.
AwaitDeposit(d) ==
    /\ deposits[d].at = "wait"
    /\ \/ transfers[deposits[d].tx].status = "landed"
          /\ Put(d, [deposits[d] EXCEPT !.at = "end", !.verdict = "ok"])
       \/ Put(d, Retried(deposits[d], "unknown"))
    /\ UNCHANGED <<wx, xdai, transfers, sweeps>>

-----------------------------------------------------------------------------
(* withdraw_deposit and its sweep_single. *)

SetSweep(d, call) == sweeps' = [sweeps EXCEPT ![d] = call]

\* The key is recovered, or taken up again by a replay after a failure.
StartSweep(d) ==
    /\ sweeps[d].at = "idle" \/ sweeps[d].verdict = "failed"
    /\ SetSweep(d, [sweeps[d] EXCEPT !.at = "read", !.left = SweepRetries, !.verdict = "none"])
    /\ UNCHANGED <<wx, xdai, transfers, deposits>>

SweptAgain(call) ==
    IF call.left > 0 THEN [call EXCEPT !.at = "read", !.left = @ - 1, !.tx = 0]
                     ELSE [call EXCEPT !.at = "end", !.verdict = "failed"]

\* An empty address is a failure, not a sweep of nothing.
ReadBalance(d) ==
    /\ sweeps[d].at = "read"
    /\ \/ wx[d] = 0 /\ SetSweep(d, SweptAgain(sweeps[d]))
       \/ wx[d] > 0 /\ SetSweep(d, [sweeps[d] EXCEPT !.at = "gas", !.amount = wx[d]])
    /\ UNCHANGED <<wx, xdai, transfers, deposits>>

\* fund_sweep_gas: the address lacks its unit of gas and the node's account can pay it and keep its reserve.
FundSweepGas(d) ==
    /\ sweeps[d].at = "gas"
    /\ \/ xdai[d] >= 1 /\ SetSweep(d, [sweeps[d] EXCEPT !.at = "send"]) /\ UNCHANGED transfers
       \/ xdai[d] < 1 /\ xdai[Node] < 1 + NodeReserve
          /\ SetSweep(d, SweptAgain(sweeps[d])) /\ UNCHANGED transfers
       \/ /\ xdai[d] < 1 /\ xdai[Node] >= 1 + NodeReserve
          /\ Len(transfers) < MaxTransfers
          /\ transfers' = Append(transfers, Transfer("xdai", Node, d, 1))
          /\ SetSweep(d, [sweeps[d] EXCEPT !.at = "topup", !.tx = Len(transfers) + 1])
    /\ UNCHANGED <<wx, xdai, deposits>>

SendSweep(d) ==
    /\ sweeps[d].at = "send" /\ Len(transfers) < MaxTransfers
    /\ transfers' = Append(transfers, Transfer("wx", d, Out, sweeps[d].amount))
    /\ SetSweep(d, [sweeps[d] EXCEPT !.at = "wait", !.tx = Len(transfers) + 1])
    /\ UNCHANGED <<wx, xdai, deposits>>

\* A top-up or a sweep confirmed, or not in time.
AwaitSweep(d) ==
    /\ sweeps[d].at \in {"topup", "wait"}
    /\ \/ /\ transfers[sweeps[d].tx].status = "landed"
          /\ SetSweep(d, IF sweeps[d].at = "topup" THEN [sweeps[d] EXCEPT !.at = "send"]
                                                   ELSE [sweeps[d] EXCEPT !.at = "end", !.verdict = "ok"])
       \/ SetSweep(d, SweptAgain(sweeps[d]))
    /\ UNCHANGED <<wx, xdai, transfers, deposits>>

PlainNext ==
    \/ \E i \in 1..Len(transfers) : LandTransfer(i) \/ DropTransfer(i)
    \/ \E d \in Dest :
          \/ StartDeposit(d) \/ CheckDest(d) \/ Afford(d) \/ SendDeposit(d) \/ AwaitDeposit(d)
          \/ StartSweep(d) \/ ReadBalance(d) \/ FundSweepGas(d) \/ SendSweep(d) \/ AwaitSweep(d)

PlainSpec == PlainInit /\ [][PlainNext]_plainVars

-----------------------------------------------------------------------------
(* Properties. *)

\* What deposit_funds_to and withdraw_deposit report is what happened (deposit_once, "a submitted transfer
\* whose confirmation was lost is therefore not sent twice").  A deposit is paid twice only when a retry read
\* the address while an earlier transfer was still pending or after its money was swept; a refusal taken to
\* have moved no funds sent nothing; a success is funded; and a sweep reported done moved the deposit out, so
\* that nothing is left behind an abandoned key but what a second payment brought.
PaymentsExplained ==
    \A d \in Dest :
        LET paid == Of("wx", Safe, d, "landed")  IN
        /\ Cardinality(paid) > 1 => deposits[d].excused
        /\ deposits[d].verdict = "free" => paid \cup Of("wx", Safe, d, "pending") = {}
        /\ deposits[d].verdict = "ok" => paid # {}
        /\ sweeps[d].verdict = "ok" =>
              /\ Of("wx", d, Out, "landed") # {}
              /\ wx[d] > 0 => Cardinality(paid) > 1
=============================================================================
