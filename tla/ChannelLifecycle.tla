------------------------- MODULE ChannelLifecycle -------------------------
(***************************************************************************)
(* The channel lifecycle strategy over the chain it acts on: the pipeline  *)
(* of one tick (snapshot, fund, close, consolidate, finalize, open), the   *)
(* chain-event handlers between ticks, the transactions both submit, and   *)
(* the chain, which confirms, fails and reports them at its own pace.      *)
(*                                                                         *)
(* Actors.  The run loop is sequential: ticks and events never overlap.    *)
(* A tick awaits its reads, and transaction tasks run on other threads, so *)
(* between any two steps of a tick a transaction may land or report.       *)
(*                                                                         *)
(* The node is the source of every channel here, so a channel is named by  *)
(* its destination.  A slot is held exactly by a running transaction that  *)
(* still has its lease (ActionLeases, NoStrandedSlot), so leases are a     *)
(* flag of the transactions.  Balances count an arbitrary unit of wxHOPR.  *)
(*                                                                         *)
(* Which peers the selector ranks, which are connected and what the        *)
(* startup phase shields is any choice of the environment.                 *)
(***************************************************************************)
EXTENDS Integers, SequencesExt

CONSTANTS
    Peer,           \* destinations
    MinOpen,        \* population.min_open_channels
    TargetOpen,     \* population.target_open_channels
    Cooldown,       \* population.peer_reopen_cooldown, in ticks of the clock
    MaxActions,     \* concurrency.max_concurrent_actions
    CloseCap,       \* closure.close_max_concurrent
    FinalizeCap,    \* finalizer.finalize_max_concurrent
    FaceValue,      \* the resolved funding: face value of a winning ticket,
    TopUp,          \*   topup_balance,
    Initial,        \*   initial_balance,
    LowerBalance,   \*   lower_balance_threshold
    CloseBelow,     \* closure.close_when_drained_below
    Allowance,      \* wxHOPR the Safe lets the node spend at once
    StartBalances,  \* balances of the channels there are at the start
    StartSafe,      \* balance of the Safe at the start
    MaxEvents,      \* capacity of the event broadcast
    MaxStrays,      \* bound on transactions under way without a lease
    MaxDrains,      \* bound on tickets redeemed by the peers
    MaxFaults       \* bound on failures, lapses, lost events, foreign closures

ASSUME LifecycleAssumption ==
    /\ IsFiniteSet(Peer)
    /\ {MinOpen, TargetOpen, MaxActions, CloseCap, FinalizeCap} \subseteq Nat
    /\ {Cooldown, TopUp, Initial, LowerBalance, CloseBelow} \subseteq Nat
    /\ {Allowance, StartSafe} \subseteq Nat
    /\ StartBalances \subseteq Nat
    /\ {MaxEvents, MaxStrays, MaxDrains, MaxFaults} \subseteq Nat
    /\ FaceValue \in Nat \ {0}

VARIABLES
    chan,           \* the channels on chain
    safe,           \* the Safe's wxHOPR on chain
    txs,            \* submitted transactions whose task has not reported
    events,         \* the chain events not yet drained by the loop
    cooldown,       \* time left of each peer's reopen cooldown
    seenClosed,     \* last_observed: channels whose `closed` flag is set
    resolved,       \* whether last_resolved_funding is known
    tick,           \* the tick under way
    rest,           \* history: time left of a cooldown counted from the closure itself
    shown,          \* history: channels whose present life the strategy knows of, see below
    drains, faults  \* what the environment has used up

vars == <<chan, safe, txs, events, cooldown, seenClosed, resolved, tick, rest, shown,
          drains, faults>>
chainVars    == <<chan, safe, rest>>
strategyVars == <<cooldown, seenClosed, resolved, tick, shown>>

Kind     == {"open", "fund", "close", "finalize"}
Pending  == {"notice", "due", "overdue"}    \* PendingToClose, by age of its closure time
Status   == {"none", "open", "closed"} \cup Pending
Channel  == [status : Status, balance : Nat]
Absent   == [status |-> "none", balance |-> 0]
Tx       == [n : Nat, kind : Kind, peer : Peer, amount : Nat, leased : BOOLEAN, sent : BOOLEAN]
ChainEvent == [kind : {"opened", "increased", "decreased", "closing", "closed"},
               peer : Peer, status : Status, balance : Nat]
Unknown  == -1

(***************************************************************************)
(* What a tick carries from one await to the next.  `spent` is history.    *)
(***************************************************************************)
Tick == [phase : {"idle", "read", "resolve", "select"},
         snap : [Peer -> Channel], safe : Nat \cup {Unknown}, spend : Nat, spent : Nat,
         priced : BOOLEAN, opening : SUBSET Peer, deferred : SUBSET Peer, opens : SUBSET Peer]

NoTick == [phase |-> "idle", snap |-> [p \in Peer |-> Absent], safe |-> Unknown, spend |-> 0,
           spent |-> 0, priced |-> FALSE, opening |-> {}, deferred |-> {}, opens |-> {}]

TypeOK ==
    /\ chan \in [Peer -> Channel]
    /\ safe \in Nat
    /\ txs \subseteq Tx /\ \A t, u \in txs : <<t.kind, t.peer, t.n>> = <<u.kind, u.peer, u.n>> => t = u
    /\ events \in Seq(ChainEvent) /\ Len(events) <= MaxEvents
    /\ cooldown \in [Peer -> 0..Cooldown] /\ rest \in [Peer -> 0..Cooldown]
    /\ seenClosed \subseteq Peer /\ shown \subseteq Peer
    /\ resolved \in BOOLEAN
    /\ tick \in Tick
    /\ drains \in 0..MaxDrains /\ faults \in 0..MaxFaults

Init ==
    /\ chan \in [Peer -> {Absent} \cup [status : {"open", "overdue"}, balance : StartBalances]]
    /\ safe = StartSafe
    /\ txs = {} /\ events = <<>>
    /\ cooldown = [p \in Peer |-> 0] /\ rest = [p \in Peer |-> 0]
    /\ seenClosed = {} /\ shown = {} /\ resolved = FALSE
    /\ tick = NoTick
    /\ drains = 0 /\ faults = 0

-----------------------------------------------------------------------------
(***************************************************************************)
(* Slots and dispatch.                                                     *)
(***************************************************************************)
Leased(ts)          == {t \in ts : t.leased}
Holders(ts, kind)   == {t.peer : t \in {u \in Leased(ts) : u.kind = kind}}
Held(kind, p)       == p \in Holders(txs, kind)

CanDispatch(ts, kind, p) == p \notin Holders(ts, kind) /\ Cardinality(Leased(ts)) < MaxActions

Dispatched(ts, kind, p, amount) ==
    LET rivals == {t.n : t \in {u \in ts : u.kind = kind /\ u.peer = p}} IN
    ts \cup {[n |-> Min((0..Cardinality(rivals)) \ rivals), kind |-> kind, peer |-> p,
              amount |-> amount, leased |-> TRUE, sent |-> FALSE]}

\* Of a transaction that has landed and lost its lease, nothing more is heard.
Heard(ts) == {t \in ts : t.leased \/ ~t.sent}

\* A chain event releases the slot of `kind` on p, whoever holds it.
Released(kind, p) ==
    Heard({IF t.kind = kind /\ t.peer = p THEN [t EXCEPT !.leased = FALSE] ELSE t : t \in txs})

BoundedStrays == Cardinality(txs' \ Leased(txs')) <= MaxStrays

Fault == faults < MaxFaults /\ faults' = faults + 1

(***************************************************************************)
(* Between two awaits a tick runs through its passes without a pause.  A   *)
(* pass takes its candidates in order; a run carries what the passes have  *)
(* dispatched and may spend, the pass's count, and whether it has stopped. *)
(***************************************************************************)
Run == [txs |-> txs, spend |-> tick.spend, count |-> 0, over |-> FALSE]

Stop(run) == [run EXCEPT !.over = TRUE]

Submit(run, kind, p, amount) ==
    IF CanDispatch(run.txs, kind, p)
    THEN [run EXCEPT !.txs = Dispatched(@, kind, p, amount), !.count = @ + 1,
                     !.spend = @ - amount]
    ELSE run

-----------------------------------------------------------------------------
(***************************************************************************)
(* One tick of the pipeline.  The Safe is read first, then the channels,   *)
(* then the ticket price and the peers; any read may come back unknown.    *)
(***************************************************************************)
StartTick ==
    /\ tick.phase = "idle"
    /\ \/ /\ tick' = [NoTick EXCEPT !.phase = "read", !.safe = safe,
                                    !.spend = Min({safe, Allowance})]
          /\ UNCHANGED faults
       \/ tick' = [NoTick EXCEPT !.phase = "read"] /\ Fault
    /\ UNCHANGED <<chainVars, txs, events, cooldown, seenClosed, resolved, shown, drains>>

Closed   == {p \in Peer : chan[p].status = "closed"}
Occupied == {p \in Peer : chan[p].status \in {"open"} \cup Pending}

CoolingOnce(ps) ==                  \* a slip: a cooldown under way is not started anew
    [p \in Peer |-> IF p \in ps /\ cooldown[p] = 0 THEN Cooldown ELSE cooldown[p]]

\* The reopen cooldown starts, or starts again, for these peers (start_reopen_cooldown).
Cooling(ps) == [p \in Peer |-> IF p \in ps THEN Cooldown ELSE cooldown[p]]

\* A slip: the snapshot leaves cooldowns to the events.
UnnoticedNever == {}

\* Closures whose event has not started a cooldown.
Unnoticed == {p \in Closed \ seenClosed : cooldown[p] = 0}

ReadChannels ==
    /\ tick.phase = "read"
    /\ \/ /\ tick' = [tick EXCEPT !.phase = "resolve", !.snap = chan]
          /\ cooldown' = Cooling(Unnoticed)
          /\ seenClosed' = Closed
          /\ shown' = shown \cup {p \in Occupied : cooldown[p] = 0}
          /\ UNCHANGED faults
       \/ tick' = NoTick /\ Fault /\ UNCHANGED <<cooldown, seenClosed, shown>>
    /\ UNCHANGED <<chainVars, txs, events, resolved, drains>>

Shown(p)     == tick.snap[p]
ShownOpen    == {p \in Peer : Shown(p).status = "open"}
ShownPending == {p \in Peer : Shown(p).status \in Pending}
Stake(ps)    == MapThenSumSet(LAMBDA p : Shown(p).balance, ps)
OpenCount(opening) == Cardinality(ShownOpen) + Cardinality(opening)

Amounts(ts) == MapThenSumSet(LAMBDA t : t.amount, ts)

(***************************************************************************)
(* What each pass does with one candidate.                                 *)
(***************************************************************************)
\* A full top-up, or as many whole face values as are left.
Amount(spend) == IF spend >= TopUp THEN TopUp ELSE spend - (spend % FaceValue)

FundStep(run, p) ==
    IF Amount(run.spend) = 0 THEN Stop(run) ELSE Submit(run, "fund", p, Amount(run.spend))

\* The close pass, over whatever the selector and the connectivity rule rank.
CloseStepPastFloor(run, p) ==       \* a slip: closes at the floor too
    IF run.count >= CloseCap \/ Max({0, OpenCount(tick.opening) - run.count}) < MinOpen
    THEN Stop(run)
    ELSE IF p \in Holders(run.txs, "close") \cup Holders(run.txs, "fund") THEN run
    ELSE Submit(run, "close", p, 0)

CloseStep(run, p) ==
    IF run.count >= CloseCap \/ Max({0, OpenCount(tick.opening) - run.count}) <= MinOpen
    THEN Stop(run)
    ELSE IF p \in Holders(run.txs, "close") \cup Holders(run.txs, "fund") THEN run
    ELSE Submit(run, "close", p, 0)

\* The two halves of consolidation: closes, then top-ups of what is kept.
CullStep(run, p) == IF run.count >= CloseCap THEN Stop(run) ELSE Submit(run, "close", p, 0)

TopUpStepUnbacked(run, p) ==        \* a slip: does not ask what is left
    Submit(run, "fund", p, FaceValue - Shown(p).balance)

TopUpStep(run, p) ==
    LET topup == FaceValue - Shown(p).balance IN
    IF run.spend < topup THEN Stop(run) ELSE Submit(run, "fund", p, topup)

\* Two slips: the pass has no cap, or stops one short of it.
FinalizeStepUncapped(run, p) ==
    IF Shown(p).status = "overdue" THEN Submit(run, "finalize", p, 0) ELSE run

FinalizeStepShort(run, p) ==
    IF run.count + 1 >= FinalizeCap THEN Stop(run) ELSE FinalizeStepUncapped(run, p)

\* The finalize pass.
FinalizeStep(run, p) ==
    IF run.count >= FinalizeCap THEN Stop(run)
    ELSE IF Shown(p).status = "overdue" THEN Submit(run, "finalize", p, 0) ELSE run

(***************************************************************************)
(* The open pass.  The channel is read again before a slot is taken: one   *)
(* that is open by now is topped up instead, one being closed is skipped.  *)
(***************************************************************************)
OpenStep(run, p) ==
    IF run.spend < Initial THEN Stop(run)
    ELSE IF p \notin Occupied THEN Submit(run, "open", p, Initial)
    ELSE IF /\ chan[p].status = "open" /\ chan[p].balance < LowerBalance
            /\ run.spend >= TopUp
    THEN Submit(run, "fund", p, TopUp)
    ELSE run

Step(pass, run, p) ==
    CASE pass = "fund"     -> FundStep(run, p)
      [] pass = "close"    -> CloseStep(run, p)
      [] pass = "cull"     -> CullStep(run, p)
      [] pass = "topup"    -> TopUpStep(run, p)
      [] pass = "finalize" -> FinalizeStep(run, p)
      [] pass = "open"     -> OpenStep(run, p)

\* The run after the first candidates of a pass; a pass that has stopped takes no more of them.
Pass(pass, run, count, order) ==
    LET after[n \in 0..Len(order)] ==
            IF n = 0 THEN [run EXCEPT !.over = FALSE, !.count = count]
            ELSE LET before == after[n - 1] IN
                 IF before.over THEN before ELSE Step(pass, before, order[n])
    IN  after[Len(order)]

(***************************************************************************)
(* The fund pass, neediest first.  A channel drained to a positive         *)
(* threshold is retired and not refunded; with the threshold at zero, one  *)
(* drained to nothing is refunded if its peer is connected or active.  A   *)
(* channel may be funded early on its drain.  In a stranded tick, channels *)
(* below one face value are left for consolidation.                        *)
(***************************************************************************)
Drained == {p \in ShownOpen : Shown(p).balance <= CloseBelow}

\* The channels a tick may find not worth refunding.
Unrefunded == IF CloseBelow = 0 THEN SUBSET Drained ELSE {Drained}

NeedyBelow(unworthy, draining) ==   \* a slip: not at the threshold itself
    {p \in ShownOpen : /\ ~Held("fund", p) /\ ~Held("close", p)
                       /\ p \notin unworthy
                       /\ Shown(p).balance < LowerBalance \/ p \in draining}

Needy(unworthy, draining) ==
    {p \in ShownOpen : /\ ~Held("fund", p) /\ ~Held("close", p)
                       /\ p \notin unworthy
                       /\ Shown(p).balance <= LowerBalance \/ p \in draining}

Neediest(ps) ==
    {order \in SetToSeqs(ps) : \A i, j \in DOMAIN order :
        i < j => Shown(order[i]).balance <= Shown(order[j]).balance}

\* Whom the open pass may consider, settled before the selector is asked.
Openable ==
    {p \in Peer : /\ Shown(p).status \in {"none", "closed"}
                  /\ ~Held("open", p)
                  /\ cooldown[p] = 0}

FundPass(needy, opening) ==
    LET required == TopUp * Cardinality(needy)
                    + Initial * Max({0, MinOpen - OpenCount(opening)})
        deferred == IF TopUp = 0 \/ tick.safe >= required THEN {}
                    ELSE {p \in needy : Shown(p).balance < FaceValue} IN
    \E order \in Neediest(needy \ deferred) :
       LET run == IF TopUp = 0 THEN Run ELSE Pass("fund", Run, 0, order) IN
       /\ txs' = run.txs
       /\ tick' = [tick EXCEPT !.phase = "select", !.priced = TRUE, !.opening = opening,
                               !.spend = run.spend, !.spent = Amounts(run.txs \ txs),
                               !.deferred = deferred, !.opens = Openable]

Resolve ==
    LET opening == Holders(txs, "open") IN
    /\ tick.phase = "resolve"
    /\ \/ /\ tick.safe # Unknown
          /\ \E unworthy \in Unrefunded, draining \in SUBSET {p \in ShownOpen : drains > 0} :
             FundPass(Needy(unworthy, draining), opening)
          /\ resolved' = TRUE /\ UNCHANGED faults
       \/ /\ tick.safe = Unknown
          /\ tick' = [tick EXCEPT !.phase = "select", !.priced = TRUE, !.opening = opening]
          /\ resolved' = TRUE /\ UNCHANGED <<txs, faults>>
       \/ /\ tick' = [tick EXCEPT !.phase = "select", !.opening = opening]
          /\ Fault /\ UNCHANGED <<txs, resolved>>
    /\ UNCHANGED <<chainVars, events, cooldown, seenClosed, shown, drains>>

(***************************************************************************)
(* Consolidation of stranded stake: of the deferred channels no other pass *)
(* has acted on, keep as many as the pooled stake can lift to one face     *)
(* value, close the rest whatever the population floor says, and top the   *)
(* kept ones up, cheapest first.  Closures wait for the startup guard.     *)
(***************************************************************************)
Deferred(run) == tick.deferred \ (Holders(run.txs, "fund") \cup Holders(run.txs, "close"))

CullCount(run) ==
    LET reclaiming == Stake(ShownPending \cup Holders(run.txs, "close"))
        pool       == tick.safe + reclaiming + Stake(Deferred(run))
        achievable == pool \div FaceValue
        count      == Cardinality(Deferred(run))
    IN  IF achievable = 0 \/ achievable >= count THEN 0 ELSE count - achievable

Culls(run) ==
    {ranked \in SetToAllKPermutations(Deferred(run)) : Len(ranked) \in {0, CullCount(run)}}

Cheapest(ps) ==
    {order \in SetToSeqs(ps) : \A i, j \in DOMAIN order :
        i < j => Shown(order[i]).balance >= Shown(order[j]).balance}

Openings ==
    IF tick.priced /\ tick.safe # Unknown /\ Initial > 0
    THEN {ranked \in SetToAllKPermutations(tick.opens) :
            Len(ranked) <= Max({0, TargetOpen - OpenCount(tick.opening)})}
    ELSE {<<>>}

Count(run, kind) == Cardinality(Holders(run.txs, kind))

\* The passes after the selector has answered, to the end of the tick.
Act ==
    /\ tick.phase = "select"
    /\ \E ranked \in SetToAllKPermutations(ShownOpen) :
       LET closed == Pass("close", Run, Count(Run, "close"), ranked) IN
       \E culls \in Culls(closed) :
       LET culled == Pass("cull", closed, Count(closed, "close"), culls) IN
       \E kept \in Cheapest(Deferred(culled) \ ToSet(culls)), pending \in SetToSeqs(ShownPending) :
       LET topped    == Pass("topup", culled, 0, kept)
           finalized == Pass("finalize", topped, Count(topped, "finalize"), pending) IN
       \E opens \in Openings : txs' = Pass("open", finalized, 0, opens).txs
    /\ tick' = NoTick
    /\ UNCHANGED <<chainVars, events, cooldown, seenClosed, resolved, shown, drains, faults>>

-----------------------------------------------------------------------------
(***************************************************************************)
(* The chain events, drained one at a time between ticks.                  *)
(***************************************************************************)
HandleEvent ==
    LET e == Head(events) IN
    /\ tick.phase = "idle" /\ events # <<>>
    /\ events' = Tail(events)
    /\ \/ e.kind = "opened"    /\ txs' = Released("open", e.peer)
       \/ e.kind = "increased" /\ txs' = Released("fund", e.peer)
       \/ e.kind = "closing"   /\ txs' = Released("close", e.peer)
       \/ e.kind = "closed"    /\ txs' = Released("finalize", e.peer)
       \/ /\ e.kind = "decreased"
          /\ txs' = IF /\ e.status = "open" /\ resolved
                       /\ e.balance < LowerBalance
                       /\ TopUp > 0 /\ Min({safe, Allowance}) >= TopUp
                       /\ CanDispatch(txs, "fund", e.peer)
                    THEN Dispatched(txs, "fund", e.peer, TopUp) ELSE txs
    /\ BoundedStrays
    /\ IF e.kind = "closed"
       THEN /\ cooldown' = Cooling({e.peer})
            /\ seenClosed' = seenClosed \ {e.peer}
            /\ shown' = IF e.peer \in Closed THEN shown \cup {e.peer} ELSE shown \ {e.peer}
       ELSE UNCHANGED <<cooldown, seenClosed, shown>>
    /\ UNCHANGED <<chainVars, resolved, tick, drains, faults>>

-----------------------------------------------------------------------------
(***************************************************************************)
(* The chain and the transaction tasks.  The broadcast drops events when   *)
(* it is full.  close_channel starts a closure, or ends one whose notice   *)
(* period is over, whichever of the two its caller had in mind.            *)
(***************************************************************************)
Emit(kind, p) ==
    LET e == [kind |-> kind, peer |-> p,
              status |-> chan'[p].status, balance |-> chan'[p].balance] IN
    events' = IF Len(events) < MaxEvents THEN Append(events, e) ELSE events

ClosesOnChain(p) ==
    /\ chan' = [chan EXCEPT ![p] = [status |-> "closed", balance |-> 0]]
    /\ safe' = safe + chan[p].balance
    /\ rest' = [rest EXCEPT ![p] = Cooldown]
    /\ Emit("closed", p)

Opens(t) ==
    /\ t.kind = "open" /\ chan[t.peer].status \in {"none", "closed"} /\ safe >= t.amount
    /\ chan' = [chan EXCEPT ![t.peer] = [status |-> "open", balance |-> t.amount]]
    /\ safe' = safe - t.amount
    /\ shown' = shown \ {t.peer}
    /\ Emit("opened", t.peer)
    /\ UNCHANGED rest

Funds(t) ==
    /\ t.kind = "fund" /\ chan[t.peer].status = "open" /\ safe >= t.amount
    /\ chan' = [chan EXCEPT ![t.peer].balance = @ + t.amount]
    /\ safe' = safe - t.amount
    /\ Emit("increased", t.peer)
    /\ UNCHANGED <<rest, shown>>

Closes(t) ==
    /\ t.kind \in {"close", "finalize"}
    /\ \/ /\ chan[t.peer].status = "open"
          /\ chan' = [chan EXCEPT ![t.peer].status = "notice"]
          /\ Emit("closing", t.peer)
          /\ UNCHANGED <<safe, rest>>
       \/ chan[t.peer].status \in {"due", "overdue"} /\ ClosesOnChain(t.peer)
    /\ UNCHANGED shown

\* Whether the chain as it is now accepts the transaction.
Fits(t) ==
    LET status == chan[t.peer].status IN
    CASE t.kind = "open" -> status \in {"none", "closed"} /\ safe >= t.amount
      [] t.kind = "fund" -> status = "open" /\ safe >= t.amount
      [] OTHER           -> status \in {"open", "due", "overdue"}

Lands(t) ==
    /\ t \in txs /\ ~t.sent
    /\ txs' = Heard((txs \ {t}) \cup {[t EXCEPT !.sent = TRUE]})
    /\ \/ (Opens(t) \/ Funds(t) \/ Closes(t)) /\ UNCHANGED faults
       \/ /\ IF Fits(t) THEN Fault ELSE UNCHANGED faults
          /\ UNCHANGED <<chainVars, events, shown>>
    /\ UNCHANGED <<cooldown, seenClosed, resolved, tick, drains>>

(***************************************************************************)
(* The slot of a transaction comes back: its task reports, confirmed or    *)
(* failed, or, as a confirmation may never come, its lease runs out.       *)
(***************************************************************************)
GivesBack(t) ==
    /\ t \in txs /\ t.sent
    /\ txs' = txs \ {t}
    /\ UNCHANGED <<chainVars, strategyVars, events, drains, faults>>

\* The lease runs out under a transaction that has not reported.
Lapses(t) ==
    /\ t \in Leased(txs) /\ Fault
    /\ txs' = Heard((txs \ {t}) \cup {[t EXCEPT !.leased = FALSE]})
    /\ BoundedStrays
    /\ UNCHANGED <<chainVars, strategyVars, events, drains>>

\* The peer redeems a ticket.
Drains(p) ==
    /\ chan[p].status \in {"open"} \cup Pending /\ chan[p].balance > 0
    /\ drains < MaxDrains /\ drains' = drains + 1
    /\ chan' = [chan EXCEPT ![p].balance = @ - 1]
    /\ Emit("decreased", p)
    /\ UNCHANGED <<safe, rest, txs, strategyVars, faults>>

\* The peer closes the channel, which needs no notice.
PeerCloses(p) ==
    /\ chan[p].status \in {"open"} \cup Pending
    /\ Fault
    /\ ClosesOnChain(p)
    /\ UNCHANGED <<txs, strategyVars, drains>>

(***************************************************************************)
(* Cooldowns and notice periods are long against a tick and against the    *)
(* time an event waits: they run between ticks, with the events drained.   *)
(***************************************************************************)
Idle == tick.phase = "idle" /\ events = <<>>

\* First the notice period runs out, then max_closure_overdue beyond it.
Ages(p) ==
    /\ Idle
    /\ chan[p].status \in {"notice", "due"}
    /\ chan' = [chan EXCEPT ![p].status = IF @ = "notice" THEN "due" ELSE "overdue"]
    /\ UNCHANGED <<safe, rest, txs, events, strategyVars, drains, faults>>

LosesEvent ==
    /\ events # <<>> /\ Fault
    /\ events' = Tail(events)
    /\ UNCHANGED <<chainVars, txs, strategyVars, drains>>

DownPastZero(n) == n - 1            \* a slip

Down(n) == IF n > 0 THEN n - 1 ELSE 0

Clock ==
    /\ Idle
    /\ cooldown' = [p \in Peer |-> Down(cooldown[p])]
    /\ rest' = [p \in Peer |-> Down(rest[p])]
    /\ UNCHANGED <<chan, safe, txs, events, seenClosed, resolved, tick, shown, drains, faults>>

-----------------------------------------------------------------------------
Environment ==
    \/ \E t \in txs : Lapses(t)
    \/ \E p \in Peer : Drains(p) \/ PeerCloses(p)
    \/ LosesEvent

Next ==
    \/ StartTick \/ ReadChannels \/ Resolve \/ Act
    \/ HandleEvent
    \/ \E t \in txs : Lands(t) \/ GivesBack(t)
    \/ \E p \in Peer : Ages(p)
    \/ Clock
    \/ Environment

(***************************************************************************)
(* The loop keeps ticking and a tick under way ends, as every read has a   *)
(* deadline, and it also drains its events; time passes between ticks too, *)
(* so notice periods and cooldowns run out; a transaction is mined or      *)
(* fails; and a slot comes back by its lease at the latest, whether or not *)
(* the report ever comes.  Faults and redemptions are not promised.        *)
(***************************************************************************)
Fairness ==
    /\ WF_vars(StartTick \/ ReadChannels \/ Resolve \/ Act)
    /\ SF_vars(HandleEvent)
    /\ SF_vars(Clock)
    /\ \A p \in Peer : SF_vars(Ages(p))
    /\ \A p \in Peer, kind \in Kind :
          /\ WF_vars(\E t \in txs : t.peer = p /\ t.kind = kind /\ Lands(t))
          /\ WF_vars(\E t \in txs : t.peer = p /\ t.kind = kind /\ GivesBack(t))

Spec == Init /\ [][Next]_vars /\ Fairness

-----------------------------------------------------------------------------
NewTxs  == txs' \ txs
Ticking == tick.phase \in {"resolve", "select"} /\ tick'.phase # tick.phase

(***************************************************************************)
(* One budget for the whole tick: what its fund, consolidation and open    *)
(* passes commit together, redirected opens included, is never more than   *)
(* the Safe could spend when the tick read it.                             *)
(***************************************************************************)
TickWithinBudget ==
    [][Ticking /\ Amounts(NewTxs) > 0
          => tick.spent + Amounts(NewTxs) <= Min({tick.safe, Allowance})]_vars

(***************************************************************************)
(* The two passes that close, and every tick's closes and finalizes, share *)
(* the caps on what is in flight.                                          *)
(***************************************************************************)
CapsHold ==
    /\ Cardinality(Holders(txs, "close")) <= CloseCap
    /\ Cardinality(Holders(txs, "finalize")) <= FinalizeCap

(***************************************************************************)
(* Closures are suppressed when the open count would drop below the floor  *)
(* (PopulationConfig::min_open_channels).  A tick closes when it submits a *)
(* close outside consolidation; what then stays open are the channels no   *)
(* transaction is closing.                                                 *)
(***************************************************************************)
Closing(ts)  == {t.peer : t \in {u \in ts : u.kind \in {"close", "finalize"} /\ ~u.sent}}
StayOpen     == {p \in Peer : chan[p].status = "open"} \ Closing(txs')
TickCloses   == Ticking /\ tick.deferred = {} /\ \E t \in NewTxs : t.kind = "close"

FloorKept == [][TickCloses => Cardinality(StayOpen) >= MinOpen]_vars

(***************************************************************************)
(* What can take the population below its floor: an open still in flight   *)
(* when the tick counted, a channel that stopped being open after the      *)
(* snapshot, a finalize that outlived the channel it was meant for, or a   *)
(* close running without its lease.                                        *)
(***************************************************************************)
FloorExplained ==
    [][TickCloses => \/ Cardinality(StayOpen) >= MinOpen
                     \/ tick.opening # {}
                     \/ \E p \in ShownOpen : chan[p].status # "open"
                     \/ \E t \in txs : t.kind = "finalize" /\ chan[t.peer].status = "open"
                     \/ \E t \in txs : t.kind = "close" /\ ~t.leased]_vars

(***************************************************************************)
(* Consolidation never over-closes: with the stake on chain, in the Safe   *)
(* or on its way back, fewer of the deferred channels could be lifted to   *)
(* one face value than it leaves open.  In a tick that finds no more open  *)
(* channels than the floor asks for, every close is consolidation's.       *)
(***************************************************************************)
AtFloor == OpenCount(tick.opening) <= MinOpen
Culled == {t.peer : t \in {u \in NewTxs : u.kind = "close"}} \cap tick.deferred

NeverOverCloses ==
    [][Ticking /\ AtFloor /\ Culled # {}
          => LET stake(ps) == MapThenSumSet(LAMBDA p : chan[p].balance, ps)
                 pool      == safe + stake(tick.deferred \cup Closing(txs)
                                           \cup {p \in Peer : chan[p].status \in Pending})
             IN  Cardinality(tick.deferred \ Culled) >= Min({pool \div FaceValue,
                                                             Cardinality(tick.deferred)})]_vars

(***************************************************************************)
(* No reopening within the cooldown, counted from the closure itself and   *)
(* not from its event or from the tick that notices it.  It holds of every *)
(* closure whose event was handled while the channel was still closed, and *)
(* of every other one of a channel that a snapshot has shown, off          *)
(* cooldown, since it opened and since the event of an earlier closure.    *)
(***************************************************************************)
CooldownHonoured ==
    [][Ticking => \A t \in NewTxs : t.kind = "open"
          => rest[t.peer] = 0 \/ t.peer \notin shown]_vars

(***************************************************************************)
(* A closure, once started, is carried through: a transaction that fails,  *)
(* a lease that lapses or an event that is lost delays it only.            *)
(***************************************************************************)
PendingFinalized == \A p \in Peer : chan[p].status \in Pending ~> chan[p].status \notin Pending

(***************************************************************************)
(* A running channel that falls to the lower threshold does not stay       *)
(* there, unless the Safe cannot pay for a single winning ticket.  One at  *)
(* or below the drain threshold is left out: that threshold means retire,  *)
(* don't refund, and at zero a channel drained to nothing may be left to   *)
(* the close pass too.                                                     *)
(***************************************************************************)
NeedyServed ==
    \A p \in Peer : (chan[p].status = "open" /\ chan[p].balance \in (CloseBelow + 1)..LowerBalance)
                        ~> \/ chan[p].status # "open"
                           \/ chan[p].balance \notin (CloseBelow + 1)..LowerBalance
                           \/ safe < FaceValue

=============================================================================
