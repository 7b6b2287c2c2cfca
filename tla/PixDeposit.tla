----------------------------- MODULE PixDeposit -----------------------------
(***************************************************************************)
(* The Entry half of the PIX strategy: NewDepositAddress events checked    *)
(* and buffered by the event loop, the flush tasks that pay them through   *)
(* the deposit pool, the guards that stop a destination being paid twice,  *)
(* and the rolling spend limit.                                            *)
(*                                                                         *)
(* Actors.  The event loop handles one event at a time, but it shares its  *)
(* caches and its ledger with flush tasks on other threads, so a flush may *)
(* take a step between the loop's two cache lookups.  Any number of flush  *)
(* tasks run at once.  The pool answers when it likes, or never.           *)
(*                                                                         *)
(* A deposit is named by the number of its spend reservation.  Cache       *)
(* entries keep the time left of their time-to-live, 0 meaning absent.     *)
(***************************************************************************)
EXTENDS SpendLedger, FiniteSets

CONSTANTS
    Event,              \* NewDepositAddress events: [id, dest, amount, readable]
    MaxAllocation,      \* max_ssa_allocation
    MaxSpend,           \* max_spend_per_window, 0 when unlimited
    ProcessedTTL,       \* PROCESSED_DEPOSITS_TTL
    GuardTTL,           \* IN_FLIGHT_GUARD_TTL
    GuardCapacity,      \* IN_FLIGHT_GUARD_CAPACITY
    MaxDeposits         \* bound on the deposits admitted

Id   == {e.id : e \in Event}
Dest == {e.dest : e \in Event}

ASSUME DepositAssumption ==
    /\ \A e \in Event : /\ DOMAIN e = {"id", "dest", "amount", "readable"}
                        /\ e.amount \in Nat /\ e.readable \in BOOLEAN
    /\ MaxAllocation \in Nat /\ MaxSpend \in Nat /\ MaxDeposits \in Nat
    /\ ProcessedTTL \in Nat \ {0} /\ GuardTTL \in Nat \ {0} /\ GuardCapacity \in Nat \ {0}

VARIABLES
    processed,      \* processed_deposits: Id -> time left
    inFlight,       \* in_flight_destinations: Dest -> time left
    ledger,         \* spend_ledger
    buffer,         \* deposit_buffer, as a set of deposit numbers
    flushes,        \* the running flush_deposit_batch tasks
    handling,       \* the event between the loop's two cache lookups
    deposits,       \* history: what became of each admitted deposit
    lapsed          \* history: destinations whose guard fell while it was needed

vars == <<processed, inFlight, ledger, buffer, flushes, handling, deposits, lapsed>>

Number  == 0..(MaxDeposits - 1)
NoEvent == [id |-> "none"]
Deposit == [id : Id, dest : Dest, amount : Nat, window : 0..SpendWindow,
            answer : {"none", "ok", "free", "maybe", "absent"},
            moved : BOOLEAN, refunded : BOOLEAN]

\* What a flush has left to do, in order, and what it will do it to.
Flush == [items : SUBSET Number, todo : Seq({"pay", "record", "free", "refund"}),
          settled : SUBSET Id, refunds : SUBSET Number]

TypeOK ==
    /\ processed \in [Id -> 0..ProcessedTTL]
    /\ inFlight \in [Dest -> 0..GuardTTL]
    /\ ledger \in Ledger
    /\ buffer \in SUBSET Number
    /\ flushes \subseteq Flush
    /\ handling \in Event \cup {NoEvent}
    /\ deposits \in Seq(Deposit) /\ Len(deposits) = ledger.seq
    /\ lapsed \in SUBSET Dest

D(n) == deposits[n + 1]

\* Buffered, or in a flush that still has the destination's guard to free.
Guarding(d) ==
    \/ \E n \in buffer : D(n).dest = d
    \/ \E f \in flushes : \E n \in f.items :
          D(n).dest = d /\ \E i \in DOMAIN f.todo : f.todo[i] \in {"pay", "free"}

Init ==
    /\ processed = [id \in Id |-> 0]
    /\ inFlight = [d \in Dest |-> 0]
    /\ ledger = EmptyLedger
    /\ buffer = {}
    /\ flushes = {}
    /\ handling = NoEvent
    /\ deposits = <<>>
    /\ lapsed = {}

-----------------------------------------------------------------------------
(***************************************************************************)
(* The handler up to its second cache lookup.  Reading the window drops    *)
(* what has expired, whether or not the deposit is then refused; an event  *)
(* refused before that changes nothing and is not a step.                  *)
(***************************************************************************)
Allowance == IF MaxSpend = 0 THEN ledger ELSE Expire(ledger)

\* Slip: the deposit being considered is left out of the sum.
OverSpendIgnoringThis(amount) == MaxSpend # 0 /\ Committed(Allowance) > MaxSpend

OverSpend(amount) == MaxSpend # 0 /\ Committed(Allowance) + amount > MaxSpend

Check(e) ==
    /\ handling = NoEvent
    /\ processed[e.id] = 0
    /\ e.amount <= MaxAllocation
    /\ ledger' = Allowance
    /\ handling' = IF OverSpend(e.amount) THEN NoEvent ELSE e
    /\ UNCHANGED <<processed, inFlight, buffer, flushes, deposits, lapsed>>

\* The rest of it: the destination's guard, the payload, the reservation, the buffer.
Skip ==
    /\ handling # NoEvent
    /\ inFlight[handling.dest] > 0 \/ ~handling.readable
    /\ handling' = NoEvent
    /\ UNCHANGED <<processed, inFlight, ledger, buffer, flushes, deposits, lapsed>>

\* Slip: the guard is not claimed.
ClaimNothing(d) == inFlight

Claim(d) == [inFlight EXCEPT ![d] = GuardTTL]

Admit ==
    LET d == handling.dest IN
    /\ handling # NoEvent
    /\ ledger.seq < MaxDeposits
    /\ inFlight[d] = 0 /\ handling.readable
    /\ inFlight' = Claim(d)
    /\ ledger' = Commit(ledger, handling.amount)
    /\ buffer' = buffer \cup {ledger.seq}
    /\ deposits' = Append(deposits,
         [id |-> handling.id, dest |-> d, amount |-> handling.amount,
          window |-> SpendWindow, answer |-> "none", moved |-> FALSE, refunded |-> FALSE])
    /\ lapsed' = IF Guarding(d) THEN lapsed ELSE lapsed \ {d}
    /\ handling' = NoEvent
    /\ UNCHANGED <<processed, flushes>>

\* The debounce period runs out, or the strategy stops: the whole buffer goes to a flush.
FlushDeposits ==
    /\ handling = NoEvent
    /\ buffer # {}
    /\ flushes' = flushes \cup
         {[items |-> buffer, todo |-> <<"pay">>, settled |-> {}, refunds |-> {}]}
    /\ buffer' = {}
    /\ UNCHANGED <<processed, inFlight, ledger, handling, deposits, lapsed>>

-----------------------------------------------------------------------------
(***************************************************************************)
(* The pool's answer, item by item: paid; failed in a way that proves no   *)
(* funds moved; failed ambiguously; or, from a batch only, no outcome at   *)
(* all.  A batch may also echo once more an id it has paid, or one that is *)
(* not in the batch.  An error for a batch as a whole has the effect of    *)
(* that error for each of its items.                                       *)
(***************************************************************************)
Outcome == {"ok", "free", "maybe", "absent"}

IdsOf(items) == {D(n).id : n \in items}

Honest(outcome, moved) ==
    \A n \in DOMAIN outcome : /\ outcome[n] = "ok"   => n \in moved
                              /\ outcome[n] = "free" => n \notin moved

Settled(outcome) == IdsOf({n \in DOMAIN outcome : outcome[n] = "ok"})

\* Slip: an unaccounted deposit passes for a failed one.
RefundsUnpaired(items, outcome, echo) ==
    IF \A n \in items : outcome[n] \in {"ok", "free", "absent"}
    THEN {n \in items : D(n).id \notin Settled(outcome)} ELSE {}

(***************************************************************************)
(* Whom a flush refunds.  A batch's failures carry no id, so its deposits  *)
(* are matched by elimination: every failure fund-free, every deposit      *)
(* without a success paired with one failure, and no success left over.    *)
(***************************************************************************)
Refunds(items, outcome, echo) ==
    LET settled  == Settled(outcome)
        failed   == {n \in items : outcome[n] \in {"free", "maybe"}}
        outcomes == Cardinality({n \in items : outcome[n] # "absent"}) + Cardinality(echo)
    IN  IF /\ \A n \in failed : outcome[n] = "free"
           /\ outcomes = Cardinality(settled) + Cardinality(failed)
           /\ Cardinality(failed) = Cardinality(items) - Cardinality(settled)
        THEN {n \in items : D(n).id \notin settled}
        ELSE {}

\* A lone deposit is recorded before its guard is freed, a batch's the other way round.
Plan(items, settled) ==
    IF Cardinality(items) = 1
    THEN IF settled # {} THEN <<"record", "free">> ELSE <<"free", "refund">>
    ELSE <<"free", "record", "refund">>

PoolAnswers(f) ==
    /\ f.todo = <<"pay">>
    /\ \E outcome \in [f.items -> Outcome], moved \in SUBSET f.items,
          echo \in {{}} \cup {{id} : id \in Id} :
        /\ Honest(outcome, moved)
        /\ Cardinality(f.items) = 1 =>
              echo = {} /\ \A n \in f.items : outcome[n] # "absent"
        /\ echo \cap (IdsOf(f.items) \ Settled(outcome)) = {}
        /\ deposits' = [i \in DOMAIN deposits |->
              IF i - 1 \in f.items
              THEN [deposits[i] EXCEPT !.answer = outcome[i - 1], !.moved = i - 1 \in moved]
              ELSE deposits[i]]
        /\ flushes' = (flushes \ {f}) \cup
              {[f EXCEPT !.todo = Plan(f.items, Settled(outcome)),
                         !.settled = Settled(outcome) \cup echo,
                         !.refunds = Refunds(f.items, outcome, echo)]}
    /\ UNCHANGED <<processed, inFlight, ledger, buffer, handling, lapsed>>

\* The flush's next step done; the task ends with its last.
Advanced(f) ==
    (flushes \ {f}) \cup
        (IF Len(f.todo) = 1 THEN {} ELSE {[f EXCEPT !.todo = Tail(@)]})

Record(f) ==
    /\ f.todo # <<>> /\ Head(f.todo) = "record"
    /\ processed' = [id \in Id |-> IF id \in f.settled THEN ProcessedTTL ELSE processed[id]]
    /\ flushes' = Advanced(f)
    /\ UNCHANGED <<inFlight, ledger, buffer, handling, deposits, lapsed>>

Free(f) ==
    /\ f.todo # <<>> /\ Head(f.todo) = "free"
    /\ inFlight' = [d \in Dest |->
          IF \E n \in f.items : D(n).dest = d THEN 0 ELSE inFlight[d]]
    /\ flushes' = Advanced(f)
    /\ UNCHANGED <<processed, ledger, buffer, handling, deposits, lapsed>>

\* The flush's refunds, in the order of its deposits; each takes the ledger's
\* lock for itself.
Refund(f) ==
    /\ f.todo # <<>> /\ Head(f.todo) = "refund"
    /\ \/ /\ f.refunds = {}
          /\ flushes' = Advanced(f)
          /\ UNCHANGED <<ledger, deposits>>
       \/ \E n \in f.refunds :
            /\ \A m \in f.refunds : n <= m
            /\ ledger' = Release(ledger, n, D(n).amount)
            /\ deposits' = [deposits EXCEPT ![n + 1].refunded = TRUE]
            /\ flushes' = IF f.refunds = {n} THEN Advanced(f)
                          ELSE (flushes \ {f}) \cup {[f EXCEPT !.refunds = @ \ {n}]}
    /\ UNCHANGED <<processed, inFlight, buffer, handling, lapsed>>

-----------------------------------------------------------------------------
\* Slip: a cache entry outlives its time-to-live.
DownPastZero(n) == n - 1

Down(n) == IF n > 0 THEN n - 1 ELSE 0

\* Time passes: guards, processed ids and reservations age.
Tick ==
    /\ processed' = [id \in Id |-> Down(processed[id])]
    /\ inFlight' = [d \in Dest |-> Down(inFlight[d])]
    /\ lapsed' = lapsed \cup {d \in Dest : inFlight[d] = 1 /\ Guarding(d)}
    /\ ledger' = AgeLedger(ledger)
    /\ deposits' = [i \in DOMAIN deposits |-> [deposits[i] EXCEPT !.window = Down(@)]]
    /\ UNCHANGED <<buffer, flushes, handling>>

\* A guard cache over its capacity drops some entry.
Evict(d) ==
    /\ inFlight[d] > 0
    /\ Cardinality({e \in Dest : inFlight[e] > 0}) > GuardCapacity
    /\ inFlight' = [inFlight EXCEPT ![d] = 0]
    /\ lapsed' = IF Guarding(d) THEN lapsed \cup {d} ELSE lapsed
    /\ UNCHANGED <<processed, ledger, buffer, flushes, handling, deposits>>

Next ==
    \/ \E e \in Event : Check(e)
    \/ Skip
    \/ Admit
    \/ FlushDeposits
    \/ \E f \in flushes : PoolAnswers(f) \/ Record(f) \/ Free(f) \/ Refund(f)
    \/ \E d \in Dest : Evict(d)
    \/ Tick

Spec == Init /\ [][Next]_vars

-----------------------------------------------------------------------------
NumbersIn(entry) == entry.lo..entry.hi

Sum(numbers) == MapThenSumSet(LAMBDA n : D(n).amount, numbers)

(***************************************************************************)
(* The ledger's books balance: however entries were folded and refunded,   *)
(* each holds exactly the amounts of its reservations not yet refunded, so *)
(* no refund ever came out of another deposit's reservation.               *)
(***************************************************************************)
EntriesBalance ==
    \A i \in DOMAIN ledger.entries :
        LET entry == ledger.entries[i] IN
        entry.amount = Sum({n \in NumbersIn(entry) : ~D(n).refunded})

(***************************************************************************)
(* max_spend_per_window: the deposits committed within one spend_window    *)
(* that moved funds, or of which it is not known that they did not, never  *)
(* add up to more than the limit.                                          *)
(***************************************************************************)
MayHaveMoved(n) == D(n).moved \/ D(n).answer = "none"

WindowRespected ==
    MaxSpend # 0 =>
        Sum({n \in 0..(ledger.seq - 1) : D(n).window > 0 /\ MayHaveMoved(n)}) <= MaxSpend

(***************************************************************************)
(* A reservation is handed back only if the deposit's own funds did not    *)
(* move, although a batch's failures do not say whose they are.            *)
(***************************************************************************)
RefundedNeverMoved == \A n \in 0..(ledger.seq - 1) : D(n).refunded => ~D(n).moved

(***************************************************************************)
(* Two deposits to one destination are under way together only if the      *)
(* guard of a deposit to it fell first, by age or by eviction.             *)
(***************************************************************************)
UnderWay(n) == D(n).answer = "none"

OverlapOnlyAfterLapse ==
    \A m, n \in 0..(ledger.seq - 1) :
        m # n /\ UnderWay(m) /\ UnderWay(n) /\ D(m).dest = D(n).dest
            => D(n).dest \in lapsed

(***************************************************************************)
(* No allocation is paid twice: what the in-flight guards and the          *)
(* processed set are there for.                                            *)
(***************************************************************************)
Paid(n) == D(n).answer = "ok"

FundedOnce ==
    \A m, n \in 0..(ledger.seq - 1) :
        m # n /\ Paid(m) /\ Paid(n) => D(m).id # D(n).id
=============================================================================
