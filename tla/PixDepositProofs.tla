-------------------------- MODULE PixDepositProofs --------------------------
(***************************************************************************)
(* What is proved of the Entry's deposits, for every set of events, every  *)
(* limit and time-to-live, and any number of flushes.                      *)
(*                                                                         *)
(* A refunded deposit never moved funds, although a batch's failures do    *)
(* not say whose they are.  Two deposits to one destination are under way  *)
(* together only if a guard fell first.  The ledger's entries hold exactly *)
(* what their reservations add up to, however they were folded, expired    *)
(* and refunded, and so the deposits of one window stay within its limit.  *)
(***************************************************************************)
EXTENDS PixDeposit, SumLemmas, SequenceTheorems, TLAPS

Admitted == 0..(ledger.seq - 1)

\* What a flush may have left to do.
Errands == {<<"pay">>, <<"record", "free">>, <<"free", "refund">>, <<"free", "record", "refund">>,
            <<"free">>, <<"record", "refund">>, <<"refund">>}

Flushing == [items : SUBSET Number, todo : Errands, settled : SUBSET Id, refunds : SUBSET Number]

\* The ledger counts the deposits, whatever its entries hold.
Numbered ==
    /\ deposits \in Seq(Deposit)
    /\ DOMAIN ledger = {"entries", "seq", "refunded"} /\ ledger.seq = Len(deposits)
    /\ Len(deposits) <= MaxDeposits

FlushesTyped ==
    /\ buffer \subseteq Admitted
    /\ \A f \in flushes :
        /\ f \in Flushing
        /\ f.items \subseteq Admitted /\ f.items # {} /\ f.refunds \subseteq f.items

CachesTyped ==
    /\ inFlight \in [Dest -> Nat] /\ handling \in Event \cup {NoEvent} /\ lapsed \in SUBSET Dest

\* A deposit is in one place.
PlacedOnce ==
    \A f \in flushes : /\ f.items \cap buffer = {}
                       /\ \A g \in flushes : f # g => f.items \cap g.items = {}

Unpaid(n) == n \in buffer \/ \E f \in flushes : f.todo = <<"pay">> /\ n \in f.items

\* Only what is yet to be paid has no answer, and none of it is refunded.
AwaitsPool == \A n \in Admitted : /\ D(n).answer = "none" => Unpaid(n)
                                  /\ Unpaid(n) => ~D(n).refunded

\* What a flush will still refund did not move.
RefundsEarned == \A f \in flushes : \A n \in f.refunds : ~D(n).moved

Parts == FlushesTyped /\ PlacedOnce /\ AwaitsPool /\ RefundsEarned /\ RefundedNeverMoved

RefundInv == Numbered /\ CachesTyped /\ Parts

\* What a deposit's guard is for.
Guards(todo)  == \E i \in DOMAIN todo : todo[i] \in {"pay", "free"}
HoldsGuard(n) == n \in buffer \/ \E f \in flushes : n \in f.items /\ Guards(f.todo)

\* A guard stands until it is freed, ages or is evicted, ...
GuardStands ==
    \A n \in Admitted : HoldsGuard(n) => inFlight[D(n).dest] > 0 \/ D(n).dest \in lapsed

\* ... and is one deposit's only.
GuardsApart ==
    \A m, n \in Admitted :
        m # n /\ HoldsGuard(m) /\ HoldsGuard(n) /\ D(m).dest = D(n).dest => D(n).dest \in lapsed

GuardInv == RefundInv /\ GuardStands /\ GuardsApart

-----------------------------------------------------------------------------
(***************************************************************************)
(* What the operations make of the ledger's count and of the deposits.     *)
(***************************************************************************)

CountIs(l, s) == DOMAIN l = {"entries", "seq", "refunded"} /\ l.seq = s

LEMMA LedgerChanged ==
    ASSUME NEW l, DOMAIN l = {"entries", "seq", "refunded"}, NEW x, NEW y
    PROVE  /\ CountIs([l EXCEPT !.entries = x], l.seq)
           /\ CountIs([l EXCEPT !.entries = x, !.refunded = y], l.seq)
           /\ CountIs([l EXCEPT !.refunded = y, !.entries = x], l.seq)
           /\ CountIs([l EXCEPT !.seq = y, !.entries = x], y)
<1>1. CountIs([l EXCEPT !.entries = x], l.seq)
  BY DEF CountIs
<1>2. CountIs([l EXCEPT !.entries = x, !.refunded = y], l.seq)
  BY DEF CountIs
<1>3. CountIs([l EXCEPT !.refunded = y, !.entries = x], l.seq)
  BY DEF CountIs
<1>4. CountIs([l EXCEPT !.seq = y, !.entries = x], y)
  BY DEF CountIs
<1> QED
  BY <1>1, <1>2, <1>3, <1>4

LEMMA CountKept ==
    ASSUME NEW l, NEW s, CountIs(l, s), NEW n, NEW amount
    PROVE  /\ CountIs(Expire(l), s) /\ CountIs(Release(l, n, amount), s) /\ CountIs(AgeLedger(l), s)
           /\ CountIs(Commit(l, amount), s + 1)
<1>1. DOMAIN l = {"entries", "seq", "refunded"} /\ l.seq = s
  BY DEF CountIs
<1>2. CountIs(Expire(l), s)
  <2> DEFINE x == LiveEntries(l.entries)
             y == IF x = <<>> THEN {} ELSE {q \in l.refunded : q >= x[1].lo}
  <2>1. Expire(l) = [l EXCEPT !.entries = x, !.refunded = y]
    BY DEF Expire
  <2> HIDE DEF x, y
  <2>2. CountIs([l EXCEPT !.entries = x, !.refunded = y], s)
    BY <1>1, LedgerChanged, ZenonT(40)
  <2> QED
    BY <2>1, <2>2, Zenon
<1>3. CountIs(Release(l, n, amount), s)
  <2> DEFINE x == [i \in DOMAIN l.entries |->
                     IF Answers(l.entries[i], n) THEN Lessened(l.entries[i], amount) ELSE l.entries[i]]
             y == l.refunded \cup {n}
  <2>1. Release(l, n, amount) = IF n \in l.refunded THEN l ELSE [l EXCEPT !.refunded = y, !.entries = x]
    BY DEF Release
  <2> HIDE DEF x, y
  <2>2. CountIs([l EXCEPT !.refunded = y, !.entries = x], s)
    BY <1>1, LedgerChanged, ZenonT(40)
  <2> QED
    BY <2>1, <2>2, Zenon
<1>4. CountIs(AgeLedger(l), s)
  <2> DEFINE x == [i \in DOMAIN l.entries |-> Aged(l.entries[i])]
  <2>1. AgeLedger(l) = [l EXCEPT !.entries = x]
    BY DEF AgeLedger
  <2> HIDE DEF x
  <2> QED
    BY <1>1, <2>1, LedgerChanged, ZenonT(40)
<1>5. CountIs(Commit(l, amount), s + 1)
  <2> DEFINE all == Append(l.entries, [left |-> SpendWindow, amount |-> amount,
                                       lo |-> l.seq, hi |-> l.seq])
             x   == IF Len(all) <= LedgerCapacity THEN all
                    ELSE IF Len(all) = 1 THEN <<>>
                    ELSE <<Fold(all[1], all[2])>> \o SubSeq(all, 3, Len(all))
  <2>1. Commit(l, amount) = [l EXCEPT !.seq = l.seq + 1, !.entries = x]
    BY DEF Commit
  <2> HIDE DEF x
  <2> DEFINE z == s + 1
  <2>2. Commit(l, amount) = [l EXCEPT !.seq = z, !.entries = x]
    BY <1>1, <2>1, Zenon
  <2> HIDE DEF z
  <2>3. CountIs([l EXCEPT !.seq = z, !.entries = x], z)
    BY <1>1, LedgerChanged, ZenonT(40)
  <2>4. CountIs(Commit(l, amount), z)
    BY <2>2, <2>3, Zenon
  <2> QED
    BY <2>4 DEF z
<1> QED
  BY <1>2, <1>3, <1>4, <1>5

LEMMA Numbers ==
    ASSUME Numbered
    PROVE  /\ CountIs(ledger, Len(deposits)) /\ ledger.seq = Len(deposits) /\ Len(deposits) \in Nat
           /\ DOMAIN deposits = 1..Len(deposits)
           /\ \A n \in Admitted : /\ n \in Nat /\ n \in Number /\ n + 1 \in DOMAIN deposits
                                  /\ D(n) \in Deposit /\ D(n).dest \in Dest /\ D(n).id \in Id
<1>1. /\ CountIs(ledger, Len(deposits)) /\ ledger.seq = Len(deposits) /\ Len(deposits) \in Nat
      /\ DOMAIN deposits = 1..Len(deposits)
  BY LenProperties DEF Numbered, CountIs
<1>2. \A n \in Admitted : n \in Nat /\ n \in Number /\ n + 1 \in DOMAIN deposits
  BY <1>1, DepositAssumption DEF Admitted, Numbered, Number
<1>3. \A n \in Admitted : D(n) \in Deposit
  BY <1>1, <1>2, ElementOfSeq DEF Numbered, D
<1> QED
  BY <1>1, <1>2, <1>3 DEF Deposit

\* A step that rewrites deposits in place.
LEMMA DepositsRewritten ==
    ASSUME Numbered, CountIs(ledger', Len(deposits)), NEW f,
           deposits' = [i \in DOMAIN deposits |-> f[i]],
           \A i \in DOMAIN deposits : f[i] \in Deposit
    PROVE  /\ Numbered' /\ Admitted' = Admitted
           /\ \A n \in Admitted : D(n)' = f[n + 1]
<1>1. /\ Len(deposits) \in Nat /\ DOMAIN deposits = 1..Len(deposits)
      /\ \A n \in Admitted : n + 1 \in DOMAIN deposits
  BY Numbers
<1>2. deposits' \in [1..Len(deposits) -> Deposit]
  BY <1>1
<1>3. deposits' \in Seq(Deposit) /\ Len(deposits') = Len(deposits)
  <2>1. deposits' \in Seq(Deposit)
    BY <1>1, <1>2, SeqDef
  <2> QED
    BY <1>1, <1>2, <2>1, LenProperties
<1>4. Numbered' /\ Admitted' = Admitted
  BY <1>1, <1>3, Numbers DEF Numbered, CountIs, Admitted
<1> QED
  BY <1>1, <1>4 DEF D

-----------------------------------------------------------------------------
(***************************************************************************)
(* The elimination argument (flush_deposit_batch): where every failure is  *)
(* fund-free, the outcomes are as many as the settled ids and the failures *)
(* together, and the failures as many as the deposits without a success,   *)
(* no deposit went without an outcome - so a deposit without a success     *)
(* has one of those failures, and did not move funds.                      *)
(***************************************************************************)
LEMMA RefundsSound ==
    ASSUME NEW items, IsFiniteSet(items), NEW outcome \in [items -> Outcome],
           NEW moved \in SUBSET items, NEW echo, IsFiniteSet(echo), Honest(outcome, moved)
    PROVE  /\ Refunds(items, outcome, echo) \subseteq items
           /\ \A n \in Refunds(items, outcome, echo) : n \notin moved
<1> DEFINE settled  == Settled(outcome)
           ok       == {n \in items : outcome[n] = "ok"}
           failed   == {n \in items : outcome[n] \in {"free", "maybe"}}
           answered == {n \in items : outcome[n] # "absent"}
<1>1. Refunds(items, outcome, echo) =
         IF /\ \A n \in failed : outcome[n] = "free"
            /\ Cardinality(answered) + Cardinality(echo) = Cardinality(settled) + Cardinality(failed)
            /\ Cardinality(failed) = Cardinality(items) - Cardinality(settled)
         THEN {n \in items : D(n).id \notin settled} ELSE {}
  BY DEF Refunds
<1>2. settled = IdsOf(ok) /\ DOMAIN outcome = items
  BY DEF Settled
<1>3. /\ IsFiniteSet(ok) /\ IsFiniteSet(failed) /\ IsFiniteSet(answered)
      /\ Cardinality(ok) \in Nat /\ Cardinality(failed) \in Nat /\ Cardinality(answered) \in Nat
      /\ Cardinality(items) \in Nat /\ Cardinality(echo) \in Nat
  <2>1. ok \in SUBSET items /\ failed \in SUBSET items /\ answered \in SUBSET items
    OBVIOUS
  <2>2. IsFiniteSet(ok) /\ IsFiniteSet(failed) /\ IsFiniteSet(answered)
    BY <2>1, FS_Subset
  <2> QED
    BY <2>2, FS_CardinalityType
<1>4. Cardinality(answered) = Cardinality(ok) + Cardinality(failed)
  <2>1. answered = ok \cup failed /\ ok \cap failed = {}
    BY DEF Outcome
  <2>2. Cardinality(ok \cup failed) = Cardinality(ok) + Cardinality(failed) - Cardinality(ok \cap failed)
    BY <1>3, FS_Union
  <2> QED
    BY <1>3, <2>1, <2>2, FS_EmptySet
<1>5. Cardinality(settled) \in Nat /\ Cardinality(settled) <= Cardinality(ok)
  <2> DEFINE g == [n \in ok |-> D(n).id]
  <2>1. g \in Surjection(ok, settled)
    BY <1>2 DEF Surjection, IdsOf
  <2> HIDE DEF g, ok, settled
  <2>2. IsFiniteSet(settled) /\ Cardinality(settled) <= Cardinality(ok)
    BY <1>3, <2>1, FS_Surjection
  <2> QED
    BY <2>2, FS_CardinalityType
<1>6. ASSUME \A n \in failed : outcome[n] = "free",
             Cardinality(answered) + Cardinality(echo) = Cardinality(settled) + Cardinality(failed),
             Cardinality(failed) = Cardinality(items) - Cardinality(settled),
             NEW n \in items, D(n).id \notin settled
      PROVE  n \notin moved
  <2> HIDE DEF settled, failed, answered
  <2>1. Cardinality(answered) = Cardinality(items)
    BY <1>3, <1>4, <1>5, <1>6
  <2>2. answered = items
    <3>1. answered \in SUBSET items
      BY DEF answered
    <3> QED
      BY <2>1, <3>1, FS_Subset
  <2>3. outcome[n] # "absent"
    BY <2>2 DEF answered
  <2>4. outcome[n] # "ok"
    BY <1>2, <1>6 DEF IdsOf
  <2>5. n \in failed
    BY <2>3, <2>4 DEF Outcome, failed
  <2> QED
    BY <1>2, <1>6, <2>5 DEF Honest
<1> QED
  BY <1>1, <1>6, Zenon

-----------------------------------------------------------------------------
(***************************************************************************)
(* What each step does to the deposits and the flushes.                    *)
(***************************************************************************)

\* What is left after a step, and whether the guard is part of it.
LEMMA ErrandsGoOn ==
    ASSUME NEW todo \in Errands, todo # <<"pay">>
    PROVE  /\ todo # <<>>
           /\ Len(todo) # 1 => Tail(todo) \in Errands \ {<<"pay">>}
           /\ Head(todo) = "record" => Len(todo) # 1 /\ (Guards(Tail(todo)) => Guards(todo))
           /\ Head(todo) = "free" => Guards(todo) /\ (Len(todo) # 1 => ~ Guards(Tail(todo)))
           /\ Head(todo) = "refund" => Len(todo) = 1 /\ ~ Guards(todo)
<1>1. CASE todo = <<"record", "free">>
  BY <1>1 DEF Errands, Guards
<1>2. CASE todo = <<"free", "refund">>
  BY <1>2 DEF Errands, Guards
<1>3. CASE todo = <<"free", "record", "refund">>
  BY <1>3 DEF Errands, Guards
<1>4. CASE todo = <<"free">>
  BY <1>4 DEF Errands, Guards
<1>5. CASE todo = <<"record", "refund">>
  BY <1>5 DEF Errands, Guards
<1>6. CASE todo = <<"refund">>
  BY <1>6 DEF Errands, Guards
<1> QED
  BY <1>1, <1>2, <1>3, <1>4, <1>5, <1>6 DEF Errands

\* A flush takes a step that is not a payment still to be made, or ends.
LEMMA FlushGoesOn ==
    ASSUME Numbered, Parts, NEW f \in flushes, NEW g \in Flushing,
           g.items = f.items, g.refunds \subseteq f.items, g.todo # <<"pay">>,
           flushes' = flushes \ {f} \/ flushes' = (flushes \ {f}) \cup {g},
           buffer' = buffer, Admitted' = Admitted,
           \A n \in Admitted \ f.items : D(n)' = D(n),
           \A n \in f.items : /\ D(n)'.answer # "none"
                              /\ D(n)'.refunded => ~ D(n)'.moved,
           \A n \in g.refunds : ~ D(n)'.moved
    PROVE  Parts'
<1>1. /\ f.items \subseteq Admitted /\ f.items # {} /\ f.items \cap buffer = {}
      /\ \A h \in flushes' : h \in flushes \ {f} \/ h = g
      /\ \A h \in flushes \ {f} : h.items \cap f.items = {} /\ h.items \subseteq Admitted
  BY DEF Parts, FlushesTyped, PlacedOnce
<1>2. FlushesTyped'
  BY <1>1 DEF Parts, FlushesTyped
<1>3. PlacedOnce'
  BY <1>1 DEF Parts, PlacedOnce
<1>4. \A n : Unpaid(n)' <=> Unpaid(n) /\ n \notin f.items
  <2>1. \A n : Unpaid(n)' => Unpaid(n) /\ n \notin f.items
    BY <1>1 DEF Unpaid
  <2>2. \A n : Unpaid(n) /\ n \notin f.items => Unpaid(n)'
    BY <1>1 DEF Unpaid
  <2> QED
    BY <2>1, <2>2
<1>5. AwaitsPool'
  BY <1>4 DEF Parts, AwaitsPool
<1>6. RefundsEarned'
  BY <1>1 DEF Parts, RefundsEarned, FlushesTyped
<1>7. RefundedNeverMoved'
  BY <1>1 DEF Parts, RefundedNeverMoved, Admitted
<1> QED
  BY <1>2, <1>3, <1>5, <1>6, <1>7 DEF Parts

\* A step that leaves the flushes and the fates of the deposits alone.
LEMMA FlushesStay ==
    ASSUME Numbered, Parts, flushes' = flushes, buffer' = buffer, Admitted' = Admitted,
           \A n \in Admitted : /\ D(n)'.answer = D(n).answer /\ D(n)'.moved = D(n).moved
                               /\ D(n)'.refunded = D(n).refunded
    PROVE  Parts'
<1>1. FlushesTyped' /\ PlacedOnce'
  BY DEF Parts, FlushesTyped, PlacedOnce
<1>2. AwaitsPool'
  BY DEF Parts, AwaitsPool, Unpaid
<1>3. RefundsEarned'
  BY DEF Parts, RefundsEarned, FlushesTyped
<1>4. RefundedNeverMoved'
  BY DEF Parts, RefundedNeverMoved, Admitted
<1> QED
  BY <1>1, <1>2, <1>3, <1>4 DEF Parts

\* An admitted deposit is a new one, in the buffer.
LEMMA Admitting ==
    ASSUME Numbered, CachesTyped, Admit, NEW k, k = ledger.seq
    PROVE  /\ Numbered' /\ k \notin Admitted /\ Admitted' = Admitted \cup {k}
           /\ handling \in Event /\ handling.dest \in Dest
           /\ \A n \in Admitted : D(n)' = D(n)
           /\ D(k)'.dest = handling.dest /\ D(k)'.answer = "none"
           /\ D(k)'.moved = FALSE /\ D(k)'.refunded = FALSE
           /\ buffer' = buffer \cup {k} /\ flushes' = flushes
<1> DEFINE e == [id |-> handling.id, dest |-> handling.dest, amount |-> handling.amount,
                 window |-> SpendWindow, answer |-> "none", moved |-> FALSE, refunded |-> FALSE]
<1>1. handling \in Event /\ handling.dest \in Dest /\ handling.id \in Id /\ handling.amount \in Nat
  BY DepositAssumption DEF Admit, CachesTyped, Dest, Id
<1>2. e \in Deposit
  BY <1>1, LedgerAssumption DEF Deposit
<1>3. deposits' = Append(deposits, e) /\ buffer' = buffer \cup {k} /\ flushes' = flushes
      /\ ledger.seq < MaxDeposits /\ ledger' = Commit(ledger, handling.amount)
  BY DEF Admit
<1>4. e.dest = handling.dest /\ e.answer = "none" /\ e.moved = FALSE /\ e.refunded = FALSE
  OBVIOUS
<1> HIDE DEF e
<1>5. /\ ledger.seq = Len(deposits) /\ Len(deposits) \in Nat /\ CountIs(ledger, Len(deposits))
      /\ \A n \in Admitted : n \in Nat /\ n + 1 \in DOMAIN deposits
      /\ DOMAIN deposits = 1..Len(deposits)
  BY Numbers
<1>6. /\ deposits' \in Seq(Deposit) /\ Len(deposits') = Len(deposits) + 1
      /\ \A i \in 1..Len(deposits) : deposits'[i] = deposits[i]
      /\ deposits'[Len(deposits) + 1] = e
  BY <1>2, <1>3, AppendProperties DEF Numbered
<1>7. CountIs(ledger', Len(deposits) + 1)
  BY <1>3, <1>5, CountKept
<1>8. Numbered' /\ Admitted' = Admitted \cup {k} /\ k \notin Admitted
  BY <1>3, <1>5, <1>6, <1>7, DepositAssumption DEF Numbered, CountIs, Admitted
<1>9. /\ \A n \in Admitted : D(n)' = D(n)
      /\ D(k)' = e
  BY <1>5, <1>6, <1>8 DEF D
<1> QED
  BY <1>1, <1>3, <1>4, <1>8, <1>9

\* The pool's answer.
LEMMA Answering ==
    ASSUME Numbered, Parts, NEW f \in flushes, PoolAnswers(f)
    PROVE  /\ Numbered' /\ Admitted' = Admitted /\ f.todo = <<"pay">>
           /\ \A n \in Admitted : /\ n \notin f.items => D(n)' = D(n)
                                  /\ n \in f.items => D(n)'.answer # "none"
                                  /\ D(n)'.dest = D(n).dest /\ D(n)'.refunded = D(n).refunded
           /\ \E g \in Flushing :
                 /\ g.items = f.items /\ g.refunds \subseteq f.items
                 /\ g.todo # <<"pay">> /\ Guards(g.todo)
                 /\ \A n \in g.refunds : ~ D(n)'.moved
                 /\ flushes' = (flushes \ {f}) \cup {g}
<1>1. PICK outcome \in [f.items -> Outcome], moved \in SUBSET f.items,
           echo \in {{}} \cup {{id} : id \in Id} :
        /\ Honest(outcome, moved)
        /\ deposits' = [i \in DOMAIN deposits |->
              IF i - 1 \in f.items
              THEN [deposits[i] EXCEPT !.answer = outcome[i - 1], !.moved = i - 1 \in moved]
              ELSE deposits[i]]
        /\ flushes' = (flushes \ {f}) \cup
              {[f EXCEPT !.todo = Plan(f.items, Settled(outcome)),
                         !.settled = Settled(outcome) \cup echo,
                         !.refunds = Refunds(f.items, outcome, echo)]}
  BY DEF PoolAnswers
<1>2. /\ f \in Flushing /\ f.items \subseteq Admitted /\ f.items # {}
      /\ f.todo = <<"pay">> /\ ledger' = ledger
  BY DEF Parts, FlushesTyped, PoolAnswers
<1>3. /\ IsFiniteSet(f.items) /\ IsFiniteSet(echo) /\ echo \subseteq Id
  <2>1. IsFiniteSet(Admitted)
    <3>1. 0 \in Int /\ ledger.seq - 1 \in Int
      BY Numbers
    <3>2. IsFiniteSet(0..(ledger.seq - 1))
      BY <3>1, FS_Interval
    <3> QED
      BY <3>2 DEF Admitted
  <2>2. IsFiniteSet(f.items)
    <3>1. f.items \in SUBSET Admitted
      BY <1>2
    <3> QED
      BY <2>1, <3>1, FS_Subset
  <2>3. echo = {} \/ \E id \in Id : echo = {id}
    OBVIOUS
  <2>4. IsFiniteSet({}) /\ \A id \in Id : IsFiniteSet({id})
    BY FS_EmptySet, FS_Singleton
  <2>5. IsFiniteSet(echo) /\ echo \subseteq Id
    BY <2>3, <2>4
  <2> QED
    BY <2>2, <2>5
<1>4. /\ Refunds(f.items, outcome, echo) \subseteq f.items
      /\ \A n \in Refunds(f.items, outcome, echo) : n \notin moved
  BY <1>1, <1>3, RefundsSound
<1> DEFINE h == [i \in DOMAIN deposits |->
              IF i - 1 \in f.items
              THEN [deposits[i] EXCEPT !.answer = outcome[i - 1], !.moved = i - 1 \in moved]
              ELSE deposits[i]]
<1>5. \A i \in DOMAIN deposits :
        /\ h[i] \in Deposit /\ h[i].dest = deposits[i].dest /\ h[i].refunded = deposits[i].refunded
        /\ i - 1 \notin f.items => h[i] = deposits[i]
        /\ i - 1 \in f.items => h[i].answer # "none" /\ h[i].moved = (i - 1 \in moved)
  <2> SUFFICES ASSUME NEW i \in DOMAIN deposits
               PROVE  /\ h[i] \in Deposit /\ h[i].dest = deposits[i].dest
                      /\ h[i].refunded = deposits[i].refunded
                      /\ i - 1 \notin f.items => h[i] = deposits[i]
                      /\ i - 1 \in f.items => h[i].answer # "none" /\ h[i].moved = (i - 1 \in moved)
    OBVIOUS
  <2>1. deposits[i] \in Deposit
    BY Numbers, ElementOfSeq DEF Numbered
  <2>2. CASE i - 1 \in f.items
    <3> DEFINE a == outcome[i - 1]
               b == i - 1 \in moved
               e == [deposits[i] EXCEPT !.answer = a, !.moved = b]
    <3>1. a \in Outcome /\ b \in BOOLEAN /\ "none" \notin Outcome
      BY <2>2 DEF Outcome
    <3>2. h[i] = e
      BY <2>2
    <3> HIDE DEF a, b
    <3>3. e \in Deposit /\ e.dest = deposits[i].dest /\ e.refunded = deposits[i].refunded
          /\ e.answer = a /\ e.moved = b
      BY <2>1, <3>1 DEF Deposit, Outcome
    <3> HIDE DEF e, h
    <3> QED
      BY <2>2, <3>1, <3>2, <3>3 DEF b
  <2>3. CASE i - 1 \notin f.items
    BY <2>1, <2>3
  <2> QED
    BY <2>2, <2>3
<1>6. deposits' = [i \in DOMAIN deposits |-> h[i]]
  BY <1>1
<1> HIDE DEF h
<1>7. /\ Numbered' /\ Admitted' = Admitted
      /\ \A n \in Admitted : D(n)' = h[n + 1]
  BY <1>2, <1>5, <1>6, Numbers, DepositsRewritten
<1>8. \A n \in Admitted : n + 1 \in DOMAIN deposits /\ (n + 1) - 1 = n /\ D(n) = deposits[n + 1]
  BY Numbers DEF D
<1>9. \A n \in Admitted : /\ n \notin f.items => D(n)' = D(n)
                          /\ n \in f.items => D(n)'.answer # "none" /\ D(n)'.moved = (n \in moved)
                          /\ D(n)'.dest = D(n).dest /\ D(n)'.refunded = D(n).refunded
  BY <1>5, <1>7, <1>8
<1>10. PICK g \in Flushing : /\ flushes' = (flushes \ {f}) \cup {g} /\ g.items = f.items
                             /\ g.todo = Plan(f.items, Settled(outcome))
                             /\ g.refunds = Refunds(f.items, outcome, echo)
  <2> DEFINE t == Plan(f.items, Settled(outcome))
             s == Settled(outcome) \cup echo
             r == Refunds(f.items, outcome, echo)
             g == [f EXCEPT !.todo = t, !.settled = s, !.refunds = r]
  <2>1. t \in Errands
    BY DEF Plan, Errands
  <2>2. \A n \in f.items : D(n).id \in Id
    BY <1>2, Numbers
  <2>3. s \in SUBSET Id
    BY <1>3, <2>2 DEF Settled, IdsOf
  <2>4. r \in SUBSET Number
    BY <1>2, <1>4 DEF Flushing
  <2>5. flushes' = (flushes \ {f}) \cup {g}
    BY <1>1
  <2> HIDE DEF t, s, r
  <2>6. g \in Flushing /\ g.items = f.items /\ g.todo = t /\ g.refunds = r
    BY <1>2, <2>1, <2>3, <2>4 DEF Flushing
  <2> HIDE DEF g
  <2> QED
    BY <2>5, <2>6 DEF t, r
<1>11. g.todo # <<"pay">> /\ Guards(g.todo)
  <2>1. g.todo \in {<<"record", "free">>, <<"free", "refund">>, <<"free", "record", "refund">>}
    BY <1>10 DEF Plan
  <2> QED
    BY <2>1 DEF Guards
<1>12. \A n \in g.refunds : ~ D(n)'.moved
  BY <1>2, <1>4, <1>9, <1>10
<1>13. Numbered' /\ Admitted' = Admitted /\ f.todo = <<"pay">> /\ g.refunds \subseteq f.items
  BY <1>2, <1>4, <1>7, <1>10
<1> QED
  BY <1>9, <1>10, <1>11, <1>12, <1>13

\* A refund of one reservation, or the end of the refunds.
LEMMA Refunding ==
    ASSUME Numbered, Parts, NEW f \in flushes, Refund(f)
    PROVE  /\ Numbered' /\ Admitted' = Admitted /\ f.todo # <<"pay">> /\ ~ Guards(f.todo)
           /\ \A n \in Admitted : /\ n \notin f.items => D(n)' = D(n)
                                  /\ D(n)'.dest = D(n).dest /\ D(n)'.answer = D(n).answer
                                  /\ D(n)'.moved = D(n).moved
                                  /\ D(n)'.refunded => D(n).refunded \/ n \in f.refunds
           /\ \E g \in Flushing :
                 /\ g.items = f.items /\ g.refunds \subseteq f.refunds /\ g.todo = f.todo
                 /\ flushes' = flushes \ {f} \/ flushes' = (flushes \ {f}) \cup {g}
<1>1. /\ f \in Flushing /\ f.items \subseteq Admitted /\ f.refunds \subseteq f.items
      /\ f.todo \in Errands /\ Head(f.todo) = "refund"
  BY DEF Parts, FlushesTyped, Refund, Flushing
<1>2. f.todo # <<"pay">>
  BY <1>1
<1>3. Len(f.todo) = 1 /\ ~ Guards(f.todo) /\ Advanced(f) = flushes \ {f}
  BY <1>1, <1>2, ErrandsGoOn DEF Advanced
<1>4. CASE f.refunds = {} /\ flushes' = Advanced(f) /\ UNCHANGED <<ledger, deposits>>
  <2>1. Numbered' /\ Admitted' = Admitted /\ \A n \in Admitted : D(n)' = D(n)
    BY <1>4, Numbers DEF Numbered, Admitted, D
  <2> QED
    BY <1>1, <1>2, <1>3, <1>4, <2>1
<1>5. ASSUME NEW n \in f.refunds,
             ledger' = Release(ledger, n, D(n).amount),
             deposits' = [deposits EXCEPT ![n + 1].refunded = TRUE],
             flushes' = IF f.refunds = {n} THEN Advanced(f)
                        ELSE (flushes \ {f}) \cup {[f EXCEPT !.refunds = @ \ {n}]}
      PROVE  /\ Numbered' /\ Admitted' = Admitted
             /\ \A m \in Admitted : /\ m # n => D(m)' = D(m)
                                    /\ D(m)'.dest = D(m).dest /\ D(m)'.answer = D(m).answer
                                    /\ D(m)'.moved = D(m).moved
             /\ \E g \in Flushing :
                 /\ g.items = f.items /\ g.refunds \subseteq f.refunds /\ g.todo = f.todo
                 /\ flushes' = flushes \ {f} \/ flushes' = (flushes \ {f}) \cup {g}
  <2>1. n \in Admitted /\ n + 1 \in DOMAIN deposits /\ D(n) \in Deposit /\ D(n) = deposits[n + 1]
    BY <1>1, <1>5, Numbers DEF D
  <2> DEFINE e == [deposits[n + 1] EXCEPT !.refunded = TRUE]
  <2>2. /\ e \in Deposit /\ e.dest = D(n).dest /\ e.answer = D(n).answer /\ e.moved = D(n).moved
    BY <2>1 DEF Deposit
  <2>3. deposits' = [deposits EXCEPT ![n + 1] = e]
    BY <1>5
  <2> HIDE DEF e
  <2>4. deposits' = [i \in DOMAIN deposits |-> [deposits EXCEPT ![n + 1] = e][i]]
    BY <2>3
  <2> DEFINE h == [deposits EXCEPT ![n + 1] = e]
  <2>5. \A i \in DOMAIN deposits : h[i] = (IF i = n + 1 THEN e ELSE deposits[i]) /\ h[i] \in Deposit
    BY <2>2, Numbers, ElementOfSeq DEF Numbered
  <2>6. deposits' = [i \in DOMAIN deposits |-> h[i]]
    BY <2>4
  <2> HIDE DEF h
  <2>7. CountIs(ledger', Len(deposits))
    BY <1>5, Numbers, CountKept
  <2>8. /\ Numbered' /\ Admitted' = Admitted
        /\ \A m \in Admitted : D(m)' = h[m + 1]
    BY <2>5, <2>6, <2>7, DepositsRewritten
  <2>9. \A m \in Admitted : D(m)' = IF m = n THEN e ELSE D(m)
    BY <2>1, <2>5, <2>8, Numbers DEF D
  <2>10. \E g \in Flushing :
            /\ g.items = f.items /\ g.refunds \subseteq f.refunds /\ g.todo = f.todo
            /\ flushes' = flushes \ {f} \/ flushes' = (flushes \ {f}) \cup {g}
    <3> DEFINE r == f.refunds \ {n}
               g == [f EXCEPT !.refunds = r]
    <3>1. r \in SUBSET Number /\ r \subseteq f.refunds
      BY <1>1 DEF Flushing
    <3>2. flushes' = flushes \ {f} \/ flushes' = (flushes \ {f}) \cup {g}
      BY <1>3, <1>5
    <3> HIDE DEF r
    <3>3. g \in Flushing /\ g.items = f.items /\ g.refunds = r /\ g.todo = f.todo
      BY <1>1, <3>1 DEF Flushing
    <3> HIDE DEF g
    <3> QED
      BY <3>1, <3>2, <3>3
  <2> QED
    BY <2>2, <2>8, <2>9, <2>10
<1>6. CASE \E n \in f.refunds : /\ ledger' = Release(ledger, n, D(n).amount)
                                /\ deposits' = [deposits EXCEPT ![n + 1].refunded = TRUE]
                                /\ flushes' = IF f.refunds = {n} THEN Advanced(f)
                                   ELSE (flushes \ {f}) \cup {[f EXCEPT !.refunds = @ \ {n}]}
  <2>1. PICK n \in f.refunds :
           /\ Numbered' /\ Admitted' = Admitted
           /\ \A m \in Admitted : /\ m # n => D(m)' = D(m)
                                  /\ D(m)'.dest = D(m).dest /\ D(m)'.answer = D(m).answer
                                  /\ D(m)'.moved = D(m).moved
           /\ \E g \in Flushing :
               /\ g.items = f.items /\ g.refunds \subseteq f.refunds /\ g.todo = f.todo
               /\ flushes' = flushes \ {f} \/ flushes' = (flushes \ {f}) \cup {g}
    BY <1>5, <1>6, Zenon
  <2> QED
    BY <1>1, <1>2, <1>3, <2>1
<1>7. \/ f.refunds = {} /\ flushes' = Advanced(f) /\ UNCHANGED <<ledger, deposits>>
      \/ \E n \in f.refunds : /\ ledger' = Release(ledger, n, D(n).amount)
                              /\ deposits' = [deposits EXCEPT ![n + 1].refunded = TRUE]
                              /\ flushes' = IF f.refunds = {n} THEN Advanced(f)
                                 ELSE (flushes \ {f}) \cup {[f EXCEPT !.refunds = @ \ {n}]}
  BY Zenon DEF Refund
<1> QED
  BY <1>4, <1>6, <1>7

\* A record or a release of guards, done.
LEMMA Advancing ==
    ASSUME Parts, NEW f \in flushes, f.todo # <<"pay">>, flushes' = Advanced(f)
    PROVE  \E g \in Flushing :
              /\ g.items = f.items /\ g.refunds = f.refunds /\ g.todo # <<"pay">>
              /\ \/ flushes' = flushes \ {f} /\ Len(f.todo) = 1
                 \/ flushes' = (flushes \ {f}) \cup {g} /\ Len(f.todo) # 1 /\ g.todo = Tail(f.todo)
<1>1. f \in Flushing /\ f.todo \in Errands
  BY DEF Parts, FlushesTyped, Flushing
<1>2. CASE Len(f.todo) = 1
  <2> DEFINE t == <<"free">>
             g == [f EXCEPT !.todo = t]
  <2>1. t \in Errands /\ t # <<"pay">>
    BY DEF Errands
  <2>2. flushes' = flushes \ {f}
    BY <1>2 DEF Advanced
  <2> HIDE DEF t
  <2>3. g \in Flushing /\ g.items = f.items /\ g.refunds = f.refunds /\ g.todo = t
    BY <1>1, <2>1 DEF Flushing
  <2> HIDE DEF g
  <2> QED
    BY <1>2, <2>1, <2>2, <2>3
<1>3. CASE Len(f.todo) # 1
  <2> DEFINE t == Tail(f.todo)
             g == [f EXCEPT !.todo = t]
  <2>1. t \in Errands /\ t # <<"pay">>
    BY <1>1, <1>3, ErrandsGoOn
  <2>2. flushes' = (flushes \ {f}) \cup {g}
    BY <1>3 DEF Advanced
  <2>3. t = Tail(f.todo)
    OBVIOUS
  <2> HIDE DEF t
  <2>4. g \in Flushing /\ g.items = f.items /\ g.refunds = f.refunds /\ g.todo = t
    BY <1>1, <2>1 DEF Flushing
  <2> HIDE DEF g
  <2> QED
    BY <1>3, <2>1, <2>2, <2>3, <2>4
<1> QED
  BY <1>2, <1>3

\* Time passes.
LEMMA Ticking ==
    ASSUME Numbered, Tick
    PROVE  /\ Numbered' /\ Admitted' = Admitted
           /\ \A n \in Admitted : /\ D(n)'.dest = D(n).dest /\ D(n)'.answer = D(n).answer
                                  /\ D(n)'.moved = D(n).moved /\ D(n)'.refunded = D(n).refunded
<1> DEFINE h == [i \in DOMAIN deposits |-> [deposits[i] EXCEPT !.window = Down(@)]]
<1>1. deposits' = [i \in DOMAIN deposits |-> h[i]] /\ ledger' = AgeLedger(ledger)
  BY DEF Tick
<1>2. ASSUME NEW i \in DOMAIN deposits
      PROVE  /\ h[i] \in Deposit /\ h[i].dest = deposits[i].dest /\ h[i].answer = deposits[i].answer
             /\ h[i].moved = deposits[i].moved /\ h[i].refunded = deposits[i].refunded
  <2>1. deposits[i] \in Deposit
    BY Numbers, ElementOfSeq DEF Numbered
  <2> DEFINE w == Down(deposits[i].window)
             e == [deposits[i] EXCEPT !.window = w]
  <2>2. w \in 0..SpendWindow
    BY <2>1, LedgerAssumption DEF Deposit, Down
  <2>3. h[i] = e
    OBVIOUS
  <2> HIDE DEF w, h
  <2>4. e \in Deposit /\ e.dest = deposits[i].dest /\ e.answer = deposits[i].answer
        /\ e.moved = deposits[i].moved /\ e.refunded = deposits[i].refunded
    BY <2>1, <2>2 DEF Deposit
  <2> HIDE DEF e
  <2> QED
    BY <2>3, <2>4
<1> HIDE DEF h
<1>3. CountIs(ledger', Len(deposits))
  BY <1>1, Numbers, CountKept
<1>4. /\ Numbered' /\ Admitted' = Admitted
      /\ \A n \in Admitted : D(n)' = h[n + 1]
  BY <1>1, <1>2, <1>3, DepositsRewritten
<1> QED
  BY <1>2, <1>4, Numbers DEF D

-----------------------------------------------------------------------------
LEMMA CachesStep == ASSUME CachesTyped, [Next]_vars PROVE CachesTyped'
<1>1. ASSUME NEW e \in Event, Check(e) PROVE CachesTyped'
  BY <1>1 DEF Check, CachesTyped
<1>2. CASE Skip
  BY <1>2 DEF Skip, CachesTyped
<1>3. CASE Admit
  BY <1>3, DepositAssumption DEF Admit, Claim, CachesTyped
<1>4. CASE FlushDeposits
  BY <1>4 DEF FlushDeposits, CachesTyped
<1>5. ASSUME NEW f \in flushes, PoolAnswers(f) \/ Record(f) \/ Free(f) \/ Refund(f) PROVE CachesTyped'
  <2>1. CASE Free(f)
    BY <2>1 DEF Free, CachesTyped
  <2> QED
    BY <1>5, <2>1 DEF PoolAnswers, Record, Refund, CachesTyped
<1>6. ASSUME NEW d \in Dest, Evict(d) PROVE CachesTyped'
  BY <1>6 DEF Evict, CachesTyped
<1>7. CASE Tick
  BY <1>7 DEF Tick, Down, CachesTyped
<1>8. CASE UNCHANGED vars
  BY <1>8 DEF vars, CachesTyped
<1> QED
  BY <1>1, <1>2, <1>3, <1>4, <1>5, <1>6, <1>7, <1>8 DEF Next

LEMMA RefundStep == ASSUME RefundInv, [Next]_vars PROVE RefundInv'
<1> USE DEF RefundInv
<1>1. ASSUME CountIs(ledger', Len(deposits)), deposits' = deposits PROVE Numbered' /\ Admitted' = Admitted
             /\ \A n \in Admitted : D(n)' = D(n)
  BY <1>1, Numbers DEF Numbered, CountIs, Admitted, D
<1>2. ASSUME CountIs(ledger', Len(deposits)), UNCHANGED <<deposits, flushes, buffer>>
      PROVE  Numbered' /\ Parts'
  BY <1>1, <1>2, FlushesStay
<1>3. ASSUME NEW e \in Event, Check(e) PROVE Numbered' /\ Parts'
  <2>1. CountIs(ledger', Len(deposits))
    BY <1>3, Numbers, CountKept DEF Check, Allowance
  <2> QED
    BY <1>2, <1>3, <2>1 DEF Check
<1> DEFINE Kept == Numbered' /\ Parts'
<1>5. ASSUME Admit PROVE Kept
  <2>1. PICK k : k = ledger.seq
    OBVIOUS
  <2>2. /\ Numbered' /\ k \notin Admitted /\ Admitted' = Admitted \cup {k}
        /\ \A n \in Admitted : D(n)' = D(n)
        /\ D(k)'.answer = "none" /\ D(k)'.moved = FALSE /\ D(k)'.refunded = FALSE
        /\ buffer' = buffer \cup {k} /\ flushes' = flushes
    BY <1>5, <2>1, Admitting
  <2>3. FlushesTyped' /\ PlacedOnce'
    BY <2>2 DEF Parts, FlushesTyped, PlacedOnce
  <2>4. AwaitsPool'
    <3>1. \A n \in Admitted : Unpaid(n)' <=> Unpaid(n)
      BY <2>2 DEF Unpaid
    <3> QED
      BY <2>2, <3>1 DEF Parts, AwaitsPool, Unpaid
  <2>5. RefundsEarned'
    BY <2>2 DEF Parts, RefundsEarned, FlushesTyped
  <2>6. RefundedNeverMoved'
    <3>1. \A n \in Admitted' : D(n)'.refunded => ~ D(n)'.moved
      BY <2>2 DEF Parts, RefundedNeverMoved, Admitted
    <3> QED
      BY <3>1 DEF RefundedNeverMoved, Admitted
  <2> QED
    BY <2>2, <2>3, <2>4, <2>5, <2>6 DEF Parts
<1>6. ASSUME FlushDeposits PROVE Kept
  <2> DEFINE g == [items |-> buffer, todo |-> <<"pay">>, settled |-> {}, refunds |-> {}]
  <2>1. /\ Numbered' /\ Admitted' = Admitted /\ \A n \in Admitted : D(n)' = D(n)
    BY <1>1, <1>6, Numbers DEF FlushDeposits
  <2>2. buffer # {} /\ buffer' = {} /\ flushes' = flushes \cup {g} /\ buffer \subseteq Admitted
    BY <1>6 DEF FlushDeposits, Parts, FlushesTyped
  <2>3. g \in Flushing /\ g.items = buffer /\ g.refunds = {} /\ g.todo = <<"pay">>
    BY <2>2, Numbers DEF Flushing, Errands
  <2> HIDE DEF g
  <2>4. FlushesTyped' /\ PlacedOnce'
    BY <2>1, <2>2, <2>3 DEF Parts, FlushesTyped, PlacedOnce
  <2>5. \A n : Unpaid(n)' <=> Unpaid(n)
    BY <2>2, <2>3 DEF Unpaid
  <2>6. AwaitsPool'
    BY <2>1, <2>5 DEF Parts, AwaitsPool
  <2>7. RefundsEarned'
    BY <2>1, <2>2, <2>3 DEF Parts, RefundsEarned, FlushesTyped
  <2>8. RefundedNeverMoved'
    BY <2>1 DEF Parts, RefundedNeverMoved, Admitted
  <2> QED
    BY <2>1, <2>4, <2>6, <2>7, <2>8 DEF Parts
<1>7. ASSUME NEW f \in flushes, PoolAnswers(f) PROVE Kept
  <2>1. \A n \in f.items : n \in Admitted /\ ~ D(n).refunded
    BY <1>7, Answering DEF Parts, FlushesTyped, AwaitsPool, Unpaid
  <2>2. buffer' = buffer
    BY <1>7 DEF PoolAnswers
  <2> QED
    BY <1>7, <2>1, <2>2, Answering, FlushGoesOn
<1>8. ASSUME NEW f \in flushes, f.todo # <<"pay">>
      PROVE  \A n \in f.items : /\ n \in Admitted /\ D(n).answer # "none"
                                /\ D(n).refunded => ~ D(n).moved
                                /\ n \in f.refunds => ~ D(n).moved
  <2>1. f.items \subseteq Admitted /\ \A n \in f.items : ~ Unpaid(n)
    BY <1>8 DEF Parts, FlushesTyped, PlacedOnce, Unpaid
  <2> QED
    BY <2>1 DEF Parts, AwaitsPool, RefundedNeverMoved, RefundsEarned, Admitted
<1>9. ASSUME NEW f \in flushes, Record(f) \/ Free(f) PROVE Kept
  <2>1. /\ f.todo # <<"pay">> /\ flushes' = Advanced(f) /\ buffer' = buffer
        /\ UNCHANGED <<ledger, deposits>>
    BY <1>9 DEF Record, Free
  <2>2. Numbered' /\ Admitted' = Admitted /\ \A n \in Admitted : D(n)' = D(n)
    BY <1>1, <2>1, Numbers
  <2>3. PICK g \in Flushing :
           /\ g.items = f.items /\ g.refunds = f.refunds /\ g.todo # <<"pay">>
           /\ flushes' = flushes \ {f} \/ flushes' = (flushes \ {f}) \cup {g}
    BY <2>1, Advancing
  <2>4. g.refunds \subseteq f.items
    BY <2>3 DEF Parts, FlushesTyped
  <2>5. \A n \in f.items : /\ D(n)'.answer # "none" /\ (D(n)'.refunded => ~ D(n)'.moved)
                           /\ n \in g.refunds => ~ D(n)'.moved
    BY <1>8, <2>1, <2>2, <2>3
  <2> QED
    BY <2>1, <2>2, <2>3, <2>4, <2>5, FlushGoesOn
<1>10. ASSUME NEW f \in flushes, Refund(f) PROVE Kept
  <2>1. PICK g \in Flushing :
           /\ g.items = f.items /\ g.refunds \subseteq f.refunds /\ g.todo = f.todo
           /\ flushes' = flushes \ {f} \/ flushes' = (flushes \ {f}) \cup {g}
    BY <1>10, Refunding
  <2>2. /\ Numbered' /\ Admitted' = Admitted /\ f.todo # <<"pay">> /\ buffer' = buffer
        /\ \A n \in Admitted : /\ n \notin f.items => D(n)' = D(n)
                               /\ D(n)'.dest = D(n).dest /\ D(n)'.answer = D(n).answer
                               /\ D(n)'.moved = D(n).moved
                               /\ D(n)'.refunded => D(n).refunded \/ n \in f.refunds
    BY <1>10, Refunding DEF Refund
  <2>3. g.refunds \subseteq f.items
    BY <2>1 DEF Parts, FlushesTyped
  <2>4. \A n \in f.items : /\ D(n)'.answer # "none" /\ (D(n)'.refunded => ~ D(n)'.moved)
                           /\ n \in g.refunds => ~ D(n)'.moved
    BY <1>8, <2>1, <2>2
  <2> QED
    BY <2>1, <2>2, <2>3, <2>4, FlushGoesOn
<1>11. ASSUME NEW d \in Dest, Evict(d) PROVE Kept
  BY <1>2, <1>11, Numbers DEF Evict
<1>12. ASSUME Tick PROVE Kept
  BY <1>12, Ticking, FlushesStay DEF Tick
<1>13. ASSUME Skip \/ UNCHANGED vars PROVE Kept
  BY <1>2, <1>13, Numbers DEF Skip, vars
<1>14. Kept
  BY <1>3, <1>5, <1>6, <1>7, <1>9, <1>10, <1>11, <1>12, <1>13 DEF Next
<1> QED
  BY <1>14, CachesStep

LEMMA RefundStart == Init => RefundInv
<1> SUFFICES ASSUME Init PROVE RefundInv
  OBVIOUS
<1>1. Numbered /\ Admitted = {}
  BY DepositAssumption DEF Init, EmptyLedger, Numbered, Admitted
<1>2. CachesTyped
  BY DEF Init, CachesTyped
<1>3. Parts
  BY <1>1 DEF Init, Parts, FlushesTyped, PlacedOnce, AwaitsPool, RefundsEarned,
     RefundedNeverMoved, Admitted
<1> QED
  BY <1>1, <1>2, <1>3 DEF RefundInv

LEMMA RefundInvariant == Spec => []RefundInv
  BY RefundStart, RefundStep, PTL DEF Spec

\* A reservation is handed back only where the deposit's own funds did not move
\* (flush_deposit_batch, refund): for any pool, any number of concurrent
\* flushes, and batches whose failures do not say whose they are.
THEOREM RefundsNeverOfMoved == Spec => []RefundedNeverMoved
<1>1. RefundInv => RefundedNeverMoved
  BY DEF RefundInv, Parts
<1> QED
  BY <1>1, RefundInvariant, PTL

-----------------------------------------------------------------------------
(***************************************************************************)
(* The guards.                                                             *)
(***************************************************************************)

LEMMA GuardingIsHolding ==
    ASSUME RefundInv, NEW d
    PROVE  Guarding(d) <=> \E n \in Admitted : HoldsGuard(n) /\ D(n).dest = d
<1>1. buffer \subseteq Admitted /\ \A f \in flushes : f.items \subseteq Admitted
  BY DEF RefundInv, Parts, FlushesTyped
<1> QED
  BY <1>1 DEF Guarding, HoldsGuard, Guards

\* A step that admits nothing: no guard is newly held, and those still held
\* that fall are noted.
LEMMA GuardsKept ==
    ASSUME RefundInv, GuardStands, GuardsApart,
           Admitted' = Admitted, lapsed \subseteq lapsed',
           \A n \in Admitted : /\ D(n)'.dest = D(n).dest
                               /\ HoldsGuard(n)' => HoldsGuard(n)
                               /\ HoldsGuard(n)' /\ inFlight[D(n).dest] > 0
                                    => inFlight'[D(n).dest] > 0 \/ D(n).dest \in lapsed'
    PROVE  (GuardStands /\ GuardsApart)'
<1>1. GuardStands'
  BY DEF GuardStands
<1>2. GuardsApart'
  BY DEF GuardsApart
<1> QED
  BY <1>1, <1>2

\* A flush that goes on holds no guard it did not hold.
LEMMA FlushHoldsLess ==
    ASSUME RefundInv, NEW f \in flushes, NEW g,
           g.items = f.items, Guards(g.todo) => Guards(f.todo),
           flushes' = flushes \ {f} \/ flushes' = (flushes \ {f}) \cup {g},
           buffer' = buffer, NEW n, HoldsGuard(n)'
    PROVE  HoldsGuard(n)
  BY DEF HoldsGuard

LEMMA GuardStep == ASSUME GuardInv, [Next]_vars PROVE GuardInv'
<1> DEFINE Kept == (GuardStands /\ GuardsApart)'
<1>1. RefundInv /\ GuardStands /\ GuardsApart /\ RefundInv'
  BY RefundStep DEF GuardInv
<1>2. /\ Numbered /\ Parts /\ CachesTyped
      /\ \A n \in Admitted : D(n).dest \in Dest /\ inFlight[D(n).dest] \in Nat
  BY <1>1, Numbers DEF RefundInv, CachesTyped
<1>3. ASSUME UNCHANGED <<flushes, buffer, inFlight, lapsed, deposits>>, CountIs(ledger', Len(deposits))
      PROVE  Kept
  <2>1. Admitted' = Admitted /\ \A n \in Admitted : D(n)' = D(n)
    BY <1>2, <1>3, Numbers DEF CountIs, Admitted, D
  <2>2. \A n \in Admitted : HoldsGuard(n)' <=> HoldsGuard(n)
    BY <1>3 DEF HoldsGuard
  <2> QED
    BY <1>1, <1>3, <2>1, <2>2, GuardsKept
<1>4. ASSUME NEW e \in Event, Check(e) PROVE Kept
  <2>1. CountIs(ledger', Len(deposits))
    BY <1>2, <1>4, Numbers, CountKept DEF Check, Allowance
  <2> QED
    BY <1>3, <1>4, <2>1 DEF Check
<1>5. ASSUME Admit PROVE Kept
  <2>1. PICK k : k = ledger.seq
    OBVIOUS
  <2>2. PICK d : d = handling.dest
    OBVIOUS
  <2>3. /\ k \notin Admitted /\ Admitted' = Admitted \cup {k} /\ d \in Dest
        /\ \A n \in Admitted : D(n)' = D(n)
        /\ D(k)'.dest = d /\ buffer' = buffer \cup {k} /\ flushes' = flushes
    BY <1>2, <1>5, <2>1, <2>2, Admitting
  <2>4. /\ inFlight[d] = 0 /\ inFlight' = [inFlight EXCEPT ![d] = GuardTTL]
        /\ lapsed' = IF Guarding(d) THEN lapsed ELSE lapsed \ {d}
    BY <1>5, <2>2 DEF Admit, Claim
  <2>5. inFlight'[d] > 0 /\ \A c \in Dest : c # d => inFlight'[c] = inFlight[c]
    BY <1>2, <2>3, <2>4, DepositAssumption DEF CachesTyped
  <2>6. \A n \in Admitted : HoldsGuard(n)' <=> HoldsGuard(n)
    BY <2>3 DEF HoldsGuard
  <2>7. ASSUME NEW n \in Admitted, HoldsGuard(n)
        PROVE  /\ D(n).dest = d => d \in lapsed'
               /\ D(n).dest \in lapsed => D(n).dest \in lapsed'
    <3>1. D(n).dest = d => Guarding(d)
      BY <1>1, <2>7, GuardingIsHolding
    <3>2. D(n).dest = d => d \in lapsed
      BY <1>1, <1>2, <2>4, <2>7 DEF GuardStands
    <3> QED
      BY <2>4, <3>1, <3>2
  <2>8. GuardStands'
    <3> SUFFICES ASSUME NEW n \in Admitted', HoldsGuard(n)'
                 PROVE  inFlight'[D(n)'.dest] > 0 \/ D(n)'.dest \in lapsed'
      BY DEF GuardStands
    <3>1. CASE n = k
      BY <2>3, <2>5, <3>1
    <3>2. CASE n \in Admitted
      BY <1>1, <1>2, <2>3, <2>5, <2>6, <2>7, <3>2 DEF GuardStands
    <3> QED
      BY <2>3, <3>1, <3>2
  <2>9. GuardsApart'
    <3> SUFFICES ASSUME NEW m \in Admitted', NEW n \in Admitted', m # n,
                        HoldsGuard(m)', HoldsGuard(n)', D(m)'.dest = D(n)'.dest
                 PROVE  D(n)'.dest \in lapsed'
      BY DEF GuardsApart
    <3>1. CASE n = k
      BY <2>3, <2>6, <2>7, <3>1
    <3>2. CASE m = k
      BY <2>3, <2>6, <2>7, <3>2
    <3>3. CASE m \in Admitted /\ n \in Admitted
      BY <1>1, <2>3, <2>6, <2>7, <3>3 DEF GuardsApart
    <3> QED
      BY <2>3, <3>1, <3>2, <3>3
  <2> QED
    BY <2>8, <2>9
<1>6. ASSUME FlushDeposits PROVE Kept
  <2> DEFINE g == [items |-> buffer, todo |-> <<"pay">>, settled |-> {}, refunds |-> {}]
  <2>1. /\ Admitted' = Admitted /\ \A n \in Admitted : D(n)' = D(n)
    BY <1>6 DEF FlushDeposits, Admitted, D
  <2>2. /\ buffer' = {} /\ flushes' = flushes \cup {g} /\ UNCHANGED <<inFlight, lapsed>>
    BY <1>6 DEF FlushDeposits
  <2>3. g.items = buffer
    OBVIOUS
  <2> HIDE DEF g
  <2>4. \A n \in Admitted : HoldsGuard(n)' => HoldsGuard(n)
    BY <2>2, <2>3 DEF HoldsGuard
  <2> QED
    BY <1>1, <2>1, <2>2, <2>4, GuardsKept
<1>7. ASSUME NEW f \in flushes, PoolAnswers(f) PROVE Kept
  <2>1. /\ Admitted' = Admitted /\ f.todo = <<"pay">>
        /\ \A n \in Admitted : D(n)'.dest = D(n).dest
        /\ \E g \in Flushing : g.items = f.items /\ flushes' = (flushes \ {f}) \cup {g}
    BY <1>2, <1>7, Answering
  <2>2. UNCHANGED <<buffer, inFlight, lapsed>> /\ Guards(f.todo)
    <3>1. Guards(<<"pay">>)
      BY DEF Guards
    <3> QED
      BY <1>7, <2>1, <3>1 DEF PoolAnswers
  <2>3. \A n \in Admitted : HoldsGuard(n)' => HoldsGuard(n)
    BY <1>1, <2>1, <2>2, FlushHoldsLess
  <2> QED
    BY <1>1, <2>1, <2>2, <2>3, GuardsKept
<1>8. ASSUME NEW f \in flushes, Record(f) PROVE Kept
  <2>1. /\ f.todo # <<"pay">> /\ f.todo \in Errands /\ Head(f.todo) = "record"
        /\ flushes' = Advanced(f) /\ UNCHANGED <<buffer, ledger, deposits, inFlight, lapsed>>
    BY <1>2, <1>8 DEF Record, Parts, FlushesTyped, Flushing
  <2>2. PICK g \in Flushing :
           /\ g.items = f.items
           /\ \/ flushes' = flushes \ {f} /\ Len(f.todo) = 1
              \/ flushes' = (flushes \ {f}) \cup {g} /\ g.todo = Tail(f.todo)
    BY <1>2, <2>1, Advancing
  <2>3. Guards(Tail(f.todo)) => Guards(f.todo)
    BY <2>1, ErrandsGoOn
  <2>4. Admitted' = Admitted /\ \A n \in Admitted : D(n)' = D(n)
    BY <2>1 DEF Admitted, D
  <2>5. \A n \in Admitted : HoldsGuard(n)' => HoldsGuard(n)
    BY <1>1, <2>1, <2>2, <2>3, FlushHoldsLess
  <2> QED
    BY <1>1, <2>1, <2>4, <2>5, GuardsKept
<1>9. ASSUME NEW f \in flushes, Free(f) PROVE Kept
  <2>1. /\ f.todo \in Errands /\ Head(f.todo) = "free" /\ f.todo # <<"pay">>
        /\ flushes' = Advanced(f) /\ UNCHANGED <<buffer, ledger, deposits, lapsed>>
        /\ inFlight' = [d \in Dest |-> IF \E n \in f.items : D(n).dest = d THEN 0 ELSE inFlight[d]]
    BY <1>2, <1>9 DEF Free, Parts, FlushesTyped, Flushing, Errands
  <2>2. PICK g \in Flushing :
           /\ g.items = f.items
           /\ \/ flushes' = flushes \ {f} /\ Len(f.todo) = 1
              \/ flushes' = (flushes \ {f}) \cup {g} /\ Len(f.todo) # 1 /\ g.todo = Tail(f.todo)
    BY <1>2, <2>1, Advancing
  <2>3. Guards(f.todo) /\ (Len(f.todo) # 1 => ~ Guards(Tail(f.todo)))
    BY <2>1, ErrandsGoOn
  <2>4. Admitted' = Admitted /\ \A n \in Admitted : D(n)' = D(n)
    BY <2>1 DEF Admitted, D
  <2>5. \A n \in Admitted : HoldsGuard(n)' => HoldsGuard(n)
    BY <1>1, <2>1, <2>2, <2>3, FlushHoldsLess
  <2>6. ASSUME NEW n \in Admitted, HoldsGuard(n)', inFlight[D(n).dest] > 0
        PROVE  inFlight'[D(n).dest] > 0 \/ D(n).dest \in lapsed
    <3>1. n \notin f.items
      BY <1>2, <2>1, <2>2, <2>3, <2>6 DEF Parts, PlacedOnce, HoldsGuard
    <3>2. ASSUME NEW m \in f.items, D(m).dest = D(n).dest PROVE D(n).dest \in lapsed
      <4>1. m \in Admitted /\ HoldsGuard(m) /\ HoldsGuard(n) /\ m # n
        BY <1>2, <2>3, <2>5, <2>6, <3>1 DEF Parts, FlushesTyped, HoldsGuard
      <4> QED
        BY <1>1, <3>2, <4>1 DEF GuardsApart
    <3> QED
      BY <1>2, <2>1, <2>6, <3>2
  <2> QED
    BY <1>1, <2>1, <2>4, <2>5, <2>6, GuardsKept
<1>10. ASSUME NEW f \in flushes, Refund(f) PROVE Kept
  <2>1. /\ Admitted' = Admitted /\ \A n \in Admitted : D(n)'.dest = D(n).dest
        /\ \E g \in Flushing :
              /\ g.items = f.items /\ g.todo = f.todo
              /\ flushes' = flushes \ {f} \/ flushes' = (flushes \ {f}) \cup {g}
    BY <1>2, <1>10, Refunding
  <2>2. UNCHANGED <<buffer, inFlight, lapsed>>
    BY <1>10 DEF Refund
  <2>3. \A n \in Admitted : HoldsGuard(n)' => HoldsGuard(n)
    BY <1>1, <2>1, <2>2, FlushHoldsLess
  <2> QED
    BY <1>1, <2>1, <2>2, <2>3, GuardsKept
<1>11. ASSUME NEW d \in Dest, Evict(d) PROVE Kept
  <2>1. /\ UNCHANGED <<flushes, buffer, ledger, deposits>>
        /\ inFlight' = [inFlight EXCEPT ![d] = 0]
        /\ lapsed' = IF Guarding(d) THEN lapsed \cup {d} ELSE lapsed
    BY <1>11 DEF Evict
  <2>2. Admitted' = Admitted /\ \A n \in Admitted : D(n)' = D(n)
    BY <2>1 DEF Admitted, D
  <2>3. \A n \in Admitted : HoldsGuard(n)' => HoldsGuard(n)
    BY <2>1 DEF HoldsGuard
  <2>4. \A n \in Admitted : HoldsGuard(n)' /\ inFlight[D(n).dest] > 0
           => inFlight'[D(n).dest] > 0 \/ D(n).dest \in lapsed'
    BY <1>1, <1>2, <2>1, <2>3, GuardingIsHolding DEF CachesTyped
  <2> QED
    BY <1>1, <2>1, <2>2, <2>3, <2>4, GuardsKept
<1>12. ASSUME Tick PROVE Kept
  <2>1. /\ UNCHANGED <<flushes, buffer>> /\ inFlight' = [d \in Dest |-> Down(inFlight[d])]
        /\ lapsed' = lapsed \cup {d \in Dest : inFlight[d] = 1 /\ Guarding(d)}
    BY <1>12 DEF Tick
  <2>2. Admitted' = Admitted /\ \A n \in Admitted : D(n)'.dest = D(n).dest
    BY <1>2, <1>12, Ticking
  <2>3. \A n \in Admitted : HoldsGuard(n)' => HoldsGuard(n)
    BY <2>1 DEF HoldsGuard
  <2>4. ASSUME NEW n \in Admitted, HoldsGuard(n)', inFlight[D(n).dest] > 0
        PROVE  inFlight'[D(n).dest] > 0 \/ D(n).dest \in lapsed'
    <3>1. Guarding(D(n).dest)
      BY <1>1, <2>3, <2>4, GuardingIsHolding
    <3> QED
      BY <1>2, <2>1, <2>4, <3>1 DEF Down
  <2> QED
    BY <1>1, <2>1, <2>2, <2>3, <2>4, GuardsKept
<1>13. ASSUME Skip \/ UNCHANGED vars PROVE Kept
  BY <1>2, <1>3, <1>13, Numbers DEF Skip, vars
<1>14. Kept
  BY <1>4, <1>5, <1>6, <1>7, <1>8, <1>9, <1>10, <1>11, <1>12, <1>13 DEF Next
<1> QED
  BY <1>1, <1>14 DEF GuardInv

\* Two deposits to one destination are under way together only if a guard of
\* that destination fell first, by age or by eviction (in_flight_destinations):
\* for any time-to-live and capacity of the cache.
THEOREM OverlapsOfLapsed == Spec => []OverlapOnlyAfterLapse
<1>1. Init => GuardStands /\ GuardsApart
  BY DEF Init, GuardStands, GuardsApart, HoldsGuard
<1>2. GuardInv => OverlapOnlyAfterLapse
  <2> SUFFICES ASSUME GuardInv, NEW m \in Admitted, NEW n \in Admitted, m # n,
                      UnderWay(m), UnderWay(n), D(m).dest = D(n).dest
               PROVE  D(n).dest \in lapsed
    BY DEF OverlapOnlyAfterLapse, Admitted
  <2>1. \A k \in Admitted : UnderWay(k) => HoldsGuard(k)
    <3>1. Guards(<<"pay">>)
      BY DEF Guards
    <3> QED
      BY <3>1 DEF GuardInv, RefundInv, Parts, AwaitsPool, Unpaid, UnderWay, HoldsGuard
  <2> QED
    BY <2>1 DEF GuardInv, GuardsApart
<1>3. Init => GuardInv
  BY <1>1, RefundStart DEF GuardInv
<1> QED
  BY <1>2, <1>3, GuardStep, PTL DEF Spec

-----------------------------------------------------------------------------
(***************************************************************************)
(* The books of the window.  The entries divide the latest reservations    *)
(* among themselves, in order and without a gap; an entry stays at least   *)
(* as long as each of its reservations counts, knows which of them were    *)
(* refunded, and holds what the others add up to.                          *)
(***************************************************************************)
Units(ds) == [n \in 0..(Len(ds) - 1) |-> ds[n + 1].amount]

Unrefunded(ds, ns) == {n \in ns : ~ ds[n + 1].refunded}

\* An entry's own account, given the refunds the ledger remembers.
Accounts(entry, known, ds) ==
    /\ \A n \in NumbersIn(entry) : /\ ds[n + 1].window <= entry.left
                                   /\ n \in known <=> ds[n + 1].refunded
    /\ entry.amount = Total(Units(ds), Unrefunded(ds, NumbersIn(entry)))

\* Entries that follow one another up to the next reservation, oldest first.
Chained(es, next) ==
    /\ \A i \in DOMAIN es : /\ es[i].lo <= es[i].hi
                            /\ es[i].hi + 1 = IF i = Len(es) THEN next ELSE es[i + 1].lo
    /\ \A i, j \in DOMAIN es : i < j => es[i].hi < es[j].lo /\ es[i].left <= es[j].left

Booked(es) == UNION {NumbersIn(es[i]) : i \in DOMAIN es}

\* The entries of a ledger that remembers the refunds known.
Held(es, known, ds) ==
    /\ es \in Seq(Entry) /\ Chained(es, Len(ds))
    /\ \A i \in DOMAIN es : Accounts(es[i], known, ds)
    /\ \A n \in 0..(Len(ds) - 1) : ds[n + 1].window > 0 => n \in Booked(es)

Books(l, ds) ==
    /\ l \in Ledger /\ ds \in Seq(Deposit) /\ l.seq = Len(ds)
    /\ l.refunded \subseteq 0..(Len(ds) - 1)
    /\ Held(l.entries, l.refunded, ds)

LEMMA DepositsCount ==
    ASSUME NEW ds \in Seq(Deposit)
    PROVE  /\ Len(ds) \in Nat /\ DOMAIN ds = 1..Len(ds)
           /\ \A n \in 0..(Len(ds) - 1) :
                 /\ n + 1 \in DOMAIN ds /\ ds[n + 1] \in Deposit
                 /\ ds[n + 1].amount \in Nat /\ ds[n + 1].window \in 0..SpendWindow
                 /\ Units(ds)[n] = ds[n + 1].amount
<1>1. Len(ds) \in Nat /\ DOMAIN ds = 1..Len(ds)
  BY LenProperties
<1>2. \A n \in 0..(Len(ds) - 1) : n + 1 \in DOMAIN ds /\ ds[n + 1] \in Deposit
  BY <1>1, ElementOfSeq
<1> QED
  BY <1>1, <1>2 DEF Deposit, Units

\* Reservations add up to a number, those of a part to no more.
LEMMA UnitsAdd ==
    ASSUME NEW ds \in Seq(Deposit), NEW ns \in SUBSET (0..(Len(ds) - 1))
    PROVE  /\ IsFiniteSet(ns) /\ Total(Units(ds), ns) \in Nat
           /\ \A ms \in SUBSET ns : Total(Units(ds), ms) <= Total(Units(ds), ns)
<1>1. IsFiniteSet(ns)
  <2>1. 0 \in Int /\ Len(ds) - 1 \in Int
    BY DepositsCount
  <2>2. IsFiniteSet(0..(Len(ds) - 1))
    BY <2>1, FS_Interval
  <2> QED
    BY <2>2, FS_Subset
<1>2. \A n \in ns : Units(ds)[n] \in Nat
  BY DepositsCount
<1> QED
  BY <1>1, <1>2, TotalAdd, TotalOfPart

LEMMA EntriesAre ==
    ASSUME NEW es \in Seq(Entry)
    PROVE  /\ Len(es) \in Nat /\ DOMAIN es = 1..Len(es)
           /\ \A i \in DOMAIN es : /\ es[i] \in Entry /\ es[i].left \in 0..SpendWindow
                                   /\ es[i].amount \in Nat /\ es[i].lo \in Nat /\ es[i].hi \in Nat
<1>1. Len(es) \in Nat /\ DOMAIN es = 1..Len(es)
  BY LenProperties
<1>2. \A i \in DOMAIN es : es[i] \in Entry
  BY <1>1, ElementOfSeq
<1> QED
  BY <1>1, <1>2 DEF Entry

\* The entries' ranges are apart and end before the next reservation.
LEMMA ChainApart ==
    ASSUME NEW es \in Seq(Entry), NEW next \in Nat, Chained(es, next)
    PROVE  /\ \A i \in DOMAIN es : es[i].hi < next /\ NumbersIn(es[i]) \subseteq 0..(next - 1)
           /\ \A i, j \in DOMAIN es : i # j => NumbersIn(es[i]) \cap NumbersIn(es[j]) = {}
           /\ Booked(es) \subseteq 0..(next - 1)
<1>1. /\ Len(es) \in Nat /\ DOMAIN es = 1..Len(es)
      /\ \A i \in DOMAIN es : es[i].lo \in Nat /\ es[i].hi \in Nat
  BY EntriesAre
<1>2. ASSUME NEW i \in DOMAIN es PROVE es[i].hi < next
  <2>1. CASE i = Len(es)
    BY <1>1, <2>1 DEF Chained
  <2>2. CASE i # Len(es)
    <3>1. i < Len(es) /\ Len(es) \in DOMAIN es
      BY <1>1, <2>2
    <3>2. es[i].hi < es[Len(es)].lo /\ es[Len(es)].lo <= es[Len(es)].hi /\ es[Len(es)].hi + 1 = next
      BY <3>1 DEF Chained
    <3> QED
      BY <1>1, <3>1, <3>2
  <2> QED
    BY <2>1, <2>2
<1>3. \A i \in DOMAIN es : NumbersIn(es[i]) \subseteq 0..(next - 1)
  BY <1>1, <1>2 DEF NumbersIn
<1>4. ASSUME NEW i \in DOMAIN es, NEW j \in DOMAIN es, i # j
      PROVE  NumbersIn(es[i]) \cap NumbersIn(es[j]) = {}
  <2>1. i < j \/ j < i
    BY <1>1, <1>4
  <2>2. es[i].hi < es[j].lo \/ es[j].hi < es[i].lo
    BY <2>1 DEF Chained
  <2> QED
    BY <1>1, <2>2 DEF NumbersIn
<1>5. Booked(es) \subseteq 0..(next - 1)
  BY <1>3 DEF Booked
<1> QED
  BY <1>2, <1>3, <1>4, <1>5

\* An account holds for what agrees with it on the entry's reservations.
LEMMA AccountsAgree ==
    ASSUME NEW entry \in Entry, NEW x \in Entry, NEW known, NEW seen,
           NEW ds \in Seq(Deposit), NEW fs \in Seq(Deposit),
           entry.hi < Len(ds), entry.hi < Len(fs), Accounts(entry, known, ds),
           x.lo = entry.lo, x.hi = entry.hi, x.amount = entry.amount,
           \A n \in NumbersIn(entry) :
              /\ n \in seen <=> n \in known
              /\ fs[n + 1].amount = ds[n + 1].amount /\ fs[n + 1].refunded = ds[n + 1].refunded
              /\ fs[n + 1].window <= x.left
    PROVE  Accounts(x, seen, fs)
<1> DEFINE ns == NumbersIn(entry)
<1>1. NumbersIn(x) = ns
  BY DEF NumbersIn
<1>2. ns \subseteq 0..(Len(ds) - 1) /\ ns \subseteq 0..(Len(fs) - 1)
  BY DepositsCount DEF NumbersIn, Entry
<1>3. \A n \in ns : Units(ds)[n] = Units(fs)[n]
  BY <1>2, DepositsCount
<1>4. Unrefunded(fs, ns) = Unrefunded(ds, ns) /\ Unrefunded(ds, ns) \subseteq ns
  BY DEF Unrefunded
<1>5. IsFiniteSet(Unrefunded(ds, ns)) /\ \A n \in Unrefunded(ds, ns) : Units(ds)[n] = Units(fs)[n]
  BY <1>2, <1>3, <1>4, UnitsAdd
<1>6. Total(Units(ds), Unrefunded(ds, ns)) = Total(Units(fs), Unrefunded(ds, ns))
  BY <1>5, TotalDepends
<1> QED
  BY <1>1, <1>4, <1>6 DEF Accounts

-----------------------------------------------------------------------------
\* Without its first m entries, which have expired.
Drops(es, m, x) ==
    /\ x \in Seq(Entry) /\ Len(x) = Len(es) - m
    /\ \A i \in 1..(Len(es) - m) : x[i] = es[i + m]
    /\ \A i \in 1..m : es[i].left = 0

\* The refunds still of interest.
Pruned(known, x) == IF x = <<>> THEN {} ELSE {q \in known : q >= x[1].lo}

\* What has expired is at the front.
LEMMA LiveAre ==
    ASSUME NEW es \in Seq(Entry)
    PROVE  \E m \in 0..Len(es) : Drops(es, m, LiveEntries(es))
<1> DEFINE live == {i \in DOMAIN es : es[i].left > 0}
<1>1. /\ Len(es) \in Nat /\ DOMAIN es = 1..Len(es)
      /\ \A i \in 1..Len(es) : es[i] \in Entry /\ es[i].left \in 0..SpendWindow
  BY EntriesAre
<1>2. LiveEntries(es) = IF live = {} THEN <<>> ELSE SubSeq(es, Min(live), Len(es))
  BY DEF LiveEntries
<1>3. \A i \in 1..Len(es) : i \notin live => es[i].left = 0
  BY <1>1, LedgerAssumption
<1>4. live \subseteq 1..Len(es)
  BY <1>1
<1> HIDE DEF live
<1>5. CASE live = {}
  <2>1. LiveEntries(es) = <<>> /\ <<>> \in Seq(Entry) /\ Len(<<>>) = 0
    BY <1>2, <1>5, EmptySeq
  <2> DEFINE m == Len(es)
  <2>2. m \in 0..Len(es) /\ Len(es) - m = 0
    BY <1>1
  <2>3. \A i \in 1..m : es[i].left = 0
    BY <1>3, <1>5
  <2>4. \A i \in 1..(Len(es) - m) : LiveEntries(es)[i] = es[i + m]
    BY <2>2
  <2> QED
    BY <2>1, <2>2, <2>3, <2>4 DEF Drops
<1>6. CASE live # {}
  <2> DEFINE k == Min(live)
             x == SubSeq(es, k, Len(es))
  <2>1. k \in live /\ \A i \in live : k <= i
    <3>1. live \subseteq Nat
      BY <1>1, <1>4
    <3> QED
      BY <1>6, <3>1, MinIsLeast
  <2>2. k \in 1..Len(es)
    BY <1>4, <2>1
  <2>3. LiveEntries(es) = x
    BY <1>2, <1>6
  <2> HIDE DEF k
  <2>4. \A i \in k..Len(es) : es[i] \in Entry
    BY <1>1, <2>2
  <2>5. k \in Int /\ Len(es) \in Int
    BY <1>1, <2>2
  <2>6. /\ x \in Seq(Entry) /\ Len(x) = IF k <= Len(es) THEN Len(es) - k + 1 ELSE 0
        /\ \A i \in 1..(Len(es) - k + 1) : x[i] = es[k + i - 1]
    BY <2>4, <2>5, SubSeqProperties
  <2> HIDE DEF x
  <2> DEFINE m == k - 1
  <2>7. m \in 0..Len(es) /\ k = m + 1
    BY <1>1, <2>2
  <2>8. \A i \in 1..m : es[i].left = 0
    BY <1>1, <1>3, <2>1, <2>2
  <2> HIDE DEF m
  <2>9. Len(x) = Len(es) - m /\ \A i \in 1..(Len(es) - m) : x[i] = es[i + m]
    <3>1. k <= Len(es) /\ Len(es) - k + 1 = Len(es) - m
      BY <1>1, <2>2, <2>7
    <3>2. \A i \in 1..(Len(es) - m) : k + i - 1 = i + m
      BY <1>1, <2>7
    <3> QED
      BY <2>6, <3>1, <3>2
  <2> QED
    BY <2>3, <2>6, <2>7, <2>8, <2>9 DEF Drops
<1> QED
  BY <1>5, <1>6

\* Dropping them keeps the books: none of their reservations counts any more.
LEMMA ExpireHolds ==
    ASSUME NEW ds \in Seq(Deposit), NEW known, NEW es, Held(es, known, ds),
           NEW m \in 0..Len(es), NEW x, Drops(es, m, x)
    PROVE  Held(x, Pruned(known, x), ds) /\ Booked(x) \subseteq Booked(es)
<1>0. /\ x \in Seq(Entry) /\ Len(x) = Len(es) - m
      /\ \A i \in 1..(Len(es) - m) : x[i] = es[i + m]
      /\ \A i \in 1..m : es[i].left = 0
  BY DEF Drops
<1>1. /\ es \in Seq(Entry) /\ Len(es) \in Nat /\ DOMAIN es = 1..Len(es)
      /\ \A i \in DOMAIN es : /\ es[i] \in Entry /\ es[i].left \in 0..SpendWindow
                              /\ es[i].lo \in Nat /\ es[i].hi \in Nat
  BY EntriesAre DEF Held
<1>2. /\ Len(x) \in Nat /\ DOMAIN x = 1..Len(x)
      /\ \A i \in DOMAIN x : x[i].lo \in Nat /\ x[i].hi \in Nat
  BY <1>0, EntriesAre
<1>3. \A i \in DOMAIN x : i + m \in DOMAIN es /\ x[i] = es[i + m]
  BY <1>0, <1>1, <1>2
<1>4. Booked(x) \subseteq Booked(es)
  BY <1>3 DEF Booked
<1>5. Chained(x, Len(ds))
  <2>1. ASSUME NEW i \in DOMAIN x
        PROVE  x[i].lo <= x[i].hi /\ x[i].hi + 1 = IF i = Len(x) THEN Len(ds) ELSE x[i + 1].lo
    <3>1. /\ es[i + m].lo <= es[i + m].hi
          /\ es[i + m].hi + 1 = IF i + m = Len(es) THEN Len(ds) ELSE es[(i + m) + 1].lo
      BY <1>3 DEF Held, Chained
    <3>2. i + m = Len(es) <=> i = Len(x)
      BY <1>0, <1>1, <1>2
    <3>3. i # Len(x) => i + 1 \in DOMAIN x /\ (i + 1) + m = (i + m) + 1
      BY <1>2
    <3>4. i # Len(x) => x[i + 1] = es[(i + m) + 1]
      BY <1>3, <3>3
    <3> QED
      BY <1>3, <3>1, <3>2, <3>4
  <2>2. ASSUME NEW i \in DOMAIN x, NEW j \in DOMAIN x, i < j
        PROVE  x[i].hi < x[j].lo /\ x[i].left <= x[j].left
    <3>1. i + m < j + m
      BY <1>2, <2>2
    <3> QED
      BY <1>3, <3>1 DEF Held, Chained
  <2> QED
    BY <2>1, <2>2 DEF Chained
<1>6. ASSUME NEW i \in DOMAIN x PROVE Accounts(x[i], Pruned(known, x), ds)
  <2>1. x[i] = es[i + m] /\ i + m \in DOMAIN es
    BY <1>3
  <2>2. Accounts(x[i], known, ds)
    BY <2>1 DEF Held
  <2>3. x # <<>> /\ 1 \in DOMAIN x
    BY <1>2
  <2>4. x[1].lo <= x[i].lo
    <3>1. 1 + m \in DOMAIN es /\ x[1] = es[1 + m]
      BY <1>3, <2>3
    <3>2. CASE i = 1
      BY <1>1, <3>1, <3>2
    <3>3. CASE i # 1
      <4>1. 1 < i
        BY <1>2, <3>3
      <4>2. x[1].hi < x[i].lo /\ x[1].lo <= x[1].hi
        BY <1>5, <2>3, <4>1 DEF Chained
      <4> QED
        BY <1>2, <2>3, <4>2
    <3> QED
      BY <3>2, <3>3
  <2>5. \A n \in NumbersIn(x[i]) : n >= x[1].lo
    BY <1>1, <1>3, <2>1, <2>3, <2>4 DEF NumbersIn
  <2>6. \A n \in NumbersIn(x[i]) : n \in Pruned(known, x) <=> n \in known
    BY <2>3, <2>5 DEF Pruned
  <2> QED
    BY <2>2, <2>6 DEF Accounts
<1>7. ASSUME NEW n \in 0..(Len(ds) - 1), ds[n + 1].window > 0 PROVE n \in Booked(x)
  <2>1. PICK j \in DOMAIN es : n \in NumbersIn(es[j])
    BY <1>7 DEF Held, Booked
  <2>2. ds[n + 1].window <= es[j].left
    BY <2>1 DEF Held, Accounts
  <2>3. es[j].left # 0
    <3>1. ds[n + 1].window \in 0..SpendWindow /\ es[j].left \in 0..SpendWindow
      BY <1>1, DepositsCount
    <3> QED
      BY <1>7, <2>2, <3>1
  <2>4. j - m \in DOMAIN x /\ (j - m) + m = j
    BY <1>0, <1>1, <1>2, <2>3
  <2>5. x[j - m] = es[j]
    BY <1>3, <2>4
  <2> QED
    BY <2>1, <2>4, <2>5 DEF Booked
<1> QED
  BY <1>0, <1>4, <1>5, <1>6, <1>7 DEF Held

LEMMA ExpireKeeps ==
    ASSUME NEW l, NEW ds, Books(l, ds)
    PROVE  Books(Expire(l), ds) /\ Booked(Expire(l).entries) \subseteq Booked(l.entries)
<1> DEFINE x == LiveEntries(l.entries)
           r == Pruned(l.refunded, x)
<1>1. /\ l \in Ledger /\ ds \in Seq(Deposit) /\ l.seq = Len(ds) /\ l.refunded \subseteq 0..(Len(ds) - 1)
      /\ Held(l.entries, l.refunded, ds) /\ l.entries \in Seq(Entry)
  BY DEF Books, Held
<1>2. Expire(l) = [l EXCEPT !.entries = x, !.refunded = r]
  BY DEF Expire, Pruned
<1>3. r \subseteq l.refunded
  BY DEF Pruned
<1>4. PICK m \in 0..Len(l.entries) : Drops(l.entries, m, x)
  BY <1>1, LiveAre
<1>5. Held(x, r, ds) /\ Booked(x) \subseteq Booked(l.entries) /\ x \in Seq(Entry)
  BY <1>1, <1>4, ExpireHolds DEF Held
<1> HIDE DEF x, r
<1>6. /\ Expire(l) \in Ledger /\ Expire(l).entries = x /\ Expire(l).refunded = r
      /\ Expire(l).seq = l.seq
  BY <1>1, <1>2, <1>3, <1>5 DEF Ledger
<1> QED
  BY <1>1, <1>3, <1>5, <1>6 DEF Books

\* A new reservation is the last entry.
LEMMA AppendHolds ==
    ASSUME NEW ds \in Seq(Deposit), NEW known \in SUBSET (0..(Len(ds) - 1)), NEW es,
           Held(es, known, ds), NEW d \in Deposit, d.window = SpendWindow, d.refunded = FALSE,
           NEW new, new = [left |-> SpendWindow, amount |-> d.amount, lo |-> Len(ds), hi |-> Len(ds)]
    PROVE  /\ Held(Append(es, new), known, Append(ds, d))
           /\ Booked(Append(es, new)) = Booked(es) \cup {Len(ds)}
<1> DEFINE fs == Append(ds, d)
           x  == Append(es, new)
           s  == Len(ds)
<1>1. /\ es \in Seq(Entry) /\ Len(es) \in Nat /\ DOMAIN es = 1..Len(es) /\ Chained(es, s)
      /\ \A i \in DOMAIN es : /\ es[i] \in Entry /\ es[i].left \in 0..SpendWindow
                              /\ es[i].lo \in Nat /\ es[i].hi \in Nat
  BY EntriesAre DEF Held
<1>2. s \in Nat /\ DOMAIN ds = 1..s
  BY DepositsCount
<1>3. /\ fs \in Seq(Deposit) /\ Len(fs) = s + 1 /\ fs[s + 1] = d
      /\ \A n \in 0..(s - 1) : fs[n + 1] = ds[n + 1]
  <2>1. /\ fs \in Seq(Deposit) /\ Len(fs) = s + 1 /\ fs[s + 1] = d
        /\ \A i \in 1..s : fs[i] = ds[i]
    BY AppendProperties
  <2>2. \A n \in 0..(s - 1) : n + 1 \in 1..s
    BY <1>2
  <2> HIDE DEF fs
  <2> QED
    BY <2>1, <2>2
<1>4. new \in Entry /\ NumbersIn(new) = {s} /\ new.left = SpendWindow
  BY <1>2, LedgerAssumption DEF Entry, NumbersIn, Deposit
<1>5. /\ x \in Seq(Entry) /\ Len(x) = Len(es) + 1 /\ x[Len(es) + 1] = new
      /\ \A i \in 1..Len(es) : x[i] = es[i]
  BY <1>1, <1>4, AppendProperties
<1>6. new.lo = s /\ new.hi = s /\ new.amount = d.amount
  OBVIOUS
<1> HIDE DEF fs, x
<1>7. /\ DOMAIN x = 1..(Len(es) + 1)
      /\ \A i \in DOMAIN x : (i \in DOMAIN es /\ x[i] = es[i]) \/ (i = Len(es) + 1 /\ x[i] = new)
  <2>1. DOMAIN x = 1..Len(x)
    BY <1>5, EntriesAre
  <2> QED
    BY <1>1, <1>5, <2>1
<1>8. \A i \in DOMAIN es : /\ es[i].hi < s /\ NumbersIn(es[i]) \subseteq 0..(s - 1)
  BY <1>1, <1>2, ChainApart
<1> HIDE DEF s
<1>9. Chained(x, s + 1)
  <2>1. ASSUME NEW i \in DOMAIN x
        PROVE  x[i].lo <= x[i].hi /\ x[i].hi + 1 = IF i = Len(x) THEN s + 1 ELSE x[i + 1].lo
    <3>1. CASE i = Len(es) + 1
      BY <1>2, <1>5, <1>6, <3>1
    <3>2. CASE i = Len(es)
      <4>1. i \in DOMAIN es /\ x[i] = es[i] /\ x[i + 1] = new /\ i # Len(x)
        <5>1. i \in DOMAIN es
          BY <1>1, <1>7, <3>2
        <5>2. x[i] = es[i] /\ x[i + 1] = new
          BY <1>1, <1>5, <3>2, <5>1
        <5>3. Len(es) \in Nat /\ Len(x) = Len(es) + 1
          BY <1>1, <1>5
        <5>4. i # Len(x)
          BY <3>2, <5>3
        <5> QED
          BY <5>1, <5>2, <5>4
      <4> QED
        BY <1>1, <1>6, <3>2, <4>1 DEF Chained
    <3>3. CASE i \in 1..(Len(es) - 1)
      <4>1. i \in DOMAIN es /\ x[i] = es[i] /\ x[i + 1] = es[i + 1] /\ i # Len(x) /\ i # Len(es)
        BY <1>1, <1>5, <3>3
      <4> QED
        BY <1>1, <4>1 DEF Chained
    <3> QED
      BY <1>1, <1>7, <3>1, <3>2, <3>3
  <2>2. ASSUME NEW i \in DOMAIN x, NEW j \in DOMAIN x, i < j
        PROVE  x[i].hi < x[j].lo /\ x[i].left <= x[j].left
    <3>1. i \in DOMAIN es /\ x[i] = es[i]
      BY <1>1, <1>7, <2>2
    <3>2. CASE j \in DOMAIN es
      <4>1. x[j] = es[j]
        BY <1>1, <1>5, <3>2
      <4> QED
        BY <1>1, <2>2, <3>1, <3>2, <4>1 DEF Chained
    <3>3. CASE x[j] = new
      <4>1. x[i].left \in 0..SpendWindow /\ x[j].left = SpendWindow
        BY <1>1, <1>4, <3>1, <3>3
      <4>2. x[i].hi < s
        BY <1>8, <3>1
      <4> QED
        BY <1>6, <3>3, <4>1, <4>2, LedgerAssumption
    <3> QED
      BY <1>7, <3>2, <3>3
  <2> QED
    BY <2>1, <2>2 DEF Chained
<1>10. ASSUME NEW i \in DOMAIN x PROVE Accounts(x[i], known, fs)
  <2>1. CASE i \in DOMAIN es /\ x[i] = es[i]
    <3>1. Accounts(es[i], known, ds) /\ es[i] \in Entry /\ es[i].hi < s /\ NumbersIn(es[i]) \subseteq 0..(s - 1)
      BY <1>1, <1>8, <2>1 DEF Held
    <3>2. \A n \in NumbersIn(es[i]) : fs[n + 1] = ds[n + 1] /\ ds[n + 1].window <= es[i].left
      BY <1>3, <3>1 DEF Accounts
    <3>3. es[i].hi < Len(ds) /\ es[i].hi < Len(fs)
      BY <1>1, <1>2, <1>3, <2>1, <3>1 DEF s
    <3>4. Accounts(es[i], known, fs)
      BY <1>3, <3>1, <3>2, <3>3, AccountsAgree
    <3> QED
      BY <2>1, <3>4
  <2>2. CASE x[i] = new
    <3>1. s \notin known
      BY <1>2 DEF s
    <3>2. Unrefunded(fs, {s}) = {s} /\ d.window <= new.left
      BY <1>3, <1>4, LedgerAssumption DEF Unrefunded
    <3>3. s \in 0..(Len(fs) - 1) /\ Units(fs)[s] = d.amount /\ d.amount \in Nat
      <4>1. s \in 0..(Len(fs) - 1)
        BY <1>2, <1>3
      <4> QED
        BY <1>3, <4>1, DepositsCount
    <3>4. Total(Units(fs), {s}) = d.amount
      <4>1. IsFiniteSet({s}) /\ s \in {s} /\ {s} \ {s} = {} /\ \A t \in {s} : Units(fs)[t] \in Nat
        BY <3>3, FS_Singleton
      <4>2. Total(Units(fs), {s}) = Units(fs)[s] + Total(Units(fs), {})
        BY <4>1, TotalAdd
      <4> QED
        BY <3>3, <4>2, TotalOfNone
    <3>5. \A n \in NumbersIn(new) : fs[n + 1] = d /\ n \notin known
      BY <1>3, <1>4, <3>1
    <3>6. Accounts(new, known, fs)
      BY <1>4, <1>6, <3>2, <3>4, <3>5 DEF Accounts
    <3> QED
      BY <2>2, <3>6
  <2> QED
    BY <1>7, <2>1, <2>2
<1>11. Booked(x) = Booked(es) \cup {s}
  <2>1. \A n : n \in Booked(x) => n \in Booked(es) \/ n = s
    BY <1>4, <1>7 DEF Booked
  <2>2. \A n \in Booked(es) : n \in Booked(x)
    <3>1. \A i \in DOMAIN es : i \in DOMAIN x /\ x[i] = es[i]
      BY <1>1, <1>5, <1>7
    <3> QED
      BY <3>1 DEF Booked
  <2>3. s \in Booked(x)
    <3>1. Len(es) + 1 \in DOMAIN x
      BY <1>1, <1>7
    <3> QED
      BY <1>4, <1>5, <3>1 DEF Booked
  <2> QED
    BY <2>1, <2>2, <2>3
<1>12. ASSUME NEW n \in 0..(Len(fs) - 1), fs[n + 1].window > 0 PROVE n \in Booked(x)
  <2>1. n = s \/ n \in 0..(s - 1)
    BY <1>2, <1>3
  <2>2. CASE n \in 0..(s - 1)
    <3>1. ds[n + 1].window > 0
      BY <1>3, <1>12, <2>2
    <3> QED
      BY <1>11, <2>2, <3>1 DEF Held, s
  <2> QED
    BY <1>11, <2>1, <2>2
<1> QED
  BY <1>3, <1>5, <1>9, <1>10, <1>11, <1>12 DEF Held, s, fs, x

\* The two oldest made one.
Folded(es) == <<Fold(es[1], es[2])>> \o SubSeq(es, 3, Len(es))

LEMMA FoldMakes ==
    ASSUME NEW es \in Seq(Entry), NEW next \in Nat, Chained(es, next), Len(es) > 1,
           NEW x, x = Folded(es)
    PROVE  /\ x \in Seq(Entry) /\ Len(x) = Len(es) - 1
           /\ \A i \in 2..Len(x) : x[i] = es[i + 1]
           /\ x[1] = Fold(es[1], es[2])
           /\ x[1].lo = es[1].lo /\ x[1].hi = es[2].hi /\ x[1].left = es[2].left
           /\ x[1].amount = es[2].amount + es[1].amount
<1> DEFINE f == Fold(es[1], es[2])
           rest == SubSeq(es, 3, Len(es))
<1>1. /\ Len(es) \in Nat /\ DOMAIN es = 1..Len(es) /\ 1 \in DOMAIN es /\ 2 \in DOMAIN es
      /\ \A i \in 1..Len(es) : /\ es[i] \in Entry /\ es[i].left \in 0..SpendWindow
                               /\ es[i].amount \in Nat /\ es[i].lo \in Nat /\ es[i].hi \in Nat
  BY EntriesAre
<1>2. es[1].lo <= es[1].hi /\ es[1].hi < es[2].lo /\ es[2].lo <= es[2].hi
  <2>1. 1 \in DOMAIN es /\ 2 \in DOMAIN es /\ 1 < 2
    BY <1>1
  <2>2. \A i \in DOMAIN es : es[i].lo <= es[i].hi
    BY DEF Chained
  <2>3. \A i, j \in DOMAIN es : i < j => es[i].hi < es[j].lo
    BY DEF Chained
  <2> QED
    BY <2>1, <2>2, <2>3
<1>3. Min({es[1].lo, es[2].lo}) = es[1].lo /\ Max({es[1].hi, es[2].hi}) = es[2].hi
  <2>1. {es[1].lo, es[2].lo} \subseteq Nat /\ es[1].lo < es[2].lo /\ es[1].hi < es[2].hi
    BY <1>1, <1>2
  <2>2. Min({es[1].lo, es[2].lo}) \in {es[1].lo, es[2].lo} /\ Min({es[1].lo, es[2].lo}) <= es[1].lo
    BY <2>1, MinIsLeast
  <2>3. Max({es[1].hi, es[2].hi}) \in {es[1].hi, es[2].hi} /\ Max({es[1].hi, es[2].hi}) >= es[2].hi
    <3>1. es[1].hi \in Int /\ es[2].hi \in Int
      BY <1>1
    <3> QED
      BY <3>1, MaxOfTwo
  <2> QED
    BY <1>1, <2>1, <2>2, <2>3
<1>4. f = [left |-> es[2].left, amount |-> es[2].amount + es[1].amount,
           lo |-> es[1].lo, hi |-> es[2].hi]
  BY <1>3 DEF Fold
<1>5. /\ f \in Entry /\ f.lo = es[1].lo /\ f.hi = es[2].hi /\ f.left = es[2].left
      /\ f.amount = es[2].amount + es[1].amount
  BY <1>1, <1>4 DEF Entry
<1>6. /\ rest \in Seq(Entry) /\ Len(rest) = Len(es) - 2
      /\ \A i \in 1..(Len(es) - 2) : rest[i] = es[i + 2]
  <2>1. /\ rest \in Seq(Entry) /\ Len(rest) = IF 3 <= Len(es) THEN Len(es) - 3 + 1 ELSE 0
        /\ \A i \in 1..(Len(es) - 3 + 1) : rest[i] = es[3 + i - 1]
    <3>1. 3 \in Int /\ Len(es) \in Int /\ \A i \in 3..Len(es) : es[i] \in Entry
      BY <1>1
    <3> QED
      BY <3>1, SubSeqProperties
  <2> HIDE DEF rest
  <2>2. Len(rest) = Len(es) - 2
    <3>1. CASE Len(es) = 2
      BY <2>1, <3>1
    <3>2. CASE Len(es) >= 3
      BY <1>1, <2>1, <3>2
    <3>3. PICK k \in Nat : k = Len(es) /\ k > 1
      BY <1>1
    <3>4. k = 2 \/ k >= 3
      BY <3>3
    <3> QED
      BY <3>1, <3>2, <3>3, <3>4
  <2>3. \A i \in 1..(Len(es) - 2) : i \in 1..(Len(es) - 3 + 1) /\ 3 + i - 1 = i + 2
    BY <1>1
  <2> QED
    BY <2>1, <2>2, <2>3
<1> HIDE DEF f, rest
<1>7. /\ <<f>> \in Seq(Entry) /\ Len(<<f>>) = 1 /\ <<f>>[1] = f
  BY <1>5
<1>8. /\ x \in Seq(Entry) /\ Len(x) = 1 + Len(rest)
      /\ \A i \in 1..(1 + Len(rest)) : x[i] = IF i <= 1 THEN <<f>>[i] ELSE rest[i - 1]
  <2>1. x = <<f>> \o rest
    BY DEF Folded, f, rest
  <2> QED
    BY <1>6, <1>7, <2>1, ConcatProperties
<1>9. Len(x) = Len(es) - 1 /\ x[1] = f
  BY <1>1, <1>6, <1>7, <1>8
<1>10. ASSUME NEW i \in 2..Len(x) PROVE x[i] = es[i + 1]
  <2>1. i \in 1..(1 + Len(rest)) /\ ~(i <= 1) /\ i - 1 \in 1..(Len(es) - 2) /\ (i - 1) + 2 = i + 1
    BY <1>1, <1>6, <1>8
  <2> QED
    BY <1>6, <1>8, <2>1
<1> QED
  BY <1>5, <1>8, <1>9, <1>10 DEF f

LEMMA FoldHolds ==
    ASSUME NEW ds \in Seq(Deposit), NEW known, NEW es, Held(es, known, ds), Len(es) > 1
    PROVE  Held(Folded(es), known, ds) /\ Booked(Folded(es)) = Booked(es)
<1> DEFINE x == Folded(es)
           s == Len(ds)
           a == NumbersIn(es[1])
           b == NumbersIn(es[2])
<1>1. /\ es \in Seq(Entry) /\ Len(es) \in Nat /\ DOMAIN es = 1..Len(es) /\ Chained(es, s) /\ s \in Nat
      /\ \A i \in DOMAIN es : /\ es[i] \in Entry /\ es[i].left \in 0..SpendWindow
                              /\ es[i].lo \in Nat /\ es[i].hi \in Nat /\ es[i].amount \in Nat
  BY EntriesAre, DepositsCount DEF Held
<1>2. /\ x \in Seq(Entry) /\ Len(x) = Len(es) - 1
      /\ \A i \in 2..Len(x) : x[i] = es[i + 1]
      /\ x[1].lo = es[1].lo /\ x[1].hi = es[2].hi /\ x[1].left = es[2].left
      /\ x[1].amount = es[2].amount + es[1].amount
  BY <1>1, FoldMakes
<1> HIDE DEF x
<1>3. /\ DOMAIN x = 1..Len(x) /\ 1 \in DOMAIN es /\ 2 \in DOMAIN es /\ 1 \in DOMAIN x
      /\ \A i \in DOMAIN x : i + 1 \in DOMAIN es
  BY <1>1, <1>2, EntriesAre
<1>4. /\ es[1].lo <= es[1].hi /\ es[1].hi + 1 = es[2].lo /\ es[2].lo <= es[2].hi
      /\ es[1].left <= es[2].left
  BY <1>1, <1>3 DEF Chained
<1>5. NumbersIn(x[1]) = a \cup b /\ a \cap b = {}
  <2>1. es[1].lo \in Nat /\ es[1].hi \in Nat /\ es[2].lo \in Nat /\ es[2].hi \in Nat
    BY <1>1, <1>3
  <2>2. NumbersIn(x[1]) = es[1].lo..es[2].hi /\ a = es[1].lo..es[1].hi /\ b = es[2].lo..es[2].hi
    BY <1>2 DEF NumbersIn
  <2>3. es[1].lo..es[2].hi = (es[1].lo..es[1].hi) \cup (es[2].lo..es[2].hi)
    BY <1>4, <2>1
  <2>4. (es[1].lo..es[1].hi) \cap (es[2].lo..es[2].hi) = {}
    BY <1>4, <2>1
  <2> HIDE DEF a, b
  <2> QED
    BY <2>2, <2>3, <2>4
<1>6. \A i \in DOMAIN x : /\ x[i].hi = es[i + 1].hi /\ x[i].left = es[i + 1].left
                          /\ i # 1 => x[i] = es[i + 1]
  BY <1>2, <1>3
<1>7. Chained(x, s)
  <2>1. ASSUME NEW i \in DOMAIN x
        PROVE  x[i].lo <= x[i].hi /\ x[i].hi + 1 = IF i = Len(x) THEN s ELSE x[i + 1].lo
    <3>1. x[i].lo <= x[i].hi
      <4>1. CASE i = 1
        <5>1. es[1].lo \in Nat /\ es[1].hi \in Nat /\ es[2].lo \in Nat /\ es[2].hi \in Nat
          BY <1>1, <1>3
        <5> QED
          BY <1>2, <1>4, <4>1, <5>1
      <4>2. CASE i # 1
        BY <1>1, <1>3, <1>6, <4>2 DEF Chained
      <4> QED
        BY <4>1, <4>2
    <3>2. es[i + 1].hi + 1 = IF i + 1 = Len(es) THEN s ELSE es[(i + 1) + 1].lo
      BY <1>1, <1>3 DEF Chained
    <3>3. i = Len(x) <=> i + 1 = Len(es)
      BY <1>1, <1>2, <1>3
    <3>4. i # Len(x) => x[i + 1] = es[(i + 1) + 1]
      BY <1>2, <1>3
    <3> QED
      BY <1>6, <3>1, <3>2, <3>3, <3>4
  <2>2. ASSUME NEW i \in DOMAIN x, NEW j \in DOMAIN x, i < j
        PROVE  x[i].hi < x[j].lo /\ x[i].left <= x[j].left
    <3>1. i + 1 < j + 1 /\ j # 1 /\ i + 1 \in DOMAIN es /\ j + 1 \in DOMAIN es
      BY <1>3, <2>2
    <3>2. es[i + 1].hi < es[j + 1].lo /\ es[i + 1].left <= es[j + 1].left
      BY <1>1, <3>1 DEF Chained
    <3> QED
      BY <1>6, <3>1, <3>2
  <2> QED
    BY <2>1, <2>2 DEF Chained
<1>8. Accounts(x[1], known, ds)
  <2>1. Accounts(es[1], known, ds) /\ Accounts(es[2], known, ds)
    BY <1>3 DEF Held
  <2>2. a \in SUBSET (0..(s - 1)) /\ b \in SUBSET (0..(s - 1))
    BY <1>1, <1>3, ChainApart
  <2>3. \A n \in a \cup b : n \in 0..(s - 1) /\ ds[n + 1].window \in 0..SpendWindow
    BY <2>2, DepositsCount
  <2>4. ASSUME NEW n \in NumbersIn(x[1])
        PROVE  ds[n + 1].window <= x[1].left /\ (n \in known <=> ds[n + 1].refunded)
    <3>1. ds[n + 1].window \in 0..SpendWindow /\ es[1].left \in 0..SpendWindow
          /\ es[2].left \in 0..SpendWindow
      BY <1>1, <1>3, <1>5, <2>3
    <3>2. CASE n \in a
      <4>1. ds[n + 1].window <= es[1].left /\ (n \in known <=> ds[n + 1].refunded)
        BY <2>1, <3>2 DEF Accounts
      <4> QED
        BY <1>2, <1>4, <3>1, <4>1
    <3>3. CASE n \in b
      BY <1>2, <2>1, <3>3 DEF Accounts
    <3> QED
      BY <1>5, <2>4, <3>2, <3>3
  <2> DEFINE ua == Unrefunded(ds, a)
             ub == Unrefunded(ds, b)
  <2>5. /\ Unrefunded(ds, a \cup b) = ua \cup ub /\ ua \cap ub = {}
        /\ ua \in SUBSET (0..(s - 1)) /\ ub \in SUBSET (0..(s - 1))
    BY <1>5, <2>2 DEF Unrefunded
  <2>6. es[1].amount = Total(Units(ds), ua) /\ es[2].amount = Total(Units(ds), ub)
    BY <2>1 DEF Accounts
  <2> HIDE DEF ua, ub
  <2>7. IsFiniteSet(ua) /\ IsFiniteSet(ub) /\ \A n \in ua \cup ub : Units(ds)[n] \in Nat
    BY <2>5, UnitsAdd, DepositsCount
  <2>8. Total(Units(ds), ua \cup ub) = Total(Units(ds), ua) + Total(Units(ds), ub)
    BY <2>5, <2>7, TotalAddsSet
  <2>9. x[1].amount = Total(Units(ds), Unrefunded(ds, NumbersIn(x[1])))
    <3>1. es[1].amount \in Nat /\ es[2].amount \in Nat
      BY <1>1, <1>3
    <3>2. x[1].amount = Total(Units(ds), ua \cup ub)
      BY <1>2, <2>6, <2>8, <3>1
    <3> QED
      BY <1>5, <2>5, <3>2
  <2> QED
    BY <2>4, <2>9 DEF Accounts
<1>9. ASSUME NEW i \in DOMAIN x PROVE Accounts(x[i], known, ds)
  <2>1. i # 1 => x[i] = es[i + 1] /\ i + 1 \in DOMAIN es
    BY <1>3, <1>6
  <2> QED
    BY <1>8, <2>1 DEF Held
<1>10. Booked(x) = Booked(es)
  <2>1. ASSUME NEW n \in Booked(x) PROVE n \in Booked(es)
    <3>1. PICK i \in DOMAIN x : n \in NumbersIn(x[i])
      BY DEF Booked
    <3>2. CASE i = 1
      BY <1>3, <1>5, <3>1, <3>2 DEF Booked
    <3>3. CASE i # 1
      BY <1>3, <1>6, <3>1, <3>3 DEF Booked
    <3> QED
      BY <3>2, <3>3
  <2>2. ASSUME NEW n \in Booked(es) PROVE n \in Booked(x)
    <3>1. PICK i \in DOMAIN es : n \in NumbersIn(es[i])
      BY DEF Booked
    <3>2. CASE i \in {1, 2}
      BY <1>3, <1>5, <3>1, <3>2 DEF Booked
    <3>3. CASE i \notin {1, 2}
      <4>1. i - 1 \in DOMAIN x /\ i - 1 # 1 /\ (i - 1) + 1 = i
        BY <1>1, <1>2, <1>3, <3>3
      <4>2. x[i - 1] = es[i]
        BY <1>6, <4>1
      <4> QED
        BY <3>1, <4>1, <4>2 DEF Booked
    <3> QED
      BY <3>2, <3>3
  <2> QED
    BY <2>1, <2>2
<1> QED
  BY <1>2, <1>7, <1>9, <1>10 DEF Held, x

LEMMA CommitKeeps ==
    ASSUME NEW l, NEW ds, Books(l, ds),
           NEW d \in Deposit, d.window = SpendWindow, d.refunded = FALSE
    PROVE  /\ Books(Commit(l, d.amount), Append(ds, d))
           /\ Booked(Commit(l, d.amount).entries) = Booked(l.entries) \cup {l.seq}
<1> DEFINE new == [left |-> SpendWindow, amount |-> d.amount, lo |-> Len(ds), hi |-> Len(ds)]
           all == Append(l.entries, new)
           x == IF Len(all) <= LedgerCapacity THEN all
                ELSE IF Len(all) = 1 THEN <<>> ELSE Folded(all)
           fs == Append(ds, d)
           t == Len(ds) + 1
<1>1. /\ l \in Ledger /\ ds \in Seq(Deposit) /\ l.seq = Len(ds) /\ Len(ds) \in Nat
      /\ l.refunded \in SUBSET (0..(Len(ds) - 1))
      /\ Held(l.entries, l.refunded, ds)
  BY DepositsCount DEF Books
<1>2. Commit(l, d.amount) = [l EXCEPT !.seq = t, !.entries = x]
  <2>1. l.seq = Len(ds)
    BY <1>1
  <2> QED
    BY <2>1 DEF Commit, Folded
<1>3. Held(all, l.refunded, fs) /\ Booked(all) = Booked(l.entries) \cup {Len(ds)}
  BY <1>1, AppendHolds
<1>4. fs \in Seq(Deposit) /\ Len(fs) = t
  BY <1>1, AppendProperties
<1> HIDE DEF new, fs, all
<1>5. Held(x, l.refunded, fs) /\ Booked(x) = Booked(all)
  <2>1. Len(all) \in Nat
    BY <1>3, EntriesAre DEF Held
  <2>2. CASE Len(all) <= LedgerCapacity
    BY <1>3, <2>2
  <2>3. CASE ~(Len(all) <= LedgerCapacity)
    <3>1. Len(all) > 1 /\ Len(all) # 1
      <4>1. PICK k \in Nat : k = Len(all)
        BY <2>1
      <4>2. k > 1 /\ k # 1
        <5>1. LedgerCapacity \in Nat /\ LedgerCapacity # 0 /\ ~(k <= LedgerCapacity)
          BY <2>3, <4>1, LedgerAssumption
        <5> QED
          BY <5>1
      <4> QED
        BY <4>1, <4>2
    <3>3. x = Folded(all)
      BY <2>3, <3>1, Zenon
    <3> QED
      BY <1>3, <1>4, <3>1, <3>3, FoldHolds
  <2> QED
    BY <2>2, <2>3
<1> HIDE DEF x
<1>6. t \in Nat /\ x \in Seq(Entry)
  BY <1>1, <1>5 DEF Held
<1>7. l.refunded \subseteq 0..(t - 1)
  BY <1>1
<1> HIDE DEF t
<1>8. /\ Commit(l, d.amount) \in Ledger /\ Commit(l, d.amount).entries = x
      /\ Commit(l, d.amount).refunded = l.refunded /\ Commit(l, d.amount).seq = t
  BY <1>1, <1>2, <1>6 DEF Ledger
<1> QED
  BY <1>1, <1>3, <1>4, <1>5, <1>7, <1>8 DEF Books, fs

-----------------------------------------------------------------------------
\* Entries rewritten in place keep their ranges and their order.
LEMMA RangesKept ==
    ASSUME NEW es \in Seq(Entry), NEW next, Chained(es, next), NEW x \in Seq(Entry), Len(x) = Len(es),
           \A i \in DOMAIN es : x[i].lo = es[i].lo /\ x[i].hi = es[i].hi,
           \A i, j \in DOMAIN es : es[i].left <= es[j].left => x[i].left <= x[j].left
    PROVE  Chained(x, next) /\ Booked(x) = Booked(es)
<1>1. /\ DOMAIN x = DOMAIN es /\ DOMAIN es = 1..Len(es) /\ Len(es) \in Nat
      /\ \A i \in DOMAIN es : NumbersIn(x[i]) = NumbersIn(es[i])
  BY EntriesAre DEF NumbersIn
<1>2. \A i \in DOMAIN es : i # Len(es) => i + 1 \in DOMAIN es
  BY <1>1
<1>3. Chained(x, next)
  <2>1. ASSUME NEW i \in DOMAIN es
        PROVE  x[i].lo <= x[i].hi /\ x[i].hi + 1 = IF i = Len(x) THEN next ELSE x[i + 1].lo
    <3>1. es[i].lo <= es[i].hi /\ es[i].hi + 1 = IF i = Len(es) THEN next ELSE es[i + 1].lo
      BY DEF Chained
    <3> QED
      BY <1>2, <3>1
  <2>2. \A i, j \in DOMAIN es : i < j => es[i].hi < es[j].lo /\ es[i].left <= es[j].left
    BY DEF Chained
  <2> QED
    BY <1>1, <2>1, <2>2 DEF Chained
<1>4. Booked(x) = Booked(es)
  BY <1>1 DEF Booked
<1> QED
  BY <1>3, <1>4

\* The deposits' answers are no business of the ledger's.
LEMMA AgreeKeeps ==
    ASSUME NEW l, NEW ds, Books(l, ds), NEW fs \in Seq(Deposit), Len(fs) = Len(ds),
           \A n \in 0..(Len(ds) - 1) : /\ fs[n + 1].amount = ds[n + 1].amount
                                       /\ fs[n + 1].refunded = ds[n + 1].refunded
                                       /\ fs[n + 1].window = ds[n + 1].window
    PROVE  Books(l, fs)
<1> DEFINE es == l.entries
           known == l.refunded
<1>1. /\ ds \in Seq(Deposit) /\ Held(es, known, ds) /\ es \in Seq(Entry) /\ Len(ds) \in Nat
      /\ Chained(es, Len(ds))
      /\ \A i \in DOMAIN es : es[i] \in Entry
  BY EntriesAre, DepositsCount DEF Books, Held
<1> HIDE DEF es, known
<1>2. ASSUME NEW i \in DOMAIN es PROVE Accounts(es[i], known, fs)
  <2>1. es[i].hi < Len(ds) /\ NumbersIn(es[i]) \subseteq 0..(Len(ds) - 1)
    BY <1>1, ChainApart
  <2>2. Accounts(es[i], known, ds) /\ es[i] \in Entry
    BY <1>1 DEF Held
  <2>3. \A n \in NumbersIn(es[i]) :
           /\ fs[n + 1].amount = ds[n + 1].amount /\ fs[n + 1].refunded = ds[n + 1].refunded
           /\ fs[n + 1].window <= es[i].left
    BY <2>1, <2>2 DEF Accounts
  <2> QED
    BY <1>1, <2>1, <2>2, <2>3, AccountsAgree
<1>3. Held(es, known, fs)
  BY <1>1, <1>2 DEF Held
<1> QED
  BY <1>3 DEF Books, es, known

\* Reservations age with their entries.
LEMMA AgeKeeps ==
    ASSUME NEW l, NEW ds, Books(l, ds), NEW fs \in Seq(Deposit), Len(fs) = Len(ds),
           \A n \in 0..(Len(ds) - 1) : /\ fs[n + 1].amount = ds[n + 1].amount
                                       /\ fs[n + 1].refunded = ds[n + 1].refunded
                                       /\ fs[n + 1].window = Down(ds[n + 1].window)
    PROVE  Books(AgeLedger(l), fs) /\ Booked(AgeLedger(l).entries) = Booked(l.entries)
<1> DEFINE es == l.entries
           known == l.refunded
           x == [i \in DOMAIN es |-> Aged(es[i])]
<1>1. /\ l \in Ledger /\ ds \in Seq(Deposit) /\ l.seq = Len(ds) /\ Len(ds) \in Nat
      /\ known \subseteq 0..(Len(ds) - 1) /\ Held(es, known, ds)
      /\ es \in Seq(Entry) /\ Chained(es, Len(ds))
      /\ Len(es) \in Nat /\ DOMAIN es = 1..Len(es)
      /\ \A i \in DOMAIN es : /\ es[i] \in Entry /\ es[i].left \in 0..SpendWindow
  BY EntriesAre, DepositsCount DEF Books, Held
<1>2. AgeLedger(l) = [l EXCEPT !.entries = x]
  BY DEF AgeLedger
<1> HIDE DEF es, known
<1>3. ASSUME NEW i \in DOMAIN es
      PROVE  /\ x[i] \in Entry /\ x[i].lo = es[i].lo /\ x[i].hi = es[i].hi
             /\ x[i].amount = es[i].amount /\ x[i].left = Down(es[i].left)
  <2> DEFINE e == es[i]
             v == IF e.left > 0 THEN e.left - 1 ELSE 0
  <2>1. e \in Entry /\ v \in 0..SpendWindow /\ v = Down(e.left)
    <3>1. e \in Entry /\ e.left \in 0..SpendWindow
      BY <1>1
    <3> HIDE DEF e
    <3> QED
      BY <3>1, LedgerAssumption DEF Down
  <2>2. x[i] = [e EXCEPT !.left = v]
    BY DEF Aged
  <2> HIDE DEF e, v, x
  <2> QED
    BY <2>1, <2>2 DEF Entry, e
<1>4. x \in Seq(Entry) /\ Len(x) = Len(es)
  <2>1. x \in [1..Len(es) -> Entry]
    BY <1>1, <1>3
  <2> HIDE DEF x
  <2>2. x \in Seq(Entry)
    BY <1>1, <2>1, SeqDef
  <2> QED
    BY <1>1, <2>1, <2>2, LenProperties
<1> HIDE DEF x
<1>5. Chained(x, Len(ds)) /\ Booked(x) = Booked(es)
  <2>1. \A i, j \in DOMAIN es : es[i].left <= es[j].left => x[i].left <= x[j].left
    BY <1>1, <1>3 DEF Down
  <2> QED
    BY <1>1, <1>3, <1>4, <2>1, RangesKept
<1>6. ASSUME NEW i \in DOMAIN es PROVE Accounts(x[i], known, fs)
  <2>1. es[i].hi < Len(ds) /\ NumbersIn(es[i]) \subseteq 0..(Len(ds) - 1)
    BY <1>1, ChainApart
  <2>2. Accounts(es[i], known, ds) /\ es[i] \in Entry
    BY <1>1 DEF Held
  <2>3. ASSUME NEW n \in NumbersIn(es[i])
        PROVE  /\ fs[n + 1].amount = ds[n + 1].amount /\ fs[n + 1].refunded = ds[n + 1].refunded
               /\ fs[n + 1].window <= x[i].left
    <3>1. /\ ds[n + 1].window \in 0..SpendWindow /\ es[i].left \in 0..SpendWindow
          /\ ds[n + 1].window <= es[i].left /\ n \in 0..(Len(ds) - 1)
      BY <1>1, <2>1, <2>2, DepositsCount DEF Accounts
    <3>2. fs[n + 1].window = Down(ds[n + 1].window) /\ x[i].left = Down(es[i].left)
      BY <1>3, <3>1
    <3>3. Down(ds[n + 1].window) <= Down(es[i].left)
      BY <3>1 DEF Down
    <3> QED
      BY <3>1, <3>2, <3>3
  <2>4. /\ x[i] \in Entry /\ x[i].lo = es[i].lo /\ x[i].hi = es[i].hi
        /\ x[i].amount = es[i].amount
    BY <1>3
  <2>5. es[i].hi < Len(fs)
    BY <2>1
  <2>6. \A n \in NumbersIn(es[i]) :
           /\ n \in known <=> n \in known
           /\ fs[n + 1].amount = ds[n + 1].amount /\ fs[n + 1].refunded = ds[n + 1].refunded
           /\ fs[n + 1].window <= x[i].left
    BY <2>3
  <2>7. ds \in Seq(Deposit)
    BY <1>1
  <2> HIDE DEF x
  <2> QED
    BY <2>1, <2>2, <2>4, <2>5, <2>6, <2>7, AccountsAgree
<1>7. ASSUME NEW n \in 0..(Len(ds) - 1), fs[n + 1].window > 0 PROVE n \in Booked(x)
  <2>1. ds[n + 1].window > 0
    BY <1>1, <1>7, DepositsCount DEF Down
  <2> QED
    BY <1>1, <1>5, <2>1 DEF Held
<1>8. Held(x, known, fs)
  <2>1. DOMAIN x = DOMAIN es
    BY <1>1, <1>4, EntriesAre
  <2> QED
    BY <1>4, <1>5, <1>6, <1>7, <2>1 DEF Held
<1>9. /\ AgeLedger(l) \in Ledger /\ AgeLedger(l).entries = x /\ AgeLedger(l).refunded = known
      /\ AgeLedger(l).seq = l.seq
  BY <1>1, <1>2, <1>4 DEF Ledger, known
<1> QED
  BY <1>1, <1>5, <1>8, <1>9 DEF Books, es

\* The deposits with one refunded.
RefundedAt(ds, k, fs) ==
    /\ fs \in Seq(Deposit) /\ Len(fs) = Len(ds) /\ fs[k + 1].refunded = TRUE
    /\ \A n \in 0..(Len(ds) - 1) : /\ fs[n + 1].amount = ds[n + 1].amount
                                   /\ n # k => fs[n + 1].refunded = ds[n + 1].refunded
                                   /\ fs[n + 1].window = ds[n + 1].window

\* A refund comes out of the deposit's own reservation, or out of none.
LEMMA ReleaseKeeps ==
    ASSUME NEW l, NEW ds, Books(l, ds), NEW k \in 0..(Len(ds) - 1),
           NEW fs, RefundedAt(ds, k, fs), NEW amount, amount = ds[k + 1].amount
    PROVE  Books(Release(l, k, amount), fs) /\ Booked(Release(l, k, amount).entries) = Booked(l.entries)
<1> DEFINE es == l.entries
           known == l.refunded
           seen == known \cup {k}
           x == [i \in DOMAIN es |-> IF Answers(es[i], k) THEN Lessened(es[i], amount) ELSE es[i]]
<1>0. /\ fs \in Seq(Deposit) /\ Len(fs) = Len(ds) /\ fs[k + 1].refunded = TRUE
      /\ \A n \in 0..(Len(ds) - 1) : /\ fs[n + 1].amount = ds[n + 1].amount
                                     /\ n # k => fs[n + 1].refunded = ds[n + 1].refunded
                                     /\ fs[n + 1].window = ds[n + 1].window
  BY DEF RefundedAt
<1>1. /\ l \in Ledger /\ ds \in Seq(Deposit) /\ l.seq = Len(ds) /\ Len(ds) \in Nat
      /\ known \subseteq 0..(Len(ds) - 1) /\ Held(es, known, ds)
      /\ es \in Seq(Entry) /\ Chained(es, Len(ds))
      /\ Len(es) \in Nat /\ DOMAIN es = 1..Len(es)
      /\ \A i \in DOMAIN es : /\ es[i] \in Entry /\ es[i].left \in 0..SpendWindow
  BY EntriesAre, DepositsCount DEF Books, Held
<1>2. Release(l, k, amount) = IF k \in known THEN l ELSE [l EXCEPT !.refunded = seen, !.entries = x]
  BY DEF Release
<1> HIDE DEF es, known, seen
<1>3. ASSUME NEW i \in DOMAIN es
      PROVE  /\ es[i].hi < Len(ds) /\ NumbersIn(es[i]) \subseteq 0..(Len(ds) - 1)
             /\ Accounts(es[i], known, ds) /\ es[i] \in Entry
             /\ \A n \in NumbersIn(es[i]) : fs[n + 1].window <= es[i].left
             /\ \A n \in NumbersIn(es[i]) : n \in known <=> ds[n + 1].refunded
  <2>1. es[i].hi < Len(ds) /\ NumbersIn(es[i]) \subseteq 0..(Len(ds) - 1)
    BY <1>1, ChainApart
  <2>2. Accounts(es[i], known, ds) /\ es[i] \in Entry
    BY <1>1 DEF Held
  <2> QED
    BY <1>0, <2>1, <2>2 DEF Accounts
<1>4. \A n \in 0..(Len(ds) - 1) : fs[n + 1].window > 0 => n \in Booked(es)
  BY <1>0, <1>1 DEF Held
<1>5. ASSUME NEW i \in DOMAIN es, k \notin NumbersIn(es[i]) \/ k \in known, NEW later,
             \A n \in NumbersIn(es[i]) : n \in later <=> n \in known
      PROVE  Accounts(es[i], later, fs)
  <2>1. ASSUME NEW n \in NumbersIn(es[i]) PROVE fs[n + 1].refunded = ds[n + 1].refunded
    <3>1. CASE n = k
      <4>1. ds[k + 1].refunded \in BOOLEAN /\ ds[k + 1].refunded
        BY <1>1, <1>3, <1>5, <3>1, DepositsCount DEF Deposit
      <4> QED
        BY <1>0, <3>1, <4>1
    <3>2. CASE n # k
      BY <1>0, <1>3, <3>2
    <3> QED
      BY <3>1, <3>2
  <2>2. \A n \in NumbersIn(es[i]) :
           /\ n \in later <=> n \in known
           /\ fs[n + 1].amount = ds[n + 1].amount /\ fs[n + 1].refunded = ds[n + 1].refunded
           /\ fs[n + 1].window <= es[i].left
    BY <1>0, <1>3, <1>5, <2>1
  <2>3. /\ es[i].hi < Len(ds) /\ es[i].hi < Len(fs) /\ es[i] \in Entry
        /\ Accounts(es[i], known, ds) /\ ds \in Seq(Deposit) /\ fs \in Seq(Deposit)
    BY <1>0, <1>1, <1>3
  <2> QED
    BY <2>2, <2>3, AccountsAgree
<1>6. CASE k \in known
  <2>1. \A i \in DOMAIN es : Accounts(es[i], known, fs)
    BY <1>5, <1>6
  <2>2. Held(es, known, fs)
    BY <1>0, <1>1, <1>4, <2>1 DEF Held
  <2>3. Release(l, k, amount) = l
    BY <1>2, <1>6
  <2> QED
    BY <1>0, <1>1, <2>2, <2>3 DEF Books, es, known
<1>7. CASE k \notin known
  <2>1. ASSUME NEW i \in DOMAIN es
        PROVE  /\ x[i] \in Entry /\ x[i].lo = es[i].lo /\ x[i].hi = es[i].hi /\ x[i].left = es[i].left
               /\ Accounts(x[i], seen, fs)
    <3>1. CASE k \notin NumbersIn(es[i])
      <4>1. x[i] = es[i]
        BY <3>1 DEF Answers, NumbersIn
      <4>2. \A n \in NumbersIn(es[i]) : n \in seen <=> n \in known
        BY <3>1 DEF seen
      <4>3. Accounts(es[i], seen, fs)
        BY <1>5, <3>1, <4>2
      <4> QED
        BY <1>3, <4>1, <4>3
    <3>2. CASE k \in NumbersIn(es[i])
      <4> DEFINE ns == NumbersIn(es[i])
                 us == Unrefunded(ds, ns)
                 e == es[i]
                 v == e.amount - amount
      <4>1. x[i] = [e EXCEPT !.amount = v]
        BY <3>2 DEF Answers, NumbersIn, Lessened
      <4>2. k \in us /\ us \in SUBSET (0..(Len(ds) - 1)) /\ Unrefunded(fs, ns) = us \ {k}
        <5>1. ns \subseteq 0..(Len(ds) - 1) /\ k \in ns /\ ~ ds[k + 1].refunded
          BY <1>3, <1>7, <3>2
        <5> QED
          BY <1>0, <5>1 DEF Unrefunded
      <4>3. e.amount = Total(Units(ds), us) /\ Units(ds)[k] = amount /\ amount \in Nat
        BY <1>1, <1>3, DepositsCount DEF Accounts
      <4>4. \A n \in ns : /\ n \in seen <=> fs[n + 1].refunded
                          /\ fs[n + 1].window <= e.left
        BY <1>0, <1>3 DEF seen
      <4>5. \A n \in us \ {k} : Units(fs)[n] = Units(ds)[n]
        BY <1>0, <1>1, <4>2, DepositsCount
      <4> HIDE DEF us
      <4>6. /\ Total(Units(ds), us) = amount + Total(Units(ds), us \ {k})
            /\ Total(Units(ds), us \ {k}) \in Nat /\ IsFiniteSet(us \ {k})
        <5>1. IsFiniteSet(us) /\ \A n \in us : Units(ds)[n] \in Nat
          BY <1>1, <4>2, UnitsAdd, DepositsCount
        <5>2. us \ {k} \in SUBSET (0..(Len(ds) - 1))
          BY <4>2
        <5>3. Total(Units(ds), us) = Units(ds)[k] + Total(Units(ds), us \ {k})
          <6>1. \A t \in us : Total(Units(ds), us) = Units(ds)[t] + Total(Units(ds), us \ {t})
            BY <5>1, TotalAdd
          <6> QED
            BY <4>2, <6>1
        <5>4. Total(Units(ds), us \ {k}) \in Nat /\ IsFiniteSet(us \ {k})
          BY <1>1, <5>2, UnitsAdd
        <5> QED
          BY <4>3, <5>3, <5>4
      <4>7. v = Total(Units(fs), us \ {k}) /\ v \in Nat
        <5>1. Total(Units(fs), us \ {k}) = Total(Units(ds), us \ {k})
          BY <4>5, <4>6, TotalDepends
        <5> QED
          BY <4>3, <4>6, <5>1
      <4>8. e \in Entry
        BY <1>3
      <4> HIDE DEF v, x, e
      <4>9. /\ x[i] \in Entry /\ x[i].lo = e.lo /\ x[i].hi = e.hi /\ x[i].left = e.left
            /\ x[i].amount = v
        BY <4>1, <4>7, <4>8 DEF Entry
      <4>10. NumbersIn(x[i]) = ns
        BY <4>9 DEF NumbersIn, e
      <4> HIDE DEF ns
      <4>11. Accounts(x[i], seen, fs)
        BY <4>2, <4>4, <4>7, <4>9, <4>10 DEF Accounts
      <4> QED
        BY <4>9, <4>11 DEF e
    <3> QED
      BY <3>1, <3>2
  <2>2. x \in Seq(Entry) /\ Len(x) = Len(es)
    <3>1. x \in [1..Len(es) -> Entry]
      BY <1>1, <2>1
    <3> HIDE DEF x
    <3>2. x \in Seq(Entry)
      BY <1>1, <3>1, SeqDef
    <3> QED
      BY <1>1, <3>1, <3>2, LenProperties
  <2> HIDE DEF x
  <2>3. Chained(x, Len(ds)) /\ Booked(x) = Booked(es)
    BY <1>1, <2>1, <2>2, RangesKept
  <2>4. Held(x, seen, fs)
    <3>1. DOMAIN x = DOMAIN es
      BY <1>1, <2>2, EntriesAre
    <3> QED
      BY <1>0, <1>4, <2>1, <2>2, <2>3, <3>1 DEF Held
  <2>5. seen \subseteq 0..(Len(ds) - 1) /\ seen \subseteq Nat
    BY <1>1 DEF seen
  <2>6. /\ Release(l, k, amount) \in Ledger /\ Release(l, k, amount).entries = x
        /\ Release(l, k, amount).refunded = seen /\ Release(l, k, amount).seq = l.seq
    BY <1>1, <1>2, <1>7, <2>2, <2>5 DEF Ledger
  <2> QED
    BY <1>0, <1>1, <2>3, <2>4, <2>5, <2>6 DEF Books, es
<1> QED
  BY <1>6, <1>7

-----------------------------------------------------------------------------
(***************************************************************************)
(* What the window has committed, and what that says of the deposits.      *)
(***************************************************************************)

\* The model's sums over entries and over deposits are totals.
LEMMA CommittedIsTotal ==
    ASSUME NEW l
    PROVE  Committed(l) = Total([i \in DOMAIN l.entries |-> l.entries[i].amount], DOMAIN l.entries)
<1> DEFINE es == l.entries
           ns == DOMAIN es
           w == [i \in ns |-> es[i].amount]
           Partial(f) == f = [s \in SUBSET ns |-> IF s = {} THEN 0
                                                ELSE es[OneOf(s)].amount + f[s \ {OneOf(s)}]]
<1>1. Committed(l) = (CHOOSE f : Partial(f))[ns]
  BY DEF Committed, MapThenSumSet, MapThenFoldSet, OneOf
<1>2. \A f : Partial(f) <=> Sums(f, w, ns)
  <2>1. ASSUME NEW s \in SUBSET ns, s # {} PROVE w[OneOf(s)] = es[OneOf(s)].amount
    <3>1. OneOf(s) \in ns
      BY <2>1 DEF OneOf
    <3> QED
      BY <3>1
  <2> HIDE DEF w, ns
  <2> QED
    BY <2>1 DEF Sums
<1> HIDE DEF Partial, w, ns
<1>3. (CHOOSE f : Partial(f)) = (CHOOSE f : Sums(f, w, ns))
  BY <1>2
<1>4. Total(w, ns) = (CHOOSE f : Sums(f, w, ns))[ns]
  BY TotalChoose
<1> QED
  BY <1>1, <1>3, <1>4 DEF w, ns

\* The same of a sum over the deposits of a state.
SumIn(ds, ns) == MapThenSumSet(LAMBDA n : ds[n + 1].amount, ns)

LEMMA SumInIsTotal ==
    ASSUME NEW ds \in Seq(Deposit), NEW ns \in SUBSET (0..(Len(ds) - 1))
    PROVE  SumIn(ds, ns) = Total(Units(ds), ns)
<1> DEFINE w == Units(ds)
           Partial(f) == f = [s \in SUBSET ns |-> IF s = {} THEN 0
                                            ELSE ds[OneOf(s) + 1].amount + f[s \ {OneOf(s)}]]
<1>1. SumIn(ds, ns) = (CHOOSE f : Partial(f))[ns]
  BY DEF SumIn, MapThenSumSet, MapThenFoldSet, OneOf
<1>2. \A f : Partial(f) <=> Sums(f, w, ns)
  <2>1. ASSUME NEW s \in SUBSET ns, s # {} PROVE w[OneOf(s)] = ds[OneOf(s) + 1].amount
    <3>1. OneOf(s) \in ns
      BY <2>1 DEF OneOf
    <3> QED
      BY <3>1, DepositsCount
  <2> HIDE DEF w
  <2> QED
    BY <2>1 DEF Sums
<1> HIDE DEF Partial, w
<1>3. (CHOOSE f : Partial(f)) = (CHOOSE f : Sums(f, w, ns))
  BY <1>2
<1>4. Total(w, ns) = (CHOOSE f : Sums(f, w, ns))[ns]
  BY TotalChoose
<1> QED
  BY <1>1, <1>3, <1>4 DEF w

\* The entries together hold what is booked and not refunded.
LEMMA CommittedIs ==
    ASSUME NEW l, NEW ds, Books(l, ds)
    PROVE  /\ Committed(l) = Total(Units(ds), Unrefunded(ds, Booked(l.entries)))
           /\ Booked(l.entries) \subseteq 0..(Len(ds) - 1)
<1> DEFINE es == l.entries
           n == Len(es)
           w == [i \in 1..n |-> es[i].amount]
           u == Units(ds)
           Before(k) == UNION {NumbersIn(es[i]) : i \in 1..k}
           S == {k \in 0..n : Total(w, 1..k) = Total(u, Unrefunded(ds, Before(k)))}
<1>1. /\ ds \in Seq(Deposit) /\ Held(es, l.refunded, ds) /\ es \in Seq(Entry) /\ Len(ds) \in Nat
      /\ Chained(es, Len(ds)) /\ n \in Nat /\ DOMAIN es = 1..n
      /\ \A i \in 1..n : es[i].amount \in Nat
  BY EntriesAre, DepositsCount DEF Books, Held
<1> HIDE DEF es
<1>2. /\ \A i \in 1..n : NumbersIn(es[i]) \subseteq 0..(Len(ds) - 1)
      /\ \A i, j \in 1..n : i # j => NumbersIn(es[i]) \cap NumbersIn(es[j]) = {}
      /\ Booked(es) \subseteq 0..(Len(ds) - 1)
  BY <1>1, ChainApart
<1>3. \A i \in 1..n : es[i].amount = Total(u, Unrefunded(ds, NumbersIn(es[i])))
  BY <1>1 DEF Held, Accounts
<1>4. \A ns \in SUBSET (0..(Len(ds) - 1)) :
         /\ Unrefunded(ds, ns) \in SUBSET (0..(Len(ds) - 1))
         /\ IsFiniteSet(Unrefunded(ds, ns)) /\ \A t \in Unrefunded(ds, ns) : u[t] \in Nat
  <2>1. \A ns \in SUBSET (0..(Len(ds) - 1)) : Unrefunded(ds, ns) \in SUBSET (0..(Len(ds) - 1))
    BY DEF Unrefunded
  <2> QED
    BY <1>1, <2>1, UnitsAdd, DepositsCount
<1> HIDE DEF n, u
<1>5. 0 \in S
  <2>1. 1..0 = {} /\ Before(0) = {}
    OBVIOUS
  <2>2. Unrefunded(ds, Before(0)) = {}
    BY <2>1 DEF Unrefunded
  <2> HIDE DEF w, Before
  <2>3. Total(w, 1..0) = Total(u, Unrefunded(ds, Before(0)))
    BY <2>1, <2>2, TotalOfNone
  <2> QED
    BY <1>1, <2>3
<1>6. ASSUME NEW k \in 1..n, k - 1 \in S PROVE k \in S
  <2> DEFINE r == Before(k - 1)
             a == NumbersIn(es[k])
  <2>1. /\ 1..k = (1..(k - 1)) \cup {k} /\ k \notin 1..(k - 1) /\ IsFiniteSet(1..(k - 1))
        /\ \A t \in (1..(k - 1)) \cup {k} : w[t] \in Nat
    <3>1. 1 \in Int /\ k - 1 \in Int
      BY <1>1
    <3>2. IsFiniteSet(1..(k - 1))
      BY <3>1, FS_Interval
    <3> QED
      BY <1>1, <3>2
  <2>2. w[k] = es[k].amount
    OBVIOUS
  <2>3. Before(k) = r \cup a
    <3>1. 1..k = (1..(k - 1)) \cup {k}
      BY <2>1
    <3> QED
      BY <3>1
  <2>4. /\ r \in SUBSET (0..(Len(ds) - 1)) /\ a \in SUBSET (0..(Len(ds) - 1)) /\ r \cap a = {}
    <3>1. \A i \in 1..(k - 1) : i \in 1..n /\ i # k
      BY <1>1
    <3>2. \A i \in 1..(k - 1) : /\ NumbersIn(es[i]) \subseteq 0..(Len(ds) - 1)
                                /\ NumbersIn(es[i]) \cap NumbersIn(es[k]) = {}
      BY <1>2, <3>1
    <3> QED
      BY <1>2, <3>2
  <2> HIDE DEF w, r, a, Before
  <2>5. Total(w, 1..k) = w[k] + Total(w, 1..(k - 1))
    BY <2>1, TotalAddsOne
  <2>6. Total(w, 1..(k - 1)) = Total(u, Unrefunded(ds, r))
    BY <1>6 DEF r
  <2>7. /\ Unrefunded(ds, r \cup a) = Unrefunded(ds, r) \cup Unrefunded(ds, a)
        /\ Unrefunded(ds, r) \cap Unrefunded(ds, a) = {}
    BY <2>4 DEF Unrefunded
  <2>8. /\ IsFiniteSet(Unrefunded(ds, r)) /\ IsFiniteSet(Unrefunded(ds, a))
        /\ \A t \in Unrefunded(ds, r) \cup Unrefunded(ds, a) : u[t] \in Nat
    BY <1>4, <2>4
  <2>9. Total(u, Unrefunded(ds, r) \cup Unrefunded(ds, a))
          = Total(u, Unrefunded(ds, r)) + Total(u, Unrefunded(ds, a))
    BY <2>7, <2>8, TotalAddsSet
  <2>10. Total(u, Unrefunded(ds, r)) \in Nat /\ Total(u, Unrefunded(ds, a)) \in Nat
    BY <2>8, TotalAdd
  <2>11. w[k] = Total(u, Unrefunded(ds, a))
    BY <1>3, <2>2 DEF a
  <2>12. Total(w, 1..k) = Total(u, Unrefunded(ds, Before(k)))
    <3>1. Total(w, 1..k) = Total(u, Unrefunded(ds, a)) + Total(u, Unrefunded(ds, r))
      BY <2>5, <2>6, <2>11
    <3>2. Unrefunded(ds, Before(k)) = Unrefunded(ds, r) \cup Unrefunded(ds, a)
      BY <2>3, <2>7
    <3> QED
      BY <2>9, <2>10, <3>1, <3>2
  <2> QED
    BY <1>1, <2>12
<1>7. Before(n) = Booked(es)
  BY <1>1 DEF Booked
<1> HIDE DEF S, w, Before
<1>8. n \in S
  <2>1. 0..n \subseteq S
    BY <1>1, <1>5, <1>6, Upto
  <2> QED
    BY <1>1, <2>1
<1>9. Total(w, 1..n) = Total(u, Unrefunded(ds, Booked(es)))
  BY <1>7, <1>8 DEF S
<1>10. Committed(l) = Total(w, 1..n)
  BY <1>1, CommittedIsTotal DEF w, es
<1> QED
  BY <1>2, <1>9, <1>10 DEF u, es

\* What no longer counts, or was refunded, is no longer committed.
LEMMA CommittedFalls ==
    ASSUME NEW l, NEW ds, Books(l, ds), NEW m, NEW fs, Books(m, fs), Len(fs) = Len(ds),
           \A n \in 0..(Len(ds) - 1) : /\ fs[n + 1].amount = ds[n + 1].amount
                                       /\ ds[n + 1].refunded => fs[n + 1].refunded,
           Booked(m.entries) \subseteq Booked(l.entries)
    PROVE  Committed(m) \in Nat /\ Committed(l) \in Nat /\ Committed(m) <= Committed(l)
<1> DEFINE a == Unrefunded(fs, Booked(m.entries))
           b == Unrefunded(ds, Booked(l.entries))
<1>1. ds \in Seq(Deposit) /\ fs \in Seq(Deposit)
  BY DEF Books
<1>2. /\ Committed(l) = Total(Units(ds), b) /\ Committed(m) = Total(Units(fs), a)
      /\ Booked(l.entries) \subseteq 0..(Len(ds) - 1)
  BY CommittedIs
<1>3. a \subseteq b /\ b \in SUBSET (0..(Len(ds) - 1)) /\ a \in SUBSET (0..(Len(ds) - 1))
  BY <1>2 DEF Unrefunded
<1> HIDE DEF a, b
<1>4. Total(Units(fs), a) = Total(Units(ds), a)
  <2>1. \A n \in a : Units(fs)[n] = Units(ds)[n]
    BY <1>1, <1>3, DepositsCount
  <2>2. IsFiniteSet(a)
    BY <1>1, <1>3, UnitsAdd
  <2> QED
    BY <2>1, <2>2, TotalDepends
<1>5. /\ Total(Units(ds), a) \in Nat /\ Total(Units(ds), b) \in Nat
      /\ Total(Units(ds), a) <= Total(Units(ds), b)
  BY <1>1, <1>3, UnitsAdd
<1> QED
  BY <1>2, <1>4, <1>5

\* A new reservation commits its amount.
LEMMA CommittedGrows ==
    ASSUME NEW l, NEW ds, Books(l, ds), NEW m, NEW d \in Deposit, d.refunded = FALSE,
           Books(m, Append(ds, d)), Booked(m.entries) = Booked(l.entries) \cup {Len(ds)}
    PROVE  Committed(l) \in Nat /\ Committed(m) = Committed(l) + d.amount
<1> DEFINE fs == Append(ds, d)
           s == Len(ds)
           b == Unrefunded(ds, Booked(l.entries))
<1>1. /\ ds \in Seq(Deposit) /\ s \in Nat
  BY DepositsCount DEF Books
<1>2. /\ fs \in Seq(Deposit) /\ Len(fs) = s + 1 /\ fs[s + 1] = d
      /\ \A n \in 0..(s - 1) : fs[n + 1] = ds[n + 1]
  <2>1. /\ fs \in Seq(Deposit) /\ Len(fs) = s + 1 /\ fs[s + 1] = d
        /\ \A i \in 1..s : fs[i] = ds[i]
    BY <1>1, AppendProperties
  <2>2. \A n \in 0..(s - 1) : n + 1 \in 1..s
    BY <1>1
  <2> HIDE DEF fs
  <2> QED
    BY <2>1, <2>2
<1>3. /\ Committed(l) = Total(Units(ds), b) /\ Booked(l.entries) \subseteq 0..(s - 1)
      /\ Committed(m) = Total(Units(fs), Unrefunded(fs, Booked(m.entries)))
  BY CommittedIs
<1> HIDE DEF fs
<1>4. Unrefunded(fs, Booked(m.entries)) = b \cup {s}
  BY <1>2, <1>3 DEF Unrefunded, s
<1>5. b \in SUBSET (0..(s - 1))
  BY <1>3 DEF Unrefunded
<1> HIDE DEF b
<1>6. /\ IsFiniteSet(b) /\ Total(Units(ds), b) \in Nat
      /\ \A n \in b : Units(ds)[n] = Units(fs)[n]
  <2>1. IsFiniteSet(b) /\ Total(Units(ds), b) \in Nat
    BY <1>1, <1>5, UnitsAdd DEF s
  <2>2. ASSUME NEW n \in b PROVE Units(ds)[n] = Units(fs)[n]
    <3>1. n \in 0..(s - 1) /\ n \in 0..(Len(fs) - 1)
      BY <1>1, <1>2, <1>5
    <3>2. Units(ds)[n] = ds[n + 1].amount /\ Units(fs)[n] = fs[n + 1].amount
      BY <1>1, <1>2, <3>1, DepositsCount DEF s
    <3> QED
      BY <1>2, <3>1, <3>2
  <2> QED
    BY <2>1, <2>2
<1>7. s \notin b /\ \A n \in b \cup {s} : Units(fs)[n] \in Nat
  <2>1. \A n \in b \cup {s} : n \in 0..(Len(fs) - 1)
    BY <1>1, <1>2, <1>5
  <2> QED
    BY <1>1, <1>2, <1>5, <2>1, DepositsCount
<1>8. Units(fs)[s] = d.amount
  <2>1. s \in 0..(Len(fs) - 1)
    BY <1>1, <1>2
  <2> QED
    BY <1>2, <2>1, DepositsCount
<1>9. Total(Units(fs), b \cup {s}) = Units(fs)[s] + Total(Units(fs), b)
  BY <1>6, <1>7, TotalAddsOne
<1>10. Total(Units(fs), b) = Total(Units(ds), b)
  BY <1>6, TotalDepends
<1>11. d.amount \in Nat
  BY DEF Deposit
<1>12. Committed(m) = Units(fs)[s] + Total(Units(ds), b)
  BY <1>3, <1>4, <1>9, <1>10
<1>13. Committed(l) = Total(Units(ds), b) /\ Committed(l) \in Nat
  BY <1>3, <1>6
<1> QED
  BY <1>8, <1>11, <1>12, <1>13

-----------------------------------------------------------------------------
(***************************************************************************)
(* The books and the limit are kept by every step.                         *)
(***************************************************************************)
LimitIs(l, h) == MaxSpend # 0 => Committed(l) + (IF h = NoEvent THEN 0 ELSE h.amount) <= MaxSpend

\* A step that takes on nothing more.
LEMMA NothingMore ==
    ASSUME CachesTyped, Books(ledger, deposits), LimitIs(ledger, handling),
           Books(ledger', deposits'), Len(deposits') = Len(deposits),
           \A n \in 0..(Len(deposits) - 1) :
              /\ deposits'[n + 1].amount = deposits[n + 1].amount
              /\ deposits[n + 1].refunded => deposits'[n + 1].refunded,
           Booked(ledger'.entries) \subseteq Booked(ledger.entries),
           handling' \in {handling, NoEvent}
    PROVE  LimitIs(ledger', handling')
<1> DEFINE before == IF handling = NoEvent THEN 0 ELSE handling.amount
           after  == IF handling' = NoEvent THEN 0 ELSE handling'.amount
<1>1. /\ Committed(ledger') \in Nat /\ Committed(ledger) \in Nat
      /\ Committed(ledger') <= Committed(ledger)
  BY CommittedFalls
<1>2. before \in Nat /\ after \in Nat /\ after <= before
  BY DepositAssumption DEF CachesTyped
<1>3. MaxSpend # 0 => Committed(ledger) + before <= MaxSpend
  BY DEF LimitIs
<1> HIDE DEF before, after
<1>4. MaxSpend # 0 => Committed(ledger') + after <= MaxSpend
  BY <1>1, <1>2, <1>3, DepositAssumption
<1> QED
  BY <1>4 DEF LimitIs, after

\* A step that leaves the ledger and the deposits alone.
LEMMA LedgerStays ==
    ASSUME CachesTyped, Books(ledger, deposits), LimitIs(ledger, handling),
           UNCHANGED <<ledger, deposits>>, handling' \in {handling, NoEvent}
    PROVE  Books(ledger', deposits') /\ LimitIs(ledger', handling')
  BY NothingMore

LEMMA LedgerStep ==
    ASSUME RefundInv, RefundInv', Books(ledger, deposits), LimitIs(ledger, handling), [Next]_vars
    PROVE  Books(ledger', deposits') /\ LimitIs(ledger', handling')
<1> DEFINE Kept == Books(ledger', deposits') /\ LimitIs(ledger', handling')
<1>1. /\ Numbered /\ Parts /\ CachesTyped /\ deposits \in Seq(Deposit) /\ deposits' \in Seq(Deposit)
      /\ ledger'.seq = Len(deposits') /\ ledger.seq = Len(deposits)
      /\ Len(deposits) \in Nat /\ DOMAIN deposits = 1..Len(deposits)
      /\ \A n \in 0..(Len(deposits) - 1) : n + 1 \in DOMAIN deposits
  BY DepositsCount DEF RefundInv, Numbered
<1>2. ASSUME NEW e \in Event, Check(e) PROVE Kept
  <2>1. /\ ledger' = Allowance /\ handling' = (IF OverSpend(e.amount) THEN NoEvent ELSE e)
        /\ handling = NoEvent /\ deposits' = deposits
    BY <1>2 DEF Check
  <2>2. CASE MaxSpend = 0
    BY <2>1, <2>2 DEF Allowance, LimitIs
  <2>3. CASE MaxSpend # 0
    <3>1. /\ Books(ledger', deposits') /\ Booked(ledger'.entries) \subseteq Booked(ledger.entries)
          /\ ledger' = Expire(ledger)
      BY <2>1, <2>3, ExpireKeeps DEF Allowance
    <3>2. CASE OverSpend(e.amount)
      BY <1>1, <2>1, <3>1, <3>2, NothingMore
    <3>3. CASE ~ OverSpend(e.amount)
      <4>1. /\ Committed(ledger') \in Nat /\ e.amount \in Nat /\ handling' = e
            /\ ~ (Committed(ledger') + e.amount > MaxSpend)
        <5>1. Committed(ledger') \in Nat
          BY <2>1, <3>1, CommittedFalls
        <5> QED
          BY <2>1, <2>3, <3>3, <5>1, DepositAssumption DEF OverSpend
      <4>2. e # NoEvent
        BY DepositAssumption DEF NoEvent
      <4> QED
        BY <3>1, <4>1, <4>2, DepositAssumption DEF LimitIs
    <3> QED
      BY <3>2, <3>3
  <2> QED
    BY <2>2, <2>3
<1>3. ASSUME Admit PROVE Kept
  <2> DEFINE d == [id |-> handling.id, dest |-> handling.dest, amount |-> handling.amount,
                   window |-> SpendWindow, answer |-> "none", moved |-> FALSE, refunded |-> FALSE]
  <2>1. handling \in Event /\ handling # NoEvent /\ handling.amount \in Nat
        /\ handling.id \in Id /\ handling.dest \in Dest
    BY <1>1, <1>3, DepositAssumption DEF Admit, CachesTyped, Id, Dest
  <2>2. d \in Deposit /\ d.amount = handling.amount /\ d.window = SpendWindow /\ d.refunded = FALSE
    BY <2>1, LedgerAssumption DEF Deposit
  <2>3. ledger' = Commit(ledger, d.amount) /\ deposits' = Append(deposits, d) /\ handling' = NoEvent
    BY <1>3 DEF Admit
  <2> HIDE DEF d
  <2>4. Books(ledger', deposits') /\ Booked(ledger'.entries) = Booked(ledger.entries) \cup {Len(deposits)}
    BY <1>1, <2>2, <2>3, CommitKeeps
  <2>5. Committed(ledger) \in Nat /\ Committed(ledger') = Committed(ledger) + d.amount
    BY <2>2, <2>3, <2>4, CommittedGrows
  <2>6. MaxSpend # 0 => Committed(ledger) + handling.amount <= MaxSpend
    BY <2>1 DEF LimitIs
  <2>7. MaxSpend # 0 => Committed(ledger') + 0 <= MaxSpend
    BY <2>1, <2>2, <2>5, <2>6
  <2> QED
    BY <2>3, <2>4, <2>7 DEF LimitIs
<1>4. ASSUME NEW f \in flushes, PoolAnswers(f) PROVE Kept
  <2>1. PICK outcome \in [f.items -> Outcome], moved \in SUBSET f.items,
             echo \in {{}} \cup {{id} : id \in Id} :
           deposits' = [i \in DOMAIN deposits |->
              IF i - 1 \in f.items
              THEN [deposits[i] EXCEPT !.answer = outcome[i - 1], !.moved = i - 1 \in moved]
              ELSE deposits[i]]
    BY <1>4 DEF PoolAnswers
  <2>2. ledger' = ledger /\ handling' = handling
    BY <1>4 DEF PoolAnswers
  <2>3. ASSUME NEW n \in 0..(Len(deposits) - 1)
        PROVE  /\ deposits'[n + 1].amount = deposits[n + 1].amount
               /\ deposits'[n + 1].refunded = deposits[n + 1].refunded
               /\ deposits'[n + 1].window = deposits[n + 1].window
    <3> DEFINE e == deposits[n + 1]
               v == [e EXCEPT !.answer = outcome[(n + 1) - 1], !.moved = (n + 1) - 1 \in moved]
    <3>1. v.amount = e.amount /\ v.refunded = e.refunded /\ v.window = e.window
      <4>1. e \in Deposit
        BY <1>1, DepositsCount
      <4> HIDE DEF e
      <4> QED
        BY <4>1 DEF Deposit
    <3>2. deposits'[n + 1] = v \/ deposits'[n + 1] = e
      <4>1. n + 1 \in DOMAIN deposits
        BY <1>1
      <4> QED
        BY <2>1, <4>1
    <3> HIDE DEF v
    <3> QED
      BY <3>1, <3>2
  <2>4. Len(deposits') = Len(deposits)
    BY <1>1, <2>2
  <2>5. Books(ledger', deposits')
    BY <1>1, <2>2, <2>3, <2>4, AgreeKeeps
  <2> QED
    BY <1>1, <2>2, <2>3, <2>4, <2>5, NothingMore
<1>5. ASSUME NEW f \in flushes, Refund(f) PROVE Kept
  <2>1. CASE UNCHANGED <<ledger, deposits>>
    BY <1>1, <1>5, <2>1, LedgerStays DEF Refund
  <2>2. ASSUME NEW k \in f.refunds, ledger' = Release(ledger, k, D(k).amount),
               deposits' = [deposits EXCEPT ![k + 1].refunded = TRUE]
        PROVE  Kept
    <3>0. PICK amount : amount = deposits[k + 1].amount
      OBVIOUS
    <3>1. k \in 0..(Len(deposits) - 1) /\ k + 1 \in DOMAIN deposits /\ deposits[k + 1] \in Deposit
      <4>1. k \in Admitted
        BY <1>1 DEF Parts, FlushesTyped
      <4> QED
        BY <1>1, <4>1, DepositsCount DEF Admitted
    <3>2. ledger' = Release(ledger, k, amount)
      BY <2>2, <3>0 DEF D
    <3> DEFINE v == [deposits[k + 1] EXCEPT !.refunded = TRUE]
    <3>3. v.amount = amount /\ v.refunded = TRUE /\ v.window = deposits[k + 1].window
      BY <3>0, <3>1 DEF Deposit
    <3>4. deposits' = [deposits EXCEPT ![k + 1] = v]
      BY <2>2
    <3> HIDE DEF v
    <3>5. /\ deposits'[k + 1] = v
          /\ \A n \in 0..(Len(deposits) - 1) : n # k => deposits'[n + 1] = deposits[n + 1]
          /\ DOMAIN deposits' = DOMAIN deposits
      BY <1>1, <3>1, <3>4
    <3>6. Len(deposits') = Len(deposits)
      <4>1. Len(deposits') \in Nat /\ 1..Len(deposits') = 1..Len(deposits)
        BY <1>1, <3>5, DepositsCount
      <4> QED
        BY <1>1, <4>1
    <3>7. deposits'[k + 1].refunded = TRUE
      BY <3>3, <3>5
    <3>8. \A n \in 0..(Len(deposits) - 1) :
             /\ deposits'[n + 1].amount = deposits[n + 1].amount
             /\ n # k => deposits'[n + 1].refunded = deposits[n + 1].refunded
             /\ deposits'[n + 1].window = deposits[n + 1].window
      BY <3>0, <3>3, <3>5
    <3>9. \A n \in 0..(Len(deposits) - 1) : deposits[n + 1].refunded => deposits'[n + 1].refunded
      BY <3>7, <3>8
    <3>10. /\ Books(Release(ledger, k, amount), deposits')
           /\ Booked(Release(ledger, k, amount).entries) = Booked(ledger.entries)
      <4>1. RefundedAt(deposits, k, deposits')
        BY <1>1, <3>6, <3>7, <3>8 DEF RefundedAt
      <4> QED
        BY <3>0, <3>1, <4>1, ReleaseKeeps
    <3>11. handling' = handling
      BY <1>5 DEF Refund
    <3>12. Books(ledger', deposits') /\ Booked(ledger'.entries) \subseteq Booked(ledger.entries)
      BY <3>2, <3>10
    <3> QED
      BY <1>1, <3>6, <3>8, <3>9, <3>11, <3>12, NothingMore
  <2>3. \/ UNCHANGED <<ledger, deposits>>
        \/ \E k \in f.refunds : /\ ledger' = Release(ledger, k, D(k).amount)
                                /\ deposits' = [deposits EXCEPT ![k + 1].refunded = TRUE]
    BY <1>5, Zenon DEF Refund
  <2> QED
    BY <2>1, <2>2, <2>3
<1>6. ASSUME Tick PROVE Kept
  <2>1. /\ ledger' = AgeLedger(ledger) /\ handling' = handling
        /\ deposits' = [i \in DOMAIN deposits |-> [deposits[i] EXCEPT !.window = Down(@)]]
    BY <1>6 DEF Tick
  <2>2. ASSUME NEW n \in 0..(Len(deposits) - 1)
        PROVE  /\ deposits'[n + 1].amount = deposits[n + 1].amount
               /\ deposits'[n + 1].refunded = deposits[n + 1].refunded
               /\ deposits'[n + 1].window = Down(deposits[n + 1].window)
    <3> DEFINE e == deposits[n + 1]
               w == Down(e.window)
               v == [e EXCEPT !.window = w]
    <3>1. e \in Deposit
      BY <1>1, DepositsCount
    <3>2. deposits'[n + 1] = v
      BY <1>1, <2>1
    <3> HIDE DEF e, w
    <3>3. v.amount = e.amount /\ v.refunded = e.refunded /\ v.window = w
      BY <3>1 DEF Deposit
    <3> HIDE DEF v
    <3> QED
      BY <3>2, <3>3 DEF e, w
  <2>3. Len(deposits') = Len(deposits)
    <3>1. DOMAIN deposits' = DOMAIN deposits
      BY <2>1
    <3>2. Len(deposits') \in Nat /\ 1..Len(deposits') = 1..Len(deposits)
      BY <1>1, <3>1, DepositsCount
    <3> QED
      BY <1>1, <3>2
  <2>4. Books(ledger', deposits') /\ Booked(ledger'.entries) \subseteq Booked(ledger.entries)
    BY <1>1, <2>1, <2>2, <2>3, AgeKeeps
  <2> QED
    BY <1>1, <2>1, <2>2, <2>3, <2>4, NothingMore
<1>7. ASSUME NEW f \in flushes, Record(f) \/ Free(f) PROVE Kept
  BY <1>1, <1>7, LedgerStays DEF Record, Free
<1>8. ASSUME NEW d \in Dest, Evict(d) PROVE Kept
  BY <1>1, <1>8, LedgerStays DEF Evict
<1>9. ASSUME Skip \/ FlushDeposits \/ UNCHANGED vars PROVE Kept
  BY <1>1, <1>9, LedgerStays DEF Skip, FlushDeposits, vars
<1> QED
  BY <1>2, <1>3, <1>4, <1>5, <1>6, <1>7, <1>8, <1>9 DEF Next

LEMMA LimitStart == Init => Books(ledger, deposits) /\ LimitIs(ledger, handling)
<1> SUFFICES ASSUME Init PROVE Books(ledger, deposits) /\ LimitIs(ledger, handling)
  OBVIOUS
<1>1. ledger = [entries |-> <<>>, seq |-> 0, refunded |-> {}] /\ deposits = <<>> /\ handling = NoEvent
  BY DEF Init, EmptyLedger
<1>2. /\ ledger \in Ledger /\ deposits \in Seq(Deposit) /\ Len(deposits) = 0 /\ Len(ledger.entries) = 0
      /\ ledger.seq = 0 /\ ledger.refunded = {} /\ ledger.entries \in Seq(Entry)
      /\ DOMAIN ledger.entries = {}
  BY <1>1 DEF Ledger
<1>3. Books(ledger, deposits)
  BY <1>2 DEF Books, Held, Chained
<1>4. Committed(ledger) = 0
  BY <1>2, CommittedIsTotal, TotalOfNone
<1> QED
  BY <1>1, <1>3, <1>4, DepositAssumption DEF LimitIs

LimitInv == RefundInv /\ Books(ledger, deposits) /\ LimitIs(ledger, handling)

LEMMA LimitInvariant == Spec => []LimitInv
<1>1. Init => LimitInv
  BY RefundStart, LimitStart DEF LimitInv
<1>2. ASSUME LimitInv, [Next]_vars PROVE LimitInv'
  <2>1. RefundInv /\ Books(ledger, deposits) /\ LimitIs(ledger, handling)
    BY <1>2 DEF LimitInv
  <2>2. RefundInv'
    BY <1>2, <2>1, RefundStep
  <2>3. Books(ledger', deposits') /\ LimitIs(ledger', handling')
    BY <1>2, <2>1, <2>2, LedgerStep
  <2> QED
    BY <2>2, <2>3 DEF LimitInv
<1> QED
  BY <1>1, <1>2, PTL DEF Spec

\* However entries expired, were folded into one another or refunded, each
\* holds what its reservations not yet refunded add up to (SpendLedger: commit,
\* release, spent): for any capacity, window and number of deposits.
THEOREM BooksBalance == Spec => []EntriesBalance
<1>1. LimitInv => EntriesBalance
  <2> SUFFICES ASSUME LimitInv, NEW i \in DOMAIN ledger.entries
               PROVE  ledger.entries[i].amount = Sum({n \in NumbersIn(ledger.entries[i]) : ~ D(n).refunded})
    BY DEF EntriesBalance
  <2> DEFINE e  == ledger.entries[i]
             us == Unrefunded(deposits, NumbersIn(e))
  <2>1. Books(ledger, deposits)
    BY DEF LimitInv
  <2>2. /\ deposits \in Seq(Deposit) /\ e.amount = Total(Units(deposits), us)
        /\ NumbersIn(e) \subseteq Booked(ledger.entries)
        /\ Booked(ledger.entries) \subseteq 0..(Len(deposits) - 1)
    BY <2>1, CommittedIs DEF Books, Held, Accounts, Booked
  <2>3. us \in SUBSET (0..(Len(deposits) - 1))
    BY <2>2 DEF Unrefunded
  <2>4. us = {n \in NumbersIn(e) : ~ D(n).refunded}
    BY DEF Unrefunded, D
  <2>5. Sum(us) = SumIn(deposits, us)
    BY DEF Sum, SumIn, D
  <2> HIDE DEF us
  <2>6. SumIn(deposits, us) = Total(Units(deposits), us)
    BY <2>2, <2>3, SumInIsTotal
  <2> QED
    BY <2>2, <2>4, <2>5, <2>6
<1> QED
  BY <1>1, LimitInvariant, PTL

\* The deposits of one spend_window that moved funds, or may have, add up to no
\* more than max_spend_per_window: for any limit, window, capacity, any number
\* of concurrent flushes and any answers of the pool.
THEOREM LimitKept == Spec => []WindowRespected
<1>1. LimitInv => WindowRespected
  <2> SUFFICES ASSUME LimitInv, MaxSpend # 0
               PROVE  Sum({n \in 0..(ledger.seq - 1) : D(n).window > 0 /\ MayHaveMoved(n)}) <= MaxSpend
    BY DEF WindowRespected
  <2> DEFINE ns == {n \in 0..(ledger.seq - 1) : D(n).window > 0 /\ MayHaveMoved(n)}
             us == Unrefunded(deposits, Booked(ledger.entries))
  <2>1. Books(ledger, deposits) /\ LimitIs(ledger, handling) /\ RefundInv
    BY DEF LimitInv
  <2>2. /\ deposits \in Seq(Deposit) /\ ledger.seq = Len(deposits)
        /\ \A n \in 0..(Len(deposits) - 1) : deposits[n + 1].window > 0 => n \in Booked(ledger.entries)
        /\ Committed(ledger) = Total(Units(deposits), us)
        /\ Booked(ledger.entries) \subseteq 0..(Len(deposits) - 1)
    BY <2>1, CommittedIs DEF Books, Held
  <2>3. ASSUME NEW n \in ns PROVE n \in us
    <3>1. n \in Admitted /\ D(n).window > 0 /\ MayHaveMoved(n) /\ n \in 0..(Len(deposits) - 1)
      BY <2>2 DEF Admitted
    <3>2. ~ D(n).refunded
      BY <2>1, <3>1 DEF MayHaveMoved, RefundInv, Parts, AwaitsPool, RefundedNeverMoved, Admitted
    <3> QED
      BY <2>2, <3>1, <3>2 DEF Unrefunded, D
  <2>4. us \in SUBSET (0..(Len(deposits) - 1)) /\ ns \in SUBSET us
    BY <2>2, <2>3 DEF Unrefunded
  <2> HIDE DEF ns, us
  <2>5. Sum(ns) = SumIn(deposits, ns)
    BY DEF Sum, SumIn, D
  <2>6. SumIn(deposits, ns) = Total(Units(deposits), ns)
    BY <2>2, <2>4, SumInIsTotal
  <2>7. /\ Total(Units(deposits), us) \in Nat /\ Total(Units(deposits), ns) <= Total(Units(deposits), us)
        /\ Total(Units(deposits), ns) \in Nat
    BY <2>2, <2>4, UnitsAdd
  <2>8. Committed(ledger) <= MaxSpend
    <3> DEFINE c == IF handling = NoEvent THEN 0 ELSE handling.amount
    <3>1. c \in Nat /\ Committed(ledger) + c <= MaxSpend
      BY <2>1, DepositAssumption DEF LimitIs, RefundInv, CachesTyped
    <3> HIDE DEF c
    <3> QED
      BY <2>2, <2>7, <3>1, DepositAssumption
  <2>9. Sum(ns) <= MaxSpend
    BY <2>2, <2>5, <2>6, <2>7, <2>8, DepositAssumption
  <2> QED
    BY <2>9 DEF ns
<1> QED
  BY <1>1, LimitInvariant, PTL

-----------------------------------------------------------------------------
TimesTyped == processed \in [Id -> 0..ProcessedTTL] /\ inFlight \in [Dest -> 0..GuardTTL]

LEMMA TimesStep == ASSUME TimesTyped, [Next]_vars PROVE TimesTyped'
<1>0. ProcessedTTL \in Nat /\ GuardTTL \in Nat
  BY DepositAssumption
<1>1. ASSUME Admit PROVE TimesTyped'
  <2>1. processed' = processed /\ inFlight' = [inFlight EXCEPT ![handling.dest] = GuardTTL]
    BY <1>1 DEF Admit, Claim
  <2>2. GuardTTL \in 0..GuardTTL
    BY <1>0
  <2> QED
    BY <2>1, <2>2 DEF TimesTyped
<1>2. ASSUME NEW f \in flushes, Record(f) PROVE TimesTyped'
  BY <1>0, <1>2 DEF Record, TimesTyped
<1>3. ASSUME NEW f \in flushes, Free(f) PROVE TimesTyped'
  BY <1>0, <1>3 DEF Free, TimesTyped
<1>4. ASSUME NEW d \in Dest, Evict(d) PROVE TimesTyped'
  BY <1>0, <1>4 DEF Evict, TimesTyped
<1>5. ASSUME Tick PROVE TimesTyped'
  BY <1>0, <1>5 DEF Tick, Down, TimesTyped
<1>6. ASSUME NEW e \in Event, Check(e) PROVE TimesTyped'
  BY <1>6 DEF Check, TimesTyped
<1>7. ASSUME NEW f \in flushes, PoolAnswers(f) \/ Refund(f) PROVE TimesTyped'
  BY <1>7 DEF PoolAnswers, Refund, TimesTyped
<1>8. ASSUME Skip \/ FlushDeposits \/ UNCHANGED vars PROVE TimesTyped'
  BY <1>8 DEF Skip, FlushDeposits, vars, TimesTyped
<1> QED
  BY <1>1, <1>2, <1>3, <1>4, <1>5, <1>6, <1>7, <1>8 DEF Next

\* The state of the Entry is what its structures can hold: no cache entry
\* outlives its time-to-live, no amount of the ledger turns negative by a
\* refund, and the ledger counts the deposits.
THEOREM DepositTyped == Spec => []TypeOK
<1>1. Init => TimesTyped
  BY DepositAssumption DEF Init, TimesTyped
<1>2. LimitInv /\ TimesTyped => TypeOK
  <2> SUFFICES ASSUME LimitInv, TimesTyped PROVE TypeOK
    OBVIOUS
  <2>1. RefundInv /\ Numbered /\ Parts /\ CachesTyped /\ ledger \in Ledger
    BY DEF LimitInv, RefundInv, Books
  <2>2. deposits \in Seq(Deposit) /\ Len(deposits) = ledger.seq
    BY <2>1 DEF Numbered
  <2>3. buffer \in SUBSET Number
    BY <2>1, Numbers DEF Parts, FlushesTyped
  <2>4. Errands \subseteq Seq({"pay", "record", "free", "refund"})
    BY DEF Errands
  <2>5. flushes \subseteq Flush
    <3>1. flushes \subseteq Flushing
      BY <2>1 DEF Parts, FlushesTyped
    <3>2. Flushing \subseteq Flush
      BY <2>4 DEF Flushing, Flush
    <3> QED
      BY <3>1, <3>2
  <2> QED
    BY <2>1, <2>2, <2>3, <2>5 DEF TypeOK, TimesTyped, CachesTyped
<1> QED
  BY <1>1, <1>2, TimesStep, LimitInvariant, PTL DEF Spec
=============================================================================
