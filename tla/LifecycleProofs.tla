-------------------------- MODULE LifecycleProofs --------------------------
(***************************************************************************)
(* Proofs about ChannelLifecycle, for any set of peers, any caps, budgets  *)
(* and cooldowns, and any number of faults.                                *)
(*                                                                         *)
(* A pass takes its candidates one after the other, so what it adds up to  *)
(* is induction over them, carried out on sets of numbers (SumLemmas): the *)
(* steps of a pass are a function on 0..n (PassTrace), and the set is that *)
(* of the steps after which the claim holds.  What a budget is spent on is *)
(* a sum over transactions (AmountsAdd).                                   *)
(*                                                                         *)
(* Then every candidate's step is stopping, passing by or one submission   *)
(* (StepTakes); a pass adds suitable transactions (PassAdds), pays each    *)
(* from the budget (PassBudget) and counts it against its cap              *)
(* (PassCounts); and a tick is five passes in a row (ActDoes).             *)
(***************************************************************************)
EXTENDS ChannelLifecycle, SumLemmas

-----------------------------------------------------------------------------
(***************************************************************************)
(* What transactions cost.                                                 *)
(***************************************************************************)
\* The amounts are a sum over the transactions.
LEMMA AmountsAreTotal ==
    ASSUME NEW ts
    PROVE  Amounts(ts) = Total([t \in ts |-> t.amount], ts)
<1> DEFINE w == [t \in ts |-> t.amount]
           Partial(f) == f = [s \in SUBSET ts |-> IF s = {} THEN 0
                                                ELSE OneOf(s).amount + f[s \ {OneOf(s)}]]
<1>1. Amounts(ts) = (CHOOSE f : Partial(f))[ts]
  BY DEF Amounts, MapThenSumSet, MapThenFoldSet, OneOf
<1>2. \A f : Partial(f) <=> Sums(f, w, ts)
  <2>1. ASSUME NEW s \in SUBSET ts, s # {} PROVE w[OneOf(s)] = OneOf(s).amount
    <3>1. OneOf(s) \in ts
      BY <2>1 DEF OneOf
    <3> QED BY <3>1
  <2> HIDE DEF w
  <2> QED BY <2>1 DEF Sums
<1> HIDE DEF Partial, w
<1>3. (CHOOSE f : Partial(f)) = (CHOOSE f : Sums(f, w, ts))
  BY <1>2
<1>4. Total(w, ts) = (CHOOSE f : Sums(f, w, ts))[ts]
  BY TotalChoose
<1> QED BY <1>1, <1>3, <1>4 DEF w

\* No transactions cost nothing,
LEMMA AmountsOfNone == Amounts({}) = 0
BY AmountsAreTotal, TotalOfNone

\* and every one can be split off.
LEMMA AmountsAdd ==
    ASSUME NEW ts, IsFiniteSet(ts), \A t \in ts : t.amount \in Nat
    PROVE  /\ Amounts(ts) \in Nat
           /\ \A x \in ts : Amounts(ts) = x.amount + Amounts(ts \ {x})
<1> DEFINE w == [t \in ts |-> t.amount]
<1>1. \A t \in ts : w[t] \in Nat /\ w[t] = t.amount
  OBVIOUS
<1>2. Amounts(ts) = Total(w, ts)
  BY AmountsAreTotal
<1>3. ASSUME NEW x \in ts PROVE Amounts(ts \ {x}) = Total(w, ts \ {x})
  <2> DEFINE v == [t \in ts \ {x} |-> t.amount]
  <2>1. IsFiniteSet(ts \ {x}) /\ \A t \in ts \ {x} : v[t] = w[t]
    BY FS_RemoveElement
  <2>2. Amounts(ts \ {x}) = Total(v, ts \ {x})
    BY AmountsAreTotal
  <2> HIDE DEF v, w
  <2> QED BY <2>1, <2>2, TotalDepends
<1> HIDE DEF w
<1> QED BY <1>1, <1>2, <1>3, TotalAdd

-----------------------------------------------------------------------------
(***************************************************************************)
(* A pass as a trace of runs.                                              *)
(***************************************************************************)
Begin(run, count) == [run EXCEPT !.over = FALSE, !.count = count]

Follows(pass, before, p) == IF before.over THEN before ELSE Step(pass, before, p)

\* The runs after 0, 1, ..., n candidates.
Traces(f, n, pass, run, count, order) ==
    f = [i \in 0..n |-> IF i = 0 THEN Begin(run, count) ELSE Follows(pass, f[i - 1], order[i])]

\* Such a trace can be continued as long as there are candidates.
LEMMA TraceExists ==
    ASSUME NEW pass, NEW run, NEW count, NEW order, NEW n \in Nat
    PROVE  \E f : Traces(f, n, pass, run, count, order)
<1> DEFINE Bad == {k \in Nat : ~\E f : Traces(f, k, pass, run, count, order)}
<1>1. SUFFICES ASSUME Bad # {} PROVE FALSE
  OBVIOUS
<1>2. PICK m \in Bad : \A k \in Bad : m <= k
  BY <1>1, LeastNumber
<1>3. m \in Nat /\ ~\E f : Traces(f, m, pass, run, count, order)
  OBVIOUS
<1>4. m # 0
  <2>1. Traces([i \in 0..0 |-> Begin(run, count)], 0, pass, run, count, order)
    BY DEF Traces
  <2> QED BY <2>1, <1>3
<1>5. m - 1 \in Nat /\ m - 1 \notin Bad
  BY <1>2, <1>3, <1>4
<1>6. PICK g : Traces(g, m - 1, pass, run, count, order)
  BY <1>5
<1> DEFINE f == [i \in 0..m |-> IF i = m THEN Follows(pass, g[m - 1], order[m]) ELSE g[i]]
<1>7. ASSUME NEW i \in 0..m
      PROVE  f[i] = IF i = 0 THEN Begin(run, count) ELSE Follows(pass, f[i - 1], order[i])
  <2>1. CASE i = m
    BY <2>1, <1>3, <1>4
  <2>2. CASE i # m
    <3>1. i \in 0..(m - 1) /\ (i # 0 => i - 1 \in 0..m /\ i - 1 # m)
      BY <2>2, <1>3
    <3>2. f[i] = g[i] /\ (i # 0 => f[i - 1] = g[i - 1])
      BY <3>1, <2>2
    <3> HIDE DEF f
    <3> QED BY <3>1, <3>2, <1>6 DEF Traces
  <2> QED BY <2>1, <2>2
<1>8. f = [i \in 0..m |-> f[i]]
  OBVIOUS
<1> HIDE DEF f
<1>9. Traces(f, m, pass, run, count, order)
  BY <1>7, <1>8 DEF Traces
<1> QED BY <1>9, <1>3

\* A pass ends where its trace does.
LEMMA PassTrace ==
    ASSUME NEW pass, NEW run, NEW count, NEW order, Len(order) \in Nat
    PROVE  \E f : /\ f[0] = Begin(run, count)
                  /\ \A i \in 1..Len(order) : f[i] = Follows(pass, f[i - 1], order[i])
                  /\ f[Len(order)] = Pass(pass, run, count, order)
<1> DEFINE f == CHOOSE g : Traces(g, Len(order), pass, run, count, order)
<1>1. Traces(f, Len(order), pass, run, count, order)
  BY TraceExists
<1>2. f[Len(order)] = Pass(pass, run, count, order)
  BY DEF Traces, Pass, Begin, Follows
<1> HIDE DEF f
<1>3. f[0] = Begin(run, count) /\ \A i \in 1..Len(order) : f[i] = Follows(pass, f[i - 1], order[i])
  BY <1>1 DEF Traces
<1> QED BY <1>2, <1>3

-----------------------------------------------------------------------------
(***************************************************************************)
(* What one candidate's step does to a run.                                *)
(***************************************************************************)
\* No two transactions share kind, peer and number.
Distinct(ts) == \A t, u \in ts : <<t.kind, t.peer, t.n>> = <<u.kind, u.peer, u.n>> => t = u

TxsOK(ts) == ts \subseteq Tx /\ IsFiniteSet(ts) /\ Distinct(ts)

RunOK(r) ==
    /\ r \in [txs : SUBSET Tx, spend : Nat, count : Nat, over : BOOLEAN]
    /\ TxsOK(r.txs)

\* s is r with the transaction t dispatched and paid for.
Submits(r, s, t) ==
    /\ t \in Tx \ r.txs /\ t.leased /\ ~t.sent
    /\ t.peer \notin Holders(r.txs, t.kind)
    /\ t.amount <= r.spend
    /\ s = [txs |-> r.txs \cup {t}, spend |-> r.spend - t.amount,
            count |-> r.count + 1, over |-> r.over]

\* A dispatch adds one transaction, under a number not in use.
LEMMA DispatchAdds ==
    ASSUME NEW ts, TxsOK(ts), NEW kind \in Kind, NEW p \in Peer, NEW amount \in Nat
    PROVE  \E t \in Tx \ ts :
              /\ t.kind = kind /\ t.peer = p /\ t.amount = amount /\ t.leased /\ ~t.sent
              /\ Dispatched(ts, kind, p, amount) = ts \cup {t}
              /\ TxsOK(ts \cup {t})
<1> DEFINE same   == {u \in ts : u.kind = kind /\ u.peer = p}
           rivals == {u.n : u \in same}
           free   == (0..Cardinality(rivals)) \ rivals
           t      == [n |-> Min(free), kind |-> kind, peer |-> p, amount |-> amount,
                      leased |-> TRUE, sent |-> FALSE]
<1>1. IsFiniteSet(rivals) /\ rivals \subseteq Nat
  <2>1. IsFiniteSet(same)
    BY FS_Subset DEF TxsOK
  <2>2. IsFiniteSet(rivals)
    <3> DEFINE g == [u \in same |-> u.n]
    <3>1. g \in Surjection(same, rivals)
      BY DEF Surjection
    <3> HIDE DEF g, same, rivals
    <3> QED BY <2>1, <3>1, FS_Surjection
  <2>3. rivals \subseteq Nat
    BY DEF TxsOK, Tx
  <2> QED BY <2>2, <2>3
<1>2. free # {} /\ free \subseteq Nat
  <2>1. Cardinality(rivals) \in Nat
    BY <1>1, FS_CardinalityType
  <2> HIDE DEF rivals
  <2>2. Cardinality(0..Cardinality(rivals)) = Cardinality(rivals) + 1
    BY <2>1, FS_Interval
  <2>3. ASSUME free = {} PROVE FALSE
    <3>1. 0..Cardinality(rivals) \subseteq rivals
      BY <2>3
    <3>2. Cardinality(0..Cardinality(rivals)) <= Cardinality(rivals)
      BY <3>1, <1>1, FS_Subset
    <3> QED BY <3>2, <2>2, <2>1
  <2> QED BY <2>1, <2>3
<1>3. Min(free) \in Nat /\ Min(free) \notin rivals
  BY <1>2, MinIsLeast
<1>4. t \in Tx /\ t \notin ts
  <2> DEFINE m == Min(free)
  <2>1. m \in Nat /\ m \notin rivals
    BY <1>3
  <2>2. t = [n |-> m, kind |-> kind, peer |-> p, amount |-> amount, leased |-> TRUE, sent |-> FALSE]
    OBVIOUS
  <2>4. t \in ts => t \in same
    OBVIOUS
  <2>5. t \in ts => t.n \in rivals
    BY <2>4
  <2> HIDE DEF m, free, t
  <2>3. t \in Tx
    BY <2>1, <2>2 DEF Tx
  <2>6. t.n = m
    BY <2>2
  <2> QED BY <2>1, <2>3, <2>5, <2>6
<1>5. Dispatched(ts, kind, p, amount) = ts \cup {t}
  BY DEF Dispatched
<1>6. Distinct(ts \cup {t})
  <2> DEFINE m == Min(free)
  <2>1. m \notin rivals /\ t.n = m /\ t.kind = kind /\ t.peer = p
    BY <1>3
  <2> HIDE DEF m, free, t
  <2>2. ASSUME NEW u \in ts, u.kind = kind, u.peer = p PROVE u.n # m
    BY <2>1, <2>2
  <2> QED BY <2>1, <2>2 DEF Distinct, TxsOK
<1>7. TxsOK(ts \cup {t})
  BY <1>4, <1>6, FS_AddElement DEF TxsOK
<1> QED BY <1>4, <1>5, <1>7

\* A submission is refused for want of a slot, or dispatches.
LEMMA SubmitDoes ==
    ASSUME NEW r, RunOK(r), NEW kind \in Kind, NEW p \in Peer, NEW amount \in Nat,
           amount <= r.spend
    PROVE  \/ Submit(r, kind, p, amount) = r
           \/ \E t : /\ Submits(r, Submit(r, kind, p, amount), t) /\ RunOK(Submit(r, kind, p, amount))
                     /\ t.kind = kind /\ t.peer = p /\ t.amount = amount
<1>1. CASE ~CanDispatch(r.txs, kind, p)
  BY <1>1 DEF Submit
<1>2. CASE CanDispatch(r.txs, kind, p)
  <2>0. TxsOK(r.txs)
    BY DEF RunOK
  <2>1. PICK t \in Tx \ r.txs :
           /\ t.kind = kind /\ t.peer = p /\ t.amount = amount /\ t.leased /\ ~t.sent
           /\ Dispatched(r.txs, kind, p, amount) = r.txs \cup {t}
           /\ TxsOK(r.txs \cup {t})
    BY <2>0, DispatchAdds
  <2> DEFINE s == [txs |-> r.txs \cup {t}, spend |-> r.spend - t.amount,
                   count |-> r.count + 1, over |-> r.over]
  <2>2. Submit(r, kind, p, amount) = s
    BY <1>2, <2>1 DEF Submit, RunOK
  <2>3. RunOK(s)
    <3>1. s.spend \in Nat /\ s.count \in Nat
      BY <2>1 DEF RunOK
    <3> QED BY <2>1, <3>1 DEF RunOK
  <2>4. Submits(r, s, t)
    BY <1>2, <2>1 DEF Submits, CanDispatch
  <2> HIDE DEF s
  <2> QED BY <2>1, <2>2, <2>3, <2>4
<1> QED BY <1>1, <1>2

\* Stopping changes nothing but that.
LEMMA StopDoes ==
    ASSUME NEW r, RunOK(r)
    PROVE  /\ RunOK(Stop(r))
           /\ Stop(r) = [txs |-> r.txs, spend |-> r.spend, count |-> r.count, over |-> TRUE]
<1> DEFINE s == [txs |-> r.txs, spend |-> r.spend, count |-> r.count, over |-> TRUE]
<1>1. Stop(r) = s
  <2>1. r \in [txs : SUBSET Tx, spend : Nat, count : Nat, over : BOOLEAN]
    BY DEF RunOK
  <2>2. Stop(r) \in [txs : {r.txs}, spend : {r.spend}, count : {r.count}, over : {TRUE}]
    BY <2>1 DEF Stop
  <2> QED BY <2>2
<1>2. RunOK(s)
  BY DEF RunOK
<1> QED BY <1>1, <1>2

PassName == {"fund", "close", "cull", "topup", "finalize", "open"}

\* What a pass may submit after the run r.
May(pass, r, t) ==
    /\ pass \in {"fund", "topup"} => t.kind = "fund"
    /\ pass \in {"close", "cull"} => t.kind = "close" /\ t.amount = 0 /\ r.count < CloseCap
    /\ pass = "close" => OpenCount(tick.opening) - r.count > MinOpen
    /\ pass = "finalize" => /\ t.kind = "finalize" /\ t.amount = 0 /\ r.count < FinalizeCap
                            /\ Shown(t.peer).status = "overdue"
    /\ pass = "open" => /\ t.kind \in {"open", "fund"}
                        /\ t.kind = "open" => t.peer \notin Occupied

\* A candidate p is passed by, stops the pass or is acted on.
Takes(pass, r, s, p) ==
    /\ RunOK(s)
    /\ \/ s = r
       \/ s = Stop(r)
       \/ \E t : Submits(r, s, t) /\ t.peer = p /\ May(pass, r, t)

\* What the passes need of the state: a deferred channel holds less than one face value.
TickOK ==
    /\ chan \in [Peer -> Channel]
    /\ safe \in Nat
    /\ tick \in Tick
    /\ \A p \in tick.deferred : Shown(p).balance < FaceValue

\* Peers are finitely many, so what is open can be counted.
LEMMA OpenCountIsNumber ==
    ASSUME NEW opening \in SUBSET Peer
    PROVE  OpenCount(opening) \in Nat
<1>1. IsFiniteSet(Peer) /\ ShownOpen \in SUBSET Peer
  BY LifecycleAssumption DEF ShownOpen
<1>2. IsFiniteSet(ShownOpen) /\ IsFiniteSet(opening)
  BY <1>1, FS_Subset
<1>3. Cardinality(ShownOpen) \in Nat /\ Cardinality(opening) \in Nat
  BY <1>2, FS_CardinalityType
<1> QED BY <1>3 DEF OpenCount

\* A top-up is never more than there is to spend.
LEMMA AmountFits ==
    ASSUME NEW spend \in Nat
    PROVE  Amount(spend) \in Nat /\ Amount(spend) <= spend
<1>1. TopUp \in Nat /\ FaceValue \in Nat \ {0}
  BY LifecycleAssumption
<1>2. spend % FaceValue \in Nat /\ spend % FaceValue <= spend
  BY <1>1
<1> QED BY <1>1, <1>2 DEF Amount

\* So it is with the step of each pass.
LEMMA StepTakes ==
    ASSUME TickOK, NEW pass \in PassName, NEW r, RunOK(r), NEW p \in Peer,
           pass = "topup" => p \in tick.deferred
    PROVE  Takes(pass, r, Step(pass, r, p), p)
<1> USE DEF TickOK
<1>0. LifecycleAssumption /\ RunOK(Stop(r)) /\ r.spend \in Nat /\ r.count \in Nat
  BY LifecycleAssumption, StopDoes DEF RunOK
<1>1. CASE pass = "fund"
  <2>1. Step(pass, r, p) = FundStep(r, p)
    BY <1>1 DEF Step
  <2>2. Amount(r.spend) \in Nat /\ Amount(r.spend) <= r.spend /\ "fund" \in Kind
    BY <1>0, AmountFits DEF Kind
  <2>3. \/ Submit(r, "fund", p, Amount(r.spend)) = r
        \/ \E t : /\ Submits(r, Submit(r, "fund", p, Amount(r.spend)), t)
                  /\ RunOK(Submit(r, "fund", p, Amount(r.spend)))
                  /\ t.kind = "fund" /\ t.peer = p /\ t.amount = Amount(r.spend)
    BY <2>2, SubmitDoes
  <2> QED BY <1>0, <1>1, <2>1, <2>3 DEF FundStep, Takes, May
<1>2. CASE pass = "close"
  <2>1. Step(pass, r, p) = CloseStep(r, p)
    BY <1>2 DEF Step
  <2>2. \/ Submit(r, "close", p, 0) = r
        \/ \E t : /\ Submits(r, Submit(r, "close", p, 0), t) /\ RunOK(Submit(r, "close", p, 0))
                  /\ t.kind = "close" /\ t.peer = p /\ t.amount = 0
    BY <1>0, SubmitDoes DEF Kind
  <2>3. OpenCount(tick.opening) \in Nat
    BY OpenCountIsNumber DEF Tick
  <2>4. /\ OpenCount(tick.opening) - r.count \in Int
        /\ Max({0, OpenCount(tick.opening) - r.count}) \in {0, OpenCount(tick.opening) - r.count}
    <3> DEFINE x == OpenCount(tick.opening) - r.count
    <3>1. x \in Int
      BY <1>0, <2>3
    <3> HIDE DEF x
    <3>2. Max({0, x}) \in {0, x}
      BY <3>1, MaxOfTwo
    <3> QED BY <3>1, <3>2 DEF x
  <2>5. CASE r.count >= CloseCap \/ Max({0, OpenCount(tick.opening) - r.count}) <= MinOpen
    BY <1>0, <2>1, <2>5 DEF CloseStep, Takes
  <2>6. CASE ~(r.count >= CloseCap \/ Max({0, OpenCount(tick.opening) - r.count}) <= MinOpen)
    <3>1. r.count < CloseCap /\ OpenCount(tick.opening) - r.count > MinOpen
      BY <1>0, <2>4, <2>6
    <3>2. Step(pass, r, p) = r \/ Step(pass, r, p) = Submit(r, "close", p, 0)
      BY <2>1, <2>6 DEF CloseStep
    <3> QED BY <1>2, <2>2, <3>1, <3>2 DEF Takes, May
  <2> QED BY <2>5, <2>6
<1>3. CASE pass = "cull"
  <2>1. Step(pass, r, p) = CullStep(r, p)
    BY <1>3 DEF Step
  <2>2. \/ Submit(r, "close", p, 0) = r
        \/ \E t : /\ Submits(r, Submit(r, "close", p, 0), t) /\ RunOK(Submit(r, "close", p, 0))
                  /\ t.kind = "close" /\ t.peer = p /\ t.amount = 0
    BY <1>0, SubmitDoes DEF Kind
  <2>3. CASE r.count >= CloseCap
    BY <1>0, <2>1, <2>3 DEF CullStep, Takes
  <2>4. CASE ~(r.count >= CloseCap)
    <3>1. r.count < CloseCap
      BY <1>0, <2>4
    <3> QED BY <1>3, <2>1, <2>2, <2>4, <3>1 DEF CullStep, Takes, May
  <2> QED BY <2>3, <2>4
<1>4. CASE pass = "topup"
  <2> DEFINE topup == FaceValue - Shown(p).balance
  <2>1. Step(pass, r, p) = IF r.spend < topup THEN Stop(r) ELSE Submit(r, "fund", p, topup)
    BY <1>4 DEF Step, TopUpStep
  <2>2. topup \in Nat
    <3>1. Shown(p).balance \in Nat
      BY DEF Shown, Tick, Channel
    <3> QED BY <1>0, <1>4, <3>1
  <2> HIDE DEF topup
  <2>3. CASE r.spend < topup
    BY <1>0, <2>1, <2>3 DEF Takes
  <2>4. CASE ~(r.spend < topup)
    <3>1. topup <= r.spend
      BY <1>0, <2>2, <2>4
    <3>2. \/ Submit(r, "fund", p, topup) = r
          \/ \E t : /\ Submits(r, Submit(r, "fund", p, topup), t) /\ RunOK(Submit(r, "fund", p, topup))
                    /\ t.kind = "fund" /\ t.peer = p /\ t.amount = topup
      BY <1>0, <2>2, <3>1, SubmitDoes DEF Kind
    <3> QED BY <1>4, <2>1, <2>4, <3>2 DEF Takes, May
  <2> QED BY <2>3, <2>4
<1>5. CASE pass = "finalize"
  <2>1. Step(pass, r, p) = FinalizeStep(r, p)
    BY <1>5 DEF Step
  <2>2. \/ Submit(r, "finalize", p, 0) = r
        \/ \E t : /\ Submits(r, Submit(r, "finalize", p, 0), t) /\ RunOK(Submit(r, "finalize", p, 0))
                  /\ t.kind = "finalize" /\ t.peer = p /\ t.amount = 0
    BY <1>0, SubmitDoes DEF Kind
  <2>3. CASE r.count >= FinalizeCap
    BY <1>0, <2>1, <2>3 DEF FinalizeStep, Takes
  <2>4. CASE ~(r.count >= FinalizeCap)
    <3>1. r.count < FinalizeCap
      BY <1>0, <2>4
    <3>2. CASE Shown(p).status = "overdue"
      BY <1>5, <2>1, <2>2, <2>4, <3>1, <3>2 DEF FinalizeStep, Takes, May
    <3>3. CASE Shown(p).status # "overdue"
      BY <2>1, <2>4, <3>3 DEF FinalizeStep, Takes
    <3> QED BY <3>2, <3>3
  <2> QED BY <2>3, <2>4
<1>6. CASE pass = "open"
  <2>1. Step(pass, r, p) = OpenStep(r, p)
    BY <1>6 DEF Step
  <2>2. CASE r.spend < Initial
    BY <1>0, <2>1, <2>2 DEF OpenStep, Takes
  <2>3. CASE ~(r.spend < Initial) /\ p \notin Occupied
    <3>1. Initial \in Nat /\ Initial <= r.spend
      BY <1>0, <2>3
    <3>2. \/ Submit(r, "open", p, Initial) = r
          \/ \E t : /\ Submits(r, Submit(r, "open", p, Initial), t)
                    /\ RunOK(Submit(r, "open", p, Initial))
                    /\ t.kind = "open" /\ t.peer = p /\ t.amount = Initial
      BY <3>1, SubmitDoes DEF Kind
    <3> QED BY <1>6, <2>1, <2>3, <3>2 DEF OpenStep, Takes, May
  <2>4. CASE ~(r.spend < Initial) /\ p \in Occupied
    <3>1. CASE r.spend >= TopUp
      <4>1. TopUp \in Nat /\ TopUp <= r.spend
        BY <1>0, <3>1
      <4>2. \/ Submit(r, "fund", p, TopUp) = r
            \/ \E t : /\ Submits(r, Submit(r, "fund", p, TopUp), t)
                      /\ RunOK(Submit(r, "fund", p, TopUp))
                      /\ t.kind = "fund" /\ t.peer = p /\ t.amount = TopUp
        BY <4>1, SubmitDoes DEF Kind
      <4>3. Step(pass, r, p) = r \/ Step(pass, r, p) = Submit(r, "fund", p, TopUp)
        BY <2>1, <2>4 DEF OpenStep
      <4> QED BY <1>6, <4>2, <4>3 DEF Takes, May
    <3>2. CASE ~(r.spend >= TopUp)
      BY <2>1, <2>4, <3>2 DEF OpenStep, Takes
    <3> QED BY <3>1, <3>2
  <2> QED BY <2>2, <2>3, <2>4
<1> QED BY <1>1, <1>2, <1>3, <1>4, <1>5, <1>6 DEF PassName

-----------------------------------------------------------------------------
(***************************************************************************)
(* What a whole pass does.                                                 *)
(***************************************************************************)
\* The candidates are among ps; top-ups are for deferred channels.
Takers(pass, order, ps) ==
    /\ Len(order) \in Nat
    /\ \A i \in 1..Len(order) : order[i] \in ps
    /\ ps \subseteq Peer
    /\ pass = "topup" => ps \subseteq tick.deferred

\* f has the runs of the pass, each in order and each a step from the one before.
RunsTo(f, pass, run, count, order) ==
    /\ f[0] = Begin(run, count)
    /\ f[Len(order)] = Pass(pass, run, count, order)
    /\ \A i \in 0..Len(order) : RunOK(f[i])
    /\ \A i \in 1..Len(order) : Takes(pass, f[i - 1], f[i], order[i])

\* A pass begins with the transactions and the budget of the one before.
LEMMA BeginDoes ==
    ASSUME NEW r, RunOK(r), NEW count \in Nat
    PROVE  /\ RunOK(Begin(r, count))
           /\ Begin(r, count).txs = r.txs /\ Begin(r, count).spend = r.spend
           /\ Begin(r, count).count = count
<1> DEFINE s == [txs |-> r.txs, spend |-> r.spend, count |-> count, over |-> FALSE]
<1>1. Begin(r, count) = s
  <2>1. r \in [txs : SUBSET Tx, spend : Nat, count : Nat, over : BOOLEAN]
    BY DEF RunOK
  <2>2. Begin(r, count) \in [txs : {r.txs}, spend : {r.spend}, count : {count}, over : {FALSE}]
    BY <2>1 DEF Begin
  <2> QED BY <2>2
<1>2. RunOK(s)
  BY DEF RunOK
<1> QED BY <1>1, <1>2

\* Every pass has such runs.
LEMMA PassRuns ==
    ASSUME TickOK, NEW pass \in PassName, NEW run, RunOK(run), NEW count \in Nat,
           NEW order, NEW ps, Takers(pass, order, ps)
    PROVE  \E f : RunsTo(f, pass, run, count, order)
<1> DEFINE n == Len(order)
<1>0. n \in Nat
  BY DEF Takers
<1>1. PICK f : /\ f[0] = Begin(run, count)
               /\ \A i \in 1..n : f[i] = Follows(pass, f[i - 1], order[i])
               /\ f[n] = Pass(pass, run, count, order)
  BY <1>0, PassTrace
<1>2. ASSUME NEW i \in 1..n, RunOK(f[i - 1])
      PROVE  Takes(pass, f[i - 1], f[i], order[i])
  <2>1. order[i] \in Peer /\ (pass = "topup" => order[i] \in tick.deferred)
    BY DEF Takers
  <2>2. Takes(pass, f[i - 1], Step(pass, f[i - 1], order[i]), order[i])
    BY <1>2, <2>1, StepTakes
  <2>3. f[i] = f[i - 1] \/ f[i] = Step(pass, f[i - 1], order[i])
    BY <1>1 DEF Follows
  <2> QED BY <1>2, <2>2, <2>3 DEF Takes
<1> DEFINE S == {i \in 0..n : RunOK(f[i])}
<1>3. 0 \in S
  <2>1. RunOK(Begin(run, count))
    BY BeginDoes
  <2>2. 0 \in 0..n
    BY <1>0
  <2> QED
    BY <1>1, <2>1, <2>2
<1>4. ASSUME NEW i \in 1..n, i - 1 \in S PROVE i \in S
  BY <1>2, <1>4 DEF Takes
<1> HIDE DEF n, S
<1>5. 0..n \subseteq S
  BY <1>0, <1>3, <1>4, Upto
<1>6. \A i \in 0..n : RunOK(f[i])
  BY <1>5 DEF S
<1>7. \A i \in 1..n : Takes(pass, f[i - 1], f[i], order[i])
  <2> TAKE i \in 1..n
  <2>1. i - 1 \in 0..n
    BY <1>0
  <2> QED BY <1>2, <1>6, <2>1
<1> QED BY <1>1, <1>6, <1>7 DEF RunsTo, n

\* Which transactions a pass may add.
Suits(pass, t, ps) ==
    /\ t.leased /\ ~t.sent /\ t.peer \in ps
    /\ pass \in {"fund", "topup"} => t.kind = "fund"
    /\ pass \in {"close", "cull"} => t.kind = "close"
    /\ pass = "finalize" => t.kind = "finalize" /\ Shown(t.peer).status = "overdue"
    /\ pass = "open" => /\ t.kind \in {"open", "fund"}
                        /\ t.kind = "open" => t.peer \notin Occupied

Adds(pass, run, s, ps) ==
    RunOK(s) /\ run.txs \subseteq s.txs /\ \A t \in s.txs \ run.txs : Suits(pass, t, ps)

\* It adds none but those.
LEMMA PassAdds ==
    ASSUME TickOK, NEW pass \in PassName, NEW run, RunOK(run), NEW count \in Nat,
           NEW order, NEW ps, Takers(pass, order, ps)
    PROVE  Adds(pass, run, Pass(pass, run, count, order), ps)
<1> DEFINE n == Len(order)
<1>0. n \in Nat
  BY DEF Takers
<1>1. PICK f : RunsTo(f, pass, run, count, order)
  BY PassRuns
<1> DEFINE S == {i \in 0..n : Adds(pass, run, f[i], ps)}
<1>2. 0 \in S
  <2>1. f[0] = Begin(run, count)
    BY <1>1 DEF RunsTo
  <2>2. RunOK(f[0]) /\ f[0].txs = run.txs
    BY <2>1, BeginDoes
  <2>3. Adds(pass, run, f[0], ps)
    BY <2>2 DEF Adds
  <2> QED BY <1>0, <2>3
<1>3. ASSUME NEW i \in 1..n, i - 1 \in S PROVE i \in S
  <2>1. Takes(pass, f[i - 1], f[i], order[i]) /\ order[i] \in ps
    BY <1>1 DEF RunsTo, Takers
  <2>2. Adds(pass, run, f[i - 1], ps) /\ i \in 0..n
    BY <1>0, <1>3
  <2>3. CASE f[i] = f[i - 1] \/ f[i] = Stop(f[i - 1])
    <3>1. f[i].txs = f[i - 1].txs
      BY <2>2, <2>3, StopDoes DEF Adds
    <3> QED BY <2>1, <2>2, <3>1 DEF Adds, Takes
  <2>4. CASE \E t : Submits(f[i - 1], f[i], t) /\ t.peer = order[i] /\ May(pass, f[i - 1], t)
    <3>1. PICK t : Submits(f[i - 1], f[i], t) /\ t.peer = order[i] /\ May(pass, f[i - 1], t)
      BY <2>4
    <3>2. Suits(pass, t, ps)
      BY <2>1, <3>1 DEF Submits, May, Suits
    <3>3. f[i].txs = f[i - 1].txs \cup {t}
      BY <3>1 DEF Submits
    <3> QED BY <2>1, <2>2, <3>2, <3>3 DEF Adds, Takes
  <2> QED BY <2>1, <2>3, <2>4 DEF Takes
<1> HIDE DEF n, S
<1>4. 0..n \subseteq S
  BY <1>0, <1>2, <1>3, Upto
<1>5. n \in S
  BY <1>0, <1>4
<1>6. f[n] = Pass(pass, run, count, order)
  BY <1>1 DEF RunsTo, n
<1> QED BY <1>5, <1>6 DEF S

\* Holders can be counted.
LEMMA HoldersArePeers ==
    ASSUME NEW ts, ts \subseteq Tx, NEW kind
    PROVE  /\ Holders(ts, kind) \subseteq Peer /\ IsFiniteSet(Holders(ts, kind))
           /\ Cardinality(Holders(ts, kind)) \in Nat
<1>1. Holders(ts, kind) \subseteq Peer
  BY DEF Holders, Leased, Tx
<1> QED BY <1>1, LifecycleAssumption, FS_Subset, FS_CardinalityType

\* A submission is one holder more of its kind.
LEMMA HoldersGrow ==
    ASSUME NEW r, RunOK(r), NEW s, NEW t, Submits(r, s, t), NEW kind
    PROVE  IF kind = t.kind
           THEN /\ t.peer \in Peer
                /\ Holders(s.txs, kind) = Holders(r.txs, kind) \cup {t.peer}
                /\ Cardinality(Holders(s.txs, kind)) = Cardinality(Holders(r.txs, kind)) + 1
           ELSE Holders(s.txs, kind) = Holders(r.txs, kind)
<1>1. s.txs = r.txs \cup {t} /\ t.leased /\ t.peer \notin Holders(r.txs, t.kind) /\ t \in Tx
  BY DEF Submits
<1>2. CASE kind = t.kind
  <2>1. Holders(s.txs, kind) = Holders(r.txs, kind) \cup {t.peer}
    BY <1>1, <1>2 DEF Holders, Leased
  <2>2. IsFiniteSet(Holders(r.txs, kind))
    BY HoldersArePeers DEF RunOK
  <2>3. t.peer \in Peer /\ t.peer \notin Holders(r.txs, kind)
    BY <1>1, <1>2 DEF Tx
  <2>4. Cardinality(Holders(r.txs, kind) \cup {t.peer}) = Cardinality(Holders(r.txs, kind)) + 1
    BY <2>2, <2>3, FS_AddElement
  <2> QED BY <1>2, <2>1, <2>3, <2>4
<1>3. CASE kind # t.kind
  BY <1>1, <1>3 DEF Holders, Leased
<1> QED BY <1>2, <1>3

\* The cap a pass counts against, and the kind of what it counts.
KindOf(pass) == IF pass = "finalize" THEN "finalize" ELSE "close"
CapOf(pass)  == IF pass = "finalize" THEN FinalizeCap ELSE CloseCap

Counts(pass, r) ==
    Cardinality(Holders(r.txs, KindOf(pass))) <= r.count /\ r.count <= CapOf(pass)

\* A pass that starts from the number in flight ends within its cap, and a close pass that closes
\* at all leaves the floor.
LEMMA PassCounts ==
    ASSUME TickOK, NEW pass \in {"close", "cull", "finalize"}, NEW run, RunOK(run),
           Cardinality(Holders(run.txs, KindOf(pass))) <= CapOf(pass),
           NEW order, NEW ps, Takers(pass, order, ps)
    PROVE  LET start == Count(run, KindOf(pass))
               done  == Pass(pass, run, start, order)
           IN  /\ Counts(pass, done)
               /\ done.count > start \/ (done.count = start /\ done.txs = run.txs)
               /\ pass = "close" /\ done.count > start => OpenCount(tick.opening) - done.count >= MinOpen
<1> DEFINE n == Len(order)
           start == Count(run, KindOf(pass))
<1>0. n \in Nat /\ pass \in PassName /\ start \in Nat /\ CapOf(pass) \in Nat
  BY HoldersArePeers, LifecycleAssumption DEF Takers, PassName, Count, CapOf, RunOK
<1>1. PICK f : RunsTo(f, pass, run, start, order)
  BY <1>0, PassRuns
<1> DEFINE Fine(r) == /\ Counts(pass, r)
                      /\ r.count > start \/ (r.count = start /\ r.txs = run.txs)
                      /\ pass = "close" /\ r.count > start => OpenCount(tick.opening) - r.count >= MinOpen
           S == {i \in 0..n : Fine(f[i])}
<1>2. 0 \in S
  <2>1. f[0].txs = run.txs /\ f[0].count = start
    <3>1. f[0] = Begin(run, start)
      BY <1>1 DEF RunsTo
    <3> HIDE DEF start
    <3> QED BY <1>0, <3>1, BeginDoes
  <2>2. Fine(f[0])
    BY <1>0, <2>1 DEF Counts, Count
  <2> QED BY <1>0, <2>2
<1>3. ASSUME NEW i \in 1..n, i - 1 \in S PROVE i \in S
  <2> DEFINE r == f[i - 1]
             s == f[i]
  <2>1. Takes(pass, r, s, order[i]) /\ Fine(r) /\ i \in 0..n
    BY <1>0, <1>1, <1>3 DEF RunsTo
  <2>2. RunOK(r) /\ RunOK(s)
    <3>1. i \in 0..n /\ i - 1 \in 0..n
      BY <1>0
    <3> QED BY <1>1, <3>1 DEF RunsTo
  <2> HIDE DEF r, s
  <2>3. Fine(s)
    <3>1. CASE s = r \/ s = Stop(r)
      <4>1. s.txs = r.txs /\ s.count = r.count
        BY <2>2, <3>1, StopDoes
      <4> QED BY <2>1, <4>1 DEF Counts
    <3>2. CASE \E t : Submits(r, s, t) /\ t.peer = order[i] /\ May(pass, r, t)
      <4>1. PICK t : Submits(r, s, t) /\ May(pass, r, t)
        BY <3>2
      <4>2. s.count = r.count + 1 /\ r.count \in Nat
        BY <2>2, <4>1 DEF Submits, RunOK
      <4>3. t.kind = KindOf(pass) /\ r.count < CapOf(pass)
        BY <4>1 DEF May, KindOf, CapOf
      <4>4. Cardinality(Holders(s.txs, KindOf(pass))) = Cardinality(Holders(r.txs, KindOf(pass))) + 1
        BY <2>2, <4>1, <4>3, HoldersGrow
      <4>5. Cardinality(Holders(r.txs, KindOf(pass))) \in Nat
        BY <2>2, HoldersArePeers DEF RunOK
      <4>6. Counts(pass, s)
        BY <1>0, <2>1, <4>2, <4>3, <4>4, <4>5 DEF Counts
      <4>7. s.count > start
        BY <1>0, <2>1, <4>2
      <4>8. pass = "close" => OpenCount(tick.opening) - s.count >= MinOpen
        <5>1. OpenCount(tick.opening) \in Nat /\ MinOpen \in Nat
          BY OpenCountIsNumber, LifecycleAssumption DEF TickOK, Tick
        <5>2. pass = "close" => OpenCount(tick.opening) - r.count > MinOpen
          BY <4>1 DEF May
        <5> QED BY <4>2, <5>1, <5>2
      <4> HIDE DEF start
      <4>9. Fine(s)
          <5>1. s.count > start \/ (s.count = start /\ s.txs = run.txs)
            BY <4>7
          <5>2. pass = "close" /\ s.count > start => OpenCount(tick.opening) - s.count >= MinOpen
            BY <4>8
          <5> QED BY <4>6, <5>1, <5>2
      <4> QED BY <4>9
    <3> QED BY <2>1, <3>1, <3>2 DEF Takes
  <2> QED BY <2>1, <2>3 DEF s
<1> HIDE DEF n, S, Fine, start
<1>4. 0..n \subseteq S
  BY <1>0, <1>2, <1>3, Upto
<1>5. n \in S
  BY <1>0, <1>4
<1>6. Fine(f[n]) /\ f[n] = Pass(pass, run, start, order)
  BY <1>1, <1>5 DEF RunsTo, n, S
<1> QED BY <1>6 DEF Fine, start

\* What a pass has dispatched and what it has left are what there was to spend.
LEMMA PassBudget ==
    ASSUME TickOK, NEW pass \in PassName, NEW run, RunOK(run), NEW count \in Nat,
           NEW order, NEW ps, Takers(pass, order, ps), txs \subseteq run.txs
    PROVE  LET done == Pass(pass, run, count, order)
           IN  done.spend + Amounts(done.txs \ txs) = run.spend + Amounts(run.txs \ txs)
<1> DEFINE n == Len(order)
           Whole(r) == /\ txs \subseteq r.txs
                       /\ r.spend + Amounts(r.txs \ txs) = run.spend + Amounts(run.txs \ txs)
<1>0. n \in Nat
  BY DEF Takers
<1>1. PICK f : RunsTo(f, pass, run, count, order)
  BY PassRuns
<1> DEFINE S == {i \in 0..n : Whole(f[i])}
<1>2. 0 \in S
  <2>1. f[0] = Begin(run, count)
    BY <1>1 DEF RunsTo
  <2>2. f[0].txs = run.txs /\ f[0].spend = run.spend
    BY <2>1, BeginDoes
  <2>3. Whole(f[0])
    BY <2>2
  <2> HIDE DEF Whole
  <2> QED BY <1>0, <2>3
<1>3. ASSUME NEW i \in 1..n, i - 1 \in S PROVE i \in S
  <2> DEFINE r == f[i - 1]
             s == f[i]
  <2>1. Takes(pass, r, s, order[i]) /\ Whole(r) /\ i \in 0..n
    BY <1>0, <1>1, <1>3 DEF RunsTo
  <2>2. RunOK(r) /\ RunOK(s)
    <3>1. i \in 0..n /\ i - 1 \in 0..n
      BY <1>0
    <3> QED BY <1>1, <3>1 DEF RunsTo
  <2> HIDE DEF r, s
  <2>3. Whole(s)
    <3>1. CASE s = r \/ s = Stop(r)
      <4>1. s.txs = r.txs /\ s.spend = r.spend
        BY <2>2, <3>1, StopDoes
      <4> QED BY <2>1, <4>1
    <3>2. CASE \E t : Submits(r, s, t) /\ t.peer = order[i] /\ May(pass, r, t)
      <4>1. PICK t : Submits(r, s, t)
        BY <3>2
      <4>2. t \notin r.txs /\ s.txs = r.txs \cup {t} /\ s.spend = r.spend - t.amount /\ t \in Tx
        BY <4>1 DEF Submits
      <4>3. t \in s.txs \ txs /\ (s.txs \ txs) \ {t} = r.txs \ txs /\ txs \subseteq s.txs
        BY <2>1, <4>2
      <4>4. IsFiniteSet(s.txs \ txs) /\ \A u \in s.txs \ txs : u.amount \in Nat
        BY <2>2, FS_Subset DEF RunOK, TxsOK, Tx
      <4>5. IsFiniteSet(r.txs \ txs) /\ \A u \in r.txs \ txs : u.amount \in Nat
        BY <2>2, FS_Subset DEF RunOK, TxsOK, Tx
      <4>6. Amounts(s.txs \ txs) = t.amount + Amounts(r.txs \ txs)
        BY <4>3, <4>4, AmountsAdd
      <4>7. Amounts(r.txs \ txs) \in Nat
        BY <4>5, AmountsAdd
      <4>8. t.amount \in Nat /\ r.spend \in Nat
        BY <2>2, <4>2 DEF Tx, RunOK
      <4> QED BY <2>1, <4>2, <4>3, <4>6, <4>7, <4>8
    <3> QED BY <2>1, <3>1, <3>2 DEF Takes
  <2> QED BY <2>1, <2>3 DEF s
<1> HIDE DEF n, S, Whole
<1>4. 0..n \subseteq S
  BY <1>0, <1>2, <1>3, Upto
<1>5. n \in S
  BY <1>0, <1>4
<1>6. Whole(f[n]) /\ f[n] = Pass(pass, run, count, order)
  BY <1>1, <1>5 DEF RunsTo, n, S
<1> QED BY <1>6 DEF Whole

-----------------------------------------------------------------------------
(***************************************************************************)
(* The invariant: types, a tick that carries nothing before its fund pass, *)
(* a budget spent or left, and deferred channels below one face value.     *)
(***************************************************************************)
TickFresh == tick.phase # "select" => tick.opens = {} /\ tick.deferred = {} /\ tick.spent = 0

Budgeted == tick.spend + tick.spent = IF tick.safe = Unknown THEN 0 ELSE Min({tick.safe, Allowance})

DeferredPoor == \A p \in tick.deferred : Shown(p).balance < FaceValue

\* Together.
Sound == TypeOK /\ IsFiniteSet(txs) /\ TickFresh /\ Budgeted /\ DeferredPoor

\* What the passes of a tick start from.
LEMMA SoundGives ==
    ASSUME Sound
    PROVE  /\ TickOK /\ RunOK(Run) /\ TxsOK(txs) /\ Run.txs = txs /\ Run.spend = tick.spend
           /\ tick.spend \in Nat /\ tick.spent \in Nat /\ tick.deferred \subseteq Peer
           /\ tick.opens \subseteq Peer /\ tick.opening \subseteq Peer
           /\ ShownOpen \subseteq Peer /\ ShownPending \subseteq Peer
<1> USE DEF Sound
<1>1. /\ tick.spend \in Nat /\ tick.spent \in Nat /\ tick.deferred \subseteq Peer
      /\ tick.opens \subseteq Peer /\ tick.opening \subseteq Peer
  BY DEF TypeOK, Tick
<1>2. TickOK
  BY DEF TickOK, TypeOK, DeferredPoor
<1>3. TxsOK(txs)
  BY DEF TypeOK, TxsOK, Distinct
<1>4. RunOK(Run)
  BY <1>1, <1>3 DEF RunOK, Run, TxsOK
<1> QED BY <1>1, <1>2, <1>3, <1>4 DEF Run, ShownOpen, ShownPending

\* The orders a pass may get its candidates in.
LEMMA SequenceOfSet ==
    ASSUME NEW ps, ps \subseteq Peer, NEW order \in SetToSeqs(ps)
    PROVE  Len(order) \in Nat /\ \A i \in 1..Len(order) : order[i] \in ps
<1>1. Cardinality(ps) \in Nat
  BY LifecycleAssumption, FS_Subset, FS_CardinalityType
<1>2. order \in [1..Cardinality(ps) -> ps]
  BY DEF SetToSeqs
<1> DEFINE n == Cardinality(ps)
<1> HIDE DEF n
<1>3. n \in Nat /\ order \in [1..n -> ps]
  BY <1>1, <1>2 DEF n
<1>4. order \in Seq(ps) /\ Len(order) = n
  BY <1>3
<1> QED BY <1>3, <1>4

\* Any candidates, in any order.
LEMMA SequenceOfSome ==
    ASSUME NEW ps, ps \subseteq Peer, NEW order \in SetToAllKPermutations(ps)
    PROVE  Len(order) \in Nat /\ \A i \in 1..Len(order) : order[i] \in ps
<1>1. PICK qs \in SUBSET ps : order \in SetToSeqs(qs)
  BY DEF SetToAllKPermutations
<1>2. Len(order) \in Nat /\ \A i \in 1..Len(order) : order[i] \in qs
  BY <1>1, SequenceOfSet
<1> QED BY <1>1, <1>2

-----------------------------------------------------------------------------
(***************************************************************************)
(* The two steps of a tick that dispatch.                                  *)
(***************************************************************************)
\* The fund pass dispatched the fundings of `run` and put `deferred` off.
FundsOnly(run, deferred, opening) ==
    /\ Adds("fund", Run, run, Peer)
    /\ run.spend + Amounts(run.txs \ txs) = tick.spend
    /\ txs' = run.txs
    /\ deferred \subseteq Peer /\ \A p \in deferred : Shown(p).balance < FaceValue
    /\ tick' = [tick EXCEPT !.phase = "select", !.priced = TRUE, !.opening = opening,
                            !.spend = run.spend, !.spent = Amounts(run.txs \ txs),
                            !.deferred = deferred, !.opens = Openable]

\* An empty sum.
LEMMA NothingSpent ==
    Amounts(txs \ txs) = 0
BY AmountsOfNone

\* A pass that is left out adds nothing.
LEMMA NoneAdded ==
    ASSUME NEW pass, NEW run, RunOK(run), NEW ps
    PROVE  Adds(pass, run, run, ps)
BY DEF Adds

\* So does Resolve when it knows the Safe.
LEMMA FundPassDoes ==
    ASSUME Sound, NEW needy \in SUBSET Peer, NEW opening, FundPass(needy, opening)
    PROVE  \E run, deferred : FundsOnly(run, deferred, opening)
<1> DEFINE required == TopUp * Cardinality(needy)
                       + Initial * Max({0, MinOpen - OpenCount(opening)})
           deferred == IF TopUp = 0 \/ tick.safe >= required THEN {}
                       ELSE {p \in needy : Shown(p).balance < FaceValue}
           done(order) == IF TopUp = 0 THEN Run ELSE Pass("fund", Run, 0, order)
<1>1. deferred \subseteq Peer /\ \A p \in deferred : Shown(p).balance < FaceValue
  OBVIOUS
<1>2. PICK order \in Neediest(needy \ deferred) :
         /\ txs' = done(order).txs
         /\ tick' = [tick EXCEPT !.phase = "select", !.priced = TRUE, !.opening = opening,
                                 !.spend = done(order).spend, !.spent = Amounts(done(order).txs \ txs),
                                 !.deferred = deferred, !.opens = Openable]
  BY DEF FundPass
<1> HIDE DEF deferred
<1>3. Adds("fund", Run, done(order), Peer)
      /\ done(order).spend + Amounts(done(order).txs \ txs) = tick.spend
  <2>1. TickOK /\ RunOK(Run) /\ Run.txs = txs /\ Run.spend = tick.spend /\ tick.spend \in Nat
    BY SoundGives
  <2>2. CASE TopUp = 0
    BY <2>1, <2>2, NothingSpent, NoneAdded
  <2>3. CASE TopUp # 0
    <3>1. order \in SetToSeqs(needy \ deferred) /\ needy \ deferred \subseteq Peer
      BY DEF Neediest
    <3>2. Len(order) \in Nat /\ \A i \in 1..Len(order) : order[i] \in needy \ deferred
      BY <3>1, SequenceOfSet
    <3>3. Takers("fund", order, Peer)
      BY <3>1, <3>2 DEF Takers
    <3>4. Adds("fund", Run, Pass("fund", Run, 0, order), Peer)
      BY <2>1, <3>3, PassAdds DEF PassName
    <3>5. Pass("fund", Run, 0, order).spend + Amounts(Pass("fund", Run, 0, order).txs \ txs)
             = Run.spend + Amounts(Run.txs \ txs)
      BY <2>1, <3>3, PassBudget DEF PassName
    <3> QED BY <2>1, <2>3, <3>4, <3>5, NothingSpent
  <2> QED BY <2>2, <2>3
<1> HIDE DEF done
<1> QED BY <1>1, <1>2, <1>3 DEF FundsOnly

\* The five passes after the selector, by the runs between them.
Passes(closed, culled, topped, finalized, opened) ==
    /\ Adds("close", Run, closed, ShownOpen)
    /\ Adds("cull", closed, culled, tick.deferred)
    /\ Adds("topup", culled, topped, tick.deferred)
    /\ Adds("finalize", topped, finalized, ShownPending)
    /\ Adds("open", finalized, opened, tick.opens)
    /\ opened.spend + Amounts(opened.txs \ txs) = tick.spend
    /\ CapsHold => /\ Counts("close", closed) /\ Counts("cull", culled)
                   /\ Counts("finalize", finalized)
                   /\ \/ closed.txs = txs
                      \/ OpenCount(tick.opening) - closed.count >= MinOpen

\* A pass leaves the holders of other kinds alone.
LEMMA AddedKeeps ==
    ASSUME NEW pass \in PassName, NEW run, NEW s, NEW ps, Adds(pass, run, s, ps), NEW kind,
           pass \in {"fund", "topup", "open"} => kind \in {"close", "finalize"},
           pass \in {"close", "cull"} => kind # "close",
           pass = "finalize" => kind # "finalize"
    PROVE  Holders(s.txs, kind) = Holders(run.txs, kind)
<1>1. \A t \in s.txs \ run.txs : t.kind # kind
  BY DEF Adds, Suits, PassName
<1>2. run.txs \subseteq s.txs
  BY DEF Adds
<1> QED BY <1>1, <1>2 DEF Holders, Leased

\* So does Act.
LEMMA ActDoes ==
    ASSUME Sound, Act
    PROVE  \E closed, culled, topped, finalized, opened :
              Passes(closed, culled, topped, finalized, opened) /\ txs' = opened.txs
<1>0. /\ TickOK /\ RunOK(Run) /\ Run.txs = txs /\ Run.spend = tick.spend
      /\ tick.spend \in Nat /\ tick.deferred \subseteq Peer /\ tick.opens \subseteq Peer
      /\ ShownOpen \subseteq Peer /\ ShownPending \subseteq Peer /\ 0 \in Nat
  BY SoundGives
<1>1. PICK ranked \in SetToAllKPermutations(ShownOpen) :
         LET closed == Pass("close", Run, Count(Run, "close"), ranked) IN
         \E culls \in Culls(closed) :
         LET culled == Pass("cull", closed, Count(closed, "close"), culls) IN
         \E kept \in Cheapest(Deferred(culled) \ ToSet(culls)), pending \in SetToSeqs(ShownPending) :
         LET topped    == Pass("topup", culled, 0, kept)
             finalized == Pass("finalize", topped, Count(topped, "finalize"), pending) IN
         \E opens \in Openings : txs' = Pass("open", finalized, 0, opens).txs
  BY DEF Act
<1> DEFINE closed == Pass("close", Run, Count(Run, "close"), ranked)
<1>2. PICK culls \in Culls(closed) :
         LET culled == Pass("cull", closed, Count(closed, "close"), culls) IN
         \E kept \in Cheapest(Deferred(culled) \ ToSet(culls)), pending \in SetToSeqs(ShownPending) :
         LET topped    == Pass("topup", culled, 0, kept)
             finalized == Pass("finalize", topped, Count(topped, "finalize"), pending) IN
         \E opens \in Openings : txs' = Pass("open", finalized, 0, opens).txs
  BY <1>1
<1> DEFINE culled == Pass("cull", closed, Count(closed, "close"), culls)
<1>3. PICK kept \in Cheapest(Deferred(culled) \ ToSet(culls)), pending \in SetToSeqs(ShownPending) :
         LET topped    == Pass("topup", culled, 0, kept)
             finalized == Pass("finalize", topped, Count(topped, "finalize"), pending) IN
         \E opens \in Openings : txs' = Pass("open", finalized, 0, opens).txs
  BY <1>2
<1> DEFINE topped    == Pass("topup", culled, 0, kept)
           finalized == Pass("finalize", topped, Count(topped, "finalize"), pending)
<1>4. PICK opens \in Openings : txs' = Pass("open", finalized, 0, opens).txs
  BY <1>3
<1> DEFINE opened == Pass("open", finalized, 0, opens)
<1>5. /\ Takers("close", ranked, ShownOpen)
      /\ Takers("cull", culls, tick.deferred)
      /\ Takers("topup", kept, tick.deferred)
      /\ Takers("finalize", pending, ShownPending)
      /\ Takers("open", opens, tick.opens)
  <2>1. Takers("close", ranked, ShownOpen)
    BY <1>0, SequenceOfSome DEF Takers
  <2>2. Takers("cull", culls, tick.deferred)
    <3>1. culls \in SetToAllKPermutations(Deferred(closed)) /\ Deferred(closed) \subseteq tick.deferred
      BY DEF Culls, Deferred
    <3>2. Len(culls) \in Nat /\ \A i \in 1..Len(culls) : culls[i] \in Deferred(closed)
      BY <1>0, <3>1, SequenceOfSome
    <3> QED BY <1>0, <3>1, <3>2 DEF Takers
  <2>3. Takers("topup", kept, tick.deferred)
    <3> DEFINE qs == Deferred(culled) \ ToSet(culls)
    <3>1. kept \in SetToSeqs(qs) /\ qs \subseteq tick.deferred
      BY DEF Cheapest, Deferred
    <3> HIDE DEF qs
    <3>2. Len(kept) \in Nat /\ \A i \in 1..Len(kept) : kept[i] \in qs
      BY <1>0, <3>1, SequenceOfSet
    <3> QED BY <1>0, <3>1, <3>2 DEF Takers
  <2>4. Takers("finalize", pending, ShownPending)
    BY <1>0, SequenceOfSet DEF Takers
  <2>5. Takers("open", opens, tick.opens)
    <3>1. opens \in SetToAllKPermutations(tick.opens) \/ opens = <<>>
      BY DEF Openings
    <3>2. Len(opens) \in Nat /\ \A i \in 1..Len(opens) : opens[i] \in tick.opens
      <4>1. CASE opens = <<>>
        BY <4>1
      <4>2. CASE opens \in SetToAllKPermutations(tick.opens)
        BY <1>0, <4>2, SequenceOfSome
      <4> QED BY <3>1, <4>1, <4>2
    <3> QED BY <1>0, <3>2 DEF Takers
  <2> QED BY <2>1, <2>2, <2>3, <2>4, <2>5
<1> HIDE DEF closed, culled, topped, finalized, opened
<1>6. /\ Adds("close", Run, closed, ShownOpen) /\ RunOK(closed) /\ txs \subseteq closed.txs
      /\ closed.spend + Amounts(closed.txs \ txs) = tick.spend
  <2>1. Count(Run, "close") \in Nat
    BY <1>0, HoldersArePeers DEF Count, RunOK
  <2>2. Adds("close", Run, closed, ShownOpen)
    BY <1>0, <1>5, <2>1, PassAdds DEF PassName, closed
  <2>3. closed.spend + Amounts(closed.txs \ txs) = Run.spend + Amounts(Run.txs \ txs)
    BY <1>0, <1>5, <2>1, PassBudget DEF PassName, closed
  <2> QED BY <1>0, <2>2, <2>3, NothingSpent DEF Adds
<1>7. /\ Adds("cull", closed, culled, tick.deferred) /\ RunOK(culled) /\ txs \subseteq culled.txs
      /\ culled.spend + Amounts(culled.txs \ txs) = tick.spend
  <2>1. Count(closed, "close") \in Nat
    BY <1>6, HoldersArePeers DEF Count, RunOK
  <2>2. Adds("cull", closed, culled, tick.deferred)
    BY <1>0, <1>5, <1>6, <2>1, PassAdds DEF PassName, culled
  <2>3. culled.spend + Amounts(culled.txs \ txs) = closed.spend + Amounts(closed.txs \ txs)
    BY <1>0, <1>5, <1>6, <2>1, PassBudget DEF PassName, culled
  <2> QED BY <1>6, <2>2, <2>3 DEF Adds
<1>8. /\ Adds("topup", culled, topped, tick.deferred) /\ RunOK(topped) /\ txs \subseteq topped.txs
      /\ topped.spend + Amounts(topped.txs \ txs) = tick.spend
  <2>2. Adds("topup", culled, topped, tick.deferred)
    BY <1>0, <1>5, <1>7, PassAdds DEF PassName, topped
  <2>3. topped.spend + Amounts(topped.txs \ txs) = culled.spend + Amounts(culled.txs \ txs)
    BY <1>0, <1>5, <1>7, PassBudget DEF PassName, topped
  <2> QED BY <1>7, <2>2, <2>3 DEF Adds
<1>9. /\ Adds("finalize", topped, finalized, ShownPending) /\ RunOK(finalized)
      /\ txs \subseteq finalized.txs
      /\ finalized.spend + Amounts(finalized.txs \ txs) = tick.spend
  <2>1. Count(topped, "finalize") \in Nat
    BY <1>8, HoldersArePeers DEF Count, RunOK
  <2>2. Adds("finalize", topped, finalized, ShownPending)
    BY <1>0, <1>5, <1>8, <2>1, PassAdds DEF PassName, finalized
  <2>3. finalized.spend + Amounts(finalized.txs \ txs) = topped.spend + Amounts(topped.txs \ txs)
    BY <1>0, <1>5, <1>8, <2>1, PassBudget DEF PassName, finalized
  <2> QED BY <1>8, <2>2, <2>3 DEF Adds
<1>10. /\ Adds("open", finalized, opened, tick.opens)
       /\ opened.spend + Amounts(opened.txs \ txs) = tick.spend
  <2>2. Adds("open", finalized, opened, tick.opens)
    BY <1>0, <1>5, <1>9, PassAdds DEF PassName, opened
  <2>3. opened.spend + Amounts(opened.txs \ txs) = finalized.spend + Amounts(finalized.txs \ txs)
    BY <1>0, <1>5, <1>9, PassBudget DEF PassName, opened
  <2> QED BY <1>9, <2>2, <2>3 DEF Adds
<1>11. ASSUME CapsHold
       PROVE  /\ Counts("close", closed) /\ Counts("cull", culled) /\ Counts("finalize", finalized)
              /\ closed.txs = txs \/ OpenCount(tick.opening) - closed.count >= MinOpen
  <2>1. /\ Cardinality(Holders(Run.txs, KindOf("close"))) <= CapOf("close")
        /\ Count(Run, KindOf("close")) = Count(Run, "close")
    BY <1>0, <1>11 DEF CapsHold, KindOf, CapOf
  <2>2. /\ Counts("close", closed)
        /\ closed.txs = txs \/ OpenCount(tick.opening) - closed.count >= MinOpen
    BY <1>0, <1>5, <2>1, PassCounts DEF closed
  <2>3. /\ Cardinality(Holders(closed.txs, KindOf("cull"))) <= CapOf("cull")
        /\ Count(closed, KindOf("cull")) = Count(closed, "close")
    <3>1. /\ Cardinality(Holders(closed.txs, "close")) <= closed.count
          /\ closed.count <= CloseCap
      BY <2>2 DEF Counts, KindOf, CapOf
    <3>2. Cardinality(Holders(closed.txs, "close")) \in Nat /\ closed.count \in Nat /\ CloseCap \in Nat
      BY <1>6, HoldersArePeers, LifecycleAssumption DEF RunOK
    <3> QED BY <3>1, <3>2 DEF KindOf, CapOf
  <2>4. Counts("cull", culled)
    BY <1>0, <1>5, <1>6, <2>3, PassCounts DEF culled
  <2>5. Holders(topped.txs, "finalize") = Holders(txs, "finalize")
    BY <1>0, <1>6, <1>7, <1>8, AddedKeeps DEF PassName
  <2>6. /\ Cardinality(Holders(topped.txs, KindOf("finalize"))) <= CapOf("finalize")
        /\ Count(topped, KindOf("finalize")) = Count(topped, "finalize")
    BY <1>11, <2>5 DEF CapsHold, KindOf, CapOf
  <2>7. Counts("finalize", finalized)
    BY <1>0, <1>5, <1>8, <2>6, PassCounts DEF finalized
  <2> QED BY <2>2, <2>4, <2>7
<1>12. Passes(closed, culled, topped, finalized, opened)
  BY <1>6, <1>7, <1>8, <1>9, <1>10, <1>11 DEF Passes
<1>13. txs' = opened.txs
  BY <1>4 DEF opened
<1> QED BY <1>12, <1>13

-----------------------------------------------------------------------------
(***************************************************************************)
(* The invariant is kept, action by action.                                *)
(***************************************************************************)
\* The parts of TypeOK.
ChainTyped ==
    /\ chan \in [Peer -> Channel] /\ safe \in Nat
    /\ rest \in [Peer -> 0..Cooldown]

EventsTyped == events \in Seq(ChainEvent) /\ Len(events) <= MaxEvents

LoopTyped ==
    /\ cooldown \in [Peer -> 0..Cooldown]
    /\ seenClosed \subseteq Peer /\ shown \subseteq Peer
    /\ resolved \in BOOLEAN
    /\ tick \in Tick

BoundsTyped == drains \in 0..MaxDrains /\ faults \in 0..MaxFaults

\* The invariant part by part, before and after a step.
LEMMA SoundParts ==
    Sound <=> /\ ChainTyped /\ EventsTyped /\ TxsOK(txs) /\ LoopTyped /\ BoundsTyped
              /\ TickFresh /\ Budgeted /\ DeferredPoor
BY DEF Sound, TypeOK, ChainTyped, EventsTyped, TxsOK, Distinct, LoopTyped, BoundsTyped

\* The parts of the invariant after a step.
LEMMA SoundPartsNext ==
    Sound' <=> /\ ChainTyped' /\ EventsTyped' /\ TxsOK(txs') /\ LoopTyped' /\ BoundsTyped'
               /\ TickFresh' /\ Budgeted' /\ DeferredPoor'
BY DEF Sound, TypeOK, ChainTyped, EventsTyped, TxsOK, Distinct, LoopTyped, BoundsTyped

\* Transactions stay well-formed when some are dropped, one is marked, or a slot is released.
LEMMA HeardTyped ==
    ASSUME NEW ts, TxsOK(ts)
    PROVE  TxsOK(Heard(ts))
BY FS_Subset DEF TxsOK, Heard, Distinct

\* One transaction replaced by another of its name.
LEMMA MarkedTyped ==
    ASSUME NEW ts, TxsOK(ts), NEW t \in ts, NEW u \in Tx,
           u.kind = t.kind, u.peer = t.peer, u.n = t.n
    PROVE  TxsOK((ts \ {t}) \cup {u})
<1>1. IsFiniteSet((ts \ {t}) \cup {u})
  BY FS_RemoveElement, FS_AddElement DEF TxsOK
<1>2. Distinct((ts \ {t}) \cup {u})
  BY DEF TxsOK, Distinct
<1> QED BY <1>1, <1>2 DEF TxsOK

\* A slot released.
LEMMA ReleasedTyped ==
    ASSUME TxsOK(txs), NEW kind, NEW p
    PROVE  /\ TxsOK(Released(kind, p))
           /\ \A k : Holders(Released(kind, p), k) \subseteq Holders(txs, k)
           /\ \A u \in Released(kind, p) :
                 \E t \in txs : u.kind = t.kind /\ u.peer = t.peer /\ u.sent = t.sent
<1> DEFINE Mark(t) == IF t.kind = kind /\ t.peer = p THEN [t EXCEPT !.leased = FALSE] ELSE t
           all == {Mark(t) : t \in txs}
           g == [t \in txs |-> Mark(t)]
<1>1. \A t \in txs : /\ Mark(t) \in Tx /\ Mark(t).kind = t.kind /\ Mark(t).peer = t.peer
                     /\ Mark(t).n = t.n /\ Mark(t).sent = t.sent /\ (Mark(t).leased => t.leased)
  BY DEF TxsOK, Tx
<1>2. g \in Surjection(txs, all)
  BY DEF Surjection
<1>3. Released(kind, p) = Heard(all)
  BY DEF Released
<1>4. all = {g[t] : t \in txs} /\ \A t \in txs : g[t] = Mark(t)
  OBVIOUS
<1> HIDE DEF Mark, all, g
<1>5. IsFiniteSet(all)
  BY <1>2, FS_Surjection DEF TxsOK
<1>6. \A u \in all : \E t \in txs : u = Mark(t)
  BY <1>4
<1>7. Distinct(all)
  BY <1>1, <1>6 DEF TxsOK, Distinct
<1>8. TxsOK(all)
  BY <1>1, <1>5, <1>6, <1>7 DEF TxsOK
<1>9. \A k : Holders(Heard(all), k) \subseteq Holders(txs, k)
  BY <1>1, <1>6 DEF Heard, Holders, Leased
<1>10. \A u \in Heard(all) : \E t \in txs : u.kind = t.kind /\ u.peer = t.peer /\ u.sent = t.sent
  BY <1>1, <1>6 DEF Heard
<1> QED BY <1>3, <1>8, <1>9, <1>10, HeardTyped

\* Events are well-formed and within the capacity of the broadcast.
LEMMA EmitTyped ==
    ASSUME EventsTyped, chan' \in [Peer -> Channel],
           NEW kind \in {"opened", "increased", "decreased", "closing", "closed"},
           NEW p \in Peer, Emit(kind, p)
    PROVE  EventsTyped'
<1> DEFINE e == [kind |-> kind, peer |-> p, status |-> chan'[p].status, balance |-> chan'[p].balance]
<1>1. e \in ChainEvent
  <2>1. chan'[p] \in Channel
    OBVIOUS
  <2>2. chan'[p].status \in Status /\ chan'[p].balance \in Nat
    BY <2>1 DEF Channel
  <2> QED BY <2>2 DEF ChainEvent
<1>2. events' = IF Len(events) < MaxEvents THEN Append(events, e) ELSE events
  BY DEF Emit
<1> HIDE DEF e
<1>3. MaxEvents \in Nat /\ Len(events) \in Nat
  BY LifecycleAssumption DEF EventsTyped
<1>4. Append(events, e) \in Seq(ChainEvent) /\ Len(Append(events, e)) = Len(events) + 1
  BY <1>1 DEF EventsTyped
<1> QED BY <1>2, <1>3, <1>4 DEF EventsTyped

\* An event taken off the queue.
LEMMA TailTyped ==
    ASSUME EventsTyped, events # <<>>, events' = Tail(events)
    PROVE  EventsTyped' /\ Head(events) \in ChainEvent
<1>1. /\ Tail(events) \in Seq(ChainEvent) /\ Len(Tail(events)) = Len(events) - 1
      /\ Head(events) \in ChainEvent /\ Len(events) \in Nat
  BY DEF EventsTyped
<1> QED BY <1>1, LifecycleAssumption DEF EventsTyped

\* Faults stay within their bound.
LEMMA FaultTyped ==
    ASSUME faults \in 0..MaxFaults, Fault
    PROVE  faults' \in 0..MaxFaults
BY LifecycleAssumption DEF Fault

\* No tick under way.
LEMMA NoTickTyped ==
    NoTick \in Tick /\ NoTick.spend = 0 /\ NoTick.spent = 0 /\ NoTick.safe = Unknown
    /\ NoTick.deferred = {} /\ NoTick.opens = {} /\ NoTick.phase = "idle"
BY DEF Tick, NoTick, Channel, Status, Absent

\* The initial states.
LEMMA SoundFirst ==
    ASSUME Init
    PROVE  Sound
<1> USE LifecycleAssumption DEF Init
<1>0. Cooldown \in Nat /\ StartSafe \in Nat /\ MaxEvents \in Nat /\ MaxDrains \in Nat /\ MaxFaults \in Nat
  OBVIOUS
<1>1. ChainTyped /\ EventsTyped /\ BoundsTyped
  <2>1. {Absent} \cup [status : {"open", "overdue"}, balance : StartBalances] \subseteq Channel
    <3>1. {"open", "overdue"} \subseteq Status /\ StartBalances \subseteq Nat
      BY DEF Status, Pending
    <3>2. [status : {"open", "overdue"}, balance : StartBalances] \subseteq [status : Status, balance : Nat]
      BY <3>1
    <3>3. Absent \in Channel
      BY DEF Channel, Status, Absent
    <3> QED BY <3>2, <3>3 DEF Channel
  <2>2. ChainTyped
    BY <1>0, <2>1 DEF ChainTyped
  <2>3. EventsTyped
    BY <1>0 DEF EventsTyped
  <2> QED BY <1>0, <2>2, <2>3 DEF BoundsTyped
<1>2. TxsOK(txs)
  BY FS_EmptySet DEF TxsOK, Distinct
<1>3. LoopTyped
  <2>1. cooldown \in [Peer -> 0..Cooldown]
    BY <1>0
  <2>2. tick \in Tick
    BY NoTickTyped
  <2> QED BY <2>1, <2>2 DEF LoopTyped
<1>4. TickFresh /\ Budgeted /\ DeferredPoor
  BY DEF TickFresh, Budgeted, DeferredPoor, NoTick, Unknown
<1> QED BY <1>1, <1>2, <1>3, <1>4, SoundParts

\* Between two steps.
\* Steps outside a tick leave what it carries alone.
LEMMA TickFactsStay ==
    ASSUME Sound, UNCHANGED tick
    PROVE  TickFresh' /\ Budgeted' /\ DeferredPoor'
BY SoundParts DEF TickFresh, Budgeted, DeferredPoor, Shown

\* The steps of a tick.
LEMMA StartTickSound ==
    ASSUME Sound, StartTick
    PROVE  Sound'
<1> USE LifecycleAssumption, SoundParts DEF StartTick
<1>1. ChainTyped' /\ EventsTyped' /\ TxsOK(txs')
  BY DEF ChainTyped, EventsTyped, chainVars
<1>2. BoundsTyped'
  BY FaultTyped DEF BoundsTyped
<1>3. CASE tick' = [NoTick EXCEPT !.phase = "read", !.safe = safe, !.spend = Min({safe, Allowance})]
  <2>1. safe \in Nat /\ Min({safe, Allowance}) \in Nat
    BY MinOfTwo DEF ChainTyped
  <2>2. tick' \in Tick /\ tick'.phase = "read" /\ tick'.safe = safe /\ tick'.spend = Min({safe, Allowance})
        /\ tick'.spent = 0 /\ tick'.deferred = {} /\ tick'.opens = {}
    BY <1>3, <2>1 DEF Tick, NoTick, Channel, Status, Absent
  <2>3. LoopTyped'
    BY <2>2 DEF LoopTyped
  <2>4. TickFresh' /\ Budgeted' /\ DeferredPoor'
    BY <2>1, <2>2 DEF TickFresh, Budgeted, DeferredPoor, Unknown
  <2> QED BY <1>1, <1>2, <2>3, <2>4, SoundPartsNext
<1>4. CASE tick' = [NoTick EXCEPT !.phase = "read"]
  <2>2. tick' \in Tick /\ tick'.phase = "read" /\ tick'.safe = Unknown /\ tick'.spend = 0
        /\ tick'.spent = 0 /\ tick'.deferred = {} /\ tick'.opens = {}
    BY <1>4 DEF Tick, NoTick, Channel, Status, Absent
  <2>3. LoopTyped'
    BY <2>2 DEF LoopTyped
  <2>4. TickFresh' /\ Budgeted' /\ DeferredPoor'
    BY <2>2 DEF TickFresh, Budgeted, DeferredPoor, Unknown
  <2> QED BY <1>1, <1>2, <2>3, <2>4, SoundPartsNext
<1> QED BY <1>3, <1>4

\* A tick reads its snapshot, or gives up.
LEMMA ReadChannelsSound ==
    ASSUME Sound, ReadChannels
    PROVE  Sound'
<1> USE LifecycleAssumption, SoundParts
<1>1. ChainTyped' /\ EventsTyped' /\ TxsOK(txs')
  BY DEF ChainTyped, EventsTyped, chainVars, ReadChannels
<1>2. BoundsTyped'
  BY FaultTyped DEF BoundsTyped, ReadChannels
<1>3. CASE /\ tick' = [tick EXCEPT !.phase = "resolve", !.snap = chan]
           /\ cooldown' = Cooling(Unnoticed)
           /\ seenClosed' = Closed
           /\ shown' = shown \cup {p \in Occupied : cooldown[p] = 0}
  <2>1. /\ tick' \in Tick /\ tick'.phase = "resolve" /\ tick'.safe = tick.safe
        /\ tick'.spend = tick.spend /\ tick'.spent = tick.spent
        /\ tick'.deferred = tick.deferred /\ tick'.opens = tick.opens
    BY <1>3 DEF LoopTyped, ChainTyped, Tick
  <2>2. tick.phase = "read" /\ UNCHANGED resolved
    BY DEF ReadChannels
  <2>3. cooldown' \in [Peer -> 0..Cooldown] /\ seenClosed' \subseteq Peer /\ shown' \subseteq Peer
    BY <1>3 DEF LoopTyped, Closed, Occupied, Cooling
  <2>4. LoopTyped'
    BY <2>1, <2>2, <2>3 DEF LoopTyped
  <2>5. TickFresh' /\ Budgeted' /\ DeferredPoor'
    BY <2>1, <2>2 DEF TickFresh, Budgeted, DeferredPoor
  <2> QED BY <1>1, <1>2, <2>4, <2>5, SoundPartsNext
<1>4. CASE tick' = NoTick /\ UNCHANGED <<cooldown, seenClosed, shown>>
  <2>1. LoopTyped'
    BY <1>4, NoTickTyped DEF LoopTyped, ReadChannels
  <2>2. TickFresh' /\ Budgeted' /\ DeferredPoor'
    BY <1>4, NoTickTyped DEF TickFresh, Budgeted, DeferredPoor
  <2> QED BY <1>1, <1>2, <2>1, <2>2, SoundPartsNext
<1> QED BY <1>3, <1>4 DEF ReadChannels

\* Resolve funds, or knows too little to.
ResolveCases ==
    \/ \E run, deferred : /\ FundsOnly(run, deferred, Holders(txs, "open")) /\ tick.safe # Unknown
                          /\ resolved' = TRUE /\ UNCHANGED faults
    \/ /\ tick' \in {[tick EXCEPT !.phase = "select", !.priced = TRUE, !.opening = Holders(txs, "open")],
                     [tick EXCEPT !.phase = "select", !.opening = Holders(txs, "open")]}
       /\ resolved' \in {TRUE, resolved} /\ UNCHANGED txs
       /\ Fault \/ UNCHANGED faults

\* Resolving runs the fund pass, or submits nothing.
LEMMA ResolveDoes ==
    ASSUME Sound, Resolve
    PROVE  ResolveCases
<1>1. ASSUME NEW unworthy, NEW draining, tick.safe # Unknown, resolved' = TRUE, UNCHANGED faults,
             FundPass(Needy(unworthy, draining), Holders(txs, "open"))
      PROVE  ResolveCases
  <2>1. Needy(unworthy, draining) \in SUBSET Peer
    BY DEF Needy, ShownOpen
  <2> QED BY <1>1, <2>1, FundPassDoes DEF ResolveCases
<1> HIDE DEF ResolveCases
<1>2. CASE tick.safe = Unknown /\ resolved' = TRUE /\ UNCHANGED <<txs, faults>>
           /\ tick' = [tick EXCEPT !.phase = "select", !.priced = TRUE, !.opening = Holders(txs, "open")]
  BY <1>2 DEF ResolveCases
<1>3. CASE Fault /\ UNCHANGED <<txs, resolved>>
           /\ tick' = [tick EXCEPT !.phase = "select", !.opening = Holders(txs, "open")]
  BY <1>3 DEF ResolveCases
<1> QED BY <1>1, <1>2, <1>3 DEF Resolve

\* What the fund pass commits is counted against what the Safe showed.
LEMMA ResolveSound ==
    ASSUME Sound, Resolve
    PROVE  Sound'
<1> USE LifecycleAssumption, SoundParts
<1>1. ChainTyped' /\ EventsTyped'
  BY DEF ChainTyped, EventsTyped, chainVars, Resolve
<1>0. /\ tick.phase = "resolve" /\ UNCHANGED <<cooldown, seenClosed, shown, drains>>
      /\ Holders(txs, "open") \subseteq Peer
  BY HoldersArePeers DEF Resolve, TxsOK
<1>a. Openable \subseteq Peer
  BY DEF Openable
<1>2. CASE \E run, deferred : /\ FundsOnly(run, deferred, Holders(txs, "open"))
                              /\ resolved' = TRUE /\ UNCHANGED faults
  <2>1. PICK run, deferred : FundsOnly(run, deferred, Holders(txs, "open")) /\ resolved' = TRUE /\ UNCHANGED faults
    BY <1>2
  <2>2. TxsOK(run.txs) /\ run.spend \in Nat
    BY <2>1 DEF FundsOnly, Adds, RunOK
  <2>3. Amounts(run.txs \ txs) \in Nat
    <3>1. IsFiniteSet(run.txs \ txs) /\ \A u \in run.txs \ txs : u.amount \in Nat
      BY <2>2, FS_Subset DEF TxsOK, Tx
    <3> QED BY <3>1, AmountsAdd
  <2>4. /\ tick' = [tick EXCEPT !.phase = "select", !.priced = TRUE, !.opening = Holders(txs, "open"),
                            !.spend = run.spend, !.spent = Amounts(run.txs \ txs),
                            !.deferred = deferred, !.opens = Openable]
        /\ deferred \subseteq Peer /\ \A p \in deferred : Shown(p).balance < FaceValue
        /\ run.spend + Amounts(run.txs \ txs) = tick.spend /\ txs' = run.txs
    BY <2>1 DEF FundsOnly
  <2>5. /\ tick' \in Tick /\ tick'.phase = "select" /\ tick'.safe = tick.safe /\ tick'.snap = tick.snap
        /\ tick'.spend = run.spend /\ tick'.spent = Amounts(run.txs \ txs) /\ tick'.deferred = deferred
    BY <1>0, <1>a, <2>2, <2>3, <2>4 DEF LoopTyped, Tick
  <2>6. LoopTyped'
    BY <1>0, <2>1, <2>5 DEF LoopTyped
  <2>7. TickFresh' /\ DeferredPoor'
    BY <2>4, <2>5 DEF TickFresh, DeferredPoor, Shown
  <2>8. Budgeted'
    <3>1. tick.spent = 0 /\ tick.spend \in Nat
      BY <1>0 DEF TickFresh, LoopTyped, Tick
    <3> QED BY <2>2, <2>3, <2>4, <2>5, <3>1 DEF Budgeted
  <2> QED BY <1>1, <2>2, <2>4, <2>6, <2>7, <2>8, <1>0, <2>1, SoundPartsNext DEF BoundsTyped
<1>3. CASE /\ tick' \in {[tick EXCEPT !.phase = "select", !.priced = TRUE, !.opening = Holders(txs, "open")],
                         [tick EXCEPT !.phase = "select", !.opening = Holders(txs, "open")]}
           /\ resolved' \in {TRUE, resolved} /\ UNCHANGED txs
           /\ Fault \/ UNCHANGED faults
  <2>1. /\ tick' \in Tick /\ tick'.phase = "select" /\ tick'.safe = tick.safe /\ tick'.snap = tick.snap
        /\ tick'.spend = tick.spend /\ tick'.spent = tick.spent /\ tick'.deferred = tick.deferred
    <3>1. tick \in Tick
      BY DEF LoopTyped
    <3>2. CASE tick' = [tick EXCEPT !.phase = "select", !.priced = TRUE, !.opening = Holders(txs, "open")]
      BY <3>1, <3>2, <1>0 DEF Tick
    <3>3. CASE tick' = [tick EXCEPT !.phase = "select", !.opening = Holders(txs, "open")]
      BY <3>1, <3>3, <1>0 DEF Tick
    <3> QED
      BY <1>3, <3>2, <3>3
  <2>2. LoopTyped'
    BY <1>0, <1>3, <2>1 DEF LoopTyped
  <2>3. TickFresh' /\ Budgeted' /\ DeferredPoor'
    BY <2>1 DEF TickFresh, Budgeted, DeferredPoor, Shown
  <2>4. BoundsTyped'
    BY <1>0, <1>3, FaultTyped DEF BoundsTyped
  <2> QED BY <1>1, <1>3, <2>2, <2>3, <2>4, SoundPartsNext
<1> QED BY <1>2, <1>3, ResolveDoes DEF ResolveCases

\* The other passes spend what the fund pass left.
LEMMA ActSound ==
    ASSUME Sound, Act
    PROVE  Sound'
<1> USE LifecycleAssumption, SoundParts
<1>1. PICK closed, culled, topped, finalized, opened :
         Passes(closed, culled, topped, finalized, opened) /\ txs' = opened.txs
  BY ActDoes
<1>2. TxsOK(txs')
  BY <1>1 DEF Passes, Adds, RunOK
<1>3. tick' = NoTick
  BY DEF Act
<1>4. UNCHANGED <<chainVars, events, cooldown, seenClosed, resolved, shown, drains, faults>>
  BY DEF Act
<1>5. ChainTyped' /\ EventsTyped' /\ BoundsTyped'
  BY <1>4 DEF ChainTyped, EventsTyped, BoundsTyped, chainVars
<1>6. LoopTyped'
  BY <1>3, <1>4, NoTickTyped DEF LoopTyped
<1>7. TickFresh' /\ Budgeted' /\ DeferredPoor'
  BY <1>3, NoTickTyped DEF TickFresh, Budgeted, DeferredPoor
<1> QED BY <1>2, <1>5, <1>6, <1>7, SoundPartsNext

\* The events.
LEMMA DispatchTyped ==
    ASSUME NEW ts, TxsOK(ts), NEW kind \in Kind, NEW p \in Peer, NEW amount \in Nat
    PROVE  TxsOK(Dispatched(ts, kind, p, amount))
<1>1. PICK t \in Tx \ ts :
         /\ t.kind = kind /\ t.peer = p /\ t.amount = amount /\ t.leased /\ ~t.sent
         /\ Dispatched(ts, kind, p, amount) = ts \cup {t}
         /\ TxsOK(ts \cup {t})
  BY DispatchAdds
<1> QED BY <1>1

\* An event funds a channel, starts a cooldown or is ignored.
LEMMA HandleEventSound ==
    ASSUME Sound, HandleEvent
    PROVE  Sound'
<1> USE LifecycleAssumption, SoundParts
<1> DEFINE e == Head(events)
<1>1. /\ events # <<>> /\ events' = Tail(events)
      /\ UNCHANGED <<chainVars, resolved, tick, drains, faults>>
  BY DEF HandleEvent
<1>2. EventsTyped' /\ e \in ChainEvent
  BY <1>1, TailTyped
<1> HIDE DEF e
<1>3. e.peer \in Peer
  BY <1>2 DEF ChainEvent
<1>4. TxsOK(txs')
  <2>1. \/ \E kind : txs' = Released(kind, e.peer)
        \/ txs' = txs
        \/ txs' = Dispatched(txs, "fund", e.peer, TopUp)
    BY DEF HandleEvent, e
  <2>2. TxsOK(Dispatched(txs, "fund", e.peer, TopUp))
    <3>1. "fund" \in Kind /\ TopUp \in Nat
      BY DEF Kind
    <3>2. TxsOK(txs)
      OBVIOUS
    <3> QED BY <1>3, <3>1, <3>2, DispatchTyped
  <2> QED BY <2>1, <2>2, ReleasedTyped
<1>5. /\ cooldown' \in [Peer -> 0..Cooldown]
      /\ seenClosed' \subseteq Peer /\ shown' \subseteq Peer
  <2>1. Cooldown \in 0..Cooldown
    OBVIOUS
  <2>2. CASE e.kind = "closed"
    <3>1. /\ cooldown' = Cooling({e.peer}) /\ seenClosed' = seenClosed \ {e.peer}
          /\ shown' = IF e.peer \in Closed THEN shown \cup {e.peer} ELSE shown \ {e.peer}
      BY <2>2 DEF HandleEvent, e
    <3> QED BY <1>3, <2>1, <3>1 DEF LoopTyped, Cooling
  <2>3. CASE e.kind # "closed"
    BY <2>3 DEF HandleEvent, LoopTyped, e
  <2> QED BY <2>2, <2>3
<1>6. ChainTyped' /\ LoopTyped' /\ BoundsTyped'
  BY <1>1, <1>5 DEF ChainTyped, LoopTyped, BoundsTyped, chainVars
<1> QED BY <1>1, <1>2, <1>4, <1>6, TickFactsStay, SoundPartsNext

\* The chain.
LEMMA ClosesOnChainTyped ==
    ASSUME ChainTyped, EventsTyped, NEW p \in Peer, ClosesOnChain(p)
    PROVE  ChainTyped' /\ EventsTyped'
<1>1. chan' \in [Peer -> Channel]
  BY DEF ClosesOnChain, ChainTyped, Channel, Status
<1>2. safe' \in Nat
  BY DEF ClosesOnChain, ChainTyped, Channel
<1>3. rest' \in [Peer -> 0..Cooldown]
  BY LifecycleAssumption DEF ClosesOnChain, ChainTyped
<1>4. EventsTyped'
  BY <1>1, EmitTyped DEF ClosesOnChain
<1> QED BY <1>1, <1>2, <1>3, <1>4 DEF ChainTyped

\* What a transaction does to the channels when it lands.
LEMMA ChainMoves ==
    ASSUME Sound, NEW t \in txs, Opens(t) \/ Funds(t) \/ Closes(t)
    PROVE  ChainTyped' /\ EventsTyped' /\ shown' \subseteq shown
<1> USE SoundParts
<1>0. t.peer \in Peer /\ t.amount \in Nat
  BY DEF TxsOK, Tx
<1>1. CASE Opens(t)
  <2>1. chan' \in [Peer -> Channel]
    <3>1. [status |-> "open", balance |-> t.amount] \in Channel
      BY <1>0 DEF Channel, Status
    <3> QED BY <1>0, <1>1, <3>1 DEF Opens, ChainTyped
  <2>2. safe' \in Nat
    BY <1>0, <1>1 DEF Opens, ChainTyped
  <2>3. EventsTyped'
    BY <1>0, <1>1, <2>1, EmitTyped DEF Opens
  <2> QED BY <1>1, <2>1, <2>2, <2>3 DEF Opens, ChainTyped
<1>2. CASE Funds(t)
  <2>1. chan' \in [Peer -> Channel]
    BY <1>0, <1>2 DEF Funds, ChainTyped, Channel
  <2>2. safe' \in Nat
    BY <1>0, <1>2 DEF Funds, ChainTyped
  <2>3. EventsTyped'
    BY <1>0, <1>2, <2>1, EmitTyped DEF Funds
  <2> QED BY <1>2, <2>1, <2>2, <2>3 DEF Funds, ChainTyped
<1>3. CASE Closes(t)
  <2>1. CASE ClosesOnChain(t.peer)
    BY <1>0, <1>3, <2>1, ClosesOnChainTyped DEF Closes
  <2>2. CASE /\ chan' = [chan EXCEPT ![t.peer].status = "notice"]
             /\ Emit("closing", t.peer) /\ UNCHANGED <<safe, rest>>
    <3>1. chan' \in [Peer -> Channel]
      BY <1>0, <2>2 DEF ChainTyped, Channel, Status, Pending
    <3>2. EventsTyped'
      BY <1>0, <2>2, <3>1, EmitTyped
    <3> QED BY <1>3, <2>2, <3>1, <3>2 DEF ChainTyped, Closes
  <2> QED BY <1>3, <2>1, <2>2 DEF Closes
<1> QED BY <1>1, <1>2, <1>3

\* A transaction lands and leaves an event.
LEMMA LandsSound ==
    ASSUME Sound, NEW t \in txs, Lands(t)
    PROVE  Sound'
<1> USE SoundParts
<1>1. TxsOK(txs')
  <2> DEFINE u == [t EXCEPT !.sent = TRUE]
  <2>1. u \in Tx /\ u.kind = t.kind /\ u.peer = t.peer /\ u.n = t.n
    BY DEF TxsOK, Tx
  <2>2. txs' = Heard((txs \ {t}) \cup {u})
    BY DEF Lands
  <2> HIDE DEF u
  <2>3. TxsOK((txs \ {t}) \cup {u})
    BY <2>1, MarkedTyped
  <2> QED BY <2>2, <2>3, HeardTyped
<1>2. ChainTyped' /\ EventsTyped' /\ shown' \subseteq shown
  <2>1. CASE Opens(t) \/ Funds(t) \/ Closes(t)
    BY <2>1, ChainMoves
  <2>2. CASE UNCHANGED <<chainVars, events, shown>>
    BY <2>2 DEF ChainTyped, EventsTyped, chainVars
  <2> QED BY <2>1, <2>2 DEF Lands
<1>3. UNCHANGED <<cooldown, seenClosed, resolved, tick, drains>> /\ (Fault \/ UNCHANGED faults)
  BY DEF Lands
<1>4. LoopTyped' /\ BoundsTyped'
  BY <1>2, <1>3, FaultTyped DEF LoopTyped, BoundsTyped
<1> QED BY <1>1, <1>2, <1>3, <1>4, TickFactsStay, SoundPartsNext

\* Slots that come back, lapses, the environment and the clock.
LEMMA GivesBackSound ==
    ASSUME Sound, NEW t \in txs, GivesBack(t)
    PROVE  Sound'
<1> USE SoundParts
<1>1. TxsOK(txs')
  <2>1. IsFiniteSet(txs \ {t})
    BY FS_RemoveElement DEF TxsOK
  <2> QED BY <2>1 DEF GivesBack, TxsOK, Distinct
<1>2. /\ ChainTyped' /\ EventsTyped' /\ LoopTyped' /\ BoundsTyped' /\ UNCHANGED tick
  BY DEF GivesBack, ChainTyped, EventsTyped, LoopTyped, BoundsTyped, chainVars, strategyVars
<1> QED BY <1>1, <1>2, TickFactsStay, SoundPartsNext

\* A transaction outlives its lease.
LEMMA LapsesSound ==
    ASSUME Sound, NEW t \in txs, Lapses(t)
    PROVE  Sound'
<1> USE SoundParts
<1>1. TxsOK(txs')
  <2> DEFINE u == [t EXCEPT !.leased = FALSE]
  <2>1. u \in Tx /\ u.kind = t.kind /\ u.peer = t.peer /\ u.n = t.n
    BY DEF TxsOK, Tx
  <2>2. txs' = Heard((txs \ {t}) \cup {u})
    BY DEF Lapses
  <2> HIDE DEF u
  <2>3. TxsOK((txs \ {t}) \cup {u})
    BY <2>1, MarkedTyped
  <2> QED BY <2>2, <2>3, HeardTyped
<1>2. /\ ChainTyped' /\ EventsTyped' /\ LoopTyped' /\ UNCHANGED tick
  BY DEF Lapses, ChainTyped, EventsTyped, LoopTyped, chainVars, strategyVars
<1>3. BoundsTyped'
  BY FaultTyped DEF Lapses, BoundsTyped
<1> QED BY <1>1, <1>2, <1>3, TickFactsStay, SoundPartsNext

\* Balances fall as tickets are redeemed.
LEMMA DrainsSound ==
    ASSUME Sound, NEW p \in Peer, Drains(p)
    PROVE  Sound'
<1> USE SoundParts
<1>1. chan' \in [Peer -> Channel]
  <2>1. chan[p] \in Channel /\ chan[p].balance > 0
    BY DEF Drains, ChainTyped
  <2>2. chan[p].balance - 1 \in Nat
    BY <2>1 DEF Channel
  <2>3. chan' = [chan EXCEPT ![p] = [chan[p] EXCEPT !.balance = chan[p].balance - 1]]
    BY DEF Drains
  <2>4. [chan[p] EXCEPT !.balance = chan[p].balance - 1] \in Channel
    BY <2>1, <2>2 DEF Channel
  <2> QED BY <2>3, <2>4 DEF ChainTyped
<1>2. EventsTyped'
  BY <1>1, EmitTyped DEF Drains
<1>3. TxsOK(txs') /\ LoopTyped' /\ ChainTyped' /\ UNCHANGED tick
  BY <1>1 DEF Drains, LoopTyped, ChainTyped, strategyVars
<1>4. BoundsTyped'
  BY LifecycleAssumption DEF Drains, BoundsTyped
<1> QED BY <1>2, <1>3, <1>4, TickFactsStay, SoundPartsNext

\* The counterparty closes a channel.
LEMMA PeerClosesSound ==
    ASSUME Sound, NEW p \in Peer, PeerCloses(p)
    PROVE  Sound'
<1> USE SoundParts
<1>1. ChainTyped' /\ EventsTyped'
  BY ClosesOnChainTyped DEF PeerCloses
<1>2. TxsOK(txs') /\ LoopTyped' /\ UNCHANGED tick
  BY DEF PeerCloses, LoopTyped, strategyVars
<1>3. BoundsTyped'
  BY FaultTyped DEF PeerCloses, BoundsTyped
<1> QED BY <1>1, <1>2, <1>3, TickFactsStay, SoundPartsNext

\* The notice period passes.
LEMMA AgesSound ==
    ASSUME Sound, NEW p \in Peer, Ages(p)
    PROVE  Sound'
<1> USE SoundParts
<1>1. chan' \in [Peer -> Channel]
  <2> DEFINE next == IF chan[p].status = "notice" THEN "due" ELSE "overdue"
  <2>1. chan' = [chan EXCEPT ![p] = [chan[p] EXCEPT !.status = next]]
    BY DEF Ages
  <2>2. [chan[p] EXCEPT !.status = next] \in Channel
    BY DEF ChainTyped, Channel, Status, Pending
  <2> HIDE DEF next
  <2> QED BY <2>1, <2>2 DEF ChainTyped
<1>2. /\ ChainTyped' /\ EventsTyped' /\ TxsOK(txs') /\ LoopTyped' /\ BoundsTyped' /\ UNCHANGED tick
  BY <1>1 DEF Ages, ChainTyped, EventsTyped, LoopTyped, BoundsTyped, strategyVars
<1> QED BY <1>2, TickFactsStay, SoundPartsNext

\* An event is lost.
LEMMA LosesEventSound ==
    ASSUME Sound, LosesEvent
    PROVE  Sound'
<1> USE SoundParts
<1>1. EventsTyped'
  BY TailTyped DEF LosesEvent
<1>2. /\ ChainTyped' /\ TxsOK(txs') /\ LoopTyped' /\ UNCHANGED tick
  BY DEF LosesEvent, ChainTyped, LoopTyped, chainVars, strategyVars
<1>3. BoundsTyped'
  BY FaultTyped DEF LosesEvent, BoundsTyped
<1> QED BY <1>1, <1>2, <1>3, TickFactsStay, SoundPartsNext

\* A cooldown counts down to 0.
LEMMA DownStays ==
    ASSUME NEW n \in 0..Cooldown
    PROVE  Down(n) \in 0..Cooldown /\ (n = 0 => Down(n) = 0)
BY LifecycleAssumption DEF Down

\* Time passes for every cooldown at once.
LEMMA ClockSound ==
    ASSUME Sound, Clock
    PROVE  Sound'
<1> USE SoundParts
<1>1. cooldown' \in [Peer -> 0..Cooldown] /\ rest' \in [Peer -> 0..Cooldown]
  BY DownStays DEF Clock, LoopTyped, ChainTyped
<1>2. /\ ChainTyped' /\ EventsTyped' /\ TxsOK(txs') /\ LoopTyped' /\ BoundsTyped' /\ UNCHANGED tick
  BY <1>1 DEF Clock, ChainTyped, EventsTyped, LoopTyped, BoundsTyped
<1> QED BY <1>2, TickFactsStay, SoundPartsNext

\* All of them.
LEMMA SoundKept ==
    ASSUME Sound, [Next]_vars
    PROVE  Sound'
<1>1. CASE UNCHANGED vars
  <2>1. /\ ChainTyped' /\ EventsTyped' /\ TxsOK(txs') /\ LoopTyped' /\ BoundsTyped' /\ UNCHANGED tick
    BY <1>1, SoundParts DEF vars, ChainTyped, EventsTyped, LoopTyped, BoundsTyped
  <2> QED BY <2>1, TickFactsStay, SoundPartsNext
<1>2. CASE Next
  BY <1>2, StartTickSound, ReadChannelsSound, ResolveSound, ActSound, HandleEventSound, LandsSound,
     GivesBackSound, AgesSound, ClockSound, LapsesSound, DrainsSound, PeerClosesSound, LosesEventSound
     DEF Next, Environment, Leased
<1> QED BY <1>1, <1>2

-----------------------------------------------------------------------------
(***************************************************************************)
(* The caps.                                                               *)
(***************************************************************************)
\* Only the passes add holders of closes and finalizes.
LEMMA FewerHolders ==
    ASSUME Sound, CapsHold,
           \A kind \in {"close", "finalize"} : Holders(txs', kind) \subseteq Holders(txs, kind)
    PROVE  CapsHold'
<1>1. ASSUME NEW kind \in {"close", "finalize"}
      PROVE  /\ Cardinality(Holders(txs', kind)) <= Cardinality(Holders(txs, kind))
             /\ Cardinality(Holders(txs', kind)) \in Nat /\ Cardinality(Holders(txs, kind)) \in Nat
  <2>1. IsFiniteSet(Holders(txs, kind)) /\ Cardinality(Holders(txs, kind)) \in Nat
    BY SoundParts, HoldersArePeers DEF TxsOK
  <2>2. Holders(txs', kind) \in SUBSET Holders(txs, kind)
    OBVIOUS
  <2> QED BY <2>1, <2>2, FS_Subset, FS_CardinalityType
<1>2. CloseCap \in Nat /\ FinalizeCap \in Nat
  BY LifecycleAssumption
<1> QED BY <1>1, <1>2 DEF CapsHold

\* A transaction that is marked is not a holder more.
LEMMA OneMarked ==
    ASSUME NEW ts, NEW t \in ts, NEW u, u.kind = t.kind, u.peer = t.peer, u.leased => t.leased,
           NEW kind
    PROVE  Holders(Heard((ts \ {t}) \cup {u}), kind) \subseteq Holders(ts, kind)
BY DEF Holders, Heard, Leased

\* The passes count against the caps, from what is in flight.
LEMMA ActCaps ==
    ASSUME Sound, CapsHold, Act
    PROVE  CapsHold'
<1>1. PICK closed, culled, topped, finalized, opened :
         Passes(closed, culled, topped, finalized, opened) /\ txs' = opened.txs
  BY ActDoes
<1>2. /\ Adds("topup", culled, topped, tick.deferred)
      /\ Adds("finalize", topped, finalized, ShownPending)
      /\ Adds("open", finalized, opened, tick.opens)
      /\ Counts("cull", culled) /\ Counts("finalize", finalized)
  BY <1>1 DEF Passes
<1>3. Holders(txs', "close") = Holders(culled.txs, "close")
  BY <1>1, <1>2, AddedKeeps DEF PassName
<1>4. Holders(txs', "finalize") = Holders(finalized.txs, "finalize")
  BY <1>1, <1>2, AddedKeeps DEF PassName
<1>5. /\ Cardinality(Holders(culled.txs, "close")) <= culled.count /\ culled.count <= CloseCap
      /\ Cardinality(Holders(finalized.txs, "finalize")) <= finalized.count
      /\ finalized.count <= FinalizeCap
  BY <1>2 DEF Counts, KindOf, CapOf
<1>6. RunOK(culled) /\ RunOK(finalized)
  BY <1>1 DEF Passes, Adds
<1>7. /\ Cardinality(Holders(culled.txs, "close")) \in Nat /\ culled.count \in Nat
      /\ Cardinality(Holders(finalized.txs, "finalize")) \in Nat /\ finalized.count \in Nat
      /\ CloseCap \in Nat /\ FinalizeCap \in Nat
  BY <1>6, HoldersArePeers, LifecycleAssumption DEF RunOK
<1> QED BY <1>3, <1>4, <1>5, <1>7 DEF CapsHold

\* Every step keeps the caps,
LEMMA CapsKept ==
    ASSUME Sound, CapsHold, [Next]_vars
    PROVE  CapsHold'
<1> USE SoundParts
<1>1. CASE UNCHANGED txs
  BY <1>1, FewerHolders
<1>2. CASE Resolve
  <2>1. CASE UNCHANGED txs
    BY <2>1, <1>1
  <2>2. CASE \E run, deferred : FundsOnly(run, deferred, Holders(txs, "open"))
    <3>1. PICK run : Adds("fund", Run, run, Peer) /\ txs' = run.txs
      BY <2>2 DEF FundsOnly
    <3>2. \A kind \in {"close", "finalize"} : Holders(txs', kind) = Holders(Run.txs, kind)
      BY <3>1, AddedKeeps DEF PassName
    <3>3. Run.txs = txs
      BY SoundGives
    <3> QED BY <3>2, <3>3, FewerHolders
  <2> QED BY <1>2, <2>1, <2>2, ResolveDoes DEF ResolveCases
<1>3. CASE Act
  BY <1>3, ActCaps
<1>4. CASE HandleEvent
  <2> DEFINE e == Head(events)
  <2>1. \/ \E kind : txs' = Released(kind, e.peer)
        \/ txs' = txs
        \/ txs' = Dispatched(txs, "fund", e.peer, TopUp)
    BY <1>4 DEF HandleEvent
  <2> HIDE DEF e
  <2>2. \A kind \in {"close", "finalize"} :
            Holders(Dispatched(txs, "fund", e.peer, TopUp), kind) = Holders(txs, kind)
    <3>1. \E t : t.kind = "fund" /\ Dispatched(txs, "fund", e.peer, TopUp) = txs \cup {t}
      BY DEF Dispatched
    <3>2. PICK t : t.kind = "fund" /\ Dispatched(txs, "fund", e.peer, TopUp) = txs \cup {t}
      BY <3>1
    <3> QED BY <3>2 DEF Holders, Leased
  <2>3. \A kind \in {"close", "finalize"} : Holders(txs', kind) \subseteq Holders(txs, kind)
    BY <2>1, <2>2, ReleasedTyped
  <2> QED BY <2>3, FewerHolders
<1>5. ASSUME NEW t \in txs, Lands(t) PROVE CapsHold'
  <2> DEFINE u == [t EXCEPT !.sent = TRUE]
  <2>1. u.kind = t.kind /\ u.peer = t.peer /\ u.leased = t.leased
    BY DEF TxsOK, Tx
  <2>2. txs' = Heard((txs \ {t}) \cup {u})
    BY <1>5 DEF Lands
  <2> HIDE DEF u
  <2>3. \A kind \in {"close", "finalize"} : Holders(txs', kind) \subseteq Holders(txs, kind)
    BY <2>1, <2>2, OneMarked
  <2> QED BY <2>3, FewerHolders
<1>6. ASSUME NEW t \in txs, GivesBack(t) PROVE CapsHold'
  <2>1. \A kind \in {"close", "finalize"} : Holders(txs', kind) \subseteq Holders(txs, kind)
    BY <1>6 DEF GivesBack, Holders, Leased
  <2> QED BY <2>1, FewerHolders
<1>7. ASSUME NEW t \in txs, Lapses(t) PROVE CapsHold'
  <2> DEFINE u == [t EXCEPT !.leased = FALSE]
  <2>1. u.kind = t.kind /\ u.peer = t.peer /\ ~u.leased
    BY DEF TxsOK, Tx
  <2>2. txs' = Heard((txs \ {t}) \cup {u})
    BY <1>7 DEF Lapses
  <2> HIDE DEF u
  <2>3. \A kind \in {"close", "finalize"} : Holders(txs', kind) \subseteq Holders(txs, kind)
    BY <2>1, <2>2, OneMarked
  <2> QED BY <2>3, FewerHolders
<1>8. CASE \/ StartTick \/ ReadChannels \/ Clock \/ LosesEvent
           \/ \E p \in Peer : Ages(p) \/ Drains(p) \/ PeerCloses(p)
           \/ UNCHANGED vars
  BY <1>8, <1>1 DEF StartTick, ReadChannels, Clock, LosesEvent, Ages, Drains, PeerCloses, vars
<1> QED BY <1>2, <1>3, <1>4, <1>5, <1>6, <1>7, <1>8 DEF Next, Environment, Leased

\* which hold at the start.
LEMMA CapsFirst ==
    ASSUME Init
    PROVE  CapsHold
<1>1. Holders(txs, "close") = {} /\ Holders(txs, "finalize") = {}
  BY DEF Init, Holders, Leased
<1> QED BY <1>1, FS_EmptySet, LifecycleAssumption DEF CapsHold

\* The variables keep their types; no transaction is given the number of another, and the events
\* never exceed the broadcast's capacity.
THEOREM LifecycleTyped == Spec => []TypeOK
<1>1. Sound => TypeOK
  BY DEF Sound
<1> QED BY <1>1, SoundFirst, SoundKept, PTL DEF Spec

\* However leases lapse, events are lost and slots are released early, no more closes and no more
\* finalizes hold a slot than their caps allow.
THEOREM CapsRespected == Spec => []CapsHold
BY SoundFirst, SoundKept, CapsFirst, CapsKept, PTL DEF Spec

-----------------------------------------------------------------------------
(***************************************************************************)
(* The budget.                                                             *)
(***************************************************************************)
TickWithin == Ticking /\ Amounts(NewTxs) > 0
                 => tick.spent + Amounts(NewTxs) <= Min({tick.safe, Allowance})

\* What passes paid from the budget of the tick is within it.
LEMMA SpentWithin ==
    ASSUME Sound, NEW run, RunOK(run), run.spend + Amounts(run.txs \ txs) = tick.spend,
           txs' = run.txs
    PROVE  TickWithin
<1>1. Amounts(NewTxs) = tick.spend - run.spend /\ run.spend \in Nat /\ tick.spend \in Nat
      /\ tick.spent \in Nat
  <2>1. IsFiniteSet(run.txs \ txs) /\ \A u \in run.txs \ txs : u.amount \in Nat
    BY FS_Subset DEF RunOK, TxsOK, Tx
  <2>2. Amounts(run.txs \ txs) \in Nat
    BY <2>1, AmountsAdd
  <2>3. run.spend \in Nat /\ tick.spend \in Nat /\ tick.spent \in Nat
    BY SoundGives DEF RunOK
  <2> QED BY <2>2, <2>3 DEF NewTxs
<1>2. CASE tick.safe = Unknown
  <2>1. tick.spend + tick.spent = 0
    BY <1>2, SoundParts DEF Budgeted
  <2> QED BY <1>1, <2>1 DEF TickWithin
<1>3. CASE tick.safe # Unknown
  <2>1. tick.spend + tick.spent = Min({tick.safe, Allowance})
    BY <1>3, SoundParts DEF Budgeted
  <2> QED BY <1>1, <2>1 DEF TickWithin
<1> QED BY <1>2, <1>3

\* A step that submits nothing.
LEMMA NothingNew ==
    ASSUME UNCHANGED txs
    PROVE  NewTxs = {} /\ Amounts(NewTxs) = 0
BY NothingSpent DEF NewTxs

\* Only two steps of a tick submit.
LEMMA TicksAreOf ==
    ASSUME [Next]_vars, Ticking
    PROVE  Resolve \/ Act
<1>1. tick.phase \notin {"idle", "read"} /\ tick' # tick
  BY DEF Ticking
<1>2. CASE Next
  <2>1. ~StartTick /\ ~ReadChannels /\ ~HandleEvent /\ ~Clock /\ ~LosesEvent
    BY <1>1 DEF StartTick, ReadChannels, HandleEvent, Clock, LosesEvent, strategyVars
  <2>2. \A t \in txs : ~Lands(t) /\ ~GivesBack(t) /\ ~Lapses(t)
    BY <1>1 DEF Lands, GivesBack, Lapses, strategyVars
  <2>3. \A p \in Peer : ~Ages(p) /\ ~Drains(p) /\ ~PeerCloses(p)
    BY <1>1 DEF Ages, Drains, PeerCloses, strategyVars
  <2> QED BY <1>2, <2>1, <2>2, <2>3 DEF Next, Environment
<1> QED BY <1>1, <1>2 DEF vars

\* Both stay within the budget.
LEMMA BudgetKept ==
    ASSUME Sound, [Next]_vars
    PROVE  TickWithin
<1> SUFFICES ASSUME Ticking PROVE TickWithin
  BY DEF TickWithin
<1>1. CASE Act
  <2>1. PICK closed, culled, topped, finalized, opened :
           Passes(closed, culled, topped, finalized, opened) /\ txs' = opened.txs
    BY <1>1, ActDoes
  <2>2. RunOK(opened) /\ opened.spend + Amounts(opened.txs \ txs) = tick.spend
    BY <2>1 DEF Passes, Adds
  <2> QED BY <2>1, <2>2, SpentWithin
<1>2. CASE Resolve
  <2>1. CASE UNCHANGED txs
    BY <2>1, NothingNew DEF TickWithin
  <2>2. CASE \E run, deferred : FundsOnly(run, deferred, Holders(txs, "open"))
    <3>1. PICK run, deferred : FundsOnly(run, deferred, Holders(txs, "open"))
      BY <2>2
    <3>2. RunOK(run) /\ run.spend + Amounts(run.txs \ txs) = tick.spend /\ txs' = run.txs
      BY <3>1 DEF FundsOnly, Adds
    <3> QED BY <3>2, SpentWithin
  <2> QED BY <1>2, <2>1, <2>2, ResolveDoes DEF ResolveCases
<1> QED BY <1>1, <1>2, TicksAreOf

\* The fund, consolidation and open passes of one tick together never commit more than the Safe
\* could spend when the tick read it.
THEOREM TicksWithinBudget == Spec => TickWithinBudget
<1>1. Sound /\ [Next]_vars
        => [Ticking /\ Amounts(NewTxs) > 0
               => tick.spent + Amounts(NewTxs) <= Min({tick.safe, Allowance})]_vars
  BY BudgetKept DEF TickWithin
<1> QED BY <1>1, SoundFirst, SoundKept, PTL DEF Spec, TickWithinBudget

-----------------------------------------------------------------------------
(***************************************************************************)
(* Cooldowns.  Of a channel whose present life the strategy knows of:      *)
(* while it runs, nothing is counted and no closure noticed; once closed,  *)
(* the event or the snapshot that notices it counts as long as `rest`, and *)
(* before either comes there is no cooldown to stand in its way; a tick    *)
(* whose snapshot has it closed has noticed; and a tick that may open it   *)
(* found the cooldown over.                                                *)
(***************************************************************************)
Running == {"open"} \cup Pending

CoolsAt(p) ==
    /\ chan[p].status # "none"
    /\ chan[p].status \in Running => cooldown[p] = 0 /\ p \notin seenClosed
    /\ chan[p].status = "closed" =>
          rest[p] <= cooldown[p] \/ (p \notin seenClosed /\ cooldown[p] = 0)
    /\ tick.phase = "resolve" /\ Shown(p).status \in {"none", "closed"} =>
          chan[p].status = "closed" /\ p \in seenClosed
    /\ tick.phase = "select" /\ p \in tick.opens =>
          chan[p].status = "closed" /\ rest[p] = 0

Cools == \A p \in shown : CoolsAt(p)

\* Only peers are shown.
LEMMA ShownArePeers ==
    ASSUME Sound, [Next]_vars
    PROVE  shown \subseteq Peer /\ shown' \subseteq Peer
BY SoundKept, SoundParts, SoundPartsNext DEF LoopTyped

\* Steps of the chain keep it: a running channel had no cooldown to keep.
LEMMA ChainStepCools ==
    ASSUME shown \subseteq Peer, Cools, UNCHANGED <<cooldown, seenClosed, tick>>, shown' \subseteq shown,
           \A p \in shown' :
              \/ chan'[p].status = chan[p].status /\ rest'[p] = rest[p]
              \/ chan[p].status \in Running /\ chan'[p].status \in Running \cup {"closed"}
    PROVE  Cools'
<1>1. ASSUME NEW p \in shown' PROVE CoolsAt(p)'
  <2>1. CoolsAt(p) /\ p \in shown
    BY DEF Cools
  <2>2. CASE chan'[p].status = chan[p].status /\ rest'[p] = rest[p]
    BY <2>1, <2>2 DEF CoolsAt, Shown
  <2>3. CASE chan[p].status \in Running /\ chan'[p].status \in Running \cup {"closed"}
    BY <2>1, <2>3 DEF CoolsAt, Shown, Running, Pending
  <2> QED BY <1>1, <2>2, <2>3
<1> QED BY <1>1 DEF Cools

\* A channel closed on chain is such a step.
LEMMA ClosesOnChainStep ==
    ASSUME ChainTyped, shown \subseteq Peer, NEW q \in Peer, ClosesOnChain(q),
           chan[q].status \in Running, NEW p \in shown
    PROVE  \/ chan'[p].status = chan[p].status /\ rest'[p] = rest[p]
           \/ chan[p].status \in Running /\ chan'[p].status \in Running \cup {"closed"}
<1>1. p \in Peer
  OBVIOUS
<1> QED BY <1>1 DEF ClosesOnChain, ChainTyped

\* So is every transaction that lands.
LEMMA LandsCools ==
    ASSUME Sound, Cools, NEW t \in txs, Lands(t)
    PROVE  Cools'
<1> USE SoundParts
<1>0. t.peer \in Peer /\ shown \subseteq Peer /\ UNCHANGED <<cooldown, seenClosed, tick>>
  BY DEF TxsOK, Tx, LoopTyped, Lands
<1>1. CASE Opens(t)
  <2>1. /\ shown' = shown \ {t.peer} /\ UNCHANGED rest
        /\ chan' = [chan EXCEPT ![t.peer] = [status |-> "open", balance |-> t.amount]]
    BY <1>1 DEF Opens
  <2>2. \A p \in shown' : chan'[p] = chan[p] /\ rest'[p] = rest[p]
    BY <1>0, <2>1 DEF ChainTyped
  <2> QED BY <1>0, <2>1, <2>2, ChainStepCools
<1>2. CASE Funds(t)
  <2>1. /\ UNCHANGED <<shown, rest>>
        /\ chan' = [chan EXCEPT ![t.peer].balance = @ + t.amount]
    BY <1>2 DEF Funds
  <2>2. \A p \in Peer : chan'[p].status = chan[p].status
    BY <1>0, <2>1 DEF ChainTyped, Channel
  <2> QED BY <1>0, <2>1, <2>2, ChainStepCools
<1>3. CASE Closes(t)
  <2>0. UNCHANGED shown
    BY <1>3 DEF Closes
  <2>1. CASE chan[t.peer].status \in {"due", "overdue"} /\ ClosesOnChain(t.peer)
    <3>1. chan[t.peer].status \in Running
      BY <2>1 DEF Running, Pending
    <3> QED BY <1>0, <2>0, <2>1, <3>1, ClosesOnChainStep, ChainStepCools
  <2>2. CASE /\ chan[t.peer].status = "open"
             /\ chan' = [chan EXCEPT ![t.peer].status = "notice"] /\ UNCHANGED rest
    <3>1. \A p \in shown : \/ chan'[p].status = chan[p].status /\ rest'[p] = rest[p]
                           \/ chan[p].status \in Running /\ chan'[p].status \in Running \cup {"closed"}
      BY <1>0, <2>2 DEF ChainTyped, Channel, Running, Pending
    <3> QED BY <1>0, <2>0, <3>1, ChainStepCools
  <2> QED BY <1>3, <2>1, <2>2 DEF Closes
<1>4. CASE UNCHANGED <<chainVars, events, shown>>
  BY <1>0, <1>4, ChainStepCools DEF chainVars
<1> QED BY <1>1, <1>2, <1>3, <1>4 DEF Lands

\* The snapshot starts the cooldown of a closure without an event.
LEMMA ReadChannelsCools ==
    ASSUME Sound, Cools, ReadChannels
    PROVE  Cools'
<1> USE SoundParts
<1>0. shown \subseteq Peer /\ UNCHANGED <<chan, rest>>
  BY DEF LoopTyped, ReadChannels, chainVars
<1>1. CASE /\ tick' = [tick EXCEPT !.phase = "resolve", !.snap = chan]
           /\ cooldown' = Cooling(Unnoticed)
           /\ seenClosed' = Closed
           /\ shown' = shown \cup {p \in Occupied : cooldown[p] = 0}
  <2>1. tick'.phase = "resolve" /\ tick'.snap = chan
    BY <1>1 DEF LoopTyped, Tick
  <2>2. shown' \subseteq Peer
    BY <1>0, <1>1 DEF Occupied
  <2>3. ASSUME NEW p \in shown' PROVE CoolsAt(p)'
    <3>1. p \in Peer /\ rest[p] \in 0..Cooldown /\ Cooldown \in Nat /\ cooldown[p] \in 0..Cooldown
      BY <2>2, LifecycleAssumption DEF ChainTyped, LoopTyped
    <3>2. p \in shown => CoolsAt(p)
      BY <1>0 DEF Cools
    <3>3. p \notin shown => chan[p].status \in Running /\ cooldown[p] = 0
      BY <1>1 DEF Occupied, Running
    <3>4. cooldown'[p] = IF p \in Unnoticed THEN Cooldown ELSE cooldown[p]
      BY <1>1, <3>1 DEF Cooling
    <3>5. p \in Unnoticed <=> chan[p].status = "closed" /\ p \notin seenClosed /\ cooldown[p] = 0
      BY <3>1 DEF Unnoticed, Closed
    <3>6. p \in seenClosed' <=> chan[p].status = "closed"
      BY <1>1, <3>1 DEF Closed
    <3>7. CASE chan[p].status \in Running
      <4>1. chan[p].status \notin {"closed", "none"}
        BY <3>7 DEF Running, Pending
      <4>2. cooldown[p] = 0
        BY <3>2, <3>3, <3>7 DEF CoolsAt
      <4> QED BY <1>0, <2>1, <3>4, <3>5, <3>6, <4>1, <4>2 DEF CoolsAt, Shown
    <3>8. CASE chan[p].status \notin Running
      <4>1. CoolsAt(p)
        BY <3>2, <3>3, <3>8
      <4> QED BY <1>0, <2>1, <3>1, <3>4, <3>5, <3>6, <3>8, <4>1 DEF CoolsAt, Shown
    <3> QED BY <3>7, <3>8
  <2> QED BY <2>2, <2>3 DEF Cools
<1>2. CASE tick' = NoTick /\ UNCHANGED <<cooldown, seenClosed, shown>>
  <2>1. tick'.phase = "idle"
    BY <1>2, NoTickTyped
  <2> QED BY <1>0, <1>2, <2>1 DEF Cools, CoolsAt
<1> QED BY <1>1, <1>2 DEF ReadChannels

\* The candidates are settled with the cooldowns of the tick.
LEMMA ResolveCools ==
    ASSUME Sound, Cools, Resolve
    PROVE  Cools'
<1> USE SoundParts
<1>0. /\ shown \subseteq Peer /\ tick.phase = "resolve" /\ tick.opens = {}
      /\ UNCHANGED <<chan, rest, cooldown, seenClosed, shown>>
  BY DEF LoopTyped, Resolve, chainVars, TickFresh
<1>1. tick'.phase = "select" /\ tick'.opens \subseteq Openable
  <2>1. CASE \E run, deferred : FundsOnly(run, deferred, Holders(txs, "open"))
    BY <2>1 DEF FundsOnly, LoopTyped, Tick
  <2>2. CASE tick' \in {[tick EXCEPT !.phase = "select", !.priced = TRUE, !.opening = Holders(txs, "open")],
                        [tick EXCEPT !.phase = "select", !.opening = Holders(txs, "open")]}
    BY <1>0, <2>2 DEF LoopTyped, Tick
  <2> QED BY <2>1, <2>2, ResolveDoes DEF ResolveCases
<1>2. ASSUME NEW p \in shown' PROVE CoolsAt(p)'
  <2>1. CoolsAt(p) /\ p \in Peer /\ rest[p] \in Nat
    BY <1>0 DEF Cools, ChainTyped
  <2>2. p \in Openable => Shown(p).status \in {"none", "closed"} /\ cooldown[p] = 0
    BY DEF Openable
  <2>3. p \in Openable => chan[p].status = "closed" /\ rest[p] = 0
    BY <1>0, <2>1, <2>2 DEF CoolsAt
  <2> QED BY <1>0, <1>1, <2>1, <2>3 DEF CoolsAt
<1> QED BY <1>0, <1>2 DEF Cools

\* Every step.
LEMMA CoolsKept ==
    ASSUME Sound, Cools, [Next]_vars
    PROVE  Cools'
<1> USE SoundParts
<1>0. shown \subseteq Peer /\ shown' \subseteq Peer
  BY ShownArePeers
<1>1. CASE StartTick \/ Act
  <2>1. tick'.phase \in {"read", "idle"} /\ UNCHANGED <<chan, rest, cooldown, seenClosed, shown>>
    BY <1>1, NoTickTyped DEF StartTick, Act, chainVars, NoTick
  <2> QED BY <1>0, <2>1 DEF Cools, CoolsAt
<1>2. CASE ReadChannels
  BY <1>2, ReadChannelsCools
<1>3. CASE Resolve
  BY <1>3, ResolveCools
<1>4. CASE HandleEvent
  <2> DEFINE e == Head(events)
  <2>1. tick.phase = "idle" /\ UNCHANGED <<chan, rest, tick>>
    BY <1>4 DEF HandleEvent, chainVars
  <2>2. \/ UNCHANGED <<cooldown, seenClosed, shown>>
        \/ /\ cooldown' = Cooling({e.peer})
           /\ seenClosed' = seenClosed \ {e.peer}
           /\ shown' = IF e.peer \in Closed THEN shown \cup {e.peer} ELSE shown \ {e.peer}
    BY <1>4 DEF HandleEvent
  <2> HIDE DEF e
  <2>3. ASSUME NEW p \in shown' PROVE CoolsAt(p)'
    <3>0. p \in Peer /\ rest[p] \in 0..Cooldown
      BY <1>0 DEF ChainTyped
    <3>1. CASE p \in shown /\ cooldown'[p] = cooldown[p] /\ (p \in seenClosed' <=> p \in seenClosed)
      BY <2>1, <3>1 DEF Cools, CoolsAt, Shown
    <3>2. CASE chan[p].status = "closed" /\ cooldown'[p] = Cooldown
      <4>1. chan'[p].status \notin Running \cup {"none"} /\ rest'[p] <= cooldown'[p]
        BY <2>1, <3>0, <3>2, LifecycleAssumption DEF Running, Pending
      <4> QED BY <2>1, <4>1 DEF CoolsAt
    <3>3. p \in shown \/ (p = e.peer /\ chan[p].status = "closed")
      BY <2>2 DEF Closed
    <3>4. \/ cooldown'[p] = cooldown[p] /\ (p \in seenClosed' <=> p \in seenClosed)
          \/ p = e.peer /\ p \in Closed /\ cooldown'[p] = Cooldown
      BY <2>2, <3>0 DEF Cooling, LoopTyped
    <3>5. p \in Closed => chan[p].status = "closed"
      BY DEF Closed
    <3>6. CASE p \notin shown
      <4>1. p = e.peer /\ chan[p].status = "closed" /\ p \in Closed
        BY <3>0, <3>3, <3>6 DEF Closed
      <4>2. cooldown'[p] = Cooldown
        BY <2>2, <3>0, <3>6, <4>1 DEF Cooling
      <4> QED BY <3>2, <4>1, <4>2
    <3> QED BY <3>1, <3>2, <3>4, <3>5, <3>6
  <2> QED BY <1>0, <2>3 DEF Cools
<1>5. ASSUME NEW t \in txs, Lands(t) PROVE Cools'
  BY <1>5, LandsCools
<1>6. CASE \/ \E t \in txs : GivesBack(t) \/ Lapses(t)
           \/ LosesEvent \/ UNCHANGED vars
  <2>1. UNCHANGED <<chan, rest, cooldown, seenClosed, shown, tick>>
    BY <1>6 DEF GivesBack, Lapses, LosesEvent, vars, chainVars, strategyVars
  <2> QED BY <1>0, <2>1, ChainStepCools
<1>7. ASSUME NEW q \in Peer, Ages(q) PROVE Cools'
  <2>1. UNCHANGED <<rest, cooldown, seenClosed, shown, tick>>
    BY <1>7 DEF Ages, strategyVars
  <2>2. \A p \in Peer : \/ chan'[p].status = chan[p].status
                        \/ chan[p].status \in Running /\ chan'[p].status \in Running
    <3> TAKE p \in Peer
    <3>1. CASE p # q
      BY <1>7, <3>1 DEF Ages, ChainTyped
    <3>2. CASE p = q
      BY <1>7, <3>2 DEF Ages, ChainTyped, Channel, Running, Pending
    <3> QED BY <3>1, <3>2
  <2> QED BY <1>0, <2>1, <2>2, ChainStepCools
<1>8. ASSUME NEW q \in Peer, Drains(q) PROVE Cools'
  <2>1. UNCHANGED <<rest, cooldown, seenClosed, shown, tick>>
    BY <1>8 DEF Drains, strategyVars
  <2>2. \A p \in Peer : chan'[p].status = chan[p].status
    BY <1>8 DEF Drains, ChainTyped, Channel
  <2> QED BY <1>0, <2>1, <2>2, ChainStepCools
<1>9. ASSUME NEW q \in Peer, PeerCloses(q) PROVE Cools'
  <2>1. UNCHANGED <<cooldown, seenClosed, shown, tick>> /\ chan[q].status \in Running /\ ClosesOnChain(q)
    BY <1>9 DEF PeerCloses, strategyVars, Running
  <2> QED BY <1>0, <2>1, ClosesOnChainStep, ChainStepCools
<1>10. CASE Clock
  <2>1. /\ tick.phase = "idle" /\ UNCHANGED <<chan, seenClosed, shown, tick>>
        /\ cooldown' = [p \in Peer |-> Down(cooldown[p])]
        /\ rest' = [p \in Peer |-> Down(rest[p])]
    BY <1>10 DEF Clock, Idle
  <2>2. ASSUME NEW p \in shown' PROVE CoolsAt(p)'
    <3>1. CoolsAt(p) /\ p \in Peer /\ cooldown[p] \in Nat /\ rest[p] \in Nat
      BY <1>0, <2>1 DEF Cools, LoopTyped, ChainTyped
    <3>2. cooldown'[p] = Down(cooldown[p]) /\ rest'[p] = Down(rest[p])
      BY <2>1, <3>1
    <3>3. /\ cooldown[p] = 0 => cooldown'[p] = 0
          /\ rest[p] <= cooldown[p] => rest'[p] <= cooldown'[p]
      BY <3>1, <3>2 DEF Down
    <3> QED BY <2>1, <3>1, <3>3 DEF CoolsAt
  <2> QED BY <1>0, <2>2 DEF Cools
<1> QED BY <1>1, <1>2, <1>3, <1>4, <1>5, <1>6, <1>7, <1>8, <1>9, <1>10 DEF Next, Environment, Leased

\* The property, of one step.
CooledOpens ==
    Ticking => \A t \in NewTxs : t.kind = "open" => rest[t.peer] = 0 \/ t.peer \notin shown

\* Only peers the tick found off cooldown are opened to.
LEMMA OpensCooled ==
    ASSUME Sound, Cools, [Next]_vars
    PROVE  CooledOpens
<1> SUFFICES ASSUME Ticking, NEW t \in NewTxs, t.kind = "open", t.peer \in shown
             PROVE  rest[t.peer] = 0
  BY DEF CooledOpens
<1>1. t \in txs' /\ t \notin txs
  BY DEF NewTxs
<1>2. CASE Resolve
  <2>1. CASE UNCHANGED txs
    BY <1>1, <2>1
  <2>2. CASE \E run, deferred : FundsOnly(run, deferred, Holders(txs, "open"))
    <3>1. PICK run : Adds("fund", Run, run, Peer) /\ txs' = run.txs
      BY <2>2 DEF FundsOnly
    <3>2. t.kind = "fund"
      BY <1>1, <3>1, SoundGives DEF Adds, Suits
    <3> QED BY <3>2
  <2> QED BY <1>2, <2>1, <2>2, ResolveDoes DEF ResolveCases
<1>3. CASE Act
  <2>1. PICK closed, culled, topped, finalized, opened :
           Passes(closed, culled, topped, finalized, opened) /\ txs' = opened.txs
    BY <1>3, ActDoes
  <2>2. /\ Adds("close", Run, closed, ShownOpen)
        /\ Adds("cull", closed, culled, tick.deferred)
        /\ Adds("topup", culled, topped, tick.deferred)
        /\ Adds("finalize", topped, finalized, ShownPending)
        /\ Adds("open", finalized, opened, tick.opens)
    BY <2>1 DEF Passes
  <2>3. t \notin closed.txs
    BY <1>1, <2>2, SoundGives DEF Adds, Suits
  <2>4. t \notin culled.txs
    BY <2>2, <2>3 DEF Adds, Suits
  <2>5. t \notin topped.txs
    BY <2>2, <2>4 DEF Adds, Suits
  <2>6. t \notin finalized.txs
    BY <2>2, <2>5 DEF Adds, Suits
  <2>7. t.peer \in tick.opens
    BY <1>1, <2>1, <2>2, <2>6 DEF Adds, Suits
  <2>8. tick.phase = "select" /\ CoolsAt(t.peer)
    <3>1. shown \subseteq Peer
      BY ShownArePeers
    <3> QED BY <1>3, <3>1 DEF Cools, Act
  <2> QED BY <2>7, <2>8 DEF CoolsAt
<1> QED BY <1>2, <1>3, TicksAreOf

\* The initial states.
LEMMA CoolsFirst ==
    ASSUME Init
    PROVE  Cools
BY DEF Init, Cools

\* No channel is reopened within the cooldown of its closure, when its Closed event was handled
\* while it was still closed, or a snapshot had shown the channel off cooldown.
THEOREM CooldownsHonoured == Spec => CooldownHonoured
<1>1. Sound /\ Cools /\ [Next]_vars
        => [Ticking => \A t \in NewTxs : t.kind = "open"
                          => rest[t.peer] = 0 \/ t.peer \notin shown]_vars
  BY OpensCooled DEF CooledOpens
<1> QED BY <1>1, SoundFirst, SoundKept, CoolsFirst, CoolsKept, PTL DEF Spec, CooldownHonoured

-----------------------------------------------------------------------------
(***************************************************************************)
(* The floor.                                                              *)
(***************************************************************************)
\* What can take the population below it.
Excused ==
    \/ tick.opening # {}
    \/ \E p \in ShownOpen : chan[p].status # "open"
    \/ \E t \in txs : t.kind = "finalize" /\ chan[t.peer].status = "open"
    \/ \E t \in txs : t.kind = "close" /\ ~t.leased

\* Without any of these, the channels shown open and not being closed are as many as the close
\* pass has counted.
LEMMA ActKeepsFloor ==
    ASSUME Sound, CapsHold, Act, TickCloses, ~Excused
    PROVE  Cardinality(StayOpen) >= MinOpen
<1>1. PICK closed, culled, topped, finalized, opened :
         Passes(closed, culled, topped, finalized, opened) /\ txs' = opened.txs
  BY ActDoes
<1>2. /\ Adds("close", Run, closed, ShownOpen) /\ Run.txs = txs
      /\ Adds("cull", closed, culled, tick.deferred)
      /\ Adds("topup", culled, topped, tick.deferred)
      /\ Adds("finalize", topped, finalized, ShownPending)
      /\ Adds("open", finalized, opened, tick.opens)
      /\ Counts("close", closed)
      /\ closed.txs = txs \/ OpenCount(tick.opening) - closed.count >= MinOpen
  BY <1>1, SoundGives DEF Passes
<1>3. tick.deferred = {} /\ \E t \in NewTxs : t.kind = "close"
  BY DEF TickCloses
<1>4. topped.txs = closed.txs
  BY <1>2, <1>3 DEF Adds, Suits
<1>5. \A t \in txs' : t.kind = "close" => t \in closed.txs
  <2>1. \A t \in finalized.txs : t.kind = "close" => t \in topped.txs
    BY <1>2 DEF Adds, Suits
  <2>2. \A t \in opened.txs : t.kind = "close" => t \in finalized.txs
    BY <1>2 DEF Adds, Suits
  <2> QED BY <1>1, <1>4, <2>1, <2>2
<1>6. OpenCount(tick.opening) - closed.count >= MinOpen
  BY <1>2, <1>3, <1>5 DEF NewTxs
<1> DEFINE closing == Holders(closed.txs, "close")
<1>7. ASSUME NEW p \in ShownOpen \cap Closing(txs') PROVE p \in closing
  <2>1. PICK t \in txs' : t.kind \in {"close", "finalize"} /\ t.peer = p
    BY <1>7 DEF Closing
  <2>2. chan[p].status = "open" /\ Shown(p).status = "open"
    BY <1>7 DEF Excused, ShownOpen
  <2>3. CASE t.kind = "close"
    <3>1. t \in closed.txs
      BY <1>5, <2>3
    <3>2. t.leased
      BY <1>2, <2>3, <3>1 DEF Adds, Suits, Excused
    <3> QED BY <2>1, <2>3, <3>1, <3>2 DEF Holders, Leased
  <2>4. CASE t.kind = "finalize"
    <3>1. t \notin txs
      BY <2>1, <2>2, <2>4 DEF Excused
    <3>2. t \notin topped.txs
      BY <1>2, <1>4, <2>4, <3>1 DEF Adds, Suits
    <3>3. t \notin finalized.txs
      BY <1>2, <2>1, <2>2, <3>2 DEF Adds, Suits
    <3>4. t \notin opened.txs
      BY <1>2, <2>4, <3>3 DEF Adds, Suits
    <3> QED BY <1>1, <3>4
  <2> QED BY <2>1, <2>3, <2>4
<1>8. ShownOpen \ closing \subseteq StayOpen /\ StayOpen \subseteq Peer /\ ShownOpen \subseteq Peer
  <2>1. \A p \in ShownOpen : p \in Peer /\ chan[p].status = "open"
    BY DEF Excused, ShownOpen
  <2>2. \A p \in ShownOpen \ closing : p \notin Closing(txs')
    BY <1>7
  <2> HIDE DEF closing
  <2> QED BY <2>1, <2>2 DEF StayOpen
<1>9. /\ Cardinality(closing) <= closed.count /\ Cardinality(closing) \in Nat /\ closed.count \in Nat
      /\ IsFiniteSet(closing)
  BY <1>2, HoldersArePeers DEF Counts, KindOf, Adds, RunOK
<1> HIDE DEF closing
<1>10. IsFiniteSet(ShownOpen) /\ IsFiniteSet(StayOpen) /\ Cardinality(ShownOpen) \in Nat
       /\ Cardinality(StayOpen) \in Nat
  BY <1>8, LifecycleAssumption, FS_Subset, FS_CardinalityType
<1>11. Cardinality(ShownOpen \ closing) = Cardinality(ShownOpen) - Cardinality(ShownOpen \cap closing)
  BY <1>10, FS_Difference
<1>12. /\ Cardinality(ShownOpen \cap closing) <= Cardinality(closing)
       /\ Cardinality(ShownOpen \cap closing) \in Nat
  <2>1. ShownOpen \cap closing \in SUBSET closing
    OBVIOUS
  <2> QED BY <1>9, <2>1, FS_Subset, FS_CardinalityType
<1>13. Cardinality(ShownOpen \ closing) <= Cardinality(StayOpen)
  <2>1. ShownOpen \ closing \in SUBSET StayOpen
    BY <1>8
  <2> QED BY <1>10, <2>1, FS_Subset
<1>14. OpenCount(tick.opening) = Cardinality(ShownOpen)
  <2>1. Cardinality(tick.opening) = 0
    BY FS_EmptySet DEF Excused
  <2> QED BY <1>10, <2>1 DEF OpenCount
<1>15. MinOpen \in Nat
  BY LifecycleAssumption
<1> QED BY <1>6, <1>9, <1>10, <1>11, <1>12, <1>13, <1>14, <1>15

\* The fund pass closes nothing.
LEMMA FloorStep ==
    ASSUME Sound, CapsHold, [Next]_vars
    PROVE  TickCloses => Cardinality(StayOpen) >= MinOpen \/ Excused
<1> SUFFICES ASSUME TickCloses, ~Excused PROVE Cardinality(StayOpen) >= MinOpen
  OBVIOUS
<1>1. Ticking /\ \E t \in NewTxs : t.kind = "close"
  BY DEF TickCloses
<1>2. CASE Resolve
  <2>1. CASE UNCHANGED txs
    BY <1>1, <2>1 DEF NewTxs
  <2>2. CASE \E run, deferred : FundsOnly(run, deferred, Holders(txs, "open"))
    <3>1. PICK run : Adds("fund", Run, run, Peer) /\ txs' = run.txs
      BY <2>2 DEF FundsOnly
    <3>2. \A t \in NewTxs : t.kind = "fund"
      BY <3>1, SoundGives DEF Adds, Suits, NewTxs
    <3> QED BY <1>1, <3>2
  <2> QED BY <1>2, <2>1, <2>2, ResolveDoes DEF ResolveCases
<1> QED BY <1>1, <1>2, ActKeepsFloor, TicksAreOf

\* A tick that closes leaves the floor open, or one of the four listed things happened between
\* its snapshot and its close pass.
THEOREM FloorsExplained == Spec => FloorExplained
<1>1. Sound /\ CapsHold /\ [Next]_vars
        => [TickCloses => \/ Cardinality(StayOpen) >= MinOpen
                          \/ tick.opening # {}
                          \/ \E p \in ShownOpen : chan[p].status # "open"
                          \/ \E t \in txs : t.kind = "finalize" /\ chan[t.peer].status = "open"
                          \/ \E t \in txs : t.kind = "close" /\ ~t.leased]_vars
  BY FloorStep DEF Excused
<1> QED BY <1>1, SoundFirst, SoundKept, CapsFirst, CapsKept, PTL DEF Spec, FloorExplained
=============================================================================
